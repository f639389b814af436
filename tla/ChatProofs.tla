----------------------------- MODULE ChatProofs -----------------------------
(***************************************************************************)
(* Theorems about Chat, for any number of turns and conversations, any      *)
(* window and any faults: types, turns that are whole, follow-ups that are  *)
(* answered and that see what was said before; and histories of whole       *)
(* turns, if the window is even.                                            *)
(***************************************************************************)
EXTENDS Chat, FunctionTheorems, FiniteSetTheorems, TLAPS

USE TurnsAssumption, ConvsAssumption, WindowAssumption, FaultsAssumption

-----------------------------------------------------------------------------
(* The invariant, in named parts. *)

\* Before its transaction begins, a turn has no date.
Before == {"idle", "asked", "primed", "answered"}
\* Once it is under way, it has one.
Under  == {"persisting", "stored", "done"}

\* The turns whose transaction has begun.
Begun == {t \in Turns : turns[t].at # 0}

\* No two transactions have the same date, none is in the future, and time counts them.
Dated ==
  /\ \A t \in Turns : /\ turns[t].place \in Before => turns[t].at = 0
                      /\ turns[t].place \in Under => turns[t].at # 0
                      /\ turns[t].at <= time
  /\ \A t, u \in Turns : turns[t].at = turns[u].at => t = u \/ turns[t].at = 0
  /\ time = Cardinality(Begun)

\* The rows of a turn are there together, in a conversation that is there, once and as
\* long as it has committed.
Whole(t) ==
  /\ RowsBy(t) \in {{}, NewRows(t)}
  /\ RowsBy(t) # {} => /\ turns[t].conv \in convs /\ turns[t].at # 0
                       /\ turns[t].place \in {"stored", "done", "failed", "gone"}
  /\ turns[t].place \in {"stored", "done"} => RowsBy(t) # {}
  /\ turns[t].place = "failed" /\ ~turns[t].hurt => RowsBy(t) = {}

\* So it is for every turn.
WholeRows == \A t \in Turns : Whole(t)

\* What a client has seen stays, and what it names is found.
Answerable ==
  \A t \in Turns :
    /\ turns[t].existed => turns[t].conv \in convs
    /\ turns[t].existed /\ turns[t].place = "persisting" => turns[t].seen
    /\ turns[t].existed /\ turns[t].place = "failed" => turns[t].hurt

\* The turns a client could know stay done, in the same conversation.
PriorDone ==
  \A t \in Turns : \A p \in turns[t].prior :
    /\ turns[t].place # "idle"
    /\ turns[p].place = "done" /\ turns[p].conv = turns[t].conv

\* The history reaches back to a turn, or is full of newer ones.
Reaches(H, p) ==
  \/ \E m \in H : m.turn = p
  \/ Cardinality(H) = Window /\ \A m \in H : m.at > turns[p].at

\* FollowUpSeesPrior, in every place after the history is loaded.
Followed ==
  \A t \in Turns : \A p \in turns[t].prior :
    turns[t].place \in {"primed", "answered"} \cup Under /\ ~turns[t].blind =>
      Reaches(turns[t].history, p)

\* Types, dates and rows: what the rest rests on.
Ground == TypeOK /\ IsFiniteSet(rows) /\ Dated /\ WholeRows

\* The inductive invariant.
Inv == Ground /\ Answerable /\ PriorDone /\ Followed

-----------------------------------------------------------------------------
(* The steps, by what they do to the turn. *)

\* A step that only takes a turn on to its next place, or to its end.
Goes(t) ==
  /\ UNCHANGED <<convs, rows, time>>
  /\ \A u \in Turns \ {t} : turns'[u] = turns[u]
  /\ \E place \in Places, hurt \in BOOLEAN :
       /\ turns' = [turns EXCEPT ![t].place = place, ![t].hurt = hurt]
       /\ \/ turns[t].place = "primed" /\ place = "answered" /\ hurt = turns[t].hurt
          \/ turns[t].place = "stored" /\ place = "done" /\ hurt = turns[t].hurt
          \/ /\ turns[t].place = "persisting" /\ place = "failed" /\ hurt = turns[t].hurt
             /\ ~turns[t].seen
          \/ /\ turns[t].place \in {"primed", "answered", "persisting", "stored"}
             /\ place = "failed" /\ hurt = TRUE
          \/ /\ turns[t].place \in {"asked", "primed", "answered", "persisting", "stored"}
             /\ place = "gone" /\ hurt = turns[t].hurt

\* A turn's record, field by field, whatever its place and hurt become.
LEMMA GoesFields ==
  ASSUME TypeOK, NEW t \in Turns, NEW place \in Places, NEW hurt \in BOOLEAN,
         turns' = [turns EXCEPT ![t].place = place, ![t].hurt = hurt]
  PROVE  /\ turns' \in [Turns -> Turn]
         /\ \A u \in Turns \ {t} : turns'[u] = turns[u]
         /\ turns'[t].place = place /\ turns'[t].hurt = hurt
         /\ turns'[t].conv = turns[t].conv /\ turns'[t].at = turns[t].at
         /\ turns'[t].seen = turns[t].seen /\ turns'[t].existed = turns[t].existed
         /\ turns'[t].history = turns[t].history /\ turns'[t].prior = turns[t].prior
         /\ turns'[t].blind = turns[t].blind
<1> DEFINE new == [turns[t] EXCEPT !.place = place, !.hurt = hurt]
<1>1. turns \in [Turns -> Turn] /\ turns[t] \in Turn
  BY DEF TypeOK
<1>2. new \in Turn
  BY <1>1 DEF Turn
<1>3. /\ new.place = place /\ new.hurt = hurt
      /\ new.conv = turns[t].conv /\ new.at = turns[t].at
      /\ new.seen = turns[t].seen /\ new.existed = turns[t].existed
      /\ new.history = turns[t].history /\ new.prior = turns[t].prior
      /\ new.blind = turns[t].blind
  BY <1>1 DEF Turn
<1>4. turns' = [turns EXCEPT ![t] = new]
  BY <1>1
<1> HIDE DEF new
<1>5. QED BY <1>1, <1>2, <1>3, <1>4, ZenonT(60)

\* A step that leaves hurt alone, as the one above.
LEMMA GotoFields ==
  ASSUME TypeOK, NEW t \in Turns, NEW place \in Places, Goto(t, place)
  PROVE  /\ turns' \in [Turns -> Turn]
         /\ \A u \in Turns \ {t} : turns'[u] = turns[u]
         /\ turns' = [turns EXCEPT ![t].place = place, ![t].hurt = turns[t].hurt]
         /\ turns[t].hurt \in BOOLEAN
         /\ turns'[t].place = place /\ turns'[t].hurt = turns[t].hurt
         /\ turns'[t].conv = turns[t].conv /\ turns'[t].at = turns[t].at
         /\ turns'[t].seen = turns[t].seen /\ turns'[t].existed = turns[t].existed
         /\ turns'[t].history = turns[t].history /\ turns'[t].prior = turns[t].prior
         /\ turns'[t].blind = turns[t].blind
<1> DEFINE new == [turns[t] EXCEPT !.place = place]
           old == [turns[t] EXCEPT !.place = place, !.hurt = turns[t].hurt]
<1>1. turns \in [Turns -> Turn] /\ turns[t] \in Turn /\ turns[t].hurt \in BOOLEAN
  BY DEF TypeOK, Turn
<1>2. new \in Turn /\ new = old
  BY <1>1 DEF Turn
<1>3. /\ turns' = [turns EXCEPT ![t] = new]
      /\ [turns EXCEPT ![t].place = place, ![t].hurt = turns[t].hurt] = [turns EXCEPT ![t] = old]
  BY <1>1 DEF Goto
<1> HIDE DEF new, old
<1>4. turns' = [turns EXCEPT ![t].place = place, ![t].hurt = turns[t].hurt]
  BY <1>2, <1>3
<1>5. QED BY <1>1, <1>4, GoesFields, ZenonT(60)

\* Every step of a turn is one of these.
LEMMA StepKinds ==
  ASSUME TypeOK, [Next]_vars
  PROVE  \/ UNCHANGED vars
         \/ \E t \in Turns : Ask(t) \/ LoadHistory(t) \/ Look(t) \/ Commit(t) \/ Goes(t)
<1>1. ASSUME NEW t \in Turns, Answer(t) \/ Finish(t) \/ InsertRefused(t) \/ Leave(t)
      PROVE  Goes(t)
  <2>1. {"answered", "done", "failed", "gone"} \subseteq Places
    BY DEF Places
  <2>2. PICK place \in {"answered", "done", "failed", "gone"} :
          /\ Goto(t, place)
          /\ \/ turns[t].place = "primed" /\ place = "answered"
             \/ turns[t].place = "stored" /\ place = "done"
             \/ turns[t].place = "persisting" /\ place = "failed" /\ ~turns[t].seen
             \/ /\ turns[t].place \in {"asked", "primed", "answered", "persisting", "stored"}
                /\ place = "gone"
    BY <1>1 DEF Answer, Finish, InsertRefused, Leave, At
  <2>3. UNCHANGED <<convs, rows, time>>
    BY <1>1 DEF Answer, Finish, InsertRefused, Leave
  <2>4. QED BY <2>1, <2>2, <2>3, GotoFields, ZenonT(60) DEF Goes
<1>2. ASSUME NEW t \in Turns, Fail(t)
      PROVE  Goes(t)
  <2>1. "failed" \in Places
    BY DEF Places
  <2>2. /\ turns' = [turns EXCEPT ![t].place = "failed", ![t].hurt = TRUE]
        /\ turns[t].place \in {"primed", "answered", "persisting", "stored"}
        /\ UNCHANGED <<convs, rows, time>>
    BY <1>2 DEF Fail, At
  <2>3. \A u \in Turns \ {t} : turns'[u] = turns[u]
    BY <2>1, <2>2, GoesFields
  <2>4. QED BY <2>1, <2>2, <2>3 DEF Goes
<1>3. QED BY <1>1, <1>2 DEF Next

\* The turn that is asked,
LEMMA AskFields ==
  ASSUME TypeOK, NEW t \in Turns, Ask(t)
  PROVE  /\ turns' \in [Turns -> Turn] /\ UNCHANGED <<convs, rows, time>>
         /\ \A u \in Turns \ {t} : turns'[u] = turns[u]
         /\ turns[t].place = "idle" /\ turns'[t].place = "asked"
         /\ turns'[t].existed <=> turns'[t].conv \in convs
         /\ turns'[t].prior = {u \in Turns : At(u, "done") /\ turns[u].conv = turns'[t].conv}
         /\ turns'[t].at = turns[t].at /\ turns'[t].hurt = turns[t].hurt
         /\ turns'[t].blind = turns[t].blind /\ turns'[t].history = turns[t].history
<1>1. PICK via \in {"sse", "rest"}, human \in BOOLEAN, c \in Convs, named \in BOOLEAN :
        /\ via = "sse" => human
        /\ ~named => c \notin convs \cup {turns[u].conv : u \in Active}
        /\ named => c \in convs \/ \A u \in Active : turns[u].conv = c => turns[u].named
        /\ turns' = [turns EXCEPT ![t].place = "asked", ![t].via = via, ![t].human = human,
            ![t].conv = c, ![t].named = named, ![t].existed = c \in convs,
            ![t].prior = {u \in Turns : At(u, "done") /\ turns[u].conv = c}]
  BY Zenon DEF Ask
<1> DEFINE prior == {u \in Turns : At(u, "done") /\ turns[u].conv = c}
           existed == c \in convs
           new == [turns[t] EXCEPT !.place = "asked", !.via = via, !.human = human, !.conv = c,
                     !.named = named, !.existed = existed, !.prior = prior]
<1>2. turns \in [Turns -> Turn] /\ turns[t] \in Turn
  BY DEF TypeOK
<1>3. turns' = [turns EXCEPT ![t] = new]
  BY <1>1, <1>2
<1>4. prior \in SUBSET Turns /\ existed \in BOOLEAN /\ "asked" \in Places
  BY DEF Places
<1>5. UNCHANGED <<convs, rows, time>> /\ turns[t].place = "idle"
  BY DEF Ask, At
<1>6. /\ new \in Turn
      /\ new.place = "asked" /\ new.existed = existed /\ new.conv = c /\ new.prior = prior
      /\ new.at = turns[t].at /\ new.hurt = turns[t].hurt
      /\ new.blind = turns[t].blind /\ new.history = turns[t].history
  <2> HIDE DEF prior, existed
  <2>1. QED BY <1>2, <1>4, ZenonT(60) DEF Turn
<1>7. /\ turns'[t] = new /\ \A u \in Turns \ {t} : turns'[u] = turns[u]
      /\ turns' \in [Turns -> Turn]
  <2> HIDE DEF new
  <2>1. QED BY <1>2, <1>3, <1>6
<1> HIDE DEF new
<1>8. QED BY <1>5, <1>6, <1>7

\* that has loaded its history, or goes on without,
LEMMA LoadFields ==
  ASSUME TypeOK, NEW t \in Turns, LoadHistory(t)
  PROVE  /\ turns' \in [Turns -> Turn] /\ UNCHANGED <<convs, rows, time>>
         /\ \A u \in Turns \ {t} : turns'[u] = turns[u]
         /\ turns[t].place = "asked" /\ turns'[t].place = "primed"
         /\ turns'[t].existed = turns[t].existed /\ turns'[t].conv = turns[t].conv
         /\ turns'[t].prior = turns[t].prior
         /\ turns'[t].at = turns[t].at /\ turns'[t].hurt = turns[t].hurt
         /\ \/ turns'[t].history \in NewestOf(turns[t].conv) /\ turns'[t].blind = turns[t].blind
            \/ turns'[t].history = turns[t].history /\ turns'[t].blind
<1>1. turns \in [Turns -> Turn] /\ turns[t] \in Turn /\ "primed" \in Places
  BY DEF TypeOK, Places
<1>2. UNCHANGED <<convs, rows, time>> /\ turns[t].place = "asked"
  BY DEF LoadHistory, At
<1>3. CASE \E H \in NewestOf(turns[t].conv) :
             turns' = [turns EXCEPT ![t].place = "primed", ![t].history = H]
  <2>1. PICK H \in NewestOf(turns[t].conv) :
          turns' = [turns EXCEPT ![t].place = "primed", ![t].history = H]
    BY <1>3
  <2>2. H \in SUBSET Message
    BY DEF NewestOf, RowsOf, TypeOK
  <2> DEFINE new == [turns[t] EXCEPT !.place = "primed", !.history = H]
  <2>3. turns' = [turns EXCEPT ![t] = new]
    BY <1>1, <2>1
  <2>4. /\ new \in Turn /\ new.place = "primed" /\ new.existed = turns[t].existed
        /\ new.conv = turns[t].conv /\ new.prior = turns[t].prior /\ new.at = turns[t].at
        /\ new.hurt = turns[t].hurt /\ new.history = H /\ new.blind = turns[t].blind
    BY <1>1, <2>2 DEF Turn
  <2> HIDE DEF new
  <2>5. QED BY <1>1, <1>2, <2>3, <2>4
<1>4. CASE turns' = [turns EXCEPT ![t].place = "primed", ![t].blind = TRUE]
  <2> DEFINE new == [turns[t] EXCEPT !.place = "primed", !.blind = TRUE]
  <2>1. turns' = [turns EXCEPT ![t] = new]
    BY <1>1, <1>4
  <2>2. /\ new \in Turn /\ new.place = "primed" /\ new.existed = turns[t].existed
        /\ new.conv = turns[t].conv /\ new.prior = turns[t].prior /\ new.at = turns[t].at
        /\ new.hurt = turns[t].hurt /\ new.history = turns[t].history /\ new.blind
    BY <1>1 DEF Turn
  <2> HIDE DEF new
  <2>3. QED BY <1>1, <1>2, <2>1, <2>2
<1>5. QED BY <1>3, <1>4 DEF LoadHistory

\* and whose transaction has begun.
LEMMA LookFields ==
  ASSUME TypeOK, NEW t \in Turns, Look(t), time + 1 \in Stamps
  PROVE  /\ turns' \in [Turns -> Turn] /\ UNCHANGED <<convs, rows>> /\ time' = time + 1
         /\ \A u \in Turns \ {t} : turns'[u] = turns[u]
         /\ turns[t].place = "answered" /\ turns'[t].place = "persisting"
         /\ turns'[t].existed = turns[t].existed /\ turns'[t].conv = turns[t].conv
         /\ turns'[t].seen <=> turns[t].conv \in convs
         /\ turns'[t].prior = turns[t].prior /\ turns'[t].at = time + 1
         /\ turns'[t].hurt = turns[t].hurt /\ turns'[t].blind = turns[t].blind
         /\ turns'[t].history = turns[t].history
<1> DEFINE seen == turns[t].conv \in convs
           new == [turns[t] EXCEPT !.place = "persisting", !.at = time + 1, !.seen = seen]
<1>1. /\ turns \in [Turns -> Turn] /\ turns[t] \in Turn /\ "persisting" \in Places
      /\ seen \in BOOLEAN
  BY DEF TypeOK, Places
<1>2. UNCHANGED <<convs, rows>> /\ turns[t].place = "answered" /\ time' = time + 1
  BY DEF Look, At
<1>3. turns' = [turns EXCEPT ![t] = new]
  BY <1>1 DEF Look
<1>4. /\ new \in Turn /\ new.place = "persisting" /\ new.existed = turns[t].existed
      /\ new.conv = turns[t].conv /\ new.prior = turns[t].prior /\ new.at = time + 1
      /\ new.hurt = turns[t].hurt /\ new.history = turns[t].history
      /\ new.blind = turns[t].blind /\ new.seen = seen
  <2> HIDE DEF seen
  <2>1. QED BY <1>1 DEF Turn
<1>5. /\ turns'[t] = new /\ \A u \in Turns \ {t} : turns'[u] = turns[u]
      /\ turns' \in [Turns -> Turn]
  <2> HIDE DEF new
  <2>1. QED BY <1>1, <1>3, <1>4
<1> HIDE DEF new
<1>6. QED BY <1>2, <1>4, <1>5

-----------------------------------------------------------------------------
(* Types, dates and rows. *)

\* There is a date left for a turn whose transaction has not begun.
LEMMA TimeLeft ==
  ASSUME TypeOK, Dated, NEW t \in Turns, turns[t].at = 0
  PROVE  /\ time + 1 \in Stamps
         /\ Cardinality(Begun \cup {t}) = time + 1
<1>1. Begun \cup {t} \in SUBSET Turns /\ t \notin Begun
  BY DEF Begun
<1>2. /\ IsFiniteSet(Begun \cup {t}) /\ Cardinality(Begun \cup {t}) <= Cardinality(Turns)
      /\ IsFiniteSet(Begun) /\ Cardinality(Turns) \in Nat
  BY <1>1, FS_Subset, FS_CardinalityType
<1>3. Cardinality(Begun \cup {t}) = Cardinality(Begun) + 1
  BY <1>1, <1>2, FS_AddElement
<1>4. time \in Nat
  BY <1>2 DEF TypeOK, Stamps
<1>5. QED BY <1>2, <1>3, <1>4 DEF Dated, Stamps

\* A turn's two rows.
LEMMA TwoRows ==
  ASSUME TypeOK, NEW t \in Turns
  PROVE  /\ NewRows(t) \subseteq Message /\ NewRows(t) # {} /\ IsFiniteSet(NewRows(t))
         /\ \A m \in NewRows(t) : m.turn = t /\ m.conv = turns[t].conv /\ m.at = turns[t].at
<1> DEFINE row(role) == [turn |-> t, role |-> role, conv |-> turns[t].conv, at |-> turns[t].at]
<1>1. NewRows(t) = {row("user"), row("assistant")}
  <2>1. \A m \in NewRows(t) : m = row(m.role) /\ m.role \in {"user", "assistant"}
    BY DEF NewRows, Roles
  <2>2. row("user") \in NewRows(t) /\ row("assistant") \in NewRows(t)
    BY DEF NewRows, Roles
  <2> HIDE DEF row
  <2>3. QED BY <2>1, <2>2
<1>2. turns[t].conv \in Convs /\ turns[t].at \in Stamps
  BY DEF TypeOK, Turn
<1>3. row("user") \in Message /\ row("assistant") \in Message
  BY <1>2 DEF Message, Roles
<1>4. IsFiniteSet(NewRows(t))
  <2> HIDE DEF row
  <2>1. IsFiniteSet({row("user")}) /\ IsFiniteSet({row("user")} \cup {row("assistant")})
    BY FS_Singleton, FS_AddElement
  <2>2. NewRows(t) = {row("user")} \cup {row("assistant")}
    BY <1>1
  <2>3. QED BY <2>1, <2>2
<1>5. \A m \in NewRows(t) : m.turn = t /\ m.conv = turns[t].conv /\ m.at = turns[t].at
  BY DEF NewRows
<1>6. QED BY <1>1, <1>3, <1>4, <1>5

\* The types,
LEMMA TypeStep ==
  ASSUME Ground, [Next]_vars
  PROVE  TypeOK' /\ IsFiniteSet(rows')
<1>1. TypeOK /\ Dated /\ IsFiniteSet(rows)
  BY DEF Ground
<1>2. CASE UNCHANGED vars
  BY <1>1, <1>2 DEF vars, TypeOK
<1>3. ASSUME NEW t \in Turns, Ask(t) \/ LoadHistory(t)
      PROVE  TypeOK' /\ IsFiniteSet(rows')
  <2>1. turns' \in [Turns -> Turn] /\ UNCHANGED <<convs, rows, time>>
    BY <1>1, <1>3, AskFields, LoadFields
  <2>2. QED BY <1>1, <2>1 DEF TypeOK
<1>4. ASSUME NEW t \in Turns, Look(t)
      PROVE  TypeOK' /\ IsFiniteSet(rows')
  <2>1. turns[t].at = 0
    BY <1>1, <1>4 DEF Dated, Look, At, Before
  <2>2. time + 1 \in Stamps
    BY <1>1, <2>1, TimeLeft
  <2>3. turns' \in [Turns -> Turn] /\ UNCHANGED <<convs, rows>> /\ time' = time + 1
    BY <1>1, <1>4, <2>2, LookFields
  <2>4. QED BY <1>1, <2>2, <2>3 DEF TypeOK
<1>5. ASSUME NEW t \in Turns, Commit(t)
      PROVE  TypeOK' /\ IsFiniteSet(rows')
  <2>1. /\ convs' = convs \cup {turns[t].conv} /\ rows' = rows \cup NewRows(t)
        /\ Goto(t, "stored") /\ time' = time /\ "stored" \in Places
    BY <1>5 DEF Commit, Places
  <2>2. turns' \in [Turns -> Turn] /\ turns[t].conv \in Convs
    BY <1>1, <2>1, GotoFields DEF TypeOK, Turn
  <2>3. NewRows(t) \subseteq Message /\ IsFiniteSet(rows \cup NewRows(t))
    BY <1>1, TwoRows, FS_Union
  <2>4. QED BY <1>1, <2>1, <2>2, <2>3 DEF TypeOK
<1>6. ASSUME NEW t \in Turns, Goes(t)
      PROVE  TypeOK' /\ IsFiniteSet(rows')
  <2>1. turns' \in [Turns -> Turn] /\ UNCHANGED <<convs, rows, time>>
    BY <1>1, <1>6, GoesFields DEF Goes
  <2>2. QED BY <1>1, <2>1 DEF TypeOK
<1>7. QED BY <1>1, <1>2, <1>3, <1>4, <1>5, <1>6, StepKinds

\* the dates, where a step gives none
LEMMA DatedKept ==
  ASSUME TypeOK, Dated, NEW t \in Turns, time' = time,
         \A u \in Turns \ {t} : turns'[u] = turns[u],
         turns'[t].at = turns[t].at,
         turns'[t].place \in Before => turns[t].place \in Before,
         turns'[t].place \in Under => turns[t].place \in Under
  PROVE  Dated'
<1>1. \A u \in Turns : turns'[u].at = turns[u].at
  OBVIOUS
<1>2. Begun' = Begun
  BY <1>1 DEF Begun
<1>3. QED BY <1>1, <1>2 DEF Dated

\* and where one does,
LEMMA DatedStep ==
  ASSUME Ground, [Next]_vars
  PROVE  Dated'
<1>1. TypeOK /\ Dated
  BY DEF Ground
<1>2. CASE UNCHANGED vars
  BY <1>1, <1>2 DEF vars, Dated, Begun
<1>3. ASSUME NEW t \in Turns, Ask(t) \/ LoadHistory(t)
      PROVE  Dated'
  <2>1. /\ time' = time /\ \A u \in Turns \ {t} : turns'[u] = turns[u]
        /\ turns'[t].at = turns[t].at /\ turns[t].place \in {"idle", "asked"}
        /\ turns'[t].place \in {"asked", "primed"}
    BY <1>1, <1>3, AskFields, LoadFields
  <2>2. QED BY <1>1, <2>1, DatedKept DEF Before, Under
<1>4. ASSUME NEW t \in Turns, Look(t)
      PROVE  Dated'
  <2>1. turns[t].at = 0 /\ t \notin Begun
    BY <1>1, <1>4 DEF Dated, Look, At, Before, Begun
  <2>2. time + 1 \in Stamps /\ Cardinality(Begun \cup {t}) = time + 1
    BY <1>1, <2>1, TimeLeft
  <2>3. /\ \A u \in Turns \ {t} : turns'[u] = turns[u]
        /\ turns'[t].at = time + 1 /\ turns'[t].place = "persisting" /\ time' = time + 1
    BY <1>1, <1>4, <2>2, LookFields
  <2>4. time \in Nat /\ \A u \in Turns : turns[u].at \in Nat
    BY <1>1, FS_CardinalityType DEF TypeOK, Turn, Stamps
  <2>5. Begun' = Begun \cup {t}
    BY <2>3, <2>4 DEF Begun
  <2>6. \A u \in Turns : /\ (turns[u].place \in Before => turns[u].at = 0)'
                         /\ (turns[u].place \in Under => turns[u].at # 0)'
                         /\ (turns[u].at <= time)'
    BY <1>1, <2>3, <2>4 DEF Dated, Before, Under
  <2>7. \A u, v \in Turns : (turns[u].at = turns[v].at => u = v \/ turns[u].at = 0)'
    BY <1>1, <2>3, <2>4 DEF Dated
  <2>8. QED BY <2>2, <2>3, <2>5, <2>6, <2>7 DEF Dated
<1>5. ASSUME NEW t \in Turns, Commit(t)
      PROVE  Dated'
  <2>1. /\ Goto(t, "stored") /\ time' = time /\ "stored" \in Places
        /\ turns[t].place = "persisting"
    BY <1>5 DEF Commit, Places, At
  <2>2. /\ \A u \in Turns \ {t} : turns'[u] = turns[u]
        /\ turns'[t].at = turns[t].at /\ turns'[t].place = "stored"
    BY <1>1, <2>1, GotoFields
  <2>3. QED BY <1>1, <2>1, <2>2, DatedKept DEF Before, Under
<1>6. ASSUME NEW t \in Turns, Goes(t)
      PROVE  Dated'
  <2>1. PICK place \in Places, hurt \in BOOLEAN :
          /\ turns' = [turns EXCEPT ![t].place = place, ![t].hurt = hurt]
          /\ \/ turns[t].place = "primed" /\ place = "answered"
             \/ turns[t].place = "stored" /\ place = "done"
             \/ place \in {"failed", "gone"}
    BY <1>6 DEF Goes
  <2>2. /\ time' = time /\ \A u \in Turns \ {t} : turns'[u] = turns[u]
        /\ turns'[t].at = turns[t].at /\ turns'[t].place = place
    <3>1. UNCHANGED <<convs, rows, time>>
      BY <1>6 DEF Goes
    <3>2. turns' = [turns EXCEPT ![t].place = place, ![t].hurt = hurt]
      BY <2>1
    <3>3. QED BY <1>1, <3>1, <3>2, GoesFields
  <2>3. QED BY <1>1, <2>1, <2>2, DatedKept DEF Before, Under
<1>7. QED BY <1>1, <1>2, <1>3, <1>4, <1>5, <1>6, StepKinds

\* the rows of the other turns,
LEMMA WholeElsewhere ==
  ASSUME NEW u \in Turns, Whole(u), convs \subseteq convs', turns'[u] = turns[u],
         RowsBy(u)' = RowsBy(u)
  PROVE  Whole(u)'
<1>1. NewRows(u)' = NewRows(u)
  BY DEF NewRows
<1>2. QED BY <1>1 DEF Whole

\* and those of the turn itself.
LEMMA WholeStep ==
  ASSUME Ground, [Next]_vars
  PROVE  WholeRows'
<1>1. TypeOK /\ Dated /\ WholeRows
  BY DEF Ground
<1>2. CASE UNCHANGED vars
  BY <1>1, <1>2 DEF vars, WholeRows, Whole, RowsBy, NewRows
<1>3. ASSUME NEW t \in Turns, \A u \in Turns \ {t} : turns'[u] = turns[u],
             convs \subseteq convs', Whole(t)', rows' = rows \/ rows' = rows \cup NewRows(t)
      PROVE  WholeRows'
  <2>1. \A u \in Turns \ {t} : RowsBy(u)' = RowsBy(u)
    BY <1>1, <1>3, TwoRows DEF RowsBy
  <2>2. \A u \in Turns \ {t} : Whole(u)'
    BY <1>1, <1>3, <2>1, WholeElsewhere DEF WholeRows
  <2>3. QED BY <1>3, <2>2 DEF WholeRows
<1>4. ASSUME NEW t \in Turns, Ask(t) \/ LoadHistory(t) \/ Look(t)
      PROVE  WholeRows'
  <2>1. turns[t].place \in Before \ {"stored", "done", "failed", "gone"}
    BY <1>4 DEF Ask, LoadHistory, Look, At, Before
  <2>2. RowsBy(t) = {}
    BY <1>1, <2>1 DEF WholeRows, Whole, Before
  <2>3. Look(t) => time + 1 \in Stamps
    BY <1>1, <2>1, TimeLeft DEF Dated
  <2>4. /\ UNCHANGED <<convs, rows>> /\ \A u \in Turns \ {t} : turns'[u] = turns[u]
        /\ turns'[t].place \in {"asked", "primed", "persisting"}
    BY <1>1, <1>4, <2>3, AskFields, LoadFields, LookFields
  <2>5. RowsBy(t)' = {}
    BY <2>2, <2>4 DEF RowsBy
  <2>6. Whole(t)'
    BY <2>4, <2>5 DEF Whole
  <2>7. QED BY <1>3, <2>4, <2>6
<1>5. ASSUME NEW t \in Turns, Commit(t)
      PROVE  WholeRows'
  <2>1. /\ Goto(t, "stored") /\ "stored" \in Places /\ turns[t].place = "persisting"
        /\ convs' = convs \cup {turns[t].conv} /\ rows' = rows \cup NewRows(t)
    BY <1>5 DEF Commit, Places, At
  <2>2. /\ \A u \in Turns \ {t} : turns'[u] = turns[u]
        /\ turns'[t].at = turns[t].at /\ turns'[t].place = "stored"
        /\ turns'[t].conv = turns[t].conv
    BY <1>1, <2>1, GotoFields
  <2>3. RowsBy(t) = {} /\ turns[t].at # 0
    BY <1>1, <2>1 DEF WholeRows, Whole, Dated, Under
  <2>4. RowsBy(t)' = NewRows(t) /\ NewRows(t)' = NewRows(t) /\ NewRows(t) # {}
    <3>1. NewRows(t)' = NewRows(t)
      BY <2>2 DEF NewRows
    <3>2. NewRows(t) # {} /\ \A m \in NewRows(t) : m.turn = t
      BY <1>1, TwoRows
    <3>3. RowsBy(t)' = NewRows(t)
      BY <2>1, <2>3, <3>2 DEF RowsBy
    <3>4. QED BY <3>1, <3>2, <3>3
  <2>5. Whole(t)'
    BY <2>1, <2>2, <2>3, <2>4 DEF Whole
  <2>6. QED BY <1>3, <2>1, <2>2, <2>5
<1>6. ASSUME NEW t \in Turns, Goes(t)
      PROVE  WholeRows'
  <2>1. PICK place \in Places, hurt \in BOOLEAN :
          /\ turns' = [turns EXCEPT ![t].place = place, ![t].hurt = hurt]
          /\ \/ turns[t].place = "primed" /\ place = "answered" /\ hurt = turns[t].hurt
             \/ turns[t].place = "stored" /\ place = "done" /\ hurt = turns[t].hurt
             \/ turns[t].place = "persisting" /\ place = "failed"
             \/ place = "failed" /\ hurt = TRUE
             \/ place = "gone"
    BY <1>6 DEF Goes
  <2>2. /\ \A u \in Turns \ {t} : turns'[u] = turns[u]
        /\ turns'[t].at = turns[t].at /\ turns'[t].conv = turns[t].conv
        /\ turns'[t].place = place /\ turns'[t].hurt = hurt
        /\ UNCHANGED <<convs, rows>>
    <3>1. UNCHANGED <<convs, rows, time>>
      BY <1>6 DEF Goes
    <3>2. turns' = [turns EXCEPT ![t].place = place, ![t].hurt = hurt]
      BY <2>1
    <3>3. QED BY <1>1, <3>1, <3>2, GoesFields
  <2>3. RowsBy(t)' = RowsBy(t) /\ NewRows(t)' = NewRows(t) /\ Whole(t)
    BY <1>1, <2>2 DEF RowsBy, NewRows, WholeRows
  <2>4. Whole(t)'
    BY <2>1, <2>2, <2>3 DEF Whole
  <2>5. QED BY <1>3, <2>2, <2>4
<1>7. QED BY <1>1, <1>2, <1>4, <1>5, <1>6, StepKinds

\* At the start nothing has been asked and nothing is there.
LEMMA GroundInit == Init => Ground
<1> SUFFICES ASSUME Init PROVE Ground
  OBVIOUS
<1> DEFINE c == CHOOSE c \in Convs : TRUE
           idle == [place |-> "idle", via |-> "sse", human |-> TRUE, conv |-> c,
                    named |-> FALSE, history |-> {}, seen |-> FALSE, at |-> 0,
                    existed |-> FALSE, prior |-> {}, blind |-> FALSE, hurt |-> FALSE]
<1>1. c \in Convs
  OBVIOUS
<1>2. /\ convs = {} /\ rows = {} /\ time = 0 /\ turns \in [Turns -> {idle}]
      /\ \A t \in Turns : turns[t] = idle
  BY DEF Init
<1> HIDE DEF c
<1>3. Cardinality(Turns) \in Nat /\ 0 \in Stamps
  BY FS_CardinalityType DEF Stamps
<1>4. idle \in Turn
  BY <1>1, <1>3 DEF Turn, Places
<1>5. TypeOK
  <2> HIDE DEF idle
  <2>1. QED BY <1>2, <1>3, <1>4 DEF TypeOK
<1>6. /\ \A t \in Turns : turns[t].at = 0 /\ turns[t].place = "idle"
      /\ Begun = {} /\ \A t \in Turns : RowsBy(t) = {}
  BY <1>2 DEF Begun, RowsBy
<1>7. Dated
  BY <1>2, <1>6, FS_EmptySet DEF Dated, Under
<1>8. WholeRows
  BY <1>6 DEF WholeRows, Whole
<1>9. QED BY <1>2, <1>5, <1>7, <1>8, FS_EmptySet DEF Ground

\* So types, dates and rows are as they should be.
LEMMA GroundAlways == Spec => []Ground
<1>1. Ground /\ [Next]_vars => Ground'
  BY TypeStep, DatedStep, WholeStep DEF Ground
<1>2. QED BY <1>1, GroundInit, PTL DEF Spec

\* Every variable of Chat keeps its type, and there is a date for every transaction that
\* _persist begins: a turn begins one at most.
THEOREM TypeCorrect == Spec => []TypeOK
BY GroundAlways, PTL DEF Ground

\* Whatever becomes of the stream and of the turns of other clients, question and answer
\* of a turn are in the conversation together or not at all, they are when the client has
\* been told so, and they are not when the turn has lost the race for its conversation:
\* _persist inserts the conversation and both messages in one transaction.
THEOREM TurnsAreWhole == Spec => []TurnIsWhole
<1>1. Ground => TurnIsWhole
  BY DEF Ground, WholeRows, Whole, TurnIsWhole, At
<1>2. QED BY <1>1, GroundAlways, PTL

-----------------------------------------------------------------------------
(* Follow-ups. *)

\* A follow-up finds its conversation: nobody takes a conversation away.
LEMMA AnswerableStep ==
  ASSUME Ground, Ground', Answerable, [Next]_vars
  PROVE  Answerable'
<1>1. TypeOK /\ Dated
  BY DEF Ground
<1>2. CASE UNCHANGED vars
  BY <1>2 DEF vars, Answerable
<1>3. ASSUME NEW t \in Turns, \A u \in Turns \ {t} : turns'[u] = turns[u],
             convs \subseteq convs',
             turns'[t].existed => turns'[t].conv \in convs',
             turns'[t].existed /\ turns'[t].place = "persisting" => turns'[t].seen,
             turns'[t].existed /\ turns'[t].place = "failed" => turns'[t].hurt
      PROVE  Answerable'
  BY <1>3 DEF Answerable
<1>4. ASSUME NEW t \in Turns, Ask(t)
      PROVE  Answerable'
  BY <1>1, <1>3, <1>4, AskFields
<1>5. ASSUME NEW t \in Turns, LoadHistory(t)
      PROVE  Answerable'
  BY <1>1, <1>3, <1>5, LoadFields DEF Answerable
<1>6. ASSUME NEW t \in Turns, Look(t)
      PROVE  Answerable'
  <2>1. time + 1 \in Stamps
    BY <1>1, <1>6, TimeLeft DEF Look, At, Dated, Before
  <2>2. turns[t].existed => turns[t].conv \in convs
    BY DEF Answerable
  <2>3. QED BY <1>1, <1>3, <1>6, <2>1, <2>2, LookFields
<1>7. ASSUME NEW t \in Turns, Commit(t)
      PROVE  Answerable'
  <2>1. Goto(t, "stored") /\ "stored" \in Places /\ convs \subseteq convs'
    BY <1>7 DEF Commit, Places
  <2>2. /\ \A u \in Turns \ {t} : turns'[u] = turns[u]
        /\ turns'[t].existed = turns[t].existed /\ turns'[t].conv = turns[t].conv
        /\ turns'[t].place = "stored"
    BY <1>1, <2>1, GotoFields
  <2>3. turns[t].existed => turns[t].conv \in convs
    BY DEF Answerable
  <2>4. QED BY <1>3, <2>1, <2>2, <2>3
<1>8. ASSUME NEW t \in Turns, Goes(t)
      PROVE  Answerable'
  <2>1. PICK place \in Places, hurt \in BOOLEAN :
          /\ turns' = [turns EXCEPT ![t].place = place, ![t].hurt = hurt]
          /\ place # "persisting"
          /\ place = "failed" => hurt \/ (turns[t].place = "persisting" /\ ~turns[t].seen)
    BY <1>8 DEF Goes
  <2>2. UNCHANGED convs
    BY <1>8 DEF Goes
  <2>3. turns' = [turns EXCEPT ![t].place = place, ![t].hurt = hurt]
    BY <2>1
  <2>4. /\ \A u \in Turns \ {t} : turns'[u] = turns[u]
        /\ turns'[t].existed = turns[t].existed /\ turns'[t].conv = turns[t].conv
        /\ turns'[t].place = place /\ turns'[t].hurt = hurt
    BY <1>1, <2>3, GoesFields
  <2>5. /\ turns[t].existed => turns[t].conv \in convs
        /\ turns[t].existed /\ turns[t].place = "persisting" => turns[t].seen
    BY DEF Answerable
  <2>6. turns'[t].existed /\ turns'[t].place = "failed" => turns'[t].hurt
    BY <2>1, <2>4, <2>5, Zenon
  <2>7. /\ turns'[t].existed => turns'[t].conv \in convs'
        /\ turns'[t].place # "persisting" /\ convs \subseteq convs'
    BY <2>1, <2>2, <2>4, <2>5
  <2>8. QED BY <1>3, <2>4, <2>6, <2>7
<1>9. QED BY <1>2, <1>4, <1>5, <1>6, <1>7, <1>8, StepKinds, <1>1

\* What a step leaves alone of a turn once it has been asked.
LEMMA Constant ==
  ASSUME Ground, [Next]_vars, NEW t \in Turns, turns[t].place # "idle"
  PROVE  /\ turns'[t].place # "idle" /\ turns'[t].conv = turns[t].conv
         /\ turns'[t].prior = turns[t].prior
         /\ turns[t].place = "done" => turns'[t].place = "done" /\ turns'[t].at = turns[t].at
<1>1. TypeOK /\ Dated
  BY DEF Ground
<1>2. CASE UNCHANGED vars
  BY <1>2 DEF vars
<1>3. ASSUME NEW u \in Turns, Ask(u)
      PROVE  turns'[t] = turns[t]
  BY <1>1, <1>3, AskFields
<1>4. ASSUME NEW u \in Turns, LoadHistory(u), t = u
      PROVE  /\ turns'[t].place = "primed" /\ turns'[t].conv = turns[t].conv
             /\ turns'[t].prior = turns[t].prior /\ turns[t].place = "asked"
  BY <1>1, <1>4, LoadFields
<1>5. ASSUME NEW u \in Turns, Look(u)
      PROVE  /\ \A v \in Turns \ {u} : turns'[v] = turns[v]
             /\ turns'[u].place = "persisting" /\ turns'[u].conv = turns[u].conv
             /\ turns'[u].prior = turns[u].prior /\ turns[u].place = "answered"
  <2>1. time + 1 \in Stamps
    BY <1>1, <1>5, TimeLeft DEF Look, At, Dated, Before
  <2>2. QED BY <1>1, <1>5, <2>1, LookFields
<1>6. ASSUME NEW u \in Turns, Commit(u)
      PROVE  /\ \A v \in Turns \ {u} : turns'[v] = turns[v]
             /\ turns'[u].place = "stored" /\ turns'[u].conv = turns[u].conv
             /\ turns'[u].prior = turns[u].prior /\ turns[u].place = "persisting"
  <2>1. Goto(u, "stored") /\ "stored" \in Places /\ turns[u].place = "persisting"
    BY <1>6 DEF Commit, Places, At
  <2>2. QED BY <1>1, <2>1, GotoFields
<1>7. ASSUME NEW u \in Turns, Goes(u)
      PROVE  /\ \A v \in Turns \ {u} : turns'[v] = turns[v]
             /\ turns'[u].place # "idle" /\ turns'[u].conv = turns[u].conv
             /\ turns'[u].prior = turns[u].prior /\ turns[u].place # "done"
  <2>1. PICK place \in Places, hurt \in BOOLEAN :
          /\ turns' = [turns EXCEPT ![u].place = place, ![u].hurt = hurt]
          /\ place # "idle" /\ turns[u].place # "done"
    BY <1>7 DEF Goes
  <2>2. turns' = [turns EXCEPT ![u].place = place, ![u].hurt = hurt]
    BY <2>1
  <2>3. QED BY <1>1, <2>1, <2>2, GoesFields, ZenonT(60)
<1>8. CASE \E u \in Turns : LoadHistory(u)
  <2>1. PICK u \in Turns : LoadHistory(u)
    BY <1>8
  <2>2. CASE t = u
    BY <1>4, <2>1, <2>2
  <2>3. CASE t # u
    BY <1>1, <2>1, <2>3, LoadFields
  <2>4. QED BY <2>2, <2>3
<1>9. CASE \E u \in Turns : Ask(u)
  BY <1>3, <1>9
<1>10. CASE \E u \in Turns : Look(u) \/ Commit(u) \/ Goes(u)
  <2>1. PICK u \in Turns : Look(u) \/ Commit(u) \/ Goes(u)
    BY <1>10
  <2>2. CASE t = u
    BY <1>5, <1>6, <1>7, <2>1, <2>2
  <2>3. CASE t # u
    BY <1>5, <1>6, <1>7, <2>1, <2>3
  <2>4. QED BY <2>2, <2>3
<1>11. QED BY <1>1, <1>2, <1>8, <1>9, <1>10, StepKinds

\* A turn that is done stays done, and what a client knew when it asked stays true.
LEMMA PriorStep ==
  ASSUME Ground, PriorDone, [Next]_vars
  PROVE  PriorDone'
<1>1. TypeOK
  BY DEF Ground
<1>2. SUFFICES ASSUME NEW t \in Turns, NEW p \in turns'[t].prior
               PROVE  /\ turns'[t].place # "idle"
                      /\ turns'[p].place = "done" /\ turns'[p].conv = turns'[t].conv
  BY DEF PriorDone
<1>3. CASE turns[t].place # "idle"
  <2>1. p \in turns[t].prior /\ p \in Turns /\ turns[p].place = "done"
        /\ turns[p].conv = turns[t].conv
    BY <1>1, <1>3, Constant DEF PriorDone, TypeOK, Turn
  <2>2. QED BY <1>3, <2>1, Constant
<1>4. CASE turns[t].place = "idle"
  <2>1. CASE Ask(t)
    <3>1. /\ turns'[t].place = "asked" /\ p \in Turns /\ p # t
          /\ turns[p].place = "done" /\ turns[p].conv = turns'[t].conv
      BY <1>1, <1>4, <2>1, AskFields DEF At
    <3>2. QED BY <3>1, Constant
  <2>2. CASE turns'[t] = turns[t]
    BY <1>4, <2>2 DEF PriorDone
  <2>3. Ask(t) \/ turns'[t] = turns[t]
    <3>1. CASE UNCHANGED vars
      BY <3>1 DEF vars
    <3>2. ASSUME NEW u \in Turns, Ask(u) \/ LoadHistory(u), u # t
          PROVE  turns'[t] = turns[t]
      BY <1>1, <3>2, AskFields, LoadFields
    <3>3. ASSUME NEW u \in Turns, LoadHistory(u) \/ Look(u) \/ Commit(u) \/ Goes(u)
          PROVE  u # t
      BY <1>4, <3>3 DEF LoadHistory, Look, Commit, Goes, At
    <3>4. ASSUME NEW u \in Turns, Look(u) \/ Commit(u) \/ Goes(u)
          PROVE  turns'[t] = turns[t]
      <4>1. u # t
        BY <3>3, <3>4
      <4>2. QED BY <1>1, <3>4, <4>1 DEF Look, Commit, Goes, Goto, TypeOK
    <3>5. QED BY <1>1, <3>1, <3>2, <3>3, <3>4, StepKinds
  <2>4. QED BY <2>1, <2>2, <2>3
<1>5. QED BY <1>3, <1>4

\* A row carries its turn's conversation and date.
LEMMA RowIsOf ==
  ASSUME TypeOK, WholeRows, NEW m \in rows
  PROVE  /\ m.turn \in Turns /\ turns[m.turn].at = m.at /\ turns[m.turn].at # 0
         /\ turns[m.turn].conv = m.conv /\ NewRows(m.turn) \subseteq rows
<1>1. m.turn \in Turns /\ m \in RowsBy(m.turn)
  BY DEF TypeOK, Message, RowsBy
<1>2. RowsBy(m.turn) = NewRows(m.turn) /\ turns[m.turn].at # 0
  BY <1>1 DEF WholeRows, Whole
<1>3. NewRows(m.turn) \subseteq rows
  BY <1>2 DEF RowsBy
<1>4. m.at = turns[m.turn].at /\ m.conv = turns[m.turn].conv
  BY <1>1, <1>2, TwoRows
<1>5. QED BY <1>1, <1>2, <1>3, <1>4

\* The newest rows of a conversation reach back to any turn done there, or are newer.
LEMMA NewestReaches ==
  ASSUME Ground, NEW p \in Turns, turns[p].place = "done",
         NEW H \in NewestOf(turns[p].conv)
  PROVE  Reaches(H, p)
<1>1. TypeOK /\ Dated /\ WholeRows /\ IsFiniteSet(rows)
  BY DEF Ground
<1>2. /\ H \subseteq rows /\ Cardinality(H) <= Window
      /\ Cardinality(H) < Window => H = RowsOf(turns[p].conv)
      /\ \A m \in H, n \in RowsOf(turns[p].conv) \ H : m.at >= n.at
  BY DEF NewestOf, RowsOf
<1>3. PICK n \in NewRows(p) : n \in rows
  <2>1. RowsBy(p) = NewRows(p) /\ NewRows(p) # {}
    BY <1>1, TwoRows DEF WholeRows, Whole
  <2>2. QED BY <2>1 DEF RowsBy
<1>4. /\ n.turn = p /\ n.at = turns[p].at /\ turns[p].at # 0
      /\ n \in RowsOf(turns[p].conv)
  BY <1>1, <1>3, TwoRows, RowIsOf DEF RowsOf
<1>5. CASE n \in H
  BY <1>4, <1>5 DEF Reaches
<1>6. CASE n \notin H
  <2>1. Cardinality(H) \in Nat
    BY <1>1, <1>2, FS_Subset, FS_CardinalityType
  <2>2. Cardinality(H) = Window
    BY <1>2, <1>4, <1>6, <2>1
  <2>3. CASE \E m \in H : m.at = turns[p].at
    <3>1. PICK m \in H : m.at = turns[p].at
      BY <2>3
    <3>2. m.turn \in Turns /\ turns[m.turn].at = turns[p].at
      BY <1>1, <1>2, <3>1, RowIsOf
    <3>3. m.turn = p
      BY <1>1, <1>4, <3>2 DEF Dated
    <3>4. QED BY <3>3 DEF Reaches
  <2>4. CASE \A m \in H : m.at # turns[p].at
    <3>1. \A m \in H : m.at \in Nat /\ turns[p].at \in Nat
      BY <1>1, <1>2, FS_CardinalityType DEF TypeOK, Message, Turn, Stamps
    <3>2. \A m \in H : m.at > turns[p].at
      BY <1>2, <1>4, <1>6, <2>4, <3>1
    <3>3. QED BY <2>2, <3>2 DEF Reaches
  <2>5. QED BY <2>3, <2>4
<1>7. QED BY <1>5, <1>6

\* The history is loaded after the earlier turn was done and is not loaded again.
LEMMA FollowedStep ==
  ASSUME Ground, PriorDone, Followed, [Next]_vars
  PROVE  Followed'
<1>1. TypeOK /\ Dated
  BY DEF Ground
<1> DEFINE After == {"primed", "answered"} \cup Under
<1>2. SUFFICES ASSUME NEW t \in Turns, NEW p \in turns'[t].prior,
                      turns'[t].place \in After, ~turns'[t].blind
               PROVE  (Reaches(turns[t].history, p))'
  BY DEF Followed, Reaches
<1>3. ASSUME p \in turns[t].prior, turns[t].place \in After, ~turns[t].blind,
             turns'[t].history = turns[t].history
      PROVE  (Reaches(turns[t].history, p))'
  <2>1. Reaches(turns[t].history, p)
    BY <1>3 DEF Followed
  <2>2. p \in Turns /\ turns[p].place = "done"
    BY <1>1, <1>3 DEF PriorDone, TypeOK, Turn
  <2>3. turns'[p].at = turns[p].at
    BY <2>2, Constant
  <2>4. QED BY <1>3, <2>1, <2>3 DEF Reaches
<1>4. CASE turns'[t] = turns[t]
  BY <1>2, <1>3, <1>4
<1>5. CASE \E u \in Turns : Ask(u)
  <2>1. PICK u \in Turns : Ask(u)
    BY <1>5
  <2>2. "asked" \notin After
    BY DEF Under
  <2>3. u # t
    BY <1>1, <1>2, <2>1, <2>2, AskFields
  <2>4. QED BY <1>1, <1>4, <2>1, <2>3, AskFields
<1>6. CASE \E u \in Turns : LoadHistory(u)
  <2>1. PICK u \in Turns : LoadHistory(u)
    BY <1>6
  <2>2. CASE u # t
    BY <1>1, <1>4, <2>1, <2>2, LoadFields
  <2>3. CASE u = t
    <3>1. turns[t].place = "asked" /\ turns'[t].prior = turns[t].prior
          /\ turns'[t].history \in NewestOf(turns[t].conv)
      BY <1>1, <1>2, <2>1, <2>3, LoadFields
    <3>2. p \in Turns /\ turns[p].place = "done" /\ turns[p].conv = turns[t].conv
      BY <1>1, <3>1 DEF PriorDone, TypeOK, Turn
    <3>3. Reaches(turns'[t].history, p)
      BY <3>1, <3>2, NewestReaches
    <3>4. turns'[p].at = turns[p].at
      BY <3>2, Constant
    <3>5. QED BY <3>3, <3>4 DEF Reaches
  <2>4. QED BY <2>2, <2>3
<1>7. CASE \E u \in Turns : Look(u)
  <2>1. PICK u \in Turns : Look(u)
    BY <1>7
  <2>2. time + 1 \in Stamps
    BY <1>1, <2>1, TimeLeft DEF Look, At, Dated, Before
  <2>3. CASE u # t
    BY <1>1, <1>4, <2>1, <2>2, <2>3, LookFields
  <2>4. CASE u = t
    <3>1. /\ turns[t].place = "answered" /\ turns'[t].prior = turns[t].prior
          /\ turns'[t].blind = turns[t].blind /\ turns'[t].history = turns[t].history
      BY <1>1, <2>1, <2>2, <2>4, LookFields
    <3>2. QED BY <1>2, <1>3, <3>1
  <2>5. QED BY <2>3, <2>4
<1>8. CASE \E u \in Turns : Commit(u) \/ Goes(u)
  <2>1. PICK u \in Turns : Commit(u) \/ Goes(u)
    BY <1>8
  <2>2. PICK place \in Places, hurt \in BOOLEAN :
          /\ turns' = [turns EXCEPT ![u].place = place, ![u].hurt = hurt]
          /\ \/ place \in {"failed", "gone"}
             \/ turns[u].place \in {"primed", "persisting", "stored"}
    <3>1. CASE Commit(u)
      <4>1. Goto(u, "stored") /\ "stored" \in Places /\ turns[u].place = "persisting"
        BY <3>1 DEF Commit, At, Places
      <4>2. QED BY <1>1, <4>1, GotoFields
    <3>2. CASE Goes(u)
      BY <3>2 DEF Goes
    <3>3. QED BY <2>1, <3>1, <3>2
  <2>3. turns' = [turns EXCEPT ![u].place = place, ![u].hurt = hurt]
    BY <2>2
  <2>4. /\ \A v \in Turns \ {u} : turns'[v] = turns[v]
        /\ turns'[u].prior = turns[u].prior /\ turns'[u].place = place
        /\ turns'[u].blind = turns[u].blind /\ turns'[u].history = turns[u].history
    BY <1>1, <2>3, GoesFields, ZenonT(60)
  <2>5. "failed" \notin After /\ "gone" \notin After
        /\ {"primed", "persisting", "stored"} \subseteq After
    BY DEF Under
  <2>6. QED BY <1>2, <1>3, <1>4, <2>2, <2>4, <2>5
<1>9. QED BY <1>1, <1>4, <1>5, <1>6, <1>7, <1>8, StepKinds DEF vars

\* At the start nothing has been asked.
LEMMA InvInit == Init => Inv
<1> SUFFICES ASSUME Init PROVE Inv
  OBVIOUS
<1>1. Ground
  BY GroundInit
<1>2. \A t \in Turns : /\ turns[t].place = "idle" /\ ~turns[t].existed /\ turns[t].prior = {}
  BY DEF Init
<1>3. QED BY <1>1, <1>2 DEF Inv, Answerable, PriorDone, Followed

\* Each part is kept by every step, on the ground of the types, dates and rows.
LEMMA InvAlways == Spec => []Inv
<1>1. Inv /\ [Next]_vars => Inv'
  <2> SUFFICES ASSUME Inv, [Next]_vars PROVE Inv'
    OBVIOUS
  <2>1. Ground'
    BY TypeStep, DatedStep, WholeStep DEF Inv, Ground
  <2>2. QED BY <2>1, AnswerableStep, PriorStep, FollowedStep DEF Inv
<1>2. QED BY <1>1, InvInit, PTL DEF Spec

\* A turn in a conversation that was there when it was asked fails only by a fault: the
\* look of _persist finds what the client has seen, so it inserts no conversation that
\* another turn could have inserted first.
THEOREM FollowUpsAnswered == Spec => []FollowUpAnswered
<1>1. Inv => FollowUpAnswered
  BY DEF Inv, Answerable, FollowUpAnswered, At
<1>2. QED BY <1>1, InvAlways, PTL

\* A turn asked after another was finished is answered with it in its history, or with a
\* window full of newer rows, whatever other turns are half way through: the done frame is
\* sent after the commit, and _load_history orders by the date of the transaction.
THEOREM FollowUpsSeePrior == Spec => []FollowUpSeesPrior
<1>1. Inv => FollowUpSeesPrior
  BY DEF Inv, Followed, Reaches, Under, FollowUpSeesPrior
<1>2. QED BY <1>1, InvAlways, PTL

-----------------------------------------------------------------------------
(* Whole turns in the window. *)

\* The row with the same turn, conversation and date, of that role.
As(m, role) == [m EXCEPT !.role = role]

\* It differs in the role only, and two such rows are the only ones.
LEMMA AsFields ==
  ASSUME NEW m \in Message, NEW role \in Roles
  PROVE  /\ As(m, role) \in Message /\ As(m, role).turn = m.turn /\ As(m, role).role = role
         /\ As(m, role).conv = m.conv /\ As(m, role).at = m.at
         /\ As(m, m.role) = m
         /\ \A k \in Message : k.turn = m.turn /\ k.conv = m.conv /\ k.at = m.at =>
              k = As(m, k.role)
BY DEF As, Message, Roles

\* Rows that come in pairs of question and answer are even in number.
LEMMA PairsAreEven ==
  ASSUME NEW P, IsFiniteSet(P), P \subseteq Message,
         \A m \in P, role \in Roles : As(m, role) \in P
  PROVE  \E k \in Nat : Cardinality(P) = 2 * k
<1> DEFINE U == {m \in P : m.role = "user"}
           A == {m \in P : m.role = "assistant"}
           f == [m \in U |-> As(m, "assistant")]
<1>1. "user" \in Roles /\ "assistant" \in Roles /\ \A m \in P : m.role \in {"user", "assistant"}
  BY DEF Roles, Message
<1>2. P = U \cup A /\ U \cap A = {}
  BY <1>1
<1>3. IsFiniteSet(U) /\ IsFiniteSet(A)
  BY FS_Subset
<1>4. f \in [U -> A]
  BY <1>1, AsFields
<1>5. \A a, b \in U : f[a] = f[b] => a = b
  <2> SUFFICES ASSUME NEW a \in U, NEW b \in U, As(a, "assistant") = As(b, "assistant")
               PROVE  a = b
    OBVIOUS
  <2>1. a.turn = b.turn /\ a.conv = b.conv /\ a.at = b.at /\ a.role = "user" /\ b.role = "user"
    BY <1>1, AsFields
  <2>2. a = As(b, "user") /\ b = As(b, "user")
    BY <1>1, <2>1, AsFields
  <2>3. QED BY <2>2
<1>6. \A a \in A : \E u \in U : f[u] = a
  <2> SUFFICES ASSUME NEW a \in A PROVE As(a, "user") \in U /\ f[As(a, "user")] = a
    OBVIOUS
  <2>1. As(a, "user") \in U
    BY <1>1, AsFields
  <2>2. As(As(a, "user"), "assistant") = a
    <3>1. /\ a \in Message /\ As(a, "user") \in Message /\ a.role = "assistant"
          /\ As(a, "user").turn = a.turn /\ As(a, "user").conv = a.conv
          /\ As(a, "user").at = a.at
      BY <1>1, AsFields
    <3>2. QED BY <1>1, <3>1, AsFields
  <2>3. QED BY <2>1, <2>2
<1>7. ExistsBijection(U, A)
  <2>1. f \in Bijection(U, A)
    BY <1>4, <1>5, <1>6, Fun_IsBij
  <2>2. QED BY <2>1 DEF ExistsBijection
<1> HIDE DEF U, A, f
<1>8. Cardinality(U) = Cardinality(A) /\ Cardinality(U) \in Nat
  BY <1>3, <1>7, FS_Bijection, FS_CardinalityType
<1>9. Cardinality(P) = Cardinality(U) + Cardinality(A) - Cardinality(U \cap A)
  BY <1>2, <1>3, FS_Union
<1>10. Cardinality(U \cap A) = 0
  BY <1>2, FS_EmptySet
<1>11. Cardinality(P) = 2 * Cardinality(U)
  BY <1>8, <1>9, <1>10
<1>12. QED BY <1>8, <1>11

\* An even number of newest rows has no half turn in it: all turns newer than such a half
\* would be in the window whole and all older ones out of it, so that it would be odd.
LEMMA NewestAreWhole ==
  ASSUME Ground, NEW half \in Nat, Window = 2 * half, NEW c, NEW H \in NewestOf(c),
         NEW m \in H, NEW role \in Roles
  PROVE  As(m, role) \in H
<1>1. TypeOK /\ Dated /\ WholeRows /\ IsFiniteSet(rows) /\ rows \subseteq Message
  BY DEF Ground, TypeOK
<1>2. /\ H \subseteq RowsOf(c) /\ RowsOf(c) \subseteq rows /\ Cardinality(H) <= Window
      /\ Cardinality(H) < Window => H = RowsOf(c)
      /\ \A k \in H, n \in RowsOf(c) \ H : k.at >= n.at
  BY DEF NewestOf, RowsOf
<1>3. ASSUME NEW k \in RowsOf(c), NEW r \in Roles
      PROVE  As(k, r) \in RowsOf(c)
  <2>1. k \in rows /\ k \in Message /\ k.conv = c
    BY <1>1 DEF RowsOf
  <2>2. /\ NewRows(k.turn) \subseteq rows /\ turns[k.turn].conv = k.conv
        /\ turns[k.turn].at = k.at
    BY <1>1, <2>1, RowIsOf
  <2>3. As(k, r) \in NewRows(k.turn)
    BY <2>1, <2>2 DEF As, NewRows, Message
  <2>4. As(k, r).conv = c
    BY <2>1, AsFields
  <2>5. QED BY <2>2, <2>3, <2>4 DEF RowsOf
<1>4. SUFFICES ASSUME As(m, role) \notin H PROVE FALSE
  OBVIOUS
<1> DEFINE other == As(m, role)
<1>5. /\ m \in Message /\ m \in RowsOf(c) /\ other \in RowsOf(c) \ H /\ other \in Message
      /\ other.at = m.at /\ other.turn = m.turn /\ other.role = role /\ role # m.role
      /\ other.conv = m.conv
  BY <1>1, <1>2, <1>3, <1>4, AsFields
<1>6. \A k \in RowsOf(c) : k.turn = m.turn => k = m \/ k = other
  <2> SUFFICES ASSUME NEW k \in RowsOf(c), k.turn = m.turn PROVE k = m \/ k = other
    OBVIOUS
  <2>1. k \in Message /\ k.conv = m.conv /\ k.at = m.at
    BY <1>1, <1>2, <1>5, RowIsOf DEF RowsOf
  <2>2. k = As(m, k.role)
    BY <1>5, <2>1, AsFields
  <2>3. k.role = m.role \/ k.role = role
    BY <1>5, <2>1 DEF Message, Roles
  <2>4. QED BY <1>5, <2>2, <2>3, AsFields
<1> HIDE DEF other
<1> DEFINE P == H \ {m}
<1>7. ASSUME NEW k \in P, NEW r \in Roles
      PROVE  As(k, r) \in P
  <2>1. k \in H /\ k # m /\ k # other /\ k \in RowsOf(c) /\ k \in Message
    BY <1>1, <1>2, <1>5
  <2>2. k.turn # m.turn
    BY <1>6, <2>1
  <2>3. /\ As(k, r) \in RowsOf(c) /\ As(k, r).turn = k.turn /\ As(k, r).at = k.at
    BY <1>3, <2>1, AsFields
  <2>4. As(k, r) # m
    BY <2>2, <2>3
  <2>5. CASE As(k, r) \notin H
    <3>1. m.at >= k.at /\ k.at >= m.at
      BY <1>2, <1>5, <2>1, <2>3, <2>5
    <3>2. m.at \in Nat /\ k.at \in Nat
      BY <1>5, <2>1, FS_CardinalityType DEF Message, Stamps
    <3>3. m.at = k.at
      BY <3>1, <3>2
    <3>4. /\ m.turn \in Turns /\ k.turn \in Turns /\ turns[m.turn].at = m.at
          /\ turns[k.turn].at = k.at /\ turns[m.turn].at # 0
      BY <1>1, <1>2, <1>5, <2>1, RowIsOf
    <3>5. QED BY <1>1, <2>2, <3>3, <3>4 DEF Dated
  <2>6. QED BY <2>4, <2>5
<1>8. IsFiniteSet(H) /\ IsFiniteSet(P) /\ Cardinality(H) \in Nat /\ P \subseteq Message
  <2>1. H \in SUBSET rows
    BY <1>2
  <2>2. IsFiniteSet(H)
    BY <1>1, <2>1, FS_Subset
  <2>3. QED BY <1>1, <2>1, <2>2, FS_Subset, FS_CardinalityType
<1>9. Cardinality(H) = Window
  BY <1>2, <1>5, <1>8
<1>10. Cardinality(P) = Cardinality(H) - 1
  BY <1>8, FS_RemoveElement
<1> HIDE DEF P
<1>11. PICK k \in Nat : Cardinality(P) = 2 * k
  BY <1>7, <1>8, PairsAreEven
<1>12. 2 * k = 2 * half - 1
  BY <1>9, <1>10, <1>11
<1>13. QED BY <1>12

\* With a window of an even number of rows, as _HISTORY_TURNS = 10 is, the model is never
\* shown a question without its answer or an answer without its question, although the
\* query counts rows and both rows of a turn have the same date.
THEOREM HistoriesAreWhole ==
  ASSUME NEW half \in Nat, Window = 2 * half
  PROVE  Spec => []HistoryHasWholeTurns
<1>1. Init => HistoryHasWholeTurns
  <2> SUFFICES ASSUME Init PROVE HistoryHasWholeTurns
    OBVIOUS
  <2>1. \A t \in Turns : turns[t].history = {}
    BY DEF Init
  <2>2. QED BY <2>1 DEF HistoryHasWholeTurns
<1>2. ASSUME Ground, HistoryHasWholeTurns, [Next]_vars
      PROVE  HistoryHasWholeTurns'
  <2>1. TypeOK /\ Dated
    BY <1>2 DEF Ground
  <2>2. ASSUME NEW t \in Turns, NEW m \in turns'[t].history
        PROVE  {[m EXCEPT !.role = role] : role \in Roles} \subseteq turns'[t].history
    <3>1. CASE turns'[t].history = turns[t].history
      BY <1>2, <2>2, <3>1 DEF HistoryHasWholeTurns
    <3>2. CASE \E c \in Convs : turns'[t].history \in NewestOf(c)
      BY <1>2, <2>2, <3>2, NewestAreWhole DEF As
    <3>3. ASSUME NEW u \in Turns, Ask(u) \/ LoadHistory(u)
          PROVE  \/ turns'[t].history = turns[t].history
                 \/ \E c \in Convs : turns'[t].history \in NewestOf(c)
      <4>1. turns[t].conv \in Convs
        BY <2>1 DEF TypeOK, Turn
      <4>2. CASE Ask(u)
        BY <2>1, <4>2, AskFields
      <4>3. CASE LoadHistory(u) /\ u = t
        BY <2>1, <4>1, <4>3, LoadFields
      <4>4. CASE LoadHistory(u) /\ u # t
        BY <2>1, <4>4, LoadFields
      <4>5. QED BY <3>3, <4>2, <4>3, <4>4
    <3>4. ASSUME NEW u \in Turns, Look(u)
          PROVE  turns'[t].history = turns[t].history
      <4>1. time + 1 \in Stamps
        BY <2>1, <3>4, TimeLeft DEF Look, At, Dated, Before
      <4>2. QED BY <2>1, <3>4, <4>1, LookFields
    <3>5. ASSUME NEW u \in Turns, Commit(u)
          PROVE  turns'[t].history = turns[t].history
      <4>1. Goto(u, "stored") /\ "stored" \in Places
        BY <3>5 DEF Commit, Places
      <4>2. QED BY <2>1, <4>1, GotoFields
    <3>6. ASSUME NEW u \in Turns, Goes(u)
          PROVE  turns'[t].history = turns[t].history
      <4>1. PICK place \in Places, hurt \in BOOLEAN :
              turns' = [turns EXCEPT ![u].place = place, ![u].hurt = hurt]
        BY <3>6 DEF Goes
      <4>2. QED BY <2>1, <4>1, GoesFields
    <3>7. QED BY <1>2, <2>1, <3>1, <3>2, <3>3, <3>4, <3>5, <3>6, StepKinds DEF vars
  <2>3. QED BY <2>2 DEF HistoryHasWholeTurns
<1>3. QED BY <1>1, <1>2, GroundAlways, PTL DEF Spec
=============================================================================
