-------------------------------- MODULE Chat --------------------------------
(***************************************************************************)
(* services/chat_service.py behind api/chat.py: turns of a conversation,    *)
(* streamed to the browser or answered to a REST client, that read the      *)
(* history, ask the model and write question and answer in a transaction of *)
(* their own.  All turns are of one workspace.  What is retrieved and said  *)
(* is left out (see Retrieval and Gateway), and so is the wording.          *)
(***************************************************************************)
EXTENDS Integers, FiniteSets

CONSTANTS
  Turns,   \* requests to /chat/query and /chat
  Convs,   \* conversation ids
  Window,  \* _HISTORY_TURNS: rows of history given to the model
  Faults   \* what may go wrong in this instance

ASSUME TurnsAssumption  == IsFiniteSet(Turns)
ASSUME ConvsAssumption  == Convs # {}
ASSUME WindowAssumption == Window \in Nat \ {0}
ASSUME FaultsAssumption == Faults \subseteq {"db", "upstream", "leave"}

VARIABLES
  convs,  \* ids in the conversations table
  rows,   \* the chat_messages table
  time,   \* history: transactions of _persist begun so far
  turns   \* the turns

vars == <<convs, rows, time, turns>>

-----------------------------------------------------------------------------
Roles   == {"user", "assistant"}
Stamps  == 0 .. Cardinality(Turns)
Message == [turn : Turns, role : Roles, conv : Convs, at : Stamps]

\* stored: committed, the done frame or the response not sent yet.
Places == {"idle", "asked", "primed", "answered", "persisting", "stored", "done", "failed", "gone"}

\* via: the endpoint; human: a JWT user rather than an API key; conv: the id asked for (named),
\* or the one the server will draw; history: what _load_history returned; seen: whether
\* _persist found the conversation; at: created_at of the rows.  Of the past: existed and
\* prior say what conversation and which finished turns the client could know when it
\* asked, and hurt that a fault has hit the turn.
Turn == [place : Places, via : {"sse", "rest"}, human : BOOLEAN, conv : Convs, named : BOOLEAN,
         history : SUBSET Message, seen : BOOLEAN, at : Stamps,
         existed : BOOLEAN, prior : SUBSET Turns, blind : BOOLEAN, hurt : BOOLEAN]

Goto(t, place) == turns' = [turns EXCEPT ![t].place = place]
At(t, place)   == turns[t].place = place

RowsOf(c)    == {m \in rows : m.conv = c}
RowsBy(t)    == {m \in rows : m.turn = t}
Active       == {t \in Turns : turns[t].place # "idle"}

-----------------------------------------------------------------------------
(* The request. *)

\* A client names a conversation, one that is there or one of its own making, or names none
\* and the server draws a fresh uuid, which nobody knows until the conversation is there.
\* The stream is for users only.
Ask(t) ==
  /\ At(t, "idle")
  /\ \E via \in {"sse", "rest"}, human \in BOOLEAN, c \in Convs, named \in BOOLEAN :
       /\ via = "sse" => human
       /\ ~named => c \notin convs \cup {turns[u].conv : u \in Active}
       /\ named => c \in convs \/ \A u \in Active : turns[u].conv = c => turns[u].named
       /\ turns' = [turns EXCEPT ![t].place = "asked", ![t].via = via, ![t].human = human,
            ![t].conv = c, ![t].named = named, ![t].existed = c \in convs,
            ![t].prior = {u \in Turns : At(u, "done") /\ turns[u].conv = c}]
  /\ UNCHANGED <<convs, rows, time>>

\* Mutant: the oldest rows instead of the newest.
OldestOf(c) ==
  {H \in SUBSET RowsOf(c) :
     /\ Cardinality(H) <= Window
     /\ Cardinality(H) < Window => H = RowsOf(c)
     /\ \A m \in H, n \in RowsOf(c) \ H : m.at <= n.at}

\* ORDER BY created_at DESC LIMIT Window, ties as the database pleases.
NewestOf(c) ==
  {H \in SUBSET RowsOf(c) :
     /\ Cardinality(H) <= Window
     /\ Cardinality(H) < Window => H = RowsOf(c)
     /\ \A m \in H, n \in RowsOf(c) \ H : m.at >= n.at}

\* Settings and history are best-effort: on an error the turn goes on without.
LoadHistory(t) ==
  /\ At(t, "asked")
  /\ \/ \E H \in NewestOf(turns[t].conv) :
          turns' = [turns EXCEPT ![t].place = "primed", ![t].history = H]
     \/ /\ "db" \in Faults
        /\ turns' = [turns EXCEPT ![t].place = "primed", ![t].blind = TRUE]
  /\ UNCHANGED <<convs, rows, time>>

\* Retrieval and the whole answer of the model, token by token.
Answer(t) ==
  /\ At(t, "primed")
  /\ Goto(t, "answered")
  /\ UNCHANGED <<convs, rows, time>>

-----------------------------------------------------------------------------
(* _persist. *)

\* Mutant: the conversation is taken for a new one whenever the turn has no history.
LookByHistory(t) ==
  /\ At(t, "answered")
  /\ time' = time + 1
  /\ turns' = [turns EXCEPT ![t].place = "persisting", ![t].at = time + 1,
                            ![t].seen = turns[t].history # {}]
  /\ UNCHANGED <<convs, rows>>

\* Mutant: a transaction that is under way is begun again.
LookTwice(t) ==
  /\ turns[t].place \in {"answered", "persisting"}
  /\ time' = time + 1
  /\ turns' = [turns EXCEPT ![t].place = "persisting", ![t].at = time + 1,
                            ![t].seen = turns[t].conv \in convs]
  /\ UNCHANGED <<convs, rows>>

\* The transaction begins, which dates its rows, and looks for the conversation.
Look(t) ==
  /\ At(t, "answered")
  /\ time' = time + 1
  /\ turns' = [turns EXCEPT ![t].place = "persisting", ![t].at = time + 1,
                            ![t].seen = turns[t].conv \in convs]
  /\ UNCHANGED <<convs, rows>>

NewRows(t) == [turn : {t}, role : Roles, conv : {turns[t].conv}, at : {turns[t].at}]

\* A new conversation needs a user that exists and an id that is still free when the
\* INSERT is through with waiting for others of the same id.
CanInsert(t) == turns[t].human /\ turns[t].conv \notin convs

\* Mutant: the question is committed before the answer.
CommitQuestionFirst(t) ==
  /\ At(t, "persisting")
  /\ turns[t].seen \/ CanInsert(t) \/ RowsBy(t) # {}
  /\ convs' = convs \cup {turns[t].conv}
  /\ IF RowsBy(t) = {} THEN rows' = rows \cup {m \in NewRows(t) : m.role = "user"} /\ UNCHANGED turns
     ELSE rows' = rows \cup NewRows(t) /\ Goto(t, "stored")
  /\ UNCHANGED time

\* One commit: the conversation if it is new, the question and the answer.
Commit(t) ==
  /\ At(t, "persisting")
  /\ turns[t].seen \/ CanInsert(t)
  /\ convs' = convs \cup {turns[t].conv}
  /\ rows' = rows \cup NewRows(t)
  /\ Goto(t, "stored")
  /\ UNCHANGED time

\* The constraint on the id, or on the user, takes everything back.
InsertRefused(t) ==
  /\ At(t, "persisting")
  /\ ~turns[t].seen /\ ~CanInsert(t)
  /\ Goto(t, "failed")
  /\ UNCHANGED <<convs, rows, time>>

\* Mutant: the done frame is sent when the last token is.
FinishEarly(t) ==
  /\ turns[t].place \in {"answered", "stored"}
  /\ Goto(t, "done")
  /\ UNCHANGED <<convs, rows, time>>

\* The done frame, or the response.
Finish(t) ==
  /\ At(t, "stored")
  /\ Goto(t, "done")
  /\ UNCHANGED <<convs, rows, time>>

-----------------------------------------------------------------------------
(* Failures. *)

\* An exception becomes an error frame or an error response; what has not been
\* committed is rolled back.  After the commit it can be its acknowledgement that is lost,
\* or the transaction of the REST request around it that fails.
Fail(t) ==
  /\ \/ "upstream" \in Faults /\ At(t, "primed")
     \/ "db" \in Faults /\ turns[t].place \in {"answered", "persisting", "stored"}
  /\ turns' = [turns EXCEPT ![t].place = "failed", ![t].hurt = TRUE]
  /\ UNCHANGED <<convs, rows, time>>

\* The browser closes the stream, which cancels what is going on; a commit under way
\* has happened (Commit, then this) or not.  REST handlers are not cancelled.
Leave(t) ==
  /\ "leave" \in Faults /\ turns[t].via = "sse"
  /\ turns[t].place \in {"asked", "primed", "answered", "persisting", "stored"}
  /\ Goto(t, "gone")
  /\ UNCHANGED <<convs, rows, time>>

-----------------------------------------------------------------------------
Init ==
  /\ convs = {}
  /\ rows = {}
  /\ time = 0
  /\ turns \in [Turns -> {[place |-> "idle", via |-> "sse", human |-> TRUE,
       conv |-> CHOOSE c \in Convs : TRUE, named |-> FALSE, history |-> {}, seen |-> FALSE, at |-> 0,
       existed |-> FALSE, prior |-> {}, blind |-> FALSE, hurt |-> FALSE]}]

Next == \E t \in Turns : \/ Ask(t) \/ LoadHistory(t) \/ Answer(t) \/ Look(t) \/ Commit(t)
                         \/ InsertRefused(t) \/ Finish(t) \/ Fail(t) \/ Leave(t)

Spec == Init /\ [][Next]_vars

-----------------------------------------------------------------------------
(* Properties. *)

\* Every variable has its type.
TypeOK ==
  /\ convs \subseteq Convs
  /\ rows \subseteq Message
  /\ time \in Stamps
  /\ turns \in [Turns -> Turn]

\* "Robust during SSE streaming": whatever becomes of the stream, a turn is in the
\* conversation with question and answer or not at all; it is when the client has been
\* told so, and it is not when it has lost the race for a new conversation.
TurnIsWhole ==
  \A t \in Turns :
    /\ RowsBy(t) \in {{}, NewRows(t)} /\ (RowsBy(t) # {} => turns[t].conv \in convs)
    /\ At(t, "done") => RowsBy(t) # {}
    /\ At(t, "failed") /\ ~turns[t].hurt => RowsBy(t) = {}

\* The window of rows never shows the model a question without its answer or an answer
\* without its question, although it counts rows and orders them by a date that both
\* share.
HistoryHasWholeTurns ==
  \A t \in Turns : \A m \in turns[t].history :
    {[m EXCEPT !.role = role] : role \in Roles} \subseteq turns[t].history

\* A turn asked in a conversation after another was finished there is answered with that
\* one in its history, unless newer ones fill the window, whatever other turns of the
\* conversation are half way through.
FollowUpSeesPrior ==
  \A t \in Turns : \A p \in turns[t].prior :
    turns[t].place \in {"primed", "answered", "done"} /\ ~turns[t].blind =>
       \/ \E m \in turns[t].history : m.turn = p
       \/ Cardinality(turns[t].history) = Window /\ \A m \in turns[t].history : m.at > turns[p].at

\* A turn in a conversation that was there when it was asked fails only by a fault: two
\* first turns may collide over an id, a follow-up cannot.
FollowUpAnswered ==
  \A t \in Turns : At(t, "failed") /\ turns[t].existed => turns[t].hurt

-----------------------------------------------------------------------------
(* Promises of the docs that the code does not keep; no run states them. *)

\* Spec 008, 1: a question "answered via POST /api/chat with a valid API key": without a
\* conversation there is no user to own the new one, and the answer is thrown away.
KeyIsAnswered == \A t \in Turns : At(t, "failed") => turns[t].hurt \/ turns[t].human

\* "Persist user+assistant chat_messages after the stream closes": a browser that leaves
\* during the last token leaves nothing.
AnsweredIsKept ==
  [][\A t \in Turns : At(t, "answered") => turns'[t].place # "gone"]_vars

=============================================================================
