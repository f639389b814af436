--------------------------- MODULE SessionsProofs ----------------------------
(***************************************************************************)
(* Theorems about Sessions, for any number of users and requests: types,    *)
(* whole registrations, and the rotation of refresh tokens, with what a     *)
(* race of two requests for one token costs.                                *)
(***************************************************************************)
EXTENDS Sessions, TLAPS

USE TokenAssumption, UserAssumption, AttemptsAssumption

-----------------------------------------------------------------------------
(* The invariants, in named parts. *)

\* A token or an organization comes from a request that is over.
Issued ==
  /\ \A t \in Reqs : tokens[t] # "none" => reqs[t].place = "ok"
  /\ \A o \in orgs : reqs[o].place = "ok"

\* A request that was sent has a user, and presents a token that was issued.
Sent ==
  \A r \in Reqs : reqs[r].place # "idle" =>
     /\ reqs[r].user \in Users
     /\ reqs[r].op \in {"refresh", "logout"} =>
           reqs[r].token \in Reqs /\ tokens[reqs[r].token] # "none"

Typed == TypeOK /\ Issued /\ Sent

Busy(r) == reqs[r].place \in {"loaded", "raising"}

\* Roots: a login is its own, a refresh or a logout has that of the token it presents, and
\* the root of a token, or of a session that has ended, is a login that has issued one.
Rooted ==
  /\ \A t \in Reqs : tokens[t] # "none" => tokens[reqs[t].root] # "none"
  /\ \A x \in ended : tokens[x] # "none"
  /\ \A r \in Reqs : (reqs[r].place = "loaded" /\ reqs[r].op \in {"register", "login"}) => reqs[r].root = r
  /\ \A r \in Reqs : (reqs[r].place = "loaded" /\ reqs[r].op \in {"refresh", "logout"}) =>
        reqs[r].root = reqs[reqs[r].token].root

\* A token that was found live is live until the request that presents it commits, unless
\* that is overtaken ...
StillLive ==
  \A r \in Reqs : (reqs[r].place = "loaded" /\ reqs[r].op \in {"refresh", "logout"} /\ r \notin overtaken) =>
     tokens[reqs[r].token] = "live"

\* ... and a token that was redeemed is revoked.
Spent ==
  \A r \in Reqs : (reqs[r].place = "ok" /\ reqs[r].op = "refresh") => tokens[reqs[r].token] = "revoked"

Rotating == Rooted /\ StillLive /\ Spent /\ RedeemedOnceUnlessOvertaken /\ LiveUnlessOvertaken

-----------------------------------------------------------------------------
(* What a step does. *)

LEMMA LoadedIs ==
  ASSUME TypeOK, NEW r \in Reqs, NEW op \in Ops, NEW u \in Users, NEW t \in Reqs \cup {NoToken},
         NEW root \in Reqs, NEW p \in Places, Loaded(r, op, u, t, root, p)
  PROVE  /\ reqs' \in [Reqs -> Request]
         /\ \A q \in Reqs : q # r => reqs'[q] = reqs[q]
         /\ reqs'[r].place = p /\ reqs'[r].op = op /\ reqs'[r].user = u
         /\ reqs'[r].token = t /\ reqs'[r].root = root
<1> DEFINE new == [place |-> p, op |-> op, user |-> u, token |-> t, root |-> root, copy |-> users[u]]
<1>1. new \in Request /\ reqs \in [Reqs -> Request]
  BY DEF TypeOK, Request
<1>2. reqs' = [reqs EXCEPT ![r] = new]
  BY DEF Loaded
<1>3. /\ new.place = p /\ new.op = op /\ new.user = u
      /\ new.token = t /\ new.root = root
  OBVIOUS
<1> HIDE DEF new
<1> QED
  BY <1>1, <1>2, <1>3

\* Request r goes on: it keeps what it is and changes its place to p.
Moves(r, p) ==
  /\ reqs' \in [Reqs -> Request]
  /\ \A q \in Reqs : q # r => reqs'[q] = reqs[q]
  /\ reqs'[r].place = p /\ reqs'[r].op = reqs[r].op /\ reqs'[r].user = reqs[r].user
  /\ reqs'[r].token = reqs[r].token /\ reqs'[r].root = reqs[r].root

LEMMA GotoMoves ==
  ASSUME TypeOK, NEW r \in Reqs, NEW p \in Places, Goto(r, p)
  PROVE  Moves(r, p)
<1>1. reqs \in [Reqs -> Request] /\ reqs[r] \in Request
  BY DEF TypeOK
<1>2. [reqs[r] EXCEPT !.place = p] \in Request
  BY <1>1 DEF Request
<1>3. reqs' = [reqs EXCEPT ![r] = [reqs[r] EXCEPT !.place = p]]
  BY <1>1 DEF Goto
<1> QED
  BY <1>1, <1>2, <1>3 DEF Moves, Request

LEMMA RowsTyped ==
  /\ Account \in UserRow
  /\ \A row \in UserRow : /\ [row EXCEPT !.locked = TRUE] \in UserRow
                          /\ \A n \in 0 .. MaxAttempts : [row EXCEPT !.failed = n] \in UserRow
<1>1. NoAccount \in UserRow
  BY DEF NoAccount, UserRow
<1>2. Account \in UserRow
  BY <1>1 DEF Account, UserRow
<1> QED
  BY <1>2 DEF UserRow

LEMMA CountedTyped ==
  ASSUME NEW row \in UserRow
  PROVE  Counted(row) \in UserRow
<1>1. row.failed \in Nat
  BY DEF UserRow
<1>2. CASE row.failed + 1 >= MaxAttempts
  <2> DEFINE cleared == [row EXCEPT !.failed = 0]
  <2>1. cleared \in UserRow
    BY DEF UserRow
  <2>2. Counted(row) = [cleared EXCEPT !.locked = TRUE]
    BY <1>2 DEF Counted
  <2> HIDE DEF cleared
  <2> QED BY <2>1, <2>2, RowsTyped
<1>3. CASE ~(row.failed + 1 >= MaxAttempts)
  <2>1. row.failed + 1 \in 0 .. MaxAttempts
    BY <1>1, <1>3
  <2> QED BY <1>3, <2>1, RowsTyped DEF Counted
<1> QED
  BY <1>2, <1>3

\* A wrong password changes the session's copy, too.
LEMMA WrongMoves ==
  ASSUME TypeOK, NEW r \in Reqs, WrongPassword(r)
  PROVE  Moves(r, "raising")
<1> DEFINE new == [reqs[r] EXCEPT !.copy = Counted(@), !.place = "raising"]
<1>1. reqs \in [Reqs -> Request] /\ reqs[r] \in Request /\ reqs[r].copy \in UserRow
  BY DEF TypeOK, Request
<1>2. Counted(reqs[r].copy) \in UserRow
  BY <1>1, CountedTyped
<1>3. new \in Request
  BY <1>1, <1>2 DEF Request, Places
<1>4. reqs' = [reqs EXCEPT ![r] = new]
  BY <1>1 DEF WrongPassword
<1>5. /\ new.place = "raising" /\ new.op = reqs[r].op /\ new.user = reqs[r].user
      /\ new.token = reqs[r].token /\ new.root = reqs[r].root
  BY <1>1 DEF Request
<1> HIDE DEF new
<1> QED
  BY <1>1, <1>3, <1>4, <1>5 DEF Moves

\* What sending request r does: it only writes the request.
Begins(r) ==
  /\ reqs[r].place = "idle" /\ reqs' \in [Reqs -> Request]
  /\ \A q \in Reqs : q # r => reqs'[q] = reqs[q]
  /\ UNCHANGED <<users, orgs, members, tokens, failures, overtaken, ended>>
  /\ reqs'[r].place \notin {"idle", "raising"} /\ reqs'[r].user \in Users
  /\ reqs'[r].op \in {"register", "login"} => reqs'[r].token = NoToken /\ reqs'[r].root = r
  /\ reqs'[r].op \in {"refresh", "logout"} =>
        /\ reqs'[r].token \in Reqs /\ tokens[reqs'[r].token] # "none"
        /\ reqs'[r].root = reqs[reqs'[r].token].root
        /\ reqs'[r].place = "loaded" => tokens[reqs'[r].token] = "live"
  /\ reqs'[r].op = "refresh" => reqs'[r].place # "ok"

LEMMA BeginIs ==
  ASSUME Typed, NEW r \in Reqs, Begin(r)
  PROVE  Begins(r)
<1> USE DEF Typed
<1>1. ASSUME NEW u \in Users, LoadRegister(r, u) PROVE Begins(r)
  BY <1>1, LoadedIs DEF LoadRegister, Begins, Ops, Places, Answers
<1>2. ASSUME NEW u \in Users, LoadLogin(r, u) PROVE Begins(r)
  BY <1>2, LoadedIs DEF LoadLogin, Begins, Ops, Places, Answers
<1>3. ASSUME NEW t \in Reqs, tokens[t] # "none" PROVE reqs[t].user \in Users /\ reqs[t].root \in Reqs
  BY <1>3 DEF Issued, Sent, TypeOK, Request
<1>5. ASSUME NEW t \in Reqs, LoadRefresh(r, t) PROVE Begins(r)
  BY <1>3, <1>5, LoadedIs DEF LoadRefresh, Begins, Ops, Places, Answers
<1>6. ASSUME NEW t \in Reqs, LoadLogout(r, t) PROVE Begins(r)
  BY <1>3, <1>6, LoadedIs DEF LoadLogout, Begins, Ops, Places, Answers
<1> QED
  BY <1>1, <1>2, <1>5, <1>6 DEF Begin

\* What the rest of request r does to the tokens: nothing, a login, a rotation, a logout.
Finishes(r) ==
  /\ Busy(r)
  /\ \/ /\ \E p \in {"error", "raising", "refused"} : Moves(r, p)
        /\ UNCHANGED <<tokens, overtaken, ended>>
     \/ /\ reqs[r].place = "loaded" /\ Moves(r, "ok")
        /\ \/ /\ reqs[r].op \in {"register", "login"}
              /\ tokens' = [tokens EXCEPT ![r] = "live"]
              /\ UNCHANGED <<overtaken, ended>>
           \/ /\ reqs[r].op = "refresh"
              /\ tokens' = [tokens EXCEPT ![reqs[r].token] = "revoked", ![r] = "live"]
              /\ overtaken' = overtaken \cup Overtakes(r)
              /\ ended' = ended
           \/ /\ reqs[r].op = "logout"
              /\ tokens' = [tokens EXCEPT ![reqs[r].token] = "revoked"]
              /\ overtaken' = overtaken \cup Overtakes(r)
              /\ ended' = ended \cup {reqs[r].root}

LEMMA FinishIs ==
  ASSUME Typed, NEW r \in Reqs, Finish(r)
  PROVE  Finishes(r)
<1> USE DEF Typed, Places, Answers
<1>1. CASE Register(r)
  BY <1>1, GotoMoves DEF Register, Finishes, Busy
<1>2. CASE WrongPassword(r)
  BY <1>2, WrongMoves DEF WrongPassword, Finishes, Busy
<1>3. CASE Login(r)
  BY <1>3, GotoMoves DEF Login, Finishes, Busy
<1>4. CASE NoMembership(r) \/ Rollback(r)
  BY <1>4, GotoMoves DEF NoMembership, Rollback, Finishes, Busy
<1>5. CASE Refresh(r)
  BY <1>5, GotoMoves DEF Refresh, Finishes, Busy
<1>6. CASE Logout(r)
  BY <1>6, GotoMoves DEF Logout, Finishes, Busy
<1> QED
  BY <1>1, <1>2, <1>3, <1>4, <1>5, <1>6 DEF Finish

-----------------------------------------------------------------------------
(* Types. *)

LEMMA TypedInit == Init => Typed
BY DEF Init, Typed, TypeOK, Issued, Sent, IdleRequest, Request, Places, Answers, Ops,
       NoAccount, UserRow, TokenStates

\* The columns that Register and Login write.
LEMMA UsersTyped ==
  ASSUME Typed, NEW r \in Reqs, Finish(r)
  PROVE  /\ users' \in [Users -> UserRow] /\ orgs' \subseteq Reqs /\ members' \subseteq Users
         /\ failures' \in [Users -> 0 .. MaxAttempts]
<1>1. reqs[r].user \in Users
  BY FinishIs DEF Finishes, Busy, Typed, Sent
<1>2. reqs[r].copy \in UserRow
  BY DEF Typed, TypeOK, Request
<1>3. Account \in UserRow
  BY RowsTyped
<1>4. CASE Register(r)
  BY <1>1, <1>3, <1>4 DEF Register, Typed, TypeOK
<1>5. CASE WrongPassword(r)
  BY <1>1, <1>5 DEF WrongPassword, Typed, TypeOK
<1>6. CASE Login(r)
  BY <1>1, <1>2, <1>6 DEF Login, Typed, TypeOK, UserRow
<1>7. CASE NoMembership(r) \/ Rollback(r) \/ Refresh(r) \/ Logout(r)
  BY <1>7 DEF NoMembership, Rollback, Refresh, Logout, Typed, TypeOK
<1> QED
  BY <1>4, <1>5, <1>6, <1>7 DEF Finish

\* Only a registration that is done adds an organization.
LEMMA OrgsAdded ==
  ASSUME Typed, NEW r \in Reqs, Finish(r)
  PROVE  orgs' = orgs \/ (orgs' = orgs \cup {r} /\ reqs'[r].place = "ok")
<1>1. CASE Register(r)
  BY <1>1, GotoMoves DEF Register, Moves, Typed, Places, Answers
<1>2. CASE ~Register(r)
  BY <1>2 DEF Finish, WrongPassword, Login, NoMembership, Rollback, Refresh, Logout
<1> QED
  BY <1>1, <1>2

LEMMA TypedStep ==
  ASSUME Typed, [Next]_vars
  PROVE  Typed'
<1>1. CASE UNCHANGED vars
  BY <1>1 DEF vars, Typed, TypeOK, Issued, Sent
<1>2. ASSUME NEW u \in Users, LoseMembership(u) PROVE Typed'
  BY <1>2 DEF LoseMembership, Typed, TypeOK, Issued, Sent
<1>3. ASSUME NEW r \in Reqs, Begin(r) PROVE Typed'
  <2>1. Begins(r)
    BY <1>3, BeginIs
  <2>2. TypeOK'
    BY <2>1 DEF Begins, Typed, TypeOK
  <2>3. Issued' /\ Sent'
    BY <2>1, SMTT(30) DEF Begins, Typed, TypeOK, Request, Ops, Issued, Sent
  <2> QED BY <2>2, <2>3 DEF Typed
<1>4. ASSUME NEW r \in Reqs, Finish(r) PROVE Typed'
  <2>1. Finishes(r)
    BY <1>4, FinishIs
  <2>2. tokens' \in [Reqs -> TokenStates]
    BY <2>1 DEF Finishes, Busy, Typed, TypeOK, Sent, TokenStates
  <2>3. TypeOK'
    <3>1. overtaken' \subseteq Reqs /\ ended' \subseteq Reqs
      BY <2>1 DEF Finishes, Overtakes, Typed, TypeOK, Request
    <3> QED BY <1>4, <2>1, <2>2, <3>1, UsersTyped DEF Finishes, Moves, TypeOK
  <2>4. /\ \A t \in Reqs : tokens[t] # "none" => tokens'[t] # "none"
        /\ \/ tokens' = tokens
           \/ reqs'[r].place = "ok" /\ \A t \in Reqs : tokens'[t] # "none" => t = r \/ tokens[t] # "none"
    <3>1. /\ tokens \in [Reqs -> TokenStates]
          /\ reqs[r].op \in {"refresh", "logout"} =>
                reqs[r].token \in Reqs /\ tokens[reqs[r].token] # "none"
      BY <2>1 DEF Finishes, Busy, Typed, TypeOK, Sent
    <3> QED BY <2>1, <3>1 DEF Finishes, Moves
  <2>5. Sent'
    BY <2>1, <2>4 DEF Finishes, Moves, Busy, Typed, Sent
  <2>6. \A t \in Reqs : tokens'[t] # "none" => reqs'[t].place = "ok"
    <3>1. \A q \in Reqs : reqs[q].place = "ok" => reqs'[q] = reqs[q]
      BY <2>1 DEF Finishes, Moves, Busy
    <3> QED BY <2>4, <3>1 DEF Typed, Issued
  <2>7. \A o \in orgs' : reqs'[o].place = "ok"
    BY <1>4, <2>1, OrgsAdded DEF Finishes, Moves, Busy, Typed, TypeOK, Issued
  <2> QED BY <2>3, <2>5, <2>6, <2>7 DEF Typed, Issued
<1> QED
  BY <1>1, <1>2, <1>3, <1>4 DEF Next

\* The state of the session component has its types.
THEOREM TypeCorrect == Spec => []TypeOK
<1>1. Typed => TypeOK
  BY DEF Typed
<1> QED
  BY <1>1, TypedInit, TypedStep, PTL DEF Spec

-----------------------------------------------------------------------------
(* Registration. *)

SignupInv == Typed /\ SignupIsWhole

LEMMA SignupStep ==
  ASSUME SignupInv, [Next]_vars
  PROVE  SignupIsWhole'
<1>1. CASE UNCHANGED vars
  BY <1>1 DEF vars, SignupInv, SignupIsWhole
<1>2. ASSUME NEW u \in Users, LoseMembership(u) PROVE SignupIsWhole'
  BY <1>2 DEF LoseMembership, SignupInv, SignupIsWhole
<1>3. ASSUME NEW r \in Reqs, Begin(r) PROVE SignupIsWhole'
  BY <1>3, BeginIs DEF Begins, SignupInv, SignupIsWhole, Typed, TypeOK, Issued
<1>4. ASSUME NEW r \in Reqs, Finish(r) PROVE SignupIsWhole'
  <2>1. /\ r \notin orgs /\ orgs \subseteq Reqs /\ reqs[r].user \in Users
        /\ \A o \in Reqs : reqs'[o].user = reqs[o].user
    BY <1>4, FinishIs DEF Finishes, Moves, Busy, SignupInv, Typed, TypeOK, Issued, Sent
  <2>2. \A u \in Users : users[u].exists => users'[u].exists
    BY <1>4 DEF Finish, Register, WrongPassword, Login, NoMembership, Rollback, Refresh, Logout,
                SignupInv, Typed, TypeOK, UserRow, Account
  <2>3. \A o \in orgs : reqs[o].user \in Users
    BY <2>1 DEF SignupInv, Typed, Issued, Sent
  <2>4. CASE orgs' = orgs
    BY <2>1, <2>2, <2>3, <2>4 DEF SignupInv, SignupIsWhole
  <2>5. CASE orgs' # orgs
    <3>1. /\ ~users[reqs[r].user].exists /\ users'[reqs[r].user] = Account
          /\ orgs' = orgs \cup {r}
      BY <1>4, <2>1, <2>5 DEF Finish, Register, WrongPassword, Login, NoMembership, Rollback,
                              Refresh, Logout, SignupInv, Typed, TypeOK
    <3>2. \A o \in orgs : reqs[o].user # reqs[r].user
      BY <3>1 DEF SignupInv, SignupIsWhole
    <3>3. Account.exists
      BY DEF Account, NoAccount
    <3> QED BY <2>1, <2>2, <2>3, <3>1, <3>2, <3>3 DEF SignupInv, SignupIsWhole
  <2> QED BY <2>4, <2>5
<1> QED
  BY <1>1, <1>2, <1>3, <1>4 DEF Next

\* Concurrent registrations of one e-mail leave one organization, which has its user.
THEOREM SignupsAreWhole == Spec => []SignupIsWhole
<1>1. Init => SignupInv
  BY TypedInit DEF Init, SignupInv, SignupIsWhole
<1>2. SignupInv /\ [Next]_vars => SignupInv'
  BY TypedStep, SignupStep DEF SignupInv
<1>3. SignupInv => SignupIsWhole
  BY DEF SignupInv
<1> QED
  BY <1>1, <1>2, <1>3, PTL DEF Spec

-----------------------------------------------------------------------------
(* Rotation. *)

RotationInv == Typed /\ Rotating

LEMMA RotationInit == Init => RotationInv
<1> SUFFICES ASSUME Init PROVE RotationInv
  OBVIOUS
<1>1. (\A r \in Reqs : reqs[r].place = "idle" /\ tokens[r] = "none") /\ ended = {}
  BY DEF Init, IdleRequest
<1> QED
  BY <1>1, TypedInit DEF RotationInv, Rotating, Rooted, StillLive, Spent,
       RedeemedOnceUnlessOvertaken, Redeems, LiveUnlessOvertaken

\* A new request presents a token that is live, or is refused.
LEMMA RotationBegin ==
  ASSUME RotationInv, NEW r \in Reqs, Begins(r)
  PROVE  Rotating'
<1> USE DEF RotationInv, Rotating
<1>1. /\ \A t \in Reqs : tokens[t] # "none" => reqs'[t] = reqs[t]
      /\ \A t \in Reqs : reqs[t].root \in Reqs
      /\ tokens' = tokens /\ overtaken' = overtaken /\ ended' = ended
      /\ overtaken \subseteq Reqs
  BY DEF Begins, Typed, TypeOK, Issued, Request
<1>2. \A q \in Reqs : q # r => reqs'[q] = reqs[q]
  BY DEF Begins
<1>3. Rooted'
  <2>1. \A t \in Reqs : tokens[t] # "none" => tokens'[reqs'[t].root] # "none"
    BY <1>1 DEF Rooted
  <2>2. \A q \in Reqs : (reqs'[q].place = "loaded" /\ reqs'[q].op \in {"register", "login"}) => reqs'[q].root = q
    BY DEF Begins, Rooted
  <2>3. \A q \in Reqs : (reqs'[q].place = "loaded" /\ reqs'[q].op \in {"refresh", "logout"}) =>
           reqs'[q].root = reqs'[reqs'[q].token].root
    <3>1. ASSUME NEW q \in Reqs, q # r, reqs'[q].place = "loaded", reqs'[q].op \in {"refresh", "logout"}
          PROVE  reqs'[q].root = reqs'[reqs'[q].token].root
      BY <1>1, <1>2, <3>1 DEF Rooted, Typed, Sent
    <3>2. ASSUME reqs'[r].op \in {"refresh", "logout"} PROVE reqs'[r].root = reqs'[reqs'[r].token].root
      BY <1>1, <3>2 DEF Begins
    <3> QED BY <3>1, <3>2
  <2> QED BY <1>1, <2>1, <2>2, <2>3 DEF Rooted
<1>4. StillLive' /\ Spent'
  BY <1>1, <1>2 DEF StillLive, Spent, Begins
<1>5. RedeemedOnceUnlessOvertaken'
  <2>1. \A t, q \in Reqs : Redeems(q, t)' => Redeems(q, t)
    BY <1>2 DEF Redeems, Begins
  <2> QED BY <1>1, <2>1 DEF RedeemedOnceUnlessOvertaken
<1>6. LiveUnlessOvertaken'
  <2>1. \A x \in Reqs : Raced(x) => Raced(x)'
    BY <1>1, <1>2 DEF Raced, Begins
  <2> QED BY <1>1, <2>1 DEF LiveUnlessOvertaken
<1> QED
  BY <1>3, <1>4, <1>5, <1>6

\* A request that goes on leaves the token another one has found live as it is, or
\* overtakes that other one.
LEMMA RotationFinish ==
  ASSUME RotationInv, NEW r \in Reqs, Finishes(r)
  PROVE  Rotating'
<1> USE DEF RotationInv, Rotating
<1> DEFINE tok == reqs[r].token
<1>1. /\ tokens \in [Reqs -> TokenStates] /\ tokens[r] = "none"
      /\ \A q \in Reqs : reqs[q].root \in Reqs
      /\ overtaken \subseteq Reqs /\ ended \subseteq Reqs
      /\ \A q \in Reqs : /\ reqs'[q].op = reqs[q].op /\ reqs'[q].token = reqs[q].token
                         /\ reqs'[q].root = reqs[q].root
                         /\ reqs'[q].place = "loaded" => reqs[q].place = "loaded" /\ q # r
                         /\ q # r => reqs'[q].place = reqs[q].place
                         /\ reqs[q].place = "ok" => reqs'[q].place = "ok"
  BY DEF Finishes, Moves, Busy, Typed, TypeOK, Issued, Request
<1>2. ASSUME reqs[r].place = "loaded", reqs[r].op \in {"refresh", "logout"}
      PROVE  tok \in Reqs /\ tokens[tok] # "none" /\ tok # r
  BY <1>1, <1>2 DEF Typed, Sent
<1>3. overtaken \subseteq overtaken' /\ ended \subseteq ended'
  BY DEF Finishes
<1>4. \A t \in Reqs : (tokens[t] # "none" => tokens'[t] # "none")
                   /\ (tokens[t] = "revoked" => tokens'[t] = "revoked")
  BY <1>1, <1>2 DEF Finishes
<1>5. \A t \in Reqs : (tokens'[t] = "live" /\ t # r) => tokens[t] = "live"
  BY <1>1, <1>2 DEF Finishes
<1>6. Rooted'
  <2>1. ASSUME NEW t \in Reqs, tokens'[t] # "none" PROVE tokens'[reqs'[t].root] # "none"
    <3>1. CASE tokens[t] # "none"
      BY <1>1, <1>4, <3>1 DEF Rooted
    <3>2. CASE tokens[t] = "none"
      <4>1. t = r /\ reqs[r].place = "loaded"
            /\ tokens'[r] # "none" /\ reqs[r].op \in {"register", "login", "refresh"}
        BY <1>1, <1>2, <2>1, <3>2 DEF Finishes
      <4>2. CASE reqs[r].op # "refresh"
        BY <1>1, <4>1, <4>2 DEF Rooted
      <4>3. CASE reqs[r].op = "refresh"
        <5>1. reqs[r].root = reqs[tok].root /\ tokens[tok] # "none" /\ tok \in Reqs
          BY <1>2, <4>1, <4>3 DEF Rooted
        <5>2. tokens[reqs[r].root] # "none"
          BY <5>1 DEF Rooted
        <5> QED BY <1>1, <1>4, <4>1, <5>2
      <4> QED BY <4>2, <4>3
    <3> QED BY <3>1, <3>2
  <2>2. \A q \in Reqs : (reqs'[q].place = "loaded" /\ reqs'[q].op \in {"register", "login"}) => reqs'[q].root = q
    BY <1>1 DEF Rooted
  <2>3. \A q \in Reqs : (reqs'[q].place = "loaded" /\ reqs'[q].op \in {"refresh", "logout"}) =>
           reqs'[q].root = reqs'[reqs'[q].token].root
    BY <1>1 DEF Rooted, Typed, Sent
  <2>4. ASSUME NEW x \in ended' PROVE tokens'[x] # "none"
    <3>1. CASE x \in ended
      BY <1>1, <1>4, <3>1 DEF Rooted
    <3>2. CASE x \notin ended
      <4>1. x = reqs[r].root /\ reqs[r].place = "loaded" /\ reqs[r].op = "logout"
        BY <2>4, <3>2 DEF Finishes
      <4>2. reqs[r].root = reqs[tok].root /\ tokens[tok] # "none" /\ tok \in Reqs
        BY <1>2, <4>1 DEF Rooted
      <4>3. tokens[x] # "none" /\ x \in Reqs
        BY <1>1, <4>1, <4>2 DEF Rooted
      <4> QED BY <1>4, <4>3
    <3> QED BY <3>1, <3>2
  <2> QED BY <2>1, <2>2, <2>3, <2>4 DEF Rooted
<1>7. StillLive'
  <2> SUFFICES ASSUME NEW q \in Reqs, reqs'[q].place = "loaded", reqs'[q].op \in {"refresh", "logout"},
                      q \notin overtaken'
               PROVE  tokens'[reqs'[q].token] = "live"
    BY DEF StillLive
  <2>1. /\ reqs[q].place = "loaded" /\ reqs[q].op \in {"refresh", "logout"} /\ q # r
        /\ reqs[q].token \in Reqs /\ tokens[reqs[q].token] = "live"
    BY <1>1, <1>3 DEF StillLive, Typed, Sent
  <2>2. reqs[q].token # tok \/ tokens' = tokens \/ reqs[r].op \in {"register", "login"}
    BY <2>1 DEF Finishes, Overtakes
  <2>3. reqs[q].token # r
    BY <1>1, <2>1
  <2>4. tokens'[reqs[q].token] = tokens[reqs[q].token]
    BY <1>1, <1>2, <2>1, <2>2, <2>3 DEF Finishes
  <2> QED BY <1>1, <2>1, <2>4
<1>8. Spent'
  <2> SUFFICES ASSUME NEW q \in Reqs, reqs'[q].place = "ok", reqs'[q].op = "refresh"
               PROVE  tokens'[reqs'[q].token] = "revoked"
    BY DEF Spent
  <2>1. CASE q # r
    <3>1. reqs[q].token \in Reqs /\ tokens[reqs[q].token] = "revoked"
      BY <1>1, <2>1 DEF Spent, Typed, Sent
    <3> QED BY <1>1, <1>4, <3>1
  <2>2. CASE q = r
    BY <1>1, <1>2, <2>2 DEF Finishes, Moves
  <2> QED BY <2>1, <2>2
<1>9. RedeemedOnceUnlessOvertaken'
  <2>1. ASSUME NEW t \in Reqs, NEW q \in Reqs, q # r, Redeems(q, t)', Redeems(r, t)'
        PROVE  r \in overtaken
    <3>1. reqs[q].place = "ok" /\ reqs[q].op = "refresh" /\ reqs[q].token = t
      BY <1>1, <2>1 DEF Redeems
    <3>2. tokens[t] = "revoked"
      BY <3>1 DEF Spent
    <3>3. reqs[r].op = "refresh" /\ tok = t /\ reqs'[r].place = "ok"
      BY <1>1, <2>1 DEF Redeems
    <3>4. reqs[r].place = "loaded"
      BY <3>3 DEF Finishes, Moves
    <3> QED BY <3>2, <3>3, <3>4 DEF StillLive
  <2>2. \A t, q \in Reqs : q # r /\ Redeems(q, t)' => Redeems(q, t)
    BY <1>1 DEF Redeems
  <2> QED BY <1>3, <2>1, <2>2 DEF RedeemedOnceUnlessOvertaken
<1>10. \A x \in Reqs : Raced(x) => Raced(x)'
  BY <1>1, <1>3 DEF Raced
<1>11. \* The token a refresh or logout commits with was live, or its session is raced.
       ASSUME NEW x \in Reqs, x = reqs[r].root, ~Raced(x)',
              reqs'[r].place = "ok", reqs[r].place = "loaded", reqs[r].op \in {"refresh", "logout"}
       PROVE  tokens[tok] = "live" /\ tok \in Reqs /\ tok # r /\ reqs[tok].root = reqs[r].root
  <2>1. r \notin overtaken
    BY <1>1, <1>3, <1>11 DEF Raced
  <2> QED BY <1>2, <1>11, <2>1 DEF StillLive, Rooted
<1>12. LiveUnlessOvertaken'
  <2> SUFFICES ASSUME NEW t \in Reqs, NEW x \in Reqs, x = reqs[t].root, ~Raced(x)', tokens'[t] = "live"
               PROVE  /\ reqs[t].root \notin ended'
                      /\ \A s \in Reqs : (tokens'[s] = "live" /\ reqs[s].root = reqs[t].root) => s = t
    BY <1>1 DEF LiveUnlessOvertaken
  <2>0. ~Raced(x)
    BY <1>10
  <2>1. CASE t = r
    <3>1. /\ reqs[r].place = "loaded" /\ reqs'[r].place = "ok"
          /\ reqs[r].op \in {"register", "login", "refresh"} /\ ended' = ended
      BY <1>1, <1>2, <2>1 DEF Finishes, Moves
    <3>2. CASE reqs[r].op # "refresh"
      <4>1. reqs[r].root = r /\ r \notin ended
        BY <1>1, <3>1, <3>2 DEF Rooted
      <4>2. \A s \in Reqs : (tokens'[s] = "live" /\ s # r) => reqs[s].root # r
        BY <1>1, <1>5 DEF Rooted
      <4> QED BY <2>1, <3>1, <4>1, <4>2
    <3>3. CASE reqs[r].op = "refresh"
      <4>1. tokens[tok] = "live" /\ tok \in Reqs /\ tok # r /\ reqs[tok].root = reqs[r].root
        BY <1>11, <2>1, <3>1, <3>3
      <4>2. /\ reqs[r].root \notin ended
            /\ \A s \in Reqs : (tokens[s] = "live" /\ reqs[s].root = reqs[r].root) => s = tok
        BY <2>0, <2>1, <4>1 DEF LiveUnlessOvertaken
      <4>3. tokens'[tok] = "revoked"
        BY <1>1, <2>1, <3>3, <4>1 DEF Finishes
      <4> QED BY <1>5, <2>1, <3>1, <4>2, <4>3
    <3> QED BY <3>1, <3>2, <3>3
  <2>2. CASE t # r
    <3>1. tokens[t] = "live"
      BY <1>5, <2>2
    <3>2. /\ reqs[t].root \notin ended
          /\ \A s \in Reqs : (tokens[s] = "live" /\ reqs[s].root = reqs[t].root) => s = t
      BY <2>0, <3>1 DEF LiveUnlessOvertaken
    <3>3. reqs[t].root \notin ended'
      <4> SUFFICES ASSUME reqs[t].root \in ended' PROVE FALSE
        OBVIOUS
      <4>1. /\ reqs[r].place = "loaded" /\ reqs'[r].place = "ok" /\ reqs[r].op = "logout"
            /\ reqs[r].root = reqs[t].root /\ tokens' = [tokens EXCEPT ![tok] = "revoked"]
        BY <3>2 DEF Finishes, Moves
      <4>2. tokens[tok] = "live" /\ tok \in Reqs /\ reqs[tok].root = reqs[t].root
        BY <1>11, <4>1
      <4>3. tok = t
        BY <3>2, <4>2
      <4> QED BY <1>1, <4>1, <4>2, <4>3
    <3>4. tokens'[r] = "live" => reqs[r].root # reqs[t].root
      <4> SUFFICES ASSUME tokens'[r] = "live", reqs[r].root = reqs[t].root PROVE FALSE
        OBVIOUS
      <4>1. /\ reqs[r].place = "loaded" /\ reqs'[r].place = "ok"
            /\ reqs[r].op \in {"register", "login", "refresh"}
        BY <1>1, <1>2 DEF Finishes, Moves
      <4>2. CASE reqs[r].op # "refresh"
        BY <1>1, <3>1, <4>1, <4>2 DEF Rooted
      <4>3. CASE reqs[r].op = "refresh"
        <5>1. tokens[tok] = "live" /\ tok \in Reqs /\ tok # r /\ reqs[tok].root = reqs[t].root
          BY <1>11, <4>1, <4>3
        <5>2. tok = t
          BY <3>2, <5>1
        <5>3. tokens'[tok] = "revoked"
          BY <1>1, <4>3, <5>1 DEF Finishes
        <5> QED BY <5>2, <5>3
      <4> QED BY <4>1, <4>2, <4>3
    <3> QED BY <1>5, <3>2, <3>3, <3>4
  <2> QED BY <2>1, <2>2
<1> QED
  BY <1>6, <1>7, <1>8, <1>9, <1>12

LEMMA RotationStep ==
  ASSUME RotationInv, [Next]_vars
  PROVE  RotationInv'
<1>1. Typed /\ Typed'
  BY TypedStep DEF RotationInv
<1>2. CASE UNCHANGED <<tokens, reqs, overtaken, ended>>
  <2>1. Rotating'
    BY <1>2 DEF RotationInv, Rotating, Rooted, StillLive, Spent, RedeemedOnceUnlessOvertaken,
                Redeems, LiveUnlessOvertaken, Raced
  <2> QED BY <1>1, <2>1 DEF RotationInv
<1>3. CASE UNCHANGED vars \/ \E u \in Users : LoseMembership(u)
  BY <1>2, <1>3 DEF vars, LoseMembership
<1>4. ASSUME NEW r \in Reqs, Begin(r) PROVE RotationInv'
  BY <1>1, <1>4, BeginIs, RotationBegin DEF RotationInv
<1>5. ASSUME NEW r \in Reqs, Finish(r) PROVE RotationInv'
  BY <1>1, <1>5, FinishIs, RotationFinish DEF RotationInv
<1> QED
  BY <1>3, <1>4, <1>5 DEF Next

\* The invariant holds whatever overlaps.
LEMMA Rotation == Spec => []RotationInv
<1>1. RotationInv /\ [Next]_vars => RotationInv'
  BY RotationStep
<1> QED
  BY <1>1, RotationInit, PTL DEF Spec

\* A refresh token is redeemed twice only by requests of which one overtook the other:
\* refresh.
THEOREM RedeemsTwiceInARaceOnly == Spec => []RedeemedOnceUnlessOvertaken
<1>1. RotationInv => RedeemedOnceUnlessOvertaken
  BY DEF RotationInv, Rotating
<1> QED
  BY <1>1, Rotation, PTL

\* A session without such a race has one live refresh token at most, and none after a
\* logout: refresh and logout.
THEOREM TokensRotate == Spec => []LiveUnlessOvertaken
<1>1. RotationInv => LiveUnlessOvertaken
  BY DEF RotationInv, Rotating
<1> QED
  BY <1>1, Rotation, PTL

=============================================================================
