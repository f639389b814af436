---------------------------- MODULE MembersProofs ----------------------------
(***************************************************************************)
(* Theorems about Members: types, one membership per person, and that the   *)
(* workspace loses its last admin to an overtaken request only.             *)
(***************************************************************************)
EXTENDS Members, FiniteSetTheorems, TLAPS

-----------------------------------------------------------------------------
(* The invariant, in named parts. *)

\* A row exists only after the invite that inserts it has committed.
Inserted == \A w \in Reqs : members[w] # "none" => reqs[w].place = "ok"

\* What a request has loaded is a row of the member it is about.
Loaded ==
  \A r \in Reqs : (reqs[r].place \in {"count", "write"} /\ reqs[r].op # "invite") =>
     \E w \in Rows : /\ w = reqs[r].row
                     /\ Owner(w) = reqs[r].user
                     /\ w = First \/ reqs[w].place = "ok"

\* The workspace has an admin other than the member a request has cleared for writing.
AnotherAdmin(u) == \E w \in Rows : members[w] = "admin" /\ Owner(w) # u
Reducing(r) == InProgress(r) /\ Reduces(reqs[r].op, reqs[r].role)
Cleared == \A r \in Reqs : (Reducing(r) /\ reqs[r].place = "write" /\ r \notin overtaken) =>
                               AnotherAdmin(reqs[r].user)

\* No demotion or removal that was overtaken has committed.
Unraced == ~\E r \in overtaken : reqs[r].place = "ok" /\ Reduces(reqs[r].op, reqs[r].role)

Consistent == TypeOK /\ Inserted /\ Loaded /\ OneMembership
Guarded    == Consistent /\ (Unraced => Cleared /\ AdminRemains)

-----------------------------------------------------------------------------
(* How a step changes the requests. *)

\* A handler moves its own request on; whom it is about and what it asks stay.
Proceeds(r) ==
  /\ reqs[r].place \in Doing
  /\ reqs' \in [Reqs -> Request]
  /\ \A q \in Reqs : q # r => reqs'[q] = reqs[q]
  /\ reqs'[r].user = reqs[r].user /\ reqs'[r].op = reqs[r].op /\ reqs'[r].role = reqs[r].role
  /\ reqs'[r].place # "idle"

LEMMA GotoProceeds ==
  ASSUME TypeOK, NEW r \in Reqs, reqs[r].place \in Doing,
         NEW p \in Doing \cup Answers, Goto(r, p)
  PROVE  Proceeds(r) /\ reqs'[r] = [reqs[r] EXCEPT !.place = p]
<1>1. reqs \in [Reqs -> Request] /\ reqs[r] \in Request
  BY DEF TypeOK
<1>2. [reqs[r] EXCEPT !.place = p] \in Request
  BY <1>1 DEF Request
<1>3. reqs' = [reqs EXCEPT ![r] = [reqs[r] EXCEPT !.place = p]]
  BY <1>1 DEF Goto
<1> QED
  BY <1>1, <1>2, <1>3 DEF Proceeds, Doing, Answers, Request

\* The handlers that only read: members and accounts stay.
Reads(r) == NotFound(r) \/ LoadMember(r) \/ CountAdmins(r) \/ CheckInvite(r)

LEMMA LoadProceeds ==
  ASSUME TypeOK, NEW r \in Reqs, LoadMember(r)
  PROVE  /\ Proceeds(r)
         /\ reqs'[r].row \in RowsOf(reqs[r].user)
         /\ reqs'[r].was = members[reqs'[r].row]
         /\ reqs'[r].place = IF NeedsCount(r, reqs'[r].was) THEN "count" ELSE "write"
<1>1. PICK w \in RowsOf(reqs[r].user) :
        reqs' = [reqs EXCEPT ![r].row = w, ![r].was = members[w],
                             ![r].place = IF NeedsCount(r, members[w]) THEN "count" ELSE "write"]
  BY DEF LoadMember
<1>2. reqs \in [Reqs -> Request] /\ reqs[r] \in Request /\ w \in Rows /\ members[w] \in Roles
  BY DEF TypeOK, RowsOf, Roles
<1> DEFINE p == IF NeedsCount(r, members[w]) THEN "count" ELSE "write"
           new == [reqs[r] EXCEPT !.row = w, !.was = members[w], !.place = p]
<1>3. p \in {"count", "write"}
  OBVIOUS
<1>4. new \in Request
  <2> HIDE DEF p
  <2> QED BY <1>2, <1>3 DEF Request, Doing
<1>5. reqs' = [reqs EXCEPT ![r] = new]
  BY <1>1, <1>2
<1>6. reqs[r].place \in Doing
  BY DEF LoadMember, Doing
<1>7. /\ reqs'[r] = new /\ new.row = w /\ new.was = members[w] /\ new.place = p
      /\ new.user = reqs[r].user /\ new.op = reqs[r].op /\ new.role = reqs[r].role
  <2> HIDE DEF p
  <2> QED BY <1>2, <1>5 DEF Request
<1> QED
  <2> HIDE DEF new
  <2>1. Proceeds(r)
    <3> HIDE DEF p
    <3> QED BY <1>2, <1>3, <1>4, <1>5, <1>6, <1>7 DEF Proceeds
  <2> QED BY <2>1, <1>7

LEMMA CheckProceeds ==
  ASSUME TypeOK, NEW r \in Reqs, CheckInvite(r)
  PROVE  Proceeds(r) /\ reqs'[r].op = "invite"
<1> DEFINE k == reqs[r].user \in accounts
           p == IF RowsOf(reqs[r].user) = {} THEN "write" ELSE "conflict"
           new == [reqs[r] EXCEPT !.known = k, !.place = p]
<1>1. reqs \in [Reqs -> Request] /\ reqs[r] \in Request
  BY DEF TypeOK
<1>2. k \in BOOLEAN /\ p \in {"write", "conflict"}
  OBVIOUS
<1>3. new \in Request
  <2> HIDE DEF k, p
  <2> QED BY <1>1, <1>2 DEF Request, Doing, Answers
<1>4. reqs' = [reqs EXCEPT ![r] = new]
  BY <1>1 DEF CheckInvite
<1>5. /\ reqs'[r] = new /\ new.place = p /\ new.user = reqs[r].user
      /\ new.op = reqs[r].op /\ new.role = reqs[r].role
  <2> HIDE DEF k, p
  <2> QED BY <1>1, <1>4 DEF Request
<1>6. reqs[r].place \in Doing /\ reqs[r].op = "invite"
  BY DEF CheckInvite, Doing
<1> QED
  <2> HIDE DEF new, k, p
  <2> QED BY <1>1, <1>2, <1>3, <1>4, <1>5, <1>6 DEF Proceeds

LEMMA HandleProceeds ==
  ASSUME TypeOK, NEW r \in Reqs, Handle(r)
  PROVE  Proceeds(r)
<1>1. CASE NotFound(r)
  BY <1>1, GotoProceeds DEF NotFound, Doing, Answers
<1>2. CASE LoadMember(r)
  BY <1>2, LoadProceeds
<1>3. CASE CountAdmins(r)
  <2> DEFINE p == IF Cardinality(AdminsSeen(r)) <= 1 THEN "last_admin" ELSE "write"
  <2>1. p \in Doing \cup Answers
    BY DEF Doing, Answers
  <2>2. Goto(r, p) /\ reqs[r].place \in Doing
    BY <1>3 DEF CountAdmins, Doing
  <2> HIDE DEF p
  <2> QED BY <2>1, <2>2, GotoProceeds
<1>4. CASE ChangeRole(r)
  <2>1. \E p \in {"ok", "error"} : Goto(r, p)
    BY <1>4 DEF ChangeRole
  <2> QED BY <2>1, <1>4, GotoProceeds DEF ChangeRole, Doing, Answers
<1>5. CASE RemoveUser(r)
  BY <1>5, GotoProceeds DEF RemoveUser, Doing, Answers
<1>6. CASE CheckInvite(r)
  BY <1>6, CheckProceeds
<1>7. CASE Invite(r)
  <2>1. \E p \in {"ok", "error"} : Goto(r, p)
    BY <1>7 DEF Invite
  <2> QED BY <2>1, <1>7, GotoProceeds DEF Invite, Doing, Answers
<1> QED
  BY <1>1, <1>2, <1>3, <1>4, <1>5, <1>6, <1>7 DEF Handle

LEMMA StartIs ==
  ASSUME TypeOK, NEW r \in Reqs, NEW op \in Ops, NEW u \in Users, NEW role \in Roles,
         Start(r, op, u, role)
  PROVE  /\ reqs' \in [Reqs -> Request]
         /\ \A q \in Reqs : q # r => reqs'[q] = reqs[q]
         /\ reqs[r].place = "idle"
         /\ reqs'[r].place = "load" /\ reqs'[r].op = op
         /\ reqs'[r].user = u /\ reqs'[r].role = role
<1> DEFINE new == [IdleRequest EXCEPT !.place = "load", !.op = op, !.user = u, !.role = role]
<1>1. new \in Request /\ new.place = "load" /\ new.op = op /\ new.user = u /\ new.role = role
  BY FounderAssumption DEF IdleRequest, Request, Doing, Ops, Roles
<1>2. reqs \in [Reqs -> Request] /\ reqs' = [reqs EXCEPT ![r] = new] /\ reqs[r].place = "idle"
  BY DEF TypeOK, Start
<1> HIDE DEF new
<1> QED
  BY <1>1, <1>2

LEMMA OwnerKept ==
  ASSUME NEW r \in Reqs, Proceeds(r)
  PROVE  \A w \in Rows : Owner(w)' = Owner(w)
BY DEF Proceeds, Owner, Rows

\* In a step that hands a request on, the others are as they were.
LEMMA OthersKept ==
  ASSUME NEW r \in Reqs, Proceeds(r)
  PROVE  /\ \A q \in Reqs : Reducing(q)' => Reducing(q)
         /\ \A q \in Reqs : reqs[q].place = "ok" => reqs'[q] = reqs[q]
BY DEF Proceeds, Reducing, InProgress, Reduces, Doing

-----------------------------------------------------------------------------
(* Types. *)

LEMMA TypedInit == Init => TypeOK
BY FounderAssumption DEF Init, TypeOK, IdleRequest, Request, Rows, Roles, Ops, Doing

LEMMA TypedHandle ==
  ASSUME TypeOK, NEW r \in Reqs, Handle(r)
  PROVE  TypeOK'
<1>1. reqs' \in [Reqs -> Request]
  BY HandleProceeds DEF Proceeds
<1>2. reqs[r].user \in Users /\ reqs[r].role \in Roles /\ r \in Rows
  BY DEF TypeOK, Request, Rows
<1>3. members' \in [Rows -> Roles \cup {"none"}] /\ accounts' \subseteq Users
  <2>1. CASE Reads(r)
    BY <2>1 DEF Reads, NotFound, LoadMember, CountAdmins, CheckInvite, TypeOK
  <2>2. CASE ChangeRole(r)
    BY <2>2, <1>2 DEF ChangeRole, TypeOK
  <2>3. CASE RemoveUser(r)
    BY <2>3 DEF RemoveUser, TypeOK
  <2>4. CASE Invite(r)
    BY <2>4, <1>2 DEF Invite, TypeOK
  <2> QED BY <2>1, <2>2, <2>3, <2>4 DEF Handle, Reads
<1>4. tokens' = tokens /\ overtaken' \subseteq Reqs
  BY DEF Handle, NotFound, LoadMember, CountAdmins, ChangeRole, RemoveUser, CheckInvite, Invite,
         Overtakes, TypeOK
<1> QED
  BY <1>1, <1>3, <1>4 DEF TypeOK

LEMMA TypedStep ==
  ASSUME TypeOK, [Next]_vars
  PROVE  TypeOK'
<1>1. CASE UNCHANGED vars
  BY <1>1 DEF vars, TypeOK, Rows
<1>2. CASE \E u \in Users : SignIn(u)
  BY <1>2 DEF SignIn, TypeOK, RowsOf, Token, Rows
<1>3. CASE \E t \in tokens : Expire(t)
  BY <1>3 DEF Expire, TypeOK
<1>4. CASE \E r \in Reqs, op \in Ops, u \in Users, role \in Roles : Start(r, op, u, role)
  <2>1. PICK r \in Reqs, op \in Ops, u \in Users, role \in Roles : Start(r, op, u, role)
    BY <1>4
  <2>2. reqs' \in [Reqs -> Request]
    BY <2>1, StartIs
  <2> QED BY <2>1, <2>2 DEF Start, TypeOK
<1>5. CASE \E r \in Reqs : Handle(r)
  BY <1>5, TypedHandle
<1> QED
  BY <1>1, <1>2, <1>3, <1>4, <1>5 DEF Next

\* The state of the members component has its types, whoever sends what.
THEOREM TypeCorrect == Spec => []TypeOK
<1>1. TypeOK /\ [Next]_vars => TypeOK'
  BY TypedStep
<1> QED
  BY <1>1, TypedInit, PTL DEF Spec

-----------------------------------------------------------------------------
(* One membership per person. *)

LEMMA ConsistentInit == Init => Consistent
<1> SUFFICES ASSUME Init PROVE Consistent
  OBVIOUS
<1>1. Inserted /\ Loaded /\ OneMembership
  BY RowsAssumption DEF Init, Inserted, Loaded, OneMembership, IdleRequest, Rows
<1> QED
  BY <1>1, TypedInit DEF Consistent

LEMMA ConsistentStart ==
  ASSUME Consistent, NEW r \in Reqs, NEW op \in Ops, NEW u \in Users, NEW role \in Roles,
         Start(r, op, u, role)
  PROVE  Consistent' /\ members' = members /\ members[r] = "none"
                     /\ \A w \in Rows : w # r => Owner(w)' = Owner(w)
<1> USE DEF Consistent
<1>1. /\ reqs' \in [Reqs -> Request]
      /\ \A q \in Reqs : q # r => reqs'[q] = reqs[q]
      /\ reqs[r].place = "idle" /\ reqs'[r].place = "load"
  BY StartIs
<1>2. members' = members /\ members[r] = "none"
  BY <1>1 DEF Start, Inserted, TypeOK, Rows, Roles
<1>3. \A w \in Rows : w # r => Owner(w)' = Owner(w)
  BY <1>1 DEF Owner, Rows
<1>4. Inserted'
  BY <1>1, <1>2 DEF Inserted
<1>5. Loaded'
  <2> SUFFICES ASSUME NEW q \in Reqs, reqs'[q].place \in {"count", "write"}, reqs'[q].op # "invite"
               PROVE  \E w \in Rows : /\ w = reqs'[q].row
                                      /\ Owner(w)' = reqs'[q].user
                                      /\ w = First \/ reqs'[w].place = "ok"
    BY DEF Loaded, Rows
  <2>1. q # r /\ reqs'[q] = reqs[q]
    BY <1>1
  <2>2. PICK w \in Rows : w = reqs[q].row /\ Owner(w) = reqs[q].user
                         /\ (w = First \/ reqs[w].place = "ok")
    BY <2>1 DEF Loaded
  <2>3. w # r
    BY <2>2, <1>1, RowsAssumption
  <2> QED BY <2>1, <2>2, <2>3, <1>1, <1>3 DEF Rows
<1>6. OneMembership'
  BY <1>2, <1>3 DEF OneMembership, Rows
<1>7. TypeOK'
  BY TypedStep DEF Next
<1> QED
  BY <1>2, <1>3, <1>4, <1>5, <1>6, <1>7

\* What a handler does to the rows: nothing, a new role or none for the loaded row,
\* or a new row for someone who has none.
LEMMA HandleWrites ==
  ASSUME Consistent, NEW r \in Reqs, Handle(r)
  PROVE  \/ members' = members
         \/ /\ ChangeRole(r) /\ members[reqs[r].row] # "none"
            /\ members' = [members EXCEPT ![reqs[r].row] = reqs[r].role]
         \/ RemoveUser(r) /\ members' = [members EXCEPT ![reqs[r].row] = "none"]
         \/ /\ Invite(r) /\ RowsOf(reqs[r].user) = {} /\ reqs'[r].place = "ok"
            /\ members' = [members EXCEPT ![r] = reqs[r].role]
<1>1. CASE Reads(r)
  BY <1>1 DEF Reads, NotFound, LoadMember, CountAdmins, CheckInvite
<1>2. CASE ChangeRole(r)
  BY <1>2 DEF ChangeRole
<1>3. CASE RemoveUser(r)
  BY <1>3 DEF RemoveUser
<1>4. CASE Invite(r)
  <2> DEFINE clash == (~reqs[r].known /\ reqs[r].user \in accounts) \/ RowsOf(reqs[r].user) # {}
  <2>1. CASE clash
    BY <2>1, <1>4 DEF Invite
  <2>2. CASE ~clash
    <3>1. Goto(r, "ok") /\ members' = [members EXCEPT ![r] = reqs[r].role]
      BY <2>2, <1>4 DEF Invite
    <3>2. reqs'[r].place = "ok"
      BY <3>1, GotoProceeds, <1>4 DEF Consistent, TypeOK, Goto, Request
    <3> QED BY <2>2, <1>4, <3>1, <3>2
  <2> QED BY <2>1, <2>2
<1> QED
  BY <1>1, <1>2, <1>3, <1>4 DEF Handle, Reads

LEMMA ConsistentHandle ==
  ASSUME Consistent, NEW r \in Reqs, Handle(r)
  PROVE  Consistent'
<1>0. TypeOK /\ Inserted /\ Loaded /\ OneMembership
  BY DEF Consistent
<1>1. Proceeds(r) /\ \A w \in Rows : Owner(w)' = Owner(w)
  BY <1>0, HandleProceeds, OwnerKept
<1>2. TypeOK'
  BY <1>0, TypedStep DEF Next
<1>3. reqs[r].place # "ok" /\ reqs[r].place # "idle"
  BY <1>1 DEF Proceeds, Doing
<1>4. Inserted'
  <2> SUFFICES ASSUME NEW w \in Reqs, members'[w] # "none" PROVE reqs'[w].place = "ok"
    BY DEF Inserted
  <2>1. CASE members[w] # "none"
    BY <2>1, <1>0, <1>1, <1>3 DEF Inserted, Proceeds
  <2>2. CASE members[w] = "none"
    <3>1. w = r /\ Invite(r) /\ reqs'[r].place = "ok"
      BY <2>2, HandleWrites, <1>0 DEF TypeOK, Rows
    <3> QED BY <3>1
  <2> QED BY <2>1, <2>2
<1>5. Loaded'
  <2> SUFFICES ASSUME NEW q \in Reqs, reqs'[q].place \in {"count", "write"}, reqs'[q].op # "invite"
               PROVE  \E w \in Rows : /\ w = reqs'[q].row
                                      /\ Owner(w)' = reqs'[q].user
                                      /\ w = First \/ reqs'[w].place = "ok"
    BY DEF Loaded, Rows
  <2>1. \A w \in Rows : (w = First \/ reqs[w].place = "ok") => (w = First \/ reqs'[w].place = "ok")
    BY <1>1, <1>3 DEF Proceeds, Rows
  <2>2. CASE q # r
    BY <2>2, <2>1, <1>0, <1>1 DEF Loaded, Proceeds
  <2>3. CASE q = r /\ LoadMember(r)
    <3>1. reqs'[r].row \in RowsOf(reqs[r].user) /\ reqs'[r].user = reqs[r].user
      BY <2>3, <1>0, <1>1, LoadProceeds DEF Proceeds
    <3>2. PICK w \in Rows : w = reqs'[r].row /\ members[w] # "none" /\ Owner(w) = reqs[r].user
      BY <3>1 DEF RowsOf
    <3>3. w = First \/ reqs[w].place = "ok"
      BY <3>2, <1>0 DEF Inserted, Rows
    <3> QED BY <3>1, <3>2, <3>3, <2>1, <2>3, <1>1
  <2>4. CASE q = r /\ CountAdmins(r)
    <3> DEFINE p == IF Cardinality(AdminsSeen(r)) <= 1 THEN "last_admin" ELSE "write"
    <3>1. p \in Doing \cup Answers /\ Goto(r, p) /\ reqs[r].place = "count"
      BY <2>4 DEF CountAdmins, Doing, Answers
    <3> HIDE DEF p
    <3>2. reqs'[r] = [reqs[r] EXCEPT !.place = p] /\ reqs[r] \in Request
      BY <3>1, <1>0, GotoProceeds DEF Doing, TypeOK
    <3>3. reqs'[r].row = reqs[r].row /\ reqs'[r].op = reqs[r].op /\ reqs'[r].user = reqs[r].user
      BY <3>2 DEF Request
    <3> QED BY <2>1, <2>4, <3>1, <3>3, <1>0, <1>1 DEF Loaded
  <2>5. CASE q = r /\ CheckInvite(r)
    BY <2>5, <1>0, CheckProceeds
  <2>6. CASE q = r /\ (NotFound(r) \/ ChangeRole(r) \/ RemoveUser(r) \/ Invite(r))
    <3>1. \E p \in Answers : Goto(r, p)
      BY <2>6 DEF NotFound, ChangeRole, RemoveUser, Invite, Answers
    <3>2. reqs'[r].place \in Answers
      BY <3>1, <1>0 DEF Goto, TypeOK, Request
    <3> QED BY <2>6, <3>2 DEF Answers
  <2> QED BY <2>2, <2>3, <2>4, <2>5, <2>6 DEF Handle
<1>6. OneMembership'
  <2> SUFFICES ASSUME NEW v \in Rows, NEW w \in Rows, members'[v] # "none", members'[w] # "none",
                      Owner(v)' = Owner(w)'
               PROVE  v = w
    BY DEF OneMembership, Rows
  <2>1. Owner(v) = Owner(w)
    BY <1>1
  <2>2. CASE members[v] # "none" /\ members[w] # "none"
    BY <2>1, <2>2, <1>0 DEF OneMembership
  <2>3. CASE members[v] = "none" \/ members[w] = "none"
    <3>1. /\ RowsOf(reqs[r].user) = {}
          /\ members' = [members EXCEPT ![r] = reqs[r].role]
      BY <2>3, HandleWrites, <1>0 DEF TypeOK
    <3>2. Owner(r) = reqs[r].user /\ r \in Rows
      BY RowsAssumption DEF Owner, Rows
    <3>3. \A x \in Rows : members[x] # "none" => Owner(x) # reqs[r].user
      BY <3>1 DEF RowsOf
    <3>4. \A x \in Rows : x # r => members'[x] = members[x]
      BY <3>1, <1>0 DEF TypeOK
    <3> QED BY <2>1, <2>3, <3>2, <3>3, <3>4
  <2> QED BY <2>2, <2>3
<1> QED
  BY <1>2, <1>4, <1>5, <1>6 DEF Consistent

\* The steps that leave members and requests alone.
LEMMA IdleStep ==
  ASSUME UNCHANGED <<members, reqs>>
  PROVE  /\ Inserted' = Inserted /\ Loaded' = Loaded /\ OneMembership' = OneMembership
         /\ AdminRemains' = AdminRemains
         /\ overtaken' = overtaken => Unraced' = Unraced /\ Cleared' = Cleared
BY DEF Inserted, Loaded, OneMembership, Unraced, Cleared, AdminRemains, AnotherAdmin, Owner,
       Reducing, InProgress, Reduces, Rows

LEMMA ConsistentStep ==
  ASSUME Consistent, [Next]_vars
  PROVE  Consistent'
<1>1. CASE UNCHANGED <<members, reqs>>
  BY <1>1, IdleStep, TypedStep DEF Consistent
<1>2. CASE \E r \in Reqs, op \in Ops, u \in Users, role \in Roles : Start(r, op, u, role)
  BY <1>2, ConsistentStart
<1>3. CASE \E r \in Reqs : Handle(r)
  BY <1>3, ConsistentHandle
<1> QED
  BY <1>1, <1>2, <1>3 DEF Next, SignIn, Expire, vars

\* Whatever requests overlap, nobody has two memberships of the workspace.
THEOREM OneMembershipEach == Spec => []OneMembership
<1>1. Consistent /\ [Next]_vars => Consistent'
  BY ConsistentStep
<1>2. Consistent => OneMembership
  BY DEF Consistent
<1> QED
  BY <1>1, <1>2, ConsistentInit, PTL DEF Spec

-----------------------------------------------------------------------------
(* The last admin. *)

LEMMA GuardedInit == Init => Guarded
<1> SUFFICES ASSUME Init PROVE Guarded
  OBVIOUS
<1>1. Cleared
  BY DEF Init, Cleared, Reducing, InProgress, Doing, IdleRequest
<1>2. AdminRemains
  BY DEF Init, AdminRemains, Rows
<1> QED
  BY <1>1, <1>2, ConsistentInit DEF Guarded

LEMMA GuardedStart ==
  ASSUME Guarded, NEW r \in Reqs, NEW op \in Ops, NEW u \in Users, NEW role \in Roles,
         Start(r, op, u, role)
  PROVE  Guarded'
<1>0. Consistent /\ TypeOK
  BY DEF Guarded, Consistent
<1>1. /\ Consistent' /\ members' = members /\ members[r] = "none"
      /\ \A w \in Rows : w # r => Owner(w)' = Owner(w)
  BY <1>0, ConsistentStart
<1>2. /\ \A q \in Reqs : q # r => reqs'[q] = reqs[q]
      /\ reqs[r].place = "idle" /\ reqs'[r].place = "load"
      /\ overtaken' = overtaken /\ overtaken \subseteq Reqs
  BY <1>0, StartIs DEF Start, TypeOK
<1>3. \A q \in Reqs : q # r => (Reducing(q)' <=> Reducing(q))
  BY <1>2 DEF Reducing, InProgress
<1>4. Unraced' => Unraced
  BY <1>2 DEF Unraced
<1>5. Cleared => Cleared'
  <2> SUFFICES ASSUME Cleared, NEW q \in Reqs, Reducing(q)', reqs'[q].place = "write",
                      q \notin overtaken'
               PROVE  AnotherAdmin(reqs[q].user)'
    BY DEF Cleared, AnotherAdmin, Rows
  <2>1. q # r /\ reqs'[q] = reqs[q] /\ Reducing(q)
    BY <1>2, <1>3
  <2>2. PICK w \in Rows : members[w] = "admin" /\ Owner(w) # reqs[q].user
    BY <2>1, <1>2 DEF Cleared, AnotherAdmin
  <2>3. members'[w] = "admin" /\ Owner(w)' # reqs'[q].user
    BY <2>1, <2>2, <1>1
  <2> QED BY <2>3 DEF AnotherAdmin, Rows
<1>6. AdminRemains => AdminRemains'
  BY <1>1 DEF AdminRemains, Rows
<1> QED
  BY <1>1, <1>4, <1>5, <1>6 DEF Guarded

\* Two admins in what a request has counted: one of them is somebody else.
LEMMA CountClears ==
  ASSUME Consistent, NEW r \in Reqs, reqs[r].place = "count", reqs[r].op # "invite",
         ~(Cardinality(AdminsSeen(r)) <= 1)
  PROVE  AnotherAdmin(reqs[r].user)
<1>1. PICK l \in Rows : l = reqs[r].row /\ Owner(l) = reqs[r].user
  BY DEF Consistent, Loaded
<1>2. IsFiniteSet(Rows)
  BY ReqsAssumption, FS_AddElement DEF Rows
<1>3. IsFiniteSet(AdminsSeen(r))
  BY <1>2, FS_Subset DEF AdminsSeen
<1>4. PICK v \in AdminsSeen(r), w \in AdminsSeen(r) : v # w
  <2>1. AdminsSeen(r) # {}
    BY FS_EmptySet
  <2>2. PICK v \in AdminsSeen(r) : TRUE
    BY <2>1
  <2>3. AdminsSeen(r) # {v}
    BY FS_Singleton
  <2> QED BY <2>2, <2>3
<1>5. /\ v \in Rows /\ members[v] # "none" /\ (v = l \/ members[v] = "admin")
      /\ w \in Rows /\ members[w] # "none" /\ (w = l \/ members[w] = "admin")
  BY <1>1 DEF AdminsSeen
<1>6. Owner(v) # Owner(w)
  BY <1>4, <1>5 DEF Consistent, OneMembership
<1> QED
  BY <1>1, <1>5, <1>6 DEF AnotherAdmin

\* A member who is not an admin, in a workspace that has one.
LEMMA LoadClears ==
  ASSUME Consistent, AdminRemains, NEW u \in Users, NEW l \in RowsOf(u), members[l] # "admin"
  PROVE  AnotherAdmin(u)
<1>1. PICK w \in Rows : members[w] = "admin"
  BY DEF AdminRemains
<1>2. Owner(w) # u
  BY <1>1 DEF Consistent, OneMembership, RowsOf
<1> QED
  BY <1>1, <1>2 DEF AnotherAdmin

\* The commit of one request leaves another admin to those about other members that it
\* does not overtake.
LEMMA AnotherKept ==
  ASSUME Consistent, NEW r \in Reqs, Handle(r), NEW q \in Reqs,
         reqs[q].place = "write", q \notin overtaken', AnotherAdmin(reqs[q].user),
         reqs[q].user # reqs[r].user
  PROVE  AnotherAdmin(reqs[q].user)'
<1>0. TypeOK /\ Inserted /\ Loaded
  BY DEF Consistent
<1>1. PICK w \in Rows : members[w] = "admin" /\ Owner(w) # reqs[q].user
  BY DEF AnotherAdmin
<1>2. members'[w] = "admin"
  <2>1. CASE members' = members
    BY <2>1, <1>1
  <2>2. CASE /\ ChangeRole(r)
             /\ members' = [members EXCEPT ![reqs[r].row] = reqs[r].role]
    <3>1. reqs[r].role \in Roles
      BY <1>0 DEF TypeOK, Request
    <3>2. CASE reqs[r].role = "admin" \/ w # reqs[r].row
      BY <3>2, <2>2, <1>1, <1>0 DEF TypeOK
    <3>3. CASE reqs[r].role = "standard" /\ w = reqs[r].row
      <4>1. overtaken' = overtaken \cup IF reqs[r].role # reqs[r].was THEN Overtakes(r) ELSE {}
        BY <2>2, <3>3 DEF ChangeRole
      <4>2. q \in Overtakes(r)
        BY <1>1, <3>3 DEF Overtakes
      <4>3. reqs[r].role = reqs[r].was
        BY <4>1, <4>2
      <4>4. members' = members
        BY <2>2, <4>3 DEF ChangeRole
      <4> QED BY <4>4, <1>1
    <3> QED BY <3>1, <3>2, <3>3 DEF Roles
  <2>3. CASE RemoveUser(r) /\ members' = [members EXCEPT ![reqs[r].row] = "none"]
    <3>1. w # reqs[r].row
      BY <2>3, <1>1 DEF RemoveUser, Overtakes
    <3> QED BY <3>1, <2>3, <1>1, <1>0 DEF TypeOK
  <2>4. CASE Invite(r) /\ members' = [members EXCEPT ![r] = reqs[r].role]
    <3>1. members[r] = "none"
      BY <2>4, <1>0 DEF Invite, Inserted, TypeOK, Rows, Roles
    <3> QED BY <3>1, <2>4, <1>1, <1>0 DEF TypeOK
  <2> QED BY <2>1, <2>2, <2>3, <2>4, HandleWrites
<1>3. Owner(w)' # reqs'[q].user
  <2>1. Proceeds(r) /\ Owner(w)' = Owner(w)
    BY <1>0, HandleProceeds, OwnerKept
  <2> QED BY <2>1, <1>1 DEF Proceeds
<1> QED
  BY <1>2, <1>3 DEF AnotherAdmin, Rows

\* A request about the same member takes nothing from the other admins.
LEMMA SameMemberKept ==
  ASSUME Consistent, NEW r \in Reqs, Handle(r), AnotherAdmin(reqs[r].user)
  PROVE  AnotherAdmin(reqs[r].user)'
<1>0. TypeOK /\ Inserted /\ Loaded
  BY DEF Consistent
<1>1. PICK w \in Rows : members[w] = "admin" /\ Owner(w) # reqs[r].user
  BY DEF AnotherAdmin
<1>2. (ChangeRole(r) \/ RemoveUser(r)) => reqs[r].row # w
  BY <1>0, <1>1 DEF Loaded, ChangeRole, RemoveUser
<1>3. Invite(r) => members[r] = "none"
  BY <1>0 DEF Invite, Inserted, TypeOK, Rows, Roles
<1>4. members'[w] = "admin"
  BY <1>0, <1>1, <1>2, <1>3, HandleWrites DEF TypeOK
<1>5. Owner(w)' # reqs'[r].user
  <2>1. Proceeds(r) /\ Owner(w)' = Owner(w)
    BY <1>0, HandleProceeds, OwnerKept
  <2> QED BY <2>1, <1>1 DEF Proceeds
<1> QED
  BY <1>4, <1>5 DEF AnotherAdmin, Rows

\* A request is cleared by what it loads or by what it counts.
LEMMA ReadClears ==
  ASSUME Consistent, AdminRemains, NEW r \in Reqs, Handle(r),
         Reducing(r)', reqs'[r].place = "write"
  PROVE  AnotherAdmin(reqs[r].user)
<1>0. TypeOK
  BY DEF Consistent
<1>1. Reducing(r) /\ reqs[r].op # "invite"
  BY <1>0, HandleProceeds, OthersKept DEF Reducing, Reduces
<1>2. CASE LoadMember(r)
  <2>1. /\ reqs'[r].row \in RowsOf(reqs[r].user)
        /\ ~NeedsCount(r, members[reqs'[r].row])
    BY <1>2, <1>0, LoadProceeds
  <2>2. members[reqs'[r].row] # "admin"
    BY <2>1, <1>1 DEF NeedsCount, Reducing
  <2>3. reqs[r].user \in Users
    BY <1>0 DEF TypeOK, Request
  <2> QED BY <2>1, <2>2, <2>3, LoadClears
<1>3. CASE CountAdmins(r)
  <2>1. reqs[r].place = "count"
    BY <1>3 DEF CountAdmins
  <2>2. ~(Cardinality(AdminsSeen(r)) <= 1)
    <3> SUFFICES ASSUME Cardinality(AdminsSeen(r)) <= 1 PROVE FALSE
      OBVIOUS
    <3>1. Goto(r, "last_admin")
      BY <1>3 DEF CountAdmins
    <3>2. reqs'[r].place = "last_admin"
      BY <3>1, <1>0 DEF Goto, TypeOK, Request
    <3> QED BY <3>2
  <2> QED BY <2>1, <2>2, <1>1, CountClears
<1>4. CASE CheckInvite(r)
  BY <1>4, <1>1 DEF CheckInvite
<1>5. CASE NotFound(r) \/ ChangeRole(r) \/ RemoveUser(r) \/ Invite(r)
  <2>1. \E p \in Answers : Goto(r, p)
    BY <1>5 DEF NotFound, ChangeRole, RemoveUser, Invite, Answers
  <2>2. reqs'[r].place \in Answers
    BY <2>1, <1>0 DEF Goto, TypeOK, Request
  <2> QED BY <2>2 DEF Answers
<1> QED
  BY <1>2, <1>3, <1>4, <1>5 DEF Handle

LEMMA GuardedHandle ==
  ASSUME Guarded, NEW r \in Reqs, Handle(r)
  PROVE  Guarded'
<1>0. /\ Consistent /\ TypeOK /\ Inserted /\ Loaded
      /\ Unraced => Cleared /\ AdminRemains
  BY DEF Guarded, Consistent
<1>1. /\ Proceeds(r)
      /\ \A q \in Reqs : Reducing(q)' => Reducing(q)
      /\ \A q \in Reqs : reqs[q].place = "ok" => reqs'[q] = reqs[q]
      /\ \A q \in Reqs : reqs'[q].user = reqs[q].user
  BY <1>0, HandleProceeds, OthersKept DEF Proceeds
<1>2. Consistent'
  BY <1>0, ConsistentHandle
<1>3. overtaken \subseteq overtaken' /\ overtaken \subseteq Reqs
  BY <1>0 DEF Handle, NotFound, LoadMember, CountAdmins, ChangeRole, RemoveUser, CheckInvite,
              Invite, TypeOK
<1>4. Unraced' => Unraced
  BY <1>1, <1>3 DEF Unraced
<1> SUFFICES ASSUME Unraced' PROVE Cleared' /\ AdminRemains'
  BY <1>2 DEF Guarded
<1>5. Cleared /\ AdminRemains
  BY <1>0, <1>4
<1>6. Cleared'
  <2> SUFFICES ASSUME NEW q \in Reqs, Reducing(q)', reqs'[q].place = "write", q \notin overtaken'
               PROVE  AnotherAdmin(reqs[q].user)'
    BY DEF Cleared, AnotherAdmin, Rows
  <2>1. Reducing(q) /\ q \notin overtaken
    BY <1>1, <1>3
  <2>2. CASE q = r
    BY <2>2, <1>0, <1>5, ReadClears, SameMemberKept
  <2>3. CASE q # r
    <3>1. reqs[q].place = "write" /\ AnotherAdmin(reqs[q].user)
      BY <2>1, <2>3, <1>1, <1>5 DEF Cleared, Proceeds
    <3>2. CASE reqs[q].user # reqs[r].user
      BY <3>1, <3>2, <1>0, AnotherKept
    <3>3. CASE reqs[q].user = reqs[r].user
      <4>1. AnotherAdmin(reqs[r].user)'
        BY <3>1, <3>3, <1>0, SameMemberKept
      <4> QED BY <4>1, <3>3, <1>1 DEF AnotherAdmin
    <3> QED BY <3>2, <3>3
  <2> QED BY <2>2, <2>3
<1>7. AdminRemains'
  <2>1. CASE Reducing(r) /\ reqs[r].place = "write" /\ members' # members
    <3>1. reqs'[r].place = "ok" /\ Reduces(reqs'[r].op, reqs'[r].role)
      <4>1. ~Invite(r) /\ ~Reads(r)
        BY <2>1 DEF Reducing, Reduces, Invite, Reads, NotFound, LoadMember, CountAdmins, CheckInvite
      <4>2. Goto(r, "ok")
        BY <2>1, <4>1 DEF Handle, Reads, ChangeRole, RemoveUser
      <4> QED BY <2>1, <4>2, <1>0, <1>1, GotoProceeds DEF Proceeds, Reducing, Goto, TypeOK, Request
    <3>2. r \notin overtaken
      BY <3>1, <1>3 DEF Unraced
    <3>3. AnotherAdmin(reqs[r].user)'
      BY <2>1, <3>2, <1>0, <1>5, SameMemberKept DEF Cleared
    <3> QED BY <3>3 DEF AnotherAdmin, AdminRemains, Rows
  <2>2. CASE ~(Reducing(r) /\ reqs[r].place = "write") /\ members' # members
    <3>1. PICK w \in Rows : members[w] = "admin"
      BY <1>5 DEF AdminRemains
    <3>2. ~RemoveUser(r)
      BY <2>2 DEF RemoveUser, Reducing, InProgress, Reduces, Doing
    <3>3. ChangeRole(r) => reqs[r].role = "admin"
      BY <2>2, <1>0 DEF ChangeRole, Reducing, InProgress, Reduces, Doing, TypeOK, Request, Roles
    <3>4. Invite(r) => members[r] = "none"
      BY <1>0 DEF Invite, Inserted, TypeOK, Rows, Roles
    <3>5. members'[w] = "admin"
      BY <3>1, <3>2, <3>3, <3>4, <1>0, HandleWrites DEF TypeOK
    <3> QED BY <3>5 DEF AdminRemains, Rows
  <2>3. CASE members' = members
    BY <2>3, <1>5 DEF AdminRemains, Rows
  <2> QED BY <2>1, <2>2, <2>3
<1> QED
  BY <1>6, <1>7

LEMMA GuardedStep ==
  ASSUME Guarded, [Next]_vars
  PROVE  Guarded'
<1>1. CASE UNCHANGED <<members, reqs, overtaken>>
  BY <1>1, IdleStep, ConsistentStep DEF Guarded
<1>2. CASE \E r \in Reqs, op \in Ops, u \in Users, role \in Roles : Start(r, op, u, role)
  BY <1>2, GuardedStart
<1>3. CASE \E r \in Reqs : Handle(r)
  BY <1>3, GuardedHandle
<1> QED
  BY <1>1, <1>2, <1>3 DEF Next, SignIn, Expire, vars

\* However many members, requests and stale copies there are, the workspace loses its last
\* admin only to a demotion or removal that another admin's has overtaken.
THEOREM AdminLostToARaceOnly == Spec => []AdminUnlessOvertaken
<1>1. Guarded /\ [Next]_vars => Guarded'
  BY GuardedStep
<1>2. Guarded => AdminUnlessOvertaken
  BY DEF Guarded, Unraced, AdminUnlessOvertaken
<1> QED
  BY <1>1, <1>2, GuardedInit, PTL DEF Spec

=============================================================================
