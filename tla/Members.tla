------------------------------- MODULE Members -------------------------------
(***************************************************************************)
(* The members of one workspace: services/user_service.py behind           *)
(* api/admin_users.py, with the access tokens that let a request in.  A    *)
(* request is one database session at READ COMMITTED: each SELECT sees what *)
(* is committed when it runs, but a row the session has already loaded     *)
(* keeps the attributes it was loaded with.  Check and write are therefore *)
(* separate actions.                                                       *)
(***************************************************************************)
EXTENDS Naturals, FiniteSets

CONSTANTS
  Users,    \* people, by e-mail address
  Founder,  \* the user who registered the workspace
  Reqs,     \* admin requests; each is one HTTP call
  First,    \* the membership row that register inserted
  NoRow     \* no membership row

ASSUME FounderAssumption == Founder \in Users
ASSUME RowsAssumption    == First \notin Reqs /\ NoRow \notin Reqs \cup {First}
ASSUME ReqsAssumption    == IsFiniteSet(Reqs)

VARIABLES
  members,   \* organization_members rows: the role, or "none" where there is no row
  accounts,  \* users rows
  tokens,    \* unexpired access tokens
  reqs,      \* the requests
  overtaken  \* history: requests that were cleared to write when another one took the
             \* admin role from somebody else

vars == <<members, accounts, tokens, reqs, overtaken>>

-----------------------------------------------------------------------------
Roles == {"standard", "admin"}
Ops   == {"invite", "change_role", "remove_user"}

\* A membership row is named by the invite that inserted it.
Rows == Reqs \cup {First}

\* Loading, counting and writing are in progress; the rest are the answers.
Doing   == {"load", "count", "write"}
Answers == {"ok", "not_found", "conflict", "last_admin", "error"}

Request == [place : {"idle"} \cup Doing \cup Answers, op : Ops, user : Users, role : Roles,
            row   : Rows \cup {NoRow},       \* the membership row the session has loaded
            was   : Roles,                   \* and the role it had then
            known : BOOLEAN]                 \* invite found a users row

IdleRequest == [place |-> "idle", op |-> "invite", user |-> Founder, role |-> "standard",
                row |-> NoRow, was |-> "standard", known |-> FALSE]

Token == [user : Users, role : Roles]

Owner(w)  == IF w = First THEN Founder ELSE reqs[w].user
RowsOf(u) == {w \in Rows : members[w] # "none" /\ Owner(w) = u}
IsAdmin(u) == \E w \in RowsOf(u) : members[w] = "admin"

InProgress(r) == reqs[r].place \in Doing

\* The request can cost the workspace an admin.
Reduces(op, role) == op = "remove_user" \/ (op = "change_role" /\ role = "standard")

\* The requests about other members that r overtakes if its commit takes the admin role
\* from its own: they have loaded, and counted, before.
Overtakes(r) ==
  IF members[reqs[r].row] = "admin"
  THEN {q \in Reqs : reqs[q].place = "write" /\ reqs[q].user # reqs[r].user}
  ELSE {}

Goto(r, place) == reqs' = [reqs EXCEPT ![r].place = place]

-----------------------------------------------------------------------------
(* Access tokens. *)

\* Mutant: a user without a membership is signed in all the same.
SignInUnchecked(u) ==
  /\ tokens' = tokens \cup {[user |-> u, role |-> IF RowsOf(u) = {} THEN "none" ELSE "standard"]}
  /\ UNCHANGED <<members, accounts, reqs, overtaken>>

\* login and refresh: the role of the membership goes into the token.
SignIn(u) ==
  /\ \E w \in RowsOf(u) : tokens' = tokens \cup {[user |-> u, role |-> members[w]]}
  /\ UNCHANGED <<members, accounts, reqs, overtaken>>

\* The token's 15 minutes are over.
Expire(t) ==
  /\ tokens' = tokens \ {t}
  /\ UNCHANGED <<members, accounts, reqs, overtaken>>

-----------------------------------------------------------------------------
(* Requests. *)

\* require_admin: the role is the token's, the membership is not looked at.
Start(r, op, u, role) ==
  /\ reqs[r].place = "idle"
  /\ \E t \in tokens : t.role = "admin"
  /\ reqs' = [reqs EXCEPT ![r] = [IdleRequest EXCEPT !.place = "load", !.op = op,
                                                      !.user = u, !.role = role]]
  /\ UNCHANGED <<members, accounts, tokens, overtaken>>

\* change_role and remove_user find no membership row.
NotFound(r) ==
  /\ reqs[r].place = "load" /\ reqs[r].op # "invite"
  /\ RowsOf(reqs[r].user) = {}
  /\ Goto(r, "not_found")
  /\ UNCHANGED <<members, accounts, tokens, overtaken>>

\* The guard against losing the last admin is needed only for a member who is one.
NeedsCount(r, was) == was = "admin" /\ Reduces(reqs[r].op, reqs[r].role)

\* change_role and remove_user load the member.
LoadMember(r) ==
  /\ reqs[r].place = "load" /\ reqs[r].op # "invite"
  /\ \E w \in RowsOf(reqs[r].user) :
       reqs' = [reqs EXCEPT ![r].row = w, ![r].was = members[w],
                            ![r].place = IF NeedsCount(r, members[w]) THEN "count" ELSE "write"]
  /\ UNCHANGED <<members, accounts, tokens, overtaken>>

\* The admins _members_in_workspace returns: the member loaded before keeps the role
\* it was loaded with.
AdminsSeen(r) == {w \in Rows : /\ members[w] # "none"
                               /\ w = reqs[r].row \/ members[w] = "admin"}

\* Mutant: off by one.
CountAdminsLoosely(r) ==
  /\ reqs[r].place = "count"
  /\ Goto(r, IF AdminsSeen(r) = {} THEN "last_admin" ELSE "write")
  /\ UNCHANGED <<members, accounts, tokens, overtaken>>

\* The guard: LastAdminError if no other admin is seen.
CountAdmins(r) ==
  /\ reqs[r].place = "count"
  /\ Goto(r, IF Cardinality(AdminsSeen(r)) <= 1 THEN "last_admin" ELSE "write")
  /\ UNCHANGED <<members, accounts, tokens, overtaken>>

\* change_role commits.  An unchanged role sends no UPDATE; a row that has been removed
\* in the meantime is a StaleDataError.
ChangeRole(r) ==
  LET w    == reqs[r].row
      same == reqs[r].role = reqs[r].was
  IN /\ reqs[r].place = "write" /\ reqs[r].op = "change_role"
     /\ Goto(r, IF same \/ members[w] # "none" THEN "ok" ELSE "error")
     /\ members' = IF same \/ members[w] = "none" THEN members
                   ELSE [members EXCEPT ![w] = reqs[r].role]
     /\ overtaken' = overtaken \cup IF reqs[r].role = "standard" /\ ~same THEN Overtakes(r) ELSE {}
     /\ UNCHANGED <<accounts, tokens>>

\* remove_user commits; a DELETE that matches no row is only a warning.
RemoveUser(r) ==
  /\ reqs[r].place = "write" /\ reqs[r].op = "remove_user"
  /\ members' = [members EXCEPT ![reqs[r].row] = "none"]
  /\ Goto(r, "ok")
  /\ overtaken' = overtaken \cup Overtakes(r)
  /\ UNCHANGED <<accounts, tokens>>

\* invite looks for a users row and a membership of that user.
CheckInvite(r) ==
  /\ reqs[r].place = "load" /\ reqs[r].op = "invite"
  /\ reqs' = [reqs EXCEPT ![r].known = reqs[r].user \in accounts,
                          ![r].place = IF RowsOf(reqs[r].user) = {} THEN "write" ELSE "conflict"]
  /\ UNCHANGED <<members, accounts, tokens, overtaken>>

\* Mutant: no unique constraint on the membership.
InviteUnconstrained(r) ==
  LET u == reqs[r].user
      clash == ~reqs[r].known /\ u \in accounts
  IN /\ reqs[r].place = "write" /\ reqs[r].op = "invite"
     /\ Goto(r, IF clash THEN "error" ELSE "ok")
     /\ members'  = IF clash THEN members ELSE [members EXCEPT ![r] = reqs[r].role]
     /\ accounts' = accounts \cup {u}
     /\ UNCHANGED <<tokens, overtaken>>

\* invite commits the membership, and the account of a user it had not found.  The
\* unique constraints on the e-mail and on the membership turn a lost race into an
\* IntegrityError, which rolls back both.
Invite(r) ==
  LET u == reqs[r].user
      clash == (~reqs[r].known /\ u \in accounts) \/ RowsOf(u) # {}
  IN /\ reqs[r].place = "write" /\ reqs[r].op = "invite"
     /\ Goto(r, IF clash THEN "error" ELSE "ok")
     /\ members'  = IF clash THEN members ELSE [members EXCEPT ![r] = reqs[r].role]
     /\ accounts' = IF clash THEN accounts ELSE accounts \cup {u}
     /\ UNCHANGED <<tokens, overtaken>>

-----------------------------------------------------------------------------
Init ==
  /\ members  = [w \in Rows |-> IF w = First THEN "admin" ELSE "none"]
  /\ accounts = {Founder}
  /\ tokens   = {}
  /\ reqs     = [r \in Reqs |-> IdleRequest]
  /\ overtaken = {}

Handle(r) ==
  \/ NotFound(r)   \/ LoadMember(r) \/ CountAdmins(r)
  \/ ChangeRole(r) \/ RemoveUser(r) \/ CheckInvite(r) \/ Invite(r)

Next ==
  \/ \E u \in Users : SignIn(u)
  \/ \E t \in tokens : Expire(t)
  \/ \E r \in Reqs, op \in Ops, u \in Users, role \in Roles : Start(r, op, u, role)
  \/ \E r \in Reqs : Handle(r)

Spec == Init /\ [][Next]_vars

-----------------------------------------------------------------------------
(* Properties. *)

\* Every variable has its type.
TypeOK ==
  /\ members  \in [Rows -> Roles \cup {"none"}]
  /\ accounts \subseteq Users
  /\ tokens   \subseteq Token
  /\ reqs     \in [Reqs -> Request]
  /\ overtaken \subseteq Reqs

\* Two invites of the same person that both find no membership leave one: otherwise
\* change_role and remove_user of that person would fail for ever (scalar_one_or_none).
OneMembership ==
  \A v, w \in Rows : (members[v] # "none" /\ members[w] # "none" /\ Owner(v) = Owner(w)) => v = w

\* Spec 002, 3: "Removing the last admin -> 422 LAST_ADMIN"; user_service.py:107: "don't
\* demote the last admin".  Two admins who demote or remove each other at the same time get
\* past the guard.
AdminRemains == \E w \in Rows : members[w] = "admin"

\* That is the only way past it: if the workspace has lost its last admin, a demotion or
\* removal that committed had been overtaken by that of another admin after it was
\* cleared.  Stale copies, re-invited members, promotions in between, and requests about
\* the same member do not get past.
AdminUnlessOvertaken ==
  AdminRemains \/ \E r \in overtaken : reqs[r].place = "ok" /\ Reduces(reqs[r].op, reqs[r].role)

-----------------------------------------------------------------------------
(* A promise of the documents that the code does not keep; no run states it. *)

\* Only someone who is an admin of the workspace now gets an admin request in.
OnlyAdminsAdmitted ==
  [][\A r \in Reqs : (reqs[r].place = "idle" /\ reqs'[r].place = "load") =>
        \E t \in tokens : t.role = "admin" /\ IsAdmin(t.user)]_vars

=============================================================================
