------------------------------ MODULE Sessions -------------------------------
(***************************************************************************)
(* Registration, login, refresh and logout: services/auth_service.py behind *)
(* api/auth.py.  A request is one database session (core/database.get_db): *)
(* it commits when the handler returns and rolls back when it raises.       *)
(* Reading and committing are separate actions.                            *)
(***************************************************************************)
EXTENDS Naturals, FiniteSets

CONSTANTS
  Users,        \* people, by e-mail address
  Reqs,         \* requests; a row a request inserts has the request's name
  NoToken,      \* no refresh token
  NoUser,       \* the user of a request that has not been sent
  MaxAttempts   \* login_max_attempts

ASSUME TokenAssumption    == NoToken \notin Reqs
ASSUME UserAssumption     == NoUser \notin Users
ASSUME AttemptsAssumption == MaxAttempts \in Nat \ {0}

VARIABLES
  users,    \* users rows: the columns of the login lockout
  orgs,     \* organizations (with their workspaces), by the request that registered them
  members,  \* users with a membership
  tokens,   \* refresh_tokens rows
  reqs,     \* the requests
  failures, \* history: wrong passwords of a user since the last successful login
  overtaken, \* history: requests in progress when another one revoked their token
  ended     \* history: logins that a logout has revoked a token of

vars == <<users, orgs, members, tokens, reqs, failures, overtaken, ended>>

-----------------------------------------------------------------------------
UserRow   == [exists : BOOLEAN, failed : 0 .. MaxAttempts, locked : BOOLEAN]
NoAccount == [exists |-> FALSE, failed |-> 0, locked |-> FALSE]
Account   == [NoAccount EXCEPT !.exists = TRUE]

Ops     == {"register", "login", "refresh", "logout"}
Answers == {"ok", "refused", "conflict", "error"}
Places  == {"idle", "loaded", "raising"} \cup Answers

Request == [place : Places, op : Ops, user : Users \cup {NoUser},
            token : Reqs \cup {NoToken},   \* the refresh token it presents
            root  : Reqs,                  \* the login its new token descends from
            copy  : UserRow]               \* the users row in its session

IdleRequest(r) == [place |-> "idle", op |-> "login", user |-> NoUser, token |-> NoToken,
                   root |-> r, copy |-> NoAccount]

TokenStates == {"none", "live", "revoked"}

Goto(r, place) == reqs' = [reqs EXCEPT ![r].place = place]

\* The other requests that have found the token of r live and have not committed.
Overtakes(r) == {q \in Reqs \ {r} : reqs[q].place = "loaded" /\ reqs[q].token = reqs[r].token}

Loaded(r, op, u, t, root, place) ==
  reqs' = [reqs EXCEPT ![r] = [place |-> place, op |-> op, user |-> u, token |-> t,
                               root |-> root, copy |-> users[u]]]

-----------------------------------------------------------------------------
(* register *)

\* The e-mail is looked up.
LoadRegister(r, u) ==
  /\ reqs[r].place = "idle"
  /\ Loaded(r, "register", u, NoToken, r, IF users[u].exists THEN "conflict" ELSE "loaded")
  /\ UNCHANGED <<users, orgs, members, tokens, failures, overtaken, ended>>

\* Mutant: the organization is committed before the user is inserted.
RegisterInTwo(r) ==
  /\ reqs[r].place = "loaded" /\ reqs[r].op = "register"
  /\ orgs' = orgs \cup {r}
  /\ IF users[reqs[r].user].exists
     THEN Goto(r, "error") /\ UNCHANGED <<users, members, tokens>>
     ELSE /\ users' = [users EXCEPT ![reqs[r].user] = Account]
          /\ members' = members \cup {reqs[r].user}
          /\ tokens' = [tokens EXCEPT ![r] = "live"]
          /\ Goto(r, "ok")
  /\ UNCHANGED <<failures, overtaken, ended>>

\* Organization, workspace, user, member and refresh token are committed together; the
\* unique e-mail turns a lost race into an IntegrityError and a rollback of all of them.
Register(r) ==
  /\ reqs[r].place = "loaded" /\ reqs[r].op = "register"
  /\ IF users[reqs[r].user].exists
     THEN Goto(r, "error") /\ UNCHANGED <<users, orgs, members, tokens>>
     ELSE /\ users' = [users EXCEPT ![reqs[r].user] = Account]
          /\ orgs' = orgs \cup {r}
          /\ members' = members \cup {reqs[r].user}
          /\ tokens' = [tokens EXCEPT ![r] = "live"]
          /\ Goto(r, "ok")
  /\ UNCHANGED <<failures, overtaken, ended>>

\* user_service.remove_user deletes a membership.
LoseMembership(u) ==
  /\ members' = members \ {u}
  /\ UNCHANGED <<users, orgs, tokens, reqs, failures, overtaken, ended>>

-----------------------------------------------------------------------------
(* login *)

\* The users row is loaded; no account, or a locked one, is refused.
LoadLogin(r, u) ==
  /\ reqs[r].place = "idle"
  /\ Loaded(r, "login", u, NoToken, r,
            IF users[u].exists /\ ~users[u].locked THEN "loaded" ELSE "refused")
  /\ UNCHANGED <<users, orgs, members, tokens, failures, overtaken, ended>>

\* The row after one more wrong password: the last one allowed locks it.
Counted(row) ==
  IF row.failed + 1 >= MaxAttempts THEN [row EXCEPT !.failed = 0, !.locked = TRUE]
  ELSE [row EXCEPT !.failed = @ + 1]

\* The password is wrong: the session's copy is changed, then UnauthorizedError is raised.
WrongPassword(r) ==
  /\ reqs[r].place = "loaded" /\ reqs[r].op = "login"
  /\ failures[reqs[r].user] < MaxAttempts
  /\ reqs' = [reqs EXCEPT ![r].copy = Counted(@), ![r].place = "raising"]
  /\ failures' = [failures EXCEPT ![reqs[r].user] = @ + 1]
  /\ UNCHANGED <<users, orgs, members, tokens, overtaken, ended>>

\* get_db: an exception rolls the session back.
Rollback(r) ==
  /\ reqs[r].place = "raising"
  /\ Goto(r, "refused")
  /\ UNCHANGED <<users, orgs, members, tokens, failures, overtaken, ended>>

\* Mutant: a login gives one attempt back.
LoginGivesBack(r) ==
  /\ reqs[r].place = "loaded" /\ reqs[r].op = "login"
  /\ reqs[r].user \in members
  /\ users' = [users EXCEPT ![reqs[r].user].failed = @ - 1]
  /\ tokens' = [tokens EXCEPT ![r] = "live"]
  /\ Goto(r, "ok")
  /\ UNCHANGED <<orgs, members, failures, overtaken, ended>>

\* The password is right: the counters are cleared (columns that differ from the copy
\* are written) and a refresh token is committed.
Login(r) ==
  LET u == reqs[r].user
      c == reqs[r].copy
  IN /\ reqs[r].place = "loaded" /\ reqs[r].op = "login"
     /\ u \in members
     /\ users' = [users EXCEPT ![u].failed = IF c.failed = 0 THEN @ ELSE 0,
                               ![u].locked = IF c.locked THEN FALSE ELSE @]
     /\ tokens' = [tokens EXCEPT ![r] = "live"]
     /\ Goto(r, "ok")
     /\ failures' = [failures EXCEPT ![u] = 0]
     /\ UNCHANGED <<orgs, members, overtaken, ended>>

\* No membership: the handler raises.
NoMembership(r) ==
  /\ reqs[r].place = "loaded" /\ reqs[r].op \in {"login", "refresh"}
  /\ reqs[r].user \notin members
  /\ Goto(r, "raising")
  /\ UNCHANGED <<users, orgs, members, tokens, failures, overtaken, ended>>

-----------------------------------------------------------------------------
(* refresh and logout *)

\* Mutant: a revoked token is let through.
LoadRefreshAny(r, t) ==
  /\ reqs[r].place = "idle" /\ tokens[t] # "none"
  /\ Loaded(r, "refresh", reqs[t].user, t, reqs[t].root, "loaded")
  /\ UNCHANGED <<users, orgs, members, tokens, failures, overtaken, ended>>

\* The token is looked up by its hash: it must not be revoked.
LoadRefresh(r, t) ==
  /\ reqs[r].place = "idle" /\ tokens[t] # "none"
  /\ Loaded(r, "refresh", reqs[t].user, t, reqs[t].root,
            IF tokens[t] = "live" THEN "loaded" ELSE "refused")
  /\ UNCHANGED <<users, orgs, members, tokens, failures, overtaken, ended>>

\* Mutant: the old token is not revoked.
RefreshWithoutRotation(r) ==
  /\ reqs[r].place = "loaded" /\ reqs[r].op = "refresh"
  /\ reqs[r].user \in members
  /\ tokens' = [tokens EXCEPT ![r] = "live"]
  /\ Goto(r, "ok")
  /\ UNCHANGED <<users, orgs, members, failures, overtaken, ended>>

\* The old token is revoked and a new one inserted, in one commit.
Refresh(r) ==
  /\ reqs[r].place = "loaded" /\ reqs[r].op = "refresh"
  /\ reqs[r].user \in members
  /\ tokens' = [tokens EXCEPT ![reqs[r].token] = "revoked", ![r] = "live"]
  /\ Goto(r, "ok")
  /\ overtaken' = overtaken \cup Overtakes(r)
  /\ UNCHANGED <<users, orgs, members, failures, ended>>

\* logout looks the token up; with none to revoke it is done.
LoadLogout(r, t) ==
  /\ reqs[r].place = "idle" /\ tokens[t] # "none"
  /\ Loaded(r, "logout", reqs[t].user, t, reqs[t].root,
            IF tokens[t] = "live" THEN "loaded" ELSE "ok")
  /\ UNCHANGED <<users, orgs, members, tokens, failures, overtaken, ended>>

Logout(r) ==
  /\ reqs[r].place = "loaded" /\ reqs[r].op = "logout"
  /\ tokens' = [tokens EXCEPT ![reqs[r].token] = "revoked"]
  /\ Goto(r, "ok")
  /\ overtaken' = overtaken \cup Overtakes(r)
  /\ ended' = ended \cup {reqs[r].root}
  /\ UNCHANGED <<users, orgs, members, failures>>

-----------------------------------------------------------------------------
Init ==
  /\ users    = [u \in Users |-> NoAccount]
  /\ orgs     = {}
  /\ members  = {}
  /\ tokens   = [t \in Reqs |-> "none"]
  /\ reqs     = [r \in Reqs |-> IdleRequest(r)]
  /\ failures = [u \in Users |-> 0]
  /\ overtaken = {}
  /\ ended    = {}

Begin(r) ==
  \/ \E u \in Users : LoadRegister(r, u) \/ LoadLogin(r, u)
  \/ \E t \in Reqs  : LoadRefresh(r, t) \/ LoadLogout(r, t)

Finish(r) ==
  \/ Register(r) \/ WrongPassword(r) \/ Login(r) \/ NoMembership(r) \/ Rollback(r)
  \/ Refresh(r) \/ Logout(r)

Next ==
  \/ \E u \in Users : LoseMembership(u)
  \/ \E r \in Reqs  : Begin(r) \/ Finish(r)

Spec == Init /\ [][Next]_vars

-----------------------------------------------------------------------------
(* Properties. *)

\* Every variable has its type.
TypeOK ==
  /\ users    \in [Users -> UserRow]
  /\ orgs     \subseteq Reqs
  /\ members  \subseteq Users
  /\ tokens   \in [Reqs -> TokenStates]
  /\ reqs     \in [Reqs -> Request]
  /\ failures \in [Users -> 0 .. MaxAttempts]
  /\ overtaken \subseteq Reqs /\ ended \subseteq Reqs

\* Registration is atomic under concurrent registrations of one e-mail: an organization
\* has a user of its own.
SignupIsWhole ==
  /\ \A o \in orgs : users[reqs[o].user].exists
  /\ \A o, p \in orgs : reqs[o].user = reqs[p].user => o = p

Redeems(r, t) == reqs[r].op = "refresh" /\ reqs[r].place = "ok" /\ reqs[r].token = t

\* Spec 001, 4: "a reused/expired refresh -> 401".  Two refreshes that have both read the
\* token before either revokes it are both granted.
RedeemedOnce == \A t, q, r \in Reqs : (Redeems(q, t) /\ Redeems(r, t)) => q = r

\* Only such a race redeems a token twice: of two redemptions one had read the token before
\* the other, or a logout, revoked it.
RedeemedOnceUnlessOvertaken ==
  \A t, q, r \in Reqs : (Redeems(q, t) /\ Redeems(r, t) /\ q # r) => q \in overtaken \/ r \in overtaken

\* A request of the session that began with login x was overtaken and committed all the same.
Raced(x) == \E q \in overtaken : reqs[q].place = "ok" /\ reqs[q].root = x

\* Refresh tokens rotate: a session without such a race, whatever happens to others, has one
\* live token at most, and none once it was logged out of, so that it cannot be continued.
LiveUnlessOvertaken ==
  \A t \in Reqs : (tokens[t] = "live" /\ ~Raced(reqs[t].root)) =>
     /\ reqs[t].root \notin ended
     /\ \A s \in Reqs : (tokens[s] = "live" /\ reqs[s].root = reqs[t].root) => s = t

-----------------------------------------------------------------------------
(* A promise of the documents that the code does not keep; no run states it. *)

\* "10 failed logins -> lockout": after MaxAttempts wrong passwords in a row, answered one
\* after the other, the account is locked.
\* (MaxAttempts also bounds the wrong passwords sent: failures goes no further.)
LocksOut ==
  \A u \in Users : (failures[u] >= MaxAttempts /\ \A r \in Reqs : reqs[r].place # "raising")
                      => users[u].locked

=============================================================================
