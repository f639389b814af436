------------------------------- MODULE ApiKeys -------------------------------
(***************************************************************************)
(* Requests that present one API key: the lookup and the usage counter of  *)
(* core/deps.py around the sliding-window limiter of core/rate_limit.py,    *)
(* and the key's creation and revocation.  Keys do not share state, so one *)
(* is enough.  Time is counted in units of which Window make a minute.      *)
(***************************************************************************)
EXTENDS Integers, FiniteSets

CONSTANTS
  Reqs,      \* requests
  Window,    \* _WINDOW_SEC
  Limit,     \* the key's rate_limit_per_minute, at least 1
  MaxDelay,  \* longest time from time.time() until Redis runs the transaction
  MaxTime,   \* bound: the clock stops here
  Faults     \* what may go wrong in this instance

ASSUME ReqsAssumption   == IsFiniteSet(Reqs)
ASSUME WindowAssumption == Window \in Nat \ {0}
ASSUME LimitAssumption  == Limit \in Nat \ {0}
ASSUME DelayAssumption  == MaxDelay \in Nat /\ MaxDelay < Window
ASSUME TimeAssumption   == MaxTime \in Nat
ASSUME FaultsAssumption == Faults \subseteq {"redis", "crash"}

VARIABLES
  now,      \* the clock
  key,      \* the api_keys row
  slots,    \* members of the sorted set ratelimit:{key id}, named by their request
  expires,  \* when Redis drops the sorted set
  reqs,     \* the requests
  passed    \* history: the requests a count has let through, by their time stamp

vars == <<now, key, slots, expires, reqs, passed>>

-----------------------------------------------------------------------------
Times  == 0 .. MaxTime
KeyRow == [state : {"absent", "live", "revoked"}, count : Nat]

\* loaded: the row has been read and the clock; allowed: enforce has returned;
\* rejecting: over the limit, the member not yet taken out of the set.
Places  == {"idle", "loaded", "allowed", "rejecting", "admitted", "rejected", "refused", "dead"}
Request == [place : Places, stamp : Times, count : Nat]

IdleRequest == [place |-> "idle", stamp |-> 0, count |-> 0]

Goto(r, place) == reqs' = [reqs EXCEPT ![r].place = place]

-----------------------------------------------------------------------------
(* The key's life: apikey_service. *)

CreateKey ==
  /\ key.state = "absent"
  /\ key' = [state |-> "live", count |-> 0]
  /\ UNCHANGED <<now, slots, expires, reqs, passed>>

RevokeKey ==
  /\ key.state # "absent"
  /\ key' = [key EXCEPT !.state = "revoked"]
  /\ UNCHANGED <<now, slots, expires, reqs, passed>>

-----------------------------------------------------------------------------
(* A request: _principal_from_api_key and rate_limit.enforce. *)

\* The lookup finds a live key; enforce reads the clock without giving up control.
Load(r) ==
  /\ reqs[r].place = "idle" /\ key.state = "live"
  /\ reqs' = [reqs EXCEPT ![r] = [place |-> "loaded", stamp |-> now, count |-> key.count]]
  /\ UNCHANGED <<now, key, slots, expires, passed>>

\* No such key, or a revoked one: 401.
Refuse(r) ==
  /\ reqs[r].place = "idle" /\ key.state # "live"
  /\ Goto(r, "refused")
  /\ UNCHANGED <<now, key, slots, expires, passed>>

\* Mutant: members are dropped one unit too early.
SlidTooFar(r) == {q \in slots : reqs[q].stamp > reqs[r].stamp - Window + 1} \cup {r}

\* ZREMRANGEBYSCORE 0 stamp-Window, then ZADD.
Slid(r) == {q \in slots : reqs[q].stamp > reqs[r].stamp - Window} \cup {r}

\* The MULTI/EXEC transaction: trim, add, count, expire.
Execute(r) ==
  /\ reqs[r].place = "loaded"
  /\ slots' = Slid(r)
  /\ expires' = now + Window
  /\ IF Cardinality(Slid(r)) <= Limit
     THEN Goto(r, "allowed") /\ passed' = passed \cup {r}
     ELSE Goto(r, "rejecting") /\ UNCHANGED passed
  /\ UNCHANGED <<now, key>>

\* ZREM, then 429.
Reject(r) ==
  /\ reqs[r].place = "rejecting"
  /\ slots' = slots \ {r}
  /\ Goto(r, "rejected")
  /\ UNCHANGED <<now, key, expires, passed>>

\* A Redis error lets the request through, whether the command was run or not.
FailOpen(r) ==
  /\ "redis" \in Faults
  /\ \/ reqs[r].place \in {"loaded", "rejecting"} /\ UNCHANGED <<slots, expires>>
     \/ reqs[r].place = "loaded" /\ slots' = Slid(r) /\ expires' = now + Window
     \/ reqs[r].place = "rejecting" /\ slots' = slots \ {r} /\ UNCHANGED expires
  /\ Goto(r, "allowed")
  /\ UNCHANGED <<now, key, passed>>

\* The API process dies.
Die(r) ==
  /\ "crash" \in Faults
  /\ reqs[r].place \in {"loaded", "rejecting", "allowed"}
  /\ Goto(r, "dead")
  /\ UNCHANGED <<now, key, slots, expires, passed>>

\* Mutant: the counter is written from the row that was loaded.
CountFromCopy(r) ==
  /\ reqs[r].place = "allowed"
  /\ key' = [key EXCEPT !.count = reqs[r].count + 1]
  /\ Goto(r, "admitted")
  /\ UNCHANGED <<now, slots, expires, passed>>

\* Mutant: the counter is counted down, like an allowance.
CountDown(r) ==
  /\ reqs[r].place = "allowed"
  /\ key' = [key EXCEPT !.count = @ - 1]
  /\ Goto(r, "admitted")
  /\ UNCHANGED <<now, slots, expires, passed>>

\* UPDATE api_keys SET request_count = request_count + 1, committed; the route runs.
CountRequest(r) ==
  /\ reqs[r].place = "allowed"
  /\ key' = [key EXCEPT !.count = @ + 1]
  /\ Goto(r, "admitted")
  /\ UNCHANGED <<now, slots, expires, passed>>

\* Time passes, but no request takes longer than MaxDelay to reach Redis.
Tick ==
  /\ now < MaxTime
  /\ \A r \in Reqs : reqs[r].place = "loaded" => now < reqs[r].stamp + MaxDelay
  /\ now' = now + 1
  /\ slots' = IF now + 1 >= expires THEN {} ELSE slots
  /\ UNCHANGED <<key, expires, reqs, passed>>

-----------------------------------------------------------------------------
Init ==
  /\ now = 0
  /\ key = [state |-> "absent", count |-> 0]
  /\ slots = {}
  /\ expires = 0
  /\ reqs = [r \in Reqs |-> IdleRequest]
  /\ passed = {}

Handle(r) ==
  \/ Load(r) \/ Refuse(r) \/ Execute(r) \/ Reject(r) \/ CountRequest(r)

Next ==
  \/ CreateKey \/ RevokeKey \/ Tick
  \/ \E r \in Reqs : Handle(r) \/ FailOpen(r) \/ Die(r)

Spec == Init /\ [][Next]_vars

-----------------------------------------------------------------------------
(* Properties. *)

\* Every variable has its type.
TypeOK ==
  /\ now \in Times
  /\ key \in KeyRow
  /\ slots \subseteq Reqs
  /\ expires \in Nat
  /\ reqs \in [Reqs -> Request]
  /\ passed \subseteq Reqs

\* The requests let through by a count with a time stamp in the Window-MaxDelay units
\* up to t.
PassedUpTo(t) ==
  {r \in passed : t - (Window - MaxDelay) < reqs[r].stamp /\ reqs[r].stamp <= t}

\* The limiter keeps the key's rate: concurrent requests whose transactions reach Redis
\* out of the order of their time stamps do not get more than Limit into a minute, less
\* the delay that reordering can take.
AtMostLimit == \A t \in Times : Cardinality(PassedUpTo(t)) <= Limit

\* "Atomic increment avoids lost updates under concurrent calls with the same key": the
\* counter the contract exposes is the number of requests that were admitted.
CountIsExact == key.count = Cardinality({r \in Reqs : reqs[r].place = "admitted"})

-----------------------------------------------------------------------------
(* A promise of a comment that the code does not keep; no run states it. *)

\* "A rejected request must not consume a slot in the window": a request is rejected
\* only if Limit others were let through in the minute before it.
RejectedOnlyWhenFull ==
  [][\A r \in Reqs : (reqs[r].place = "loaded" /\ reqs'[r].place = "rejecting") =>
        Cardinality({q \in passed : reqs[q].stamp > reqs[r].stamp - Window}) >= Limit]_vars

=============================================================================
