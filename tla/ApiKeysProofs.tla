---------------------------- MODULE ApiKeysProofs ----------------------------
(***************************************************************************)
(* Theorems about ApiKeys: types, the rate the limiter keeps, and the       *)
(* usage counter, for any number of requests and any limits and faults.     *)
(***************************************************************************)
EXTENDS ApiKeys, FiniteSetTheorems, TLAPS

USE ReqsAssumption, WindowAssumption, LimitAssumption, DelayAssumption, TimeAssumption,
    FaultsAssumption

-----------------------------------------------------------------------------
(* The invariant, in named parts. *)

\* Stamps are not in the future, and a request on its way to Redis is not older than
\* MaxDelay.
Stamped ==
  \A r \in Reqs : /\ reqs[r].stamp <= now
                  /\ reqs[r].place = "loaded" => now <= reqs[r].stamp + MaxDelay

\* Only requests that have executed are in the set or have passed.
Executed ==
  /\ \A r \in slots  : reqs[r].place \notin {"idle", "loaded"}
  /\ \A r \in passed : reqs[r].place \in {"allowed", "admitted", "dead"}

\* The set outlives its members, and a request that passed leaves it only when its
\* minute is over.
Kept ==
  /\ \A r \in slots  : reqs[r].stamp + Window <= expires
  /\ \A r \in passed : r \in slots \/ reqs[r].stamp + Window <= now

RateInv == TypeOK /\ Stamped /\ Executed /\ Kept /\ AtMostLimit

-----------------------------------------------------------------------------
LEMMA GotoIs ==
  ASSUME TypeOK, NEW r \in Reqs, NEW p \in Places, Goto(r, p)
  PROVE  /\ reqs' \in [Reqs -> Request]
         /\ \A q \in Reqs : q # r => reqs'[q] = reqs[q]
         /\ reqs'[r].place = p /\ reqs'[r].stamp = reqs[r].stamp
<1>1. reqs \in [Reqs -> Request] /\ reqs[r] \in Request
  BY DEF TypeOK
<1>2. [reqs[r] EXCEPT !.place = p] \in Request
  BY <1>1 DEF Request
<1>3. reqs' = [reqs EXCEPT ![r] = [reqs[r] EXCEPT !.place = p]]
  BY <1>1 DEF Goto
<1> QED
  BY <1>1, <1>2, <1>3 DEF Request

LEMMA LoadIs ==
  ASSUME TypeOK, NEW r \in Reqs, Load(r)
  PROVE  /\ reqs' \in [Reqs -> Request]
         /\ \A q \in Reqs : q # r => reqs'[q] = reqs[q]
         /\ reqs[r].place = "idle" /\ reqs'[r].place = "loaded" /\ reqs'[r].stamp = now
<1> DEFINE new == [place |-> "loaded", stamp |-> now, count |-> key.count]
<1>1. new \in Request /\ new.place = "loaded" /\ new.stamp = now
  BY DEF TypeOK, Request, Places, KeyRow
<1>2. reqs \in [Reqs -> Request] /\ reqs' = [reqs EXCEPT ![r] = new] /\ reqs[r].place = "idle"
  BY DEF TypeOK, Load
<1> HIDE DEF new
<1> QED
  BY <1>1, <1>2

\* The transaction: the request's answer and what it does to the set.
LEMMA ExecuteIs ==
  ASSUME TypeOK, NEW r \in Reqs, Execute(r)
  PROVE  \/ /\ Cardinality(Slid(r)) <= Limit /\ Goto(r, "allowed") /\ passed' = passed \cup {r}
         \/ Goto(r, "rejecting") /\ passed' = passed
BY DEF Execute

LEMMA TypedInit == Init => TypeOK
BY DEF Init, TypeOK, IdleRequest, Request, Places, Times, KeyRow

LEMMA TypedStep ==
  ASSUME TypeOK, [Next]_vars
  PROVE  TypeOK'
<1>1. CASE UNCHANGED vars
  BY <1>1 DEF vars, TypeOK
<1>2. CASE CreateKey \/ RevokeKey
  BY <1>2 DEF CreateKey, RevokeKey, TypeOK, KeyRow
<1>3. CASE Tick
  BY <1>3 DEF Tick, TypeOK, Times
<1>4. ASSUME NEW r \in Reqs, Load(r) PROVE TypeOK'
  BY <1>4, LoadIs DEF Load, TypeOK
<1>5. ASSUME NEW r \in Reqs, Refuse(r) PROVE TypeOK'
  BY <1>5, GotoIs DEF Refuse, TypeOK, Places
<1>6. ASSUME NEW r \in Reqs, Execute(r) PROVE TypeOK'
  <2>1. reqs' \in [Reqs -> Request] /\ passed' \subseteq Reqs
    BY <1>6, ExecuteIs, GotoIs DEF TypeOK, Places
  <2>2. slots' \subseteq Reqs /\ expires' \in Nat
    BY <1>6 DEF Execute, Slid, TypeOK, Times
  <2> QED BY <1>6, <2>1, <2>2 DEF Execute, TypeOK
<1>7. ASSUME NEW r \in Reqs, Reject(r) PROVE TypeOK'
  BY <1>7, GotoIs DEF Reject, TypeOK, Places
<1>8. ASSUME NEW r \in Reqs, CountRequest(r) PROVE TypeOK'
  <2>1. reqs' \in [Reqs -> Request]
    BY <1>8, GotoIs DEF CountRequest, Places
  <2>2. key' \in KeyRow
    BY <1>8 DEF CountRequest, TypeOK, KeyRow
  <2> QED BY <1>8, <2>1, <2>2 DEF CountRequest, TypeOK
<1>9. ASSUME NEW r \in Reqs, FailOpen(r) PROVE TypeOK'
  <2>1. reqs' \in [Reqs -> Request]
    BY <1>9, GotoIs DEF FailOpen, Places
  <2>2. slots' \subseteq Reqs /\ expires' \in Nat
    BY <1>9 DEF FailOpen, Slid, TypeOK, Times
  <2> QED BY <1>9, <2>1, <2>2 DEF FailOpen, TypeOK
<1>10. ASSUME NEW r \in Reqs, Die(r) PROVE TypeOK'
  BY <1>10, GotoIs DEF Die, TypeOK, Places
<1> QED
  BY <1>1, <1>2, <1>3, <1>4, <1>5, <1>6, <1>7, <1>8, <1>9, <1>10 DEF Next, Handle

\* The state of the API-key component has its types, whatever fails.
THEOREM TypeCorrect == Spec => []TypeOK
<1>1. TypeOK /\ [Next]_vars => TypeOK'
  BY TypedStep
<1> QED
  BY <1>1, TypedInit, PTL DEF Spec

-----------------------------------------------------------------------------
(* The rate. *)

\* A step in which request r keeps its stamp and leaves "idle" and "loaded" behind.
Answered(r) ==
  /\ reqs' \in [Reqs -> Request]
  /\ \A q \in Reqs : q # r => reqs'[q] = reqs[q]
  /\ reqs'[r].stamp = reqs[r].stamp /\ reqs'[r].place \notin {"idle", "loaded"}
  /\ now' = now

LEMMA StampsKept ==
  ASSUME NEW r \in Reqs, Answered(r), TypeOK
  PROVE  /\ \A q \in Reqs : reqs'[q].stamp = reqs[q].stamp
         /\ Stamped => Stamped'
<1>1. \A q \in Reqs : reqs'[q].stamp = reqs[q].stamp
  BY DEF Answered
<1>2. \A q \in Reqs : reqs'[q].place = "loaded" => reqs[q].place = "loaded"
  BY DEF Answered
<1> QED
  BY <1>1, <1>2 DEF Stamped, Answered

\* If no request passes, the limit is kept.
LEMMA LimitKept ==
  ASSUME AtMostLimit, passed' = passed, \A r \in passed : reqs'[r].stamp = reqs[r].stamp
  PROVE  AtMostLimit'
<1> SUFFICES ASSUME NEW t \in Times PROVE Cardinality(PassedUpTo(t)') <= Limit
  BY DEF AtMostLimit, Times
<1>1. PassedUpTo(t)' = PassedUpTo(t)
  BY DEF PassedUpTo
<1> QED
  BY <1>1 DEF AtMostLimit

LEMMA RateInit == Init => RateInv
<1> SUFFICES ASSUME Init PROVE RateInv
  OBVIOUS
<1>1. Stamped /\ Executed /\ Kept
  BY DEF Init, Stamped, Executed, Kept, IdleRequest
<1>2. AtMostLimit
  <2> SUFFICES ASSUME NEW t \in Times PROVE Cardinality(PassedUpTo(t)) <= Limit
    BY DEF AtMostLimit
  <2>1. PassedUpTo(t) = {}
    BY DEF Init, PassedUpTo
  <2> QED BY <2>1, FS_EmptySet
<1> QED
  BY <1>1, <1>2, TypedInit DEF RateInv

\* The transaction of a request that passes: all that passed within the window are still
\* in the set it has counted.
LEMMA PassedAreCounted ==
  ASSUME RateInv, NEW r \in Reqs, Execute(r), passed' = passed \cup {r}, Answered(r),
         NEW t \in Times, r \in PassedUpTo(t)'
  PROVE  PassedUpTo(t)' \subseteq Slid(r)
<1> SUFFICES ASSUME NEW q \in PassedUpTo(t)', q # r PROVE q \in Slid(r)
  BY DEF Slid
<1>0. \A x \in Reqs : reqs[x].stamp \in Int /\ reqs'[x].stamp = reqs[x].stamp
  BY StampsKept DEF RateInv, TypeOK, Request, Times
<1>1. q \in passed /\ q \in Reqs
  BY DEF PassedUpTo, RateInv, TypeOK
<1>2. t \in Int /\ now \in Int
  BY DEF Times, RateInv, TypeOK
<1>3. /\ t - (Window - MaxDelay) < reqs[q].stamp
      /\ reqs[r].stamp <= t
  BY <1>0, <1>1 DEF PassedUpTo
<1>4. now <= reqs[r].stamp + MaxDelay
  BY DEF RateInv, Stamped, Execute
<1>5. reqs[r].stamp - Window < reqs[q].stamp /\ ~(reqs[q].stamp + Window <= now)
  BY <1>0, <1>1, <1>2, <1>3, <1>4
<1>6. q \in slots
  BY <1>1, <1>5 DEF RateInv, Kept
<1> QED
  BY <1>0, <1>1, <1>5, <1>6 DEF Slid

LEMMA RateExecute ==
  ASSUME RateInv, NEW r \in Reqs, Execute(r)
  PROVE  RateInv'
<1>0. TypeOK /\ Stamped /\ Executed /\ Kept /\ AtMostLimit
  BY DEF RateInv
<1>1. /\ slots' = Slid(r) /\ expires' = now + Window /\ reqs[r].place = "loaded"
      /\ now' = now /\ now \in Nat
  BY <1>0 DEF Execute, TypeOK, Times
<1>2. Answered(r)
  BY <1>0, <1>1, ExecuteIs, GotoIs DEF Answered, Places
<1>3. TypeOK' /\ Stamped'
  BY <1>0, <1>2, TypedStep, StampsKept DEF Next, Handle
<1>4. \A q \in Reqs : reqs'[q].stamp = reqs[q].stamp /\ reqs[q].stamp \in Nat /\ reqs[q].stamp <= now
  BY <1>0, <1>2, StampsKept DEF Stamped, TypeOK, Request, Times
<1>5. r \notin passed
  BY <1>0, <1>1 DEF Executed
<1>6. Executed'
  <2>1. \A q \in slots' : reqs'[q].place \notin {"idle", "loaded"}
    BY <1>0, <1>1, <1>2 DEF Executed, Slid, Answered, TypeOK
  <2>2. \A q \in passed' : reqs'[q].place \in {"allowed", "admitted", "dead"}
    BY <1>0, <1>2, <1>5, ExecuteIs, GotoIs DEF Executed, Answered, TypeOK, Places
  <2> QED BY <2>1, <2>2 DEF Executed
<1>7. Kept'
  <2>1. \A q \in slots' : reqs'[q].stamp + Window <= expires'
    <3> SUFFICES ASSUME NEW q \in slots' PROVE reqs'[q].stamp + Window <= expires'
      OBVIOUS
    <3>1. q \in Reqs
      BY <1>3 DEF TypeOK
    <3> QED BY <3>1, <1>1, <1>4
  <2>2. \A q \in passed' : q \in slots' \/ reqs'[q].stamp + Window <= now'
    <3> SUFFICES ASSUME NEW q \in passed', q \notin slots' PROVE reqs'[q].stamp + Window <= now'
      OBVIOUS
    <3>1. q # r /\ q \in passed /\ q \in Reqs
      BY <1>0, <1>1, ExecuteIs DEF Slid, TypeOK
    <3>2. CASE q \in slots
      <4>1. ~(reqs[q].stamp > reqs[r].stamp - Window)
        BY <3>1, <3>2, <1>1 DEF Slid
      <4> QED BY <3>1, <4>1, <1>1, <1>4
    <3>3. CASE q \notin slots
      BY <3>1, <3>3, <1>0, <1>1, <1>4 DEF Kept
    <3> QED BY <3>2, <3>3
  <2> QED BY <2>1, <2>2 DEF Kept
<1>8. AtMostLimit'
  <2>1. CASE passed' = passed
    BY <2>1, <1>0, <1>4, LimitKept DEF TypeOK
  <2>2. CASE Cardinality(Slid(r)) <= Limit /\ passed' = passed \cup {r}
    <3> SUFFICES ASSUME NEW t \in Times PROVE Cardinality(PassedUpTo(t)') <= Limit
      BY DEF AtMostLimit, Times
    <3>1. CASE r \in PassedUpTo(t)'
      <4>1. PassedUpTo(t)' \subseteq Slid(r)
        BY <2>2, <3>1, <1>2, PassedAreCounted
      <4>2. IsFiniteSet(Slid(r))
        BY <1>0, FS_Subset DEF Slid, TypeOK
      <4>3. Cardinality(PassedUpTo(t)') <= Cardinality(Slid(r))
        BY <4>1, <4>2, FS_Subset
      <4>4. IsFiniteSet(PassedUpTo(t)')
        BY <4>1, <4>2, FS_Subset
      <4>5. Cardinality(PassedUpTo(t)') \in Nat /\ Cardinality(Slid(r)) \in Nat
        BY <4>2, <4>4, FS_CardinalityType
      <4> QED BY <4>3, <4>5, <2>2
    <3>2. CASE r \notin PassedUpTo(t)'
      <4>1. PassedUpTo(t)' = PassedUpTo(t)
        BY <2>2, <3>2, <1>0, <1>4, <1>5 DEF PassedUpTo, TypeOK
      <4> QED BY <4>1, <1>0 DEF AtMostLimit
    <3> QED BY <3>1, <3>2
  <2> QED BY <2>1, <2>2, <1>0, ExecuteIs
<1> QED
  BY <1>3, <1>6, <1>7, <1>8 DEF RateInv

\* The steps that take nothing out of the set that passed, and let nobody pass.
LEMMA RateAnswered ==
  ASSUME RateInv, NEW r \in Reqs, Answered(r), TypeOK', passed' = passed,
         \A q \in slots : q \in slots' \/ q \notin passed,
         slots' \subseteq slots \cup {r},
         \A q \in slots' : reqs[q].stamp + Window <= expires',
         r \in passed => reqs'[r].place \in {"allowed", "admitted", "dead"}
  PROVE  RateInv'
<1>0. TypeOK /\ Stamped /\ Executed /\ Kept /\ AtMostLimit
  BY DEF RateInv
<1>1. Stamped' /\ \A q \in Reqs : reqs'[q].stamp = reqs[q].stamp
  BY <1>0, StampsKept
<1>2. Executed'
  BY <1>0 DEF Executed, Answered, TypeOK
<1>3. Kept'
  BY <1>0, <1>1 DEF Kept, Answered, TypeOK
<1>4. AtMostLimit'
  BY <1>0, <1>1, LimitKept DEF TypeOK
<1> QED
  BY <1>1, <1>2, <1>3, <1>4 DEF RateInv

LEMMA RateStep ==
  ASSUME RateInv, [Next]_vars
  PROVE  RateInv'
<1>0. TypeOK /\ Stamped /\ Executed /\ Kept /\ AtMostLimit /\ TypeOK'
  BY TypedStep DEF RateInv
<1>1. CASE UNCHANGED <<now, slots, expires, reqs, passed>>
  <2>1. Stamped' /\ Executed' /\ Kept'
    BY <1>0, <1>1 DEF Stamped, Executed, Kept
  <2> QED BY <2>1, <1>0, <1>1, LimitKept DEF RateInv
<1>2. CASE Tick
  <2>1. now' = now + 1 /\ reqs' = reqs /\ passed' = passed /\ expires' = expires /\ now \in Nat
    BY <1>0, <1>2 DEF Tick, TypeOK, Times
  <2>2. \A r \in Reqs : reqs[r].stamp \in Nat
    BY <1>0 DEF TypeOK, Request, Times
  <2>3. Stamped'
    BY <2>1, <2>2, <1>0, <1>2 DEF Stamped, Tick
  <2>4. slots' \subseteq slots
    BY <1>2 DEF Tick
  <2>5. Executed'
    BY <2>1, <2>4, <1>0 DEF Executed
  <2>6. Kept'
    <3>1. \A r \in slots' : reqs'[r].stamp + Window <= expires'
      BY <2>1, <2>4, <1>0 DEF Kept
    <3>2. ASSUME NEW r \in passed PROVE r \in slots' \/ reqs[r].stamp + Window <= now + 1
      <4>1. r \in Reqs
        BY <1>0 DEF TypeOK
      <4>2. CASE r \notin slots
        BY <4>1, <4>2, <2>1, <2>2, <1>0 DEF Kept
      <4>3. CASE r \in slots /\ r \notin slots'
        <5>1. now + 1 >= expires
          BY <4>3, <1>2 DEF Tick
        <5>2. reqs[r].stamp + Window <= expires
          BY <4>3, <1>0 DEF Kept
        <5> QED BY <5>1, <5>2, <4>1, <2>1, <2>2, <1>0 DEF TypeOK
      <4> QED BY <4>2, <4>3
    <3> QED BY <3>1, <3>2, <2>1 DEF Kept
  <2> QED BY <2>1, <2>3, <2>5, <2>6, <1>0, LimitKept DEF RateInv
<1>3. ASSUME NEW r \in Reqs, Load(r) PROVE RateInv'
  <2>1. /\ \A q \in Reqs : q # r => reqs'[q] = reqs[q]
        /\ reqs[r].place = "idle" /\ reqs'[r].place = "loaded" /\ reqs'[r].stamp = now
    BY <1>0, <1>3, LoadIs
  <2>2. UNCHANGED <<now, slots, expires, passed>> /\ now \in Nat
    BY <1>0, <1>3 DEF Load, TypeOK, Times
  <2>3. r \notin slots /\ r \notin passed
    BY <1>0, <2>1 DEF Executed
  <2>4. Stamped'
    BY <2>1, <2>2, <1>0 DEF Stamped
  <2>5. Executed' /\ Kept'
    BY <2>1, <2>2, <2>3, <1>0 DEF Executed, Kept, TypeOK
  <2> QED BY <2>1, <2>2, <2>3, <2>4, <2>5, <1>0, LimitKept DEF RateInv, TypeOK
<1>4. ASSUME NEW r \in Reqs, Refuse(r) PROVE RateInv'
  <2>1. Answered(r) /\ r \notin passed
    BY <1>0, <1>4, GotoIs DEF Refuse, Answered, Places, Executed
  <2> QED BY <2>1, <1>0, <1>4, RateAnswered DEF Refuse, Kept
<1>5. ASSUME NEW r \in Reqs, Reject(r) PROVE RateInv'
  <2>1. Answered(r) /\ r \notin passed
    BY <1>0, <1>5, GotoIs DEF Reject, Answered, Places, Executed
  <2> QED BY <2>1, <1>0, <1>5, RateAnswered DEF Reject, Kept
<1>6. ASSUME NEW r \in Reqs, CountRequest(r) PROVE RateInv'
  <2>1. Answered(r) /\ reqs'[r].place = "admitted"
    BY <1>0, <1>6, GotoIs DEF CountRequest, Answered, Places
  <2> QED BY <2>1, <1>0, <1>6, RateAnswered DEF CountRequest, Kept
<1>7. ASSUME NEW r \in Reqs, Die(r) PROVE RateInv'
  <2>1. Answered(r) /\ reqs'[r].place = "dead"
    BY <1>0, <1>7, GotoIs DEF Die, Answered, Places
  <2> QED BY <2>1, <1>0, <1>7, RateAnswered DEF Die, Kept
<1>8. ASSUME NEW r \in Reqs, FailOpen(r) PROVE RateInv'
  <2>1. Answered(r) /\ r \notin passed /\ passed' = passed
    BY <1>0, <1>8, GotoIs DEF FailOpen, Answered, Places, Executed
  <2>2. CASE UNCHANGED <<slots, expires>>
    BY <2>1, <2>2, <1>0, RateAnswered DEF Kept
  <2>3. CASE reqs[r].place = "rejecting" /\ slots' = slots \ {r} /\ UNCHANGED expires
    BY <2>1, <2>3, <1>0, RateAnswered DEF Kept
  <2>4. CASE reqs[r].place = "loaded" /\ slots' = Slid(r) /\ expires' = now + Window
    <3>1. \A q \in Reqs : reqs'[q].stamp = reqs[q].stamp /\ reqs[q].stamp \in Nat /\ reqs[q].stamp <= now
      BY <1>0, <2>1, StampsKept DEF Stamped, TypeOK, Request, Times
    <3>2. now' = now /\ now \in Nat
      BY <1>0, <2>1 DEF Answered, TypeOK, Times
    <3>3. Stamped'
      BY <1>0, <2>1, StampsKept
    <3>4. Executed'
      BY <1>0, <2>1, <2>4 DEF Executed, Slid, Answered, TypeOK
    <3>5. \A q \in slots' : reqs'[q].stamp + Window <= expires'
      <4> SUFFICES ASSUME NEW q \in slots' PROVE reqs'[q].stamp + Window <= expires'
        OBVIOUS
      <4>1. q \in Reqs
        BY <1>0 DEF TypeOK
      <4> QED BY <4>1, <2>4, <3>1, <3>2
    <3>6. \A q \in passed : q \in slots' \/ reqs'[q].stamp + Window <= now'
      <4> SUFFICES ASSUME NEW q \in passed, q \notin slots' PROVE reqs'[q].stamp + Window <= now'
        OBVIOUS
      <4>1. q \in Reqs
        BY <1>0 DEF TypeOK
      <4>2. CASE q \in slots
        <5>1. ~(reqs[q].stamp > reqs[r].stamp - Window)
          BY <4>2, <2>4 DEF Slid
        <5> QED BY <4>1, <5>1, <3>1, <3>2
      <4>3. CASE q \notin slots
        BY <4>1, <4>3, <1>0, <3>1, <3>2 DEF Kept
      <4> QED BY <4>2, <4>3
    <3>7. Kept'
      BY <3>5, <3>6, <2>1 DEF Kept
    <3>8. AtMostLimit'
      BY <1>0, <2>1, <3>1, LimitKept DEF TypeOK
    <3> QED BY <1>0, <3>3, <3>4, <3>7, <3>8 DEF RateInv
  <2> QED BY <2>2, <2>3, <2>4, <1>8 DEF FailOpen
<1>9. CASE UNCHANGED vars \/ CreateKey \/ RevokeKey
  BY <1>9, <1>1 DEF vars, CreateKey, RevokeKey
<1> QED
  BY <1>2, <1>3, <1>4, <1>5, <1>6, <1>7, <1>8, <1>9, RateExecute DEF Next, Handle

\* For any number of requests, any limit, any delay shorter than the window and any
\* Redis errors and crashes, the requests a count lets through keep the rate.
THEOREM RateKept == Spec => []AtMostLimit
<1>1. RateInv /\ [Next]_vars => RateInv'
  BY RateStep
<1>2. RateInv => AtMostLimit
  BY DEF RateInv
<1> QED
  BY <1>1, <1>2, RateInit, PTL DEF Spec

-----------------------------------------------------------------------------
(* The usage counter. *)

Admitted  == {r \in Reqs : reqs[r].place = "admitted"}

\* Nothing is in progress for a key that does not exist yet.
Untouched == key.state = "absent" => \A r \in Reqs : reqs[r].place \in {"idle", "refused"}

CountInv  == TypeOK /\ Untouched /\ CountIsExact

LEMMA CountInit == Init => CountInv
<1> SUFFICES ASSUME Init PROVE CountInv
  OBVIOUS
<1>1. {r \in Reqs : reqs[r].place = "admitted"} = {}
  BY DEF Init, IdleRequest
<1>2. CountIsExact
  BY <1>1, FS_EmptySet DEF Init, CountIsExact
<1>3. Untouched
  BY DEF Init, Untouched, IdleRequest
<1> QED
  BY <1>2, <1>3, TypedInit DEF CountInv

\* A step of a request that is not its admission.
LEMMA CountKept ==
  ASSUME CountInv, NEW r \in Reqs, TypeOK', key' = key,
         \A q \in Reqs : q # r => reqs'[q] = reqs[q],
         reqs[r].place # "admitted", reqs'[r].place # "admitted",
         key.state = "absent" => reqs'[r].place \in {"idle", "refused"}
  PROVE  CountInv'
<1>1. Admitted' = Admitted
  BY DEF Admitted
<1> QED
  BY <1>1 DEF CountInv, CountIsExact, Admitted, Untouched

LEMMA CountStep ==
  ASSUME CountInv, [Next]_vars
  PROVE  CountInv'
<1>0. TypeOK /\ Untouched /\ CountIsExact /\ TypeOK'
  BY TypedStep DEF CountInv
<1>1. CASE UNCHANGED <<key, reqs>>
  BY <1>0, <1>1 DEF CountInv, Untouched, CountIsExact
<1>2. CASE CreateKey
  <2>1. Admitted' = {}
    BY <1>0, <1>2 DEF CreateKey, Untouched, Admitted
  <2> QED BY <2>1, <1>0, <1>2, FS_EmptySet
          DEF CreateKey, CountInv, Untouched, CountIsExact, Admitted
<1>3. CASE RevokeKey
  <2>1. key'.state = "revoked" /\ key'.count = key.count
    BY <1>0, <1>3 DEF RevokeKey, TypeOK, KeyRow
  <2>2. Admitted' = Admitted
    BY <1>3 DEF RevokeKey, Admitted
  <2> QED BY <2>1, <2>2, <1>0 DEF CountInv, Untouched, CountIsExact, Admitted
<1>4. ASSUME NEW r \in Reqs, Load(r) PROVE CountInv'
  BY <1>0, <1>4, LoadIs, CountKept DEF Load
<1>5. ASSUME NEW r \in Reqs, Refuse(r) PROVE CountInv'
  BY <1>0, <1>5, GotoIs, CountKept DEF Refuse, Places
<1>6. ASSUME NEW r \in Reqs, reqs[r].place \in {"loaded", "allowed", "rejecting"}, key' = key,
             NEW p \in {"allowed", "rejecting", "rejected", "dead"}, Goto(r, p)
      PROVE  CountInv'
  <2>1. key.state # "absent"
    BY <1>0, <1>6 DEF Untouched
  <2>2. p \in Places
    BY DEF Places
  <2> QED BY <1>0, <1>6, <2>1, <2>2, GotoIs, CountKept
<1>7. ASSUME NEW r \in Reqs, Execute(r) \/ Reject(r) \/ FailOpen(r) \/ Die(r) PROVE CountInv'
  <2>1. /\ reqs[r].place \in {"loaded", "allowed", "rejecting"} /\ key' = key
        /\ \E p \in {"allowed", "rejecting", "rejected", "dead"} : Goto(r, p)
    BY <1>7 DEF Execute, Reject, FailOpen, Die
  <2> QED BY <2>1, <1>6
<1>8. ASSUME NEW r \in Reqs, CountRequest(r) PROVE CountInv'
  <2>1. /\ reqs[r].place = "allowed" /\ reqs'[r].place = "admitted"
        /\ \A q \in Reqs : q # r => reqs'[q] = reqs[q]
    BY <1>0, <1>8, GotoIs DEF CountRequest, Places
  <2>2. Admitted' = Admitted \cup {r} /\ r \notin Admitted
    BY <2>1 DEF Admitted
  <2>3. IsFiniteSet(Admitted)
    BY FS_Subset DEF Admitted
  <2>4. Cardinality(Admitted') = Cardinality(Admitted) + 1
    BY <2>2, <2>3, FS_AddElement
  <2>5. key'.count = key.count + 1 /\ key'.state = key.state
    BY <1>0, <1>8 DEF CountRequest, TypeOK, KeyRow
  <2>6. key.state # "absent"
    BY <2>1, <1>0 DEF Untouched
  <2> QED BY <2>4, <2>5, <2>6, <1>0 DEF CountInv, Untouched, CountIsExact, Admitted
<1>9. CASE UNCHANGED vars \/ Tick
  BY <1>9, <1>1 DEF vars, Tick
<1> QED
  BY <1>2, <1>3, <1>4, <1>5, <1>7, <1>8, <1>9 DEF Next, Handle

\* The counter of a key is the number of its requests that were admitted, however they
\* interleave with each other, with a revocation and with crashes.
THEOREM EveryRequestCounted == Spec => []CountIsExact
<1>1. CountInv /\ [Next]_vars => CountInv'
  BY CountStep
<1>2. CountInv => CountIsExact
  BY DEF CountInv
<1> QED
  BY <1>1, <1>2, CountInit, PTL DEF Spec

=============================================================================
