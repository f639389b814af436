------------------------------ MODULE Lifecycle ------------------------------
(***************************************************************************)
(* What the pipeline promises a client that uploads a document and polls    *)
(* it: the document is accepted, worked on, and settled once, completed or  *)
(* failed, or given up, and then stays as it is; it may be deleted at any   *)
(* time, and then stays deleted.                                            *)
(***************************************************************************)
CONSTANT Docs

VARIABLE state

Live == {"queued", "working", "completed", "failed", "abandoned"}

Init == state = [d \in Docs |-> "absent"]

Become(d, s) == state' = [state EXCEPT ![d] = s]

Accept(d)  == state[d] = "absent" /\ Become(d, "queued")
Start(d)   == state[d] = "queued" /\ Become(d, "working")
Settle(d)  == state[d] = "working" /\ \E s \in {"completed", "failed"} : Become(d, s)
Abandon(d) == state[d] \in {"queued", "working"} /\ Become(d, "abandoned")
Remove(d)  == state[d] \in Live /\ Become(d, "deleted")

Next == \E d \in Docs : Accept(d) \/ Start(d) \/ Settle(d) \/ Abandon(d) \/ Remove(d)

\* An accepted document is started and a started one settled, unless it is given up.
Fairness == \A d \in Docs : WF_state(Start(d)) /\ WF_state(Settle(d))

\* What a client never sees go wrong, and what it sees in the end.
Safety == Init /\ [][Next]_state

Spec == Safety /\ Fairness
=============================================================================
