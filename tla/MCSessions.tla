----------------------------- MODULE MCSessions ------------------------------
(* Small instances of Sessions for TLC. *)
EXTENDS Sessions, TLC

\* Requests, and the rows named by them, are interchangeable; so are users.
SessionSymmetry == Permutations(Reqs) \cup Permutations(Users)

=============================================================================
