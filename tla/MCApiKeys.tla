------------------------------ MODULE MCApiKeys ------------------------------
(* Small instances of ApiKeys for TLC. *)
EXTENDS ApiKeys, TLC

\* Requests are interchangeable.
RequestSymmetry == Permutations(Reqs)

=============================================================================
