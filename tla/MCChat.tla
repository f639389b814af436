------------------------------- MODULE MCChat -------------------------------
(* Small instances of Chat for TLC. *)
EXTENDS Chat, TLC

\* Turns are interchangeable.
TurnSymmetry == Permutations(Turns)

=============================================================================
