---------------------------- MODULE MCConnectors -----------------------------
(* Small instances of Connectors, with Uploads in it, for TLC. *)
EXTENDS Connectors, TLC

\* Requests of a kind are interchangeable, and so are the files that can be made documents.
RequestSymmetry ==
  Permutations(Pushes) \cup Permutations(Visits) \cup Permutations(Flows)
    \cup Permutations(Syncs) \cup Permutations(Files \ Unfit)

=============================================================================
