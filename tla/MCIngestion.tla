----------------------------- MODULE MCIngestion -----------------------------
(* Small instances of Ingestion for TLC. *)
EXTENDS IngestionRefinement, TLC

\* Runs are interchangeable delivery ids.
RunSymmetry == Permutations(Runs)

=============================================================================
