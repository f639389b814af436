----------------------------- MODULE MCRetrieval -----------------------------
(* Small instances of Retrieval, with Chunking in it, for TLC. *)
EXTENDS Retrieval

\* Documents are interchangeable.
DocSymmetry == Permutations(Docs)

=============================================================================
