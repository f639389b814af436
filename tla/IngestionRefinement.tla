------------------------- MODULE IngestionRefinement -------------------------
(***************************************************************************)
(* The pipeline implements Lifecycle: what GET /documents shows of a        *)
(* document's ingestion_status, with the steps of a run folded into one     *)
(* abstract state.                                                          *)
(***************************************************************************)
EXTENDS Ingestion

\* The status a client sees, as Lifecycle names it.  To a client a document given up
\* looks in progress; Lifecycle tells the two apart, to say that it stays so.
Shown(d) ==
  IF life[d] # "live" THEN life[d]
  ELSE IF Orphaned(d) THEN "abandoned"
  ELSE IF docs[d].status \in Terminal \cup {"queued"} THEN docs[d].status
  ELSE "working"

Abstract == INSTANCE Lifecycle WITH state <- [d \in Docs |-> Shown(d)]

\* Failed attempts and retries, re-tags and a delete in the middle of a run are
\* invisible to a client: it sees the document queued, in progress, settled once
\* and for good, and it does see it settle unless its last retry has failed.
RefinesLifecycle == Abstract!Spec
=============================================================================
