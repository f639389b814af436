------------------------------ MODULE Ingestion ------------------------------
(***************************************************************************)
(* The document ingestion pipeline: the API handlers that create, reprocess,*)
(* re-tag and delete a document, the Celery queue, and the worker runs of   *)
(* ingestion/worker_flow.py.  An action is what happens up to one database  *)
(* commit or one write to an external store, so that every interleaving of  *)
(* two transactions the code can produce is an interleaving of actions.     *)
(*                                                                          *)
(* A SQLAlchemy session keeps the rows it has loaded and a commit writes    *)
(* only the columns the session has changed since: `seen' is that copy, and *)
(* Flushed is that rule.                                                    *)
(***************************************************************************)
EXTENDS Naturals, FiniteSets

CONSTANTS
  Docs,            \* documents (uuid4 ids: never reused)
  NoDoc,           \* the document of a job row that does not exist yet
  Runs,            \* deliveries of the ingest_document task; bounds deliveries
  MaxJobs,         \* bound: uploads plus reprocess calls
  MaxRetries,      \* ingest_document's max_retries
  Events,          \* what clients and the environment do in this instance
  TextDocs,        \* documents whose file yields text, and so chunks: not a blank
                   \* text, a table of headers only or a scan without text
  EmptyDocs        \* documents whose file has no bytes at all

ClientEvents == {"reprocess", "tags", "delete"}
FaultEvents  == {"transient", "parse", "broker", "crash", "redeliver"}

ASSUME DocsAssumption    == NoDoc \notin Docs
ASSUME MaxJobsAssumption == MaxJobs \in Nat
ASSUME RetriesAssumption == MaxRetries \in Nat
ASSUME EventsAssumption  == Events \subseteq ClientEvents \cup FaultEvents
ASSUME FilesAssumption   == TextDocs \subseteq Docs /\ EmptyDocs \subseteq Docs \ TextDocs

VARIABLES
  life,     \* whether the documents row is not there yet, live or deleted
  docs,     \* the documents row: ingestion_status, tags, embedding_status, and whether
            \* chunk_count (of a file with bytes: content_hash too) has been written
  jobs,     \* the ingestion_jobs rows, numbered by created_at
  njobs,    \* how many of them have been inserted
  letters,  \* number of ingestion_errors rows of a document
  chunks,   \* document_chunks rows of a document: the runs that inserted them
  vectors,  \* points of a document in the vector store: the runs that upserted them
  pending,  \* API requests between their commit and ingest_document.delay()
  queue,    \* ready messages of a document, by their retry count
  runs,     \* the worker runs
  seen      \* a run's session copy of its documents row

vars == <<life, docs, jobs, njobs, letters, chunks, vectors, pending, queue, runs, seen>>

-----------------------------------------------------------------------------
(* Rows and run states. *)

Statuses == {"queued", "processing", "parsing", "tagging", "chunking", "embedding",
             "graph_mapping", "finalizing", "completed", "failed"}
Terminal == {"completed", "failed"}
TagSets  == {"none", "generated", "user"}
EmbeddingStatuses == {"pending", "in_progress", "completed", "failed"}

DocRow == [status : Statuses, tags : TagSets, chunked : BOOLEAN, emb : EmbeddingStatuses]
NewRow(t) == [status |-> "queued", tags |-> t, chunked |-> FALSE, emb |-> "pending"]

Jobs   == 1 .. MaxJobs
JobRow == [doc : Docs \cup {NoDoc}, status : Statuses, stamped : BOOLEAN]

\* Where a run is: the last thing it has committed or written.
Working == {"loaded", "processing", "parsing", "tagging", "tagged", "chunking",
            "replacing", "persisted", "embedding", "in_progress", "upserted",
            "embedded", "graph_mapping", "finalizing"}
Failing == {"retry"}     \* in the task's except clause
Active  == Working \cup Failing \cup {"completed", "returned"}
Places  == {"idle", "ended"} \cup Active

RunRecord == [doc : Docs \cup {NoDoc}, job : Jobs \cup {0}, jobSeen : Statuses,
              tries : 0 .. MaxRetries, pc : Places,
              old : SUBSET Runs,       \* chunk rows its DELETE statement removes
              first : BOOLEAN,         \* it stored the content hash: its row update holds the lock
              again : BOOLEAN]         \* its message has been made visible a second time

IdleRun == [doc |-> NoDoc, job |-> 0, jobSeen |-> "queued", tries |-> 0, pc |-> "idle",
            old |-> {}, first |-> FALSE, again |-> FALSE]

JobsOf(d) == {j \in 1 .. njobs : jobs[j].doc = d}

\* Mutant: the newest job row, whatever its document.
LatestJobOfAny(d) == CHOOSE j \in 1 .. njobs : j = njobs /\ d \in Docs

\* select(IngestionJob).where(document_id).order_by(created_at.desc()).first()
LatestJob(d) == CHOOSE j \in JobsOf(d) : \A i \in JobsOf(d) : i <= j

\* Mutant: the hash is assigned after the DELETE, so nothing locks the row.
RowAlwaysFree(d) == d \in Docs

\* The documents row is not locked by a transaction that has updated it and not
\* committed yet: only the persist step leaves such a transaction open.
RowFree(d) == \A r \in Runs : ~(runs[r].pc = "replacing" /\ runs[r].first /\ runs[r].doc = d)

-----------------------------------------------------------------------------
(* What a session commit does to the rows. *)

\* UPDATE documents: only the columns that differ from the session's copy.
Flushed(d, r, new) ==
  [status |-> IF new.status # seen[r].status THEN new.status ELSE docs[d].status,
   tags   |-> IF new.tags   # seen[r].tags   THEN new.tags   ELSE docs[d].tags,
   chunked |-> IF new.chunked # seen[r].chunked THEN new.chunked ELSE docs[d].chunked,
   emb    |-> IF new.emb    # seen[r].emb    THEN new.emb    ELSE docs[d].emb]

\* The commit has something to UPDATE; if nothing differs no statement is sent.
Dirty(r, new, st) == new # seen[r] \/ st # runs[r].jobSeen

Goto(r, place) == runs' = [runs EXCEPT ![r].pc = place]

\* The UPDATE matched no row (the document was deleted): StaleDataError, rollback.
StaleAbort(r, new, st) ==
  /\ Dirty(r, new, st)
  /\ life[runs[r].doc] # "live"
  /\ Goto(r, "returned")
  /\ UNCHANGED <<docs, jobs, seen>>

\* The commit goes through: document row `new`, job status st, the run moves on.
Commit(r, new, st, place) ==
  LET d == runs[r].doc
      j == runs[r].job
  IN /\ Dirty(r, new, st) => life[d] = "live" /\ RowFree(d)
     /\ docs' = [docs EXCEPT ![d] = IF new = seen[r] THEN @ ELSE Flushed(d, r, new)]
     /\ jobs' = [jobs EXCEPT ![j].status = IF st = runs[r].jobSeen THEN @ ELSE st]
     /\ seen' = [seen EXCEPT ![r] = new]
     /\ runs' = [runs EXCEPT ![r].pc = place, ![r].jobSeen = st]

CommitOrAbort(r, new, st, place) ==
  Commit(r, new, st, place) \/ StaleAbort(r, new, st)

-----------------------------------------------------------------------------
(* API handlers: documents and ingest routers over document_service. *)

\* POST /ingest/*: the bytes are stored, then document and job committed together.
Upload(d, t) ==
  /\ life[d] = "absent" /\ njobs < MaxJobs
  /\ life' = [life EXCEPT ![d] = "live"]
  /\ docs' = [docs EXCEPT ![d] = NewRow(t)]
  /\ njobs' = njobs + 1
  /\ jobs' = [jobs EXCEPT ![njobs + 1] = [doc |-> d, status |-> "queued", stamped |-> FALSE]]
  /\ pending' = [pending EXCEPT ![d] = @ + 1]
  /\ UNCHANGED <<letters, chunks, vectors, queue, runs, seen>>

\* Mutant: delay() is called again for a request that has enqueued already.
EnqueueAgain(d) ==
  /\ pending' = [pending EXCEPT ![d] = @ - 1]
  /\ queue' = [queue EXCEPT ![d][0] = @ + 1]
  /\ UNCHANGED <<life, docs, jobs, njobs, letters, chunks, vectors, runs, seen>>

\* _enqueue: ingest_document.delay(...) after the commit.
Enqueue(d) ==
  /\ pending[d] > 0
  /\ pending' = [pending EXCEPT ![d] = @ - 1]
  /\ queue' = [queue EXCEPT ![d][0] = @ + 1]
  /\ UNCHANGED <<life, docs, jobs, njobs, letters, chunks, vectors, runs, seen>>

\* _enqueue swallows a broker error; an API process that dies here does the same.
EnqueueFails(d) ==
  /\ "broker" \in Events
  /\ pending[d] > 0
  /\ pending' = [pending EXCEPT ![d] = @ - 1]
  /\ UNCHANGED <<life, docs, jobs, njobs, letters, chunks, vectors, queue, runs, seen>>

\* POST /documents/{id}/reprocess: no test that a run is active.  The handler's copy
\* of the row may be old: if it says queued already, the status is not written.
Reprocess(d) ==
  /\ "reprocess" \in Events
  /\ life[d] = "live" /\ njobs < MaxJobs
  /\ \E s \in {"queued", docs[d].status} :
       /\ s # docs[d].status => RowFree(d)
       /\ docs' = [docs EXCEPT ![d].status = s]
  /\ njobs' = njobs + 1
  /\ jobs' = [jobs EXCEPT ![njobs + 1] = [doc |-> d, status |-> "queued", stamped |-> FALSE]]
  /\ pending' = [pending EXCEPT ![d] = @ + 1]
  /\ UNCHANGED <<life, letters, chunks, vectors, queue, runs, seen>>

\* PATCH /documents/{id}/tags: the user's tags, possibly the empty list.
UpdateTags(d, t) ==
  /\ "tags" \in Events
  /\ life[d] = "live" /\ RowFree(d)
  /\ docs' = [docs EXCEPT ![d].tags = t]
  /\ UNCHANGED <<life, jobs, njobs, letters, chunks, vectors, pending, queue, runs, seen>>

\* DELETE /documents/{id}: ON DELETE CASCADE takes chunks, jobs and dead letters
\* (the job rows count as gone because their document is); vectors stay.
Delete(d) ==
  /\ "delete" \in Events
  /\ life[d] = "live" /\ RowFree(d)
  /\ life' = [life EXCEPT ![d] = "deleted"]
  /\ docs' = [docs EXCEPT ![d] = NewRow("none")]
  /\ chunks' = [chunks EXCEPT ![d] = {}]
  /\ letters' = [letters EXCEPT ![d] = 0]
  /\ UNCHANGED <<jobs, njobs, vectors, pending, queue, runs, seen>>

-----------------------------------------------------------------------------
(* The worker: one delivery of ingest_document. *)

\* worker_flow.run loads the document and its latest job; a missing document
\* ends the task.
Deliver(r, d, k) ==
  /\ runs[r].pc = "idle" /\ queue[d][k] > 0
  /\ queue' = [queue EXCEPT ![d][k] = @ - 1]
  /\ \/ /\ life[d] = "live"
        /\ seen' = [seen EXCEPT ![r] = docs[d]]
        /\ runs' = [runs EXCEPT ![r] =
             [IdleRun EXCEPT !.doc = d, !.tries = k, !.pc = "loaded", !.job = LatestJob(d),
                             !.jobSeen = jobs[LatestJob(d)].status]]
     \/ /\ life[d] # "live"
        /\ runs' = [runs EXCEPT ![r] =
             [IdleRun EXCEPT !.doc = d, !.tries = k, !.pc = "returned"]]
        /\ UNCHANGED seen
  /\ UNCHANGED <<life, docs, jobs, njobs, letters, chunks, vectors, pending>>

\* The status _set_status commits next, by where the run is.
NextStatus == [loaded |-> "processing", processing |-> "parsing", parsing |-> "tagging",
               tagging |-> "chunking", tagged |-> "chunking", persisted |-> "embedding",
               embedded |-> "graph_mapping", graph_mapping |-> "finalizing",
               finalizing |-> "completed"]

\* _set_status, after the work that precedes it has succeeded (get_bytes, parse,
\* chunk, NER and graph upsert; the last two never fail the document).
SetStatus(r) ==
  /\ runs[r].pc \in DOMAIN NextStatus
  /\ runs[r].pc = "tagging" => seen[r].tags # "none"
  /\ LET s == NextStatus[runs[r].pc]
     IN  CommitOrAbort(r, [seen[r] EXCEPT !.status = s], s, s)
  /\ UNCHANGED <<life, njobs, letters, chunks, vectors, pending, queue>>

\* `if not doc.tags': the session's copy decides; the generator may return no tag.
GenerateTags(r, t) ==
  /\ runs[r].pc = "tagging" /\ seen[r].tags = "none"
  /\ CommitOrAbort(r, [seen[r] EXCEPT !.tags = t], runs[r].jobSeen, "tagged")
  /\ UNCHANGED <<life, njobs, letters, chunks, vectors, pending, queue>>

\* Mutant: the DELETE of the old chunks is committed before the new ones exist.
DeleteChunksFirst(r) ==
  /\ runs[r].pc = "chunking"
  /\ chunks' = [chunks EXCEPT ![runs[r].doc] = {}]
  /\ Goto(r, "replacing")
  /\ UNCHANGED <<life, docs, jobs, njobs, letters, vectors, pending, queue, seen>>

\* The file has bytes to hash and the session has not seen their hash in the row.
HashIsNew(r) == runs[r].doc \notin EmptyDocs /\ ~seen[r].chunked

\* content_hash is assigned, then DELETE FROM document_chunks: the session first
\* flushes the assignment, which locks the documents row if the hash is new, and
\* the DELETE then removes the rows committed by the time it starts.
DeleteChunks(r) ==
  LET d == runs[r].doc IN
  /\ runs[r].pc = "chunking"
  /\ \/ /\ HashIsNew(r) => life[d] = "live" /\ RowFree(d)
        /\ runs' = [runs EXCEPT ![r].pc = "replacing", ![r].old = chunks[d],
                                ![r].first = HashIsNew(r)]
     \/ /\ HashIsNew(r) /\ life[d] # "live"     \* StaleDataError
        /\ Goto(r, "returned")
  /\ UNCHANGED <<life, docs, jobs, njobs, letters, chunks, vectors, pending, queue, seen>>

\* What the run makes of its document's file: chunks, or nothing to store.
Yield(r) == IF runs[r].doc \in TextDocs THEN {r} ELSE {}

\* Mutant: document_chunks.document_id is no foreign key.
InsertChunksUnchecked(r) ==
  /\ runs[r].pc = "replacing"
  /\ chunks' = [chunks EXCEPT ![runs[r].doc] = (@ \ runs[r].old) \cup Yield(r)]
  /\ docs' = [docs EXCEPT ![runs[r].doc].chunked = TRUE]
  /\ seen' = [seen EXCEPT ![r].chunked = TRUE]
  /\ Goto(r, "persisted")
  /\ UNCHANGED <<life, jobs, njobs, letters, vectors, pending, queue>>

\* The new chunk rows, if any, are inserted, chunk_count is written if it differs, and
\* the transaction commits.  Without a documents row the foreign key or the UPDATE
\* fails the task; a run with neither to send does not notice.
InsertChunks(r) ==
  LET d == runs[r].doc IN
  /\ runs[r].pc = "replacing"
  /\ \/ /\ life[d] = "live"
        /\ chunks' = [chunks EXCEPT ![d] = (@ \ runs[r].old) \cup Yield(r)]
        /\ docs' = [docs EXCEPT ![d].chunked = TRUE]
        /\ seen' = [seen EXCEPT ![r].chunked = TRUE]
        /\ Goto(r, "persisted")
     \/ /\ life[d] # "live"
        /\ Goto(r, IF Yield(r) = {} /\ seen[r].chunked THEN "persisted" ELSE "returned")
        /\ UNCHANGED <<chunks, docs, seen>>
  /\ UNCHANGED <<life, jobs, njobs, letters, vectors, pending, queue>>

\* embedding_status = in_progress before the vectors, completed after them.
StartEmbedding(r) ==
  /\ runs[r].pc = "embedding"
  /\ CommitOrAbort(r, [seen[r] EXCEPT !.emb = "in_progress"], runs[r].jobSeen, "in_progress")
  /\ UNCHANGED <<life, njobs, letters, chunks, vectors, pending, queue>>

\* `if chunk_rows': embed them and upsert the points, with no look at the database.
UpsertVectors(r) ==
  /\ runs[r].pc = "in_progress"
  /\ vectors' = [vectors EXCEPT ![runs[r].doc] = @ \cup Yield(r)]
  /\ Goto(r, "upserted")
  /\ UNCHANGED <<life, docs, jobs, njobs, letters, chunks, pending, queue, seen>>

FinishEmbedding(r) ==
  /\ runs[r].pc = "upserted"
  /\ CommitOrAbort(r, [seen[r] EXCEPT !.emb = "completed"], runs[r].jobSeen, "embedded")
  /\ UNCHANGED <<life, njobs, letters, chunks, vectors, pending, queue>>

\* job.completed_at, in a commit of its own after status completed.
StampJob(r) ==
  /\ runs[r].pc = "completed"
  /\ jobs' = IF life[runs[r].doc] = "live"
               THEN [jobs EXCEPT ![runs[r].job].stamped = TRUE] ELSE jobs
  /\ Goto(r, "returned")
  /\ UNCHANGED <<life, docs, njobs, letters, chunks, vectors, pending, queue, seen>>

-----------------------------------------------------------------------------
(* Failures the code handles. *)

\* Mutant: the statuses are committed without the ingestion_errors row.
DeadLetterSilently(r) ==
  /\ CommitOrAbort(r, [seen[r] EXCEPT !.status = "failed"], "failed", "returned")
  /\ UNCHANGED <<life, njobs, letters, chunks, vectors, pending, queue>>

\* _dead_letter: the ingestion_errors row and both statuses in one commit.
DeadLetter(r) ==
  /\ \/ /\ life[runs[r].doc] = "live"
        /\ Commit(r, [seen[r] EXCEPT !.status = "failed"], "failed", "returned")
        /\ letters' = [letters EXCEPT ![runs[r].doc] = @ + 1]
     \/ /\ life[runs[r].doc] # "live"       \* StaleDataError or the foreign key
        /\ Goto(r, "returned")
        /\ UNCHANGED <<docs, jobs, seen, letters>>
  /\ UNCHANGED <<life, njobs, chunks, vectors, pending, queue>>

ParseFails(r) ==
  /\ "parse" \in Events
  /\ runs[r].pc = "parsing" /\ runs[r].doc \notin EmptyDocs      \* `if data'
  /\ DeadLetter(r)

\* Where an exception that is neither a parse error nor a database error arises:
\* reading the bytes; parsing and chunking them, if there are any; embedding chunks.
FailsAt(r) ==
  {"processing"} \cup (IF runs[r].doc \in EmptyDocs THEN {} ELSE {"parsing", "chunking"})
                 \cup (IF Yield(r) = {} THEN {} ELSE {"in_progress"})

\* Mutant: embedding is best-effort, as tagging and the graph are.
TransientIsSwallowed(r, applied) ==
  /\ "transient" \in Events
  /\ runs[r].pc = "in_progress" /\ Yield(r) # {} /\ ~applied
  /\ CommitOrAbort(r, [seen[r] EXCEPT !.emb = "completed"], runs[r].jobSeen, "embedded")
  /\ UNCHANGED <<life, njobs, letters, chunks, vectors, pending, queue>>

\* Mutant: a failed attempt shows as failed while its retry is outstanding.
TransientShowsFailed(r, applied) ==
  /\ "transient" \in Events
  /\ runs[r].pc \in FailsAt(r) /\ ~applied
  /\ CommitOrAbort(r, [seen[r] EXCEPT !.status = "failed"], "failed", "retry")
  /\ UNCHANGED <<life, njobs, letters, chunks, vectors, pending, queue>>

\* Mutant: the generic handler logs the failure and returns, as the one for
\* StaleDataError does.
TransientIsLogged(r, applied) ==
  /\ "transient" \in Events
  /\ runs[r].pc \in FailsAt(r) /\ ~applied
  /\ Goto(r, "returned")
  /\ UNCHANGED <<life, docs, jobs, njobs, letters, chunks, vectors, pending, queue, seen>>

\* The generic handler; an upsert that failed may have been applied.
TransientFails(r, applied) ==
  /\ "transient" \in Events
  /\ runs[r].pc \in FailsAt(r)
  /\ applied => runs[r].pc = "in_progress"
  /\ vectors' = IF applied THEN [vectors EXCEPT ![runs[r].doc] = @ \cup {r}] ELSE vectors
  /\ LET emb == IF runs[r].pc = "in_progress" THEN "failed" ELSE seen[r].emb
     IN  CommitOrAbort(r, [seen[r] EXCEPT !.emb = emb], runs[r].jobSeen, "retry")
  /\ UNCHANGED <<life, njobs, letters, chunks, pending, queue>>

\* Mutant: the message is published again as it is, so retries never run out.
RetryForever(r) ==
  /\ runs[r].pc = "retry" /\ runs[r].tries < MaxRetries
  /\ queue' = [queue EXCEPT ![runs[r].doc][runs[r].tries] = @ + 1]
  /\ Goto(r, "returned")
  /\ UNCHANGED <<life, docs, jobs, njobs, letters, chunks, vectors, pending, seen>>

\* self.retry publishes the message again with one more retry.
Retry(r) ==
  /\ runs[r].pc = "retry" /\ runs[r].tries < MaxRetries
  /\ queue' = [queue EXCEPT ![runs[r].doc][runs[r].tries + 1] = @ + 1]
  /\ Goto(r, "returned")
  /\ UNCHANGED <<life, docs, jobs, njobs, letters, chunks, vectors, pending, seen>>

\* No retry is left: retry(exc=exc) raises exc itself, which the except clause for
\* MaxRetriesExceededError does not catch, so mark_failed is never called and the
\* task ends.
Exhausted(r) ==
  /\ runs[r].pc = "retry" /\ runs[r].tries = MaxRetries
  /\ Goto(r, "returned")
  /\ UNCHANGED <<life, docs, jobs, njobs, letters, chunks, vectors, pending, queue, seen>>

-----------------------------------------------------------------------------
(* Delivery: acks_late, so a message is acknowledged when its task returns. *)

\* The run is over: its session and its message are forgotten.
End(r) ==
  /\ runs' = [runs EXCEPT ![r] = [IdleRun EXCEPT !.pc = "ended", !.first = runs[r].first]]
  /\ seen' = [seen EXCEPT ![r] = NewRow("none")]

Ack(r) ==
  /\ runs[r].pc = "returned"
  /\ End(r)
  /\ UNCHANGED <<life, docs, jobs, njobs, letters, chunks, vectors, pending, queue>>

Requeued(r) == [queue EXCEPT ![runs[r].doc][runs[r].tries] = @ + 1]

\* The run is cut off and its transaction rolled back.  If the whole worker dies, the
\* message, not acknowledged yet (acks_late), is delivered again, unless it has been.
\* The worker acknowledges it if only the pool process dies, at the hard time limit or
\* otherwise (task_reject_on_worker_lost is not set), or if a database error has left
\* the session unusable for the handler's own commit.
Crash(r) ==
  /\ "crash" \in Events
  /\ runs[r].pc \in Active
  /\ queue' \in IF runs[r].again THEN {queue} ELSE {queue, Requeued(r)}
  /\ End(r)
  /\ UNCHANGED <<life, docs, jobs, njobs, letters, chunks, vectors, pending>>

\* The broker's visibility timeout passes before the run acknowledges (the hard
\* time limit is longer): the message is delivered again while the run goes on.
Redeliver(r) ==
  /\ "redeliver" \in Events
  /\ runs[r].pc \in Active /\ ~runs[r].again
  /\ queue' = Requeued(r)
  /\ runs' = [runs EXCEPT ![r].again = TRUE]
  /\ UNCHANGED <<life, docs, jobs, njobs, letters, chunks, vectors, pending, seen>>

-----------------------------------------------------------------------------
Init ==
  /\ life = [d \in Docs |-> "absent"]
  /\ docs = [d \in Docs |-> NewRow("none")]
  /\ jobs = [j \in Jobs |-> [doc |-> NoDoc, status |-> "queued", stamped |-> FALSE]]
  /\ njobs = 0
  /\ letters = [d \in Docs |-> 0]
  /\ chunks = [d \in Docs |-> {}]
  /\ vectors = [d \in Docs |-> {}]
  /\ pending = [d \in Docs |-> 0]
  /\ queue = [d \in Docs |-> [k \in 0 .. MaxRetries |-> 0]]
  /\ runs = [r \in Runs |-> IdleRun]
  /\ seen = [r \in Runs |-> NewRow("none")]

Client(d) ==
  \/ \E t \in {"none", "user"} : Upload(d, t) \/ UpdateTags(d, t)
  \/ Reprocess(d)
  \/ Delete(d)

\* What a run does on its own.
Work(r) ==
  \/ SetStatus(r)
  \/ \E t \in {"none", "generated"} : GenerateTags(r, t)
  \/ DeleteChunks(r) \/ InsertChunks(r)
  \/ StartEmbedding(r) \/ UpsertVectors(r) \/ FinishEmbedding(r)
  \/ StampJob(r)
  \/ Retry(r) \/ Exhausted(r)
  \/ Ack(r)

\* What happens to a run.
Fault(r) ==
  \/ ParseFails(r)
  \/ \E applied \in BOOLEAN : TransientFails(r, applied)
  \/ Crash(r) \/ Redeliver(r)

Next ==
  \/ \E d \in Docs : Client(d) \/ Enqueue(d) \/ EnqueueFails(d)
  \/ \E r \in Runs, d \in Docs, k \in 0 .. MaxRetries : Deliver(r, d, k)
  \/ \E r \in Runs : Work(r) \/ Fault(r)

Spec == Init /\ [][Next]_vars

\* A client is never obliged to call and nothing has to fail; what the code has
\* started it goes on with: the API process enqueues, the broker delivers, a
\* worker process runs its task to the end.
Fairness ==
  /\ \A d \in Docs : WF_vars(Enqueue(d))
  /\ \A d \in Docs, k \in 0 .. MaxRetries : WF_vars(\E r \in Runs : Deliver(r, d, k))
  /\ \A r \in Runs : WF_vars(Work(r))

FairSpec == Spec /\ Fairness

-----------------------------------------------------------------------------
(* Properties. *)

\* Every variable holds a value of its kind.
TypeOK ==
  /\ life \in [Docs -> {"absent", "live", "deleted"}]
  /\ docs \in [Docs -> DocRow]
  /\ jobs \in [Jobs -> JobRow]
  /\ njobs \in 0 .. MaxJobs
  /\ letters \in [Docs -> Nat]
  /\ chunks \in [Docs -> SUBSET Runs]
  /\ vectors \in [Docs -> SUBSET Runs]
  /\ pending \in [Docs -> Nat]
  /\ queue \in [Docs -> [0 .. MaxRetries -> Nat]]
  /\ runs \in [Runs -> RunRecord]
  /\ seen \in [Runs -> DocRow]

\* Somebody is bound to settle document d: a request about to enqueue it, a message,
\* or a run that has still to write a terminal status or to publish a retry.
Obliged(r) == runs[r].pc \in Working \cup Failing

InHand(d) ==
  \/ pending[d] > 0
  \/ \E k \in 0 .. MaxRetries : queue[d][k] > 0
  \/ \E r \in Runs : runs[r].doc = d /\ Obliged(r)

\* A client sees the document in progress, but nobody is going to go on with it.
Orphaned(d) == life[d] = "live" /\ docs[d].status \notin Terminal /\ ~InHand(d)

\* The steps that give a document up: the broker's error is swallowed, the last retry
\* has failed, or a run is cut off and its message acknowledged.
GivesUp(d) ==
  \/ EnqueueFails(d)
  \/ \E r \in Runs : runs[r].doc = d /\ (Exhausted(r) \/ (Crash(r) /\ queue' = queue))

\* Only these steps leave a document half way: whatever reprocess calls, re-tags,
\* deletes, failures, retries, crashes and second deliveries interleave, no other step
\* of worker_flow.run, the task or _enqueue forgets a document it has not settled.
OrphanedOnlyIfGivenUp ==
  [][\A d \in Docs : Orphaned(d)' => Orphaned(d) \/ GivesUp(d)]_vars

\* A document deleted under a running worker stays deleted: no chunk row and no
\* dead letter of it is ever written again (StaleDataError, foreign keys).
DeletedStaysEmpty ==
  \A d \in Docs : life[d] # "live" => chunks[d] = {} /\ letters[d] = 0

\* Two runs that both ingest a document for the first time never leave both their
\* chunk rows: the flush of content_hash before the DELETE locks the row, so the
\* second DELETE sees what the first has inserted.
FirstRunsExclude ==
  \A d \in Docs : \A g, h \in chunks[d] :
    runs[g].first /\ runs[h].first => g = h

\* A live document has chunk rows exactly when its row says that its file has been
\* chunked and the file yields any: replacing the chunks is one transaction, so no
\* reader and no crash finds the old ones gone and the new ones missing.
ChunksMatchRow ==
  \A d \in Docs : life[d] = "live" => (chunks[d] # {} <=> docs[d].chunked /\ d \in TextDocs)

\* A failed status always comes with its dead letter, for the document and for
\* every job a client can poll.
FailedIsDeadLettered ==
  \A d \in Docs : life[d] = "live" =>
    /\ docs[d].status = "failed" => letters[d] > 0
    /\ \A j \in JobsOf(d) : jobs[j].status = "failed" => letters[d] > 0

\* Where runs do not overlap, a document reported completed is indexed in full, however
\* many attempts failed before: it has chunks, if its file yields any, each with its
\* vectors.  (A file without text completes as well, and is never found.)
CompletedIsIndexed ==
  \A d \in Docs : life[d] = "live" /\ docs[d].status = "completed" =>
    /\ chunks[d] # {} <=> d \in TextDocs
    /\ chunks[d] \subseteq vectors[d] /\ docs[d].emb = "completed"

\* Until a document is reprocessed, the job a client polls shows what the table shows of
\* the document, whichever documents the workers are busy with and whatever fails:
\* _set_status and _dead_letter write both rows in one commit.
JobShowsDocument ==
  \A d \in Docs : (life[d] = "live" /\ Cardinality(JobsOf(d)) = 1) =>
    jobs[LatestJob(d)].status = docs[d].status

\* docs/ingestion-pipeline.md: "Dead-letter: after final failure write
\* ingestion_errors": a run that fails with no retry left leaves a dead letter.
ExhaustionDeadLetters ==
  \A r \in Runs : runs[r].pc = "retry" /\ runs[r].tries = MaxRetries
    ~> \E d \in Docs : d = runs[r].doc /\ (letters[d] > 0 \/ life[d] = "deleted")

-----------------------------------------------------------------------------
(* Promises of comments that the code does not keep; no run states them. *)

\* worker_flow: "persist chunks (idempotent: replace any existing)": the chunk rows
\* of a document come from one run.
OneGeneration ==
  \A d \in Docs : Cardinality(chunks[d]) <= 1

\* worker_flow: tags are generated only "if not doc.tags": a user's tags are never
\* replaced by generated ones.
UserTagsKept ==
  [][\A d \in Docs : docs[d].tags = "user" => docs'[d].tags # "generated"]_vars

\* worker_flow's docstring: a retry "skips steps whose output already exists (tags
\* set, chunks persisted, embeddings done)": where nobody reprocesses, the chunk rows
\* of a live document are not replaced once they are persisted.
PersistedChunksKept ==
  [][\A d \in Docs : chunks[d] # {} /\ life'[d] = "live" => chunks'[d] = chunks[d]]_vars

\* worker.py: "30/90-min timeouts", tasks.py: "retries transient failures": no live
\* document is left in progress with nobody to go on with it.
NoOrphanedDocument == \A d \in Docs : ~Orphaned(d)
=============================================================================
