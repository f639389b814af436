--------------------------- MODULE IngestionProofs ---------------------------
(***************************************************************************)
(* Theorems about Ingestion, for every set of documents and deliveries and  *)
(* every bound.  For every interleaving of clients, runs and faults: type   *)
(* correctness; a deleted document stays empty; only the steps that give a  *)
(* document up leave it half way; the chunk rows match the documents row;   *)
(* every failure has its dead letter; two first runs exclude each other;    *)
(* the job shows the document.  Where runs do not overlap: a completed      *)
(* document is indexed, and the pipeline implements Lifecycle.              *)
(***************************************************************************)
EXTENDS IngestionRefinement, FiniteSetTheorems, TLAPS

-----------------------------------------------------------------------------
(* Type correctness. *)

\* The job that LatestJob chooses exists: documents and jobs are committed together.
LatestExists ==
  \A d \in Docs : life[d] = "live" =>
    \E j \in JobsOf(d) : \A i \in JobsOf(d) : i <= j

\* A run at work has a document.
RunsHaveDocs == \A r \in Runs : runs[r].pc \in Active => runs[r].doc \in Docs

\* The types hold, every live document has a newest job and every run at work a document.
Typed == TypeOK /\ LatestExists /\ RunsHaveDocs

\* A session's update of rows is a row.
LEMMA FlushedTyped ==
  ASSUME TypeOK, NEW r \in Runs, NEW new \in DocRow, NEW d \in Docs
  PROVE  Flushed(d, r, new) \in DocRow
BY DEF Flushed, TypeOK, DocRow

\* A run's record is still one after its place has changed.
LEMMA GotoTyped ==
  ASSUME TypeOK, NEW r \in Runs, NEW p \in Places, Goto(r, p)
  PROVE  runs' \in [Runs -> RunRecord]
BY ZenonT(60) DEF TypeOK, Goto, RunRecord

\* The status that follows is a status and the name of a place.
LEMMA NextStatusTyped ==
  ASSUME NEW p \in DOMAIN NextStatus
  PROVE  /\ NextStatus[p] \in Statuses /\ NextStatus[p] \in Active /\ p \in Active
         /\ p # "finalizing" => NextStatus[p] \in Working
         /\ p = "finalizing" => NextStatus[p] = "completed"
<1>1. NextStatus[p] \in Statuses /\ NextStatus[p] \in Active /\ p \in Active
  BY DEF NextStatus, Statuses, Active, Working
<1>2. p # "finalizing" => NextStatus[p] \in Working
  BY DEF NextStatus, Working
<1>3. NextStatus["finalizing"] = "completed"
  BY DEF NextStatus
<1>4. QED BY <1>1, <1>2, <1>3, Zenon

\* A commit writes rows of their type, and no job changes hands.
LEMMA CommitTyped ==
  ASSUME TypeOK, NEW r \in Runs, NEW new \in DocRow, NEW st \in Statuses, NEW p \in Places,
         Commit(r, new, st, p)
  PROVE  /\ docs' \in [Docs -> DocRow]
         /\ jobs' \in [Jobs -> JobRow]
         /\ seen' \in [Runs -> DocRow]
         /\ runs' \in [Runs -> RunRecord]
         /\ \A i \in Jobs : jobs'[i].doc = jobs[i].doc
<1> DEFINE j == runs[r].job
<1>1. /\ jobs' = [jobs EXCEPT ![j].status = IF st = runs[r].jobSeen THEN @ ELSE st]
      /\ runs' = [runs EXCEPT ![r].pc = p, ![r].jobSeen = st]
  BY DEF Commit
<1>2. docs' \in [Docs -> DocRow]
  BY FlushedTyped DEF Commit, TypeOK
<1>3. \A i \in Jobs : jobs[i] \in JobRow
  BY DEF TypeOK
<1>4. \A i \in Jobs : jobs'[i] \in JobRow /\ jobs'[i].doc = jobs[i].doc
  BY <1>1, <1>3 DEF TypeOK, JobRow
<1>5. jobs' \in [Jobs -> JobRow]
  BY <1>1, <1>4 DEF TypeOK
<1>6. seen' \in [Runs -> DocRow]
  BY DEF Commit, TypeOK
<1>7. runs' \in [Runs -> RunRecord]
  <2>1. runs \in [Runs -> RunRecord] /\ runs[r] \in RunRecord
    BY DEF TypeOK
  <2>2. [runs[r] EXCEPT !.pc = p, !.jobSeen = st] \in RunRecord
    BY <2>1 DEF RunRecord
  <2>3. runs' = [runs EXCEPT ![r] = [runs[r] EXCEPT !.pc = p, !.jobSeen = st]]
    BY <1>1, <2>1
  <2>4. QED BY <2>1, <2>2, <2>3
<1>8. QED BY <1>2, <1>4, <1>5, <1>6, <1>7

\* So does a commit that may find its document gone.
LEMMA CommitOrAbortTyped ==
  ASSUME TypeOK, NEW r \in Runs, NEW new \in DocRow, NEW st \in Statuses, NEW p \in Places,
         CommitOrAbort(r, new, st, p)
  PROVE  /\ docs' \in [Docs -> DocRow]
         /\ jobs' \in [Jobs -> JobRow]
         /\ seen' \in [Runs -> DocRow]
         /\ runs' \in [Runs -> RunRecord]
         /\ \A i \in Jobs : jobs'[i].doc = jobs[i].doc
<1>1. CASE StaleAbort(r, new, st)
  BY <1>1, GotoTyped DEF StaleAbort, TypeOK, Places, Active
<1>2. CASE Commit(r, new, st, p)
  BY <1>2, CommitTyped
<1>3. QED BY <1>1, <1>2 DEF CommitOrAbort

\* The newest job of a live document survives every step that inserts no job.
LEMMA LatestKept ==
  ASSUME TypeOK, LatestExists, njobs' = njobs,
         \A i \in Jobs : jobs'[i].doc = jobs[i].doc,
         \A d \in Docs : life'[d] = "live" => life[d] = "live"
  PROVE  LatestExists'
<1> SUFFICES ASSUME NEW d \in Docs, life'[d] = "live"
             PROVE  (\E j \in JobsOf(d) : \A i \in JobsOf(d) : i <= j)'
  BY DEF LatestExists
<1>1. \A i \in 1 .. njobs : i \in Jobs
  BY MaxJobsAssumption DEF TypeOK, Jobs
<1>2. (JobsOf(d))' = JobsOf(d)
  BY <1>1 DEF JobsOf
<1>3. PICK j \in JobsOf(d) : \A i \in JobsOf(d) : i <= j
  BY DEF LatestExists
<1>4. QED BY <1>2, <1>3

\* A job inserted last is the newest one of its document.
LEMMA LatestInserted ==
  ASSUME TypeOK, LatestExists, NEW d \in Docs, NEW row \in JobRow, row.doc = d,
         njobs < MaxJobs, njobs' = njobs + 1, jobs' = [jobs EXCEPT ![njobs + 1] = row],
         \A e \in Docs : e # d => life'[e] = life[e]
  PROVE  LatestExists'
<1> SUFFICES ASSUME NEW e \in Docs, life'[e] = "live"
             PROVE  (\E j \in JobsOf(e) : \A i \in JobsOf(e) : i <= j)'
  BY DEF LatestExists
<1>1. njobs \in Nat /\ njobs + 1 \in Jobs /\ \A i \in 1 .. njobs : i \in Jobs /\ i # njobs + 1
  BY MaxJobsAssumption DEF TypeOK, Jobs
<1>2. \A i \in 1 .. njobs : jobs'[i] = jobs[i]
  BY <1>1 DEF TypeOK
<1>3. jobs'[njobs + 1] = row
  BY <1>1 DEF TypeOK
<1>4. CASE e = d
  <2>1. njobs + 1 \in (JobsOf(d))'
    BY <1>1, <1>3 DEF JobsOf
  <2>2. \A i \in (JobsOf(d))' : i <= njobs + 1
    BY <1>1 DEF JobsOf
  <2>3. QED BY <1>4, <2>1, <2>2
<1>5. CASE e # d
  <2>1. (JobsOf(e))' = JobsOf(e)
    BY <1>1, <1>2, <1>3, <1>5 DEF JobsOf
  <2>2. PICK j \in JobsOf(e) : \A i \in JobsOf(e) : i <= j
    BY <1>5 DEF LatestExists
  <2>3. QED BY <2>1, <2>2
<1>6. QED BY <1>4, <1>5

\* What LatestJob chooses is a job of the document.
LEMMA LatestTyped ==
  ASSUME TypeOK, LatestExists, NEW d \in Docs, life[d] = "live"
  PROVE  /\ LatestJob(d) \in Jobs
         /\ LatestJob(d) \in JobsOf(d)
         /\ \A i \in JobsOf(d) : i <= LatestJob(d)
<1>1. \E j \in JobsOf(d) : \A i \in JobsOf(d) : i <= j
  BY DEF LatestExists
<1>2. LatestJob(d) \in JobsOf(d) /\ \A i \in JobsOf(d) : i <= LatestJob(d)
  BY <1>1 DEF LatestJob
<1>3. QED BY <1>2, MaxJobsAssumption DEF JobsOf, TypeOK, Jobs

\* Runs and rows of documents in the initial state.
LEMMA NewRowTyped ==
  ASSUME NEW t \in TagSets
  PROVE  NewRow(t) \in DocRow
BY DEF NewRow, DocRow, TagSets, Statuses, EmbeddingStatuses

\* The record of a run before its first and after its last step.
LEMMA IdleRunTyped == IdleRun \in RunRecord
BY RetriesAssumption DEF IdleRun, RunRecord, Places, Statuses

\* No document and no run exists at first.
LEMMA TypedInit == Init => Typed
<1> SUFFICES ASSUME Init PROVE Typed
  OBVIOUS
<1>1. TypeOK
  BY NewRowTyped, IdleRunTyped, MaxJobsAssumption
     DEF Init, TypeOK, JobRow, Statuses, TagSets
<1>2. LatestExists
  BY DEF Init, LatestExists
<1>3. RunsHaveDocs
  BY DEF Init, RunsHaveDocs, IdleRun, Active, Working, Failing
<1>4. QED BY <1>1, <1>2, <1>3 DEF Typed

\* A message more, or one less, in a queue that has one.
LEMMA QueueTyped ==
  ASSUME TypeOK, NEW d \in Docs, NEW k \in 0 .. MaxRetries,
         \/ queue' = [queue EXCEPT ![d][k] = @ + 1]
         \/ queue[d][k] > 0 /\ queue' = [queue EXCEPT ![d][k] = @ - 1]
  PROVE  queue' \in [Docs -> [0 .. MaxRetries -> Nat]]
<1>1. queue[d] \in [0 .. MaxRetries -> Nat] /\ queue[d][k] \in Nat
  BY RetriesAssumption DEF TypeOK
<1>2. PICK n \in Nat : queue' = [queue EXCEPT ![d] = [@ EXCEPT ![k] = n]]
  <2>1. CASE queue' = [queue EXCEPT ![d][k] = @ + 1]
    <3>1. queue[d][k] + 1 \in Nat
      BY <1>1
    <3>2. QED BY <2>1, <3>1
  <2>2. CASE queue[d][k] > 0 /\ queue' = [queue EXCEPT ![d][k] = @ - 1]
    <3>1. queue[d][k] - 1 \in Nat
      BY <1>1, <2>2
    <3>2. QED BY <2>2, <3>1
  <2>3. QED BY <2>1, <2>2
<1>3. [queue[d] EXCEPT ![k] = n] \in [0 .. MaxRetries -> Nat]
  BY <1>1
<1>4. QED BY <1>2, <1>3 DEF TypeOK

\* What a client does.
LEMMA TypedClient ==
  ASSUME Typed, NEW d \in Docs, Client(d)
  PROVE  Typed'
<1> USE DEF Typed
<1>1. CASE \E t \in {"none", "user"} : Upload(d, t)
  <2>1. PICK t \in TagSets : Upload(d, t)
    BY <1>1 DEF TagSets
  <2> DEFINE row == [doc |-> d, status |-> "queued", stamped |-> FALSE]
  <2>2. row \in JobRow
    BY DEF JobRow, Statuses
  <2>3. LatestExists'
    BY <2>1, <2>2, LatestInserted DEF Upload, TypeOK
  <2>4. TypeOK'
    <3>1. njobs' \in 0 .. MaxJobs /\ njobs + 1 \in Jobs
      BY <2>1, MaxJobsAssumption DEF Upload, TypeOK, Jobs
    <3>2. jobs' \in [Jobs -> JobRow]
      BY <2>1, <2>2 DEF Upload, TypeOK
    <3>3. docs' \in [Docs -> DocRow]
      BY <2>1, NewRowTyped DEF Upload, TypeOK
    <3>4. life' \in [Docs -> {"absent", "live", "deleted"}] /\ pending' \in [Docs -> Nat]
      BY <2>1 DEF Upload, TypeOK
    <3>5. QED BY <2>1, <3>1, <3>2, <3>3, <3>4 DEF Upload, TypeOK
  <2>5. RunsHaveDocs'
    BY <2>1 DEF Upload, RunsHaveDocs
  <2>6. QED BY <2>3, <2>4, <2>5
<1>2. CASE \E t \in {"none", "user"} : UpdateTags(d, t)
  <2>1. PICK t \in TagSets : UpdateTags(d, t)
    BY <1>2 DEF TagSets
  <2>2. docs' \in [Docs -> DocRow]
    BY <2>1 DEF UpdateTags, TypeOK, DocRow
  <2>3. TypeOK'
    BY <2>1, <2>2 DEF UpdateTags, TypeOK
  <2>4. LatestExists'
    BY <2>1, LatestKept DEF UpdateTags
  <2>5. RunsHaveDocs'
    BY <2>1 DEF UpdateTags, RunsHaveDocs
  <2>6. QED BY <2>3, <2>4, <2>5
<1>3. CASE Reprocess(d)
  <2> DEFINE row == [doc |-> d, status |-> "queued", stamped |-> FALSE]
  <2>1. row \in JobRow
    BY DEF JobRow, Statuses
  <2>2. LatestExists'
    BY <1>3, <2>1, LatestInserted DEF Reprocess, TypeOK
  <2>3. docs' \in [Docs -> DocRow]
    <3>1. PICK st \in {"queued", docs[d].status} : docs' = [docs EXCEPT ![d].status = st]
      BY <1>3 DEF Reprocess
    <3>2. docs[d] \in DocRow /\ st \in Statuses
      BY DEF TypeOK, DocRow, Statuses
    <3>3. [docs[d] EXCEPT !.status = st] \in DocRow
      BY <3>2 DEF DocRow
    <3>4. QED BY <3>1, <3>3 DEF TypeOK
  <2>4. TypeOK'
    <3>1. njobs' \in 0 .. MaxJobs /\ njobs + 1 \in Jobs
      BY <1>3, MaxJobsAssumption DEF Reprocess, TypeOK, Jobs
    <3>2. jobs' \in [Jobs -> JobRow]
      BY <1>3, <2>1 DEF Reprocess, TypeOK
    <3>3. pending' \in [Docs -> Nat]
      BY <1>3 DEF Reprocess, TypeOK
    <3>4. QED BY <1>3, <2>3, <3>1, <3>2, <3>3 DEF Reprocess, TypeOK
  <2>5. RunsHaveDocs'
    BY <1>3 DEF Reprocess, RunsHaveDocs
  <2>6. QED BY <2>2, <2>4, <2>5
<1>4. CASE Delete(d)
  <2>1. /\ NewRow("none") \in DocRow
        /\ life' \in [Docs -> {"absent", "live", "deleted"}]
        /\ docs' \in [Docs -> DocRow]
    BY <1>4, NewRowTyped DEF Delete, TypeOK, TagSets
  <2>2. TypeOK'
    BY <1>4, <2>1 DEF Delete, TypeOK
  <2>3. LatestExists'
    BY <1>4, LatestKept DEF Delete, TypeOK
  <2>4. RunsHaveDocs'
    BY <1>4 DEF Delete, RunsHaveDocs
  <2>5. QED BY <2>2, <2>3, <2>4
<1>5. QED BY <1>1, <1>2, <1>3, <1>4 DEF Client

\* The API enqueues, the broker delivers.
LEMMA TypedQueue ==
  ASSUME Typed, NEW d \in Docs,
         \/ Enqueue(d) \/ EnqueueFails(d)
         \/ \E r \in Runs, k \in 0 .. MaxRetries : Deliver(r, d, k)
  PROVE  Typed'
<1> USE DEF Typed
<1>1. CASE Enqueue(d)
  <2>1. queue' \in [Docs -> [0 .. MaxRetries -> Nat]]
    <3>1. 0 \in 0 .. MaxRetries /\ queue' = [queue EXCEPT ![d][0] = @ + 1]
      BY <1>1, RetriesAssumption DEF Enqueue
    <3>2. QED BY <3>1, QueueTyped
  <2>2. TypeOK'
    BY <1>1, <2>1 DEF Enqueue, TypeOK
  <2>3. LatestExists'
    BY <1>1, LatestKept DEF Enqueue
  <2>4. RunsHaveDocs'
    BY <1>1 DEF Enqueue, RunsHaveDocs
  <2>5. QED BY <2>2, <2>3, <2>4
<1>2. CASE EnqueueFails(d)
  <2>1. TypeOK'
    BY <1>2 DEF EnqueueFails, TypeOK
  <2>2. LatestExists'
    BY <1>2, LatestKept DEF EnqueueFails
  <2>3. RunsHaveDocs'
    BY <1>2 DEF EnqueueFails, RunsHaveDocs
  <2>4. QED BY <2>1, <2>2, <2>3
<1>3. CASE \E r \in Runs, k \in 0 .. MaxRetries : Deliver(r, d, k)
  <2>1. PICK r \in Runs, k \in 0 .. MaxRetries : Deliver(r, d, k)
    BY <1>3
  <2>2. queue' \in [Docs -> [0 .. MaxRetries -> Nat]]
    <3>1. queue[d][k] > 0 /\ queue' = [queue EXCEPT ![d][k] = @ - 1]
      BY <2>1 DEF Deliver
    <3>2. QED BY <3>1, QueueTyped
  <2>3. CASE life[d] = "live"
    <3> DEFINE rec == [IdleRun EXCEPT !.doc = d, !.tries = k, !.pc = "loaded",
                         !.job = LatestJob(d), !.jobSeen = jobs[LatestJob(d)].status]
    <3>1. LatestJob(d) \in Jobs /\ jobs[LatestJob(d)].status \in Statuses
      BY <2>3, LatestTyped DEF TypeOK, JobRow
    <3>2. rec \in RunRecord
      BY <3>1, IdleRunTyped DEF IdleRun, RunRecord, Places, Active, Working
    <3>3. seen' = [seen EXCEPT ![r] = docs[d]] /\ runs' = [runs EXCEPT ![r] = rec]
      BY <2>1, <2>3 DEF Deliver
    <3>4. rec.doc = d
      BY DEF IdleRun
    <3> HIDE DEF rec
    <3>5. TypeOK'
      BY <2>1, <2>2, <3>2, <3>3 DEF Deliver, TypeOK
    <3>6. RunsHaveDocs'
      BY <3>3, <3>4 DEF RunsHaveDocs, TypeOK
    <3>7. LatestExists'
      BY <2>1, LatestKept DEF Deliver
    <3>8. QED BY <3>5, <3>6, <3>7
  <2>4. CASE life[d] # "live"
    <3> DEFINE rec == [IdleRun EXCEPT !.doc = d, !.tries = k, !.pc = "returned"]
    <3>1. rec \in RunRecord
      BY IdleRunTyped DEF IdleRun, RunRecord, Places, Active, Working
    <3>2. seen' = seen /\ runs' = [runs EXCEPT ![r] = rec]
      BY <2>1, <2>4 DEF Deliver
    <3>3. rec.doc = d
      BY DEF IdleRun
    <3> HIDE DEF rec
    <3>4. TypeOK'
      BY <2>1, <2>2, <3>1, <3>2 DEF Deliver, TypeOK
    <3>5. RunsHaveDocs'
      BY <3>2, <3>3 DEF RunsHaveDocs, TypeOK
    <3>6. LatestExists'
      BY <2>1, LatestKept DEF Deliver
    <3>7. QED BY <3>4, <3>5, <3>6
  <2>5. QED BY <2>3, <2>4
<1>4. QED BY <1>1, <1>2, <1>3

\* A step of run r: it has a document, keeps it or ends, and no other run moves.
Moves(r) ==
  /\ runs[r].pc \in Active
  /\ \A q \in Runs \ {r} : runs'[q] = runs[q]
  /\ runs'[r].doc = runs[r].doc \/ runs'[r].pc = "ended"

\* Such a step leaves every run at work its document.
LEMMA MovesKeepsDocs ==
  ASSUME RunsHaveDocs, NEW r \in Runs, Moves(r)
  PROVE  RunsHaveDocs'
<1>1. "ended" \notin Active
  BY DEF Active, Working, Failing
<1>2. QED BY <1>1 DEF Moves, RunsHaveDocs

\* A step that only changes the place of a run is one,
LEMMA GotoMoves ==
  ASSUME TypeOK, NEW r \in Runs, NEW p \in Places, Goto(r, p), runs[r].pc \in Active
  PROVE  Moves(r)
BY DEF TypeOK, Goto, Moves, RunRecord

\* so is a commit, whether or not its document is still there,
LEMMA CommitMoves ==
  ASSUME TypeOK, NEW r \in Runs, NEW new \in DocRow, NEW st \in Statuses, NEW p \in Places,
         CommitOrAbort(r, new, st, p), runs[r].pc \in Active
  PROVE  Moves(r)
<1>1. CASE StaleAbort(r, new, st)
  BY <1>1, GotoMoves DEF StaleAbort, Places, Active
<1>2. CASE Commit(r, new, st, p)
  <2>1. runs' = [runs EXCEPT ![r].pc = p, ![r].jobSeen = st]
    BY <1>2 DEF Commit
  <2>2. QED BY <2>1 DEF Moves, TypeOK, RunRecord
<1>3. QED BY <1>1, <1>2 DEF CommitOrAbort

\* and so is the end of a run.
LEMMA EndMoves ==
  ASSUME TypeOK, NEW r \in Runs, End(r), runs[r].pc \in Active
  PROVE  /\ Moves(r)
         /\ runs' \in [Runs -> RunRecord]
         /\ seen' \in [Runs -> DocRow]
<1> DEFINE rec == [IdleRun EXCEPT !.pc = "ended", !.first = runs[r].first]
<1>1. rec \in RunRecord /\ rec.pc = "ended"
  BY IdleRunTyped DEF IdleRun, RunRecord, Places, TypeOK
<1>2. runs' = [runs EXCEPT ![r] = rec] /\ seen' = [seen EXCEPT ![r] = NewRow("none")]
  BY DEF End
<1>3. NewRow("none") \in DocRow
  BY NewRowTyped DEF TagSets
<1> HIDE DEF rec
<1>4. QED BY <1>1, <1>2, <1>3 DEF Moves, TypeOK

\* A session's copy with one column replaced is still a row.
LEMMA RowTyped ==
  ASSUME TypeOK, NEW r \in Runs
  PROVE  /\ \A s \in Statuses : [seen[r] EXCEPT !.status = s] \in DocRow
         /\ \A t \in TagSets : [seen[r] EXCEPT !.tags = t] \in DocRow
         /\ \A e \in EmbeddingStatuses : [seen[r] EXCEPT !.emb = e] \in DocRow
         /\ seen[r] \in DocRow /\ runs[r] \in RunRecord /\ runs[r].jobSeen \in Statuses
BY DEF TypeOK, DocRow, RunRecord

\* What a step of a run writes: rows of their type, the document and the job keep
\* their names, and the run moves.
Writes(r) ==
  /\ docs' \in [Docs -> DocRow]
  /\ jobs' \in [Jobs -> JobRow]
  /\ seen' \in [Runs -> DocRow]
  /\ runs' \in [Runs -> RunRecord]
  /\ \A i \in Jobs : jobs'[i].doc = jobs[i].doc
  /\ Moves(r)

\* A commit writes such rows,
LEMMA CommitWrites ==
  ASSUME TypeOK, NEW r \in Runs, NEW new \in DocRow, NEW st \in Statuses, NEW p \in Places,
         CommitOrAbort(r, new, st, p), runs[r].pc \in Active
  PROVE  Writes(r)
BY CommitOrAbortTyped, CommitMoves DEF Writes

\* and so does a step that changes the place of a run only.
LEMMA GotoWrites ==
  ASSUME TypeOK, NEW r \in Runs, NEW p \in Places, Goto(r, p), runs[r].pc \in Active,
         UNCHANGED <<docs, jobs, seen>>
  PROVE  Writes(r)
BY GotoTyped, GotoMoves DEF Writes, TypeOK

\* _dead_letter writes such rows.
LEMMA DeadLetterWrites ==
  ASSUME Typed, NEW r \in Runs, DeadLetter(r), runs[r].pc \in Active
  PROVE  Writes(r) /\ letters' \in [Docs -> Nat]
<1> DEFINE new == [seen[r] EXCEPT !.status = "failed"]
<1>1. new \in DocRow /\ "failed" \in Statuses /\ "returned" \in Places
  BY RowTyped DEF Typed, Statuses, Places, Active
<1>2. CASE /\ Commit(r, new, "failed", "returned")
           /\ letters' = [letters EXCEPT ![runs[r].doc] = @ + 1]
  <2>1. Writes(r)
    BY <1>1, <1>2, CommitWrites DEF Typed, CommitOrAbort
  <2>2. letters' \in [Docs -> Nat]
    BY <1>2 DEF Typed, TypeOK, RunsHaveDocs
  <2>3. QED BY <2>1, <2>2
<1>3. CASE Goto(r, "returned") /\ UNCHANGED <<docs, jobs, seen, letters>>
  BY <1>1, <1>3, GotoWrites DEF Typed, TypeOK
<1>4. QED BY <1>2, <1>3 DEF DeadLetter

\* What a run does on its own, action by action.
LEMMA WorkWrites ==
  ASSUME Typed, NEW r \in Runs, Work(r)
  PROVE  /\ Writes(r)
         /\ letters' \in [Docs -> Nat]
         /\ chunks' \in [Docs -> SUBSET Runs]
         /\ vectors' \in [Docs -> SUBSET Runs]
         /\ queue' \in [Docs -> [0 .. MaxRetries -> Nat]]
         /\ UNCHANGED <<life, njobs, pending>>
<1> USE DEF Typed
<1>1. CASE SetStatus(r)
  <2> DEFINE s == NextStatus[runs[r].pc]
  <2>1. s \in Statuses /\ s \in Places /\ runs[r].pc \in Active
    BY <1>1, NextStatusTyped DEF SetStatus, Places
  <2>2. [seen[r] EXCEPT !.status = s] \in DocRow
    BY <2>1, RowTyped
  <2>3. CommitOrAbort(r, [seen[r] EXCEPT !.status = s], s, s)
    BY <1>1 DEF SetStatus
  <2>4. Writes(r)
    BY <2>1, <2>2, <2>3, CommitWrites
  <2>5. QED BY <1>1, <2>4 DEF SetStatus, TypeOK
<1>2. CASE \E t \in {"none", "generated"} : GenerateTags(r, t)
  <2>1. PICK t \in TagSets : GenerateTags(r, t)
    BY <1>2 DEF TagSets
  <2>2. [seen[r] EXCEPT !.tags = t] \in DocRow /\ runs[r].jobSeen \in Statuses
    BY RowTyped
  <2>3. "tagged" \in Places /\ runs[r].pc \in Active
    BY <2>1 DEF GenerateTags, Places, Active, Working
  <2>4. Writes(r)
    BY <2>1, <2>2, <2>3, CommitWrites DEF GenerateTags
  <2>5. QED BY <2>1, <2>4 DEF GenerateTags, TypeOK
<1>3. CASE DeleteChunks(r)
  <2> DEFINE old == chunks[runs[r].doc]
             first == HashIsNew(r)
             rec == [runs[r] EXCEPT !.pc = "replacing", !.old = old, !.first = first]
  <2>1. runs[r].pc \in Active /\ runs[r].doc \in Docs
    BY <1>3 DEF DeleteChunks, RunsHaveDocs, Active, Working
  <2>2. old \in SUBSET Runs /\ first \in BOOLEAN /\ "replacing" \in Places
    BY <2>1 DEF TypeOK, Places, Active, Working, HashIsNew
  <2>3. rec \in RunRecord /\ rec.doc = runs[r].doc
    <3>1. runs[r] \in RunRecord
      BY DEF TypeOK
    <3> HIDE DEF old, first
    <3>2. QED BY <2>2, <3>1 DEF RunRecord
  <2>4. CASE runs' = [runs EXCEPT ![r] = rec]
    <3> HIDE DEF rec
    <3>1. Moves(r) /\ runs' \in [Runs -> RunRecord]
      BY <2>1, <2>3, <2>4 DEF Moves, TypeOK
    <3>2. QED BY <1>3, <3>1 DEF DeleteChunks, Writes, TypeOK
  <2>5. CASE Goto(r, "returned")
    <3>1. Writes(r)
      BY <1>3, <2>1, <2>5, GotoWrites DEF DeleteChunks, Places, Active
    <3>2. QED BY <1>3, <3>1 DEF DeleteChunks, TypeOK
  <2>6. QED BY <1>3, <2>4, <2>5 DEF DeleteChunks
<1>4. CASE InsertChunks(r)
  <2>1. runs[r].pc \in Active /\ runs[r].doc \in Docs
    BY <1>4 DEF InsertChunks, RunsHaveDocs, Active, Working
  <2>2. Moves(r) /\ runs' \in [Runs -> RunRecord]
    <3>1. PICK p \in {"persisted", "returned"} : Goto(r, p)
      BY <1>4 DEF InsertChunks
    <3>2. p \in Places
      BY DEF Places, Active, Working
    <3>3. QED BY <2>1, <3>1, <3>2, GotoMoves, GotoTyped
  <2>3. docs' \in [Docs -> DocRow]
    <3>1. docs' = docs \/ docs' = [docs EXCEPT ![runs[r].doc].chunked = TRUE]
      BY <1>4 DEF InsertChunks
    <3>2. docs[runs[r].doc] \in DocRow
      BY <2>1 DEF TypeOK
    <3>3. [docs[runs[r].doc] EXCEPT !.chunked = TRUE] \in DocRow
      BY <3>2 DEF DocRow
    <3>4. QED BY <3>1, <3>3 DEF TypeOK
  <2>4. seen' \in [Runs -> DocRow]
    <3>1. seen' = seen \/ seen' = [seen EXCEPT ![r].chunked = TRUE]
      BY <1>4 DEF InsertChunks
    <3>2. seen[r] \in DocRow
      BY DEF TypeOK
    <3>3. [seen[r] EXCEPT !.chunked = TRUE] \in DocRow
      BY <3>2 DEF DocRow
    <3>4. QED BY <3>1, <3>3 DEF TypeOK
  <2>5. chunks' \in [Docs -> SUBSET Runs]
    <3> DEFINE new == (chunks[runs[r].doc] \ runs[r].old) \cup Yield(r)
    <3>1. new \in SUBSET Runs
      BY <2>1 DEF TypeOK, Yield
    <3>2. chunks' = chunks \/ chunks' = [chunks EXCEPT ![runs[r].doc] = new]
      BY <1>4 DEF InsertChunks
    <3> HIDE DEF new
    <3>3. QED BY <3>1, <3>2 DEF TypeOK
  <2>6. QED BY <1>4, <2>2, <2>3, <2>4, <2>5 DEF InsertChunks, Writes, TypeOK
<1>5. CASE StartEmbedding(r)
  <2>1. /\ [seen[r] EXCEPT !.emb = "in_progress"] \in DocRow /\ runs[r].jobSeen \in Statuses
        /\ "in_progress" \in Places /\ runs[r].pc \in Active
    BY <1>5, RowTyped DEF StartEmbedding, EmbeddingStatuses, Places, Active, Working
  <2>2. Writes(r)
    BY <1>5, <2>1, CommitWrites DEF StartEmbedding
  <2>3. QED BY <1>5, <2>2 DEF StartEmbedding, TypeOK
<1>6. CASE UpsertVectors(r)
  <2>1. /\ runs[r].pc \in Active /\ runs[r].doc \in Docs /\ "upserted" \in Places
    BY <1>6 DEF UpsertVectors, RunsHaveDocs, Places, Active, Working
  <2>2. Writes(r)
    BY <1>6, <2>1, GotoWrites DEF UpsertVectors
  <2>3. vectors' \in [Docs -> SUBSET Runs]
    <3> DEFINE new == vectors[runs[r].doc] \cup Yield(r)
    <3>1. new \in SUBSET Runs
      BY <2>1 DEF TypeOK, Yield
    <3>2. vectors' = [vectors EXCEPT ![runs[r].doc] = new]
      BY <1>6 DEF UpsertVectors
    <3> HIDE DEF new
    <3>3. QED BY <3>1, <3>2 DEF TypeOK
  <2>4. QED BY <1>6, <2>2, <2>3 DEF UpsertVectors, TypeOK
<1>7. CASE FinishEmbedding(r)
  <2>1. /\ [seen[r] EXCEPT !.emb = "completed"] \in DocRow /\ runs[r].jobSeen \in Statuses
        /\ "embedded" \in Places /\ runs[r].pc \in Active
    BY <1>7, RowTyped DEF FinishEmbedding, EmbeddingStatuses, Places, Active, Working
  <2>2. Writes(r)
    BY <1>7, <2>1, CommitWrites DEF FinishEmbedding
  <2>3. QED BY <1>7, <2>2 DEF FinishEmbedding, TypeOK
<1>8. CASE StampJob(r)
  <2>1. runs[r].pc \in Active /\ "returned" \in Places
    BY <1>8 DEF StampJob, Places, Active
  <2>2. Moves(r) /\ runs' \in [Runs -> RunRecord]
    BY <1>8, <2>1, GotoMoves, GotoTyped DEF StampJob
  <2>3. \A i \in Jobs : jobs[i] \in JobRow
    BY DEF TypeOK
  <2>4. \A i \in Jobs : jobs'[i] \in JobRow /\ jobs'[i].doc = jobs[i].doc
    BY <1>8, <2>3 DEF StampJob, TypeOK, JobRow
  <2>5. jobs' \in [Jobs -> JobRow]
    BY <1>8, <2>4 DEF StampJob, TypeOK
  <2>6. QED BY <1>8, <2>2, <2>4, <2>5 DEF StampJob, Writes, TypeOK
<1>9. CASE Retry(r)
  <2>1. /\ runs[r].pc \in Active /\ runs[r].doc \in Docs /\ "returned" \in Places
        /\ runs[r].tries + 1 \in 0 .. MaxRetries
    BY <1>9, RetriesAssumption
       DEF Retry, RunsHaveDocs, Places, Active, Failing, TypeOK, RunRecord
  <2>2. Writes(r)
    BY <1>9, <2>1, GotoWrites DEF Retry
  <2>3. queue' = [queue EXCEPT ![runs[r].doc][runs[r].tries + 1] = @ + 1]
    BY <1>9 DEF Retry
  <2>4. queue' \in [Docs -> [0 .. MaxRetries -> Nat]]
    BY <2>1, <2>3, QueueTyped
  <2>5. QED BY <1>9, <2>2, <2>4 DEF Retry, TypeOK
<1>10. CASE Exhausted(r)
  <2>1. runs[r].pc \in Active /\ "returned" \in Places
    BY <1>10 DEF Exhausted, Places, Active, Failing
  <2>2. Writes(r)
    BY <1>10, <2>1, GotoWrites DEF Exhausted
  <2>3. QED BY <1>10, <2>2 DEF Exhausted, TypeOK
<1>11. CASE Ack(r)
  <2>1. runs[r].pc \in Active
    BY <1>11 DEF Ack, Active
  <2>2. QED BY <1>11, <2>1, EndMoves DEF Ack, Writes, TypeOK
<1>12. QED
  BY <1>1, <1>2, <1>3, <1>4, <1>5, <1>6, <1>7, <1>8, <1>9, <1>10, <1>11 DEF Work

\* An attempt fails in the middle of a run, embedding only if there is something to embed.
LEMMA PlacesOfFailure ==
  ASSUME NEW r \in Runs, runs[r].pc \in FailsAt(r)
  PROVE  /\ runs[r].pc \in {"processing", "parsing", "chunking", "in_progress"}
         /\ runs[r].pc \in Working
         /\ runs[r].pc = "in_progress" => Yield(r) # {}
BY DEF FailsAt, Working

\* What happens to a run, fault by fault.
LEMMA FaultWrites ==
  ASSUME Typed, NEW r \in Runs, Fault(r)
  PROVE  /\ Writes(r)
         /\ letters' \in [Docs -> Nat]
         /\ vectors' \in [Docs -> SUBSET Runs]
         /\ queue' \in [Docs -> [0 .. MaxRetries -> Nat]]
         /\ UNCHANGED <<life, njobs, chunks, pending>>
<1> USE DEF Typed
<1>1. CASE ParseFails(r)
  <2>1. runs[r].pc \in Active /\ DeadLetter(r)
    BY <1>1 DEF ParseFails, Active, Working
  <2>2. QED BY <2>1, DeadLetterWrites DEF DeadLetter, TypeOK
<1>2. CASE \E applied \in BOOLEAN : TransientFails(r, applied)
  <2>1. PICK applied \in BOOLEAN : TransientFails(r, applied)
    BY <1>2
  <2> DEFINE emb == IF runs[r].pc = "in_progress" THEN "failed" ELSE seen[r].emb
  <2>2. emb \in EmbeddingStatuses
    BY DEF TypeOK, DocRow, EmbeddingStatuses
  <2>3. runs[r].pc \in Active /\ runs[r].doc \in Docs /\ "retry" \in Places
    BY <2>1, PlacesOfFailure DEF TransientFails, RunsHaveDocs, Places, Active, Working, Failing
  <2>4. CommitOrAbort(r, [seen[r] EXCEPT !.emb = emb], runs[r].jobSeen, "retry")
    BY <2>1 DEF TransientFails
  <2> HIDE DEF emb
  <2>5. [seen[r] EXCEPT !.emb = emb] \in DocRow /\ runs[r].jobSeen \in Statuses
    BY <2>2, RowTyped
  <2>6. Writes(r)
    BY <2>3, <2>4, <2>5, CommitWrites
  <2>7. vectors' \in [Docs -> SUBSET Runs]
    <3> DEFINE new == vectors[runs[r].doc] \cup {r}
    <3>1. new \in SUBSET Runs
      BY <2>3 DEF TypeOK
    <3>2. vectors' = vectors \/ vectors' = [vectors EXCEPT ![runs[r].doc] = new]
      BY <2>1 DEF TransientFails
    <3> HIDE DEF new
    <3>3. QED BY <3>1, <3>2 DEF TypeOK
  <2>8. QED BY <2>1, <2>6, <2>7 DEF TransientFails, TypeOK
<1>3. runs[r].pc \in Active => /\ runs[r].doc \in Docs /\ runs[r].tries \in 0 .. MaxRetries
                              /\ Requeued(r) \in [Docs -> [0 .. MaxRetries -> Nat]]
  <2> SUFFICES ASSUME runs[r].pc \in Active
               PROVE  /\ runs[r].doc \in Docs /\ runs[r].tries \in 0 .. MaxRetries
                      /\ Requeued(r) \in [Docs -> [0 .. MaxRetries -> Nat]]
    OBVIOUS
  <2>1. runs[r].doc \in Docs /\ runs[r].tries \in 0 .. MaxRetries
    BY DEF RunsHaveDocs, TypeOK, RunRecord
  <2> DEFINE d == runs[r].doc
             k == runs[r].tries
  <2>2. queue[d] \in [0 .. MaxRetries -> Nat] /\ queue[d][k] + 1 \in Nat
    BY <2>1, RetriesAssumption, SMTT(30) DEF TypeOK
  <2> HIDE DEF d, k
  <2>3. [queue[d] EXCEPT ![k] = queue[d][k] + 1] \in [0 .. MaxRetries -> Nat]
    BY <2>2
  <2>4. [queue EXCEPT ![d][k] = @ + 1] \in [Docs -> [0 .. MaxRetries -> Nat]]
    BY <2>3 DEF TypeOK
  <2>5. QED BY <2>1, <2>4 DEF Requeued, d, k
<1>4. CASE Crash(r)
  <2>1. runs[r].pc \in Active /\ End(r)
    BY <1>4 DEF Crash
  <2>2. queue' \in [Docs -> [0 .. MaxRetries -> Nat]]
    BY <1>3, <1>4 DEF Crash, TypeOK
  <2>3. QED BY <1>4, <2>1, <2>2, EndMoves DEF Crash, Writes, TypeOK
<1>5. CASE Redeliver(r)
  <2>1. runs[r].pc \in Active /\ runs' = [runs EXCEPT ![r].again = TRUE]
    BY <1>5 DEF Redeliver
  <2>2. queue' \in [Docs -> [0 .. MaxRetries -> Nat]]
    BY <1>3, <1>5 DEF Redeliver
  <2>3. runs' \in [Runs -> RunRecord]
    BY <2>1, ZenonT(60) DEF TypeOK, RunRecord
  <2>4. Moves(r)
    BY <2>1 DEF Moves, TypeOK, RunRecord
  <2>5. QED BY <1>5, <2>2, <2>3, <2>4 DEF Redeliver, Writes, TypeOK
<1>6. QED
  BY <1>1, <1>2, <1>4, <1>5 DEF Fault

\* Every step keeps the types, and every live document its newest job.
LEMMA TypedStep ==
  ASSUME Typed, [Next]_vars
  PROVE  Typed'
<1>1. CASE \E r \in Runs : Work(r) \/ Fault(r)
  <2>1. PICK r \in Runs : Work(r) \/ Fault(r)
    BY <1>1
  <2>2. /\ Writes(r)
        /\ letters' \in [Docs -> Nat]
        /\ chunks' \in [Docs -> SUBSET Runs]
        /\ vectors' \in [Docs -> SUBSET Runs]
        /\ queue' \in [Docs -> [0 .. MaxRetries -> Nat]]
        /\ UNCHANGED <<life, njobs, pending>>
    BY <2>1, WorkWrites, FaultWrites DEF Typed, TypeOK
  <2>3. TypeOK'
    BY <2>2 DEF Writes, Typed, TypeOK
  <2>4. LatestExists'
    BY <2>2, LatestKept DEF Writes, Typed
  <2>5. RunsHaveDocs'
    BY <2>2, MovesKeepsDocs DEF Writes, Typed
  <2>6. QED BY <2>3, <2>4, <2>5 DEF Typed
<1>2. CASE UNCHANGED vars
  BY <1>2 DEF vars, Typed, TypeOK, LatestExists, JobsOf, RunsHaveDocs
<1>3. QED BY <1>1, <1>2, TypedClient, TypedQueue DEF Next

\* Every variable of the pipeline keeps its type, whatever clients and faults do: in
\* particular a run only ever writes the rows of a document and a job that exist.
THEOREM TypeCorrect == Spec => []TypeOK
<1>1. Typed => TypeOK
  BY DEF Typed
<1>2. QED BY <1>1, TypedInit, TypedStep, PTL DEF Spec

\* In every reachable state the types hold and every live document has a job.
LEMMA TypedAlways == Spec => []Typed
BY TypedInit, TypedStep, PTL DEF Spec

-----------------------------------------------------------------------------
(* A deleted document stays empty. *)

\* A dead letter is written for a live document only.
LEMMA DeadLetterLive ==
  ASSUME Typed, NEW r \in Runs, DeadLetter(r), runs[r].pc \in Active,
         NEW d \in Docs, life[d] # "live"
  PROVE  letters'[d] = letters[d]
<1>1. CASE letters' = letters
  BY <1>1
<1>2. CASE /\ life[runs[r].doc] = "live"
           /\ letters' = [letters EXCEPT ![runs[r].doc] = @ + 1]
  BY <1>2 DEF Typed, TypeOK
<1>3. QED BY <1>1, <1>2 DEF DeadLetter

\* No step writes a chunk row or a dead letter of a document that is not live.
LEMMA DeletedStep ==
  ASSUME Typed, DeletedStaysEmpty, [Next]_vars
  PROVE  DeletedStaysEmpty'
<1> SUFFICES ASSUME NEW d \in Docs, life'[d] # "live"
             PROVE  chunks'[d] = {} /\ letters'[d] = 0
  BY DEF DeletedStaysEmpty
<1>1. CASE \E e \in Docs : Client(e)
  <2>1. PICK e \in Docs : Client(e)
    BY <1>1
  <2>2. CASE Delete(e)
    BY <2>2 DEF Delete, Typed, TypeOK, DeletedStaysEmpty
  <2>3. CASE \E t \in {"none", "user"} : Upload(e, t)
    BY <2>3 DEF Upload, Typed, TypeOK, DeletedStaysEmpty
  <2>4. CASE Reprocess(e) \/ \E t \in {"none", "user"} : UpdateTags(e, t)
    BY <2>4 DEF Reprocess, UpdateTags, DeletedStaysEmpty
  <2>5. QED BY <2>1, <2>2, <2>3, <2>4 DEF Client
<1>2. CASE \/ \E e \in Docs : Enqueue(e) \/ EnqueueFails(e)
           \/ \E r \in Runs, e \in Docs, k \in 0 .. MaxRetries : Deliver(r, e, k)
           \/ UNCHANGED vars
  BY <1>2 DEF Enqueue, EnqueueFails, Deliver, vars, DeletedStaysEmpty
<1>3. CASE \E r \in Runs : Work(r) \/ Fault(r)
  <2>1. PICK r \in Runs : Work(r) \/ Fault(r)
    BY <1>3
  <2>2. life' = life /\ life[d] # "live"
    BY <2>1, WorkWrites, FaultWrites
  <2>3. chunks[d] = {} /\ letters[d] = 0
    BY <2>2 DEF DeletedStaysEmpty
  <2>4. CASE ParseFails(r)
    <3>1. DeadLetter(r) /\ runs[r].pc \in Active
      BY <2>4 DEF ParseFails, Active, Working
    <3>2. chunks' = chunks
      BY <3>1 DEF DeadLetter
    <3>3. QED BY <2>2, <2>3, <3>1, <3>2, DeadLetterLive
  <2>5. CASE InsertChunks(r)
    <3>1. letters' = letters
      BY <2>5 DEF InsertChunks
    <3>2. CASE chunks' = chunks
      BY <2>3, <3>1, <3>2
    <3>3. CASE /\ life[runs[r].doc] = "live"
               /\ chunks' = [chunks EXCEPT ![runs[r].doc] = (@ \ runs[r].old) \cup Yield(r)]
      BY <2>2, <2>3, <3>1, <3>3 DEF Typed, TypeOK
    <3>4. QED BY <2>5, <3>2, <3>3 DEF InsertChunks
  <2>6. CASE UNCHANGED <<chunks, letters>>
    BY <2>3, <2>6
  <2>7. Work(r) \/ Fault(r) =>
          ParseFails(r) \/ InsertChunks(r) \/ UNCHANGED <<chunks, letters>>
    BY DEF Work, Fault, SetStatus, GenerateTags, DeleteChunks, StartEmbedding, UpsertVectors,
           FinishEmbedding, StampJob, Retry, Exhausted, Ack, TransientFails, Crash, Redeliver
  <2>8. QED BY <2>1, <2>4, <2>5, <2>6, <2>7
<1>4. QED BY <1>1, <1>2, <1>3 DEF Next

\* Whatever run is at work on a document when it is deleted, no chunk row and no dead
\* letter of it is ever written again: worker_flow's StaleDataError branch and the
\* foreign keys of document_chunks and ingestion_errors leave no way.
THEOREM DeletedForGood == Spec => []DeletedStaysEmpty
<1>1. Init => DeletedStaysEmpty
  BY DEF Init, DeletedStaysEmpty
<1>2. QED BY <1>1, TypedAlways, DeletedStep, PTL DEF Spec

-----------------------------------------------------------------------------
(* Only the steps that give a document up leave it half way. *)

\* Where a terminal status comes next, the session's copy has not got it yet: the
\* commit has a status column to write.
SeenMatches ==
  \A r \in Runs : runs[r].pc \in {"parsing", "finalizing"} => seen[r].status = runs[r].pc

\* A step that leaves the copies so and does not orphan document e.
Remembers(e) == SeenMatches' /\ (Orphaned(e)' => Orphaned(e))

\* A step of run r leaves other runs' sessions and other documents alone.
Local(r) ==
  /\ Moves(r)
  /\ \A q \in Runs \ {r} : seen'[q] = seen[q]
  /\ \A e \in Docs \ {runs[r].doc} : docs'[e] = docs[e] /\ queue'[e] = queue[e]
  /\ UNCHANGED <<life, pending>>

\* A commit of a run is such a step.
LEMMA CommitLocal ==
  ASSUME Typed, NEW r \in Runs, NEW new \in DocRow, NEW st \in Statuses, NEW p \in Places,
         CommitOrAbort(r, new, st, p), runs[r].pc \in Active, UNCHANGED <<queue, life, pending>>
  PROVE  Local(r)
<1>1. Moves(r)
  BY CommitMoves DEF Typed
<1>2. CASE StaleAbort(r, new, st)
  BY <1>1, <1>2 DEF StaleAbort, Local
<1>3. CASE Commit(r, new, st, p)
  <2>1. \A q \in Runs \ {r} : seen'[q] = seen[q]
    BY <1>3 DEF Commit, Typed, TypeOK
  <2>2. \A e \in Docs \ {runs[r].doc} : docs'[e] = docs[e]
    BY <1>3 DEF Commit, Typed, TypeOK
  <2>3. QED BY <1>1, <2>1, <2>2 DEF Local
<1>4. QED BY <1>2, <1>3 DEF CommitOrAbort

\* A commit that goes through writes a status that differs from the session's copy,
\* and leaves the row's status alone otherwise.
LEMMA CommitStatus ==
  ASSUME Typed, NEW r \in Runs, NEW new \in DocRow, NEW st \in Statuses, NEW p \in Places,
         Commit(r, new, st, p), runs[r].doc \in Docs
  PROVE  /\ new.status # seen[r].status => docs'[runs[r].doc].status = new.status
         /\ new.status = seen[r].status =>
              docs'[runs[r].doc].status = docs[runs[r].doc].status
         /\ seen'[r] = new
         /\ runs'[r].pc = p /\ runs'[r].doc = runs[r].doc
<1>1. CASE new = seen[r]
  BY <1>1 DEF Commit, Typed, TypeOK, RunRecord
<1>2. CASE new # seen[r]
  <2>1. docs'[runs[r].doc] = Flushed(runs[r].doc, r, new)
    BY <1>2 DEF Commit, Typed, TypeOK
  <2>2. QED BY <2>1 DEF Commit, Flushed, Typed, TypeOK, RunRecord
<1>3. QED BY <1>1, <1>2

\* What keeps a document in hand from one step of a run to the next.
LEMMA InHandKept ==
  ASSUME Typed, NEW r \in Runs, NEW e \in Docs, Local(r), InHand(e),
         \A k \in 0 .. MaxRetries : queue[e][k] > 0 => queue'[e][k] > 0,
         runs[r].doc = e /\ Obliged(r) => runs'[r].doc = e /\ Obliged(r)'
  PROVE  InHand(e)'
<1>1. CASE pending[e] > 0
  BY <1>1 DEF Local, InHand
<1>2. CASE \E k \in 0 .. MaxRetries : queue[e][k] > 0
  BY <1>2 DEF InHand
<1>3. CASE \E q \in Runs : runs[q].doc = e /\ Obliged(q)
  <2>1. PICK q \in Runs : runs[q].doc = e /\ Obliged(q)
    BY <1>3
  <2>2. CASE q = r
    BY <2>1, <2>2 DEF InHand
  <2>3. CASE q # r
    <3>1. runs'[q] = runs[q] /\ seen'[q] = seen[q]
      BY <2>3 DEF Local, Moves
    <3>2. runs'[q].doc = e /\ Obliged(q)'
      BY <2>1, <3>1 DEF Obliged
    <3>3. QED BY <3>2 DEF InHand
  <2>4. QED BY <2>2, <2>3
<1>4. QED BY <1>1, <1>2, <1>3 DEF InHand

\* So a step of a run does not orphan documents other than its own ...
LEMMA OthersRemembered ==
  ASSUME Typed, NEW r \in Runs, NEW e \in Docs, Local(r), e # runs[r].doc, Orphaned(e)'
  PROVE  Orphaned(e)
<1>1. life[e] = "live" /\ docs'[e] = docs[e] /\ queue'[e] = queue[e]
  BY DEF Local, Orphaned
<1>2. InHand(e) => InHand(e)'
  BY <1>1, InHandKept
<1>3. QED BY <1>1, <1>2 DEF Orphaned

\* ... and leaves that one in hand as long as the run stays obliged,
LEMMA StillObliged ==
  ASSUME Typed, NEW r \in Runs, NEW e \in Docs, Local(r),
         runs'[r].doc = runs[r].doc, Obliged(r)', Orphaned(e)'
  PROVE  Orphaned(e)
<1>1. CASE e = runs[r].doc
  BY <1>1 DEF Orphaned, InHand
<1>2. QED BY <1>1, OthersRemembered

\* or has written a terminal status, found the document gone, or queued a message.
LEMMA Discharged ==
  ASSUME Typed, NEW r \in Runs, NEW e \in Docs, Local(r), runs[r].doc \in Docs,
         \/ life[runs[r].doc] # "live"
         \/ docs'[runs[r].doc].status \in Terminal
         \/ \E k \in 0 .. MaxRetries : queue'[runs[r].doc][k] > 0,
         Orphaned(e)'
  PROVE  Orphaned(e)
<1>1. CASE e = runs[r].doc
  BY <1>1 DEF Orphaned, InHand, Local
<1>2. QED BY <1>1, OthersRemembered

\* A run that owes nothing leaves nothing behind.
LEMMA NotObliged ==
  ASSUME Typed, NEW r \in Runs, NEW e \in Docs, Local(r), ~Obliged(r),
         queue' = queue, runs[r].doc \in Docs,
         docs'[runs[r].doc].status = docs[runs[r].doc].status, Orphaned(e)'
  PROVE  Orphaned(e)
<1>1. life[e] = "live" /\ docs[e].status \notin Terminal
  BY DEF Local, Orphaned
<1>2. InHand(e) => InHand(e)'
  BY InHandKept
<1>3. QED BY <1>1, <1>2 DEF Orphaned

\* Whether the copies match is a question about one run at a time.
LEMMA RunMatches ==
  ASSUME SeenMatches, NEW r \in Runs, Local(r),
         runs'[r].pc \in {"parsing", "finalizing"} => seen'[r].status = runs'[r].pc
  PROVE  SeenMatches'
<1>1. \A q \in Runs \ {r} : runs'[q] = runs[q] /\ seen'[q] = seen[q]
  BY DEF Local, Moves
<1>2. QED BY <1>1 DEF SeenMatches

\* Commits in the middle of a run: it goes on, obliged, or its document is gone.
LEMMA CommitRemembered ==
  ASSUME Typed, SeenMatches, NEW r \in Runs, NEW e \in Docs, NEW new \in DocRow, NEW st \in Statuses,
         NEW p \in Working \cup Failing, CommitOrAbort(r, new, st, p),
         runs[r].pc \in Active, UNCHANGED <<queue, life, pending>>,
         p \in {"parsing", "finalizing"} => new.status = p
  PROVE  Remembers(e)
<1>1. p \in Places /\ runs[r].doc \in Docs
  BY DEF Places, Active, Failing, Typed, RunsHaveDocs
<1>2. Local(r)
  BY <1>1, CommitLocal
<1>3. CASE Commit(r, new, st, p)
  <2>1. /\ seen'[r] = new
        /\ runs'[r].pc = p /\ runs'[r].doc = runs[r].doc
    BY <1>1, <1>3, CommitStatus
  <2>2. Obliged(r)'
    BY <2>1 DEF Obliged
  <2>3. Orphaned(e)' => Orphaned(e)
    BY <1>2, <2>1, <2>2, StillObliged
  <2>4. QED BY <1>2, <2>1, <2>3, RunMatches DEF Remembers
<1>4. CASE StaleAbort(r, new, st)
  <2>1. life[runs[r].doc] # "live" /\ Goto(r, "returned")
    BY <1>4 DEF StaleAbort
  <2>2. runs'[r].pc = "returned"
    BY <2>1 DEF Goto, Typed, TypeOK, RunRecord
  <2>3. Orphaned(e)' => Orphaned(e)
    BY <1>1, <1>2, <2>1, Discharged
  <2>4. QED BY <1>2, <2>2, <2>3, RunMatches DEF Remembers
<1>5. QED BY <1>3, <1>4 DEF CommitOrAbort

\* Steps that write no row of the documents table: the run goes on, obliged, or was not
\* obliged, or its document is gone.
LEMMA GotoRemembered ==
  ASSUME Typed, SeenMatches, NEW r \in Runs, NEW e \in Docs, NEW p \in Places \ {"parsing", "finalizing"},
         Goto(r, p), runs[r].pc \in Active, UNCHANGED <<docs, queue, life, pending, seen>>,
         \/ p \in Working \cup Failing
         \/ ~Obliged(r)
         \/ life[runs[r].doc] # "live"
  PROVE  Remembers(e)
<1>1. Local(r) /\ runs[r].doc \in Docs
  BY GotoMoves DEF Local, Typed, RunsHaveDocs
<1>2. runs'[r].pc = p /\ runs'[r].doc = runs[r].doc
  BY DEF Goto, Typed, TypeOK, RunRecord
<1>3. Orphaned(e)' => Orphaned(e)
  <2>1. CASE p \in Working \cup Failing
    <3>1. Obliged(r)'
      BY <1>2, <2>1 DEF Obliged
    <3>2. QED BY <1>1, <1>2, <3>1, StillObliged
  <2>2. CASE ~Obliged(r)
    BY <1>1, <2>2, NotObliged
  <2>3. CASE life[runs[r].doc] # "live"
    BY <1>1, <2>3, Discharged
  <2>4. QED BY <2>1, <2>2, <2>3
<1>4. QED BY <1>1, <1>2, <1>3, RunMatches DEF Remembers

\* A dead letter settles its document, unless it was already shown as failed when the
\* run loaded it: then the run owed nothing.
LEMMA DeadLetterRemembered ==
  ASSUME Typed, SeenMatches, NEW r \in Runs, NEW e \in Docs, DeadLetter(r), runs[r].pc \in Active,
         Obliged(r) => seen[r].status # "failed"
  PROVE  Remembers(e)
<1> DEFINE new == [seen[r] EXCEPT !.status = "failed"]
<1>1. /\ new \in DocRow /\ new.status = "failed" /\ "failed" \in Statuses
      /\ "returned" \in Places \ {"parsing", "finalizing"} /\ runs[r].doc \in Docs
  <2>1. "failed" \in Statuses /\ seen[r] \in DocRow
    BY RowTyped DEF Typed, Statuses
  <2>2. new \in DocRow /\ new.status = "failed"
    BY <2>1 DEF DocRow
  <2>3. QED BY <2>1, <2>2 DEF Typed, Places, Active, RunsHaveDocs
<1>2. UNCHANGED <<queue, life, pending>>
  BY DEF DeadLetter
<1>3. CASE life[runs[r].doc] # "live" /\ Goto(r, "returned") /\ UNCHANGED <<docs, seen>>
  BY <1>1, <1>2, <1>3, GotoRemembered
<1>4. CASE Commit(r, new, "failed", "returned")
  <2> HIDE DEF new
  <2>1. Local(r)
    BY <1>1, <1>2, <1>4, CommitLocal DEF CommitOrAbort
  <2>2. /\ new.status # seen[r].status => docs'[runs[r].doc].status = "failed"
        /\ new.status = seen[r].status =>
             docs'[runs[r].doc].status = docs[runs[r].doc].status
        /\ runs'[r].pc = "returned"
    BY <1>1, <1>4, CommitStatus
  <2>3. Orphaned(e)' => Orphaned(e)
    <3>1. CASE seen[r].status # "failed"
      <4>1. docs'[runs[r].doc].status \in Terminal
        BY <1>1, <2>2, <3>1 DEF Terminal
      <4>2. QED BY <1>1, <2>1, <4>1, Discharged
    <3>2. CASE seen[r].status = "failed"
      <4>1. ~Obliged(r) /\ docs'[runs[r].doc].status = docs[runs[r].doc].status
        BY <1>1, <2>2, <3>2
      <4>2. QED BY <1>1, <1>2, <2>1, <4>1, NotObliged
    <3>3. QED BY <3>1, <3>2
  <2>4. QED BY <2>1, <2>2, <2>3, RunMatches DEF Remembers
<1>5. QED BY <1>3, <1>4 DEF DeadLetter

\* A run that is over, its message acknowledged or ready again.
LEMMA EndRemembered ==
  ASSUME Typed, SeenMatches, NEW r \in Runs, NEW e \in Docs, End(r), runs[r].pc \in Active,
         UNCHANGED <<docs, life, pending>>,
         \/ queue' = queue /\ ~Obliged(r)
         \/ queue' = Requeued(r)
  PROVE  Remembers(e)
<1>1. /\ runs[r].doc \in Docs /\ runs[r].tries \in 0 .. MaxRetries
      /\ queue[runs[r].doc] \in [0 .. MaxRetries -> Nat]
      /\ queue[runs[r].doc][runs[r].tries] \in Nat
  BY RetriesAssumption DEF Typed, RunsHaveDocs, TypeOK, RunRecord
<1>2. Moves(r)
  BY EndMoves DEF Typed
<1>3. \A q \in Runs \ {r} : seen'[q] = seen[q]
  BY DEF End, Typed, TypeOK
<1>4. \A d \in Docs \ {runs[r].doc} : queue'[d] = queue[d]
  BY DEF Requeued, Typed, TypeOK
<1>5. Local(r)
  BY <1>2, <1>3, <1>4 DEF Local
<1>6. runs'[r].pc = "ended"
  BY DEF End, IdleRun, Typed, TypeOK
<1>7. Orphaned(e)' => Orphaned(e)
  <2>1. CASE queue' = queue /\ ~Obliged(r)
    BY <1>1, <1>5, <2>1, NotObliged
  <2>2. CASE queue' = Requeued(r)
    <3>1. queue'[runs[r].doc][runs[r].tries] = queue[runs[r].doc][runs[r].tries] + 1
      BY <1>1, <2>2 DEF Requeued, Typed, TypeOK
    <3>2. queue'[runs[r].doc][runs[r].tries] > 0
      BY <1>1, <3>1
    <3>3. QED BY <1>1, <1>5, <3>2, Discharged
  <2>3. QED BY <2>1, <2>2
<1>8. QED BY <1>5, <1>6, <1>7, RunMatches DEF Remembers

\* What a run does on its own forgets no document, unless its retries are exhausted.
LEMMA WorkRemembers ==
  ASSUME Typed, SeenMatches, NEW r \in Runs, NEW e \in Docs, Work(r)
  PROVE  SeenMatches' /\ (Orphaned(e)' => Orphaned(e) \/ GivesUp(e))
<1>1. CASE SetStatus(r)
  <2> DEFINE s == NextStatus[runs[r].pc]
             new == [seen[r] EXCEPT !.status = s]
  <2>1. /\ s \in Statuses /\ s \in Places /\ runs[r].pc \in Active
        /\ runs[r].pc # "finalizing" => s \in Working
        /\ runs[r].pc = "finalizing" => s = "completed"
    BY <1>1, NextStatusTyped DEF SetStatus, Places
  <2>2. new \in DocRow
    BY <2>1, RowTyped DEF Typed
  <2>3. new.status = s
    BY RowTyped DEF Typed, DocRow
  <2>4. CommitOrAbort(r, new, s, s) /\ UNCHANGED <<queue, life, pending>>
    BY <1>1 DEF SetStatus
  <2> HIDE DEF new, s
  <2>5. CASE runs[r].pc # "finalizing"
    BY <2>1, <2>2, <2>3, <2>4, <2>5, CommitRemembered DEF Remembers
  <2>6. CASE runs[r].pc = "finalizing"
    <3>1. seen[r].status = "finalizing" /\ runs[r].doc \in Docs
      BY <2>1, <2>6 DEF SeenMatches, Typed, RunsHaveDocs
    <3>2. Local(r)
      BY <2>1, <2>2, <2>4, CommitLocal
    <3>3. CASE Commit(r, new, s, s)
      <4>1. /\ docs'[runs[r].doc].status = "completed"
            /\ runs'[r].pc = "completed"
        BY <2>1, <2>2, <2>3, <2>6, <3>1, <3>3, CommitStatus
      <4>2. Orphaned(e)' => Orphaned(e)
        BY <3>1, <3>2, <4>1, Discharged DEF Terminal
      <4>3. QED BY <3>2, <4>1, <4>2, RunMatches DEF Remembers
    <3>4. CASE StaleAbort(r, new, s)
      BY <2>1, <2>4, <3>4, GotoRemembered DEF StaleAbort, Places, Active, Remembers
    <3>5. QED BY <2>4, <3>3, <3>4 DEF CommitOrAbort
  <2>7. QED BY <2>5, <2>6
<1>2. CASE \E t \in {"none", "generated"} : GenerateTags(r, t)
  <2>1. PICK t \in TagSets : GenerateTags(r, t)
    BY <1>2 DEF TagSets
  <2>2. [seen[r] EXCEPT !.tags = t] \in DocRow /\ runs[r].jobSeen \in Statuses
    BY RowTyped DEF Typed
  <2>3. runs[r].pc \in Active /\ "tagged" \in Working
    BY <2>1 DEF GenerateTags, Active, Working
  <2>4. QED BY <2>1, <2>2, <2>3, CommitRemembered DEF GenerateTags, Remembers
<1>3. CASE DeleteChunks(r)
  <2>1. runs[r].pc = "chunking" /\ runs[r].pc \in Active /\ runs[r].doc \in Docs
    BY <1>3 DEF DeleteChunks, Typed, RunsHaveDocs, Active, Working
  <2>2. CASE runs' = [runs EXCEPT ![r].pc = "replacing", ![r].old = chunks[runs[r].doc],
                                  ![r].first = HashIsNew(r)]
    <3>1. /\ runs'[r].pc = "replacing" /\ runs'[r].doc = runs[r].doc
          /\ \A q \in Runs \ {r} : runs'[q] = runs[q]
      BY <2>2 DEF Typed, TypeOK, RunRecord
    <3>2. Local(r)
      BY <1>3, <2>1, <3>1 DEF DeleteChunks, Local, Moves
    <3>3. Obliged(r)'
      BY <3>1 DEF Obliged, Working
    <3>4. Orphaned(e)' => Orphaned(e)
      BY <3>1, <3>2, <3>3, StillObliged
    <3>5. QED BY <3>1, <3>2, <3>4, RunMatches DEF Remembers
  <2>3. CASE life[runs[r].doc] # "live" /\ Goto(r, "returned")
    BY <1>3, <2>1, <2>3, GotoRemembered DEF DeleteChunks, Places, Active, Remembers
  <2>4. QED BY <1>3, <2>2, <2>3 DEF DeleteChunks
<1>4. CASE InsertChunks(r)
  <2>1. runs[r].pc \in Active /\ runs[r].doc \in Docs
    BY <1>4 DEF InsertChunks, Typed, RunsHaveDocs, Active, Working
  <2>2. CASE /\ docs' = [docs EXCEPT ![runs[r].doc].chunked = TRUE]
             /\ seen' = [seen EXCEPT ![r].chunked = TRUE]
             /\ Goto(r, "persisted")
    <3>1. /\ runs'[r].pc = "persisted" /\ runs'[r].doc = runs[r].doc
      BY <2>2 DEF Goto, Typed, TypeOK, RunRecord
    <3>2. Moves(r)
      BY <2>1, <2>2, GotoMoves DEF Typed, Places, Active, Working
    <3>3. Local(r)
      BY <1>4, <2>2, <3>2 DEF InsertChunks, Local, Typed, TypeOK
    <3>4. Obliged(r)'
      BY <3>1 DEF Obliged, Working
    <3>5. Orphaned(e)' => Orphaned(e)
      BY <3>1, <3>3, <3>4, StillObliged
    <3>6. QED BY <3>1, <3>3, <3>5, RunMatches DEF Remembers
  <2>3. CASE /\ life[runs[r].doc] # "live" /\ UNCHANGED <<docs, seen>>
             /\ Goto(r, "persisted") \/ Goto(r, "returned")
    <3>1. {"persisted", "returned"} \subseteq Places \ {"parsing", "finalizing"}
      BY DEF Places, Active, Working
    <3>2. UNCHANGED <<queue, life, pending>>
      BY <1>4 DEF InsertChunks
    <3>3. QED BY <2>1, <2>3, <3>1, <3>2, GotoRemembered DEF Remembers
  <2>4. QED BY <1>4, <2>2, <2>3 DEF InsertChunks
<1>5. CASE StartEmbedding(r)
  <2>1. /\ [seen[r] EXCEPT !.emb = "in_progress"] \in DocRow /\ runs[r].jobSeen \in Statuses
        /\ "in_progress" \in Working /\ runs[r].pc \in Active
    BY <1>5, RowTyped DEF StartEmbedding, EmbeddingStatuses, Typed, Active, Working
  <2>2. QED BY <1>5, <2>1, CommitRemembered DEF StartEmbedding, Remembers
<1>6. CASE UpsertVectors(r)
  <2>1. runs[r].pc \in Active /\ "upserted" \in Working /\ "upserted" \in Places
    BY <1>6 DEF UpsertVectors, Places, Active, Working
  <2>2. QED BY <1>6, <2>1, GotoRemembered DEF UpsertVectors, Remembers
<1>7. CASE FinishEmbedding(r)
  <2>1. /\ [seen[r] EXCEPT !.emb = "completed"] \in DocRow /\ runs[r].jobSeen \in Statuses
        /\ "embedded" \in Working /\ runs[r].pc \in Active
    BY <1>7, RowTyped DEF FinishEmbedding, EmbeddingStatuses, Typed, Active, Working
  <2>2. QED BY <1>7, <2>1, CommitRemembered DEF FinishEmbedding, Remembers
<1>8. CASE StampJob(r)
  <2>1. runs[r].pc \in Active /\ "returned" \in Places /\ ~Obliged(r)
    BY <1>8 DEF StampJob, Places, Active, Obliged, Working, Failing
  <2>2. QED BY <1>8, <2>1, GotoRemembered DEF StampJob, Remembers
<1>9. CASE Retry(r)
  <2> DEFINE k == runs[r].tries + 1
  <2>1. /\ runs[r].pc \in Active /\ runs[r].doc \in Docs /\ k \in 0 .. MaxRetries
        /\ "returned" \in Places
    <3>1. runs[r].pc = "retry" /\ runs[r].tries < MaxRetries
      BY <1>9 DEF Retry
    <3>2. runs[r].tries \in 0 .. MaxRetries
      BY DEF Typed, TypeOK, RunRecord
    <3>3. k \in 0 .. MaxRetries
      BY <3>1, <3>2, RetriesAssumption
    <3>4. runs[r].pc \in Active /\ "returned" \in Places
      BY <3>1, Zenon DEF Places, Active, Failing
    <3>5. QED BY <3>3, <3>4 DEF Typed, RunsHaveDocs
  <2>2. queue' = [queue EXCEPT ![runs[r].doc][k] = @ + 1] /\ Goto(r, "returned")
    BY <1>9 DEF Retry
  <2> HIDE DEF k
  <2>3. queue[runs[r].doc] \in [0 .. MaxRetries -> Nat] /\ queue[runs[r].doc][k] \in Nat
    BY <2>1, RetriesAssumption DEF Typed, TypeOK
  <2>4. queue'[runs[r].doc][k] = queue[runs[r].doc][k] + 1
    BY <2>1, <2>2, <2>3 DEF Typed, TypeOK
  <2>5. Local(r)
    <3>1. \A d \in Docs \ {runs[r].doc} : queue'[d] = queue[d]
      BY <2>2 DEF Typed, TypeOK
    <3>2. QED BY <1>9, <2>1, <2>2, <3>1, GotoMoves DEF Retry, Local, Typed
  <2>6. runs'[r].pc = "returned"
    BY <2>2 DEF Goto, Typed, TypeOK, RunRecord
  <2>7. Orphaned(e)' => Orphaned(e)
    <3>1. queue'[runs[r].doc][k] > 0
      BY <2>3, <2>4
    <3>2. QED BY <2>1, <2>5, <3>1, Discharged
  <2>8. QED BY <2>5, <2>6, <2>7, RunMatches
<1>10. CASE Exhausted(r)
  <2>1. Goto(r, "returned") /\ runs[r].pc \in Active /\ runs[r].pc # "parsing"
    BY <1>10 DEF Exhausted, Active, Failing
  <2>2. Local(r) /\ runs[r].doc \in Docs
    BY <1>10, <2>1, GotoMoves DEF Exhausted, Local, Typed, RunsHaveDocs, Places, Active
  <2>3. runs'[r].pc = "returned"
    BY <2>1 DEF Goto, Typed, TypeOK, RunRecord
  <2>4. SeenMatches'
    BY <2>2, <2>3, RunMatches
  <2>5. CASE e = runs[r].doc
    BY <1>10, <2>4, <2>5 DEF GivesUp
  <2>6. QED BY <2>2, <2>4, <2>5, OthersRemembered
<1>11. CASE Ack(r)
  <2>1. runs[r].pc \in Active /\ ~Obliged(r)
    BY <1>11 DEF Ack, Active, Obliged, Working, Failing
  <2>2. QED BY <1>11, <2>1, EndRemembered DEF Ack, Remembers
<1>12. QED
  BY <1>1, <1>2, <1>3, <1>4, <1>5, <1>6, <1>7, <1>8, <1>9, <1>10, <1>11 DEF Work

\* Nor does what happens to it, unless it is cut off and its message acknowledged.
LEMMA FaultRemembers ==
  ASSUME Typed, SeenMatches, NEW r \in Runs, NEW e \in Docs, Fault(r)
  PROVE  SeenMatches' /\ (Orphaned(e)' => Orphaned(e) \/ GivesUp(e))
<1>1. CASE ParseFails(r)
  <2>1. runs[r].pc \in Active /\ DeadLetter(r) /\ seen[r].status = "parsing"
    BY <1>1 DEF ParseFails, Active, Working, SeenMatches
  <2>2. QED BY <2>1, DeadLetterRemembered DEF Remembers
<1>2. CASE \E applied \in BOOLEAN : TransientFails(r, applied)
  <2>1. PICK applied \in BOOLEAN : TransientFails(r, applied)
    BY <1>2
  <2> DEFINE emb == IF runs[r].pc = "in_progress" THEN "failed" ELSE seen[r].emb
  <2>2. emb \in EmbeddingStatuses
    BY DEF Typed, TypeOK, DocRow, EmbeddingStatuses
  <2>3. runs[r].pc \in Active /\ "retry" \in Working \cup Failing
    BY <2>1, PlacesOfFailure DEF TransientFails, Active, Failing
  <2>4. /\ CommitOrAbort(r, [seen[r] EXCEPT !.emb = emb], runs[r].jobSeen, "retry")
        /\ UNCHANGED <<queue, life, pending>>
    BY <2>1 DEF TransientFails
  <2> HIDE DEF emb
  <2>5. [seen[r] EXCEPT !.emb = emb] \in DocRow /\ runs[r].jobSeen \in Statuses
    BY <2>2, RowTyped DEF Typed
  <2>6. QED BY <2>3, <2>4, <2>5, CommitRemembered DEF Remembers
<1>3. CASE Crash(r)
  <2>1. /\ runs[r].pc \in Active /\ End(r) /\ UNCHANGED <<docs, life, pending>>
        /\ queue' = queue \/ queue' = Requeued(r)
    BY <1>3 DEF Crash
  <2>2. CASE queue' = Requeued(r)
    BY <2>1, <2>2, EndRemembered DEF Remembers
  <2>3. CASE queue' = queue
    <3>1. Moves(r)
      BY <2>1, EndMoves DEF Typed
    <3>2. Local(r) /\ runs'[r].pc = "ended"
      BY <2>1, <2>3, <3>1 DEF End, IdleRun, Local, Typed, TypeOK
    <3>3. SeenMatches'
      BY <3>2, RunMatches
    <3>4. CASE e = runs[r].doc
      BY <1>3, <2>3, <3>3, <3>4 DEF GivesUp
    <3>5. QED BY <3>2, <3>3, <3>4, OthersRemembered
  <2>4. QED BY <2>1, <2>2, <2>3
<1>4. CASE Redeliver(r)
  <2>1. /\ runs[r].pc \in Active /\ runs[r].doc \in Docs /\ runs[r].tries \in 0 .. MaxRetries
        /\ queue[runs[r].doc] \in [0 .. MaxRetries -> Nat]
        /\ queue[runs[r].doc][runs[r].tries] \in Nat
    BY <1>4, RetriesAssumption DEF Redeliver, Typed, RunsHaveDocs, TypeOK, RunRecord
  <2>2. /\ runs'[r].pc = runs[r].pc /\ runs'[r].doc = runs[r].doc
        /\ \A q \in Runs \ {r} : runs'[q] = runs[q]
    BY <1>4 DEF Redeliver, Typed, TypeOK, RunRecord
  <2>3. \A d \in Docs \ {runs[r].doc} : queue'[d] = queue[d]
    BY <1>4 DEF Redeliver, Requeued, Typed, TypeOK
  <2>4. Local(r)
    BY <1>4, <2>1, <2>2, <2>3 DEF Redeliver, Local, Moves
  <2>5. queue'[runs[r].doc][runs[r].tries] = queue[runs[r].doc][runs[r].tries] + 1
    BY <1>4, <2>1 DEF Redeliver, Requeued, Typed, TypeOK
  <2>6. Orphaned(e)' => Orphaned(e)
    <3>1. queue'[runs[r].doc][runs[r].tries] > 0
      BY <2>1, <2>5
    <3>2. QED BY <2>1, <2>4, <3>1, Discharged
  <2>7. SeenMatches'
    BY <1>4, <2>2 DEF Redeliver, SeenMatches
  <2>8. QED BY <2>6, <2>7
<1>5. QED BY <1>1, <1>2, <1>3, <1>4 DEF Fault

\* What is left when no run moves: a document in hand stays in hand.
LEMMA InHandStill ==
  ASSUME NEW e \in Docs, InHand(e), UNCHANGED <<runs, seen>>,
         pending[e] > 0 => pending'[e] > 0 \/ \E k \in 0 .. MaxRetries : queue'[e][k] > 0,
         \A k \in 0 .. MaxRetries : queue[e][k] > 0 => queue'[e][k] > 0
  PROVE  InHand(e)'
BY DEF InHand, Obliged

\* Clients hand documents over, and only take them away by deleting them.
LEMMA ClientRemembers ==
  ASSUME Typed, SeenMatches, NEW d \in Docs, NEW e \in Docs, Client(d)
  PROVE  Remembers(e)
<1>1. /\ UNCHANGED <<runs, seen, queue>>
      /\ \A f \in Docs \ {d} : life'[f] = life[f] /\ docs'[f] = docs[f]
      /\ \A f \in Docs : pending[f] > 0 => pending'[f] > 0
  <2>1. CASE \E t \in {"none", "user"} : Upload(d, t)
    BY <2>1 DEF Upload, Typed, TypeOK
  <2>2. CASE \E t \in {"none", "user"} : UpdateTags(d, t)
    BY <2>2 DEF UpdateTags, Typed, TypeOK
  <2>3. CASE Reprocess(d)
    BY <2>3 DEF Reprocess, Typed, TypeOK
  <2>4. CASE Delete(d)
    BY <2>4 DEF Delete, Typed, TypeOK
  <2>5. QED BY <2>1, <2>2, <2>3, <2>4 DEF Client
<1>2. SeenMatches'
  BY <1>1 DEF SeenMatches
<1>3. ASSUME Orphaned(e)'
      PROVE  Orphaned(e)
  <2>1. CASE e # d \/ \E t \in {"none", "user"} : UpdateTags(d, t)
    <3>1. life[e] = "live" /\ docs[e].status \notin Terminal
      <4>1. CASE e # d
        BY <1>1, <1>3, <4>1 DEF Orphaned
      <4>2. CASE \E t \in {"none", "user"} : UpdateTags(d, t)
        <5>1. life' = life /\ docs'[d].status = docs[d].status
          BY <4>2 DEF UpdateTags, Typed, TypeOK, DocRow
        <5>2. QED BY <1>1, <1>3, <5>1 DEF Orphaned
      <4>3. QED BY <2>1, <4>1, <4>2
    <3>2. InHand(e) => InHand(e)'
      BY <1>1, InHandStill
    <3>3. QED BY <1>3, <3>1, <3>2 DEF Orphaned
  <2>2. CASE e = d /\ (Reprocess(d) \/ \E t \in {"none", "user"} : Upload(d, t))
    <3>1. pending' = [pending EXCEPT ![d] = @ + 1]
      BY <2>2 DEF Reprocess, Upload
    <3>2. pending'[e] > 0
      BY <2>2, <3>1 DEF Typed, TypeOK
    <3>3. QED BY <1>3, <3>2 DEF InHand, Orphaned
  <2>3. CASE e = d /\ Delete(d)
    BY <1>3, <2>3 DEF Delete, Typed, TypeOK, Orphaned
  <2>4. QED BY <2>1, <2>2, <2>3 DEF Client
<1>4. QED BY <1>2, <1>3 DEF Remembers

\* A message takes over from the request that sends it, a run from the message.
LEMMA QueueRemembers ==
  ASSUME Typed, SeenMatches, NEW d \in Docs, NEW e \in Docs,
         \/ Enqueue(d) \/ EnqueueFails(d)
         \/ \E r \in Runs, k \in 0 .. MaxRetries : Deliver(r, d, k)
  PROVE  SeenMatches' /\ (Orphaned(e)' => Orphaned(e) \/ GivesUp(e))
<1>1. CASE Enqueue(d)
  <2>1. /\ UNCHANGED <<runs, seen, life, docs>> /\ 0 \in 0 .. MaxRetries
        /\ pending' = [pending EXCEPT ![d] = @ - 1]
        /\ queue' = [queue EXCEPT ![d][0] = @ + 1]
    BY <1>1, RetriesAssumption DEF Enqueue
  <2>2. queue[d] \in [0 .. MaxRetries -> Nat] /\ \A k \in 0 .. MaxRetries : queue[d][k] \in Nat
    BY RetriesAssumption DEF Typed, TypeOK
  <2>3. /\ queue'[d][0] > 0
        /\ \A f \in Docs, k \in 0 .. MaxRetries : queue[f][k] > 0 => queue'[f][k] > 0
    <3>1. queue'[d][0] = queue[d][0] + 1
      BY <2>1, <2>2 DEF Typed, TypeOK
    <3>2. \A k \in 0 .. MaxRetries : k # 0 => queue'[d][k] = queue[d][k]
      BY <2>1, <2>2 DEF Typed, TypeOK
    <3>3. \A f \in Docs : f # d => queue'[f] = queue[f]
      BY <2>1 DEF Typed, TypeOK
    <3>4. queue[d][0] \in Nat
      BY <2>1, <2>2
    <3>5. queue'[d][0] > 0
      BY <3>1, <3>4
    <3>6. QED BY <3>2, <3>3, <3>5
  <2>4. \A f \in Docs : f # d => pending'[f] = pending[f]
    BY <2>1 DEF Typed, TypeOK
  <2>5. InHand(e) => InHand(e)'
    BY <2>1, <2>3, <2>4, InHandStill
  <2>6. QED BY <2>1, <2>5 DEF Orphaned, SeenMatches
<1>2. CASE EnqueueFails(d)
  <2>1. /\ UNCHANGED <<runs, seen, life, docs, queue>>
        /\ pending' = [pending EXCEPT ![d] = @ - 1]
    BY <1>2 DEF EnqueueFails
  <2>2. CASE e = d
    BY <1>2, <2>1, <2>2 DEF GivesUp, SeenMatches
  <2>3. CASE e # d
    <3>1. pending'[e] = pending[e]
      BY <2>1, <2>3 DEF Typed, TypeOK
    <3>2. InHand(e) => InHand(e)'
      BY <2>1, <3>1, InHandStill
    <3>3. QED BY <2>1, <3>2 DEF Orphaned, SeenMatches
  <2>4. QED BY <2>2, <2>3
<1>3. CASE \E r \in Runs, k \in 0 .. MaxRetries : Deliver(r, d, k)
  <2>1. PICK r \in Runs, k \in 0 .. MaxRetries : Deliver(r, d, k)
    BY <1>3
  <2>2. /\ runs[r].pc = "idle" /\ UNCHANGED <<life, docs, pending>>
        /\ \A f \in Docs \ {d} : queue'[f] = queue[f]
        /\ \A q \in Runs \ {r} : runs'[q] = runs[q] /\ seen'[q] = seen[q]
    BY <2>1, ZenonT(60) DEF Deliver, Typed, TypeOK
  <2>3. ~Obliged(r)
    BY <2>2 DEF Obliged, Working, Failing
  <2>4. /\ runs'[r].doc = d
        /\ life[d] = "live" => runs'[r].pc = "loaded"
        /\ runs'[r].pc \in {"loaded", "returned"}
    <3>1. CASE life[d] = "live"
      <4>1. runs'[r] =
              [IdleRun EXCEPT !.doc = d, !.tries = k, !.pc = "loaded", !.job = LatestJob(d),
                              !.jobSeen = jobs[LatestJob(d)].status]
        BY <2>1, <3>1 DEF Deliver, Typed, TypeOK
      <4>2. QED BY <4>1 DEF IdleRun
    <3>2. CASE life[d] # "live"
      <4>1. runs'[r] = [IdleRun EXCEPT !.doc = d, !.tries = k, !.pc = "returned"]
        BY <2>1, <3>2 DEF Deliver, Typed, TypeOK
      <4>2. QED BY <3>2, <4>1 DEF IdleRun
    <3>3. QED BY <3>1, <3>2
  <2>5. SeenMatches'
    BY <2>2, <2>4 DEF SeenMatches
  <2>6. ASSUME Orphaned(e)'
        PROVE  Orphaned(e)
    <3>1. CASE e = d
      BY <2>2, <2>4, <2>6, <3>1 DEF InHand, Obliged, Working, Orphaned
    <3>2. CASE e # d
      <4>1. queue'[e] = queue[e] /\ pending'[e] = pending[e]
        BY <2>2, <3>2
      <4>2. \A q \in Runs : Obliged(q) => runs'[q] = runs[q] /\ Obliged(q)'
        BY <2>2, <2>3 DEF Obliged
      <4>3. InHand(e) => InHand(e)'
        BY <4>1, <4>2 DEF InHand
      <4>4. QED BY <2>2, <2>6, <4>3 DEF Orphaned
    <3>3. QED BY <3>1, <3>2
  <2>7. QED BY <2>5, <2>6
<1>4. QED BY <1>1, <1>2, <1>3

\* Every step: a document that is orphaned by it is given up by it.
LEMMA StepRemembers ==
  ASSUME Typed, SeenMatches, [Next]_vars, NEW e \in Docs
  PROVE  SeenMatches' /\ (Orphaned(e)' => Orphaned(e) \/ GivesUp(e))
<1>1. CASE \E d \in Docs : Client(d)
  BY <1>1, ClientRemembers DEF Remembers
<1>2. CASE UNCHANGED vars
  BY <1>2 DEF vars, Orphaned, InHand, Obliged, SeenMatches
<1>3. QED BY <1>1, <1>2, QueueRemembers, WorkRemembers, FaultRemembers DEF Next

\* The pipeline forgets no document half way: however uploads, reprocess calls, re-tags,
\* deletes, parse and transient failures, retries, worker crashes and visibility timeouts
\* interleave, a document in progress stops having a request, a message or a run that
\* will settle it only in a step that gives it up: a broker error that _enqueue swallows,
\* the failure of the last retry, a run cut off whose message the worker acknowledges.
THEOREM NothingForgotten == Spec => OrphanedOnlyIfGivenUp
<1>1. Init => SeenMatches
  BY DEF Init, IdleRun, SeenMatches
<1>2. Typed /\ SeenMatches /\ [Next]_vars => SeenMatches'
  <2>1. CASE Docs = {}
    BY <2>1, TypedStep DEF Typed, RunsHaveDocs, SeenMatches, Active, Working
  <2>2. CASE Docs # {}
    BY <2>2, StepRemembers
  <2>3. QED BY <2>1, <2>2
<1>3. Typed /\ SeenMatches /\ [Next]_vars =>
        [\A d \in Docs : Orphaned(d)' => Orphaned(d) \/ GivesUp(d)]_vars
  BY StepRemembers
<1>4. QED BY <1>1, <1>2, <1>3, TypedAlways, PTL DEF Spec, OrphanedOnlyIfGivenUp

-----------------------------------------------------------------------------
(* The steps of a run, by what they do to the rows. *)

\* A run that may still write to its document and job.
Writing == Active \ {"returned"}

\* A run that has not inserted its chunk rows yet.
Early == {"idle", "loaded", "processing", "parsing", "tagging", "tagged", "chunking",
          "replacing"}

\* A commit that records progress, and no failure.
Assigns(r) ==
  \E new \in DocRow, st \in Statuses, p \in Writing \ {"replacing"} :
    /\ CommitOrAbort(r, new, st, p)
    /\ runs[r].pc \in Writing
    /\ new.chunked = seen[r].chunked
    /\ \/ new.status = seen[r].status /\ st = runs[r].jobSeen
       \/ new.status = st /\ st # "failed"
    /\ p \in Early => runs[r].pc \in Early \ {"replacing"}
    /\ UNCHANGED <<life, njobs, letters, chunks, pending>>

\* A step that leaves the documents, their chunks and all statuses alone.
Aside(r) ==
  /\ UNCHANGED <<docs, life, njobs, letters, chunks, pending>>
  /\ \A i \in Jobs : jobs'[i].doc = jobs[i].doc /\ jobs'[i].status = jobs[i].status
  /\ \A q \in Runs \ {r} : runs'[q] = runs[q] /\ seen'[q] = seen[q]
  /\ runs[r].pc \in Active
  /\ runs'[r].first = runs[r].first
  /\ \/ runs'[r].pc \notin Writing /\ runs'[r].pc \notin Early
     \/ /\ runs'[r].pc = runs[r].pc \/ runs'[r].pc \notin Early
        /\ runs'[r].doc = runs[r].doc /\ runs'[r].job = runs[r].job
        /\ runs'[r].jobSeen = runs[r].jobSeen /\ runs'[r].old = runs[r].old
        /\ runs[r].pc \in Writing /\ seen'[r] = seen[r]

\* Going to a place, where that is all.
LEMMA GotoAside ==
  ASSUME Typed, NEW r \in Runs, NEW p \in Active, Goto(r, p), runs[r].pc \in Writing,
         p \notin Early, UNCHANGED <<docs, life, njobs, letters, chunks, pending, seen>>,
         \A i \in Jobs : jobs'[i].doc = jobs[i].doc /\ jobs'[i].status = jobs[i].status
  PROVE  Aside(r)
<1>1. runs[r] \in RunRecord /\ runs \in [Runs -> RunRecord]
  BY DEF Typed, TypeOK
<1>2. runs' = [runs EXCEPT ![r].pc = p]
  BY DEF Goto
<1>3. /\ runs'[r].pc = p /\ runs'[r].doc = runs[r].doc /\ runs'[r].job = runs[r].job
      /\ runs'[r].jobSeen = runs[r].jobSeen /\ runs'[r].old = runs[r].old
      /\ runs'[r].first = runs[r].first
      /\ \A q \in Runs \ {r} : runs'[q] = runs[q]
  BY <1>1, <1>2 DEF RunRecord
<1>4. QED BY <1>3 DEF Aside, Writing

\* The end of a run.
LEMMA EndAside ==
  ASSUME Typed, NEW r \in Runs, End(r), runs[r].pc \in Active,
         UNCHANGED <<docs, jobs, life, njobs, letters, chunks, pending>>
  PROVE  Aside(r)
<1>1. runs[r] \in RunRecord /\ runs \in [Runs -> RunRecord] /\ seen \in [Runs -> DocRow]
  BY DEF Typed, TypeOK
<1>2. /\ runs'[r].pc = "ended" /\ runs'[r].first = runs[r].first
      /\ \A q \in Runs \ {r} : runs'[q] = runs[q] /\ seen'[q] = seen[q]
  BY <1>1 DEF End, IdleRun
<1>3. "ended" \notin Writing /\ "ended" \notin Early
  BY DEF Writing, Active, Working, Failing, Early
<1>4. QED BY <1>2, <1>3 DEF Aside

\* Every step of a run is a recorded progress, a dead letter, one of the two steps that
\* replace chunk rows, or leaves those rows alone.
LEMMA RunStepKinds ==
  ASSUME Typed, NEW r \in Runs, Work(r) \/ Fault(r)
  PROVE  \/ Assigns(r)
         \/ DeadLetter(r) /\ runs[r].pc = "parsing"
         \/ DeleteChunks(r)
         \/ InsertChunks(r)
         \/ Aside(r)
<1>1. /\ seen[r] \in DocRow /\ runs[r] \in RunRecord /\ runs[r].jobSeen \in Statuses
      /\ \A s \in Statuses : [seen[r] EXCEPT !.status = s] \in DocRow
      /\ \A t \in TagSets : [seen[r] EXCEPT !.tags = t] \in DocRow
      /\ \A e \in EmbeddingStatuses : [seen[r] EXCEPT !.emb = e] \in DocRow
  BY RowTyped DEF Typed
<1>2. CASE SetStatus(r)
  <2> DEFINE s == NextStatus[runs[r].pc]
             new == [seen[r] EXCEPT !.status = s]
  <2>1. /\ s \in Statuses /\ runs[r].pc \in Writing /\ s \in Writing \ {"replacing"}
        /\ s # "failed" /\ (s \in Early => runs[r].pc \in Early \ {"replacing"})
    BY <1>2 DEF SetStatus, NextStatus, Statuses, Writing, Active, Working, Failing, Early
  <2>2. new \in DocRow /\ new.status = s /\ new.chunked = seen[r].chunked
    BY <1>1, <2>1 DEF DocRow
  <2>3. CommitOrAbort(r, new, s, s) /\ UNCHANGED <<life, njobs, letters, chunks, pending>>
    BY <1>2 DEF SetStatus
  <2> HIDE DEF new, s
  <2>4. Assigns(r)
    BY <2>1, <2>2, <2>3 DEF Assigns
  <2>5. QED BY <2>4
<1>3. CASE \E t \in {"none", "generated"} : GenerateTags(r, t)
  <2>1. PICK t \in TagSets : GenerateTags(r, t)
    BY <1>3 DEF TagSets
  <2> DEFINE new == [seen[r] EXCEPT !.tags = t]
  <2>2. /\ runs[r].pc \in Writing /\ "tagged" \in Writing \ {"replacing"}
        /\ runs[r].pc \in Early \ {"replacing"}
    BY <2>1 DEF GenerateTags, Writing, Active, Working, Early
  <2>3. new \in DocRow /\ new.status = seen[r].status /\ new.chunked = seen[r].chunked
    BY <1>1, <2>1 DEF DocRow
  <2>4. /\ CommitOrAbort(r, new, runs[r].jobSeen, "tagged")
        /\ UNCHANGED <<life, njobs, letters, chunks, pending>>
    BY <2>1 DEF GenerateTags
  <2> HIDE DEF new
  <2>5. Assigns(r)
    BY <1>1, <2>2, <2>3, <2>4 DEF Assigns
  <2>6. QED BY <2>5
<1>4. ASSUME NEW e \in EmbeddingStatuses, NEW p \in {"in_progress", "embedded", "retry"},
             CommitOrAbort(r, [seen[r] EXCEPT !.emb = e], runs[r].jobSeen, p),
             runs[r].pc \in Writing, UNCHANGED <<life, njobs, letters, chunks, pending>>
      PROVE  Assigns(r)
  <2> DEFINE new == [seen[r] EXCEPT !.emb = e]
  <2>1. p \in Writing \ {"replacing"} /\ p \notin Early
    BY DEF Writing, Active, Working, Failing, Early
  <2>2. new \in DocRow /\ new.status = seen[r].status /\ new.chunked = seen[r].chunked
    BY <1>1 DEF DocRow
  <2>3. CommitOrAbort(r, new, runs[r].jobSeen, p)
    BY <1>4
  <2> HIDE DEF new
  <2>4. QED BY <1>1, <1>4, <2>1, <2>2, <2>3 DEF Assigns
<1>5. CASE StartEmbedding(r)
  <2>1. "in_progress" \in EmbeddingStatuses /\ runs[r].pc \in Writing
    BY <1>5 DEF StartEmbedding, EmbeddingStatuses, Writing, Active, Working
  <2>2. QED BY <1>4, <1>5, <2>1 DEF StartEmbedding
<1>6. CASE FinishEmbedding(r)
  <2>1. "completed" \in EmbeddingStatuses /\ runs[r].pc \in Writing
    BY <1>6 DEF FinishEmbedding, EmbeddingStatuses, Writing, Active, Working
  <2>2. QED BY <1>4, <1>6, <2>1 DEF FinishEmbedding
<1>7. CASE \E applied \in BOOLEAN : TransientFails(r, applied)
  <2>1. PICK applied \in BOOLEAN : TransientFails(r, applied)
    BY <1>7
  <2> DEFINE emb == IF runs[r].pc = "in_progress" THEN "failed" ELSE seen[r].emb
  <2>2. emb \in EmbeddingStatuses
    BY <1>1 DEF DocRow, EmbeddingStatuses
  <2>3. /\ CommitOrAbort(r, [seen[r] EXCEPT !.emb = emb], runs[r].jobSeen, "retry")
        /\ UNCHANGED <<life, njobs, letters, chunks, pending>>
    BY <2>1 DEF TransientFails
  <2>4. runs[r].pc \in Writing
    BY <2>1, PlacesOfFailure DEF TransientFails, Writing, Active, Working
  <2> HIDE DEF emb
  <2>5. QED BY <1>4, <2>2, <2>3, <2>4
<1>8. CASE UpsertVectors(r)
  <2>1. /\ runs[r].pc \in Writing /\ "upserted" \in Active /\ "upserted" \notin Early
        /\ Goto(r, "upserted")
    BY <1>8 DEF UpsertVectors, Writing, Active, Working, Early
  <2>2. QED BY <1>8, <2>1, GotoAside DEF UpsertVectors
<1>9. CASE StampJob(r)
  <2>1. /\ runs[r].pc \in Writing /\ "returned" \in Active /\ "returned" \notin Early
        /\ Goto(r, "returned")
    BY <1>9 DEF StampJob, Writing, Active, Early
  <2>2. \A i \in Jobs : jobs'[i].doc = jobs[i].doc /\ jobs'[i].status = jobs[i].status
    <3>1. \A i \in Jobs : jobs[i] \in JobRow
      BY DEF Typed, TypeOK
    <3>2. QED BY <1>9, <3>1 DEF StampJob, Typed, TypeOK, JobRow
  <2>3. QED BY <1>9, <2>1, <2>2, GotoAside DEF StampJob
<1>10. CASE Retry(r)
  <2>1. /\ runs[r].pc \in Writing /\ "returned" \in Active /\ "returned" \notin Early
        /\ Goto(r, "returned")
    BY <1>10 DEF Retry, Writing, Active, Failing, Early
  <2>2. QED BY <1>10, <2>1, GotoAside DEF Retry
<1>11. CASE Exhausted(r)
  <2>1. /\ runs[r].pc \in Writing /\ "returned" \in Active /\ "returned" \notin Early
        /\ Goto(r, "returned")
    BY <1>11 DEF Exhausted, Writing, Active, Failing, Early
  <2>2. QED BY <1>11, <2>1, GotoAside DEF Exhausted
<1>12. CASE ParseFails(r)
  BY <1>12 DEF ParseFails
<1>13. CASE Ack(r) \/ Crash(r)
  <2>1. runs[r].pc \in Active
    BY <1>13 DEF Ack, Crash, Active
  <2>2. End(r) /\ UNCHANGED <<docs, jobs, life, njobs, letters, chunks, pending>>
    BY <1>13 DEF Ack, Crash
  <2>3. QED BY <2>1, <2>2, EndAside
<1>14. CASE Redeliver(r)
  <2>1. /\ runs' = [runs EXCEPT ![r].again = TRUE] /\ runs[r].pc \in Active
        /\ UNCHANGED <<docs, jobs, life, njobs, letters, chunks, pending, seen>>
    BY <1>14 DEF Redeliver
  <2>2. /\ runs'[r].pc = runs[r].pc /\ runs'[r].doc = runs[r].doc
        /\ runs'[r].job = runs[r].job /\ runs'[r].jobSeen = runs[r].jobSeen
        /\ runs'[r].old = runs[r].old /\ runs'[r].first = runs[r].first
        /\ \A q \in Runs \ {r} : runs'[q] = runs[q]
    BY <1>1, <2>1 DEF Typed, TypeOK, RunRecord
  <2>3. runs[r].pc = "returned" => runs'[r].pc \notin Writing /\ runs'[r].pc \notin Early
    BY <2>2 DEF Writing, Early
  <2>4. QED BY <2>1, <2>2, <2>3 DEF Aside, Writing
<1>15. QED
  BY <1>2, <1>3, <1>5, <1>6, <1>7, <1>8, <1>9, <1>10, <1>11, <1>12, <1>13, <1>14
     DEF Work, Fault

-----------------------------------------------------------------------------
(* The rows a run holds on to. *)

\* A run writes to a job row of its document, and there are none before the upload.
JobsMatch == \A r \in Runs : runs[r].pc \in Writing => runs[r].job \in JobsOf(runs[r].doc)
AbsentHasNoJobs == \A d \in Docs : life[d] = "absent" => JobsOf(d) = {}

\* Every run at work knows a job row of its document.
Known == JobsMatch /\ AbsentHasNoJobs

\* Whoever is replacing chunk rows for the first time removes those of earlier first runs,
FirstInOld ==
  \A r \in Runs : (runs[r].pc = "replacing" /\ runs[r].first) =>
    \A h \in chunks[runs[r].doc] : runs[h].first => h \in runs[r].old

\* is alone in doing so, by the lock on the documents row,
OneHoldsTheRow ==
  \A q, r \in Runs :
    (/\ runs[q].pc = "replacing" /\ runs[q].first
     /\ runs[r].pc = "replacing" /\ runs[r].first
     /\ runs[q].doc = runs[r].doc) => q = r

\* and a chunk row comes from a run that is past its INSERTs.
InsertedOnce == \A d \in Docs : \A h \in chunks[d] : runs[h].pc \notin Early

\* FirstRunsExclude with what makes it inductive.
Excluding == FirstRunsExclude /\ FirstInOld /\ OneHoldsTheRow /\ InsertedOnce

\* The document has been uploaded and never reprocessed.
Single(d) == \A i, j \in JobsOf(d) : i = j

\* The document and its only job say the same, in the tables
RowsAgree == \A d \in Docs : life[d] = "live" /\ Single(d) =>
   \A j \in JobsOf(d) : jobs[j].status = docs[d].status

\* and in the copies of every run that may still commit.
CopiesAgree == \A r \in Runs : runs[r].pc \in Writing /\ Single(runs[r].doc) =>
   seen[r].status = runs[r].jobSeen

\* The jobs of a document where no step inserts one,
LEMMA JobsOfKept ==
  ASSUME TypeOK, njobs' = njobs, \A i \in Jobs : jobs'[i].doc = jobs[i].doc
  PROVE  \A d \in Docs : JobsOf(d)' = JobsOf(d)
<1>1. \A i \in 1 .. njobs : i \in Jobs
  BY MaxJobsAssumption DEF TypeOK, Jobs
<1>2. QED BY <1>1 DEF JobsOf

\* and where one is inserted for document d.
LEMMA JobsOfInserted ==
  ASSUME TypeOK, NEW d \in Docs, njobs < MaxJobs, njobs' = njobs + 1,
         jobs' = [jobs EXCEPT ![njobs + 1] = [doc |-> d, status |-> "queued", stamped |-> FALSE]]
  PROVE  /\ \A e \in Docs \ {d} : JobsOf(e)' = JobsOf(e)
         /\ JobsOf(d)' = JobsOf(d) \cup {njobs + 1} /\ njobs + 1 \notin JobsOf(d)
         /\ \A i \in 1 .. njobs : jobs'[i] = jobs[i]
         /\ jobs'[njobs + 1].status = "queued"
<1>1. njobs \in Nat /\ njobs + 1 \in Jobs /\ \A i \in 1 .. njobs : i \in Jobs /\ i # njobs + 1
  BY MaxJobsAssumption DEF TypeOK, Jobs
<1>2. \A i \in 1 .. njobs : jobs'[i] = jobs[i]
  BY <1>1 DEF TypeOK
<1>3. jobs'[njobs + 1].doc = d /\ jobs'[njobs + 1].status = "queued"
  BY <1>1 DEF TypeOK
<1>4. \A i : i \in 1 .. njobs' <=> (i \in 1 .. njobs \/ i = njobs + 1)
  BY <1>1
<1>5. QED BY <1>1, <1>2, <1>3, <1>4 DEF JobsOf

\* What a commit writes, row by row.
LEMMA CommitRows ==
  ASSUME Typed, NEW r \in Runs, NEW new \in DocRow, NEW st \in Statuses, NEW p \in Places,
         Commit(r, new, st, p), runs[r].doc \in Docs, new.chunked = seen[r].chunked
  PROVE  /\ \A e \in Docs \ {runs[r].doc} : docs'[e] = docs[e]
         /\ docs'[runs[r].doc].chunked = docs[runs[r].doc].chunked
         /\ docs'[runs[r].doc].status =
              IF new.status = seen[r].status THEN docs[runs[r].doc].status ELSE new.status
         /\ \A i \in Jobs : /\ jobs'[i].doc = jobs[i].doc
                            /\ i # runs[r].job => jobs'[i] = jobs[i]
         /\ runs[r].job \in Jobs => jobs'[runs[r].job].status =
              IF st = runs[r].jobSeen THEN jobs[runs[r].job].status ELSE st
         /\ seen'[r] = new
         /\ runs'[r].pc = p /\ runs'[r].jobSeen = st
         /\ runs'[r].doc = runs[r].doc /\ runs'[r].job = runs[r].job
         /\ runs'[r].old = runs[r].old /\ runs'[r].first = runs[r].first
         /\ \A q \in Runs \ {r} : runs'[q] = runs[q] /\ seen'[q] = seen[q]
<1> DEFINE d == runs[r].doc
           j == runs[r].job
<1>1. /\ docs' = [docs EXCEPT ![d] = IF new = seen[r] THEN @ ELSE Flushed(d, r, new)]
      /\ jobs' = [jobs EXCEPT ![j].status = IF st = runs[r].jobSeen THEN @ ELSE st]
      /\ seen' = [seen EXCEPT ![r] = new]
      /\ runs' = [runs EXCEPT ![r].pc = p, ![r].jobSeen = st]
  BY DEF Commit
<1>2. /\ \A e \in Docs \ {d} : docs'[e] = docs[e]
      /\ docs'[d] = IF new = seen[r] THEN docs[d] ELSE Flushed(d, r, new)
  BY <1>1 DEF Typed, TypeOK
<1>3. docs'[d].chunked = docs[d].chunked
  BY <1>2 DEF Flushed
<1>4. docs'[d].status = IF new.status = seen[r].status THEN docs[d].status ELSE new.status
  BY <1>2 DEF Flushed
<1>5. /\ \A i \in Jobs : jobs'[i].doc = jobs[i].doc /\ (i # j => jobs'[i] = jobs[i])
      /\ j \in Jobs => jobs'[j].status = IF st = runs[r].jobSeen THEN jobs[j].status ELSE st
  <2>1. \A i \in Jobs : jobs[i] \in JobRow
    BY DEF Typed, TypeOK
  <2>2. QED BY <1>1, <2>1 DEF Typed, TypeOK, JobRow
<1>6. /\ seen'[r] = new /\ \A q \in Runs \ {r} : runs'[q] = runs[q] /\ seen'[q] = seen[q]
      /\ runs'[r].pc = p /\ runs'[r].jobSeen = st
      /\ runs'[r].doc = runs[r].doc /\ runs'[r].job = runs[r].job
      /\ runs'[r].old = runs[r].old /\ runs'[r].first = runs[r].first
  BY <1>1 DEF Typed, TypeOK, RunRecord
<1>7. QED BY <1>2, <1>3, <1>4, <1>5, <1>6

\* A run that returns, and writes nothing.
LEMMA ReturnRows ==
  ASSUME Typed, NEW r \in Runs, NEW p \in Places, Goto(r, p)
  PROVE  /\ runs'[r].pc = p /\ runs'[r].jobSeen = runs[r].jobSeen
         /\ runs'[r].doc = runs[r].doc /\ runs'[r].job = runs[r].job
         /\ runs'[r].old = runs[r].old /\ runs'[r].first = runs[r].first
         /\ \A q \in Runs \ {r} : runs'[q] = runs[q]
<1>1. runs' = [runs EXCEPT ![r].pc = p] /\ runs[r] \in RunRecord /\ runs \in [Runs -> RunRecord]
  BY DEF Goto, Typed, TypeOK
<1>2. QED BY <1>1 DEF RunRecord

\* Where a run is on delivery.
LEMMA DeliverRows ==
  ASSUME Typed, NEW r \in Runs, NEW d \in Docs, NEW k \in 0 .. MaxRetries, Deliver(r, d, k)
  PROVE  /\ UNCHANGED <<life, docs, jobs, njobs, letters, chunks, vectors, pending>>
         /\ runs[r].pc = "idle" /\ runs'[r].doc = d /\ ~runs'[r].first
         /\ \A q \in Runs \ {r} : runs'[q] = runs[q] /\ seen'[q] = seen[q]
         /\ \/ /\ life[d] = "live" /\ runs'[r].pc = "loaded" /\ seen'[r] = docs[d]
               /\ runs'[r].job = LatestJob(d) /\ runs'[r].jobSeen = jobs[LatestJob(d)].status
            \/ life[d] # "live" /\ runs'[r].pc = "returned" /\ seen' = seen
<1> DEFINE j == LatestJob(d)
           st == jobs[j].status
<1>1. runs \in [Runs -> RunRecord] /\ seen \in [Runs -> DocRow]
  BY DEF Typed, TypeOK
<1>2. /\ UNCHANGED <<life, docs, jobs, njobs, letters, chunks, vectors, pending>>
      /\ runs[r].pc = "idle"
  BY DEF Deliver
<1>3. CASE life[d] = "live"
  <2>1. /\ seen' = [seen EXCEPT ![r] = docs[d]]
        /\ runs' = [runs EXCEPT ![r] = [IdleRun EXCEPT !.doc = d, !.tries = k, !.pc = "loaded",
                                                       !.job = j, !.jobSeen = st]]
    BY <1>3 DEF Deliver
  <2> HIDE DEF j, st
  <2>2. /\ seen'[r] = docs[d] /\ \A q \in Runs \ {r} : runs'[q] = runs[q] /\ seen'[q] = seen[q]
        /\ runs'[r] = [IdleRun EXCEPT !.doc = d, !.tries = k, !.pc = "loaded",
                                      !.job = j, !.jobSeen = st]
    BY <1>1, <2>1
  <2>3. /\ runs'[r].doc = d /\ runs'[r].pc = "loaded" /\ runs'[r].job = j
        /\ runs'[r].jobSeen = st /\ ~runs'[r].first
    BY <2>2 DEF IdleRun
  <2>4. QED BY <1>2, <1>3, <2>2, <2>3 DEF j, st
<1>4. CASE life[d] # "live"
  <2>1. runs' = [runs EXCEPT ![r] = [IdleRun EXCEPT !.doc = d, !.tries = k, !.pc = "returned"]]
        /\ seen' = seen
    BY <1>4 DEF Deliver
  <2>2. /\ \A q \in Runs \ {r} : runs'[q] = runs[q] /\ seen'[q] = seen[q]
        /\ runs'[r] = [IdleRun EXCEPT !.doc = d, !.tries = k, !.pc = "returned"]
    BY <1>1, <2>1
  <2>3. runs'[r].doc = d /\ runs'[r].pc = "returned" /\ ~runs'[r].first
    BY <2>2 DEF IdleRun
  <2>4. QED BY <1>2, <1>4, <2>1, <2>2, <2>3
<1>5. QED BY <1>3, <1>4

\* What a recorded progress writes: nothing if the document is gone, and else the
\* session's status for the document and for the job, or neither.
Progress(r) ==
  /\ \A e \in Docs \ {runs[r].doc} : docs'[e] = docs[e]
  /\ docs'[runs[r].doc].chunked = docs[runs[r].doc].chunked
  /\ \A i \in Jobs : /\ jobs'[i].doc = jobs[i].doc
                     /\ i # runs[r].job => jobs'[i].status = jobs[i].status
  /\ runs'[r].doc = runs[r].doc /\ runs'[r].job = runs[r].job
  /\ runs'[r].old = runs[r].old /\ runs'[r].first = runs[r].first
  /\ \A q \in Runs \ {r} : runs'[q] = runs[q] /\ seen'[q] = seen[q]

\* A commit that records progress writes the same status to both rows, or none.
LEMMA AssignsRows ==
  ASSUME Typed, NEW r \in Runs, Assigns(r)
  PROVE  /\ runs[r].pc \in Writing /\ runs[r].doc \in Docs
         /\ UNCHANGED <<life, njobs, letters, chunks, pending>>
         /\ Progress(r)
         /\ runs'[r].pc \in Early => runs[r].pc \in Early
         /\ runs'[r].pc # "replacing"
         /\ \/ UNCHANGED <<docs, jobs>> /\ runs'[r].pc = "returned"
            \/ \E s, st \in Statuses :
                 /\ \/ s = seen[r].status /\ st = runs[r].jobSeen
                    \/ s = st /\ st # "failed"
                 /\ docs'[runs[r].doc].status =
                      IF s = seen[r].status THEN docs[runs[r].doc].status ELSE s
                 /\ runs[r].job \in Jobs => jobs'[runs[r].job].status =
                      IF st = runs[r].jobSeen THEN jobs[runs[r].job].status ELSE st
                 /\ seen'[r].status = s /\ runs'[r].jobSeen = st
<1>1. PICK new \in DocRow, st \in Statuses, p \in Writing \ {"replacing"} :
        /\ CommitOrAbort(r, new, st, p)
        /\ runs[r].pc \in Writing
        /\ new.chunked = seen[r].chunked
        /\ \/ new.status = seen[r].status /\ st = runs[r].jobSeen
           \/ new.status = st /\ st # "failed"
        /\ p \in Early => runs[r].pc \in Early \ {"replacing"}
        /\ UNCHANGED <<life, njobs, letters, chunks, pending>>
  BY DEF Assigns
<1>2. runs[r].doc \in Docs /\ p \in Places /\ new.status \in Statuses
  BY <1>1 DEF Typed, RunsHaveDocs, Writing, Places, DocRow
<1>3. CASE Commit(r, new, st, p)
  <2>1. Progress(r)
    BY <1>1, <1>2, <1>3, CommitRows DEF Progress
  <2>2. /\ runs'[r].pc = p /\ seen'[r].status = new.status /\ runs'[r].jobSeen = st
        /\ docs'[runs[r].doc].status =
             IF new.status = seen[r].status THEN docs[runs[r].doc].status ELSE new.status
        /\ runs[r].job \in Jobs => jobs'[runs[r].job].status =
             IF st = runs[r].jobSeen THEN jobs[runs[r].job].status ELSE st
    BY <1>1, <1>2, <1>3, CommitRows
  <2>3. QED BY <1>1, <1>2, <2>1, <2>2
<1>4. CASE StaleAbort(r, new, st)
  <2>1. Goto(r, "returned") /\ "returned" \in Places /\ UNCHANGED <<docs, jobs, seen>>
        /\ "returned" \notin Early
    BY <1>4 DEF StaleAbort, Places, Active, Early
  <2>2. Progress(r) /\ runs'[r].pc = "returned"
    BY <2>1, ReturnRows DEF Progress
  <2>3. QED BY <1>1, <1>2, <2>1, <2>2
<1>5. QED BY <1>1, <1>3, <1>4 DEF CommitOrAbort

\* What a dead letter writes: nothing if the document is gone, and else "failed" where
\* the session's copies did not say so, and the letter.
LEMMA DeadLetterRows ==
  ASSUME Typed, NEW r \in Runs, DeadLetter(r), runs[r].pc = "parsing"
  PROVE  /\ runs[r].pc \in Writing /\ runs[r].doc \in Docs
         /\ UNCHANGED <<life, njobs, chunks, pending>>
         /\ Progress(r)
         /\ runs'[r].pc = "returned"
         /\ \/ UNCHANGED <<docs, jobs, letters>>
            \/ /\ life[runs[r].doc] = "live"
               /\ letters' = [letters EXCEPT ![runs[r].doc] = @ + 1]
               /\ docs'[runs[r].doc].status =
                    IF seen[r].status = "failed" THEN docs[runs[r].doc].status ELSE "failed"
               /\ runs[r].job \in Jobs => jobs'[runs[r].job].status =
                    IF runs[r].jobSeen = "failed" THEN jobs[runs[r].job].status ELSE "failed"
<1> DEFINE new == [seen[r] EXCEPT !.status = "failed"]
<1>1. /\ new \in DocRow /\ new.status = "failed" /\ new.chunked = seen[r].chunked
      /\ "failed" \in Statuses
  <2>1. "failed" \in Statuses /\ seen[r] \in DocRow
    BY RowTyped DEF Typed, Statuses
  <2>2. QED BY <2>1 DEF DocRow
<1>2. runs[r].doc \in Docs /\ "returned" \in Places /\ runs[r].pc \in Writing
  BY DEF Typed, RunsHaveDocs, Writing, Places, Active, Working, Failing
<1>3. UNCHANGED <<life, njobs, chunks, pending>>
  BY DEF DeadLetter
<1>4. CASE /\ life[runs[r].doc] = "live"
           /\ Commit(r, new, "failed", "returned")
           /\ letters' = [letters EXCEPT ![runs[r].doc] = @ + 1]
  <2> HIDE DEF new
  <2>1. Progress(r)
    BY <1>1, <1>2, <1>4, CommitRows DEF Progress
  <2>2. /\ runs'[r].pc = "returned"
        /\ docs'[runs[r].doc].status =
             IF seen[r].status = "failed" THEN docs[runs[r].doc].status ELSE "failed"
        /\ runs[r].job \in Jobs => jobs'[runs[r].job].status =
             IF runs[r].jobSeen = "failed" THEN jobs[runs[r].job].status ELSE "failed"
    BY <1>1, <1>2, <1>4, CommitRows
  <2>3. QED BY <1>2, <1>3, <1>4, <2>1, <2>2
<1>5. CASE Goto(r, "returned") /\ UNCHANGED <<docs, jobs, seen, letters>>
  <2>1. Progress(r) /\ runs'[r].pc = "returned"
    BY <1>2, <1>5, ReturnRows DEF Progress
  <2>2. QED BY <1>2, <1>3, <1>5, <2>1
<1>6. QED BY <1>4, <1>5 DEF DeadLetter

\* The two steps that replace the chunk rows.
LEMMA DeleteChunksRows ==
  ASSUME Typed, NEW r \in Runs, DeleteChunks(r)
  PROVE  /\ runs[r].pc = "chunking" /\ runs[r].pc \in Writing /\ runs[r].doc \in Docs
         /\ UNCHANGED <<life, docs, jobs, njobs, letters, chunks, vectors, pending, queue, seen>>
         /\ runs'[r].doc = runs[r].doc /\ runs'[r].job = runs[r].job
         /\ runs'[r].jobSeen = runs[r].jobSeen
         /\ \A q \in Runs \ {r} : runs'[q] = runs[q]
         /\ \/ /\ runs'[r].pc = "replacing" /\ runs'[r].old = chunks[runs[r].doc]
               /\ runs'[r].first = HashIsNew(r)
               /\ runs'[r].first => RowFree(runs[r].doc)
            \/ runs'[r].pc = "returned" /\ runs'[r].first = runs[r].first
<1>1. /\ runs[r].pc = "chunking" /\ runs[r].pc \in Writing /\ runs[r].doc \in Docs
      /\ UNCHANGED <<life, docs, jobs, njobs, letters, chunks, vectors, pending, queue, seen>>
      /\ "returned" \in Places
  BY DEF DeleteChunks, Typed, RunsHaveDocs, Writing, Places, Active, Working
<1>2. CASE /\ HashIsNew(r) => life[runs[r].doc] = "live" /\ RowFree(runs[r].doc)
           /\ runs' = [runs EXCEPT ![r].pc = "replacing", ![r].old = chunks[runs[r].doc],
                                   ![r].first = HashIsNew(r)]
  <2> DEFINE old == chunks[runs[r].doc]
             first == HashIsNew(r)
  <2>1. /\ runs' = [runs EXCEPT ![r].pc = "replacing", ![r].old = old, ![r].first = first]
        /\ runs[r] \in RunRecord /\ runs \in [Runs -> RunRecord]
    BY <1>2 DEF Typed, TypeOK
  <2> HIDE DEF old, first
  <2>2. /\ runs'[r].pc = "replacing" /\ runs'[r].old = old /\ runs'[r].first = first
        /\ runs'[r].doc = runs[r].doc /\ runs'[r].job = runs[r].job
        /\ runs'[r].jobSeen = runs[r].jobSeen /\ \A q \in Runs \ {r} : runs'[q] = runs[q]
    BY <2>1 DEF RunRecord
  <2>3. QED BY <1>1, <1>2, <2>2 DEF old, first
<1>3. CASE Goto(r, "returned")
  BY <1>1, <1>3, ReturnRows
<1>4. QED BY <1>2, <1>3 DEF DeleteChunks

\* Chunk rows, if there are any, are written together with the chunk count, or the
\* document is gone.
LEMMA InsertChunksRows ==
  ASSUME Typed, NEW r \in Runs, InsertChunks(r)
  PROVE  /\ runs[r].pc = "replacing" /\ runs[r].pc \in Writing /\ runs[r].doc \in Docs
         /\ UNCHANGED <<life, jobs, njobs, letters, vectors, pending, queue>>
         /\ runs'[r].doc = runs[r].doc /\ runs'[r].job = runs[r].job
         /\ runs'[r].jobSeen = runs[r].jobSeen /\ runs'[r].first = runs[r].first
         /\ seen'[r].status = seen[r].status
         /\ \A q \in Runs \ {r} : runs'[q] = runs[q] /\ seen'[q] = seen[q]
         /\ \A e \in Docs : docs'[e].status = docs[e].status
         /\ \A e \in Docs \ {runs[r].doc} : docs'[e] = docs[e] /\ chunks'[e] = chunks[e]
         /\ \/ /\ life[runs[r].doc] = "live" /\ runs'[r].pc = "persisted"
               /\ chunks'[runs[r].doc] = (chunks[runs[r].doc] \ runs[r].old) \cup Yield(r)
               /\ docs'[runs[r].doc].chunked
            \/ /\ life[runs[r].doc] # "live" /\ runs'[r].pc \in {"persisted", "returned"}
               /\ UNCHANGED <<docs, chunks, seen>>
<1>1. /\ runs[r].pc = "replacing" /\ runs[r].pc \in Writing /\ runs[r].doc \in Docs
      /\ UNCHANGED <<life, jobs, njobs, letters, vectors, pending, queue>>
      /\ "returned" \in Places /\ "persisted" \in Places
  BY DEF InsertChunks, Typed, RunsHaveDocs, Writing, Places, Active, Working
<1>2. CASE /\ life[runs[r].doc] = "live"
           /\ chunks' = [chunks EXCEPT ![runs[r].doc] = (@ \ runs[r].old) \cup Yield(r)]
           /\ docs' = [docs EXCEPT ![runs[r].doc].chunked = TRUE]
           /\ seen' = [seen EXCEPT ![r].chunked = TRUE]
           /\ Goto(r, "persisted")
  <2>1. /\ docs \in [Docs -> DocRow] /\ seen \in [Runs -> DocRow]
        /\ chunks \in [Docs -> SUBSET Runs]
    BY DEF Typed, TypeOK
  <2>2. /\ \A e \in Docs : docs'[e].status = docs[e].status
        /\ \A e \in Docs \ {runs[r].doc} : docs'[e] = docs[e]
        /\ docs'[runs[r].doc].chunked
    BY <1>1, <1>2, <2>1 DEF DocRow
  <2>3. seen'[r].status = seen[r].status /\ \A q \in Runs \ {r} : seen'[q] = seen[q]
    BY <1>2, <2>1 DEF DocRow
  <2>4. /\ \A e \in Docs \ {runs[r].doc} : chunks'[e] = chunks[e]
        /\ chunks'[runs[r].doc] = (chunks[runs[r].doc] \ runs[r].old) \cup Yield(r)
    BY <1>1, <1>2, <2>1
  <2>5. QED BY <1>1, <1>2, <2>2, <2>3, <2>4, ReturnRows
<1>3. CASE /\ life[runs[r].doc] # "live" /\ UNCHANGED <<docs, chunks, seen>>
           /\ Goto(r, "persisted") \/ Goto(r, "returned")
  BY <1>1, <1>3, ReturnRows
<1>4. QED BY <1>2, <1>3 DEF InsertChunks

\* Which rows a client's call writes.
LEMMA ClientRows ==
  ASSUME Typed, NEW d \in Docs, Client(d)
  PROVE  /\ UNCHANGED <<runs, seen, vectors, queue>>
         /\ \A e \in Docs \ {d} : /\ life'[e] = life[e] /\ docs'[e] = docs[e]
                                  /\ letters'[e] = letters[e] /\ chunks'[e] = chunks[e]
                                  /\ JobsOf(e)' = JobsOf(e)
         /\ JobsOf(d) \subseteq JobsOf(d)'
         /\ \A e \in Docs : \A i \in JobsOf(e) : jobs'[i] = jobs[i]
         /\ \A i \in JobsOf(d)' \ JobsOf(d) : jobs'[i].status = "queued"
         /\ \/ /\ life[d] = "absent" /\ life'[d] = "live"
               /\ \E t \in {"none", "user"} : docs'[d] = NewRow(t)
               /\ \E i : JobsOf(d)' = JobsOf(d) \cup {i}
               /\ UNCHANGED <<letters, chunks>>
            \/ /\ life[d] = "live" /\ life'[d] = "live"
               /\ \/ docs'[d].status = docs[d].status /\ JobsOf(d)' = JobsOf(d)
                  \/ /\ docs'[d].status \in {"queued", docs[d].status}
                     /\ \E i : i \notin JobsOf(d) /\ JobsOf(d)' = JobsOf(d) \cup {i}
               /\ docs'[d].chunked = docs[d].chunked
               /\ UNCHANGED <<letters, chunks>>
            \/ /\ life[d] = "live" /\ life'[d] = "deleted" /\ JobsOf(d)' = JobsOf(d)
               /\ RowFree(d) /\ chunks'[d] = {}
<1>1. /\ life \in [Docs -> {"absent", "live", "deleted"}] /\ docs \in [Docs -> DocRow]
      /\ letters \in [Docs -> Nat] /\ chunks \in [Docs -> SUBSET Runs]
      /\ TypeOK
  BY DEF Typed, TypeOK
<1>2. \A e \in Docs : \A i \in JobsOf(e) : i \in 1 .. njobs
  BY DEF JobsOf
<1>3. CASE \E t \in {"none", "user"} : Upload(d, t)
  <2>1. PICK t \in {"none", "user"} : Upload(d, t)
    BY <1>3
  <2>2. /\ \A e \in Docs \ {d} : JobsOf(e)' = JobsOf(e)
        /\ JobsOf(d)' = JobsOf(d) \cup {njobs + 1}
        /\ \A i \in 1 .. njobs : jobs'[i] = jobs[i]
        /\ jobs'[njobs + 1].status = "queued"
    BY <1>1, <2>1, JobsOfInserted DEF Upload
  <2>3. /\ life[d] = "absent" /\ life'[d] = "live" /\ docs'[d] = NewRow(t)
        /\ \A e \in Docs \ {d} : life'[e] = life[e] /\ docs'[e] = docs[e]
        /\ UNCHANGED <<letters, chunks, runs, seen, vectors, queue>>
    BY <1>1, <2>1 DEF Upload
  <2>4. QED BY <1>2, <2>2, <2>3
<1>4. CASE \E t \in {"none", "user"} : UpdateTags(d, t)
  <2>1. PICK t \in {"none", "user"} : UpdateTags(d, t)
    BY <1>4
  <2>2. \A e \in Docs : JobsOf(e)' = JobsOf(e)
    BY <2>1 DEF UpdateTags, JobsOf
  <2>3. /\ life[d] = "live" /\ life' = life /\ jobs' = jobs
        /\ docs'[d].status = docs[d].status /\ docs'[d].chunked = docs[d].chunked
        /\ \A e \in Docs \ {d} : docs'[e] = docs[e]
        /\ UNCHANGED <<letters, chunks, runs, seen, vectors, queue>>
    BY <1>1, <2>1 DEF UpdateTags, DocRow
  <2>4. QED BY <2>2, <2>3
<1>5. CASE Reprocess(d)
  <2>1. /\ \A e \in Docs \ {d} : JobsOf(e)' = JobsOf(e)
        /\ JobsOf(d)' = JobsOf(d) \cup {njobs + 1} /\ njobs + 1 \notin JobsOf(d)
        /\ \A i \in 1 .. njobs : jobs'[i] = jobs[i]
        /\ jobs'[njobs + 1].status = "queued"
    BY <1>1, <1>5, JobsOfInserted DEF Reprocess
  <2>2. PICK s \in {"queued", docs[d].status} : docs' = [docs EXCEPT ![d].status = s]
    BY <1>5 DEF Reprocess
  <2>3. docs'[d].status = s /\ docs'[d].chunked = docs[d].chunked
        /\ \A e \in Docs \ {d} : docs'[e] = docs[e]
    BY <1>1, <2>2 DEF DocRow
  <2>4. /\ life[d] = "live" /\ life' = life
        /\ UNCHANGED <<letters, chunks, runs, seen, vectors, queue>>
    BY <1>5 DEF Reprocess
  <2>5. QED BY <1>2, <2>1, <2>3, <2>4
<1>6. CASE Delete(d)
  <2>1. \A e \in Docs : JobsOf(e)' = JobsOf(e)
    BY <1>6 DEF Delete, JobsOf
  <2>2. /\ life[d] = "live" /\ life'[d] = "deleted" /\ RowFree(d) /\ chunks'[d] = {}
        /\ \A e \in Docs \ {d} : /\ life'[e] = life[e] /\ docs'[e] = docs[e]
                                 /\ letters'[e] = letters[e] /\ chunks'[e] = chunks[e]
        /\ UNCHANGED <<jobs, runs, seen, vectors, queue>>
    BY <1>1, <1>6 DEF Delete
  <2>3. QED BY <2>1, <2>2
<1>7. QED BY <1>3, <1>4, <1>5, <1>6 DEF Client

\* Every step is one of these.
LEMMA StepCases ==
  ASSUME Typed, [Next]_vars
  PROVE  \/ \E d \in Docs : Client(d)
         \/ UNCHANGED <<life, docs, jobs, njobs, letters, chunks, vectors, runs, seen>>
         \/ \E r \in Runs, d \in Docs, k \in 0 .. MaxRetries : Deliver(r, d, k)
         \/ \E r \in Runs : Assigns(r)
         \/ \E r \in Runs : DeadLetter(r) /\ runs[r].pc = "parsing"
         \/ \E r \in Runs : DeleteChunks(r)
         \/ \E r \in Runs : InsertChunks(r)
         \/ \E r \in Runs : Aside(r)
<1>1. CASE \E d \in Docs : Enqueue(d) \/ EnqueueFails(d)
  BY <1>1 DEF Enqueue, EnqueueFails
<1>2. CASE UNCHANGED vars
  BY <1>2 DEF vars
<1>3. CASE \E r \in Runs : Work(r) \/ Fault(r)
  BY <1>3, RunStepKinds
<1>4. QED BY <1>1, <1>2, <1>3 DEF Next

-----------------------------------------------------------------------------
(* The job rows a run writes to. *)

\* No step takes a job row away: what is known stays known.
LEMMA KnownStep ==
  ASSUME Typed, Known, [Next]_vars
  PROVE  Known'
<1>1. ASSUME NEW r \in Runs, \A d \in Docs : JobsOf(d)' = JobsOf(d), life' = life,
             \A q \in Runs \ {r} : runs'[q] = runs[q],
             \/ runs'[r].pc \notin Writing
             \/ /\ runs[r].pc \in Writing
                /\ runs'[r].doc = runs[r].doc /\ runs'[r].job = runs[r].job
             \/ /\ life[runs'[r].doc] = "live" /\ runs'[r].doc \in Docs
                /\ runs'[r].job = LatestJob(runs'[r].doc)
      PROVE  Known'
  <2>1. AbsentHasNoJobs'
    BY <1>1 DEF Known, AbsentHasNoJobs
  <2>2. \A q \in Runs : runs[q].pc \in Writing => runs[q].doc \in Docs
    BY DEF Typed, RunsHaveDocs, Writing
  <2>3. \A q \in Runs \ {r} : (runs[q].pc \in Writing => runs[q].job \in JobsOf(runs[q].doc))'
    BY <1>1, <2>2 DEF Known, JobsMatch, JobsOf
  <2>4. (runs[r].pc \in Writing => runs[r].job \in JobsOf(runs[r].doc))'
    <3>1. CASE runs[r].pc \in Writing /\ runs'[r].doc = runs[r].doc
               /\ runs'[r].job = runs[r].job
      BY <1>1, <2>2, <3>1 DEF Known, JobsMatch, JobsOf
    <3>2. CASE /\ life[runs'[r].doc] = "live" /\ runs'[r].doc \in Docs
               /\ runs'[r].job = LatestJob(runs'[r].doc)
      <4>1. LatestJob(runs'[r].doc) \in JobsOf(runs'[r].doc)
        BY <3>2, LatestTyped DEF Typed
      <4>2. QED BY <1>1, <3>2, <4>1 DEF JobsOf
    <3>3. QED BY <1>1, <3>1, <3>2
  <2>5. JobsMatch'
    BY <2>3, <2>4 DEF JobsMatch, JobsOf
  <2>6. QED BY <2>1, <2>5 DEF Known
<1>2. CASE \E d \in Docs : Client(d)
  <2>1. PICK d \in Docs : Client(d)
    BY <1>2
  <2>2. \A e \in Docs : JobsOf(e) \subseteq JobsOf(e)'
    BY <2>1, ClientRows
  <2>3. runs' = runs
    BY <2>1, ClientRows
  <2>4. JobsMatch'
    BY <2>2, <2>3 DEF Known, JobsMatch, Typed, RunsHaveDocs, Writing
  <2>5. \A e \in Docs : life'[e] = "absent" => life[e] = "absent" /\ JobsOf(e)' = JobsOf(e)
    BY <2>1, ClientRows
  <2>6. AbsentHasNoJobs'
    BY <2>5 DEF Known, AbsentHasNoJobs
  <2>7. QED BY <2>4, <2>6 DEF Known
<1>3. CASE UNCHANGED <<life, docs, jobs, njobs, letters, chunks, vectors, runs, seen>>
  BY <1>3 DEF Known, JobsMatch, AbsentHasNoJobs, JobsOf
<1>4. CASE \E r \in Runs, d \in Docs, k \in 0 .. MaxRetries : Deliver(r, d, k)
  <2>1. PICK r \in Runs, d \in Docs, k \in 0 .. MaxRetries : Deliver(r, d, k)
    BY <1>4
  <2>2. UNCHANGED <<life, jobs, njobs>> /\ \A e \in Docs : JobsOf(e)' = JobsOf(e)
    BY <2>1, DeliverRows DEF JobsOf
  <2>3. "returned" \notin Writing
    BY DEF Writing
  <2>4. QED BY <1>1, <2>1, <2>2, <2>3, DeliverRows
<1>5. CASE \E r \in Runs : Assigns(r) \/ (DeadLetter(r) /\ runs[r].pc = "parsing")
  <2>1. PICK r \in Runs : Assigns(r) \/ (DeadLetter(r) /\ runs[r].pc = "parsing")
    BY <1>5
  <2>2. Progress(r) /\ UNCHANGED <<life, njobs>> /\ runs[r].pc \in Writing
    BY <2>1, AssignsRows, DeadLetterRows
  <2>3. \A d \in Docs : JobsOf(d)' = JobsOf(d)
    BY <2>2, JobsOfKept DEF Progress, Typed
  <2>4. QED BY <1>1, <2>2, <2>3 DEF Progress
<1>6. CASE \E r \in Runs : DeleteChunks(r) \/ InsertChunks(r)
  <2>1. PICK r \in Runs : DeleteChunks(r) \/ InsertChunks(r)
    BY <1>6
  <2>2. /\ UNCHANGED <<life, jobs, njobs>> /\ runs[r].pc \in Writing
        /\ runs'[r].doc = runs[r].doc /\ runs'[r].job = runs[r].job
        /\ \A q \in Runs \ {r} : runs'[q] = runs[q]
    BY <2>1, DeleteChunksRows, InsertChunksRows
  <2>3. \A d \in Docs : JobsOf(d)' = JobsOf(d)
    BY <2>2 DEF JobsOf
  <2>4. QED BY <1>1, <2>2, <2>3
<1>7. CASE \E r \in Runs : Aside(r)
  <2>1. PICK r \in Runs : Aside(r)
    BY <1>7
  <2>2. \A d \in Docs : JobsOf(d)' = JobsOf(d)
    BY <2>1, JobsOfKept DEF Aside, Typed
  <2>3. runs[r].doc \in Docs
    BY <2>1 DEF Aside, Typed, RunsHaveDocs
  <2>4. QED BY <1>1, <2>1, <2>2, <2>3 DEF Aside
<1>8. QED BY <1>2, <1>3, <1>4, <1>5, <1>6, <1>7, StepCases

\* At the start no run is at work and no job row exists.
LEMMA KnownInit == Init => Known
BY DEF Init, Known, JobsMatch, AbsentHasNoJobs, JobsOf, IdleRun, Writing, Active, Working, Failing

\* The types hold and every run at work knows its job.
LEMMA KnownAlways == Spec => []Known
BY KnownInit, KnownStep, TypedAlways, PTL DEF Spec

-----------------------------------------------------------------------------
(* The documents row and the chunk rows. *)

\* Only InsertChunks touches chunk rows of a live document, and it marks the row.
LEMMA ChunksStep ==
  ASSUME Typed, DeletedStaysEmpty, ChunksMatchRow, [Next]_vars
  PROVE  ChunksMatchRow'
<1> SUFFICES ASSUME NEW d \in Docs, life'[d] = "live"
             PROVE  chunks'[d] # {} <=> docs'[d].chunked /\ d \in TextDocs
  BY DEF ChunksMatchRow
<1>1. life[d] = "live" => (chunks[d] # {} <=> docs[d].chunked /\ d \in TextDocs)
  BY DEF ChunksMatchRow
<1>2. CASE \E e \in Docs : Client(e)
  <2>1. PICK e \in Docs : Client(e)
    BY <1>2
  <2>2. CASE e # d
    BY <1>1, <2>1, <2>2, ClientRows
  <2>3. CASE e = d /\ life[d] = "live"
    BY <1>1, <2>1, <2>3, ClientRows
  <2>4. CASE e = d /\ life[d] # "live"
    <3>1. chunks'[d] = {} /\ \E t \in {"none", "user"} : docs'[d] = NewRow(t)
      BY <2>1, <2>4, ClientRows DEF DeletedStaysEmpty
    <3>2. ~docs'[d].chunked
      BY <3>1 DEF NewRow
    <3>3. QED BY <3>1, <3>2
  <2>5. QED BY <2>2, <2>3, <2>4
<1>3. CASE UNCHANGED <<life, docs, jobs, njobs, letters, chunks, vectors, runs, seen>>
  BY <1>1, <1>3
<1>4. CASE \E r \in Runs, e \in Docs, k \in 0 .. MaxRetries : Deliver(r, e, k)
  BY <1>1, <1>4, DeliverRows
<1>5. CASE \E r \in Runs : Assigns(r) \/ (DeadLetter(r) /\ runs[r].pc = "parsing")
  <2>1. PICK r \in Runs : Assigns(r) \/ (DeadLetter(r) /\ runs[r].pc = "parsing")
    BY <1>5
  <2>2. Progress(r) /\ UNCHANGED <<life, chunks>>
    BY <2>1, AssignsRows, DeadLetterRows
  <2>3. docs'[d].chunked = docs[d].chunked
    BY <2>2 DEF Progress
  <2>4. QED BY <1>1, <2>2, <2>3
<1>6. CASE \E r \in Runs : DeleteChunks(r) \/ Aside(r)
  BY <1>1, <1>6, DeleteChunksRows DEF Aside
<1>7. CASE \E r \in Runs : InsertChunks(r)
  <2>1. PICK r \in Runs : InsertChunks(r)
    BY <1>7
  <2>2. CASE d # runs[r].doc \/ life[d] # "live"
    BY <1>1, <2>1, <2>2, InsertChunksRows
  <2>3. CASE d = runs[r].doc /\ life[d] = "live"
    <3>1. chunks'[d] = (chunks[d] \ runs[r].old) \cup Yield(r) /\ docs'[d].chunked
      BY <2>1, <2>3, InsertChunksRows
    <3>2. Yield(r) = IF d \in TextDocs THEN {r} ELSE {}
      BY <2>3 DEF Yield
    <3>3. QED BY <1>1, <2>3, <3>1, <3>2
  <2>4. QED BY <2>2, <2>3
<1>8. QED BY <1>2, <1>3, <1>4, <1>5, <1>6, <1>7, StepCases

\* Whatever interleaves, crashes or is retried, a reader of a live document finds chunk
\* rows exactly if its row says it has been chunked and its file yields text: the DELETE,
\* the INSERTs and the chunk count of worker_flow's persist step are one transaction.
THEOREM ChunksReplacedAtOnce == Spec => []ChunksMatchRow
<1>1. Init => ChunksMatchRow
  BY DEF Init, ChunksMatchRow
<1>2. QED BY <1>1, ChunksStep, TypedAlways, DeletedForGood, PTL DEF Spec

-----------------------------------------------------------------------------
(* Every failure has its dead letter. *)

\* "failed" is written by _dead_letter only, to the document and job of its letter.
LEMMA FailedStep ==
  ASSUME Typed, Known, FailedIsDeadLettered, [Next]_vars
  PROVE  FailedIsDeadLettered'
<1> SUFFICES ASSUME NEW d \in Docs, life'[d] = "live", letters'[d] = 0
             PROVE  /\ docs'[d].status # "failed"
                    /\ \A j \in JobsOf(d)' : jobs'[j].status # "failed"
  <2>1. Typed'
    BY TypedStep
  <2>2. letters' \in [Docs -> Nat]
    BY <2>1 DEF Typed, TypeOK
  <2>3. QED BY <2>2 DEF FailedIsDeadLettered
<1>1. letters[d] \in Nat /\ TypeOK
  BY DEF Typed, TypeOK
<1>2. (life[d] = "live" /\ letters[d] = 0) =>
        docs[d].status # "failed" /\ \A j \in JobsOf(d) : jobs[j].status # "failed"
  BY DEF FailedIsDeadLettered
<1>3. CASE \E e \in Docs : Client(e)
  <2>1. PICK e \in Docs : Client(e)
    BY <1>3
  <2>2. /\ \A j \in JobsOf(d) : jobs'[j] = jobs[j]
        /\ \A j \in JobsOf(d)' \ JobsOf(d) : jobs'[j].status = "queued"
    BY <2>1, ClientRows
  <2>3. CASE e # d
    BY <1>2, <2>1, <2>2, <2>3, ClientRows
  <2>4. CASE e = d /\ life[d] = "live"
    BY <1>2, <2>1, <2>2, <2>4, ClientRows
  <2>5. CASE e = d /\ life[d] # "live"
    <3>1. life[d] = "absent" /\ \E t \in {"none", "user"} : docs'[d] = NewRow(t)
      BY <2>1, <2>5, ClientRows
    <3>2. JobsOf(d) = {} /\ docs'[d].status = "queued"
      BY <3>1 DEF Known, AbsentHasNoJobs, NewRow
    <3>3. QED BY <2>2, <3>2
  <2>6. QED BY <2>3, <2>4, <2>5
<1>4. CASE UNCHANGED <<life, docs, jobs, njobs, letters, chunks, vectors, runs, seen>>
  BY <1>2, <1>4 DEF JobsOf
<1>5. CASE \E r \in Runs, e \in Docs, k \in 0 .. MaxRetries : Deliver(r, e, k)
  <2>1. UNCHANGED <<life, docs, jobs, njobs, letters>>
    BY <1>5, DeliverRows
  <2>2. QED BY <1>2, <2>1 DEF JobsOf
<1>6. CASE \E r \in Runs : Assigns(r)
  <2>1. PICK r \in Runs : Assigns(r)
    BY <1>6
  <2>2. /\ Progress(r) /\ runs[r].pc \in Writing /\ runs[r].doc \in Docs
        /\ UNCHANGED <<life, njobs, letters>>
    BY <2>1, AssignsRows
  <2>3. JobsOf(d)' = JobsOf(d) /\ \A j \in JobsOf(d) : j \in Jobs
    BY <1>1, <2>2, JobsOfKept, MaxJobsAssumption DEF Progress, JobsOf, TypeOK, Jobs
  <2>4. runs[r].job \in JobsOf(runs[r].doc) /\ runs[r].job \in Jobs
    BY <1>1, <2>2, MaxJobsAssumption DEF Known, JobsMatch, JobsOf, TypeOK, Jobs
  <2>5. docs[d].status # "failed" /\ \A j \in JobsOf(d) : jobs[j].status # "failed"
    BY <1>2, <2>2
  <2>6. CASE d # runs[r].doc
    <3>1. docs'[d] = docs[d]
      BY <2>2, <2>6 DEF Progress
    <3>2. \A j \in JobsOf(d) : j # runs[r].job
      BY <2>4, <2>6 DEF JobsOf
    <3>3. \A j \in JobsOf(d) : jobs'[j].status = jobs[j].status
      BY <2>2, <2>3, <3>2 DEF Progress
    <3>4. QED BY <2>3, <2>5, <3>1, <3>3
  <2>7. CASE d = runs[r].doc
    <3>1. CASE UNCHANGED <<docs, jobs>>
      BY <2>3, <2>5, <3>1
    <3>2. CASE \E s, st \in Statuses :
                 /\ \/ s = seen[r].status /\ st = runs[r].jobSeen
                    \/ s = st /\ st # "failed"
                 /\ docs'[runs[r].doc].status =
                      IF s = seen[r].status THEN docs[runs[r].doc].status ELSE s
                 /\ runs[r].job \in Jobs => jobs'[runs[r].job].status =
                      IF st = runs[r].jobSeen THEN jobs[runs[r].job].status ELSE st
      <4>1. docs'[d].status # "failed" /\ jobs'[runs[r].job].status # "failed"
        BY <2>4, <2>5, <2>7, <3>2
      <4>2. \A j \in JobsOf(d) : j # runs[r].job => jobs'[j].status = jobs[j].status
        BY <2>2, <2>3 DEF Progress
      <4>3. QED BY <2>3, <2>5, <4>1, <4>2
    <3>3. QED BY <2>1, <3>1, <3>2, AssignsRows
  <2>8. QED BY <2>6, <2>7
<1>7. CASE \E r \in Runs : DeadLetter(r) /\ runs[r].pc = "parsing"
  <2>1. PICK r \in Runs : DeadLetter(r) /\ runs[r].pc = "parsing"
    BY <1>7
  <2>2. /\ Progress(r) /\ runs[r].pc \in Writing /\ runs[r].doc \in Docs
        /\ UNCHANGED <<life, njobs>>
    BY <2>1, DeadLetterRows
  <2>3. JobsOf(d)' = JobsOf(d) /\ \A j \in JobsOf(d) : j \in Jobs
    BY <1>1, <2>2, JobsOfKept, MaxJobsAssumption DEF Progress, JobsOf, TypeOK, Jobs
  <2>4. runs[r].job \in JobsOf(runs[r].doc)
    BY <2>2 DEF Known, JobsMatch
  <2>5. CASE UNCHANGED <<docs, jobs, letters>>
    BY <1>2, <2>2, <2>3, <2>5
  <2>6. CASE letters' = [letters EXCEPT ![runs[r].doc] = @ + 1]
    <3>1. d # runs[r].doc
      BY <1>1, <2>6 DEF TypeOK
    <3>2. letters[d] = 0 /\ docs'[d] = docs[d]
      BY <1>1, <2>2, <2>6, <3>1 DEF TypeOK, Progress
    <3>3. \A j \in JobsOf(d) : j # runs[r].job
      BY <2>4, <3>1 DEF JobsOf
    <3>4. \A j \in JobsOf(d) : jobs'[j].status = jobs[j].status
      BY <2>2, <2>3, <3>3 DEF Progress
    <3>5. QED BY <1>2, <2>2, <2>3, <3>2, <3>4
  <2>7. QED BY <2>1, <2>5, <2>6, DeadLetterRows
<1>8. CASE \E r \in Runs : DeleteChunks(r) \/ InsertChunks(r)
  <2>1. /\ UNCHANGED <<life, jobs, njobs, letters>>
        /\ docs'[d].status = docs[d].status
    BY <1>8, DeleteChunksRows, InsertChunksRows
  <2>2. QED BY <1>2, <2>1 DEF JobsOf
<1>9. CASE \E r \in Runs : Aside(r)
  <2>1. /\ UNCHANGED <<life, docs, njobs, letters>>
        /\ \A j \in Jobs : jobs'[j].doc = jobs[j].doc /\ jobs'[j].status = jobs[j].status
    BY <1>9 DEF Aside
  <2>2. JobsOf(d)' = JobsOf(d) /\ \A j \in JobsOf(d) : j \in Jobs
    BY <1>1, <2>1, JobsOfKept, MaxJobsAssumption DEF JobsOf, TypeOK, Jobs
  <2>3. QED BY <1>2, <2>1, <2>2
<1>10. QED BY <1>3, <1>4, <1>5, <1>6, <1>7, <1>8, <1>9, StepCases

\* Whatever fails, is retried, redelivered or reprocessed, a document or a job that a
\* client sees as failed has an ingestion_errors row to explain it: _dead_letter writes
\* the three rows in one commit, and no other commit writes "failed".
THEOREM FailuresExplained == Spec => []FailedIsDeadLettered
<1>1. Init => FailedIsDeadLettered
  BY DEF Init, FailedIsDeadLettered
<1>2. QED BY <1>1, FailedStep, TypedAlways, KnownAlways, PTL DEF Spec

-----------------------------------------------------------------------------
(* Two first runs exclude each other. *)

\* A step that moves no chunk row, and no run into the open transaction of the persist
\* step, keeps the exclusion.
LEMMA ExcludingKept ==
  ASSUME Typed, Excluding, NEW r \in Runs, chunks' = chunks,
         \A q \in Runs \ {r} : runs'[q] = runs[q],
         \/ runs'[r].pc # "replacing"
         \/ /\ runs[r].pc = "replacing"
            /\ runs'[r].doc = runs[r].doc /\ runs'[r].old = runs[r].old,
         runs'[r].pc \in Early => runs[r].pc \in Early,
         runs'[r].first = runs[r].first \/ (runs[r].pc \in Early /\ runs'[r].pc # "replacing")
  PROVE  Excluding'
<1>1. \A d \in Docs : chunks[d] \subseteq Runs
  BY DEF Typed, TypeOK
<1>2. \A d \in Docs : r \in chunks[d] => runs[r].pc \notin Early
  BY DEF Excluding, InsertedOnce
<1>3. \A h \in Runs : \A d \in Docs : h \in chunks[d] => (runs'[h].first = runs[h].first)
  BY <1>2
<1>4. FirstRunsExclude'
  BY <1>1, <1>3 DEF Excluding, FirstRunsExclude
<1>5. InsertedOnce'
  BY <1>1 DEF Excluding, InsertedOnce
<1>6. "replacing" \in Active /\ "replacing" \in Early
  BY DEF Active, Working, Early
<1>7. \A q \in Runs : runs'[q].pc = "replacing" =>
        /\ runs[q].pc = "replacing" /\ runs'[q].doc = runs[q].doc
        /\ runs'[q].old = runs[q].old /\ runs'[q].first = runs[q].first
        /\ runs[q].doc \in Docs
  BY <1>6 DEF Typed, RunsHaveDocs
<1>8. OneHoldsTheRow'
  BY <1>7 DEF Excluding, OneHoldsTheRow
<1>9. FirstInOld'
  BY <1>1, <1>3, <1>7 DEF Excluding, FirstInOld
<1>10. QED BY <1>4, <1>5, <1>8, <1>9 DEF Excluding

\* The lock that DeleteChunks takes is what keeps a second first run out.
LEMMA ExcludingStep ==
  ASSUME Typed, Excluding, [Next]_vars
  PROVE  Excluding'
<1>1. CASE \E d \in Docs : Client(d)
  <2>1. PICK d \in Docs : Client(d)
    BY <1>1
  <2>2. runs' = runs /\ \A e \in Docs : chunks'[e] = chunks[e] \/ chunks'[e] = {}
    BY <2>1, ClientRows
  <2>3. \A q \in Runs : runs[q].pc = "replacing" => runs[q].doc \in Docs
    BY DEF Typed, RunsHaveDocs, Active, Working
  <2>4. QED
    BY <2>2, <2>3 DEF Excluding, FirstRunsExclude, FirstInOld, OneHoldsTheRow, InsertedOnce
<1>2. CASE UNCHANGED <<life, docs, jobs, njobs, letters, chunks, vectors, runs, seen>>
  BY <1>2 DEF Excluding, FirstRunsExclude, FirstInOld, OneHoldsTheRow, InsertedOnce
<1>3. CASE \E r \in Runs, d \in Docs, k \in 0 .. MaxRetries : Deliver(r, d, k)
  <2>1. PICK r \in Runs, d \in Docs, k \in 0 .. MaxRetries : Deliver(r, d, k)
    BY <1>3
  <2>2. /\ chunks' = chunks /\ \A q \in Runs \ {r} : runs'[q] = runs[q]
        /\ runs[r].pc = "idle" /\ runs'[r].pc \in {"loaded", "returned"}
    BY <2>1, DeliverRows
  <2>3. "idle" \in Early
    BY DEF Early
  <2>4. QED BY <2>2, <2>3, ExcludingKept
<1>4. CASE \E r \in Runs : Assigns(r) \/ (DeadLetter(r) /\ runs[r].pc = "parsing")
  <2>1. PICK r \in Runs : Assigns(r) \/ (DeadLetter(r) /\ runs[r].pc = "parsing")
    BY <1>4
  <2>2. /\ chunks' = chunks /\ Progress(r) /\ runs'[r].pc # "replacing"
        /\ runs'[r].pc \in Early => runs[r].pc \in Early
    BY <2>1, AssignsRows, DeadLetterRows DEF Early
  <2>3. QED BY <2>2, ExcludingKept DEF Progress
<1>5. CASE \E r \in Runs : Aside(r)
  <2>1. PICK r \in Runs : Aside(r)
    BY <1>5
  <2>2. "replacing" \in Early /\ "replacing" \in Writing
    BY DEF Early, Writing, Active, Working
  <2>3. QED BY <2>1, <2>2, ExcludingKept DEF Aside
<1>6. CASE \E r \in Runs : DeleteChunks(r)
  <2>1. PICK r \in Runs : DeleteChunks(r)
    BY <1>6
  <2>2. CASE runs'[r].pc = "returned"
    <3>1. /\ chunks' = chunks /\ \A q \in Runs \ {r} : runs'[q] = runs[q]
          /\ runs'[r].first = runs[r].first
      BY <2>1, <2>2, DeleteChunksRows
    <3>2. "returned" \notin Early
      BY DEF Early
    <3>3. QED BY <2>2, <3>1, <3>2, ExcludingKept
  <2>3. CASE runs'[r].pc # "returned"
    <3>1. /\ chunks' = chunks /\ \A q \in Runs \ {r} : runs'[q] = runs[q]
          /\ runs[r].pc = "chunking" /\ runs[r].doc \in Docs /\ runs'[r].doc = runs[r].doc
          /\ runs'[r].pc = "replacing" /\ runs'[r].old = chunks[runs[r].doc]
          /\ runs'[r].first => RowFree(runs[r].doc)
      BY <2>1, <2>3, DeleteChunksRows
    <3>2. \A d \in Docs : r \notin chunks[d]
      BY <3>1 DEF Excluding, InsertedOnce, Early
    <3>3. \A d \in Docs : chunks[d] \subseteq Runs
      BY DEF Typed, TypeOK
    <3>4. FirstRunsExclude' /\ InsertedOnce'
      BY <3>1, <3>2, <3>3 DEF Excluding, FirstRunsExclude, InsertedOnce
    <3>5. \A q \in Runs : runs[q].pc = "replacing" => runs[q].doc \in Docs
      BY DEF Typed, RunsHaveDocs, Active, Working
    <3>6. FirstInOld'
      BY <3>1, <3>2, <3>3, <3>5 DEF Excluding, FirstInOld
    <3>7. OneHoldsTheRow'
      BY <3>1, <3>5 DEF Excluding, OneHoldsTheRow, RowFree
    <3>8. QED BY <3>4, <3>6, <3>7 DEF Excluding
  <2>4. QED BY <2>2, <2>3
<1>7. CASE \E r \in Runs : InsertChunks(r)
  <2>1. PICK r \in Runs : InsertChunks(r)
    BY <1>7
  <2>2. CASE runs'[r].pc \in {"persisted", "returned"} /\ chunks' = chunks
    <3>1. /\ \A q \in Runs \ {r} : runs'[q] = runs[q]
          /\ runs'[r].first = runs[r].first
      BY <2>1, <2>2, InsertChunksRows
    <3>2. "persisted" \notin Early /\ "returned" \notin Early
      BY DEF Early
    <3>3. QED BY <2>2, <3>1, <3>2, ExcludingKept
  <2>3. CASE ~(runs'[r].pc \in {"persisted", "returned"} /\ chunks' = chunks)
    <3> DEFINE d == runs[r].doc
    <3>1. /\ \A q \in Runs \ {r} : runs'[q] = runs[q]
          /\ runs[r].pc = "replacing" /\ d \in Docs /\ runs'[r].pc = "persisted"
          /\ runs'[r].first = runs[r].first
          /\ chunks'[d] = (chunks[d] \ runs[r].old) \cup Yield(r) /\ Yield(r) \subseteq {r}
          /\ \A e \in Docs \ {d} : chunks'[e] = chunks[e]
      BY <2>1, <2>3, InsertChunksRows DEF Yield
    <3>2. \A e \in Docs : chunks[e] \subseteq Runs /\ r \notin chunks[e]
      BY <3>1 DEF Excluding, InsertedOnce, Early, Typed, TypeOK
    <3>3. \A q \in Runs : runs'[q].first = runs[q].first
      BY <3>1
    <3>4. runs[r].first => \A h \in chunks[d] : runs[h].first => h \in runs[r].old
      BY <3>1 DEF Excluding, FirstInOld
    <3> HIDE DEF d
    <3>5. FirstRunsExclude'
      <4> SUFFICES ASSUME NEW e \in Docs, NEW g \in chunks'[e], NEW h \in chunks'[e],
                          runs'[g].first, runs'[h].first
                   PROVE  g = h
        BY DEF FirstRunsExclude
      <4>1. CASE e # d
        BY <3>1, <3>2, <3>3, <4>1 DEF Excluding, FirstRunsExclude
      <4>2. CASE e = d
        <5>1. CASE g # r /\ h # r
          BY <3>1, <3>2, <3>3, <4>2, <5>1 DEF Excluding, FirstRunsExclude
        <5>2. CASE g = r \/ h = r
          BY <3>1, <3>2, <3>3, <3>4, <4>2, <5>2
        <5>3. QED BY <5>1, <5>2
      <4>3. QED BY <4>1, <4>2
    <3>6. InsertedOnce'
      BY <3>1, <3>2 DEF Excluding, InsertedOnce, Early
    <3>7. OneHoldsTheRow'
      BY <3>1 DEF Excluding, OneHoldsTheRow
    <3>8. FirstInOld'
      <4> SUFFICES ASSUME NEW q \in Runs, runs'[q].pc = "replacing", runs'[q].first,
                          NEW h \in chunks'[runs'[q].doc], runs'[h].first
                   PROVE  h \in runs'[q].old
        BY DEF FirstInOld
      <4>1. q # r /\ runs'[q] = runs[q] /\ runs[q].doc \in Docs
        BY <3>1 DEF Typed, RunsHaveDocs, Active, Working
      <4>2. h # r
        BY <3>1, <3>3, <3>2, <4>1 DEF Excluding, OneHoldsTheRow, d
      <4>3. h \in chunks[runs[q].doc] /\ runs[h].first
        BY <3>1, <3>2, <3>3, <4>1, <4>2
      <4>4. QED BY <4>1, <4>3 DEF Excluding, FirstInOld
    <3>9. QED BY <3>5, <3>6, <3>7, <3>8 DEF Excluding
  <2>4. QED BY <2>2, <2>3
<1>8. QED BY <1>1, <1>2, <1>3, <1>4, <1>5, <1>6, <1>7, StepCases

\* Of two runs that both ingest a document for the first time only one leaves its chunk
\* rows, whatever happens to either: the flush of content_hash holds the documents row
\* until the commit, so the second DELETE sees what the first run has inserted.
THEOREM FirstRunsAlone == Spec => []FirstRunsExclude
<1>1. Init => Excluding
  BY DEF Init, Excluding, FirstRunsExclude, FirstInOld, OneHoldsTheRow, InsertedOnce, IdleRun
<1>2. Excluding => FirstRunsExclude
  BY DEF Excluding
<1>3. QED BY <1>1, <1>2, ExcludingStep, TypedAlways, PTL DEF Spec

-----------------------------------------------------------------------------
(* The job shows what the document shows. *)

\* JobShowsDocument with what makes it inductive.
Agreeing == RowsAgree /\ CopiesAgree

\* A commit changes both statuses of a document that has one job, or neither.
LEMMA AgreeingStep ==
  ASSUME Typed, Known, Agreeing, [Next]_vars
  PROVE  Agreeing'
<1>1. CASE \E d \in Docs : Client(d)
  <2>1. PICK d \in Docs : Client(d)
    BY <1>1
  <2>2. /\ runs' = runs /\ seen' = seen
        /\ \A e \in Docs : JobsOf(e) \subseteq JobsOf(e)'
        /\ \A e \in Docs : \A i \in JobsOf(e) : jobs'[i] = jobs[i]
    BY <2>1, ClientRows
  <2>3. \A e \in Docs : Single(e)' => Single(e)
    BY <2>2 DEF Single
  <2>4. CopiesAgree'
    BY <2>2, <2>3 DEF Agreeing, CopiesAgree, Typed, RunsHaveDocs, Writing, Single
  <2>5. ASSUME NEW e \in Docs, life'[e] = "live", Single(e)', NEW j \in JobsOf(e)'
        PROVE  jobs'[j].status = docs'[e].status
    <3>1. CASE e # d
      <4>1. life[e] = "live" /\ docs'[e] = docs[e] /\ JobsOf(e)' = JobsOf(e)
        BY <2>1, <2>5, <3>1, ClientRows
      <4>2. QED BY <2>2, <2>3, <2>5, <4>1 DEF Agreeing, RowsAgree
    <3>2. CASE e = d /\ life[d] = "absent"
      <4>1. /\ JobsOf(d) = {} /\ \E t \in {"none", "user"} : docs'[d] = NewRow(t)
            /\ jobs'[j].status = "queued"
        BY <2>1, <2>5, <3>2, ClientRows DEF Known, AbsentHasNoJobs
      <4>2. QED BY <3>2, <4>1 DEF NewRow
    <3>3. CASE e = d /\ life[d] = "live"
      <4>1. PICK k \in JobsOf(d) : TRUE
        BY <3>3 DEF Typed, LatestExists
      <4>2. JobsOf(d)' = JobsOf(d) /\ docs'[d].status = docs[d].status
        BY <2>1, <2>2, <2>5, <3>3, <4>1, ClientRows DEF Single
      <4>3. QED BY <2>2, <2>3, <2>5, <3>3, <4>2 DEF Agreeing, RowsAgree
    <3>4. life[e] # "deleted"
      BY <2>1, <2>5, ClientRows
    <3>5. QED BY <3>1, <3>2, <3>3, <3>4 DEF Typed, TypeOK
  <2>6. RowsAgree'
    BY <2>5 DEF RowsAgree
  <2>7. QED BY <2>4, <2>6 DEF Agreeing
<1>2. CASE UNCHANGED <<life, docs, jobs, njobs, letters, chunks, vectors, runs, seen>>
  BY <1>2 DEF Agreeing, RowsAgree, CopiesAgree, Single, JobsOf
<1>3. ASSUME UNCHANGED <<life, njobs>>, \A i \in Jobs : jobs'[i].doc = jobs[i].doc,
             \A i \in Jobs : jobs'[i].status = jobs[i].status,
             \A e \in Docs : docs'[e].status = docs[e].status,
             NEW r \in Runs, \A q \in Runs \ {r} : runs'[q] = runs[q] /\ seen'[q] = seen[q],
             \/ runs'[r].pc \notin Writing
             \/ /\ runs[r].pc \in Writing /\ runs'[r].doc = runs[r].doc
                /\ runs'[r].jobSeen = runs[r].jobSeen /\ seen'[r].status = seen[r].status
             \/ /\ runs'[r].doc \in Docs /\ life[runs'[r].doc] = "live"
                /\ runs'[r].jobSeen = jobs[LatestJob(runs'[r].doc)].status
                /\ seen'[r].status = docs[runs'[r].doc].status
      PROVE  Agreeing'
  <2>1. /\ \A d \in Docs : JobsOf(d)' = JobsOf(d)
        /\ \A d \in Docs : \A i \in JobsOf(d) : i \in Jobs
    BY <1>3, JobsOfKept, MaxJobsAssumption DEF Typed, TypeOK, JobsOf, Jobs
  <2>2. \A d \in Docs : Single(d)' <=> Single(d)
    BY <2>1 DEF Single
  <2>3. RowsAgree'
    BY <1>3, <2>1, <2>2 DEF Agreeing, RowsAgree
  <2>4. ASSUME NEW q \in Runs, runs'[q].pc \in Writing, (Single(runs[q].doc))'
        PROVE  seen'[q].status = runs'[q].jobSeen
    <3>1. \A s \in Runs : runs[s].pc \in Writing => runs[s].doc \in Docs
      BY DEF Typed, RunsHaveDocs, Writing
    <3>2. CASE q # r \/ (runs[r].pc \in Writing /\ runs'[r].doc = runs[r].doc
                         /\ runs'[r].jobSeen = runs[r].jobSeen /\ seen'[r].status = seen[r].status)
      <4>1. runs[q].pc \in Writing /\ runs'[q].doc = runs[q].doc
            /\ runs'[q].jobSeen = runs[q].jobSeen /\ seen'[q].status = seen[q].status
        BY <1>3, <2>4, <3>2
      <4>2. Single(runs[q].doc)
        BY <2>1, <2>4, <3>1, <4>1 DEF Single, JobsOf
      <4>3. QED BY <4>1, <4>2 DEF Agreeing, CopiesAgree
    <3>3. CASE /\ q = r
               /\ runs'[r].doc \in Docs /\ life[runs'[r].doc] = "live"
               /\ runs'[r].jobSeen = jobs[LatestJob(runs'[r].doc)].status
               /\ seen'[r].status = docs[runs'[r].doc].status
      <4>1. Single(runs'[r].doc)
        BY <2>1, <2>4, <3>3 DEF Single, JobsOf
      <4>2. LatestJob(runs'[r].doc) \in JobsOf(runs'[r].doc)
        BY <3>3, LatestTyped DEF Typed
      <4>3. QED BY <3>3, <4>1, <4>2 DEF Agreeing, RowsAgree
    <3>4. QED BY <1>3, <2>4, <3>2, <3>3
  <2>5. CopiesAgree'
    BY <2>4 DEF CopiesAgree
  <2>6. QED BY <2>3, <2>5 DEF Agreeing
<1>4. CASE \E r \in Runs, d \in Docs, k \in 0 .. MaxRetries : Deliver(r, d, k)
  <2>1. PICK r \in Runs, d \in Docs, k \in 0 .. MaxRetries : Deliver(r, d, k)
    BY <1>4
  <2>2. "returned" \notin Writing
    BY DEF Writing
  <2>3. QED BY <1>3, <2>1, <2>2, DeliverRows
<1>5. CASE \E r \in Runs : DeleteChunks(r) \/ InsertChunks(r)
  <2>1. PICK r \in Runs : DeleteChunks(r) \/ InsertChunks(r)
    BY <1>5
  <2>2. /\ UNCHANGED <<life, njobs, jobs>> /\ runs[r].pc \in Writing
        /\ \A e \in Docs : docs'[e].status = docs[e].status
        /\ runs'[r].doc = runs[r].doc /\ runs'[r].jobSeen = runs[r].jobSeen
        /\ seen'[r].status = seen[r].status
        /\ \A q \in Runs \ {r} : runs'[q] = runs[q] /\ seen'[q] = seen[q]
    BY <2>1, DeleteChunksRows, InsertChunksRows
  <2>3. QED BY <1>3, <2>2
<1>6. CASE \E r \in Runs : Aside(r)
  <2>1. PICK r \in Runs : Aside(r)
    BY <1>6
  <2>2. runs[r].doc \in Docs
    BY <2>1 DEF Aside, Typed, RunsHaveDocs
  <2>3. LatestJob(runs[r].doc) \in Jobs \/ life[runs[r].doc] # "live"
    BY <2>2, LatestTyped DEF Typed
  <2>4. QED BY <1>3, <2>1, <2>2, <2>3 DEF Aside
<1>7. ASSUME NEW r \in Runs, Progress(r), runs[r].pc \in Writing, runs[r].doc \in Docs,
             UNCHANGED <<life, njobs>>,
             \/ UNCHANGED <<docs, jobs>> /\ runs'[r].pc = "returned"
             \/ \E s, st \in Statuses :
                  /\ \/ s = seen[r].status /\ st = runs[r].jobSeen
                     \/ s = st
                  /\ docs'[runs[r].doc].status =
                       IF s = seen[r].status THEN docs[runs[r].doc].status ELSE s
                  /\ runs[r].job \in Jobs => jobs'[runs[r].job].status =
                       IF st = runs[r].jobSeen THEN jobs[runs[r].job].status ELSE st
                  /\ \/ seen'[r].status = s /\ runs'[r].jobSeen = st
                     \/ runs'[r].pc = "returned"
      PROVE  Agreeing'
  <2> DEFINE d == runs[r].doc
             j == runs[r].job
  <2>1. /\ \A e \in Docs : JobsOf(e)' = JobsOf(e)
        /\ \A e \in Docs : \A i \in JobsOf(e) : i \in Jobs
    BY <1>7, JobsOfKept, MaxJobsAssumption DEF Progress, Typed, TypeOK, JobsOf, Jobs
  <2>2. \A e \in Docs : Single(e)' <=> Single(e)
    BY <2>1 DEF Single
  <2>3. j \in JobsOf(d) /\ j \in Jobs /\ \A e \in Docs \ {d} : j \notin JobsOf(e)
    BY <1>7, <2>1 DEF Known, JobsMatch, JobsOf
  <2>4. "returned" \notin Writing
    BY DEF Writing
  <2>5. \A q \in Runs : q # r => runs'[q] = runs[q] /\ seen'[q] = seen[q]
    BY <1>7 DEF Progress
  <2>6. CASE UNCHANGED <<docs, jobs>> /\ runs'[r].pc = "returned"
    BY <1>3, <1>7, <2>4, <2>5, <2>6
  <2>7. CASE \E s, st \in Statuses :
               /\ \/ s = seen[r].status /\ st = runs[r].jobSeen
                  \/ s = st
               /\ docs'[d].status = IF s = seen[r].status THEN docs[d].status ELSE s
               /\ jobs'[j].status = IF st = runs[r].jobSeen THEN jobs[j].status ELSE st
               /\ \/ seen'[r].status = s /\ runs'[r].jobSeen = st
                  \/ runs'[r].pc = "returned"
    <3>1. PICK s, st \in Statuses :
               /\ \/ s = seen[r].status /\ st = runs[r].jobSeen
                  \/ s = st
               /\ docs'[d].status = IF s = seen[r].status THEN docs[d].status ELSE s
               /\ jobs'[j].status = IF st = runs[r].jobSeen THEN jobs[j].status ELSE st
               /\ \/ seen'[r].status = s /\ runs'[r].jobSeen = st
                  \/ runs'[r].pc = "returned"
      BY <2>7
    <3>2. \A i \in Jobs : i # j => jobs'[i].status = jobs[i].status
      BY <1>7 DEF Progress
    <3>3. \A e \in Docs \ {d} : docs'[e] = docs[e]
      BY <1>7 DEF Progress
    <3>4. runs'[r].doc = d
      BY <1>7 DEF Progress
    <3>5. Single(d) => seen[r].status = runs[r].jobSeen
      BY <1>7 DEF Agreeing, CopiesAgree
    <3> HIDE DEF d, j
    <3>6. ASSUME NEW e \in Docs, life'[e] = "live", Single(e)', NEW i \in JobsOf(e)'
          PROVE  jobs'[i].status = docs'[e].status
      <4>1. life[e] = "live" /\ Single(e) /\ i \in JobsOf(e) /\ i \in Jobs
        BY <1>7, <2>1, <2>2, <3>6
      <4>2. jobs[i].status = docs[e].status
        BY <4>1 DEF Agreeing, RowsAgree
      <4>3. CASE e # d
        BY <2>3, <3>2, <3>3, <4>1, <4>2, <4>3
      <4>4. CASE e = d
        <5>1. i = j /\ seen[r].status = runs[r].jobSeen
          BY <2>3, <3>5, <4>1, <4>4 DEF Single
        <5>2. QED BY <3>1, <4>2, <4>4, <5>1
      <4>5. QED BY <4>3, <4>4
    <3>7. RowsAgree'
      BY <3>6 DEF RowsAgree
    <3>8. ASSUME NEW q \in Runs, runs'[q].pc \in Writing, (Single(runs[q].doc))'
          PROVE  seen'[q].status = runs'[q].jobSeen
      <4>1. \A e \in Docs : (e = runs'[q].doc => Single(e))
        BY <2>1, <3>8 DEF Single, JobsOf
      <4>2. CASE q # r
        <5>1. runs'[q] = runs[q] /\ seen'[q] = seen[q] /\ runs[q].doc \in Docs
          BY <2>5, <3>8, <4>2 DEF Typed, RunsHaveDocs, Writing
        <5>2. Single(runs[q].doc)
          BY <4>1, <5>1
        <5>3. QED BY <3>8, <5>1, <5>2 DEF Agreeing, CopiesAgree
      <4>3. CASE q = r
        <5>1. Single(d) /\ seen[r].status = runs[r].jobSeen
          BY <1>7, <3>4, <3>5, <4>1, <4>3 DEF d
        <5>2. QED BY <2>4, <3>1, <3>8, <4>3, <5>1
      <4>4. QED BY <4>2, <4>3
    <3>9. CopiesAgree'
      BY <3>8 DEF CopiesAgree
    <3>10. QED BY <3>7, <3>9 DEF Agreeing
  <2>8. QED BY <1>7, <2>3, <2>6, <2>7
<1>8. CASE \E r \in Runs : Assigns(r)
  BY <1>7, <1>8, AssignsRows
<1>9. CASE \E r \in Runs : DeadLetter(r) /\ runs[r].pc = "parsing"
  <2>1. PICK r \in Runs : DeadLetter(r) /\ runs[r].pc = "parsing"
    BY <1>9
  <2>2. "failed" \in Statuses
    BY DEF Statuses
  <2>3. QED BY <1>7, <2>1, <2>2, DeadLetterRows
<1>10. QED BY <1>1, <1>2, <1>4, <1>5, <1>6, <1>8, <1>9, StepCases

\* As long as a document has had one job only, a client that polls the job sees what the
\* documents table shows, whatever is delivered twice, crashes or fails, and even if runs
\* overlap: whoever writes one status writes the other in the same commit, from copies
\* that agree.
THEOREM JobAndDocumentAgree == Spec => []JobShowsDocument
<1>1. Init => Agreeing
  BY DEF Init, Agreeing, RowsAgree, CopiesAgree, IdleRun, Writing, Active, Working, Failing
<1>2. Typed /\ Agreeing => JobShowsDocument
  <2> SUFFICES ASSUME Typed, Agreeing, NEW d \in Docs, life[d] = "live",
                      Cardinality(JobsOf(d)) = 1
               PROVE  jobs[LatestJob(d)].status = docs[d].status
    BY DEF JobShowsDocument
  <2>1. IsFiniteSet(JobsOf(d))
    <3>1. njobs \in Nat /\ JobsOf(d) \subseteq 1 .. njobs
      BY MaxJobsAssumption DEF Typed, TypeOK, JobsOf
    <3>2. QED BY <3>1, FS_Interval, FS_Subset, SMTT(30)
  <2>2. Single(d)
    <3>1. PICK j : JobsOf(d) = {j}
      BY <2>1, FS_Singleton
    <3>2. QED BY <3>1 DEF Single
  <2>3. LatestJob(d) \in JobsOf(d)
    BY LatestTyped DEF Typed
  <2>4. QED BY <2>2, <2>3 DEF Agreeing, RowsAgree
<1>3. QED BY <1>1, <1>2, AgreeingStep, TypedAlways, KnownAlways, PTL DEF Spec

-----------------------------------------------------------------------------
(* Where runs do not overlap. *)

\* The environment of the theorems below: nobody reprocesses, no worker crashes and no
\* visibility timeout passes, so that a document has one message or run at a time.
Sequential == Events \cap {"reprocess", "crash", "redeliver"} = {}

\* Run r has still to settle document d.
Holds(r, d) == runs[r].doc = d /\ runs[r].pc \in Working \cup Failing

\* Nothing waits for a run of document d.
NoneWaits(d) == pending[d] = 0 /\ \A k \in 0 .. MaxRetries : queue[d][k] = 0

\* A document is with one request, with one message, or with one run, if with any.
WithOne(d) ==
  /\ pending[d] \in {0, 1} /\ \A k \in 0 .. MaxRetries : queue[d][k] \in {0, 1}
  /\ pending[d] = 1 => \A k \in 0 .. MaxRetries : queue[d][k] = 0
  /\ \A k, l \in 0 .. MaxRetries : queue[d][k] = 1 /\ queue[d][l] = 1 => k = l
  /\ \A r \in Runs : Holds(r, d) => NoneWaits(d)
  /\ \A q, r \in Runs : Holds(q, d) /\ Holds(r, d) => q = r
  /\ life[d] = "absent" => NoneWaits(d) /\ \A r \in Runs : ~Holds(r, d)

\* Places by what the run has done before it gets there.
HasChunks  == {"persisted", "embedding", "in_progress", "upserted", "embedded",
               "graph_mapping", "finalizing"}
HasVectors == {"upserted", "embedded", "graph_mapping", "finalizing"}
HasEmbedded == {"embedded", "graph_mapping", "finalizing"}

\* The chunk rows that run r leaves of document d.
Text(r, d) == IF d \in TextDocs THEN {r} ELSE {}

\* What the run that works on document d has read and written.
UpToDate(r, d) ==
  /\ seen[r].status = docs[d].status /\ seen[r].emb = docs[d].emb
  /\ docs[d].status \notin Terminal
  /\ runs[r].pc # "loaded" => docs[d].status # "queued"
  /\ runs[r].pc = "finalizing" => docs[d].status = "finalizing"
  /\ runs[r].pc = "replacing" => runs[r].old = chunks[d]
  /\ runs[r].pc \in HasChunks => chunks[d] = Text(r, d)
  /\ runs[r].pc \in HasVectors => Text(r, d) \subseteq vectors[d]
  /\ runs[r].pc \in HasEmbedded => seen[r].emb = "completed"

\* It has chunk rows if it has text, they all have vectors, and its row says so.
Indexed(d) ==
  /\ chunks[d] # {} <=> d \in TextDocs
  /\ chunks[d] \subseteq vectors[d] /\ docs[d].emb = "completed"

\* Whoever it is with knows how far it is, and a completed document is indexed.
Fine(d) ==
  /\ WithOne(d)
  /\ life[d] = "live" =>
       /\ pending[d] = 1 => docs[d].status = "queued"
       /\ \A k \in 0 .. MaxRetries : queue[d][k] = 1 => docs[d].status \notin Terminal
       /\ \A r \in Runs : Holds(r, d) => UpToDate(r, d)
       /\ docs[d].status = "completed" => Indexed(d)

\* The inductive invariant of the two theorems.
InTurn == \A d \in Docs : Fine(d)

\* A step that concerns another document.
LEMMA FineElsewhere ==
  ASSUME Typed, NEW e \in Docs, Fine(e), life'[e] = life[e], docs'[e] = docs[e],
         chunks'[e] = chunks[e], vectors'[e] = vectors[e], pending'[e] = pending[e],
         queue'[e] = queue[e],
         \A q \in Runs : Holds(q, e) => runs'[q] = runs[q] /\ seen'[q] = seen[q],
         \A q \in Runs : Holds(q, e)' => Holds(q, e)
  PROVE  Fine(e)'
<1>1. WithOne(e)'
  BY DEF Fine, WithOne, NoneWaits
<1>2. NoneWaits(e) => NoneWaits(e)'
  BY DEF NoneWaits
<1>3. \A q \in Runs : Holds(q, e)' /\ UpToDate(q, e) => UpToDate(q, e)'
  BY DEF UpToDate
<1>4. Indexed(e) => Indexed(e)'
  BY DEF Indexed
<1>5. QED BY <1>1, <1>3, <1>4 DEF Fine

\* A step of run r.
RunStep(r) ==
  /\ runs[r].doc \in Docs
  /\ \A q \in Runs \ {r} : runs'[q] = runs[q] /\ seen'[q] = seen[q]
  /\ runs'[r].doc = runs[r].doc \/ runs'[r].pc = "ended"
  /\ \A e \in Docs \ {runs[r].doc} : /\ docs'[e] = docs[e] /\ chunks'[e] = chunks[e]
                                     /\ vectors'[e] = vectors[e] /\ queue'[e] = queue[e]
  /\ UNCHANGED <<life, pending>>

\* It leaves the others in turn,
LEMMA OthersInTurn ==
  ASSUME Typed, InTurn, NEW r \in Runs, NEW d \in Docs, runs[r].doc = d, RunStep(r), Fine(d)'
  PROVE  InTurn'
<1> SUFFICES ASSUME NEW e \in Docs PROVE Fine(e)'
  BY DEF InTurn
<1>1. CASE e = d
  BY <1>1
<1>2. CASE e # d
  <2>1. "ended" \notin Working \cup Failing
    BY DEF Working, Failing
  <2>2. \A q \in Runs : Holds(q, e) => q # r
    BY <1>2 DEF Holds
  <2>3. \A q \in Runs : Holds(q, e)' => Holds(q, e)
    BY <1>2, <2>1 DEF Holds, RunStep
  <2>4. QED BY <1>2, <2>2, <2>3, FineElsewhere DEF InTurn, RunStep
<1>3. QED BY <1>1, <1>2

\* and its own document if it goes on with it and knows how far it is,
LEMMA HeldInTurn ==
  ASSUME Typed, InTurn, NEW r \in Runs, NEW d \in Docs, runs[r].doc = d, RunStep(r),
         runs[r].pc \in Working \cup Failing, runs'[r].pc \in Working \cup Failing,
         queue' = queue, life[d] = "live" => UpToDate(r, d)'
  PROVE  InTurn'
<1>1. /\ WithOne(d) /\ Holds(r, d) /\ NoneWaits(d) /\ life[d] # "absent"
  BY DEF InTurn, Fine, WithOne, Holds
<1>2. \A q \in Runs : Holds(q, d) => q = r
  BY <1>1 DEF WithOne
<1>3. /\ life'[d] = life[d] /\ pending'[d] = pending[d] /\ runs'[r].doc = d
      /\ \A q \in Runs \ {r} : runs'[q] = runs[q]
  <2>1. "ended" \notin Working \cup Failing
    BY DEF Working, Failing
  <2>2. QED BY <2>1 DEF RunStep
<1>4. \A q \in Runs : Holds(q, d)' => q = r
  BY <1>2, <1>3 DEF Holds
<1>5. NoneWaits(d)'
  BY <1>1, <1>3 DEF NoneWaits
<1>6. WithOne(d)'
  BY <1>1, <1>3, <1>4, <1>5 DEF WithOne, NoneWaits
<1>7. UpToDate(r, d)' => docs'[d].status \notin Terminal
  BY DEF UpToDate
<1>8. Fine(d)'
  BY <1>3, <1>4, <1>5, <1>6, <1>7 DEF Fine, NoneWaits, Terminal
<1>9. QED BY <1>8, OthersInTurn

\* or leaves it, completed only if it is indexed,
LEMMA LeftInTurn ==
  ASSUME Typed, InTurn, NEW r \in Runs, NEW d \in Docs, runs[r].doc = d, RunStep(r),
         runs[r].pc \in Working \cup Failing, runs'[r].pc \notin Working \cup Failing,
         queue' = queue, (life[d] = "live" /\ docs'[d].status = "completed") => Indexed(d)'
  PROVE  InTurn'
<1>1. /\ WithOne(d) /\ Holds(r, d) /\ NoneWaits(d) /\ life[d] # "absent"
  BY DEF InTurn, Fine, WithOne, Holds
<1>2. \A q \in Runs : Holds(q, d) => q = r
  BY <1>1 DEF WithOne
<1>3. /\ life'[d] = life[d] /\ pending'[d] = pending[d]
      /\ \A q \in Runs \ {r} : runs'[q] = runs[q]
  BY DEF RunStep
<1>4. \A q \in Runs : ~Holds(q, d)'
  BY <1>2, <1>3 DEF Holds
<1>5. NoneWaits(d)'
  BY <1>1, <1>3 DEF NoneWaits
<1>6. WithOne(d)'
  BY <1>1, <1>3, <1>4, <1>5 DEF WithOne, NoneWaits
<1>7. Fine(d)'
  BY <1>3, <1>4, <1>5, <1>6 DEF Fine, NoneWaits
<1>8. QED BY <1>7, OthersInTurn

\* and a run that has left it already changes nothing.
LEMMA IdlerInTurn ==
  ASSUME Typed, InTurn, NEW r \in Runs, RunStep(r), runs[r].pc \notin Working \cup Failing,
         runs'[r].pc \notin Working \cup Failing, UNCHANGED <<docs, queue, chunks, vectors>>
  PROVE  InTurn'
<1>1. \A e \in Docs : \A q \in Runs : Holds(q, e) => q # r
  BY DEF Holds
<1>2. \A e \in Docs : \A q \in Runs : Holds(q, e)' => Holds(q, e)
  BY DEF Holds, RunStep
<1>3. \A e \in Docs : Fine(e)'
  <2> TAKE e \in Docs
  <2>1. Fine(e)
    BY DEF InTurn
  <2>2. QED BY <1>1, <1>2, <2>1, FineElsewhere DEF RunStep
<1>4. QED BY <1>3 DEF InTurn

\* A commit of a run that holds document d, or its failure because d is deleted: in turn
\* if what the run has committed is what it has to have done by the place it goes to.
LEMMA CommitInTurn ==
  ASSUME Typed, InTurn, NEW r \in Runs, NEW d \in Docs, runs[r].doc = d,
         runs[r].pc \in Working \cup Failing,
         NEW new \in DocRow, NEW st \in Statuses, NEW p \in Places, new.chunked = seen[r].chunked,
         \/ Commit(r, new, st, p)
         \/ life[d] # "live" /\ Goto(r, "returned") /\ UNCHANGED <<docs, seen>>,
         UNCHANGED <<life, pending, queue, chunks>>,
         \A e \in Docs \ {d} : vectors'[e] = vectors[e],
         vectors[d] \subseteq vectors'[d],
         (life[d] = "live" /\ p \in Working \cup Failing) =>
           /\ new.status \notin Terminal
           /\ p # "loaded" => new.status # "queued"
           /\ p = "finalizing" => new.status = "finalizing"
           /\ p # "replacing"
           /\ p \in HasChunks => chunks[d] = Text(r, d)
           /\ p \in HasVectors => Text(r, d) \subseteq vectors'[d]
           /\ p \in HasEmbedded => new.emb = "completed",
         (life[d] = "live" /\ p \notin Working \cup Failing /\ new.status = "completed") =>
           /\ chunks[d] # {} <=> d \in TextDocs
           /\ chunks[d] \subseteq vectors'[d] /\ new.emb = "completed"
  PROVE  InTurn'
<1>1. "returned" \notin Working \cup Failing
  BY DEF Working, Failing
<1>2. Holds(r, d) /\ Fine(d)
  BY DEF Holds, InTurn
<1>3. CASE Commit(r, new, st, p)
  <2>1. /\ \A e \in Docs \ {d} : docs'[e] = docs[e]
        /\ docs'[d].status = IF new.status = seen[r].status THEN docs[d].status ELSE new.status
        /\ seen'[r] = new
        /\ runs'[r].pc = p /\ runs'[r].doc = d
        /\ \A q \in Runs \ {r} : runs'[q] = runs[q] /\ seen'[q] = seen[q]
    BY <1>3, CommitRows
  <2>2. docs'[d] = IF new = seen[r] THEN docs[d] ELSE Flushed(d, r, new)
    BY <1>3 DEF Commit, Typed, TypeOK
  <2>3. docs'[d].emb = IF new.emb = seen[r].emb THEN docs[d].emb ELSE new.emb
    BY <2>2 DEF Flushed
  <2>4. life[d] = "live" => docs'[d].status = new.status /\ docs'[d].emb = new.emb
    BY <1>2, <2>1, <2>3 DEF Fine, UpToDate
  <2>5. RunStep(r)
    BY <2>1 DEF RunStep
  <2>6. CASE p \in Working \cup Failing
    <3>1. life[d] = "live" => UpToDate(r, d)'
      BY <2>1, <2>4, <2>6 DEF UpToDate
    <3>2. QED BY <2>1, <2>5, <2>6, <3>1, HeldInTurn
  <2>7. CASE p \notin Working \cup Failing
    <3>1. (life[d] = "live" /\ docs'[d].status = "completed") => Indexed(d)'
      BY <2>4, <2>7 DEF Indexed
    <3>2. QED BY <2>1, <2>5, <2>7, <3>1, LeftInTurn
  <2>8. QED BY <2>6, <2>7
<1>4. CASE life[d] # "live" /\ Goto(r, "returned") /\ UNCHANGED <<docs, seen>>
  <2>1. /\ runs'[r].pc = "returned" /\ runs'[r].doc = d
        /\ \A q \in Runs \ {r} : runs'[q] = runs[q] /\ seen'[q] = seen[q]
    BY <1>4 DEF Goto, Typed, TypeOK, RunRecord
  <2>2. RunStep(r)
    BY <1>4, <2>1 DEF RunStep
  <2>3. QED BY <1>1, <1>4, <2>1, <2>2, LeftInTurn
<1>5. QED BY <1>3, <1>4

\* A step of run r, which holds document d, from a place to a place without a commit.
LEMMA GotoInTurn ==
  ASSUME Typed, InTurn, NEW r \in Runs, NEW d \in Docs, runs[r].doc = d,
         runs[r].pc \in Working \cup Failing, NEW p \in Places, Goto(r, p),
         UNCHANGED <<life, pending, queue, chunks, docs, seen>>,
         \A e \in Docs \ {d} : vectors'[e] = vectors[e],
         vectors[d] \subseteq vectors'[d],
         life[d] = "live" =>
           /\ p \notin {"loaded", "finalizing", "replacing"}
           /\ p \in HasChunks => runs[r].pc \in HasChunks
           /\ p \in HasVectors => Text(r, d) \subseteq vectors'[d]
           /\ p \notin HasEmbedded
           /\ runs[r].pc # "loaded"
  PROVE  InTurn'
<1>1. /\ runs'[r].pc = p /\ runs'[r].doc = d
      /\ \A q \in Runs \ {r} : runs'[q] = runs[q] /\ seen'[q] = seen[q]
  BY DEF Goto, Typed, TypeOK, RunRecord
<1>2. RunStep(r)
  BY <1>1 DEF RunStep
<1>3. life[d] = "live" => UpToDate(r, d)
  BY DEF InTurn, Fine, Holds
<1>4. CASE p \in Working \cup Failing
  <2>1. life[d] = "live" => UpToDate(r, d)'
    BY <1>1, <1>3, <1>4 DEF UpToDate
  <2>2. QED BY <1>1, <1>2, <1>4, <2>1, HeldInTurn
<1>5. CASE p \notin Working \cup Failing
  <2>1. life[d] = "live" => docs[d].status # "completed"
    BY <1>3 DEF UpToDate, Terminal
  <2>2. QED BY <1>1, <1>2, <1>5, <2>1, LeftInTurn
<1>6. QED BY <1>4, <1>5

\* What a run that holds a document knows of it.
LEMMA Holder ==
  ASSUME Typed, InTurn, NEW r \in Runs, runs[r].pc \in Working \cup Failing
  PROVE  /\ runs[r].doc \in Docs
         /\ life[runs[r].doc] = "live" => UpToDate(r, runs[r].doc)
         /\ NoneWaits(runs[r].doc) /\ WithOne(runs[r].doc) /\ Fine(runs[r].doc)
<1>1. runs[r].doc \in Docs
  BY DEF Typed, RunsHaveDocs, Active
<1>2. QED BY <1>1 DEF InTurn, Fine, Holds, WithOne

\* A commit goes through, or finds the document deleted and the run returns.
LEMMA AbortGoes ==
  ASSUME NEW r \in Runs, NEW new, NEW st, NEW p, CommitOrAbort(r, new, st, p)
  PROVE  \/ Commit(r, new, st, p)
         \/ life[runs[r].doc] # "live" /\ Goto(r, "returned") /\ UNCHANGED <<docs, seen>>
BY DEF CommitOrAbort, StaleAbort

\* The steps by which a run makes progress,
LEMMA SetStatusInTurn ==
  ASSUME Typed, InTurn, NEW r \in Runs, SetStatus(r)
  PROVE  InTurn'
<1> DEFINE s == NextStatus[runs[r].pc]
           new == [seen[r] EXCEPT !.status = s]
<1>1. runs[r].pc \in Working /\ s \in Statuses /\ s \in Places
  BY DEF SetStatus, NextStatus, Working, Statuses, Places, Active
<1>2. /\ s # "failed" /\ s # "queued" /\ s # "loaded" /\ s # "replacing"
      /\ s = "completed" <=> runs[r].pc = "finalizing"
      /\ s \in HasChunks => runs[r].pc \in HasChunks
      /\ s \in HasVectors => runs[r].pc \in HasVectors
      /\ s \in HasEmbedded => runs[r].pc \in HasEmbedded
      /\ s \in Working \cup Failing <=> s # "completed"
  BY DEF SetStatus, NextStatus, Working, Failing, HasChunks, HasVectors, HasEmbedded
<1>3. /\ runs[r].doc \in Docs /\ (life[runs[r].doc] = "live" => UpToDate(r, runs[r].doc))
  BY <1>1, Holder
<1>4. /\ new \in DocRow /\ new.status = s /\ new.chunked = seen[r].chunked /\ new.emb = seen[r].emb
  BY <1>1 DEF Typed, TypeOK, DocRow
<1>5. /\ CommitOrAbort(r, new, s, s)
      /\ UNCHANGED <<life, pending, queue, chunks, vectors>>
  BY DEF SetStatus
<1>6. "finalizing" \in HasChunks /\ "finalizing" \in HasVectors /\ "finalizing" \in HasEmbedded
  BY DEF HasChunks, HasVectors, HasEmbedded
<1> HIDE DEF s, new
<1>7. (life[runs[r].doc] = "live" /\ s \in Working \cup Failing) =>
           /\ new.status \notin Terminal
           /\ s # "loaded" => new.status # "queued"
           /\ s = "finalizing" => new.status = "finalizing"
           /\ s # "replacing"
           /\ s \in HasChunks => chunks[runs[r].doc] = Text(r, runs[r].doc)
           /\ s \in HasVectors => Text(r, runs[r].doc) \subseteq vectors'[runs[r].doc]
           /\ s \in HasEmbedded => new.emb = "completed"
  BY <1>2, <1>3, <1>4, <1>5 DEF UpToDate, Terminal
<1>8. (life[runs[r].doc] = "live" /\ s \notin Working \cup Failing) =>
        /\ chunks[runs[r].doc] # {} <=> runs[r].doc \in TextDocs
        /\ chunks[runs[r].doc] \subseteq vectors'[runs[r].doc]
        /\ new.emb = "completed"
  BY <1>2, <1>3, <1>4, <1>5, <1>6 DEF UpToDate, Text
<1>9. QED BY <1>1, <1>3, <1>4, <1>5, <1>7, <1>8, AbortGoes, CommitInTurn

\* tags are generated,
LEMMA GenerateTagsInTurn ==
  ASSUME Typed, InTurn, NEW r \in Runs, NEW t \in TagSets, GenerateTags(r, t)
  PROVE  InTurn'
<1> DEFINE new == [seen[r] EXCEPT !.tags = t]
<1>1. /\ runs[r].pc = "tagging" /\ runs[r].pc \in Working /\ "tagged" \in Places
      /\ "tagged" \in Working
  BY DEF GenerateTags, Working, Places, Active
<1>2. runs[r].doc \in Docs /\ (life[runs[r].doc] = "live" => UpToDate(r, runs[r].doc))
  BY <1>1, Holder
<1>3. /\ new \in DocRow /\ new.status = seen[r].status /\ new.chunked = seen[r].chunked
      /\ runs[r].jobSeen \in Statuses
  BY DEF Typed, TypeOK, DocRow, RunRecord
<1>4. /\ CommitOrAbort(r, new, runs[r].jobSeen, "tagged")
      /\ UNCHANGED <<life, pending, queue, chunks, vectors>>
  BY DEF GenerateTags
<1>5. "tagged" \notin HasChunks \cup HasVectors \cup HasEmbedded
  BY DEF HasChunks, HasVectors, HasEmbedded
<1>6. life[runs[r].doc] = "live" => new.status \notin Terminal /\ new.status # "queued"
  BY <1>1, <1>2, <1>3 DEF UpToDate
<1> HIDE DEF new
<1>7. QED BY <1>1, <1>2, <1>3, <1>4, <1>5, <1>6, AbortGoes, CommitInTurn

\* embedding_status is set, by progress or by a failed attempt,
LEMMA EmbeddingInTurn ==
  ASSUME Typed, InTurn, NEW r \in Runs, NEW e \in EmbeddingStatuses,
         NEW p \in {"in_progress", "embedded", "retry"},
         CommitOrAbort(r, [seen[r] EXCEPT !.emb = e], runs[r].jobSeen, p),
         runs[r].pc \in Working \ {"loaded"},
         UNCHANGED <<life, pending, queue, chunks>>,
         \A d \in Docs \ {runs[r].doc} : vectors'[d] = vectors[d],
         vectors[runs[r].doc] \subseteq vectors'[runs[r].doc],
         p = "in_progress" => runs[r].pc \in HasChunks,
         p = "embedded" => /\ runs[r].pc \in HasChunks /\ runs[r].pc \in HasVectors
                           /\ e = "completed"
  PROVE  InTurn'
<1> DEFINE new == [seen[r] EXCEPT !.emb = e]
<1>1. runs[r].doc \in Docs /\ (life[runs[r].doc] = "live" => UpToDate(r, runs[r].doc))
  BY Holder
<1>2. /\ new \in DocRow /\ new.status = seen[r].status /\ new.chunked = seen[r].chunked
      /\ new.emb = e /\ runs[r].jobSeen \in Statuses
  BY ZenonT(60) DEF Typed, TypeOK, DocRow, RunRecord
<1>3. CommitOrAbort(r, new, runs[r].jobSeen, p)
  OBVIOUS
<1>4. /\ p \in Working \cup Failing /\ p \in Places
      /\ p \in HasChunks => p # "retry"
      /\ p \in HasVectors \cup HasEmbedded => p = "embedded"
  BY DEF HasChunks, HasVectors, HasEmbedded, Working, Failing, Places, Active
<1>5. life[runs[r].doc] = "live" =>
        /\ new.status \notin Terminal /\ new.status # "queued"
        /\ p \in HasChunks => chunks[runs[r].doc] = Text(r, runs[r].doc)
        /\ p \in HasVectors => Text(r, runs[r].doc) \subseteq vectors'[runs[r].doc]
        /\ p \in HasEmbedded => new.emb = "completed"
  BY <1>1, <1>2, <1>4 DEF UpToDate
<1> HIDE DEF new
<1>6. QED BY <1>1, <1>2, <1>3, <1>4, <1>5, AbortGoes, CommitInTurn

\* the chunk rows to be replaced are read
LEMMA DeleteChunksInTurn ==
  ASSUME Typed, InTurn, NEW r \in Runs, DeleteChunks(r)
  PROVE  InTurn'
<1>1. /\ runs[r].pc = "chunking" /\ runs[r].pc \in Working /\ "replacing" \in Working
      /\ "returned" \in Places /\ "returned" \notin Working \cup Failing \cup HasChunks
      /\ "returned" \notin HasVectors \cup HasEmbedded
      /\ "replacing" \notin HasChunks \cup HasVectors \cup HasEmbedded
  BY DEF DeleteChunks, Working, Failing, Places, Active, HasChunks, HasVectors, HasEmbedded
<1>2. runs[r].doc \in Docs /\ (life[runs[r].doc] = "live" => UpToDate(r, runs[r].doc))
  BY <1>1, Holder
<1>3. UNCHANGED <<life, docs, pending, queue, chunks, vectors, seen>>
  BY DEF DeleteChunks
<1>4. CASE runs' = [runs EXCEPT ![r].pc = "replacing", ![r].old = chunks[runs[r].doc],
                                ![r].first = HashIsNew(r)]
  <2>1. /\ runs'[r].pc = "replacing" /\ runs'[r].old = chunks[runs[r].doc]
        /\ runs'[r].doc = runs[r].doc /\ \A q \in Runs \ {r} : runs'[q] = runs[q]
    BY <1>4 DEF Typed, TypeOK, RunRecord
  <2>2. RunStep(r)
    BY <1>2, <1>3, <2>1 DEF RunStep
  <2>3. PICK d \in Docs : d = runs[r].doc
    BY <1>2
  <2>4. life[d] = "live" => UpToDate(r, d)'
    BY <1>1, <1>2, <1>3, <2>1, <2>3 DEF UpToDate
  <2>5. QED BY <1>1, <1>3, <2>1, <2>2, <2>3, <2>4, HeldInTurn
<1>5. CASE life[runs[r].doc] # "live" /\ Goto(r, "returned")
  BY <1>1, <1>2, <1>3, <1>5, GotoInTurn
<1>6. QED BY <1>4, <1>5 DEF DeleteChunks

\* and replaced: what was read is all there is, so the new rows are alone.
LEMMA InsertChunksInTurn ==
  ASSUME Typed, InTurn, NEW r \in Runs, InsertChunks(r)
  PROVE  InTurn'
<1>1. /\ runs[r].pc = "replacing" /\ runs[r].pc \in Working /\ "persisted" \in Working
      /\ "returned" \in Places /\ "persisted" \notin HasVectors \cup HasEmbedded
  BY DEF InsertChunks, Working, Places, Active, HasVectors, HasEmbedded
<1>2. PICK d \in Docs : d = runs[r].doc /\ (life[d] = "live" => UpToDate(r, d))
  BY <1>1, Holder
<1>3. UNCHANGED <<life, pending, queue, vectors>>
  BY DEF InsertChunks
<1>4. CASE /\ life[d] = "live" /\ Goto(r, "persisted")
           /\ chunks' = [chunks EXCEPT ![d] = (@ \ runs[r].old) \cup Yield(r)]
           /\ docs' = [docs EXCEPT ![d].chunked = TRUE]
           /\ seen' = [seen EXCEPT ![r].chunked = TRUE]
  <2>1. /\ runs'[r].pc = "persisted" /\ runs'[r].doc = d
        /\ \A q \in Runs \ {r} : runs'[q] = runs[q] /\ seen'[q] = seen[q]
        /\ seen'[r].status = seen[r].status /\ seen'[r].emb = seen[r].emb
    BY <1>2, <1>4 DEF Goto, Typed, TypeOK, RunRecord, DocRow
  <2>2. /\ \A e \in Docs \ {d} : docs'[e] = docs[e] /\ chunks'[e] = chunks[e]
        /\ docs'[d].status = docs[d].status /\ docs'[d].emb = docs[d].emb
        /\ chunks'[d] = (chunks[d] \ runs[r].old) \cup Yield(r)
    BY <1>4 DEF Typed, TypeOK, DocRow
  <2>3. RunStep(r)
    BY <1>2, <1>3, <2>1, <2>2 DEF RunStep
  <2>4. chunks'[d] = Text(r, d)
    BY <1>1, <1>2, <1>4, <2>2 DEF UpToDate, Yield, Text
  <2>5. UpToDate(r, d)'
    BY <1>1, <1>2, <1>4, <2>1, <2>2, <2>4 DEF UpToDate
  <2>6. QED BY <1>1, <1>2, <1>3, <2>1, <2>3, <2>5, HeldInTurn
<1>5. CASE /\ life[d] # "live" /\ UNCHANGED <<chunks, docs, seen>>
           /\ Goto(r, "persisted") \/ Goto(r, "returned")
  BY <1>1, <1>2, <1>3, <1>5, GotoInTurn DEF Places, Active
<1>6. QED BY <1>2, <1>4, <1>5 DEF InsertChunks

\* UpsertVectors, StartEmbedding, FinishEmbedding and a failed attempt.
LEMMA VectorsInTurn ==
  ASSUME Typed, InTurn, NEW r \in Runs,
         UpsertVectors(r) \/ StartEmbedding(r) \/ FinishEmbedding(r)
           \/ \E applied \in BOOLEAN : TransientFails(r, applied)
  PROVE  InTurn'
<1>1. vectors \in [Docs -> SUBSET Runs] /\ seen[r].emb \in EmbeddingStatuses
      /\ {"in_progress", "completed", "failed"} \subseteq EmbeddingStatuses
  BY DEF Typed, TypeOK, DocRow, EmbeddingStatuses
<1>2. CASE UpsertVectors(r)
  <2>1. /\ runs[r].pc = "in_progress" /\ runs[r].pc \in Working /\ runs[r].pc \in HasChunks
        /\ "upserted" \in Places /\ "upserted" \in HasVectors /\ "upserted" \notin HasEmbedded
    BY <1>2 DEF UpsertVectors, Working, Places, Active, HasChunks, HasVectors, HasEmbedded
  <2>2. runs[r].doc \in Docs
    BY <2>1, Holder
  <2>3. /\ \A e \in Docs \ {runs[r].doc} : vectors'[e] = vectors[e]
        /\ vectors'[runs[r].doc] = vectors[runs[r].doc] \cup Text(r, runs[r].doc)
    BY <1>1, <1>2, <2>2 DEF UpsertVectors, Yield, Text
  <2>4. Goto(r, "upserted") /\ UNCHANGED <<life, pending, queue, chunks, docs, seen>>
    BY <1>2 DEF UpsertVectors
  <2>5. QED BY <2>1, <2>2, <2>3, <2>4, GotoInTurn
<1>3. CASE StartEmbedding(r)
  <2>1. runs[r].pc \in HasChunks /\ runs[r].pc \in Working \ {"loaded"}
    BY <1>3 DEF StartEmbedding, Working, HasChunks
  <2>2. QED BY <1>1, <1>3, <2>1, EmbeddingInTurn DEF StartEmbedding
<1>4. CASE FinishEmbedding(r)
  <2>1. /\ runs[r].pc \in HasChunks /\ runs[r].pc \in HasVectors
        /\ runs[r].pc \in Working \ {"loaded"}
    BY <1>4 DEF FinishEmbedding, Working, HasChunks, HasVectors
  <2>2. QED BY <1>1, <1>4, <2>1, EmbeddingInTurn DEF FinishEmbedding
<1>5. CASE \E applied \in BOOLEAN : TransientFails(r, applied)
  <2>1. PICK applied \in BOOLEAN : TransientFails(r, applied)
    BY <1>5
  <2> DEFINE emb == IF runs[r].pc = "in_progress" THEN "failed" ELSE seen[r].emb
  <2>2. runs[r].pc \in Working \ {"loaded"}
    BY <2>1, PlacesOfFailure DEF TransientFails
  <2>3. runs[r].doc \in Docs
    BY <2>2, Holder
  <2>4. /\ \A e \in Docs \ {runs[r].doc} : vectors'[e] = vectors[e]
        /\ vectors[runs[r].doc] \subseteq vectors'[runs[r].doc]
    BY <1>1, <2>1, <2>3 DEF TransientFails
  <2>5. /\ CommitOrAbort(r, [seen[r] EXCEPT !.emb = emb], runs[r].jobSeen, "retry")
        /\ UNCHANGED <<life, pending, queue, chunks>>
    BY <2>1 DEF TransientFails
  <2>6. emb \in EmbeddingStatuses
    BY <1>1
  <2> HIDE DEF emb
  <2>7. QED BY <2>2, <2>4, <2>5, <2>6, EmbeddingInTurn
<1>6. QED BY <1>2, <1>3, <1>4, <1>5

\* The except clauses of the task: no retry left, a parse error.
LEMMA FailingInTurn ==
  ASSUME Typed, InTurn, NEW r \in Runs, Exhausted(r) \/ ParseFails(r)
  PROVE  InTurn'
<1>1. /\ "returned" \in Places /\ "returned" \notin Working \cup Failing
      /\ "returned" \notin HasChunks \cup HasVectors \cup HasEmbedded
  BY DEF Places, Active, Failing, HasChunks, HasVectors, HasEmbedded, Working
<1>2. CASE Exhausted(r)
  <2>1. runs[r].pc \in Working \cup Failing /\ runs[r].pc # "loaded" /\ Goto(r, "returned")
    BY <1>2 DEF Exhausted, Failing
  <2>2. UNCHANGED <<life, pending, queue, chunks, docs, seen, vectors>>
    BY <1>2 DEF Exhausted
  <2>3. QED BY <1>1, <2>1, <2>2, GotoInTurn, Holder
<1>3. CASE ParseFails(r)
  <2> DEFINE new == [seen[r] EXCEPT !.status = "failed"]
  <2>1. DeadLetter(r) /\ runs[r].pc \in Working \cup Failing
    BY <1>3 DEF ParseFails, Working
  <2>2. PICK d \in Docs : d = runs[r].doc
    BY <2>1, Holder
  <2>3. new \in DocRow /\ new.status = "failed" /\ new.chunked = seen[r].chunked
        /\ "failed" \in Statuses
    BY DEF Typed, TypeOK, DocRow, Statuses
  <2>4. /\ \/ Commit(r, new, "failed", "returned")
           \/ life[d] # "live" /\ Goto(r, "returned") /\ UNCHANGED <<docs, seen>>
        /\ UNCHANGED <<life, pending, queue, chunks, vectors>>
    BY <2>1, <2>2 DEF DeadLetter
  <2> HIDE DEF new
  <2>5. QED BY <1>1, <2>1, <2>2, <2>3, <2>4, CommitInTurn
<1>4. QED BY <1>2, <1>3

\* self.retry hands the document on to its next message.
LEMMA RetryInTurn ==
  ASSUME Typed, InTurn, NEW r \in Runs, Retry(r)
  PROVE  InTurn'
<1>1. /\ runs[r].pc = "retry" /\ runs[r].pc \in Working \cup Failing
      /\ "returned" \notin Working \cup Failing
  BY DEF Retry, Working, Failing
<1>2. PICK d \in Docs : d = runs[r].doc /\ Fine(d) /\ WithOne(d) /\ NoneWaits(d)
                        /\ (life[d] = "live" => UpToDate(r, d))
  BY <1>1, Holder
<1>3. PICK n \in 0 .. MaxRetries : n = runs[r].tries + 1
  BY RetriesAssumption DEF Retry, Typed, TypeOK, RunRecord
<1>4. /\ queue' = [queue EXCEPT ![d][n] = @ + 1] /\ Goto(r, "returned")
      /\ UNCHANGED <<life, docs, chunks, vectors, pending, seen>>
  BY <1>2, <1>3 DEF Retry
<1>5. /\ runs'[r].pc = "returned" /\ runs'[r].doc = d
      /\ \A q \in Runs \ {r} : runs'[q] = runs[q]
  BY <1>2, <1>4 DEF Goto, Typed, TypeOK, RunRecord
<1>6. /\ \A e \in Docs \ {d} : queue'[e] = queue[e]
      /\ queue'[d][n] = 1 /\ \A k \in 0 .. MaxRetries : k # n => queue'[d][k] = 0
  <2>1. queue \in [Docs -> [0 .. MaxRetries -> Nat]] /\ queue[d] \in [0 .. MaxRetries -> Nat]
    BY DEF Typed, TypeOK
  <2>2. queue[d][n] = 0 /\ \A k \in 0 .. MaxRetries : queue[d][k] = 0
    BY <1>2 DEF NoneWaits
  <2>3. queue' = [queue EXCEPT ![d] = [queue[d] EXCEPT ![n] = 1]]
    BY <1>4, <2>2
  <2>4. QED BY <2>1, <2>2, <2>3
<1>7. \A q \in Runs : ~Holds(q, d)'
  BY <1>1, <1>2, <1>5 DEF Holds, WithOne
<1>8. WithOne(d)'
  BY <1>1, <1>2, <1>4, <1>6, <1>7 DEF WithOne, NoneWaits, Holds
<1>9. Fine(d)'
  BY <1>2, <1>4, <1>7, <1>8 DEF Fine, NoneWaits, UpToDate, Terminal
<1>10. RunStep(r)
  BY <1>2, <1>4, <1>5, <1>6 DEF RunStep
<1>11. QED BY <1>2, <1>9, <1>10, OthersInTurn

\* The end of a run,
LEMMA LeavingInTurn ==
  ASSUME Typed, InTurn, NEW r \in Runs, Ack(r) \/ StampJob(r)
  PROVE  InTurn'
<1>1. /\ "ended" \notin Working \cup Failing /\ "returned" \notin Working \cup Failing
      /\ "completed" \notin Working \cup Failing
  BY DEF Working, Failing
<1>2. /\ runs[r].doc \in Docs /\ UNCHANGED <<life, docs, chunks, vectors, pending, queue>>
      /\ runs[r].pc \notin Working \cup Failing
  BY <1>1 DEF Ack, StampJob, Typed, RunsHaveDocs, Active
<1>3. /\ runs'[r].pc \in {"ended", "returned"}
      /\ runs'[r].doc = runs[r].doc \/ runs'[r].pc = "ended"
      /\ \A q \in Runs \ {r} : runs'[q] = runs[q] /\ seen'[q] = seen[q]
  <2>1. CASE Ack(r)
    <3> DEFINE run == [IdleRun EXCEPT !.pc = "ended", !.first = runs[r].first]
    <3>1. run.pc = "ended"
      BY DEF IdleRun
    <3>2. runs' = [runs EXCEPT ![r] = run] /\ seen' = [seen EXCEPT ![r] = NewRow("none")]
      BY <2>1 DEF Ack, End
    <3> HIDE DEF run
    <3>3. QED BY <3>1, <3>2 DEF Typed, TypeOK
  <2>2. CASE StampJob(r)
    BY <2>2 DEF StampJob, Goto, Typed, TypeOK, RunRecord
  <2>3. QED BY <2>1, <2>2
<1>4. RunStep(r)
  BY <1>2, <1>3 DEF RunStep
<1>5. QED BY <1>1, <1>2, <1>3, <1>4, IdlerInTurn

\* the beginning of one,
LEMMA DeliverInTurn ==
  ASSUME Typed, InTurn, NEW r \in Runs, NEW d \in Docs, NEW k \in 0 .. MaxRetries,
         Deliver(r, d, k)
  PROVE  InTurn'
<1>1. /\ runs[r].pc = "idle" /\ queue[d][k] > 0 /\ queue' = [queue EXCEPT ![d][k] = @ - 1]
      /\ UNCHANGED <<life, docs, chunks, vectors, pending>>
  BY DEF Deliver
<1>2. /\ "idle" \notin Working \cup Failing /\ "returned" \notin Working \cup Failing
      /\ "loaded" \in Working /\ "loaded" \notin HasChunks \cup HasVectors \cup HasEmbedded
  BY DEF Working, Failing, HasChunks, HasVectors, HasEmbedded
<1>3. Fine(d) /\ WithOne(d)
  BY DEF InTurn, Fine
<1>4. /\ queue[d][k] = 1 /\ pending[d] = 0 /\ \A q \in Runs : ~Holds(q, d)
      /\ \A l \in 0 .. MaxRetries : l # k => queue[d][l] = 0
      /\ life[d] # "absent"
  BY <1>1, <1>3 DEF WithOne, NoneWaits
<1>5. /\ \A e \in Docs \ {d} : queue'[e] = queue[e]
      /\ \A l \in 0 .. MaxRetries : queue'[d][l] = 0
  <2>1. queue \in [Docs -> [0 .. MaxRetries -> Nat]] /\ queue[d] \in [0 .. MaxRetries -> Nat]
    BY DEF Typed, TypeOK
  <2>2. queue' = [queue EXCEPT ![d] = [queue[d] EXCEPT ![k] = 0]]
    BY <1>1, <1>4
  <2>3. QED BY <1>4, <2>1, <2>2
<1>6. NoneWaits(d)'
  BY <1>1, <1>4, <1>5 DEF NoneWaits
<1>7. /\ runs'[r].doc = d
      /\ \/ life[d] = "live" /\ runs'[r].pc = "loaded" /\ seen'[r] = docs[d]
         \/ life[d] # "live" /\ runs'[r].pc = "returned"
      /\ \A q \in Runs \ {r} : runs'[q] = runs[q] /\ seen'[q] = seen[q]
  <2> DEFINE j == LatestJob(d)
             s == jobs[j].status
  <2>1. CASE life[d] = "live"
    <3>1. /\ seen' = [seen EXCEPT ![r] = docs[d]]
          /\ runs' = [runs EXCEPT ![r] =
               [IdleRun EXCEPT !.doc = d, !.tries = k, !.pc = "loaded", !.job = j, !.jobSeen = s]]
      BY <2>1 DEF Deliver
    <3> HIDE DEF j, s
    <3>2. QED BY <2>1, <3>1 DEF Typed, TypeOK, IdleRun
  <2>2. CASE life[d] # "live"
    BY <2>2 DEF Deliver, Typed, TypeOK, IdleRun
  <2>3. QED BY <2>1, <2>2
<1>8. \A q \in Runs : Holds(q, d)' => q = r
  BY <1>4, <1>7 DEF Holds
<1>9. WithOne(d)'
  BY <1>1, <1>4, <1>6, <1>8 DEF WithOne, NoneWaits
<1>10. life[d] = "live" => UpToDate(r, d)'
  BY <1>1, <1>2, <1>3, <1>4, <1>7 DEF UpToDate, Fine
<1>11. (life[d] = "live" /\ docs[d].status = "completed") => Indexed(d)'
  BY <1>1, <1>3 DEF Fine, Indexed
<1>12. Fine(d)'
  BY <1>1, <1>6, <1>8, <1>9, <1>10, <1>11 DEF Fine, NoneWaits
<1>13. ASSUME NEW e \in Docs PROVE Fine(e)'
  <2>1. CASE e = d
    BY <1>12, <2>1
  <2>2. CASE e # d
    <3>1. \A q \in Runs : Holds(q, e) => q # r
      BY <1>1, <1>2 DEF Holds
    <3>2. \A q \in Runs : Holds(q, e)' => Holds(q, e)
      BY <1>7, <2>2 DEF Holds
    <3>3. Fine(e)
      BY DEF InTurn
    <3>4. QED BY <1>1, <1>5, <1>7, <2>2, <3>1, <3>2, <3>3, FineElsewhere
  <2>3. QED BY <2>1, <2>2
<1>14. QED BY <1>13 DEF InTurn

\* and the requests before it, where nobody reprocesses.
LEMMA RequestInTurn ==
  ASSUME Typed, InTurn, NEW d \in Docs, "reprocess" \notin Events,
         Client(d) \/ Enqueue(d) \/ EnqueueFails(d)
  PROVE  InTurn'
<1>1. /\ runs' = runs /\ seen' = seen /\ vectors' = vectors
      /\ \A e \in Docs \ {d} : /\ docs'[e] = docs[e] /\ life'[e] = life[e]
                               /\ chunks'[e] = chunks[e] /\ pending'[e] = pending[e]
                               /\ queue'[e] = queue[e]
  BY DEF Client, Upload, UpdateTags, Reprocess, Delete, Enqueue, EnqueueFails, Typed, TypeOK
<1>2. Fine(d)' => InTurn'
  <2> SUFFICES ASSUME Fine(d)', NEW e \in Docs PROVE Fine(e)'
    BY DEF InTurn
  <2>1. CASE e = d
    BY <2>1
  <2>2. CASE e # d
    <3>1. Fine(e) /\ \A q \in Runs : Holds(q, e)' => Holds(q, e)
      BY <1>1 DEF InTurn, Holds
    <3>2. QED BY <1>1, <2>2, <3>1, FineElsewhere
  <2>3. QED BY <2>1, <2>2
<1>3. Fine(d) /\ WithOne(d) /\ \A q \in Runs : Holds(q, d)' <=> Holds(q, d)
  BY <1>1 DEF InTurn, Fine, Holds
<1>4. CASE \E t \in {"none", "user"} : Upload(d, t)
  <2>1. PICK t \in {"none", "user"} : Upload(d, t)
    BY <1>4
  <2>2. /\ life[d] = "absent" /\ queue' = queue /\ docs'[d].status = "queued"
        /\ pending'[d] = pending[d] + 1 /\ life'[d] = "live"
    BY <2>1 DEF Upload, NewRow, Typed, TypeOK
  <2>3. /\ \A q \in Runs : ~Holds(q, d) /\ NoneWaits(d)
        /\ \A k \in 0 .. MaxRetries : queue[d][k] = 0 /\ pending[d] = 0
    BY <1>3, <2>2 DEF WithOne, NoneWaits
  <2>4. QED
    <3>1. pending'[d] = 1
      <4>1. 0 \in 0 .. MaxRetries
        BY RetriesAssumption
      <4>2. QED BY <2>2, <2>3, <4>1
    <3>2. WithOne(d)'
      BY <1>3, <2>2, <2>3, <3>1 DEF WithOne, Holds, NoneWaits
    <3>3. Fine(d)'
      BY <1>3, <2>2, <2>3, <3>2 DEF Fine
    <3>4. QED BY <1>2, <3>3
<1>5. CASE \E t \in {"none", "user"} : UpdateTags(d, t)
  <2>1. PICK t \in {"none", "user"} : UpdateTags(d, t)
    BY <1>5
  <2>2. /\ UNCHANGED <<life, queue, pending, chunks>>
        /\ docs'[d].status = docs[d].status /\ docs'[d].emb = docs[d].emb
    BY <2>1 DEF UpdateTags, Typed, TypeOK, DocRow
  <2>3. WithOne(d)'
    BY <1>1, <1>3, <2>2 DEF WithOne, NoneWaits, Holds
  <2>4. \A q \in Runs : UpToDate(q, d) => UpToDate(q, d)'
    BY <1>1, <2>2 DEF UpToDate
  <2>5. Indexed(d) => Indexed(d)'
    BY <1>1, <2>2 DEF Indexed
  <2>6. Fine(d)'
    BY <1>3, <2>2, <2>3, <2>4, <2>5 DEF Fine
  <2>7. QED BY <1>2, <2>6
<1>6. CASE Delete(d)
  <2>1. UNCHANGED <<queue, pending>> /\ life'[d] = "deleted"
    BY <1>6 DEF Delete, Typed, TypeOK
  <2>2. WithOne(d)'
    BY <1>1, <1>3, <2>1 DEF WithOne, NoneWaits, Holds
  <2>3. Fine(d)'
    BY <2>1, <2>2 DEF Fine
  <2>4. QED BY <1>2, <2>3
<1>7. CASE Enqueue(d)
  <2>1. /\ pending[d] > 0 /\ pending'[d] = pending[d] - 1
        /\ queue'[d] = [queue[d] EXCEPT ![0] = @ + 1]
        /\ UNCHANGED <<life, docs, chunks>>
    BY <1>7 DEF Enqueue, Typed, TypeOK
  <2>2. 0 \in 0 .. MaxRetries
    BY RetriesAssumption
  <2>3. pending[d] = 1 /\ \A k \in 0 .. MaxRetries : queue[d][k] = 0
    BY <1>3, <2>1 DEF WithOne
  <2>4. \A q \in Runs : ~Holds(q, d)
    BY <1>3, <2>3 DEF WithOne, NoneWaits
  <2>5. /\ pending'[d] = 0 /\ queue'[d][0] = 1
        /\ \A k \in 0 .. MaxRetries : k # 0 => queue'[d][k] = 0
    <3>1. queue[d] \in [0 .. MaxRetries -> Nat]
      BY DEF Typed, TypeOK
    <3>2. queue'[d] = [queue[d] EXCEPT ![0] = 1]
      BY <2>1, <2>2, <2>3
    <3>3. pending'[d] = 0
      BY <2>1, <2>3
    <3>4. queue'[d][0] = 1 /\ \A k \in 0 .. MaxRetries : k # 0 => queue'[d][k] = queue[d][k]
      BY <2>2, <3>1, <3>2
    <3>5. QED BY <2>3, <3>3, <3>4
  <2>6. life[d] # "absent"
    BY <1>3, <2>3 DEF WithOne, NoneWaits
  <2>7. WithOne(d)'
    BY <1>3, <2>1, <2>2, <2>4, <2>5, <2>6 DEF WithOne
  <2>8. life[d] = "live" => docs[d].status = "queued"
    BY <1>3, <2>3 DEF Fine
  <2>9. Fine(d)'
    BY <1>3, <2>1, <2>4, <2>5, <2>7, <2>8 DEF Fine, Terminal
  <2>10. QED BY <1>2, <2>9
<1>8. CASE EnqueueFails(d)
  <2>1. /\ pending[d] > 0 /\ pending'[d] = pending[d] - 1
        /\ UNCHANGED <<life, docs, chunks, queue>>
    BY <1>8 DEF EnqueueFails, Typed, TypeOK
  <2>2. pending[d] = 1 /\ \A k \in 0 .. MaxRetries : queue[d][k] = 0
    BY <1>3, <2>1 DEF WithOne
  <2>3. \A q \in Runs : ~Holds(q, d)
    BY <1>3, <2>2 DEF WithOne, NoneWaits
  <2>4. WithOne(d)' /\ pending'[d] = 0
    BY <1>3, <2>1, <2>2, <2>3 DEF WithOne, NoneWaits
  <2>5. life[d] = "live" => docs[d].status = "queued"
    BY <1>3, <2>2 DEF Fine
  <2>6. Fine(d)'
    BY <1>3, <2>1, <2>2, <2>3, <2>4, <2>5 DEF Fine
  <2>7. QED BY <1>2, <2>6
<1>9. QED BY <1>4, <1>5, <1>6, <1>7, <1>8 DEF Client, Reprocess

\* At the start no document is with anyone.
LEMMA InTurnInit == Init => InTurn
<1> SUFFICES ASSUME Init, NEW d \in Docs PROVE Fine(d)
  BY DEF InTurn
<1>1. /\ life[d] = "absent" /\ pending[d] = 0 /\ \A k \in 0 .. MaxRetries : queue[d][k] = 0
      /\ \A r \in Runs : runs[r].pc = "idle"
  BY DEF Init, IdleRun
<1>2. "idle" \notin Working \cup Failing
  BY DEF Working, Failing
<1>3. QED BY <1>1, <1>2 DEF Fine, WithOne, Holds, NoneWaits

\* One case for each action.
LEMMA InTurnStep ==
  ASSUME Sequential, Typed, InTurn, [Next]_vars
  PROVE  InTurn'
<1>1. "reprocess" \notin Events /\ "crash" \notin Events /\ "redeliver" \notin Events
  BY DEF Sequential
<1>2. CASE UNCHANGED vars
  <2>1. \A d \in Docs : Fine(d)'
    <3> TAKE d \in Docs
    <3>1. Fine(d) /\ \A q \in Runs : Holds(q, d)' => Holds(q, d)
      BY <1>2 DEF InTurn, Holds, vars
    <3>2. QED BY <1>2, <3>1, FineElsewhere DEF vars
  <2>2. QED BY <2>1 DEF InTurn
<1>3. CASE \E d \in Docs : Client(d) \/ Enqueue(d) \/ EnqueueFails(d)
  BY <1>1, <1>3, RequestInTurn
<1>4. CASE \E r \in Runs, d \in Docs, k \in 0 .. MaxRetries : Deliver(r, d, k)
  BY <1>4, DeliverInTurn
<1>5. ASSUME NEW r \in Runs, Work(r)
      PROVE  InTurn'
  <2>1. CASE \E t \in {"none", "generated"} : GenerateTags(r, t)
    BY <2>1, GenerateTagsInTurn DEF TagSets
  <2>2. QED BY <1>5, <2>1, SetStatusInTurn, DeleteChunksInTurn, InsertChunksInTurn,
               VectorsInTurn, FailingInTurn, RetryInTurn, LeavingInTurn DEF Work
<1>6. ASSUME NEW r \in Runs, Fault(r)
      PROVE  InTurn'
  BY <1>1, <1>6, VectorsInTurn, FailingInTurn, LeavingInTurn DEF Fault, Crash, Redeliver
<1>7. QED BY <1>2, <1>3, <1>4, <1>5, <1>6 DEF Next

\* Where runs do not overlap, whoever a document is with knows how far it is.
LEMMA InTurnAlways ==
  ASSUME Sequential
  PROVE  Spec => []InTurn
BY InTurnInit, InTurnStep, TypedAlways, PTL DEF Spec

\* Where nobody reprocesses, no worker dies and no message is delivered twice, a document
\* whose status says completed is indexed in full: it has chunks if its file yields text,
\* each with its vectors, and embedding_status completed, however many attempts failed half
\* way and were retried.  What the last attempt of worker_flow writes is what a search finds.
THEOREM CompletedCanBeFound ==
  ASSUME Sequential
  PROVE  Spec => []CompletedIsIndexed
<1>1. InTurn => CompletedIsIndexed
  BY DEF InTurn, Fine, Indexed, CompletedIsIndexed
<1>2. QED BY <1>1, InTurnAlways, PTL

-----------------------------------------------------------------------------
(* The pipeline implements the safety part of Lifecycle. *)

\* What a client sees, which does not know what has been given up,
Facade(d) ==
  IF life[d] # "live" THEN life[d]
  ELSE IF docs[d].status \in Terminal \cup {"queued"} THEN docs[d].status
  ELSE "working"

\* how a step changes it,
Transition(d) ==
  \/ Facade(d)' = Facade(d)
  \/ Facade(d) = "absent" /\ Facade(d)' = "queued"
  \/ Facade(d) = "queued" /\ Facade(d)' = "working"
  \/ Facade(d) = "working" /\ Facade(d)' \in {"completed", "failed"}
  \/ Facade(d) \in Abstract!Live /\ Facade(d)' = "deleted"

\* and a step that concerns document d alone.
Alone(d) ==
  \A e \in Docs \ {d} : /\ life'[e] = life[e] /\ docs'[e].status = docs[e].status
                        /\ pending'[e] = pending[e] /\ queue'[e] = queue[e]
                        /\ \A q \in Runs : Holds(q, e)' <=> Holds(q, e)

\* A document is in hand if something waits for it or a run holds it.
LEMMA InHandOf ==
  ASSUME NEW d \in Docs
  PROVE  InHand(d) <=> \/ pending[d] > 0
                       \/ \E k \in 0 .. MaxRetries : queue[d][k] > 0
                       \/ \E q \in Runs : Holds(q, d)
BY DEF InHand, Holds, Obliged

\* So other documents look as before.
LEMMA AloneShown ==
  ASSUME NEW d \in Docs, Alone(d), NEW e \in Docs \ {d}
  PROVE  Shown(e)' = Shown(e) /\ (Orphaned(e)' <=> Orphaned(e))
<1>1. InHand(e)' <=> InHand(e)
  <2>1. InHand(e)' <=> \/ pending'[e] > 0
                       \/ \E k \in 0 .. MaxRetries : queue'[e][k] > 0
                       \/ \E q \in Runs : Holds(q, e)'
    BY DEF InHand, Holds, Obliged
  <2>2. QED BY <2>1, InHandOf DEF Alone
<1>2. Orphaned(e)' <=> Orphaned(e)
  BY <1>1 DEF Alone, Orphaned
<1>3. QED BY <1>2 DEF Alone, Shown

\* The abstract transitions of one document.
LEMMA OneShown ==
  ASSUME NEW d \in Docs, Alone(d), Transition(d),
         Orphaned(d) => Orphaned(d)' \/ life'[d] = "deleted",
         Orphaned(d)' => life'[d] = life[d]
  PROVE  [Abstract!Next]_([e \in Docs |-> Shown(e)])
<1>1. \A s : Shown(d)' = s => Abstract!Become(d, s)
  BY AloneShown DEF Abstract!Become
<1>2. Shown(d) = IF Orphaned(d) THEN "abandoned" ELSE Facade(d)
  BY DEF Shown, Facade, Orphaned
<1>3. Shown(d)' = IF Orphaned(d)' THEN "abandoned" ELSE Facade(d)'
  BY DEF Shown, Facade, Orphaned
<1>4. CASE Orphaned(d) /\ Orphaned(d)'
  BY <1>2, <1>3, <1>4, AloneShown
<1>5. CASE Orphaned(d) /\ ~Orphaned(d)'
  <2>1. Shown(d) \in Abstract!Live /\ Shown(d)' = "deleted"
    BY <1>2, <1>3, <1>5 DEF Abstract!Live, Facade
  <2>2. QED BY <1>1, <2>1 DEF Abstract!Next, Abstract!Remove
<1>6. CASE ~Orphaned(d) /\ Orphaned(d)'
  <2>1. Facade(d)' \in {"queued", "working"} /\ Facade(d) # "absent"
    BY <1>6 DEF Orphaned, Facade, Terminal
  <2>2. Facade(d) \in {"queued", "working"}
    BY <2>1 DEF Transition
  <2>3. Shown(d) \in {"queued", "working"} /\ Shown(d)' = "abandoned"
    BY <1>2, <1>3, <1>6, <2>2
  <2>4. QED BY <1>1, <2>3 DEF Abstract!Next, Abstract!Abandon
<1>7. CASE ~Orphaned(d) /\ ~Orphaned(d)'
  <2>1. Shown(d) = Facade(d) /\ Shown(d)' = Facade(d)'
    BY <1>2, <1>3, <1>7
  <2>2. CASE Shown(d)' = Shown(d)
    BY <2>2, AloneShown
  <2>3. CASE Shown(d) = "absent" /\ Shown(d)' = "queued"
    BY <1>1, <2>3 DEF Abstract!Next, Abstract!Accept
  <2>4. CASE Shown(d) = "queued" /\ Shown(d)' = "working"
    BY <1>1, <2>4 DEF Abstract!Next, Abstract!Start
  <2>5. CASE Shown(d) = "working" /\ Shown(d)' \in {"completed", "failed"}
    BY <1>1, <2>5 DEF Abstract!Next, Abstract!Settle
  <2>6. CASE Shown(d) \in Abstract!Live /\ Shown(d)' = "deleted"
    BY <1>1, <2>6 DEF Abstract!Next, Abstract!Remove
  <2>7. QED BY <2>1, <2>2, <2>3, <2>4, <2>5, <2>6 DEF Transition
<1>8. QED BY <1>4, <1>5, <1>6, <1>7

\* A step of a run concerns its document alone,
LEMMA RunAlone ==
  ASSUME Typed, NEW r \in Runs, Work(r) \/ Fault(r)
  PROVE  Alone(runs[r].doc) /\ UNCHANGED <<life, pending>> /\ Moves(r) /\ runs[r].doc \in Docs
<1>1. Moves(r)
  BY WorkWrites, FaultWrites DEF Writes
<1>2. runs[r].doc \in Docs
  BY <1>1 DEF Moves, Typed, RunsHaveDocs
<1>3. UNCHANGED <<life, pending>> /\ \A e \in Docs \ {runs[r].doc} : docs'[e] = docs[e]
  <2>1. CASE Assigns(r)
    BY <2>1, AssignsRows DEF Progress
  <2>2. CASE DeadLetter(r) /\ runs[r].pc = "parsing"
    BY <2>2, DeadLetterRows DEF Progress
  <2>3. CASE DeleteChunks(r)
    BY <2>3, DeleteChunksRows
  <2>4. CASE InsertChunks(r)
    BY <2>4, InsertChunksRows
  <2>5. CASE Aside(r)
    BY <2>5 DEF Aside
  <2>6. QED BY <2>1, <2>2, <2>3, <2>4, <2>5, RunStepKinds
<1>4. \A e \in Docs \ {runs[r].doc} : queue'[e] = queue[e]
  <2>1. CASE Retry(r) \/ Crash(r) \/ Redeliver(r)
    BY <2>1, <1>2 DEF Retry, Crash, Redeliver, Requeued, Typed, TypeOK
  <2>2. CASE ~(Retry(r) \/ Crash(r) \/ Redeliver(r))
    BY <2>2 DEF Work, Fault, SetStatus, GenerateTags, DeleteChunks, InsertChunks, StartEmbedding,
                UpsertVectors, FinishEmbedding, StampJob, Exhausted, Ack, ParseFails, DeadLetter,
                TransientFails
  <2>3. QED BY <2>1, <2>2
<1>5. \A e \in Docs \ {runs[r].doc}, q \in Runs : Holds(q, e)' <=> Holds(q, e)
  <2>1. "ended" \notin Working \cup Failing
    BY DEF Working, Failing
  <2>2. QED BY <1>1, <2>1 DEF Moves, Holds
<1>6. QED BY <1>1, <1>2, <1>3, <1>4, <1>5 DEF Alone

\* and leaves it as it is if the run does not hold it and nothing is cut off.
LEMMA RunOrphans ==
  ASSUME Sequential, Typed, InTurn, NEW r \in Runs, Work(r) \/ Fault(r),
         NEW d \in Docs, runs[r].doc = d, Orphaned(d)
  PROVE  Orphaned(d)'
<1>1. UNCHANGED <<life, pending>> /\ Moves(r)
  BY RunAlone
<1>2. ~Obliged(r)
  BY DEF Orphaned, InHand
<1>3. StampJob(r) \/ Ack(r)
  BY <1>2, PlacesOfFailure
     DEF Sequential, Work, Fault, SetStatus, NextStatus, GenerateTags, DeleteChunks, InsertChunks,
         StartEmbedding, UpsertVectors, FinishEmbedding, Retry, Exhausted, ParseFails,
         TransientFails, Crash, Redeliver, Obliged, Working, Failing
<1>4. UNCHANGED <<docs, queue>> /\ ~Obliged(r)'
  <2>1. "ended" \notin Working \cup Failing /\ "returned" \notin Working \cup Failing
    BY DEF Working, Failing
  <2>2. CASE StampJob(r)
    BY <2>1, <2>2 DEF StampJob, Goto, Obliged, Typed, TypeOK
  <2>3. CASE Ack(r)
    <3> DEFINE run == [IdleRun EXCEPT !.pc = "ended", !.first = runs[r].first]
    <3>1. run.pc = "ended"
      BY DEF IdleRun
    <3>2. runs' = [runs EXCEPT ![r] = run] /\ UNCHANGED <<docs, queue>>
      BY <2>3 DEF Ack, End
    <3> HIDE DEF run
    <3>3. QED BY <2>1, <3>1, <3>2 DEF Obliged, Typed, TypeOK
  <2>4. QED BY <1>3, <2>2, <2>3
<1>5. \A q \in Runs : Obliged(q)' => runs'[q] = runs[q] /\ Obliged(q)
  BY <1>1, <1>4 DEF Moves, Obliged
<1>6. InHand(d)' => InHand(d)
  BY <1>1, <1>4, <1>5 DEF InHand
<1>7. QED BY <1>1, <1>4, <1>6 DEF Orphaned

\* A commit of a run that holds a document: progress, or the end.
LEMMA CommitShown ==
  ASSUME Typed, InTurn, NEW r \in Runs, runs[r].pc \in Working \cup Failing,
         NEW d \in Docs, runs[r].doc = d, NEW new \in DocRow, NEW st, NEW p,
         \/ Commit(r, new, st, p)
         \/ life[d] # "live" /\ UNCHANGED docs,
         life' = life,
         \/ new.status = seen[r].status
         \/ new.status # "queued" /\ (new.status \in Terminal => runs[r].pc # "loaded")
  PROVE  Transition(d)
<1>1. life[d] = "live" => UpToDate(r, d)
  BY Holder
<1>2. life[d] = "live" => docs'[d].status = new.status
  <2>1. CASE Commit(r, new, st, p)
    <3>1. docs' = [docs EXCEPT ![d] = IF new = seen[r] THEN docs[d] ELSE Flushed(d, r, new)]
      BY <1>1, <2>1 DEF Commit
    <3>2. docs'[d] = IF new = seen[r] THEN docs[d] ELSE Flushed(d, r, new)
      BY <3>1 DEF Typed, TypeOK
    <3>3. QED BY <1>1, <3>2 DEF UpToDate, Flushed
  <2>2. CASE life[d] # "live" /\ UNCHANGED docs
    BY <2>2
  <2>3. QED BY <1>1, <2>1, <2>2
<1>3. CASE life[d] # "live"
  BY <1>1, <1>3 DEF Facade, Transition
<1>4. CASE life[d] = "live"
  <2>1. /\ docs[d].status \notin Terminal /\ docs'[d].status = new.status
        /\ seen[r].status = docs[d].status
        /\ docs[d].status = "queued" => runs[r].pc = "loaded"
    BY <1>1, <1>2, <1>4 DEF UpToDate
  <2>2. Facade(d) = IF docs[d].status = "queued" THEN "queued" ELSE "working"
    BY <1>4, <2>1 DEF Facade
  <2>3. Facade(d)' = IF new.status \in Terminal \cup {"queued"} THEN new.status ELSE "working"
    BY <1>4, <2>1 DEF Facade
  <2>4. QED BY <1>1, <2>1, <2>2, <2>3 DEF Terminal, Transition
<1>5. QED BY <1>3, <1>4

\* Every step of a run is a transition, or changes nothing a client sees.
LEMMA RunShown ==
  ASSUME Sequential, Typed, InTurn, NEW r \in Runs, Work(r) \/ Fault(r),
         NEW d \in Docs, runs[r].doc = d
  PROVE  Transition(d)
<1>1. seen[r] \in DocRow
  BY DEF Typed, TypeOK
<1>2. ASSUME life' = life, docs'[d].status = docs[d].status
      PROVE  Transition(d)
  BY <1>2 DEF Facade, Transition
<1>3. ASSUME NEW new \in DocRow, NEW st, NEW p, CommitOrAbort(r, new, st, p), life' = life,
             runs[r].pc \in Working \cup Failing,
             \/ new.status = seen[r].status
             \/ new.status # "queued" /\ (new.status \in Terminal => runs[r].pc # "loaded")
      PROVE  Transition(d)
  <2>1. \/ Commit(r, new, st, p)
        \/ life[d] # "live" /\ UNCHANGED docs
    BY <1>3, AbortGoes
  <2>2. QED BY <1>3, <2>1, CommitShown
<1>4. CASE SetStatus(r)
  <2> DEFINE s == NextStatus[runs[r].pc]
             new == [seen[r] EXCEPT !.status = s]
  <2>1. /\ s \in Statuses /\ s # "queued" /\ runs[r].pc \in Working
        /\ s \in Terminal => runs[r].pc # "loaded"
    BY <1>4 DEF SetStatus, NextStatus, Statuses, Working, Terminal
  <2>2. new \in DocRow /\ new.status = s
    BY <1>1, <2>1 DEF DocRow
  <2>3. CommitOrAbort(r, new, s, s) /\ life' = life
    BY <1>4 DEF SetStatus
  <2> HIDE DEF s, new
  <2>4. QED BY <1>3, <2>1, <2>2, <2>3
<1>5. CASE \E t \in {"none", "generated"} : GenerateTags(r, t)
  <2>1. PICK t \in TagSets : GenerateTags(r, t)
    BY <1>5 DEF TagSets
  <2> DEFINE new == [seen[r] EXCEPT !.tags = t]
  <2>2. new \in DocRow /\ new.status = seen[r].status
    BY <1>1 DEF DocRow
  <2>3. CommitOrAbort(r, new, runs[r].jobSeen, "tagged") /\ life' = life
    BY <2>1 DEF GenerateTags
  <2>4. runs[r].pc \in Working
    BY <2>1 DEF GenerateTags, Working
  <2> HIDE DEF new
  <2>5. QED BY <1>3, <2>2, <2>3, <2>4
<1>6. CASE \/ StartEmbedding(r) \/ FinishEmbedding(r)
           \/ \E applied \in BOOLEAN : TransientFails(r, applied)
  <2>1. runs[r].pc \in Working /\ life' = life
    BY <1>6, PlacesOfFailure DEF StartEmbedding, FinishEmbedding, TransientFails, Working
  <2>2. PICK e \in EmbeddingStatuses, p \in Places :
          CommitOrAbort(r, [seen[r] EXCEPT !.emb = e], runs[r].jobSeen, p)
    <3>1. {"in_progress", "completed", "failed"} \subseteq EmbeddingStatuses
          /\ {"in_progress", "embedded", "retry"} \subseteq Places
          /\ seen[r].emb \in EmbeddingStatuses
      BY <1>1 DEF EmbeddingStatuses, Places, Active, Working, Failing, DocRow
    <3>2. CASE StartEmbedding(r)
      BY <3>1, <3>2 DEF StartEmbedding
    <3>3. CASE FinishEmbedding(r)
      BY <3>1, <3>3 DEF FinishEmbedding
    <3>4. CASE \E applied \in BOOLEAN : TransientFails(r, applied)
      <4> DEFINE emb == IF runs[r].pc = "in_progress" THEN "failed" ELSE seen[r].emb
      <4>1. CommitOrAbort(r, [seen[r] EXCEPT !.emb = emb], runs[r].jobSeen, "retry")
        BY <3>4 DEF TransientFails
      <4>2. emb \in EmbeddingStatuses
        BY <3>1
      <4> HIDE DEF emb
      <4>3. QED BY <3>1, <4>1, <4>2
    <3>5. QED BY <1>6, <3>2, <3>3, <3>4
  <2> DEFINE new == [seen[r] EXCEPT !.emb = e]
  <2>3. new \in DocRow /\ new.status = seen[r].status
    BY <1>1 DEF DocRow
  <2>4. CommitOrAbort(r, new, runs[r].jobSeen, p)
    BY <2>2
  <2> HIDE DEF new
  <2>5. QED BY <1>3, <2>1, <2>3, <2>4
<1>7. CASE ParseFails(r)
  <2> DEFINE new == [seen[r] EXCEPT !.status = "failed"]
  <2>1. DeadLetter(r) /\ runs[r].pc \in Working \cup Failing /\ runs[r].pc # "loaded"
    BY <1>7 DEF ParseFails, Working, Failing
  <2>2. new \in DocRow /\ new.status = "failed"
    BY <1>1 DEF DocRow, Statuses
  <2>3. /\ \/ Commit(r, new, "failed", "returned")
           \/ life[d] # "live" /\ UNCHANGED docs
        /\ life' = life
    BY <2>1 DEF DeadLetter
  <2> HIDE DEF new
  <2>4. QED BY <2>1, <2>2, <2>3, CommitShown
<1>8. CASE DeleteChunks(r) \/ UpsertVectors(r) \/ StampJob(r) \/ Retry(r) \/ Exhausted(r)
           \/ Ack(r)
  BY <1>2, <1>8 DEF DeleteChunks, UpsertVectors, StampJob, Retry, Exhausted, Ack
<1>9. CASE InsertChunks(r)
  BY <1>2, <1>9, InsertChunksRows
<1>10. QED
  BY <1>4, <1>5, <1>6, <1>7, <1>8, <1>9 DEF Work, Fault, Crash, Redeliver, Sequential

\* Where nobody reprocesses, no worker dies and no message is delivered twice, every
\* behaviour of the pipeline is one of Lifecycle: a client that polls the document sees it
\* queued, in progress, then completed or failed for good, or deleted for good, unless it is
\* given up, and then it never changes again; failed attempts, retries and re-tags are
\* invisible to it.
THEOREM ImplementsLifecycle ==
  ASSUME Sequential
  PROVE  Spec => Abstract!Safety
<1>1. Init => Abstract!Init
  BY DEF Init, Abstract!Init, Shown
<1>2. ASSUME Typed, InTurn, [Next]_vars
      PROVE  [Abstract!Next]_([d \in Docs |-> Shown(d)])
  <2>1. CASE \E d \in Docs : Client(d)
    <3>1. PICK d \in Docs : Client(d)
      BY <2>1
    <3>2. Alone(d) /\ UNCHANGED <<runs, queue>>
      <4>1. \A e \in Docs \ {d} : pending'[e] = pending[e]
        BY <1>2, <3>1 DEF Client, Upload, UpdateTags, Reprocess, Delete, Typed, TypeOK
      <4>2. QED BY <1>2, <3>1, <4>1, ClientRows DEF Alone, Holds
    <3>3. CASE \E t \in {"none", "user"} : Upload(d, t)
      <4>1. /\ life[d] = "absent" /\ life'[d] = "live" /\ docs'[d].status = "queued"
            /\ pending'[d] = pending[d] + 1 /\ pending[d] \in Nat
        BY <1>2, <3>3 DEF Upload, NewRow, Typed, TypeOK
      <4>2. Transition(d)
        BY <4>1 DEF Facade, Transition
      <4>3. ~Orphaned(d) /\ ~Orphaned(d)'
        BY <4>1 DEF Orphaned, InHand
      <4>4. QED BY <3>2, <4>2, <4>3, OneShown
    <3>4. CASE \E t \in {"none", "user"} : UpdateTags(d, t)
      <4>1. PICK t \in {"none", "user"} : UpdateTags(d, t)
        BY <3>4
      <4>2. docs'[d].status = docs[d].status /\ UNCHANGED <<life, pending>>
        BY <1>2, <4>1 DEF UpdateTags, Typed, TypeOK, DocRow
      <4>3. Transition(d) /\ (Orphaned(d)' <=> Orphaned(d))
        BY <3>2, <4>2 DEF Facade, Transition, Orphaned, InHand, Obliged
      <4>4. QED BY <3>2, <4>2, <4>3, OneShown
    <3>5. CASE Delete(d)
      <4>1. life[d] = "live" /\ life'[d] = "deleted"
        BY <1>2, <3>5 DEF Delete, Typed, TypeOK
      <4>2. Transition(d) /\ ~Orphaned(d)'
        BY <4>1 DEF Facade, Transition, Orphaned, Terminal, Abstract!Live
      <4>3. QED BY <3>2, <4>1, <4>2, OneShown
    <3>6. QED BY <3>1, <3>3, <3>4, <3>5 DEF Client, Reprocess, Sequential
  <2>2. CASE \E d \in Docs : Enqueue(d) \/ EnqueueFails(d)
    <3>1. PICK d \in Docs : Enqueue(d) \/ EnqueueFails(d)
      BY <2>2
    <3>2. UNCHANGED <<life, docs, runs>> /\ pending[d] > 0
      BY <3>1 DEF Enqueue, EnqueueFails
    <3>3. Alone(d)
      BY <1>2, <3>1, <3>2 DEF Enqueue, EnqueueFails, Alone, Holds, Typed, TypeOK
    <3>4. Transition(d) /\ ~Orphaned(d)
      BY <3>2 DEF Facade, Transition, Orphaned, InHand
    <3>5. QED BY <3>2, <3>3, <3>4, OneShown
  <2>3. CASE \E r \in Runs, d \in Docs, k \in 0 .. MaxRetries : Deliver(r, d, k)
    <3>1. PICK r \in Runs, d \in Docs, k \in 0 .. MaxRetries : Deliver(r, d, k)
      BY <2>3
    <3>2. /\ UNCHANGED <<life, docs, pending>> /\ queue[d][k] > 0
          /\ queue' = [queue EXCEPT ![d][k] = @ - 1]
          /\ \A q \in Runs \ {r} : runs'[q] = runs[q]
          /\ runs'[r].doc = d /\ runs[r].pc = "idle"
      BY <1>2, <3>1, DeliverRows DEF Deliver
    <3>3. "idle" \notin Working \cup Failing
      BY DEF Working, Failing
    <3>4. Alone(d)
      BY <1>2, <3>2, <3>3 DEF Alone, Holds, Typed, TypeOK
    <3>5. Transition(d) /\ ~Orphaned(d)
      BY <3>2 DEF Facade, Transition, Orphaned, InHand
    <3>6. QED BY <3>2, <3>4, <3>5, OneShown
  <2>4. CASE \E r \in Runs : Work(r) \/ Fault(r)
    <3>1. PICK r \in Runs : Work(r) \/ Fault(r)
      BY <2>4
    <3>2. PICK d \in Docs : d = runs[r].doc /\ Alone(d) /\ UNCHANGED life
      BY <1>2, <3>1, RunAlone
    <3>3. Transition(d) /\ (Orphaned(d) => Orphaned(d)')
      BY <1>2, <3>1, <3>2, RunShown, RunOrphans
    <3>4. QED BY <3>2, <3>3, OneShown
  <2>5. CASE UNCHANGED vars
    <3>1. \A d \in Docs : Shown(d)' = Shown(d)
      BY <2>5 DEF Shown, Orphaned, InHand, Obliged, vars
    <3>2. QED BY <3>1
  <2>6. QED BY <1>2, <2>1, <2>2, <2>3, <2>4, <2>5 DEF Next
<1>3. QED BY <1>1, <1>2, TypedAlways, InTurnAlways, PTL DEF Spec, Abstract!Safety
=============================================================================
