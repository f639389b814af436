# Verification of the Keel backend

TLA+ models of the Keel backend (`src/backend`), the TLC runs that check them on small
instances, and TLAPS proofs for all instances. `PROJECT.json` lists components, runs,
mutants, findings, hazards and theorems, and maps each definition to the lines it models.

    tlc -workers 2 -config Ingestion_safety.cfg MCIngestion.tla
    tlapm IngestionProofs.tla

## 1. The system

Keel is a FastAPI service with a Celery worker behind it. PostgreSQL holds all durable
state, Redis is the broker and the rate-limit store, Qdrant holds vectors, Neo4j a graph,
S3 (or a directory) the bytes. Each HTTP request is one coroutine with one database session
(`get_db`: commit on success, rollback on any exception; READ COMMITTED). Four worker
processes run `ingest_document`, each with a session of its own (`expire_on_commit=False`,
so a session keeps what it has loaded).

| Component | State it keeps | Operations | What makes it correct |
|---|---|---|---|
| Ingestion pipeline (`ingestion/`) | `documents`, `ingestion_jobs`, `ingestion_errors`, `document_chunks`, vectors, queue | `run`, the task's retry clauses (`mark_failed` is never reached) | a document is given up in known ways only; completed means indexed; failed means dead-lettered; deleted stays empty; jobs tell the truth |
| Document API (`document_service`, `api/ingest`, `api/documents`) | the same rows | upload, reprocess, re-tag, delete, status | commit before enqueue; no conflict with a run at work |
| Tagging, NER, graph store, parsing | none | best-effort steps | never fail a document (parsing: only by ParseError) |
| Chunking | none (pure) | `chunk_parsed` | nothing lost, chunks near the cap |
| Authentication (`auth_service`) | users, refresh tokens | register, login, refresh, logout | lockout after failed logins; a refresh token redeemed once, but for a race; logout ends a session |
| Members (`user_service`) | organization_members | invite, change_role, remove_user | never without an admin, but for a race |
| Principals and API keys (`deps`, `apikey_service`) | api_keys | resolve, create, revoke | a revoked key is refused, a read-only one does not write |
| Rate limit | a Redis sorted set per key | `enforce` | at most the limit per minute, rejected requests hold no slot |
| LLM gateway, usage | token bucket, token_usage | `call_llm`, `stream_llm`, `embed`, `record_usage` | rate bounded, every answer accounted once, every call ends |
| Connectors | connectors, credentials, documents | seeding, OAuth, sync, disconnect | each file once, but for a race; a connected card keeps its token; one bad file costs no other |
| Chat | conversations, messages | stream, answer | a turn is stored whole; follow-ups see finished turns |
| Object storage and upload | objects, parts | save_part, complete_multipart, ingest | a row's bytes are there, whole and within the limit |
| Vector store, graph, retrieval | collections, mentions | upsert, search, augment, context | the graph only adds; the context keeps near its budget and fills it |
| Dashboard, settings, MCP, shell | - | reads, single-row updates | no protocol |

They meet in these places. The API commits a document and its job and *then* calls
`ingest_document.delay`; the broker delivers with `acks_late`; the worker re-reads the rows,
commits after each step and talks to storage, gateway, Qdrant and Neo4j in between;
clients poll the rows. Uploads, pushes and connector sync all end in the same
`create_queued_document`. Chat retrieves from what the worker has indexed, and worker, search
and chat all reach the model provider through the gateway of their process.

What is hard here: API requests and overlapping runs interleave at every commit (reprocess
never looks for an active run); a run decides on rows it loaded minutes ago; a document is
deleted under its run; workers die, deliveries are repeated, retries start from scratch;
several stores are written one after the other; browsers leave in the middle of a stream, and
cancellation hits a coroutine wherever it waits. `PROJECT.json` "hazards" gives each with its
line.

## 2. Modules

| Module | What it is |
|---|---|
| `Ingestion` | the document API, the queue and the worker runs: state, actions, properties, mutants |
| `Lifecycle` | the abstract specification: what a client that polls a document is promised |
| `IngestionRefinement` | `Ingestion` implements `Lifecycle`: refinement mapping `Shown` |
| `MCIngestion` | instances for TLC, symmetry of run ids |
| `IngestionProofs` | the theorems about `Ingestion` |
| `Members`, `MCMembers`, `MembersProofs` | members of a workspace and the access tokens that let admin requests in |
| `ApiKeys`, `MCApiKeys`, `ApiKeysProofs` | requests with an API key: lookup, sliding-window limiter, usage counter |
| `Sessions`, `MCSessions`, `SessionsProofs` | registration, login, refresh, logout |
| `Gateway`, `MCGateway`, `GatewayProofs` | calls to the model provider: token bucket, retries, usage rows, cancellation |
| `Chat`, `MCChat`, `ChatProofs` | turns of conversations, streamed and not |
| `Uploads` | parts, their assembly, single-request pushes, the document row after the bytes |
| `Connectors`, `MCConnectors`, `ConnectorsProofs` | the Drive card, handshakes and syncs, composed with `Uploads` (EXTENDS) |
| `Chunking` | from parsed sections to chunks: operators |
| `Retrieval`, `MCRetrieval`, `RetrievalProofs` | indexing and questions, composed with `Chunking` (EXTENDS) |

### How Ingestion corresponds to the code

An action is everything the code does up to **one database commit or one external write**,
so two transactions interleave in the model as they can in the code.

* `docs`, `jobs`, `letters`, `chunks` are the rows (a chunk row is named by the run that
  inserted it, so that generations can be told apart); `vectors` the Qdrant points;
  `queue[d][k]` the ready messages with k retries; `pending` the requests between commit and
  `delay()`.
* `seen[r]` is the session's copy of the documents row and `jobSeen` that of the job status.
  `Flushed` writes **only the columns that differ from the copy**; `Dirty` says whether there
  is anything to write. A dirty commit waits for the row lock (`RowFree`) and finds no row
  when the document is gone: `StaleAbort`.
* `SetStatus` is `_set_status` with the work that precedes it, by the place the run has
  reached (`NextStatus`). `DeleteChunks` and `InsertChunks` are the two halves of the persist
  step: assigning `content_hash` makes the session flush an UPDATE before the DELETE, which
  locks the documents row if the hash is new (`first`); `old` is what the DELETE's snapshot
  contains.
* A file may yield text (`TextDocs`), bytes but no chunk (a blank text, a table with headers
  only, a scan), or have no bytes at all (`EmptyDocs`). `Yield(r)` is what a run inserts and embeds:
  its chunks or nothing (`if data`, `if chunk_rows`). `chunked` stands for the columns the persist step
  writes, `chunk_count` (null until then) and, if there are bytes, `content_hash`: a document
  with nothing to store completes like any other.
* `DeadLetter`, `ParseFails`, `TransientFails` are the except clauses of `run`, `Retry` and
  `Exhausted` those of the task. When no retry is left, `self.retry(exc=exc)` raises `exc` and not the
  `MaxRetriesExceededError` that the task catches: the task just ends. `mark_failed`, which that clause
  would call, is dead code and left out.
* `Ack`, `Crash`, `Redeliver` are delivery. A message is acknowledged when its task returns; after
  the visibility timeout it is delivered once more. A run may be cut off anywhere: if the whole
  worker dies the message comes back, but if only the pool process does (the hard time limit, the
  kernel), the worker acknowledges it, for `task_reject_on_worker_lost` is not set; the same
  happens if a database error spoils the handler's own commit. `Crash` chooses.

`Events` selects what clients and the environment do in an instance.

### Abstractions

* `current_step` and `steps_completed` are functions of the status. Tags are none, generated or the user's.
* A job is numbered by `created_at`, taken to be commit order.
* The load of the document and of its newest job are one step. The branch "no job row" is
  unreachable: document and job are committed together (`LatestExists`, proved).
* The API handlers that read and then write a row are one action: with the changed-columns
  rule the read matters only for reprocess, whose old copy `Reprocess` allows for.
* A delivery is repeated at most once (90-minute limit against one hour of visibility).
* Graph and NER never fail the document and write nothing the pipeline reads: left out.
  So are the embedding calls' own retries (`_with_retry`), which end in an answer or in the
  exception that `TransientFails` is about.

### Members, ApiKeys and Sessions

In these three a request is a database session, and its state says how far it has come.
Reads and the commit are separate actions; what a session has read stays in the request.

* `Members`: `LoadMember`, `CountAdmins` and `ChangeRole`/`RemoveUser` are the SELECT of the
  member, the SELECT of all members, and the commit. `AdminsSeen` is what the second SELECT
  returns: current rows, but the member already loaded keeps the role it was loaded with
  (identity map). A lost race ends in a unique violation (`Invite`) or in a `StaleDataError`
  (`ChangeRole` of a row that is gone; a DELETE of no row is only a warning). `Start` is
  `require_admin`, which asks the token and not the membership.
* `ApiKeys`: time is a variable; `stamp` is `time.time()` of `enforce`; `Execute` is the
  MULTI/EXEC transaction, `Reject` the separate ZREM. `MaxDelay` bounds the time from stamp to
  transaction. `FailOpen` is a Redis error before or after the command took effect. `Tick`
  also lets Redis drop the expired set. One key is modelled, for keys share nothing.
* `Sessions`: `WrongPassword` changes the session's copy and raises, `Rollback` is `get_db`.
  `Login` writes the columns that differ from the copy. A token is named by the request that
  issued it; `root` is the login it descends from. A membership is read at the commit
  of its login or refresh. Not modelled: expiry of tokens and lockouts (nobody is ever locked: see
  `LocksOut` in section 3), invited accounts (their password is random and nothing accepts the
  invitation, so they never log in).

Requests overlap without restriction. The code takes no locks, so some races do break a
promise, and the question is whether anything else does. History variables answer it:
`overtaken` (`Members`, `Sessions`) holds the requests that had read what another request has changed
since (the role of another admin; the same refresh token), `ended` the logins that a logout
has revoked a token of, `raced` (`Connectors`) the files one sync was making when another made them.
`AdminUnlessOvertaken`, `RedeemedOnceUnlessOvertaken`, `LiveUnlessOvertaken` and `FileOnceUnlessRaced`
say that the promise holds unless that very race has happened (and, for the first three, the overtaken
request has committed all the same): stale copies, re-invites, promotions, other tokens, syncs in a row and repeated files do
not break it. That the race does is the business of `members_last_admin` and `sessions_double`.

### Gateway

* A call is a coroutine of one process. `Begin` to the end of it are the stretches between two
  awaits: `Acquire` and `Wake` (`TokenBucket.acquire`), one `Answer` or `FailAttempt` per
  request to the provider, `RecordUsage`, and for a stream `EndStream` and its finally clause.
* `credit` is `TokenBucket.tokens` in units of 1/`Refill` token, so that a unit comes with each
  unit of time; `updated` is `_updated`, read *before* the sleep as in the code. `Wake` sets the
  credit to what the code leaves there and does not read the clock again. Who sleeps holds
  `lock`; others stay in `queued`.
* A retry asks the provider again without another token (`_with_retry` is inside `acquire`'s
  batch), and its backoff is time without effect. Which errors are transient is a choice.
* `embed` loops over batches, each with a token, an answer and a row of its own. `Shapes` are
  the callers: a session of their own (the row is committed) or the caller's (the row is
  flushed: `pending`, until `CallerCommits` or `CallerRollsBack`). A failed flush leaves the
  caller's session unusable (`poisoned`).
* `Cancel` may come at every await. In the finally clause of a stream the row may be written or
  not (`CancelAfterRow`); `async with` frees the lock (`Released`).
* `granted` and `marks` are history: how many tokens had been given when each unit of time began.

### Chat

* `Ask` is the endpoint, `LoadHistory` the best-effort read of settings and history with
  `ORDER BY created_at DESC LIMIT 10`, where rows with one date come in any order; `Answer`
  stands for retrieval and the whole answer; `Look` and `Commit` are `_persist`: the SELECT of
  the conversation, and the one commit of it and both messages. `created_at` is the beginning of
  the transaction, so it is the same for both rows and may be older than rows committed before.
* `InsertRefused` is the constraint on the conversation's id or on its user: the REST client
  with an API key has no user row. `Leave` is the browser: Starlette cancels the generator
  wherever it waits. A REST handler is not cancelled. `Fail` may also come after the commit, when
  its acknowledgement is lost or the REST request's own transaction fails (`get_db`).
* `Window` must be even (10 in the code, 2 in the run) for `HistoryHasWholeTurns`: both rows of a
  turn have one date, so an odd window cuts one in two. It is the hypothesis of its theorem.

### Uploads and Connectors

* Document ids are drawn in order (`Draw`), and an object is the set of parts that was put under
  an id; a document's content is right if it is `Whole`. `Heavy` uploads are over
  `max_upload_bytes` together though no part is.
* `Receive`, `Assemble` or `StoreBody`, `CommitPush` are the steps of a request; `BreakOff` is
  the local store, which has begun the object when it finds a part missing; `PushFails` is
  everything else: S3's NoSuchKey, the size and type checks, errors, and the death of the process.
* `Visit` and `Seed` are the SELECT and the INSERT of `ensure_default_connectors`; `StartOAuth`,
  `Callback`, `Exchange` and `StoreTokens` the handshake, with the card's status and credential as the session
  has read them. Google's answer may bring a refresh token or not: `Credential` is `if refresh`, so a
  credential row may hold no token (`empty`), and the card is connected all the same; `BeginSync` to `Close` the loop of `sync`, one action per await. `FileFails`
  with the database leaves the session `poisoned`: no rollback in the except clause, so every later
  statement fails.
* What happens to a document after its row is `Ingestion`'s; `docs` here is the row alone.

### Chunking and Retrieval

* A word is its position in the text and has a weight, the tokens it stands for. `Texts(n)` has
  every division of n words into blocks and every choice of headings, `Tables(n)` a table below
  its header. `Trim`, `Split`, `WithSection`, `MergeLast`, `RowBatches` are the steps of
  `chunking.py` with its constants as CONSTANTS. A row and a header count for one token.
  `Kept(s, W)` are the members of a sequence that are in W, in order; it is what the loops that
  fill a buffer, drop duplicates and cut at k come to.
* `Retrieval` stores a document (`Persist`), writes its vectors (`Index`, whose points are named
  by document, run and index as the fresh uuid of a chunk would) and its entities (`MapEntities`),
  and deletes it, while a question goes through search (`Ask`), graph augmentation and context
  (`Augment`). Points are never removed, as in the code. The two searches are two steps: the index may change
  in between.
* `Blocks` is the loop of `assemble_context`, `Assemble` adds what is returned: `used`, `total` and
  `truncated` as the loop has them, and `sent`, the tokens of the joined context, which are
  those of the blocks and of the blank lines between them (`Separators`, one token each). The code
  weighs the blocks alone.
* How similar a chunk is to the question is chosen when it is indexed; there is one question
  and one entity, chosen to be mentioned or not. Relations between entities are written by the
  code and read by nothing, and are left out.

## 3. Runs

**Ingestion.** `MaxJobs` bounds uploads plus reprocess calls, `Runs` the deliveries,
`MaxRetries` the retries (3 in the code, 1 here: there is a retry and an exhausted
retry). Two deliveries are enough for every race of two runs, and for an attempt and its retry. `safety` has
two documents, so that a run may pick the wrong job, one with text and one without bytes;
`sequential` three, one of each kind of file. **Members**, **ApiKeys**, **Sessions**:
four or five requests (a guard that is passed needs two that race and two that prepare them,
an invite and a promotion); three people; a window of three units with a limit of two, so
that a fourth request meets one that is leaving the window; `MaxTime` stops the clock after
the window has passed once; `MaxAttempts` also bounds the wrong passwords. **Gateway**: two
calls of up to two batches on a bucket of one token, which is empty after the first: the
second sleeps, the third waits for the lock. `MaxTime` stops the clock for all but a sleeper, two
refills after the start. **Chat**: three turns, so that two can race while a third is finished or
follows; two conversations; a window of one turn. **Connectors**: two requests of each kind, of
which `MaxBegun` = 4 in one behaviour (a handshake before two syncs, or two handshakes and
two pushes), three files of which one is unfit, uploads of two parts, two ids (`MaxIds`: two syncs of one
file, or an upload and a file). **Retrieval**: `MaxText`
= 4 words of weights 1, 3 and 6 around a target of 4, a cap of 5, a least of 2: words under,
between and over them, enough for three windows (3 words, stride 2), for a merged last chunk and for
every division into blocks; texts of up to `MaxLong` words and tables of up to `MaxWords` rows
are indexed, and each document twice (`MaxGen`), so that questions meet chunks of earlier
runs and of deleted documents.

Symmetry is used in runs without liveness properties only, over requests, runs, turns and the like,
users other than the founder, and Drive files that are fit. `CHECK_DEADLOCK FALSE`: an instance
stops when its requests, deliveries or jobs are used up.

| Run | Shows |
|---|---|
| `ingestion_safety` | all faults but broker errors: `DeletedStaysEmpty`, `ChunksMatchRow`, `FailedIsDeadLettered`, `FirstRunsExclude`, `JobShowsDocument`, `OrphanedOnlyIfGivenUp`, types |
| `ingestion_sequential` | `Ingestion` implements `Lifecycle` (`RefinesLifecycle`); `CompletedIsIndexed` |
| `ingestion_exhausted` | finding: exhausted retries write no dead letter |
| `members_guard` | `AdminUnlessOvertaken`, `OneMembership`, types |
| `members_last_admin` | finding: two admins can demote or remove each other |
| `apikeys_rate` | late transactions, Redis failures, crashes: `AtMostLimit`, `CountIsExact`, types |
| `sessions_rotation` | `RedeemedOnceUnlessOvertaken`, `LiveUnlessOvertaken`, `SignupIsWhole`, types |
| `sessions_double` | finding: two refreshes at the same time redeem one token twice |
| `gateway_calls` | all faults: `RateBounded`, `EveryAnswerLogged`, `EveryCallEnds`, types |
| `chat_turns` | all faults: `TurnIsWhole`, `HistoryHasWholeTurns`, `FollowUpSeesPrior`, `FollowUpAnswered`, types |
| `connectors_intake` | all faults: `RowHasItsBytes`, `FileOnceUnlessRaced`, `ConnectedKeepsToken`, `OthersStillSynced`, types |
| `retrieval_library` | every small text and table, questions between writes: `NothingLost`, `CapNearlyKept`, `GraphOnlyAdds`, `ContextFillsBudget`, types |

`AtMostLimit` speaks of `Window - MaxDelay` and not of the whole window: a request stamped
early whose transaction comes late is counted among the members of the window *at its stamp*,
so with the whole window the property is violated (checked). `RateBounded` allows twice the rate and
a request more than a bucket would: the time of a sleep is credited to the sleeper and again to the
next call (`llm_gateway.py:76-85`), and a sleeper may wake late. `CapNearlyKept` says how far the hard cap is missed, and `NothingLost`
speaks of texts without heavy runs of words (`Even`), for the same reason. `ContextFillsBudget` says how
far over its budget a context can be: by the blank lines between its blocks (specs/007 promises that it
never is). `RateBounded` counts tokens of the bucket: the retries of one provider request share one.
`EveryAnswerLogged` is about answers: a call that fails leaves no row.

**Which environment each property needs.** The runs differ in `Events` because the code
promises different things against different faults, and the limits were found by checking:

* `OrphanedOnlyIfGivenUp` holds in every environment, because it names the steps that leave a
  document half way: `EnqueueFails`, `Exhausted`, and a `Crash` whose message does not come back. Any
  one of them violates `NoOrphanedDocument`.
* `CompletedIsIndexed` and `RefinesLifecycle` fail as soon as two runs of a document overlap: reprocess
  does it, a repeated delivery does it, and so does a crash between the publication of a retry and
  the acknowledgement (`transient` with `crash`). Hence a run without crashes. The environment still has
  failures at every step, retries that run out and broker errors: `Lifecycle` has a state `abandoned` for a
  document that was given up, and the refinement says that it is never entered otherwise and never left
  but by deletion; a document that is not given up settles.
* `JobShowsDocument` is about documents not reprocessed yet: runs update the newest job only
  (`worker_flow.py:112-122`), so the job of a document that is reprocessed before its run starts stays
  queued for good.

**Promises the code does not keep, stated in the modules but in no run.** Each is violated as
soon as it is added to a configuration:

* `UserTagsKept` (events `{"tags"}`): `if not doc.tags` tests the session's copy, so tags a user
  sets after the run has loaded the row are overwritten (`worker_flow.py:149`).
* `PersistedChunksKept` (events `{"transient"}`): a retry replaces the persisted chunks, although
  the docstring of `worker_flow.py` says it skips what exists.
* `OnlyAdminsAdmitted` (`Members`): `require_admin` trusts the role in the token; a demoted admin
  gets in for up to 15 minutes (`deps.py:85`; specs/002, criterion 2).
* `RejectedOnlyWhenFull` (`ApiKeys`): a rejected request holds a slot until its ZREM, and another
  one is rejected for it (`rate_limit.py:48`).
* `OneGeneration` (events `{"reprocess"}`, three deliveries): two overlapping runs of a document
  with chunks both leave theirs, for neither DELETE sees the other's rows (`worker_flow.py:163`).
* `NoOrphanedDocument` (events `{"transient"}`, `{"crash"}` or `{"broker"}`): a document stays in progress
  with nobody to go on with it (`tasks.py:46`, `worker.py:18`, `document_service.py:47`).
* `FileOnce` (`Connectors`): two syncs that overlap make two documents of a file
  (`connector_service.py:195`; specs/006, criterion 2). `ConnectedIsAuthorized`: Google's answer without
  a refresh token connects a card over a credential that holds none (`connector_service.py:116`).
* `LocksOut` (`Sessions`): the count of wrong passwords is set and then rolled back with the
  exception that reports them, so no account is ever locked (`auth_service.py:144`; specs/001,
  criterion 3).
* `RateKept` (`Gateway`): see `RateBounded`. `UsageNeverFailsCaller`: a usage row that cannot be
  flushed takes the caller's transaction with it, although the docstring of `usage.py` says it
  is "never raised into the caller's request".
* `KeyIsAnswered` (`Chat`): `POST /api/chat` with an API key and no conversation fails when the new
  conversation is given a user that does not exist (`chat_service.py:198`; specs/008, criterion 1).
  `AnsweredIsKept`: a browser that leaves after the last token and before the commit leaves
  nothing (`chat_service.py:261`; docs/api-contract.md:81).
* `OneDocumentPerUpload` (`Uploads`): a repeated final request makes a second document.
* `OneCard`, `DisconnectRevokes`, `DisconnectedIsBlank`, `KeepsSyncing` (`Connectors`): two first visits seed two
  cards, after which the handshake raises; disconnecting keeps the credential and sync does not look
  at the status (specs/006, criterion 3); a sync that ends after it dates the card again; and an
  error of the database is met by every file that follows (`connector_service.py:232`).
* `HardCap`, `TextKept`, `RefIsOfText` (`Chunking`): a small last chunk is merged past the cap and a
  long word is not cut (docs/ingestion-pipeline.md:45); words trimmed off a window are in no chunk if
  the next one starts behind them (`chunking.py:72`); a buffer that starts without a heading takes the
  first one that comes (`chunking.py:102`).
* `ContextWithinCap` (`Retrieval`): the blank lines that join the blocks of a context are not counted against
  its cap (`retrieval_service.py:130`; specs/007, criterion 2).
* `EvidenceOpens`, `QuestionAnswered` (`Retrieval`): answers cite chunks of deleted documents and
  of earlier runs, whose vectors nobody removes (`document_service.py:190`); a question in a workspace without documents fails in
  the vector store, whose docstring says that a search creates the collection (`vector_store.py:112`).

**Fairness.** `FairSpec` has weak fairness of `Enqueue` (the request handler goes on),
of the delivery of each document's messages (a free worker takes the next one; the FIFO
queue starves none) and of `Work(r)` (a worker process runs its task to the end). Nothing is
assumed of clients and faults: they happen or not. Only `sequential` and
`exhausted` use it. `Gateway` has weak fairness of time and of each call's own steps (the
provider answers or its client times out, the database answers), and strong fairness of
`Acquire`, because `asyncio.Lock` serves its waiters in order: who waits while the lock is freed again
and again gets it in the end. Clients may cancel or not. The other components have safety properties only: their
requests run to an end by themselves or are given up.

**Mutants.** Each module defines, beside the action it replaces, a plausible wrong version
for each checked property (a DELETE committed on its own, a lock not taken, a
failure logged and forgotten, a dead letter not written...); with it the run must find the property
violated.

## 4. Theorems

`IngestionProofs`, for every set of documents and deliveries, every bound and every choice of
events:

* `TypeCorrect`: `Spec => []TypeOK`. The invariant is `Typed`: types, plus *every live
  document has a newest job* (`LatestExists`; without it `LatestJob` could be anything and
  the job a run records would have no type), plus *a run at work has a document*. New jobs
  are numbered above all others, so their existence as newest needs no induction on sets.
* `DeletedForGood`: `Spec => []DeletedStaysEmpty`, inductive together with `Typed`.
* `NothingForgotten`: `Spec => OrphanedOnlyIfGivenUp`, in every environment. The step
  to `completed` settles the document only if that commit writes the status column, that is
  if the session's copy has another status; so the invariant has `SeenMatches` (at the places
  from which a terminal status is written the copy shows the place). The proof treats each step of a
  run as *local* to its document (`OthersRemembered`) and shows that the run remains obliged
  (`StillObliged`), or has discharged its duty (`Discharged`), or owed nothing (`NotObliged`), or that
  the step is one of those that give the document up.
* `ChunksReplacedAtOnce`: `Spec => []ChunksMatchRow`, inductive with types and with
  `DeletedStaysEmpty`, so that an upload finds no chunks of an earlier life.
* `FailuresExplained`: `Spec => []FailedIsDeadLettered`. For jobs, which a run updates by the number it
  has loaded, it needs `Known`: that number is a job of the run's document (`JobsMatch`).
* `FirstRunsAlone`: `Spec => []FirstRunsExclude`, although a DELETE sees the rows of its snapshot only.
  The invariant `Excluding` says why: of first runs in the middle of the replacement there is one for
  each document, for the flushed hash holds the row lock (`OneHoldsTheRow`), and the chunks of
  an earlier first run are in the snapshot of the DELETE that waited for it (`FirstInOld`).
* `JobAndDocumentAgree`: `Spec => []JobShowsDocument`, with overlapping runs, repeated deliveries and
  all faults. Since only columns that differ are written, two stale copies could pull job and
  document apart; the invariant `Agreeing` is that within each session the copies of both agree,
  so a commit changes both or neither.
* `CompletedCanBeFound` and `ImplementsLifecycle`, if the environment is `Sequential`: nobody
  reprocesses, no worker crashes, no visibility timeout passes; retries and their end, dead letters,
  re-tags, deletion under the run, broker errors and files of every kind remain. The first is
  `Spec => []CompletedIsIndexed`, the second
  `Spec => Abstract!Safety`: the initial states map to initial states and each step to a step of
  `Lifecycle` or a stutter. Both follow from `InTurn`: a live document is with one request, one
  message or one run (`WithOne`), and the run it is with knows what it has written so far (`UpToDate`).
  With two runs one writes a status out of turn, or replaces chunks the other has vectors for.

`MembersProofs`: `TypeCorrect`; `OneMembershipEach` (inductive with types: `Invite` commits
only if no row of that person exists); `AdminLostToARaceOnly`, whatever requests overlap.
`AdminUnlessOvertaken` is not inductive: a request past the guard has decided on old rows. The invariant adds
`Cleared`: while such a request is to write and has not been overtaken, somebody else is an admin. Whoever
takes that other admin's role away overtakes it; and if it commits after that, that is the race.

`ApiKeysProofs`: `TypeCorrect`; `RateKept`, by `RateInv`: a request that passed stays in the set
until its minute is over (`Kept`), the set does not expire before, and stamps are at most
`MaxDelay` old at the transaction (`Stamped`), so whoever is in the new request's window is among
the members Redis counted; `EveryRequestCounted`, by cardinality of the admitted set.

`SessionsProofs`: `TypeCorrect`; `SignupsAreWhole`; `RedeemsTwiceInARaceOnly` and `TokensRotate`, whatever
requests overlap. Their invariant `Rotating` adds: a token found live is live until the request commits or is
overtaken (`StillLive`), a redeemed one is revoked (`Spent`), and the root of a token is a login that issued
one (`Rooted`), so that a fresh login's session is empty and no logout has ended it.

`GatewayProofs`: `TypeCorrect` and `AnswersLogged`, from what holds of each call by itself
(`Settled`: a call whose answer or stream is still to be recorded is one row behind, any
other is even, unless spoiled); `RateIsBounded`, for every moment at once. Its invariant
`Within` measures what has been let through since a moment *and* what the bucket holds: while the
bucket is dated before the moment there has been at most the request of a sleeper; after that the
sum is a burst, a request, and the refills, of which those up to the last date (`updated`)
count twice. `SleepsLongEnough` says when a sleeper wakes.

`ChatProofs`, for any finite set of turns, any conversations and any window: `TypeCorrect`;
`TurnsAreWhole`, from `WholeRows` (the rows of a turn are none or its own two, in a conversation that
is there, and who has stored has them); `FollowUpsAnswered`, from `Answerable`; `FollowUpsSeePrior`:
`Reaches` says that a history loaded after a turn was finished contains it or is full of newer rows.
The proof compares dates: every transaction has its own (`Dated`), so the rows that keep an old turn
out of the window are newer than it, and rows that are committed later do not matter, for what was
loaded is kept. `HistoriesAreWhole`, for an even window: the rows of the window come in pairs
(`PairsAreEven`), since a turn of which half is in the window would have to share its date with what
is left outside, and a full window would count an odd number.

`ConnectorsProofs`, about `Connectors` with `Uploads`: `TypeCorrect`; `RowsHaveTheirBytes`, by `Alone`
(an open request has its id to itself: no other request, document or sync has it, because ids are
drawn in order, `Numbered`) and `Stored` (what is about to become a row is whole in the store), so
nobody writes under an object a row stands for; `ConnectedKeepTokens`, by `Explained` (a card's
credential is there exactly if a handshake has completed, and holds a token exactly if one brought it);
`OthersSynced`, by `Passed`:
each file of the list that a sync has left behind has a document, is unfit, or was hit by a
fault; `FilesTwiceInARaceOnly`, by `StillNew`: a file that a sync is at work on has no document unless
it is in `raced`. Handshakes, pushes, visits and
faults may interleave with all of it. `NamesAssumption` says that a pushed upload has no Drive file's id.

`RetrievalProofs`, about `Retrieval` with `Chunking`, for texts, tables and libraries of any size and
any positive values of the constants: `TypeCorrect`; `ChunksLoseNothing` and `CapIsNearlyKept`
(`chunk_parsed`); `GraphAddsOnly` (`retrieve_chunks`); `ContextsFillBudgets` (`assemble_context`).
What has to be invariant is little: a stored document has the chunks that `Chunks` computes of it
(`RowsAreItsChunks`), the index holds finitely many points of the right type (`Ground`), and the hits
of an answer are points, best first, none twice (`Asked`). The work is in what the operators compute:

* A set of numbers with a counterexample has a least one (`WFMin`), which is how the proofs do
  induction. A fold is unfolded into "nothing" and "one element more" (`Folding`), from which its
  value and its type follow, length by length.
* The windows of a block (`Split`) are spans of the text that start in order and leave no gap
  (`Laid`), unless `Trim` takes more words off one than the overlap covers: in `Even` texts it
  cannot. Sections are consecutive cuts of the text (`Cuts`); merging the small last
  chunk joins two neighbours (`MergeIs`) and adds less than `Least`. Flushing a buffer and splitting
  a block are the only ways into the list, and both respect the cap up to one heavy word.
* A table's rows are dealt out in batches, in order, each in one chunk (`TableRows`).
* The order in a sequence is a relation between elements (`Before`), which `Kept` preserves: that
  is why the hits remain in front and in order when the graph's chunks are appended, and why what is
  left out of a context is what would have broken its budget at its turn. The tokens of what is sent are
  those the loop counted and the separators', because both are sums over the blocks used (`Total`).

Assumptions: those on the constants, each named in its module and evaluated by every run, and
where stated in a theorem the environment (`Sequential`) or the parity of the window.

So every safety property that a passing run checks is also a theorem. Only model-checked are the
liveness property `EveryCallEnds` and the fairness part of the refinement (ENABLED is out of the
prover's reach), and the findings of `ingestion_exhausted`, `members_last_admin` and `sessions_double`. The
environment of `CompletedCanBeFound` and `ImplementsLifecycle` is that found by TLC: both fail with more (section 3).

## 5. Plan

Modelled, checked and proved: `Ingestion`, `Members`, `ApiKeys`, `Sessions`, `Gateway`, `Chat`,
`Connectors` with `Uploads`, `Retrieval` with `Chunking`. Next:

1. **Environments.** `CompletedCanBeFound` and `ImplementsLifecycle` with the condition on each document
   instead of on the instance: a document nobody reprocesses, and no run of which is cut off or
   delivered twice, keeps its promises whatever happens to the others.
2. **Counting races.** At most as many extra documents or tokens as there are overtaken requests.
3. **Reuse.** The lemmas about folds, `Kept` and `Before` are about any sequence; they could move
   below `Chunking`.

## 6. Not modelled

* Text handling: what docling makes of a file, prompts, JSON repair, tag words, tokenizers,
  similarity. The models choose among the outcomes.
* The dashboard, usage charts, settings, MCP info and model lists: reads and single-row updates of one
  request, without a protocol between requests.
* Configuration, logging, error envelopes, health checks, migrations, the Docker files.
* Expiry of tokens; e-mail verification and MFA, which are columns without code; the OneDrive card,
  which is seeded as coming soon and never changes.
* Known from reading and part of no model: the payload of a vector keeps the tags the run loaded
  (`worker_flow.py:203`); each process has a bucket of its own, so the rate is per process; a Drive
  file that has changed is never fetched again (`connector_service.py:195`); invited people have no
  way to accept (`user_service.py:74`); the soft time limit raises inside whatever coroutine is at
  work on the worker's event loop (`worker.py:20`).
