------------------------------ MODULE Gateway -------------------------------
(***************************************************************************)
(* services/llm_gateway.py: calls to the model provider through one        *)
(* process's embedding token bucket, their retries, and the usage rows of   *)
(* services/usage.py.  One token of the bucket is Refill units of credit,   *)
(* and one unit of credit comes with each unit of time.  A backoff is time  *)
(* without effect, so a retry follows its failure directly.                 *)
(***************************************************************************)
EXTENDS Integers, Sequences

CONSTANTS
  Calls,       \* calls of embed, call_llm and stream_llm
  Capacity,    \* EMBED_MAX_RPM, at least 1
  Refill,      \* units of time until the bucket gains a token
  MaxAttempts, \* _MAX_RETRIES
  MaxBatches,  \* bound: batches of one embed
  MaxTime,     \* bound: later than this, time passes only for a sleeper
  Faults       \* what may go wrong in this instance

ASSUME CapacityAssumption == Capacity \in Nat \ {0}
ASSUME RefillAssumption   == Refill \in Nat \ {0}
ASSUME AttemptsAssumption == MaxAttempts \in Nat \ {0} /\ MaxBatches \in Nat \ {0}
ASSUME MaxTimeAssumption  == MaxTime \in Nat
ASSUME FaultsAssumption   == Faults \subseteq {"provider", "db", "cancel", "rollback"}

VARIABLES
  clock,    \* time.monotonic()
  credit,   \* TokenBucket.tokens, in units
  updated,  \* TokenBucket._updated
  lock,     \* TokenBucket._lock: held while its owner sleeps, and until when
  granted,  \* history: embedding requests the bucket has let through
  marks,    \* history: what granted was when the clock came to 0, 1, 2, ...
  calls     \* the calls

bucket == <<credit, updated, lock, granted, marks>>
vars   == <<clock, bucket, calls>>

-----------------------------------------------------------------------------
Full == Capacity * Refill

Free == [held |-> FALSE, until |-> 0]

\* Who calls what: embed for a query and chat with a session of their own; embed,
\* tagging and entity extraction of the worker in the session of the run.
Shapes ==
  [kind : {"embed"}, own : BOOLEAN, batches : 1 .. MaxBatches]
    \cup [kind : {"chat"}, own : BOOLEAN, batches : {1}]
    \cup [kind : {"stream"}, own : {TRUE}, batches : {1}]

Ended  == {"returned", "failed", "cancelled"}
Places == {"idle", "queued", "sleeping", "calling", "streaming", "recording"} \cup Ended

\* due: usage rows the call owes; rows: committed; pending: flushed in the caller's
\* transaction; spoiled: a fault has hit the bookkeeping of this call; poisoned: the
\* caller's session refuses everything until it is rolled back; then: where the call
\* goes when the row is written.
Call == [place : Places, shape : Shapes, batch : Nat, attempt : Nat, due : Nat, rows : Nat,
         pending : Nat, spoiled : BOOLEAN, poisoned : BOOLEAN, then : Places]

NewCall(shape) ==
  [place |-> "idle", shape |-> shape, batch |-> 1, attempt |-> 1, due |-> 0, rows |-> 0,
   pending |-> 0, spoiled |-> FALSE, poisoned |-> FALSE, then |-> "returned"]

At(c, place)    == calls[c].place = place
Goto(c, place)  == calls' = [calls EXCEPT ![c].place = place]

-----------------------------------------------------------------------------
(* Beginning a call. *)

Begin(c) ==
  /\ At(c, "idle")
  /\ CASE calls[c].shape.kind = "embed"  -> Goto(c, "queued")
       [] calls[c].shape.kind = "chat"   -> Goto(c, "calling")
       [] calls[c].shape.kind = "stream" ->
            calls' = [calls EXCEPT ![c].place = "streaming", ![c].due = 1]
  /\ UNCHANGED <<clock, bucket>>

-----------------------------------------------------------------------------
(* TokenBucket.acquire. *)

\* Mutant: the bucket overflows.
Uncapped == credit + (clock - updated)

\* What the bucket holds now.
Refilled ==
  IF credit + (clock - updated) < Full THEN credit + (clock - updated) ELSE Full

\* The lock is free: take a token, or fall asleep with the lock until there is one.
Acquire(c) ==
  /\ At(c, "queued") /\ ~lock.held
  /\ updated' = clock
  /\ IF Refilled < Refill
     THEN /\ credit' = Refilled
          /\ lock' = [held |-> TRUE, until |-> clock + (Refill - Refilled)]
          /\ Goto(c, "sleeping")
          /\ UNCHANGED granted
     ELSE /\ credit' = Refilled - Refill
          /\ granted' = granted + 1
          /\ Goto(c, "calling")
          /\ UNCHANGED lock
  /\ UNCHANGED <<clock, marks>>

\* The sleep is over: the token that came in meanwhile is taken, the clock is not read
\* again.
Wake(c) ==
  /\ At(c, "sleeping") /\ lock.held /\ lock.until <= clock
  /\ credit' = 0
  /\ lock' = Free
  /\ granted' = granted + 1
  /\ Goto(c, "calling")
  /\ UNCHANGED <<clock, updated, marks>>

-----------------------------------------------------------------------------
(* _with_retry around one request; stream_llm. *)

\* Mutant: the row of an embed is due only after its last batch.
AnswerOfLast(c) ==
  /\ At(c, "calling")
  /\ calls' = [calls EXCEPT ![c].due = @ + 1,
        ![c].place = IF calls[c].batch = calls[c].shape.batches THEN "recording" ELSE "queued",
        ![c].batch = IF @ < calls[c].shape.batches THEN @ + 1 ELSE @, ![c].attempt = 1]
  /\ UNCHANGED <<clock, bucket>>

Answer(c) ==
  /\ At(c, "calling")
  /\ calls' = [calls EXCEPT ![c].place = "recording", ![c].attempt = 1, ![c].due = @ + 1]
  /\ UNCHANGED <<clock, bucket>>

\* A transient error is tried again, without another token; the last one, or any other
\* error, is the call's UpstreamAIError.
FailAttempt(c) ==
  /\ "provider" \in Faults
  /\ At(c, "calling")
  /\ \/ /\ calls[c].attempt < MaxAttempts
        /\ calls' = [calls EXCEPT ![c].attempt = @ + 1]
     \/ calls' = [calls EXCEPT ![c].place = "failed", ![c].attempt = 1]
  /\ UNCHANGED <<clock, bucket>>

\* The stream ends, or breaks off, and the finally clause writes the row.
EndStream(c) ==
  /\ At(c, "streaming")
  /\ \E end \in {"returned"} \cup (IF "provider" \in Faults THEN {"failed"} ELSE {}) :
       calls' = [calls EXCEPT ![c].place = "recording", ![c].then = end]
  /\ UNCHANGED <<clock, bucket>>

-----------------------------------------------------------------------------
(* record_usage, and what follows it in the call. *)

\* The loop of embed goes on with its next batch.
Onward(call) ==
  IF call.batch < call.shape.batches
  THEN [call EXCEPT !.place = "queued", !.batch = @ + 1]
  ELSE [call EXCEPT !.place = call.then]

\* The row is committed in a session of its own, or flushed in the caller's.
RecordUsage(c) ==
  /\ At(c, "recording") /\ ~calls[c].poisoned
  /\ calls' = [calls EXCEPT ![c] = Onward(
       IF calls[c].shape.own THEN [calls[c] EXCEPT !.rows = @ + 1]
                             ELSE [calls[c] EXCEPT !.pending = @ + 1])]
  /\ UNCHANGED <<clock, bucket>>

\* The database refuses the row: a warning is logged and the call goes on.  A flush
\* that fails takes the caller's transaction with it, and later flushes fail too.
RecordFails(c) ==
  /\ At(c, "recording") /\ ("db" \in Faults \/ calls[c].poisoned)
  /\ calls' = [calls EXCEPT ![c] = Onward(
       [calls[c] EXCEPT !.spoiled = TRUE, !.pending = 0, !.poisoned = ~calls[c].shape.own])]
  /\ UNCHANGED <<clock, bucket>>

\* The caller ends its transaction after the call.
CallerCommits(c) ==
  /\ calls[c].place \in Ended /\ calls[c].pending > 0
  /\ calls' = [calls EXCEPT ![c].rows = @ + calls[c].pending, ![c].pending = 0]
  /\ UNCHANGED <<clock, bucket>>

CallerRollsBack(c) ==
  /\ "rollback" \in Faults
  /\ calls[c].place \in Ended /\ calls[c].pending > 0
  /\ calls' = [calls EXCEPT ![c].pending = 0, ![c].spoiled = TRUE]
  /\ UNCHANGED <<clock, bucket>>

-----------------------------------------------------------------------------
(* Cancellation: the client has gone, or the worker's soft time limit. *)

\* Mutant: a sleeper that is cancelled takes the lock with it.
Unlocked(c) == lock

\* async with lets go of the lock.
Released(c) == IF At(c, "sleeping") THEN Free ELSE lock

\* A finally clause or a commit that is cancelled too may or may not have written.
Cancel(c) ==
  /\ "cancel" \in Faults
  /\ calls[c].place \notin Ended \cup {"idle"}
  /\ lock' = Released(c)
  /\ calls' = [calls EXCEPT ![c].place = "cancelled",
                 ![c].spoiled = @ \/ calls[c].place \in {"streaming", "recording"}]
  /\ UNCHANGED <<clock, credit, updated, granted, marks>>

CancelAfterRow(c) ==
  /\ "cancel" \in Faults
  /\ calls[c].place \in {"streaming", "recording"} /\ calls[c].shape.own
  /\ calls' = [calls EXCEPT ![c].place = "cancelled", ![c].rows = @ + 1]
  /\ UNCHANGED <<clock, bucket>>

Tick ==
  /\ clock < MaxTime \/ (lock.held /\ clock < lock.until)
  /\ clock' = clock + 1
  /\ marks' = Append(marks, granted)
  /\ UNCHANGED <<credit, updated, lock, granted, calls>>

-----------------------------------------------------------------------------
Init ==
  /\ clock = 0
  /\ credit = Full
  /\ updated = 0
  /\ lock = Free
  /\ granted = 0
  /\ marks = <<0>>
  /\ calls \in [Calls -> {NewCall(shape) : shape \in Shapes}]

Proceed(c) == Wake(c) \/ Answer(c) \/ FailAttempt(c) \/ EndStream(c) \/ RecordUsage(c) \/ RecordFails(c)

Next ==
  \/ Tick
  \/ \E c \in Calls : \/ Begin(c) \/ Acquire(c) \/ Proceed(c)
                      \/ CallerCommits(c) \/ CallerRollsBack(c)
                      \/ Cancel(c) \/ CancelAfterRow(c)

\* Time passes, the provider's client times out, the database answers; and asyncio.Lock
\* serves its waiters in order, so nobody waits for ever while the lock is being freed.
Fairness ==
  /\ WF_vars(Tick)
  /\ \A c \in Calls : WF_vars(Proceed(c)) /\ SF_vars(Acquire(c))

Spec == Init /\ [][Next]_vars /\ Fairness

-----------------------------------------------------------------------------
(* Properties. *)

\* Every variable has its type.
TypeOK ==
  /\ clock \in Nat
  /\ credit \in 0 .. Full
  /\ updated \in Nat
  /\ lock \in [held : BOOLEAN, until : Nat]
  /\ granted \in Nat
  /\ marks \in Seq(Nat) /\ Len(marks) = clock + 1
  /\ calls \in [Calls -> Call]

\* What the bucket guarantees although it credits the time of a sleep twice and may wake
\* late: since any moment, a burst of Capacity, one request of a sleeper, and twice the
\* configured rate.
RateBounded ==
  \A s \in 1 .. Len(marks) :
     (granted - marks[s]) * Refill <= Full + Refill + 2 * (clock - (s - 1))

\* Usage is logged once for every answer the provider gave and every stream opened, with
\* retries, failed batches and broken streams: never twice, and never not at all unless
\* a fault has hit the bookkeeping itself.
EveryAnswerLogged ==
  \A c \in Calls : LET call == calls[c] IN
    /\ call.rows + call.pending <= call.due
    /\ call.place \in Ended /\ ~call.spoiled => call.rows + call.pending = call.due

\* Every call ends, whoever is cancelled while it sleeps with the bucket's lock.
EveryCallEnds == \A c \in Calls : calls[c].place # "idle" ~> calls[c].place \in Ended

-----------------------------------------------------------------------------
(* Promises of comments that the code does not keep; no run states them. *)

\* "Limits embedding requests/minute": a burst and the configured rate.
RateKept ==
  \A s \in 1 .. Len(marks) : (granted - marks[s]) * Refill <= Full + (clock - (s - 1))

\* "A transient DB error is logged, never raised into the caller's request": the
\* caller's transaction survives a usage row that could not be written.
UsageNeverFailsCaller == \A c \in Calls : ~calls[c].poisoned

=============================================================================
