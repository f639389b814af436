---------------------------- MODULE GatewayProofs ----------------------------
(***************************************************************************)
(* Theorems about Gateway, for any number of calls, any bucket and any      *)
(* faults: types, the accounting of answers, and the bound on embedding     *)
(* requests over any interval.                                              *)
(***************************************************************************)
EXTENDS Gateway, TLAPS

USE CapacityAssumption, RefillAssumption, AttemptsAssumption, MaxTimeAssumption

-----------------------------------------------------------------------------
(* Types and accounting: what holds of each call by itself. *)

\* A call whose answer or stream is still to be recorded owes a row, any other owes none;
\* before it begins nothing is due.
Settled(call) ==
  /\ call.place = "idle" => call.due = 0
  /\ IF call.place \in {"streaming", "recording"}
     THEN /\ call.rows + call.pending + 1 <= call.due
          /\ ~call.spoiled => call.rows + call.pending + 1 = call.due
     ELSE /\ call.rows + call.pending <= call.due
          /\ ~call.spoiled => call.rows + call.pending = call.due

Sound == {call \in Call : Settled(call) /\ call.then \in Ended}

Typed ==
  /\ TypeOK
  /\ updated <= clock
  /\ calls \in [Calls -> Sound]

LEMMA FullPositive == Full \in Nat /\ Refill <= Full
BY Z3 DEF Full

\* What the bucket holds at any time.
LEMMA RefilledTyped ==
  ASSUME Typed
  PROVE  Refilled \in 0 .. Full /\ Refilled <= credit + (clock - updated)
BY FullPositive DEF Typed, TypeOK, Refilled

LEMMA PlacesAre ==
  Places = {"idle", "queued", "sleeping", "calling", "streaming", "recording",
            "returned", "failed", "cancelled"}
BY DEF Places, Ended

\* The calls after one of them has changed.
LEMMA CallChanged ==
  ASSUME Typed, NEW c \in Calls, NEW new \in Sound,
         calls' = [calls EXCEPT ![c] = new]
  PROVE  calls' \in [Calls -> Sound] /\ calls' \in [Calls -> Call]
<1>1. calls' \in [Calls -> Sound]
  <2> HIDE DEF Sound
  <2> QED
    BY DEF Typed
<1>2. Sound \subseteq Call
  BY DEF Sound
<1> QED
  BY <1>1, <1>2

\* The fields of a call, typed and settled, one by one.
LEMMA Fields ==
  ASSUME NEW call \in Sound
  PROVE  /\ call \in Call /\ Settled(call) /\ call.then \in Ended
         /\ call.place \in Places /\ call.spoiled \in BOOLEAN
         /\ call.batch \in Nat /\ call.attempt \in Nat
         /\ call.due \in Nat /\ call.rows \in Nat /\ call.pending \in Nat
BY DEF Sound, Call

\* A call that neither owes a row nor comes to owe one goes to another place.
LEMMA Gone ==
  ASSUME Typed, NEW c \in Calls, NEW p \in Places \ {"idle", "streaming", "recording"}, Goto(c, p),
         calls[c].place \notin {"streaming", "recording"}
  PROVE  calls' \in [Calls -> Sound] /\ calls' \in [Calls -> Call]
<1> DEFINE new == [calls[c] EXCEPT !.place = p]
<1>1. calls[c] \in Sound
  BY DEF Typed
<1>2. new \in Call
  BY <1>1 DEF Sound, Call
<1>3. new \in Sound
  BY <1>1, <1>2 DEF Sound, Call, Settled
<1>4. calls' = [calls EXCEPT ![c] = new]
  BY DEF Goto
<1> QED
  BY <1>3, <1>4, CallChanged

\* The row is written or lost: the call owes none any more, and goes on.
LEMMA OnwardSound ==
  ASSUME NEW call \in Call, call.then \in Ended,
         call.rows + call.pending <= call.due,
         ~call.spoiled => call.rows + call.pending = call.due
  PROVE  Onward(call) \in Sound
<1> DEFINE next == [call EXCEPT !.place = "queued", !.batch = @ + 1]
           last == [call EXCEPT !.place = call.then]
<1>1. next \in Sound
  <2>1. "queued" \in Places /\ call.batch + 1 \in Nat
    BY PlacesAre DEF Call
  <2>2. next \in Call
    BY <2>1 DEF Call
  <2>3. /\ next.place = "queued" /\ next.due = call.due /\ next.rows = call.rows
        /\ next.pending = call.pending /\ next.spoiled = call.spoiled /\ next.then = call.then
    BY DEF Call
  <2> HIDE DEF next
  <2> QED
    BY <2>2, <2>3 DEF Sound, Settled
<1>2. last \in Sound
  <2>1. last \in Call
    BY DEF Call
  <2>2. last.place \notin {"streaming", "recording"}
    BY DEF Call, Ended
  <2>3. /\ last.due = call.due /\ last.rows = call.rows /\ last.pending = call.pending
        /\ last.spoiled = call.spoiled /\ last.then = call.then /\ last.place # "idle"
    BY DEF Call, Ended
  <2> HIDE DEF last
  <2> QED
    BY <2>1, <2>2, <2>3 DEF Sound, Settled
<1>3. Onward(call) = next \/ Onward(call) = last
  BY DEF Onward
<1> QED
  BY <1>1, <1>2, <1>3

LEMMA TypedInit == Init => Typed
<1> SUFFICES ASSUME Init PROVE Typed
  OBVIOUS
<1>1. \A shape \in Shapes : NewCall(shape) \in Sound
  BY PlacesAre DEF NewCall, Call, Sound, Settled, Ended
<1>2. calls \in [Calls -> Sound] /\ calls \in [Calls -> Call]
  <2>1. Sound \subseteq Call
    BY DEF Sound
  <2> QED
    BY <1>1, <2>1 DEF Init
<1>3. marks \in Seq(Nat) /\ Len(marks) = clock + 1
  BY DEF Init
<1> QED
  BY <1>2, <1>3, FullPositive DEF Init, Typed, TypeOK, Free

LEMMA TypedNext == Typed /\ [Next]_vars => Typed'
<1> SUFFICES ASSUME Typed, [Next]_vars PROVE Typed'
  OBVIOUS
<1> DEFINE CallsSound == calls' \in [Calls -> Sound] /\ calls' \in [Calls -> Call]
<1>0. ASSUME CallsSound, UNCHANGED <<clock, bucket>>
      PROVE  Typed'
  BY <1>0 DEF Typed, TypeOK, bucket
<1>1. CASE Tick
  <2>1. marks' \in Seq(Nat) /\ Len(marks') = clock' + 1
    BY <1>1 DEF Tick, Typed, TypeOK
  <2> QED
    BY <1>1, <2>1 DEF Tick, Typed, TypeOK
<1>2. ASSUME NEW c \in Calls, Begin(c)
      PROVE  Typed'
  <2>1. calls[c].shape.kind \in {"embed", "chat", "stream"}
    BY DEF Typed, TypeOK, Call, Shapes
  <2>2. CASE calls[c].shape.kind = "embed"
    BY <1>0, <1>2, <2>2, Gone, PlacesAre DEF Begin, At
  <2>3. CASE calls[c].shape.kind = "chat"
    BY <1>0, <1>2, <2>3, Gone, PlacesAre DEF Begin, At
  <2>4. CASE calls[c].shape.kind = "stream"
    <3> DEFINE new == [calls[c] EXCEPT !.place = "streaming", !.due = 1]
    <3>1. calls[c] \in Call
      BY DEF Typed, TypeOK
    <3>2. new \in Call
      BY <3>1, PlacesAre DEF Call
    <3>3. calls' = [calls EXCEPT ![c] = new]
      BY <1>2, <2>4 DEF Begin
    <3>4. new \in Sound
      <4>1. calls[c] \in Sound /\ calls[c].place = "idle"
        BY <1>2 DEF Begin, At, Typed
      <4>2. /\ calls[c].rows = 0 /\ calls[c].pending = 0 /\ calls[c].then \in Ended
        <5>1. /\ calls[c].rows \in Nat /\ calls[c].pending \in Nat /\ calls[c].then \in Ended
              /\ Settled(calls[c])
          BY <4>1, Fields
        <5>2. calls[c].due = 0 /\ calls[c].rows + calls[c].pending <= calls[c].due
          BY <4>1, <5>1 DEF Settled
        <5> QED
          BY <5>1, <5>2
      <4>3. /\ new.place = "streaming" /\ new.due = 1 /\ new.rows = 0 /\ new.pending = 0
            /\ new.then \in Ended
        BY <3>1, <4>2 DEF Call
      <4> HIDE DEF new
      <4> QED
        BY <3>2, <4>3 DEF Sound, Settled
    <3> QED
      BY <1>0, <1>2, <3>3, <3>4, CallChanged DEF Begin
  <2> QED
    BY <2>1, <2>2, <2>3, <2>4
<1>3. ASSUME NEW c \in Calls, Acquire(c)
      PROVE  Typed'
  <2>1. CallsSound
    BY <1>3, Gone, PlacesAre DEF Acquire, At
  <2>2. lock' \in [held : BOOLEAN, until : Nat]
    <3>1. CASE Refilled < Refill
      <4>1. clock + (Refill - Refilled) \in Nat
        BY <3>1, RefilledTyped DEF Typed, TypeOK
      <4>2. lock' = [held |-> TRUE, until |-> clock + (Refill - Refilled)]
        BY <1>3, <3>1 DEF Acquire
      <4> QED
        BY <4>1, <4>2
    <3>2. CASE ~(Refilled < Refill)
      BY <1>3, <3>2 DEF Acquire, Typed, TypeOK
    <3> QED
      BY <3>1, <3>2
  <2>3. credit' \in 0 .. Full /\ granted' \in Nat
    BY <1>3, RefilledTyped, FullPositive, SMTT(30) DEF Acquire, Typed, TypeOK
  <2> QED
    BY <1>3, <2>1, <2>2, <2>3 DEF Acquire, Typed, TypeOK
<1>4. ASSUME NEW c \in Calls, Wake(c)
      PROVE  Typed'
  <2>1. CallsSound
    BY <1>4, Gone, PlacesAre DEF Wake, At
  <2> QED
    BY <1>4, <2>1, FullPositive DEF Wake, Free, Typed, TypeOK
<1>5. ASSUME NEW c \in Calls, Answer(c)
      PROVE  Typed'
  <2> DEFINE new == [calls[c] EXCEPT !.place = "recording", !.attempt = 1, !.due = @ + 1]
  <2>1. calls[c] \in Sound /\ calls[c] \in Call /\ calls[c].place = "calling"
    BY <1>5 DEF Answer, At, Typed, TypeOK
  <2>2. new \in Call
    <3>1. calls[c].due + 1 \in Nat /\ "recording" \in Places
      BY <2>1, Fields, PlacesAre
    <3> QED
      BY <2>1, <3>1 DEF Call
  <2>3. new \in Sound
    <3>1. /\ new.place = "recording" /\ new.due = calls[c].due + 1 /\ new.rows = calls[c].rows
          /\ new.pending = calls[c].pending /\ new.spoiled = calls[c].spoiled
          /\ new.then = calls[c].then
      BY <2>1 DEF Call
    <3> HIDE DEF new
    <3> QED
      BY <2>1, <2>2, <3>1, Fields DEF Sound, Settled
  <2>4. calls' = [calls EXCEPT ![c] = new]
    BY <1>5 DEF Answer
  <2> QED
    BY <1>0, <1>5, <2>3, <2>4, CallChanged DEF Answer
<1>6. ASSUME NEW c \in Calls, FailAttempt(c)
      PROVE  Typed'
  <2> DEFINE again == [calls[c] EXCEPT !.attempt = @ + 1]
             over  == [calls[c] EXCEPT !.place = "failed", !.attempt = 1]
  <2>1. calls[c] \in Sound /\ calls[c] \in Call /\ calls[c].place = "calling"
    BY <1>6 DEF FailAttempt, At, Typed, TypeOK
  <2>2. again \in Call /\ over \in Call
    <3>1. calls[c].attempt + 1 \in Nat /\ "failed" \in Places
      BY <2>1, Fields, PlacesAre
    <3> QED
      BY <2>1, <3>1 DEF Call
  <2>3. again \in Sound /\ over \in Sound
    BY <2>1, <2>2 DEF Sound, Settled, Call
  <2>4. calls' = [calls EXCEPT ![c] = again] \/ calls' = [calls EXCEPT ![c] = over]
    BY <1>6 DEF FailAttempt
  <2> QED
    BY <1>0, <1>6, <2>3, <2>4, CallChanged DEF FailAttempt
<1>7. ASSUME NEW c \in Calls, EndStream(c)
      PROVE  Typed'
  <2>1. PICK end \in {"returned", "failed"} :
          calls' = [calls EXCEPT ![c].place = "recording", ![c].then = end]
    BY <1>7 DEF EndStream
  <2> DEFINE new == [calls[c] EXCEPT !.place = "recording", !.then = end]
  <2>2. calls[c] \in Sound /\ calls[c] \in Call /\ calls[c].place = "streaming"
    BY <1>7 DEF EndStream, At, Typed, TypeOK
  <2>3. new \in Call
    BY <2>2, PlacesAre DEF Call
  <2>4. new \in Sound
    BY <2>2, <2>3 DEF Sound, Settled, Call, Ended
  <2>5. calls' = [calls EXCEPT ![c] = new]
    BY <2>1
  <2> QED
    BY <1>0, <1>7, <2>4, <2>5, CallChanged DEF EndStream
<1>8. ASSUME NEW c \in Calls, RecordUsage(c)
      PROVE  Typed'
  <2> DEFINE written == [calls[c] EXCEPT !.rows = @ + 1]
             flushed == [calls[c] EXCEPT !.pending = @ + 1]
  <2>1. calls[c] \in Sound /\ calls[c] \in Call /\ calls[c].place = "recording"
    BY <1>8 DEF RecordUsage, At, Typed, TypeOK
  <2>2. written \in Call /\ flushed \in Call
    BY <2>1 DEF Call
  <2>3. Onward(written) \in Sound
    <3>1. /\ written.then \in Ended
          /\ written.rows + written.pending <= written.due
          /\ ~written.spoiled => written.rows + written.pending = written.due
      BY <2>1 DEF Sound, Settled, Call
    <3> HIDE DEF written
    <3> QED
      BY <2>2, <3>1, OnwardSound
  <2>4. Onward(flushed) \in Sound
    <3>1. /\ flushed.then \in Ended
          /\ flushed.rows + flushed.pending <= flushed.due
          /\ ~flushed.spoiled => flushed.rows + flushed.pending = flushed.due
      BY <2>1 DEF Sound, Settled, Call
    <3> HIDE DEF flushed
    <3> QED
      BY <2>2, <3>1, OnwardSound
  <2>5. \/ calls' = [calls EXCEPT ![c] = Onward(written)]
        \/ calls' = [calls EXCEPT ![c] = Onward(flushed)]
    BY <1>8 DEF RecordUsage
  <2> HIDE DEF written, flushed
  <2> QED
    BY <1>0, <1>8, <2>3, <2>4, <2>5, CallChanged DEF RecordUsage
<1>9. ASSUME NEW c \in Calls, RecordFails(c)
      PROVE  Typed'
  <2> DEFINE new == [calls[c] EXCEPT !.spoiled = TRUE, !.pending = 0,
                                     !.poisoned = ~calls[c].shape.own]
  <2>1. calls[c] \in Sound /\ calls[c] \in Call /\ calls[c].place = "recording"
    BY <1>9 DEF RecordFails, At, Typed, TypeOK
  <2>2. (~calls[c].shape.own) \in BOOLEAN
    OBVIOUS
  <2>3. new \in Call
    BY <2>1, <2>2 DEF Call
  <2>4. /\ new.then \in Ended
        /\ new.rows + new.pending <= new.due
        /\ ~new.spoiled => new.rows + new.pending = new.due
    BY <2>1 DEF Sound, Settled, Call
  <2>5. calls' = [calls EXCEPT ![c] = Onward(new)]
    BY <1>9 DEF RecordFails
  <2> HIDE DEF new
  <2>6. Onward(new) \in Sound
    BY <2>3, <2>4, OnwardSound
  <2> QED
    BY <1>0, <1>9, <2>5, <2>6, CallChanged DEF RecordFails
<1>10. ASSUME NEW c \in Calls, CallerCommits(c)
       PROVE  Typed'
  <2> DEFINE new == [calls[c] EXCEPT !.rows = @ + calls[c].pending, !.pending = 0]
  <2>1. calls[c] \in Sound /\ calls[c] \in Call /\ calls[c].place \in Ended
    BY <1>10 DEF CallerCommits, Typed, TypeOK
  <2>2. new \in Call
    <3>1. calls[c].rows + calls[c].pending \in Nat
      BY <2>1, Fields
    <3> QED
      BY <2>1, <3>1 DEF Call
  <2>3. new \in Sound
    <3>1. /\ new.place = calls[c].place /\ new.due = calls[c].due /\ new.pending = 0
          /\ new.rows = calls[c].rows + calls[c].pending
          /\ new.spoiled = calls[c].spoiled /\ new.then = calls[c].then
      BY <2>1 DEF Call
    <3> HIDE DEF new
    <3> QED
      BY <2>1, <2>2, <3>1, Fields DEF Sound, Settled, Ended
  <2>4. calls' = [calls EXCEPT ![c] = new]
    BY <1>10 DEF CallerCommits
  <2> QED
    BY <1>0, <1>10, <2>3, <2>4, CallChanged DEF CallerCommits
<1>11. ASSUME NEW c \in Calls, CallerRollsBack(c)
       PROVE  Typed'
  <2> DEFINE new == [calls[c] EXCEPT !.pending = 0, !.spoiled = TRUE]
  <2>1. calls[c] \in Sound /\ calls[c] \in Call /\ calls[c].place \in Ended
    BY <1>11 DEF CallerRollsBack, Typed, TypeOK
  <2>2. new \in Call
    BY <2>1 DEF Call
  <2>3. new \in Sound
    <3>1. /\ new.place = calls[c].place /\ new.due = calls[c].due /\ new.pending = 0
          /\ new.rows = calls[c].rows /\ new.spoiled = TRUE /\ new.then = calls[c].then
      BY <2>1 DEF Call
    <3> HIDE DEF new
    <3> QED
      BY <2>1, <2>2, <3>1, Fields DEF Sound, Settled, Ended
  <2>4. calls' = [calls EXCEPT ![c] = new]
    BY <1>11 DEF CallerRollsBack
  <2> QED
    BY <1>0, <1>11, <2>3, <2>4, CallChanged DEF CallerRollsBack
<1>12. ASSUME NEW c \in Calls, Cancel(c)
       PROVE  Typed'
  <2> DEFINE spoilt == calls[c].spoiled \/ calls[c].place \in {"streaming", "recording"}
             new == [calls[c] EXCEPT !.place = "cancelled", !.spoiled = spoilt]
  <2>1. calls[c] \in Sound /\ calls[c] \in Call
    BY DEF Typed, TypeOK
  <2>2. new \in Call
    BY <2>1, PlacesAre DEF Call
  <2>3. new \in Sound
    <3>1. /\ new.place = "cancelled" /\ new.due = calls[c].due /\ new.pending = calls[c].pending
          /\ new.rows = calls[c].rows /\ new.spoiled = spoilt /\ new.then = calls[c].then
      BY <2>1 DEF Call
    <3>2. /\ calls[c].rows \in Nat /\ calls[c].pending \in Nat /\ calls[c].due \in Nat
          /\ calls[c].then \in Ended /\ Settled(calls[c])
      BY <2>1, Fields
    <3>3. calls[c].rows + calls[c].pending <= calls[c].due
      BY <3>2 DEF Settled
    <3>4. ~spoilt => calls[c].rows + calls[c].pending = calls[c].due
      BY <3>2 DEF Settled
    <3> HIDE DEF new, spoilt
    <3> QED
      BY <2>2, <3>1, <3>2, <3>3, <3>4 DEF Sound, Settled
  <2>4. calls' = [calls EXCEPT ![c] = new]
    BY <1>12 DEF Cancel
  <2>5. CallsSound
    BY <2>3, <2>4, CallChanged
  <2> QED
    BY <1>12, <2>5 DEF Cancel, Released, Free, Typed, TypeOK
<1>13. ASSUME NEW c \in Calls, CancelAfterRow(c)
       PROVE  Typed'
  <2> DEFINE new == [calls[c] EXCEPT !.place = "cancelled", !.rows = @ + 1]
  <2>1. calls[c] \in Sound /\ calls[c] \in Call /\ calls[c].place \in {"streaming", "recording"}
    BY <1>13 DEF CancelAfterRow, Typed, TypeOK
  <2>2. new \in Call
    <3>1. calls[c].rows + 1 \in Nat /\ "cancelled" \in Places
      BY <2>1, Fields, PlacesAre
    <3> QED
      BY <2>1, <3>1 DEF Call
  <2>3. new \in Sound
    <3>1. /\ new.place = "cancelled" /\ new.due = calls[c].due /\ new.pending = calls[c].pending
          /\ new.rows = calls[c].rows + 1 /\ new.spoiled = calls[c].spoiled
          /\ new.then = calls[c].then
      BY <2>1 DEF Call
    <3>2. /\ calls[c].rows + calls[c].pending + 1 <= calls[c].due
          /\ ~calls[c].spoiled => calls[c].rows + calls[c].pending + 1 = calls[c].due
      BY <2>1, Fields DEF Settled
    <3>3. /\ calls[c].rows \in Nat /\ calls[c].pending \in Nat /\ calls[c].due \in Nat
          /\ calls[c].then \in Ended
      BY <2>1, Fields
    <3> HIDE DEF new
    <3>4. /\ new.rows + new.pending <= new.due
          /\ ~new.spoiled => new.rows + new.pending = new.due
      BY <3>1, <3>2, <3>3
    <3> QED
      BY <2>2, <3>1, <3>3, <3>4 DEF Sound, Settled
  <2>4. calls' = [calls EXCEPT ![c] = new]
    BY <1>13 DEF CancelAfterRow
  <2> QED
    BY <1>0, <1>13, <2>3, <2>4, CallChanged DEF CancelAfterRow
<1>14. CASE UNCHANGED vars
  BY <1>14 DEF vars, bucket, Typed, TypeOK
<1> QED
  BY <1>1, <1>2, <1>3, <1>4, <1>5, <1>6, <1>7, <1>8, <1>9, <1>10, <1>11, <1>12, <1>13, <1>14
     DEF Next, Proceed

\* Every variable has its type, whatever the calls and the faults.
THEOREM TypeCorrect == Spec => []TypeOK
<1>1. Typed => TypeOK
  BY DEF Typed
<1> QED
  BY TypedInit, TypedNext, <1>1, PTL DEF Spec

\* Each answer of the provider and each stream is logged exactly once, unless a fault hits
\* the bookkeeping itself, and never twice.
THEOREM AnswersLogged == Spec => []EveryAnswerLogged
<1>1. Typed => EveryAnswerLogged
  <2> SUFFICES ASSUME Typed, NEW c \in Calls
               PROVE  LET call == calls[c] IN
                        /\ call.rows + call.pending <= call.due
                        /\ call.place \in Ended /\ ~call.spoiled => call.rows + call.pending = call.due
    BY DEF EveryAnswerLogged
  <2>1. calls[c] \in Sound /\ calls[c] \in Call
    BY DEF Typed, TypeOK
  <2> QED
    BY <2>1 DEF Sound, Settled, Call, Ended
<1> QED
  BY TypedInit, TypedNext, <1>1, PTL DEF Spec

-----------------------------------------------------------------------------
(* The bound on embedding requests. *)

\* What has been let through since the moment b, when granted was mark, and what the bucket
\* holds, do not exceed a burst, one request more, and the refills since then, of which those
\* during a sleep count twice.
Within(b, mark) ==
  LET since == (granted - mark) * Refill IN
  /\ mark <= granted
  /\ IF updated >= b
     THEN IF lock.held
          THEN since + credit <= Full + Refill + 2 * (updated - b)
          ELSE since + credit <= Full + Refill + (updated - b) + (clock - b)
     ELSE granted = mark \/ (granted = mark + 1 /\ ~lock.held)

\* A sleeper has the lock until its token is there.
SleepsLongEnough == lock.held => lock.until = updated + (Refill - credit)

Paced ==
  /\ SleepsLongEnough
  /\ \A s \in 1 .. Len(marks) : Within(s - 1, marks[s])

LEMMA PacedInit == Init => Paced
<1> SUFFICES ASSUME Init PROVE Paced
  OBVIOUS
<1>1. Len(marks) = 1 /\ marks[1] = 0
  BY DEF Init
<1>2. Within(0, 0)
  BY FullPositive DEF Init, Within, Free
<1> QED
  BY <1>1, <1>2 DEF Paced, SleepsLongEnough, Init, Free

\* One request more is one token's worth more.
LEMMA OneMore ==
  ASSUME NEW g \in Int
  PROVE  (g + 1) * Refill = g * Refill + Refill /\ g * Refill \in Int
BY Z3

LEMMA PacedNext == Typed /\ Typed' /\ Paced /\ [Next]_vars => Paced'
<1> SUFFICES ASSUME Typed, Typed', Paced, [Next]_vars PROVE Paced'
  OBVIOUS
<1>1. /\ clock \in Nat /\ updated \in Nat /\ updated <= clock
      /\ credit \in Nat /\ credit <= Full
      /\ granted \in Nat /\ lock.held \in BOOLEAN /\ lock.until \in Nat
      /\ marks \in Seq(Nat) /\ Len(marks) = clock + 1
  BY FullPositive DEF Typed, TypeOK
<1>2. Full \in Nat /\ Refill \in Nat /\ Refill <= Full
  BY FullPositive
\* It is enough to look at one mark, and at the product as a number.
<1>3. ASSUME UNCHANGED <<clock, marks>>, SleepsLongEnough',
             \A b, mark, since \in Nat :
                /\ b <= clock /\ mark <= granted /\ since = (granted - mark) * Refill
                /\ Within(b, mark)
                => Within(b, mark)'
      PROVE  Paced'
  <2>1. ASSUME NEW s \in 1 .. Len(marks)
        PROVE  Within(s - 1, marks[s])'
    <3>1. s - 1 \in Nat /\ marks[s] \in Nat /\ s - 1 <= clock /\ Within(s - 1, marks[s])
      BY <1>1, <2>1 DEF Paced
    <3>2. granted - marks[s] \in Nat
      BY <1>1, <3>1 DEF Within
    <3>3. (granted - marks[s]) * Refill \in Nat
      BY <1>2, <3>2, Z3
    <3> QED
      BY <1>1, <1>3, <3>1, <3>2, <3>3
  <2> QED
    BY <1>3, <2>1 DEF Paced
<1>4. CASE Tick
  <2>1. /\ clock' = clock + 1 /\ marks' = Append(marks, granted)
        /\ UNCHANGED <<credit, updated, lock, granted>>
    BY <1>4 DEF Tick
  <2>2. SleepsLongEnough'
    BY <2>1 DEF Paced, SleepsLongEnough
  <2>3. ASSUME NEW s \in 1 .. Len(marks')
        PROVE  Within(s - 1, marks[s])'
    <3>1. CASE s \in 1 .. Len(marks)
      <4>1. marks'[s] = marks[s] /\ marks[s] \in Nat /\ Within(s - 1, marks[s])
        BY <1>1, <2>1, <3>1 DEF Paced
      <4>2. granted - marks[s] \in Nat
        BY <1>1, <4>1 DEF Within
      <4>3. (granted - marks[s]) * Refill \in Nat
        BY <1>2, <4>2, Z3
      <4> DEFINE since == (granted - marks[s]) * Refill
      <4> HIDE DEF since
      <4>4. since + credit <= Full + Refill + (updated - (s - 1)) + (clock - (s - 1))
            => since + credit <= Full + Refill + (updated - (s - 1)) + (clock' - (s - 1))
        BY <1>1, <1>2, <2>1, <2>3, <4>3 DEF since
      <4> QED
        BY <2>1, <4>1, <4>4 DEF Within, since
    <3>2. CASE s \notin 1 .. Len(marks)
      <4>1. s = Len(marks) + 1 /\ marks'[s] = granted /\ s - 1 = clock + 1
        <5>1. Len(marks') = Len(marks) + 1 /\ marks'[Len(marks) + 1] = granted
          BY <1>1, <2>1
        <5>2. s = Len(marks) + 1
          BY <1>1, <2>3, <3>2, <5>1
        <5> QED
          BY <1>1, <5>1, <5>2
      <4> QED
        BY <1>1, <2>1, <4>1 DEF Within
    <3> QED
      BY <3>1, <3>2
  <2> QED
    BY <2>2, <2>3 DEF Paced
<1>5. ASSUME NEW c \in Calls, Acquire(c)
      PROVE  Paced'
  <2>1. ~lock.held /\ updated' = clock /\ clock' = clock /\ marks' = marks
    BY <1>5 DEF Acquire
  <2>2. Refilled \in Nat /\ Refilled <= Full /\ Refilled <= credit + (clock - updated)
    BY <1>2, RefilledTyped
  <2>3. CASE Refilled < Refill
    <3>1. lock' = [held |-> TRUE, until |-> clock + (Refill - Refilled)]
          /\ credit' = Refilled /\ granted' = granted
      BY <1>5, <2>3 DEF Acquire
    <3>2. SleepsLongEnough'
      BY <2>1, <3>1 DEF SleepsLongEnough
    <3>3. ASSUME NEW b \in Nat, NEW mark \in Nat, NEW since \in Nat, b <= clock,
                 mark <= granted, since = (granted - mark) * Refill, Within(b, mark)
          PROVE  Within(b, mark)'
      <4>1. since + credit' <= Full + Refill + 2 * (clock - b)
        <5>1. CASE updated >= b
          <6>1. since + credit <= Full + Refill + (updated - b) + (clock - b)
            BY <2>1, <3>3, <5>1 DEF Within
          <6> QED
            BY <1>1, <1>2, <2>2, <3>1, <3>3, <6>1
        <5>2. CASE ~(updated >= b)
          <6>1. granted - mark = 0 \/ granted - mark = 1
            BY <1>1, <3>3, <5>2 DEF Within
          <6>2. since <= Refill
            BY <1>2, <3>3, <6>1, Z3
          <6> QED
            BY <1>1, <1>2, <2>2, <3>1, <3>3, <6>2
        <5> QED
          BY <5>1, <5>2
      <4>2. since = (granted' - mark) * Refill
        BY <3>1, <3>3
      <4>3. lock'.held /\ updated' >= b /\ mark <= granted'
        BY <2>1, <3>1, <3>3, <1>1
      <4> QED
        BY <2>1, <4>1, <4>2, <4>3 DEF Within
    <3> QED
      BY <1>3, <2>1, <3>2, <3>3
  <2>4. CASE ~(Refilled < Refill)
    <3>1. lock' = lock /\ credit' = Refilled - Refill /\ granted' = granted + 1
      BY <1>5, <2>4 DEF Acquire
    <3>2. SleepsLongEnough'
      BY <2>1, <3>1 DEF SleepsLongEnough
    <3>3. ASSUME NEW b \in Nat, NEW mark \in Nat, NEW since \in Nat, b <= clock,
                 mark <= granted, since = (granted - mark) * Refill, Within(b, mark)
          PROVE  Within(b, mark)'
      <4>1. since + credit <= Full + Refill + (updated - b) + (clock - b) \/ since <= Refill
        <5>1. CASE updated >= b
          BY <2>1, <3>3, <5>1 DEF Within
        <5>2. CASE ~(updated >= b)
          <6>1. granted - mark = 0 \/ granted - mark = 1
            BY <1>1, <3>3, <5>2 DEF Within
          <6> QED
            BY <1>2, <3>3, <6>1, Z3
        <5> QED
          BY <5>1, <5>2
      <4>2. (granted' - mark) * Refill = since + Refill
        <5>1. granted' - mark = (granted - mark) + 1
          BY <1>1, <3>1, <3>3
        <5> QED
          BY <1>1, <3>3, <5>1, OneMore
      <4>3. (since + Refill) + credit' <= Full + Refill + (updated' - b) + (clock' - b)
        BY <1>1, <1>2, <2>1, <2>2, <3>1, <3>3, <4>1
      <4>4. ~lock'.held /\ updated' >= b /\ mark <= granted'
        BY <1>1, <2>1, <3>1, <3>3
      <4> QED
        BY <4>2, <4>3, <4>4 DEF Within
    <3> QED
      BY <1>3, <2>1, <3>2, <3>3
  <2> QED
    BY <2>3, <2>4
<1>6. ASSUME NEW c \in Calls, Wake(c)
      PROVE  Paced'
  <2>1. /\ lock.held /\ lock.until <= clock
        /\ credit' = 0 /\ lock' = Free /\ granted' = granted + 1
        /\ UNCHANGED <<clock, updated, marks>>
    BY <1>6 DEF Wake
  <2>2. SleepsLongEnough'
    BY <2>1 DEF SleepsLongEnough, Free
  <2>3. ASSUME NEW b \in Nat, NEW mark \in Nat, NEW since \in Nat, b <= clock,
               mark <= granted, since = (granted - mark) * Refill, Within(b, mark)
        PROVE  Within(b, mark)'
    <3>1. ~lock'.held /\ mark <= granted'
      BY <1>1, <2>1, <2>3 DEF Free
    <3>2. CASE updated >= b
      <4>1. (granted' - mark) * Refill = since + Refill
        <5>1. granted' - mark = (granted - mark) + 1
          BY <1>1, <2>1, <2>3
        <5> QED
          BY <1>1, <2>3, <5>1, OneMore
      <4>2. since + credit <= Full + Refill + 2 * (updated - b)
        BY <2>1, <2>3, <3>2 DEF Within
      <4>3. updated + (Refill - credit) <= clock
        BY <2>1 DEF Paced, SleepsLongEnough
      <4>4. (since + Refill) + credit' <= Full + Refill + (updated' - b) + (clock' - b)
        BY <1>1, <1>2, <2>1, <2>3, <4>2, <4>3
      <4> QED
        BY <2>1, <3>1, <3>2, <4>1, <4>4 DEF Within
    <3>3. CASE ~(updated >= b)
      <4>1. granted' = mark + 1
        BY <2>1, <2>3, <3>3 DEF Within
      <4> QED
        BY <2>1, <3>1, <3>3, <4>1 DEF Within
    <3> QED
      BY <3>2, <3>3
  <2> QED
    BY <1>3, <2>1, <2>2, <2>3
<1>7. ASSUME NEW c \in Calls, Cancel(c)
      PROVE  Paced'
  <2>1. UNCHANGED <<clock, credit, updated, granted, marks>> /\ (lock' = lock \/ lock' = Free)
    BY <1>7 DEF Cancel, Released
  <2>2. SleepsLongEnough'
    BY <2>1 DEF Paced, SleepsLongEnough, Free
  <2>3. ASSUME NEW b \in Nat, NEW mark \in Nat, NEW since \in Nat, b <= clock,
               mark <= granted, since = (granted - mark) * Refill, Within(b, mark)
        PROVE  Within(b, mark)'
    <3>1. CASE lock' = lock
      BY <2>1, <2>3, <3>1 DEF Within
    <3>2. CASE lock' = Free
      <4>1. since + credit <= Full + Refill + 2 * (updated - b)
            => since + credit <= Full + Refill + (updated - b) + (clock - b)
        BY <1>1, <1>2, <2>3
      <4> QED
        BY <2>1, <2>3, <3>2, <4>1 DEF Within, Free
    <3> QED
      BY <2>1, <3>1, <3>2
  <2> QED
    BY <1>3, <2>1, <2>2, <2>3
<1>8. CASE UNCHANGED <<clock, bucket>>
  <2>1. UNCHANGED <<clock, credit, updated, lock, granted, marks>>
    BY <1>8 DEF bucket
  <2> QED
    BY <2>1 DEF Paced, SleepsLongEnough, Within
<1> QED
  BY <1>4, <1>5, <1>6, <1>7, <1>8
     DEF Next, Proceed, Begin, Answer, FailAttempt, EndStream, RecordUsage, RecordFails,
         CallerCommits, CallerRollsBack, CancelAfterRow, vars

\* However often it credits the time of a sleep twice, the bucket lets through no more than
\* a burst, one request, and twice the configured rate since any moment.
THEOREM RateIsBounded == Spec => []RateBounded
<1>1. Typed /\ Paced => RateBounded
  <2> SUFFICES ASSUME Typed, Paced, NEW s \in 1 .. Len(marks)
               PROVE  (granted - marks[s]) * Refill <= Full + Refill + 2 * (clock - (s - 1))
    BY DEF RateBounded
  <2>1. /\ clock \in Nat /\ updated \in Nat /\ updated <= clock /\ credit \in Nat
        /\ granted \in Nat /\ marks[s] \in Nat /\ s - 1 \in Nat /\ s - 1 <= clock
        /\ Full \in Nat /\ Refill \in Nat
    BY FullPositive DEF Typed, TypeOK
  <2>2. Within(s - 1, marks[s])
    BY DEF Paced
  <2>3. granted - marks[s] \in Nat
    BY <2>1, <2>2 DEF Within
  <2> DEFINE since == (granted - marks[s]) * Refill
  <2>4. since \in Nat
    BY <2>1, <2>3, Z3
  <2>5. CASE updated >= s - 1
    <3>1. \/ since + credit <= Full + Refill + 2 * (updated - (s - 1))
          \/ since + credit <= Full + Refill + (updated - (s - 1)) + (clock - (s - 1))
      BY <2>2, <2>5 DEF Within
    <3> HIDE DEF since
    <3>2. since <= Full + Refill + 2 * (clock - (s - 1))
      BY <2>1, <2>4, <3>1
    <3> QED
      BY <3>2 DEF since
  <2>6. CASE ~(updated >= s - 1)
    <3>1. granted - marks[s] = 0 \/ granted - marks[s] = 1
      BY <2>1, <2>2, <2>6 DEF Within
    <3>2. since <= Refill
      BY <2>1, <3>1, Z3
    <3> HIDE DEF since
    <3>3. since <= Full + Refill + 2 * (clock - (s - 1))
      BY <2>1, <2>4, <3>2
    <3> QED
      BY <3>3 DEF since
  <2> QED
    BY <2>5, <2>6
<1> QED
  BY TypedInit, TypedNext, PacedInit, PacedNext, <1>1, PTL DEF Spec

=============================================================================
