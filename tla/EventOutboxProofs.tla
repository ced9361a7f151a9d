------------------------- MODULE EventOutboxProofs -------------------------
(***************************************************************************)
(* Theorems about EventOutbox, for any set of events, workers and          *)
(* consumers and any values of the limits.                                 *)
(***************************************************************************)
EXTENDS EventOutbox, TLAPS

\* One step, split into the actions of the module, for proofs by cases.
LEMMA StepCases ==
  ASSUME [Next]_vars
  PROVE  \/ \E e \in Events : Publish(e)
         \/ \E e \in Events : BackoffElapses(e)
         \/ \E e \in Events : DispatchPending(e)
         \/ \E e \in Events : Replay(e)
         \/ \E w \in Workers, e \in Events, r \in 0..MaxRetries : Receive(w, e, r)
         \/ \E w \in Workers : LockEvent(w)
         \/ \E w \in Workers : Commit(w)
         \/ \E w \in Workers, c \in Consumers : Raise(w, c)
         \/ \E w \in Workers : RecordFailure(w)
         \/ \E w \in Workers : Crash(w)
         \/ UNCHANGED vars
BY DEF Next, EventStep, WorkerStep, EndTransaction, Quiescent

-----------------------------------------------------------------------------
(* Type correctness.                                                       *)

\* Changing one entry of a table of rows (the queue, the receipts, the
\* overwrites) to a value of the right type keeps the table's type.
LEMMA TableUpdate ==
  ASSUME NEW A, NEW B, NEW T, NEW f \in [A -> [B -> T]],
         NEW a \in A, NEW b \in B, NEW t \in T
  PROVE  [f EXCEPT ![a][b] = t] \in [A -> [B -> T]]
OBVIOUS

\* The part of TypeOK that speaks of the workers' tasks.
TaskOK ==
  /\ pc \in [Workers -> {"idle", "lock", "run", "failed"}]
  /\ event \in [Workers -> Events \union {NoEvent}]
  /\ \A w \in Workers : pc[w] # "idle" => event[w] \in Events
  /\ tries \in [Workers -> 0..MaxRetries]
  /\ active \in [Workers -> Consumers \union {"dispatcher"}]
  /\ \A w \in Workers : pc[w] = "failed" => active[w] \in Consumers

\* A worker that ends its task is idle, the others are as they were.
LEMMA TaskEndsType ==
  ASSUME TaskOK, NEW w \in Workers, TaskEnds(w)
  PROVE  TaskOK'
<1>1. 0 \in 0..MaxRetries
  BY OutboxAssumption
<1>2. QED
  BY <1>1 DEF TaskOK, TaskEnds

\* Every variable keeps its type, and a worker in the middle of a task holds
\* the event of a message (eventing.py, workers.py:134-159).
THEOREM TypeCorrect == Spec => []TypeOK
<1>1. Init => TypeOK
  BY OutboxAssumption DEF Init, TypeOK, Statuses
<1>2. TypeOK /\ [Next]_vars => TypeOK'
  <2> SUFFICES ASSUME TypeOK, [Next]_vars PROVE TypeOK'
    OBVIOUS
  <2>a. TaskOK
    BY DEF TypeOK, TaskOK
  <2> USE OutboxAssumption DEF TypeOK, Statuses, Dispatchable, rows, task, history, bounds
  <2>1. ASSUME NEW e \in Events, Publish(e) PROVE TypeOK'
    BY <2>1 DEF Publish
  <2>2. ASSUME NEW e \in Events, BackoffElapses(e) PROVE TypeOK'
    BY <2>2 DEF BackoffElapses
  <2>3. ASSUME NEW e \in Events, DispatchPending(e) PROVE TypeOK'
    BY <2>3 DEF DispatchPending
  <2>4. ASSUME NEW e \in Events, Replay(e) PROVE TypeOK'
    BY <2>4 DEF Replay
  <2>5. ASSUME NEW w \in Workers, NEW e \in Events, NEW r \in 0..MaxRetries, Receive(w, e, r)
        PROVE TypeOK'
    <3>1. queue[e][r] \in Nat /\ queue[e][r] - 1 \in Nat
      BY <2>5 DEF Receive
    <3>2. queue' \in [Events -> [0..MaxRetries -> Nat]]
      BY <2>5, <3>1, TableUpdate, SMTT(30) DEF Receive
    <3>3. TaskOK'
      BY <2>5 DEF Receive, TaskOK
    <3>4. QED
      BY <2>5, <3>2, <3>3 DEF Receive, TaskOK
  <2>6. ASSUME NEW w \in Workers, LockEvent(w) PROVE TypeOK'
    <3>1. CASE TaskEnds(w)
      BY <2>6, <2>a, <3>1, TaskEndsType DEF LockEvent, TaskOK
    <3>2. CASE ~TaskEnds(w)
      BY <2>6, <3>2 DEF LockEvent
    <3>3. QED
      BY <3>1, <3>2
  <2>7. ASSUME NEW w \in Workers, Commit(w) PROVE TypeOK'
    <3>1. event[w] \in Events
      BY <2>7 DEF Commit
    <3>2. TaskOK'
      BY <2>7, <2>a, TaskEndsType DEF Commit
    <3>3. QED
      BY <2>7, <3>1, <3>2, SMTT(30) DEF Commit, TaskOK
  <2>8. ASSUME NEW w \in Workers, NEW c \in Consumers, Raise(w, c) PROVE TypeOK'
    BY <2>8 DEF Raise
  <2>9. ASSUME NEW w \in Workers, RecordFailure(w) PROVE TypeOK'
    <3>1. event[w] \in Events /\ active[w] \in Consumers /\ tries[w] \in 0..MaxRetries
      BY <2>9 DEF RecordFailure
    <3>2. TaskOK'
      BY <2>9, <2>a, TaskEndsType DEF RecordFailure
    <3>3. queue' \in [Events -> [0..MaxRetries -> Nat]]
      <4>1. CASE tries[w] < MaxRetries
        <5>1. tries[w] + 1 \in 0..MaxRetries /\ queue[event[w]][tries[w] + 1] + 1 \in Nat
          BY <3>1, <4>1, SMTT(30)
        <5>2. QED
          BY <2>9, <3>1, <4>1, <5>1, TableUpdate, ZenonT(30) DEF RecordFailure
      <4>2. CASE ~(tries[w] < MaxRetries)
        BY <2>9, <4>2 DEF RecordFailure
      <4>3. QED
        BY <4>1, <4>2
    <3>4. status' \in [Events -> Statuses] /\ attempts' \in [Events -> Nat] /\ due' \in [Events -> BOOLEAN]
      <4>1. status' \in [Events -> Statuses] /\ attempts' \in [Events -> Nat]
        BY <2>9, <3>1, SMTT(30) DEF RecordFailure
      <4>2. due' = [due EXCEPT ![event[w]] = (attempts[event[w]] + 1 >= MaxAttempts)]
        BY <2>9 DEF RecordFailure
      <4>3. (attempts[event[w]] + 1 >= MaxAttempts) \in BOOLEAN
        OBVIOUS
      <4>4. due' \in [Events -> BOOLEAN]
        BY <3>1, <4>2, <4>3, Zenon
      <4>5. QED
        BY <4>1, <4>4
    <3>5. receipt' \in [Events -> [Consumers -> {"none", "failed", "completed"}]]
      <4>1. [receipt EXCEPT ![event[w]][active[w]] = "failed"]
              \in [Events -> [Consumers -> {"none", "failed", "completed"}]]
        BY <3>1, TableUpdate
      <4>2. QED
        BY <2>9, <4>1 DEF RecordFailure
    <3>6. overwritten' \in [Events -> [Consumers -> Nat]]
      <4> DEFINE n == IF receipt[event[w]][active[w]] = "completed"
                        THEN overwritten[event[w]][active[w]] + 1
                        ELSE overwritten[event[w]][active[w]]
      <4>1. n \in Nat
        BY <3>1
      <4>2. [overwritten EXCEPT ![event[w]][active[w]] = n] \in [Events -> [Consumers -> Nat]]
        BY <3>1, <4>1, TableUpdate
      <4>3. QED
        BY <2>9, <4>2 DEF RecordFailure
    <3>7. QED
      BY <2>9, <3>2, <3>3, <3>4, <3>5, <3>6 DEF RecordFailure, TaskOK
  <2>10. ASSUME NEW w \in Workers, Crash(w) PROVE TypeOK'
    <3>1. /\ event[w] \in Events
          /\ tries[w] \in 0..MaxRetries
          /\ queue[event[w]][tries[w]] + 1 \in Nat
      BY <2>10 DEF Crash
    <3>2. TaskOK'
      BY <2>10, <2>a, TaskEndsType DEF Crash
    <3>3. queue' \in [Events -> [0..MaxRetries -> Nat]]
      <4>1. [queue EXCEPT ![event[w]][tries[w]] = @ + 1] \in [Events -> [0..MaxRetries -> Nat]]
        BY <3>1, TableUpdate, SMTT(30)
      <4>2. QED
        BY <2>10, <4>1 DEF Crash
    <3>4. QED
      BY <2>10, <3>2, <3>3, SMTT(30) DEF Crash, TaskOK
  <2>11. CASE UNCHANGED vars
    BY <2>11 DEF vars
  <2>12. QED
    BY <2>1, <2>2, <2>3, <2>4, <2>5, <2>6, <2>7, <2>8, <2>9, <2>10, <2>11, StepCases
<1>3. QED
  BY <1>1, <1>2, PTL DEF Spec

-----------------------------------------------------------------------------
(* The accounting of effects.                                              *)

\* Only published events are in the hands of the broker or of a worker.
OnlyPublished ==
  /\ \A e \in Events, r \in 0..MaxRetries : queue[e][r] > 0 => status[e] # "absent"
  /\ \A w \in Workers : pc[w] # "idle" => status[event[w]] # "absent"

OutboxInv ==
  /\ OnlyPublished
  /\ EffectsAreAccountedFor
  /\ AllOrNothing
  /\ CompletedMeansAllApplied

\* A step that moves neither the rows nor the history, and gives a worker or
\* the queue only events that were in their hands before, keeps OutboxInv.
LEMMA QuietStep ==
  ASSUME OutboxInv, UNCHANGED <<status, receipt, effects, overwritten>>, OnlyPublished'
  PROVE  OutboxInv'
BY DEF OutboxInv, EffectsAreAccountedFor, AllOrNothing, CompletedMeansAllApplied

\* Ending a task takes no event into anybody's hands.
LEMMA TaskEndsPublished ==
  ASSUME TypeOK, OnlyPublished, NEW w \in Workers, TaskEnds(w),
         \A e \in Events : status[e] # "absent" => status'[e] # "absent"
  PROVE  \A v \in Workers : pc'[v] # "idle" => status'[event'[v]] # "absent"
BY DEF TypeOK, OnlyPublished, TaskEnds

LEMMA InvInit == Init => OutboxInv
BY OutboxAssumption
DEF Init, OutboxInv, OnlyPublished, EffectsAreAccountedFor, AllOrNothing, CompletedMeansAllApplied

\* A commit completes every receipt and adds one effect where there was none
\* completed: the books still balance, and every consumer now has an effect.
LEMMA CommitKeepsInv ==
  ASSUME TypeOK, OutboxInv, NEW w \in Workers, Commit(w)
  PROVE  OutboxInv'
<1> DEFINE e == event[w]
<1>1. e \in Events
  BY DEF Commit, TypeOK
<1>2. OnlyPublished'
  <2>1. \A f \in Events : status[f] # "absent" => status'[f] # "absent"
    BY <1>1 DEF Commit, TypeOK
  <2>2. \A f \in Events, r \in 0..MaxRetries : queue'[f][r] > 0 => status'[f] # "absent"
    BY <2>1 DEF Commit, OutboxInv, OnlyPublished
  <2>3. QED
    BY <2>1, <2>2, TaskEndsPublished DEF Commit, OutboxInv, OnlyPublished
<1>3. \A f \in Events, c \in Consumers :
        /\ f # e => effects'[f][c] = effects[f][c] /\ receipt'[f][c] = receipt[f][c]
        /\ f = e => receipt'[f][c] = "completed"
        /\ f = e => effects'[f][c] = overwritten[f][c] + 1
  BY <1>1 DEF Commit, TypeOK, OutboxInv, EffectsAreAccountedFor
<1>4. overwritten' = overwritten
  BY DEF Commit
<1>5. EffectsAreAccountedFor'
  BY <1>3, <1>4 DEF OutboxInv, EffectsAreAccountedFor
<1>6. \A c \in Consumers : effects'[e][c] >= 1
  BY <1>1, <1>3 DEF TypeOK
<1>7. AllOrNothing'
  BY <1>3, <1>6 DEF OutboxInv, AllOrNothing
<1>8. CompletedMeansAllApplied'
  <2>1. \A f \in Events : f # e => status'[f] = status[f]
    BY <1>1 DEF Commit, TypeOK
  <2>2. QED
    BY <1>3, <1>6, <2>1 DEF OutboxInv, CompletedMeansAllApplied
<1>9. QED
  BY <1>2, <1>5, <1>7, <1>8 DEF OutboxInv

\* A failure record turns one receipt into a failed one; if it was completed,
\* the overwrite is counted, and the event no longer counts as completed.
LEMMA RecordKeepsInv ==
  ASSUME TypeOK, OutboxInv, NEW w \in Workers, RecordFailure(w)
  PROVE  OutboxInv'
<1> DEFINE e == event[w]
           a == active[w]
<1>1. e \in Events /\ a \in Consumers /\ tries[w] \in 0..MaxRetries
  BY DEF RecordFailure, TypeOK
<1>2. status[e] # "absent"
  BY DEF RecordFailure, OutboxInv, OnlyPublished
<1>3. /\ \A f \in Events : f # e => status'[f] = status[f]
      /\ status'[e] \in {"dead_letter", "retry"}
  BY <1>1 DEF RecordFailure, TypeOK
<1>4. OnlyPublished'
  <2>1. \A f \in Events : status[f] # "absent" => status'[f] # "absent"
    BY <1>3
  <2>2. \A f \in Events, r \in 0..MaxRetries : f # e => queue'[f][r] = queue[f][r]
    BY <1>1 DEF RecordFailure, TypeOK
  <2>3. QED
    BY <1>3, <2>1, <2>2, TaskEndsPublished DEF RecordFailure, OutboxInv, OnlyPublished
<1>5. \A f \in Events, c \in Consumers :
        /\ ~(f = e /\ c = a) => /\ receipt'[f][c] = receipt[f][c]
                               /\ overwritten'[f][c] = overwritten[f][c]
        /\ (f = e /\ c = a) =>
              /\ receipt'[f][c] = "failed"
              /\ overwritten'[f][c] =
                   overwritten[f][c] + (IF receipt[f][c] = "completed" THEN 1 ELSE 0)
  BY <1>1, SMTT(30) DEF RecordFailure, TypeOK
<1>6. effects' = effects
  BY DEF RecordFailure
<1>7. EffectsAreAccountedFor'
  <2> SUFFICES ASSUME NEW f \in Events, NEW c \in Consumers
               PROVE  effects'[f][c] =
                        overwritten'[f][c] + (IF receipt'[f][c] = "completed" THEN 1 ELSE 0)
    BY DEF EffectsAreAccountedFor
  <2>1. /\ effects[f][c] = overwritten[f][c] + (IF receipt[f][c] = "completed" THEN 1 ELSE 0)
        /\ overwritten[f][c] \in Nat
    BY DEF OutboxInv, EffectsAreAccountedFor, TypeOK
  <2>2. CASE f = e /\ c = a
    BY <1>5, <1>6, <2>1, <2>2
  <2>3. CASE ~(f = e /\ c = a)
    BY <1>5, <1>6, <2>1, <2>3
  <2>4. QED
    BY <2>2, <2>3
<1>8. AllOrNothing'
  BY <1>6 DEF OutboxInv, AllOrNothing
<1>9. CompletedMeansAllApplied'
  BY <1>3, <1>5, <1>6 DEF OutboxInv, CompletedMeansAllApplied
<1>10. QED
  BY <1>4, <1>7, <1>8, <1>9 DEF OutboxInv

LEMMA InvStep == TypeOK /\ OutboxInv /\ [Next]_vars => OutboxInv'
<1> SUFFICES ASSUME TypeOK, OutboxInv, [Next]_vars PROVE OutboxInv'
  OBVIOUS
<1> USE OutboxAssumption
<1>1. ASSUME NEW e \in Events, Publish(e) PROVE OutboxInv'
  <2>1. /\ \A f \in Events : f # e => status'[f] = status[f]
        /\ status'[e] = "pending"
    BY <1>1 DEF Publish, TypeOK
  <2>2. UNCHANGED <<queue, pc, event, receipt, effects, overwritten>>
    BY <1>1 DEF Publish, task, history
  <2>3. OnlyPublished'
    BY <2>1, <2>2 DEF OutboxInv, OnlyPublished, TypeOK
  <2>4. QED
    BY <2>1, <2>2, <2>3
    DEF OutboxInv, EffectsAreAccountedFor, AllOrNothing, CompletedMeansAllApplied
<1>2. ASSUME NEW e \in Events, BackoffElapses(e) PROVE OutboxInv'
  BY <1>2, QuietStep DEF BackoffElapses, OutboxInv, OnlyPublished, task, history
<1>3. ASSUME NEW e \in Events, DispatchPending(e) PROVE OutboxInv'
  <2>1. status[e] # "absent" /\ UNCHANGED <<status, receipt, effects, overwritten, pc, event>>
    BY <1>3 DEF DispatchPending, Dispatchable, rows, task, history
  <2>2. \A f \in Events, r \in 0..MaxRetries : f # e => queue'[f][r] = queue[f][r]
    BY <1>3 DEF DispatchPending, TypeOK
  <2>3. OnlyPublished'
    BY <2>1, <2>2 DEF OutboxInv, OnlyPublished
  <2>4. QED
    BY <2>1, <2>3, QuietStep
<1>4. ASSUME NEW e \in Events, Replay(e) PROVE OutboxInv'
  <2>1. /\ \A f \in Events : f # e => status'[f] = status[f]
        /\ status'[e] = "pending"
    BY <1>4 DEF Replay, TypeOK
  <2>2. UNCHANGED <<pc, event, receipt, effects, overwritten>>
    BY <1>4 DEF Replay, task, history
  <2>3. \A f \in Events, r \in 0..MaxRetries : f # e => queue'[f][r] = queue[f][r]
    BY <1>4 DEF Replay, TypeOK
  <2>4. OnlyPublished'
    BY <2>1, <2>2, <2>3, ZenonT(30) DEF OutboxInv, OnlyPublished, TypeOK
  <2>5. QED
    BY <2>1, <2>2, <2>4
    DEF OutboxInv, EffectsAreAccountedFor, AllOrNothing, CompletedMeansAllApplied
<1>5. ASSUME NEW w \in Workers, NEW e \in Events, NEW r \in 0..MaxRetries, Receive(w, e, r)
      PROVE OutboxInv'
  <2>1. UNCHANGED <<status, receipt, effects, overwritten>>
    BY <1>5 DEF Receive, rows, history
  <2>2. \A f \in Events, s \in 0..MaxRetries : queue'[f][s] > 0 => queue[f][s] > 0
    BY <1>5 DEF Receive, TypeOK
  <2>3. \A v \in Workers : pc'[v] # "idle" => v = w \/ (pc[v] # "idle" /\ event'[v] = event[v])
    BY <1>5 DEF Receive, TypeOK
  <2>4. event'[w] = e /\ status[e] # "absent"
    BY <1>5 DEF Receive, TypeOK, OutboxInv, OnlyPublished
  <2>5. OnlyPublished'
    BY <2>1, <2>2, <2>3, <2>4 DEF OutboxInv, OnlyPublished
  <2>6. QED
    BY <2>1, <2>5, QuietStep
<1>6. ASSUME NEW w \in Workers, LockEvent(w) PROVE OutboxInv'
  <2>1. UNCHANGED <<status, receipt, effects, overwritten, queue>>
    BY <1>6 DEF LockEvent, rows, history
  <2>2. \A v \in Workers : pc'[v] # "idle" => status'[event'[v]] # "absent"
    <3>1. CASE TaskEnds(w)
      BY <2>1, <3>1, TaskEndsPublished DEF OutboxInv
    <3>2. CASE ~TaskEnds(w)
      BY <1>6, <2>1, <3>2 DEF LockEvent, OutboxInv, OnlyPublished, TypeOK
    <3>3. QED
      BY <3>1, <3>2
  <2>3. OnlyPublished'
    BY <2>1, <2>2 DEF OutboxInv, OnlyPublished
  <2>4. QED
    BY <2>1, <2>3, QuietStep
<1>7. ASSUME NEW w \in Workers, Commit(w) PROVE OutboxInv'
  BY <1>7, CommitKeepsInv
<1>8. ASSUME NEW w \in Workers, NEW c \in Consumers, Raise(w, c) PROVE OutboxInv'
  BY <1>8, QuietStep DEF Raise, OutboxInv, OnlyPublished, TypeOK, rows, history
<1>9. ASSUME NEW w \in Workers, RecordFailure(w) PROVE OutboxInv'
  BY <1>9, RecordKeepsInv
<1>10. ASSUME NEW w \in Workers, Crash(w) PROVE OutboxInv'
  <2>1. UNCHANGED <<status, receipt, effects, overwritten>> /\ TaskEnds(w)
    BY <1>10 DEF Crash, rows, history
  <2>2. event[w] \in Events /\ status[event[w]] # "absent"
    BY <1>10 DEF Crash, TypeOK, OutboxInv, OnlyPublished
  <2>3. \A f \in Events, r \in 0..MaxRetries : f # event[w] => queue'[f][r] = queue[f][r]
    BY <1>10, <2>2 DEF Crash, TypeOK
  <2>4. OnlyPublished'
    BY <2>1, <2>2, <2>3, TaskEndsPublished DEF OutboxInv, OnlyPublished
  <2>5. QED
    BY <2>1, <2>4, QuietStep
<1>11. CASE UNCHANGED vars
  BY <1>11, QuietStep DEF vars, rows, task, history, OutboxInv, OnlyPublished
<1>12. QED
  BY <1>1, <1>2, <1>3, <1>4, <1>5, <1>6, <1>7, <1>8, <1>9, <1>10, <1>11, StepCases

THEOREM OutboxInvariant == Spec => []OutboxInv
<1>1. QED
  BY InvInit, InvStep, TypeCorrect, PTL DEF Spec

\* Whatever fails, races, crashes or is replayed (eventing.py:222-297): the
\* committed effects of a consumer on an event are its completed receipt plus
\* the overwritten ones.
THEOREM EffectsAccounted == Spec => []EffectsAreAccountedFor
<1>1. OutboxInv => EffectsAreAccountedFor
  BY DEF OutboxInv
<1>2. QED
  BY <1>1, OutboxInvariant, PTL

\* The consumers of an event take effect all together or not at all.
THEOREM AllOrNothingDelivery == Spec => []AllOrNothing
<1>1. OutboxInv => AllOrNothing
  BY DEF OutboxInv
<1>2. QED
  BY <1>1, OutboxInvariant, PTL

\* A completed event has lost none of its consumers.
THEOREM NoConsumerLost == Spec => []CompletedMeansAllApplied
<1>1. OutboxInv => CompletedMeansAllApplied
  BY DEF OutboxInv
<1>2. QED
  BY <1>1, OutboxInvariant, PTL

-----------------------------------------------------------------------------
(* The retry limit.                                                        *)

\* Events wait for a retry below MAX_ATTEMPTS recorded failures only, and are
\* dead-lettered at or above it only (eventing.py:259-261).
THEOREM RetryLimitHolds == Spec => []RetryLimit
<1>1. Init => RetryLimit
  BY DEF Init, RetryLimit
<1>2. TypeOK /\ RetryLimit /\ [Next]_vars => RetryLimit'
  <2> SUFFICES ASSUME TypeOK, RetryLimit, [Next]_vars PROVE RetryLimit'
    OBVIOUS
  <2> USE OutboxAssumption DEF RetryLimit, TypeOK
  <2>1. ASSUME UNCHANGED <<status, attempts>> PROVE RetryLimit'
    BY <2>1
  <2>2. ASSUME NEW e \in Events, Publish(e) PROVE RetryLimit'
    BY <2>2 DEF Publish
  <2>3. ASSUME NEW e \in Events, Replay(e) PROVE RetryLimit'
    BY <2>3 DEF Replay
  <2>4. ASSUME NEW w \in Workers, Commit(w) PROVE RetryLimit'
    BY <2>4 DEF Commit
  <2>5. ASSUME NEW w \in Workers, RecordFailure(w) PROVE RetryLimit'
    <3>1. event[w] \in Events
      BY <2>5 DEF RecordFailure
    <3>2. \A e \in Events : e # event[w] => status'[e] = status[e] /\ attempts'[e] = attempts[e]
      BY <2>5, <3>1 DEF RecordFailure
    <3>3. /\ attempts'[event[w]] = attempts[event[w]] + 1
          /\ status'[event[w]] = IF attempts[event[w]] + 1 >= MaxAttempts
                                   THEN "dead_letter" ELSE "retry"
      BY <2>5, <3>1 DEF RecordFailure
    <3>4. attempts[event[w]] \in Nat
      BY <3>1
    <3>5. ASSUME NEW e \in Events
          PROVE  /\ status'[e] = "retry" => attempts'[e] \in 1..(MaxAttempts - 1)
                 /\ status'[e] = "dead_letter" => attempts'[e] >= MaxAttempts
      <4>1. CASE e = event[w]
        <5>1. CASE attempts[e] + 1 >= MaxAttempts
          BY <3>3, <3>4, <4>1, <5>1
        <5>2. CASE ~(attempts[e] + 1 >= MaxAttempts)
          BY <3>3, <3>4, <4>1, <5>2
        <5>3. QED
          BY <5>1, <5>2
      <4>2. CASE e # event[w]
        BY <3>2, <4>2
      <4>3. QED
        BY <4>1, <4>2
    <3>6. QED
      BY <3>5
  <2>6. QED
    BY <2>1, <2>2, <2>3, <2>4, <2>5, StepCases
    DEF BackoffElapses, DispatchPending, Receive, LockEvent, Raise, Crash, rows, vars
<1>3. QED
  BY <1>1, <1>2, TypeCorrect, PTL DEF Spec

-----------------------------------------------------------------------------
(* One worker process.                                                     *)

\* With one worker nothing can commit between a rollback and its failure
\* record, so the record never meets a completed receipt.
RecordIsFresh ==
  /\ \A w \in Workers : pc[w] = "failed" => receipt[event[w]][active[w]] # "completed"
  /\ \A e \in Events, c \in Consumers : overwritten[e][c] = 0

LEMMA FreshStep ==
  ASSUME ~DatabaseFaults, \A v, w \in Workers : v = w
  PROVE  TypeOK /\ RecordIsFresh /\ [Next]_vars => RecordIsFresh'
<1> SUFFICES ASSUME TypeOK, RecordIsFresh, [Next]_vars PROVE RecordIsFresh'
  OBVIOUS
<1> USE DEF RecordIsFresh, TypeOK
<1>1. ASSUME UNCHANGED <<receipt, overwritten, task>> PROVE RecordIsFresh'
  BY <1>1 DEF task
<1>2. ASSUME NEW w \in Workers, pc'[w] # "failed", UNCHANGED overwritten PROVE RecordIsFresh'
  BY <1>2
<1>3. ASSUME NEW w \in Workers, NEW e \in Events, NEW r \in 0..MaxRetries, Receive(w, e, r)
      PROVE RecordIsFresh'
  BY <1>2, <1>3 DEF Receive, history
<1>4. ASSUME NEW w \in Workers, LockEvent(w) PROVE RecordIsFresh'
  BY <1>2, <1>4 DEF LockEvent, TaskEnds, history
<1>5. ASSUME NEW w \in Workers, Commit(w) PROVE RecordIsFresh'
  BY <1>2, <1>5 DEF Commit, TaskEnds
<1>6. ASSUME NEW w \in Workers, NEW c \in Consumers, Raise(w, c) PROVE RecordIsFresh'
  BY <1>6 DEF Raise, rows, history
<1>7. ASSUME NEW w \in Workers, RecordFailure(w) PROVE RecordIsFresh'
  <2>1. pc'[w] # "failed"
    BY <1>7 DEF RecordFailure, TaskEnds
  <2>2. overwritten' = overwritten
    BY <1>7 DEF RecordFailure
  <2>3. QED
    BY <1>2, <2>1, <2>2
<1>8. ASSUME NEW w \in Workers, Crash(w) PROVE RecordIsFresh'
  BY <1>2, <1>8 DEF Crash, TaskEnds, history
<1>9. QED
  BY <1>1, <1>3, <1>4, <1>5, <1>6, <1>7, <1>8, StepCases
  DEF Publish, BackoffElapses, DispatchPending, Replay, rows, history, vars

\* With a single worker and no failing database statement, receipts do give
\* what event-catalog.md:24 promises: one effect per event and consumer.
THEOREM SingleWorkerAtMostOnce ==
  ASSUME ~DatabaseFaults, \A v, w \in Workers : v = w
  PROVE  Spec => []AtMostOneEffect
<1>1. Init => RecordIsFresh
  BY DEF Init, RecordIsFresh
<1>2. TypeOK /\ RecordIsFresh /\ [Next]_vars => RecordIsFresh'
  BY FreshStep
<1>3. TypeOK /\ RecordIsFresh /\ OutboxInv => AtMostOneEffect
  BY DEF RecordIsFresh, OutboxInv, EffectsAreAccountedFor, AtMostOneEffect
<1>4. QED
  BY <1>1, <1>2, <1>3, TypeCorrect, OutboxInvariant, PTL DEF Spec

-----------------------------------------------------------------------------
(* The outbox implements OutboxDelivery.                                   *)

\* Nobody who watches stages and effects notices these steps.
LEMMA Unnoticed ==
  ASSUME UNCHANGED <<status, effects>>
  PROVE  UNCHANGED <<Stage, Applied>>
BY DEF Stage, Applied

\* A step that changes the status of one event moves one stage.
LEMMA StageMoves ==
  ASSUME TypeOK, NEW e \in Events, NEW s \in Statuses, status' = [status EXCEPT ![e] = s]
  PROVE  /\ s = "pending" => Stage' = [Stage EXCEPT ![e] = "owed"]
         /\ s = "retry" => Stage' = [Stage EXCEPT ![e] = "owed"]
         /\ s = "completed" => Stage' = [Stage EXCEPT ![e] = "delivered"]
         /\ s = "dead_letter" => Stage' = [Stage EXCEPT ![e] = "abandoned"]
<1>1. \A f \in Events : status'[f] = IF f = e THEN s ELSE status[f]
  BY DEF TypeOK
<1>2. /\ s = "pending" => StageOfStatus[s] = "owed"
      /\ s = "retry" => StageOfStatus[s] = "owed"
      /\ s = "completed" => StageOfStatus[s] = "delivered"
      /\ s = "dead_letter" => StageOfStatus[s] = "abandoned"
  BY DEF StageOfStatus
<1>3. Stage' = [Stage EXCEPT ![e] = StageOfStatus[s]]
  <2>1. Stage = [f \in Events |-> StageOfStatus[status[f]]]
    BY DEF Stage
  <2>2. Stage' = [f \in Events |-> StageOfStatus[status'[f]]]
    BY DEF Stage
  <2>3. ASSUME NEW f \in Events
        PROVE  StageOfStatus[status'[f]] =
                 IF f = e THEN StageOfStatus[s] ELSE StageOfStatus[status[f]]
    <3>1. CASE f = e
      BY <1>1, <3>1
    <3>2. CASE f # e
      BY <1>1, <3>2
    <3>3. QED
      BY <3>1, <3>2
  <2>4. [Stage EXCEPT ![e] = StageOfStatus[s]] =
          [f \in Events |-> IF f = e THEN StageOfStatus[s] ELSE StageOfStatus[status[f]]]
    BY <2>1
  <2>5. QED
    BY <2>2, <2>3, <2>4
<1>4. ASSUME s = "pending" PROVE Stage' = [Stage EXCEPT ![e] = "owed"]
  BY <1>2, <1>3, <1>4
<1>5. ASSUME s = "retry" PROVE Stage' = [Stage EXCEPT ![e] = "owed"]
  BY <1>2, <1>3, <1>5
<1>6. ASSUME s = "completed" PROVE Stage' = [Stage EXCEPT ![e] = "delivered"]
  BY <1>2, <1>3, <1>6
<1>7. ASSUME s = "dead_letter" PROVE Stage' = [Stage EXCEPT ![e] = "abandoned"]
  BY <1>2, <1>3, <1>7
<1>8. QED
  BY <1>4, <1>5, <1>6, <1>7

\* What the stage says of the status.
LEMMA StageOf ==
  ASSUME TypeOK, NEW e \in Events
  PROVE  /\ status[e] = "absent" => Stage[e] = "unpublished"
         /\ status[e] \in {"pending", "retry"} => Stage[e] = "owed"
         /\ status[e] = "completed" => Stage[e] = "delivered"
         /\ status[e] = "dead_letter" => Stage[e] = "abandoned"
BY DEF Stage, StageOfStatus

\* A step that makes a published event owed again is Reopen, or is unnoticed.
LEMMA BackToOwed ==
  ASSUME TypeOK, NEW e \in Events, NEW s \in {"pending", "retry"}, status[e] # "absent",
         status' = [status EXCEPT ![e] = s], UNCHANGED effects
  PROVE  [Delivery!Next]_(Delivery!vars)
<1>1. Stage' = [Stage EXCEPT ![e] = "owed"] /\ Applied' = Applied
  BY StageMoves DEF Applied, Statuses
<1>2. CASE status[e] \in {"pending", "retry"}
  <2>1. Stage' = Stage
    BY <1>1, <1>2, StageOf DEF Stage
  <2>2. QED
    BY <1>1, <2>1 DEF Delivery!vars
<1>3. CASE status[e] \in {"completed", "dead_letter"}
  <2>1. Delivery!Reopen(e)
    BY <1>1, <1>3, StageOf DEF Delivery!Reopen
  <2>2. QED
    BY <2>1 DEF Delivery!Next
<1>4. QED
  BY <1>2, <1>3 DEF TypeOK, Statuses

LEMMA CommitDelivers ==
  ASSUME TypeOK, OutboxInv, NEW w \in Workers, Commit(w)
  PROVE  [Delivery!Next]_(Delivery!vars)
<1> DEFINE e == event[w]
<1>1. e \in Events /\ status[e] # "absent"
  BY DEF Commit, TypeOK, OutboxInv, OnlyPublished
<1>2. status' = [status EXCEPT ![e] = "completed"]
  BY DEF Commit
<1>3. Stage' = [Stage EXCEPT ![e] = "delivered"]
  BY <1>1, <1>2, StageMoves DEF Statuses
<1>4. \A f \in Events, c \in Consumers :
        effects'[f][c] = IF f = e /\ receipt[e][c] # "completed"
                           THEN effects[f][c] + 1 ELSE effects[f][c]
  BY <1>1 DEF Commit, TypeOK
<1>5. CASE status[e] = "completed"
  <2>1. Stage' = Stage
    BY <1>1, <1>3, <1>5, StageOf, ZenonT(30) DEF Stage
  <2>2. \A c \in Consumers : receipt[e][c] = "completed"
    BY <1>1, <1>5 DEF OutboxInv, CompletedMeansAllApplied
  <2>3. Applied' = Applied
    BY <1>4, <2>2 DEF Applied
  <2>4. QED
    BY <2>1, <2>3 DEF Delivery!vars
<1>6. CASE status[e] # "completed"
  <2>1. Stage[e] \in {"owed", "abandoned"}
    BY <1>1, <1>6, StageOf DEF TypeOK, Statuses
  <2>2. ASSUME NEW c \in Consumers PROVE effects'[e][c] > 0
    <3>1. /\ effects[e][c] = overwritten[e][c] + (IF receipt[e][c] = "completed" THEN 1 ELSE 0)
          /\ overwritten[e][c] \in Nat
      BY <1>1 DEF OutboxInv, EffectsAreAccountedFor, TypeOK
    <3>2. CASE receipt[e][c] = "completed"
      BY <1>1, <1>4, <3>1, <3>2
    <3>3. CASE receipt[e][c] # "completed"
      BY <1>1, <1>4, <3>1, <3>3
    <3>4. QED
      BY <3>2, <3>3
  <2>3. \A f \in Events, c \in Consumers : f # e => effects'[f][c] = effects[f][c]
    BY <1>4
  <2>4. Applied' = [Applied EXCEPT ![e] = Consumers]
    BY <2>2, <2>3 DEF Applied
  <2>5. Delivery!Deliver(e)
    BY <1>3, <2>1, <2>4 DEF Delivery!Deliver
  <2>6. QED
    BY <1>1, <2>5 DEF Delivery!Next
<1>7. QED
  BY <1>5, <1>6

LEMMA RecordAbandonsOrReopens ==
  ASSUME TypeOK, OutboxInv, NEW w \in Workers, RecordFailure(w)
  PROVE  [Delivery!Next]_(Delivery!vars)
<1> DEFINE e == event[w]
<1>1. e \in Events /\ status[e] # "absent"
  BY DEF RecordFailure, TypeOK, OutboxInv, OnlyPublished
<1>2. UNCHANGED effects
  BY DEF RecordFailure
<1>3. CASE status' = [status EXCEPT ![e] = "retry"]
  BY <1>1, <1>2, <1>3, BackToOwed
<1>4. CASE status' = [status EXCEPT ![e] = "dead_letter"]
  <2>1. Stage' = [Stage EXCEPT ![e] = "abandoned"] /\ Applied' = Applied
    BY <1>1, <1>2, <1>4, StageMoves DEF Applied, Statuses
  <2>2. CASE status[e] = "dead_letter"
    <3>1. Stage' = Stage
      BY <1>1, <2>1, <2>2, StageOf, ZenonT(30) DEF Stage
    <3>2. QED
      BY <2>1, <3>1 DEF Delivery!vars
  <2>3. CASE status[e] \in {"pending", "retry", "completed"}
    <3>1. Delivery!Abandon(e)
      BY <1>1, <2>1, <2>3, StageOf DEF Delivery!Abandon
    <3>2. QED
      BY <1>1, <3>1 DEF Delivery!Next
  <2>4. QED
    BY <1>1, <2>2, <2>3 DEF TypeOK, Statuses
<1>5. QED
  BY <1>3, <1>4 DEF RecordFailure

\* The outbox with its workers, locks, messages, crashes and races implements
\* all-or-nothing delivery that is never taken back (OutboxDelivery).
THEOREM OutboxImplementsDelivery == Spec => ImplementsDelivery
<1>1. Init => Delivery!Init
  BY DEF Init, Delivery!Init, Stage, StageOfStatus, Applied
<1>2. TypeOK /\ OutboxInv /\ [Next]_vars => [Delivery!Next]_(Delivery!vars)
  <2> SUFFICES ASSUME TypeOK, OutboxInv, [Next]_vars PROVE [Delivery!Next]_(Delivery!vars)
    OBVIOUS
  <2>1. ASSUME UNCHANGED <<status, effects>> PROVE [Delivery!Next]_(Delivery!vars)
    BY <2>1, Unnoticed DEF Delivery!vars
  <2>2. ASSUME NEW e \in Events, Publish(e) PROVE [Delivery!Next]_(Delivery!vars)
    <3>1. Stage' = [Stage EXCEPT ![e] = "owed"] /\ Applied' = Applied
      BY <2>2, StageMoves DEF Publish, Applied, Statuses, history
    <3>2. Delivery!Publish(e)
      BY <2>2, <3>1, StageOf DEF Publish, Delivery!Publish
    <3>3. QED
      BY <3>2 DEF Delivery!Next
  <2>3. ASSUME NEW e \in Events, Replay(e) PROVE [Delivery!Next]_(Delivery!vars)
    BY <2>3, BackToOwed DEF Replay, history
  <2>4. ASSUME NEW w \in Workers, Commit(w) PROVE [Delivery!Next]_(Delivery!vars)
    BY <2>4, CommitDelivers
  <2>5. ASSUME NEW w \in Workers, RecordFailure(w) PROVE [Delivery!Next]_(Delivery!vars)
    BY <2>5, RecordAbandonsOrReopens
  <2>6. QED
    BY <2>1, <2>2, <2>3, <2>4, <2>5, StepCases
    DEF BackoffElapses, DispatchPending, Receive, LockEvent, Raise, Crash, rows, history, vars
<1>3. QED
  BY <1>1, <1>2, TypeCorrect, OutboxInvariant, PTL DEF Spec, ImplementsDelivery, Delivery!Spec

=============================================================================
