---------------------------- MODULE EventOutbox ----------------------------
(***************************************************************************)
(* The transactional outbox: domain transactions append events, Celery     *)
(* beat puts the ids of the unfinished ones on a broker queue, and worker  *)
(* processes dispatch each event to its consumers in one database          *)
(* transaction that also writes one receipt per consumer.                  *)
(*                                                                         *)
(* One dispatch is several steps, because its transaction is: it waits for *)
(* the row lock of the event, runs under it, and on an exception rolls     *)
(* back (which releases the lock) and only then locks the row again to     *)
(* record the failure.  Nothing a transaction does is visible before it    *)
(* commits, so the consumers' own writes appear at Commit, counted per     *)
(* consumer by the history variable effects.                               *)
(***************************************************************************)
EXTENDS Integers

CONSTANTS
  Events,           \* event ids
  NoEvent,          \* what an idle worker holds
  Workers,          \* worker processes of the "events" queue
  Consumers,        \* the consumers subscribed to the events' type
  MaxAttempts,      \* eventing.MAX_ATTEMPTS
  MaxRetries,       \* max_retries of the Celery task
  DatabaseFaults,   \* may a query or the commit itself raise?
  MaxQueued,        \* bound: first deliveries of one event waiting at once
  MaxReplays,       \* bound: replay requests per event
  MaxCrashes        \* bound: worker crashes

ASSUME OutboxAssumption ==
  /\ NoEvent \notin Events
  /\ MaxAttempts \in Nat \ {0}
  /\ MaxRetries \in Nat
  /\ DatabaseFaults \in BOOLEAN
  /\ MaxQueued \in Nat
  /\ MaxReplays \in Nat
  /\ MaxCrashes \in Nat

VARIABLES
  status,       \* event_outbox.status, "absent" before the row exists
  attempts,     \* event_outbox.attempts
  due,          \* is next_attempt_at null or past?
  receipt,      \* event_consumer_receipts.status, "none" without a row
  queue,        \* broker messages: per event, how many at each retry number
  pc,           \* where each worker is in its task
  event,        \* the event of the message a worker holds
  tries,        \* that message's retry number
  active,       \* active_consumer when the exception was raised
  effects,      \* history: committed runs of a consumer on an event
  overwritten,  \* history: completed receipts turned into failed ones
  replays,      \* bound counter
  crashes       \* bound counter

rows == <<status, attempts, due, receipt>>
task == <<pc, event, tries, active>>
history == <<effects, overwritten>>
bounds == <<replays, crashes>>
vars == <<rows, queue, task, history, bounds>>

Statuses == {"absent", "pending", "retry", "dead_letter", "completed"}
DispatchableOnlyPending == {"pending"}    \* mutant: the poller forgets retries
Dispatchable == {"pending", "retry"}     \* the filter of pending_event_ids

Init ==
  /\ status = [e \in Events |-> "absent"]
  /\ attempts = [e \in Events |-> 0]
  /\ due = [e \in Events |-> TRUE]
  /\ receipt = [e \in Events |-> [c \in Consumers |-> "none"]]
  /\ queue = [e \in Events |-> [r \in 0..MaxRetries |-> 0]]
  /\ pc = [w \in Workers |-> "idle"]
  /\ event = [w \in Workers |-> NoEvent]
  /\ tries = [w \in Workers |-> 0]
  /\ active = [w \in Workers |-> "dispatcher"]
  /\ effects = [e \in Events |-> [c \in Consumers |-> 0]]
  /\ overwritten = [e \in Events |-> [c \in Consumers |-> 0]]
  /\ replays = [e \in Events |-> 0]
  /\ crashes = 0

-----------------------------------------------------------------------------
(* The writers of the outbox and the scheduler.                            *)

\* A domain transaction commits with a new outbox row in it.
Publish(e) ==
  /\ status[e] = "absent"
  /\ status' = [status EXCEPT ![e] = "pending"]
  /\ UNCHANGED <<attempts, due, receipt, queue, task, history, bounds>>

\* next_attempt_at passes.
BackoffElapses(e) ==
  /\ status[e] = "retry"
  /\ ~due[e]
  /\ due' = [due EXCEPT ![e] = TRUE]
  /\ UNCHANGED <<status, attempts, receipt, queue, task, history, bounds>>

\* Beat queues the event again every two seconds while it is unfinished,
\* whether or not an earlier message for it is still waiting.
DispatchPending(e) ==
  /\ status[e] \in Dispatchable
  /\ due[e]
  /\ queue[e][0] < MaxQueued
  /\ queue' = [queue EXCEPT ![e][0] = @ + 1]
  /\ UNCHANGED <<rows, task, history, bounds>>

-----------------------------------------------------------------------------
(* One worker process: the task dispatch_domain_event around dispatch_one. *)

\* Some transaction holds the row lock of event e.
Locked(e) == \E w \in Workers : pc[w] = "run" /\ event[w] = e

\* The task returns: its message is acknowledged and the process is free.
TaskEnds(w) ==
  /\ pc' = [pc EXCEPT ![w] = "idle"]
  /\ event' = [event EXCEPT ![w] = NoEvent]
  /\ tries' = [tries EXCEPT ![w] = 0]
  /\ active' = [active EXCEPT ![w] = "dispatcher"]

Receive(w, e, r) ==
  /\ pc[w] = "idle"
  /\ queue[e][r] > 0
  /\ queue' = [queue EXCEPT ![e][r] = @ - 1]
  /\ pc' = [pc EXCEPT ![w] = "lock"]
  /\ event' = [event EXCEPT ![w] = e]
  /\ tries' = [tries EXCEPT ![w] = r]
  /\ UNCHANGED <<rows, active, history, bounds>>

\* SELECT ... FOR UPDATE; only a completed event is left alone.
LockEvent(w) ==
  /\ pc[w] = "lock"
  /\ ~Locked(event[w])
  /\ \/ /\ status[event[w]] = "completed"
        /\ TaskEnds(w)
     \/ /\ status[event[w]] # "completed"
        /\ pc' = [pc EXCEPT ![w] = "run"]
        /\ UNCHANGED <<event, tries, active>>
  /\ UNCHANGED <<rows, queue, history, bounds>>

\* Mutant: runs the consumers again that have a completed receipt.
CommitRepeatsAll(w) ==
  LET e == event[w] IN
  /\ pc[w] = "run"
  /\ status' = [status EXCEPT ![e] = "completed"]
  /\ due' = [due EXCEPT ![e] = TRUE]
  /\ receipt' = [receipt EXCEPT ![e] = [c \in Consumers |-> "completed"]]
  /\ effects' = [effects EXCEPT ![e] = [c \in Consumers |-> effects[e][c] + 1]]
  /\ TaskEnds(w)
  /\ UNCHANGED <<attempts, queue, overwritten, bounds>>

\* Every consumer without a completed receipt has run; receipts, the event
\* and the consumers' writes commit together.
Commit(w) ==
  LET e == event[w] IN
  /\ pc[w] = "run"
  /\ status' = [status EXCEPT ![e] = "completed"]
  /\ due' = [due EXCEPT ![e] = TRUE]
  /\ receipt' = [receipt EXCEPT ![e] = [c \in Consumers |-> "completed"]]
  /\ effects' = [effects EXCEPT ![e] = [c \in Consumers |->
       IF receipt[e][c] = "completed" THEN effects[e][c] ELSE effects[e][c] + 1]]
  /\ TaskEnds(w)
  /\ UNCHANGED <<attempts, queue, overwritten, bounds>>

\* Mutant: no rollback, what the other consumers wrote is committed with the
\* failure record.
RaiseWithoutRollback(w, c) ==
  /\ pc[w] = "run"
  /\ receipt[event[w]][c] # "completed"
  /\ pc' = [pc EXCEPT ![w] = "failed"]
  /\ active' = [active EXCEPT ![w] = c]
  /\ effects' = [effects EXCEPT ![event[w]] = [d \in Consumers |->
       IF d = c THEN effects[event[w]][d] ELSE effects[event[w]][d] + 1]]
  /\ UNCHANGED <<rows, queue, event, tries, overwritten, bounds>>

\* The consumer raises, or (with DatabaseFaults) a query or the commit does,
\* in which case the active consumer may be one that was skipped.  The
\* rollback releases the row lock and forgets what the consumers wrote.
Raise(w, c) ==
  /\ pc[w] = "run"
  /\ DatabaseFaults \/ receipt[event[w]][c] # "completed"
  /\ pc' = [pc EXCEPT ![w] = "failed"]
  /\ active' = [active EXCEPT ![w] = c]
  /\ UNCHANGED <<rows, queue, event, tries, history, bounds>>

\* The except branch locks the row again and writes the failure without
\* reading the status it finds there; then Celery retries the task.
RecordFailure(w) ==
  LET e == event[w]
      c == active[w]
      dead == attempts[e] + 1 >= MaxAttempts
  IN
  /\ pc[w] = "failed"
  /\ ~Locked(e)
  /\ attempts' = [attempts EXCEPT ![e] = @ + 1]
  /\ status' = [status EXCEPT ![e] = IF dead THEN "dead_letter" ELSE "retry"]
  /\ due' = [due EXCEPT ![e] = dead]
  /\ receipt' = [receipt EXCEPT ![e][c] = "failed"]
  /\ overwritten' = [overwritten EXCEPT ![e][c] =
       IF receipt[e][c] = "completed" THEN @ + 1 ELSE @]
  /\ queue' = IF tries[w] < MaxRetries
                THEN [queue EXCEPT ![e][tries[w] + 1] = @ + 1]
                ELSE queue
  /\ TaskEnds(w)
  /\ UNCHANGED <<effects, bounds>>

\* The process dies.  PostgreSQL rolls its transaction back; the message was
\* not acknowledged, so the broker delivers it again, or it is lost with a
\* worker whose supervisor acknowledged it.
Crash(w) ==
  /\ pc[w] # "idle"
  /\ crashes < MaxCrashes
  /\ crashes' = crashes + 1
  /\ \/ queue' = [queue EXCEPT ![event[w]][tries[w]] = @ + 1]
     \/ UNCHANGED queue
  /\ TaskEnds(w)
  /\ UNCHANGED <<rows, history, replays>>

-----------------------------------------------------------------------------

\* An administrator replays the event, whatever its status: the delivery
\* state is reset, the receipts stay, and a message is queued.
Replay(e) ==
  /\ status[e] # "absent"
  /\ ~Locked(e)
  /\ replays[e] < MaxReplays
  /\ replays' = [replays EXCEPT ![e] = @ + 1]
  /\ status' = [status EXCEPT ![e] = "pending"]
  /\ attempts' = [attempts EXCEPT ![e] = 0]
  /\ due' = [due EXCEPT ![e] = TRUE]
  /\ queue' = [queue EXCEPT ![e][0] = @ + 1]
  /\ UNCHANGED <<receipt, task, history, crashes>>

\* Everything has been delivered and no message is left.
Quiescent ==
  /\ \A w \in Workers : pc[w] = "idle"
  /\ \A e \in Events :
       /\ status[e] \in {"completed", "dead_letter"}
       /\ \A r \in 0..MaxRetries : queue[e][r] = 0
  /\ UNCHANGED vars

EventStep(e) == Publish(e) \/ BackoffElapses(e) \/ DispatchPending(e) \/ Replay(e)

EndTransaction(w) == Commit(w) \/ \E c \in Consumers : Raise(w, c)

WorkerStep(w) ==
  \/ \E e \in Events, r \in 0..MaxRetries : Receive(w, e, r)
  \/ LockEvent(w)
  \/ EndTransaction(w)
  \/ RecordFailure(w)
  \/ Crash(w)

Next ==
  \/ \E e \in Events : EventStep(e)
  \/ \E w \in Workers : WorkerStep(w)
  \/ Quiescent

Spec == Init /\ [][Next]_vars

\* Beat keeps firing; the broker's queues and PostgreSQL's lock queues are
\* first in, first out, so a message and a waiter are served in the end; a
\* transaction ends.  Nothing is assumed about consumers: each may raise
\* every time.
Fairness ==
  /\ \A e \in Events : WF_vars(BackoffElapses(e)) /\ WF_vars(DispatchPending(e))
  /\ \A e \in Events, r \in 0..MaxRetries :
       SF_vars(\E w \in Workers : Receive(w, e, r))
  /\ \A w \in Workers :
       /\ SF_vars(LockEvent(w))
       /\ WF_vars(EndTransaction(w))
       /\ SF_vars(RecordFailure(w))

FairSpec == Spec /\ Fairness

-----------------------------------------------------------------------------

TypeOK ==
  /\ status \in [Events -> Statuses]
  /\ attempts \in [Events -> Nat]
  /\ due \in [Events -> BOOLEAN]
  /\ receipt \in [Events -> [Consumers -> {"none", "failed", "completed"}]]
  /\ queue \in [Events -> [0..MaxRetries -> Nat]]
  /\ pc \in [Workers -> {"idle", "lock", "run", "failed"}]
  /\ event \in [Workers -> Events \union {NoEvent}]
  /\ \A w \in Workers : pc[w] # "idle" => event[w] \in Events
  /\ tries \in [Workers -> 0..MaxRetries]
  /\ active \in [Workers -> Consumers \union {"dispatcher"}]
  /\ \A w \in Workers : pc[w] = "failed" => active[w] \in Consumers
  /\ effects \in [Events -> [Consumers -> Nat]]
  /\ overwritten \in [Events -> [Consumers -> Nat]]
  /\ replays \in [Events -> Nat]
  /\ crashes \in Nat

\* No consumer is lost: an event that counts as completed has a completed
\* receipt and a committed effect of every consumer, whatever failed, crashed,
\* was retried or was replayed on the way (dispatch_one, eventing.py:230-254).
CompletedMeansAllApplied ==
  \A e \in Events : status[e] = "completed" =>
    \A c \in Consumers : receipt[e][c] = "completed" /\ effects[e][c] >= 1

\* The consumers of one event take effect together or not at all, although
\* they are run one after another and any of them may raise: the rollback of
\* eventing.py:257 never leaves a part of them applied.
AllOrNothing ==
  \A e \in Events :
    \/ \A c \in Consumers : effects[e][c] = 0
    \/ \A c \in Consumers : effects[e][c] >= 1

\* The only way a consumer runs to completion twice on an event is that its
\* completed receipt was overwritten by the failure record of a dispatch that
\* had already rolled back (eventing.py:264-272): the committed effects exceed
\* the completed receipt by exactly the number of such overwrites.  Duplicate
\* messages, crashes, retries and replays never repeat one by themselves.
EffectsAreAccountedFor ==
  \A e \in Events, c \in Consumers :
    effects[e][c] = overwritten[e][c] + (IF receipt[e][c] = "completed" THEN 1 ELSE 0)

\* docs/platform/event-catalog.md:24: consumer receipts guarantee one
\* successful side effect per (event_id, consumer_name).
AtMostOneEffect ==
  \A e \in Events, c \in Consumers : effects[e][c] <= 1

\* The retry limit: an event waits for a retry only below MAX_ATTEMPTS recorded
\* failures and is dead-lettered only at or above it (eventing.py:259-261),
\* also when several workers record failures of the same event.
RetryLimit ==
  \A e \in Events :
    /\ status[e] = "retry" => attempts[e] \in 1..(MaxAttempts - 1)
    /\ status[e] = "dead_letter" => attempts[e] >= MaxAttempts

\* Every event that waits for delivery is completed or dead-lettered in the
\* end, with crashes, lost messages, consumers that always raise and replays.
EventuallySettled ==
  \A e \in Events :
    status[e] \in {"pending", "retry"} ~> status[e] \in {"completed", "dead_letter"}

-----------------------------------------------------------------------------

\* What an observer of the outbox sees: the stage of each event and the
\* consumers whose effects are committed.
StageOfStatus ==
  [absent |-> "unpublished", pending |-> "owed", retry |-> "owed",
   completed |-> "delivered", dead_letter |-> "abandoned"]

Stage == [e \in Events |-> StageOfStatus[status[e]]]

Applied == [e \in Events |-> {c \in Consumers : effects[e][c] > 0}]

Delivery == INSTANCE OutboxDelivery WITH stage <- Stage, applied <- Applied

\* The outbox implements at-least-once, all-or-nothing delivery.
ImplementsDelivery == Delivery!Spec

\* ... and under its fairness, delivery that ends.
ImplementsFairDelivery == Delivery!FairSpec

=============================================================================
