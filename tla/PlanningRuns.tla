---------------------------- MODULE PlanningRuns ----------------------------
(***************************************************************************)
(* The execution of supply chain planning runs by Celery workers.          *)
(*                                                                         *)
(* A run is a row that is queued by the API and named in messages: one     *)
(* sent with the request, one for every pass of the dispatcher while the   *)
(* row is queued, and one for every retry.  A worker calculates under a    *)
(* lock on the row and commits results, status and event together; a       *)
(* failed attempt is rolled back and recorded in a second transaction,     *)
(* which reads the row without the lock and writes it if its version is    *)
(* still the same.                                                         *)
(***************************************************************************)
EXTENDS Integers, FiniteSets

CONSTANTS
  RunIds,
  Workers,
  MaxRetries,   \* max_retries of the task
  MaxCrashes,   \* bound: crashed workers
  NoTask        \* the task of an idle worker

ASSUME PlanningAssumption ==
  /\ MaxRetries \in Nat
  /\ MaxCrashes \in Nat

Message == [run : RunIds, retries : 0..MaxRetries]

ASSUME NoTaskAssumption == NoTask \notin Message

VARIABLES
  runStatus,  \* scm_planning_runs.status, "none" without a row; RUNNING is
              \* written and replaced in one transaction and never seen
  results,    \* the calculated rows of a run that are committed
  queue,      \* messages in the broker
  task,       \* the message each worker holds
  workerPhase,  \* how far each worker is
  session,    \* has the worker written results it has not committed?
  current,    \* workers whose copy of the row has the version in the database
  crashes     \* crashed workers so far

planningVars == <<runStatus, results, queue, task, workerPhase, session, current, crashes>>

PlanningInit ==
  /\ runStatus = [r \in RunIds |-> "none"]
  /\ results = [r \in RunIds |-> "none"]
  /\ queue = {}
  /\ task = [w \in Workers |-> NoTask]
  /\ workerPhase = [w \in Workers |-> "idle"]
  /\ session = [w \in Workers |-> "clean"]
  /\ current = {}
  /\ crashes = 0

-----------------------------------------------------------------------------

On(w, r) == task[w] # NoTask /\ task[w].run = r

\* Mutant: reads the row without FOR UPDATE.
NeverLocked(r) == FALSE

\* The row is locked from the first query of an execution to its end.
Locked(r) == \E w \in Workers : On(w, r) /\ workerPhase[w] = "running"

\* A commit to the row makes every other copy of it stale.
Commit(r, s) ==
  /\ runStatus' = [runStatus EXCEPT ![r] = s]
  /\ current' = {w \in current : ~On(w, r)}

Goto(w, p) == workerPhase' = [workerPhase EXCEPT ![w] = p]

\* The task ends and its message is acknowledged.
Finish(w) == Goto(w, "idle") /\ task' = [task EXCEPT ![w] = NoTask]

-----------------------------------------------------------------------------
(* The API and the dispatcher.                                             *)

\* The message is sent after the commit, and may not be.
TriggerRun(r) ==
  /\ runStatus[r] = "none"
  /\ runStatus' = [runStatus EXCEPT ![r] = "QUEUED"]
  /\ queue' \in {queue, queue \union {[run |-> r, retries |-> 0]}}
  /\ UNCHANGED <<results, task, workerPhase, session, current, crashes>>

\* Mutant: finds nothing to dispatch.
NoneQueued == {}

Queued == {r \in RunIds : runStatus[r] = "QUEUED"}

\* Every 5 seconds, whether or not the runs have been dispatched before.
Dispatch ==
  /\ Queued # {}
  /\ queue' = queue \union {[run |-> r, retries |-> 0] : r \in Queued}
  /\ UNCHANGED <<runStatus, results, task, workerPhase, session, current, crashes>>

-----------------------------------------------------------------------------
(* The task run_scm_planning.                                              *)

\* A worker takes a message and waits for the lock on the row.
Begin(w, m) ==
  /\ workerPhase[w] = "idle"
  /\ m \in queue
  /\ ~Locked(m.run)
  /\ queue' = queue \ {m}
  /\ IF runStatus[m.run] = "COMPLETED"
     THEN UNCHANGED <<task, workerPhase, session>>
     ELSE /\ task' = [task EXCEPT ![w] = m]
          /\ Goto(w, "running")
          /\ session' = [session EXCEPT ![w] = "partial"]
  /\ UNCHANGED <<runStatus, results, current, crashes>>

Complete(w) ==
  /\ workerPhase[w] = "running"
  /\ Commit(task[w].run, "COMPLETED")
  /\ results' = [results EXCEPT ![task[w].run] = "whole"]
  /\ session' = [session EXCEPT ![w] = "clean"]
  /\ Goto(w, "committed")
  /\ UNCHANGED <<queue, task, crashes>>

Return(w) ==
  /\ workerPhase[w] = "committed"
  /\ Finish(w)
  /\ UNCHANGED <<runStatus, results, queue, session, current, crashes>>

\* Mutant: forgets to roll back.
RaiseWithoutRollback(w) ==
  /\ workerPhase[w] \in {"running", "committed"}
  /\ Goto(w, "failing")
  /\ UNCHANGED <<runStatus, results, queue, task, session, current, crashes>>

\* The calculation fails, the connection is lost, or the soft time limit of the
\* task is reached, which may be after the commit.  The rollback frees the lock.
Raise(w) ==
  /\ workerPhase[w] \in {"running", "committed"}
  /\ session' = [session EXCEPT ![w] = "clean"]
  /\ Goto(w, "failing")
  /\ UNCHANGED <<runStatus, results, queue, task, current, crashes>>

\* fail_run reads the row again, whatever it says now.
ReadRun(w) ==
  /\ workerPhase[w] = "failing"
  /\ current' = current \union {w}
  /\ Goto(w, "marking")
  /\ UNCHANGED <<runStatus, results, queue, task, session, crashes>>

\* The update waits for the lock of another worker.  If the row has changed
\* since it was read the update fails, and the task with it.
MarkFailed(w) ==
  /\ workerPhase[w] = "marking"
  /\ ~Locked(task[w].run)
  /\ IF w \in current
     THEN /\ Commit(task[w].run, "FAILED")
          /\ results' = [results EXCEPT ![task[w].run] =
                           IF session[w] = "partial" THEN "partial" ELSE @]
          /\ session' = [session EXCEPT ![w] = "clean"]
          /\ Goto(w, "failed")
          /\ UNCHANGED task
     ELSE /\ Finish(w)
          /\ session' = [session EXCEPT ![w] = "clean"]
          /\ UNCHANGED <<runStatus, results, current>>
  /\ UNCHANGED <<queue, crashes>>

Retry(w) ==
  /\ workerPhase[w] = "failed"
  /\ queue' = IF task[w].retries < MaxRetries
              THEN queue \union {[task[w] EXCEPT !.retries = @ + 1]}
              ELSE queue
  /\ Finish(w)
  /\ UNCHANGED <<runStatus, results, session, current, crashes>>

\* A worker dies, or cannot reach the database to record the failure.  The
\* message is delivered again when the connection of the worker is lost; when
\* the task raises or only its child process is killed, by the hard time limit
\* or for its memory, it is acknowledged.
Crash(w) ==
  /\ crashes < MaxCrashes
  /\ workerPhase[w] # "idle"
  /\ crashes' = crashes + 1
  /\ queue' \in {queue, queue \union {task[w]}}
  /\ Finish(w)
  /\ session' = [session EXCEPT ![w] = "clean"]
  /\ current' = current \ {w}
  /\ UNCHANGED <<runStatus, results>>

Step(w) ==
  \/ \E m \in queue : Begin(w, m)
  \/ Complete(w) \/ Return(w)
  \/ Raise(w) \/ ReadRun(w) \/ MarkFailed(w) \/ Retry(w)

PlanningNext ==
  \/ \E r \in RunIds : TriggerRun(r)
  \/ Dispatch
  \/ \E w \in Workers : Step(w) \/ Crash(w)

PlanningSpec == PlanningInit /\ [][PlanningNext]_planningVars

\* The dispatcher is started by the beat scheduler, and a worker that is up
\* takes messages and goes on with its task: the time limits end every attempt
\* one way or another.  Nothing makes users create runs.
PlanningFairSpec == PlanningSpec /\ WF_planningVars(Dispatch) /\ \A w \in Workers : WF_planningVars(Step(w))

-----------------------------------------------------------------------------
(* Properties.                                                             *)

\* Types; exactly the idle workers have no task, and only a calculation writes
\* results that are not committed.
PlanningTypeOK ==
  /\ runStatus \in [RunIds -> {"none", "QUEUED", "COMPLETED", "FAILED"}]
  /\ results \in [RunIds -> {"none", "partial", "whole"}]
  /\ queue \subseteq Message
  /\ task \in [Workers -> Message \union {NoTask}]
  /\ workerPhase \in [Workers -> {"idle", "running", "committed", "failing", "marking", "failed"}]
  /\ session \in [Workers -> {"clean", "partial"}]
  /\ current \subseteq Workers
  /\ crashes \in 0..MaxCrashes
  /\ \A w \in Workers :
       /\ workerPhase[w] = "idle" <=> task[w] = NoTask
       /\ session[w] = "partial" => workerPhase[w] = "running"

\* A run has all its results or none: what a failed attempt has calculated so
\* far is never committed, not by its own record of the failure either
\* (run_scm_planning), and what was completed once stays complete.
ResultsAreWhole ==
  \A r \in RunIds :
    /\ results[r] # "partial"
    /\ runStatus[r] = "COMPLETED" => results[r] = "whole"

\* A run that is completed is not calculated again, and its event not published
\* again, by the duplicate messages the dispatcher sends and the messages that
\* are delivered twice (execute_run).
CompletedOnce ==
  [][\A w \in Workers :
       workerPhase[w] = "running" /\ workerPhase'[w] = "committed" => runStatus[task[w].run] # "COMPLETED"]_planningVars

\* A queued run is completed or failed in the end, although its message may not
\* have been sent or a worker died with it (dispatch_queued_scm_runs).
EveryRunIsSettled ==
  \A r \in RunIds : runStatus[r] = "QUEUED" ~> runStatus[r] \in {"COMPLETED", "FAILED"}

-----------------------------------------------------------------------------
(* What the documents promise and the code does not keep.                  *)

\* A completed run stays completed.
CompletedIsImmutable ==
  [][\A r \in RunIds : runStatus[r] = "COMPLETED" => runStatus'[r] = "COMPLETED"]_planningVars

=============================================================================
