--------------------------- MODULE SpecialistRuns ---------------------------
(***************************************************************************)
(* Background runs of one specialist on one procurement cycle: queued for  *)
(* a companion item or from the workbench, executed by workers that get    *)
(* their messages at least once, cancelled by their owner or stopped with  *)
(* all agents.  The rows of runs are versioned, but the bulk updates that  *)
(* stop the agents leave the versions alone.                               *)
(***************************************************************************)
EXTENDS Integers, Sequences

CONSTANTS
  Runs,          \* runs that can be started
  Workers,       \* workers of the specialists' queue
  MaxMessages,   \* bound: messages of a run in the queue
  MaxAttempts,   \* bound: attempts of a run
  MaxCycle       \* bound: versions of the cycle

\* Who holds no row, where an update is nobody's.
Nobody == "nobody"

ASSUME SpecialistRunsAssumption ==
  /\ {MaxMessages, MaxAttempts, MaxCycle} \subseteq Nat
  /\ Nobody \notin Workers

VARIABLES
  runs,      \* state, who asked to cancel it, what its companion item shows
  attempts,  \* states of the attempts of every run
  messages,  \* messages of every run
  workers,   \* what every worker does
  cycle,     \* version of the cycle
  prepared   \* prepared work: [version, run]

specialistVars == <<runs, attempts, messages, workers, cycle, prepared>>

-----------------------------------------------------------------------------
Free == [phase |-> "free"]

SpecialistInit ==
  /\ runs = [r \in Runs |-> [state |-> "none", cancel |-> "no", shown |-> "none"]]
  /\ attempts = [r \in Runs |-> <<>>]
  /\ messages = [r \in Runs |-> 0]
  /\ workers = [w \in Workers |-> Free]
  /\ cycle = 1
  /\ prepared = {}

\* Workers other than w that have read the row now hold an old version of it.
\* Mutant: rows are not versioned.
OutdatedNever(r, w) == workers

Outdated(r, w) ==
  [v \in Workers |-> IF v # w /\ workers[v].phase # "free" /\ workers[v].run = r
                     THEN [workers[v] EXCEPT !.stale = TRUE] ELSE workers[v]]

\* start_preparation and start_specialist: the run is committed, then sent.
StartSpecialist(r, item) ==
  /\ runs[r].state = "none"
  /\ runs' = [runs EXCEPT ![r].state = "queued", ![r].shown = IF item THEN "acted" ELSE "none"]
  /\ UNCHANGED <<attempts, messages, workers, cycle, prepared>>

\* The request may die first, and an event sends the run every time it is
\* dispatched while the run is queued.
SendRun(r) ==
  /\ runs[r].state = "queued" /\ messages[r] < MaxMessages
  /\ messages' = [messages EXCEPT ![r] = @ + 1]
  /\ UNCHANGED <<runs, attempts, workers, cycle, prepared>>

\* run_specialist does not ask what has become of the run before; it keeps the
\* row as it was then, for sessions do not read again after a commit.
BeginRun(w, r) ==
  /\ workers[w].phase = "free" /\ messages[r] > 0 /\ Len(attempts[r]) < MaxAttempts
  /\ messages' = [messages EXCEPT ![r] = @ - 1]
  /\ attempts' = [attempts EXCEPT ![r] = Append(@, "running")]
  /\ runs' = [runs EXCEPT ![r].state = "running"]
  /\ workers' = [IF runs[r].state = "running" THEN workers ELSE Outdated(r, w) EXCEPT
       ![w] = [phase |-> "started", run |-> r, attempt |-> Len(attempts'[r]),
               cancelled |-> runs[r].cancel # "no", stale |-> FALSE]]
  /\ UNCHANGED <<cycle, prepared>>

Closes(w, how) == attempts' = [attempts EXCEPT ![workers[w].run][workers[w].attempt] = how]

\* The flag as it was when the run was taken; a stale row ends the message.
LeaveCancelled(w) ==
  LET r == workers[w].run
  IN /\ workers[w].phase = "started" /\ workers[w].cancelled
     /\ IF workers[w].stale THEN UNCHANGED <<runs, attempts>>
        ELSE runs' = [runs EXCEPT ![r].state = "cancelled"] /\ Closes(w, "cancelled")
     /\ workers' = [IF workers[w].stale THEN workers ELSE Outdated(r, w) EXCEPT ![w] = Free]
     /\ UNCHANGED <<messages, cycle, prepared>>

\* The analysis of the cycle, in the transaction that ends the run.
Analyze(w) ==
  /\ workers[w].phase = "started" /\ ~ workers[w].cancelled
  /\ workers' = [workers EXCEPT ![w] =
       [phase |-> "executing", run |-> @.run, attempt |-> @.attempt, stale |-> @.stale,
        version |-> cycle, creates |-> \A p \in prepared : p.version # cycle]]
  /\ UNCHANGED <<runs, attempts, messages, cycle, prepared>>

\* The prepared work of a version is unique.
CompletionCommits(w) ==
  /\ ~ workers[w].stale
  /\ workers[w].creates => \A p \in prepared : p.version # workers[w].version

CompleteSpecialist(w) ==
  LET r == workers[w].run
  IN /\ workers[w].phase = "executing" /\ CompletionCommits(w)
     /\ prepared' = IF workers[w].creates
                    THEN prepared \union {[version |-> workers[w].version, run |-> r]} ELSE prepared
     /\ runs' = [runs EXCEPT ![r].state = "completed",
                             ![r].shown = IF @ = "none" THEN @ ELSE "ready"]
     /\ Closes(w, "completed")
     /\ workers' = [Outdated(r, w) EXCEPT ![w] = Free]
     /\ UNCHANGED <<messages, cycle>>

\* The commit fails, the analysis does, or it takes too long.
FailSpecialist(w) ==
  LET r == workers[w].run
  IN /\ workers[w].phase = "executing"
     /\ runs' = [runs EXCEPT ![r].state = "failed", ![r].shown = IF @ = "none" THEN @ ELSE "failed"]
     /\ Closes(w, "failed")
     /\ workers' = [Outdated(r, w) EXCEPT ![w] = Free]
     /\ UNCHANGED <<messages, cycle, prepared>>

\* The process dies: the message comes back, or went with a killed child.
CrashSpecialist(w, redelivered) ==
  /\ workers[w].phase # "free"
  /\ workers' = [workers EXCEPT ![w] = Free]
  /\ IF redelivered
       THEN /\ messages[workers[w].run] < MaxMessages
            /\ messages' = [messages EXCEPT ![workers[w].run] = @ + 1]
       ELSE UNCHANGED messages
  /\ UNCHANGED <<runs, attempts, cycle, prepared>>

\* By its owner, who may also mark a run that is over.
CancelSpecialist(r, item) ==
  /\ runs[r].state # "none"
  /\ item => runs[r].state \in {"queued", "running"}
  /\ runs' = [runs EXCEPT
       ![r].cancel = "owner",
       ![r].state = IF @ \in {"queued", "running"} THEN "cancelled" ELSE @,
       ![r].shown = IF item /\ @ # "none" THEN "opened" ELSE @]
  /\ workers' = Outdated(r, Nobody)
  /\ UNCHANGED <<attempts, messages, cycle, prepared>>

\* emergency_stop, the workspace's policy: all active runs, in one statement.
StopAgents ==
  /\ runs' = [r \in Runs |->
       IF runs[r].state \notin {"queued", "running"} THEN runs[r]
       ELSE [runs[r] EXCEPT !.state = "cancelled", !.cancel = "stop"]]
  /\ UNCHANGED <<attempts, messages, workers, cycle, prepared>>

\* The thread of a run is deleted.
DeleteThread(r) ==
  /\ runs[r].state = "running"
  /\ runs' = [runs EXCEPT ![r].cancel = IF @ = "no" THEN "stop" ELSE @]
  /\ UNCHANGED <<attempts, messages, workers, cycle, prepared>>

CycleMoves ==
  /\ cycle < MaxCycle
  /\ cycle' = cycle + 1
  /\ UNCHANGED <<runs, attempts, messages, workers, prepared>>

-----------------------------------------------------------------------------
SpecialistNext ==
  \/ \E r \in Runs : SendRun(r) \/ DeleteThread(r)
  \/ \E r \in Runs, item \in BOOLEAN : StartSpecialist(r, item) \/ CancelSpecialist(r, item)
  \/ \E w \in Workers, r \in Runs : BeginRun(w, r)
  \/ \E w \in Workers : LeaveCancelled(w) \/ Analyze(w) \/ CompleteSpecialist(w) \/ FailSpecialist(w)
  \/ \E w \in Workers, again \in BOOLEAN : CrashSpecialist(w, again)
  \/ StopAgents \/ CycleMoves

SpecialistSpec == SpecialistInit /\ [][SpecialistNext]_specialistVars

-----------------------------------------------------------------------------
(* cancel_action and cancel_run: whenever the owner cancels, before the    *)
(* worker has looked, while it executes, between two deliveries or after a *)
(* crash, the run prepares nothing from then on.                           *)
CancelledPreparesNothing ==
  [][\A p \in prepared' \ prepared : runs[p.run].cancel # "owner"]_specialistVars

(* runtime-guide.md: "Disabling cancels active runs".                      *)
StoppedPreparesNothing ==
  [][\A p \in prepared' \ prepared : runs[p.run].cancel = "no"]_specialistVars

\* A second delivery turns a run that is over into one that failed.
OverIsOver ==
  [][\A r \in Runs : runs[r].state \in {"completed", "cancelled"} =>
       runs'[r].state = runs[r].state]_specialistVars

=============================================================================
