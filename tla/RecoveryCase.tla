---------------------------- MODULE RecoveryCase ----------------------------
(***************************************************************************)
(* Recovery cases of the operations domain: strategies are generated for a *)
(* deviation, one is selected and expands into actions in sequence, the    *)
(* actions are carried out, and what is observed afterwards verifies the   *)
(* recovery or finds that it failed.                                       *)
(*                                                                         *)
(* Users call the operations in any order, a worker reconciles every       *)
(* minute, and actions of a strategy stay in the work lists of their       *)
(* owners after the case has moved on.  Each operation is one transaction  *)
(* whose decisive rows carry a version, so of two that overlap one fails:  *)
(* an operation is a single step here.                                     *)
(***************************************************************************)
EXTENDS Integers, FiniteSets

CONSTANTS
  Cases,
  Strategies,   \* bound: the strategy rows a case can have
  Steps,        \* how many actions a strategy expands into
  Results,      \* what the evaluation of the observed state may say
  NoStrategy    \* selected_strategy_id of a case without one

ASSUME RecoveryAssumption ==
  /\ Steps \in Nat \ {0}
  /\ Results \subseteq {"RECOVERED", "PARTIALLY_RECOVERED", "NO_EFFECT", "INCONCLUSIVE"}
  /\ NoStrategy \notin Strategies

VARIABLES
  caseStatus, \* recovery_cases.status, "none" without a row
  selected,   \* recovery_cases.selected_strategy_id
  strategy,   \* recovery_strategies.status per case and strategy; "candidate"
              \* stands for recommended and evaluated too
  unavailable, \* the strategies of a case with an unavailable_reason
  action,     \* operational_actions.status per case, strategy and sequence_no
  outcome     \* is there a recovery_outcomes row of the case?

recoveryVars == <<caseStatus, selected, strategy, unavailable, action, outcome>>

RecoveryInit ==
  /\ caseStatus = [c \in Cases |-> "none"]
  /\ selected = [c \in Cases |-> NoStrategy]
  /\ strategy = [c \in Cases |-> [s \in Strategies |-> "absent"]]
  /\ unavailable = [c \in Cases |-> {}]
  /\ action = [c \in Cases |-> [s \in Strategies |-> [i \in 1..Steps |-> "absent"]]]
  /\ outcome = [c \in Cases |-> FALSE]

SetStatus(c, s) == caseStatus' = [caseStatus EXCEPT ![c] = s]

-----------------------------------------------------------------------------
(* Opening a case and generating its options.                              *)

\* The strategies that are still to be chosen from are rejected and new ones
\* generated; stale inputs make some of those unavailable.  A strategy that
\* has been selected keeps its status, and its actions stay with their owners.
Regenerate(c) ==
  LET open == {s \in Strategies : strategy[c][s] = "candidate"}
      unused == {s \in Strategies : strategy[c][s] = "absent"}
  IN \E fresh \in SUBSET unused, stale \in SUBSET unused :
       /\ fresh # {}
       /\ stale \subseteq fresh
       /\ strategy' = [strategy EXCEPT ![c] = [s \in Strategies |->
            IF s \in fresh THEN "candidate" ELSE IF s \in open THEN "rejected" ELSE @[s]]]
       /\ unavailable' = [unavailable EXCEPT ![c] = @ \union open \union stale]

OpenForDeviation(c) ==
  /\ caseStatus[c] = "none"
  /\ SetStatus(c, "options_ready")
  /\ Regenerate(c)
  /\ UNCHANGED <<selected, action, outcome>>

RefreshOptions(c) ==
  /\ caseStatus[c] \in {"assessing", "options_ready", "strategy_selected", "failed"}
  /\ SetStatus(c, "options_ready")
  /\ Regenerate(c)
  /\ UNCHANGED <<selected, action, outcome>>

-----------------------------------------------------------------------------
(* Selection and execution.                                                *)

\* Any strategy without an unavailable_reason, one that has failed included.
Selectable(c, s) ==
  /\ caseStatus[c] = "options_ready"
  /\ strategy[c][s] # "absent"
  /\ s \notin unavailable[c]

\* A strategy that was selected before has a decided action intent, which
\* fails the whole transaction.
NeverSelected(c, s) == \A i \in 1..Steps : action[c][s][i] = "absent"

\* Mutant: forgets to mark the strategy.
SelectUnmarked(c, s) ==
  /\ Selectable(c, s) /\ NeverSelected(c, s)
  /\ SetStatus(c, "strategy_selected")
  /\ selected' = [selected EXCEPT ![c] = s]
  /\ action' = [action EXCEPT ![c][s] = [i \in 1..Steps |-> "open"]]
  /\ UNCHANGED <<strategy, unavailable, outcome>>

SelectStrategy(c, s) ==
  /\ Selectable(c, s) /\ NeverSelected(c, s)
  /\ SetStatus(c, "strategy_selected")
  /\ selected' = [selected EXCEPT ![c] = s]
  /\ strategy' = [strategy EXCEPT ![c][s] = "selected"]
  /\ action' = [action EXCEPT ![c][s] = [i \in 1..Steps |-> "open"]]
  /\ UNCHANGED <<unavailable, outcome>>

\* The inputs have become stale since the option was generated; this is found
\* before the action intent is looked up.
SelectStale(c, s) ==
  /\ Selectable(c, s)
  /\ SetStatus(c, "assessing")
  /\ strategy' = [strategy EXCEPT ![c][s] = "candidate"]
  /\ unavailable' = [unavailable EXCEPT ![c] = @ \union {s}]
  /\ UNCHANGED <<selected, action, outcome>>

Start(c) ==
  /\ caseStatus[c] = "strategy_selected"
  /\ SetStatus(c, "executing")
  /\ UNCHANGED <<selected, strategy, unavailable, action, outcome>>

Abandon(c) ==
  /\ caseStatus[c] \notin {"none", "verified", "failed", "abandoned"}
  /\ SetStatus(c, "abandoned")
  /\ UNCHANGED <<selected, strategy, unavailable, action, outcome>>

-----------------------------------------------------------------------------
(* transition_action: "in_progress" stands for accepted and waiting too.   *)

StartAction(c, s, i) ==
  /\ action[c][s][i] = "open"
  /\ i > 1 => action[c][s][i - 1] = "completed"
  /\ action' = [action EXCEPT ![c][s][i] = "in_progress"]
  /\ UNCHANGED <<caseStatus, selected, strategy, unavailable, outcome>>

CancelAction(c, s, i) ==
  /\ action[c][s][i] \in {"open", "in_progress"}
  /\ action' = [action EXCEPT ![c][s][i] = "cancelled"]
  /\ UNCHANGED <<caseStatus, selected, strategy, unavailable, outcome>>

\* Mutant: begin_monitoring without its guard.
CompleteActionUnguarded(c, s, i) ==
  /\ action[c][s][i] = "in_progress"
  /\ action' = [action EXCEPT ![c][s][i] = "completed"]
  /\ \/ (\E j \in 1..Steps : j # i /\ action[c][s][j] # "completed") /\ UNCHANGED caseStatus
     \/ (\A j \in 1..Steps : j # i => action[c][s][j] = "completed") /\ SetStatus(c, "monitoring")
  /\ UNCHANGED <<selected, strategy, unavailable, outcome>>

\* The last action of its strategy calls begin_monitoring, which refuses (and
\* with it the completion) unless the case is being executed or monitored.
CompleteAction(c, s, i) ==
  /\ action[c][s][i] = "in_progress"
  /\ action' = [action EXCEPT ![c][s][i] = "completed"]
  /\ \/ (\E j \in 1..Steps : j # i /\ action[c][s][j] # "completed") /\ UNCHANGED caseStatus
     \/ /\ \A j \in 1..Steps : j # i => action[c][s][j] = "completed"
        /\ caseStatus[c] \in {"executing", "monitoring"}
        /\ SetStatus(c, "monitoring")
  /\ UNCHANGED <<selected, strategy, unavailable, outcome>>

\* Mutant: the strategy fails and its case is not told.
FailActionOnly(c, s, i) ==
  /\ action[c][s][i] = "in_progress"
  /\ action' = [action EXCEPT ![c][s][i] = "failed"]
  /\ strategy' = [strategy EXCEPT ![c][s] = "failed"]
  /\ UNCHANGED <<caseStatus, selected, unavailable, outcome>>

\* A failed action fails its strategy, and the case follows whatever its
\* status is: it is assessed again if another strategy is not used up.
FailAction(c, s, i) ==
  LET alternatives == {t \in Strategies \ ({s} \union unavailable[c]) :
        strategy[c][t] \notin {"absent", "failed", "rejected"}}
  IN
  /\ action[c][s][i] = "in_progress"
  /\ action' = [action EXCEPT ![c][s][i] = "failed"]
  /\ strategy' = [strategy EXCEPT ![c][s] = "failed"]
  /\ SetStatus(c, IF alternatives = {} THEN "failed" ELSE "assessing")
  /\ UNCHANGED <<selected, unavailable, outcome>>

-----------------------------------------------------------------------------
(* verify, for one case or for all of them                                 *)

\* An inconclusive observation records no outcome.
Conclusive(result) == result # "INCONCLUSIVE"

StatusAfter(result) ==
  CASE result = "INCONCLUSIVE" -> "monitoring"
    [] result = "NO_EFFECT" -> "failed"
    [] OTHER -> "verified"

StrategyAfter(s, result) ==
  CASE result = "INCONCLUSIVE" -> s
    [] result = "NO_EFFECT" -> "failed"
    [] OTHER -> "executed"

\* The cases of C are verified in one transaction.  It fails if one of them
\* has an outcome already: recovery_case_id is unique in recovery_outcomes.
VerifyAll(C, result) ==
  /\ \A c \in C : Conclusive(result[c]) => ~ outcome[c]
  /\ caseStatus' = [c \in Cases |-> IF c \in C THEN StatusAfter(result[c]) ELSE caseStatus[c]]
  /\ strategy' = [c \in Cases |-> [s \in Strategies |->
       IF c \in C /\ s = selected[c] THEN StrategyAfter(strategy[c][s], result[c])
       ELSE strategy[c][s]]]
  /\ outcome' = [c \in Cases |-> outcome[c] \/ (c \in C /\ Conclusive(result[c]))]
  /\ UNCHANGED <<selected, unavailable, action>>

\* Mutant: a conclusive observation leaves the strategy as it was.
VerifyAllKeepsStrategy(C, result) ==
  /\ \A c \in C : Conclusive(result[c]) => ~ outcome[c]
  /\ caseStatus' = [c \in Cases |-> IF c \in C THEN StatusAfter(result[c]) ELSE caseStatus[c]]
  /\ outcome' = [c \in Cases |-> outcome[c] \/ (c \in C /\ Conclusive(result[c]))]
  /\ UNCHANGED <<selected, unavailable, action, strategy>>

\* A user asks for the verification, of a case that is being executed too.
Verify(c) ==
  /\ caseStatus[c] \in {"executing", "monitoring"}
  /\ \E result \in [{c} -> Results] : VerifyAll({c}, result)

\* All actions of the selected strategy are completed.
WorkDone(c) == \A i \in 1..Steps : action[c][selected[c]][i] = "completed"

\* The worker verifies every monitored case, and every executed one whose
\* work is done, in one transaction.
ToReconcile ==
  {c \in Cases : caseStatus[c] = "monitoring" \/ (caseStatus[c] = "executing" /\ WorkDone(c))}

Reconcile ==
  /\ ToReconcile # {}
  /\ \E result \in [ToReconcile -> Results] : VerifyAll(ToReconcile, result)

-----------------------------------------------------------------------------

ActionStep(c, s, i) ==
  StartAction(c, s, i) \/ CancelAction(c, s, i) \/ CompleteAction(c, s, i) \/ FailAction(c, s, i)

CaseStep(c) ==
  \/ OpenForDeviation(c)
  \/ RefreshOptions(c)
  \/ \E s \in Strategies : SelectStrategy(c, s) \/ SelectStale(c, s)
  \/ Start(c)
  \/ Abandon(c)
  \/ Verify(c)
  \/ \E s \in Strategies, i \in 1..Steps : ActionStep(c, s, i)

RecoveryNext == (\E c \in Cases : CaseStep(c)) \/ Reconcile

RecoverySpec == RecoveryInit /\ [][RecoveryNext]_recoveryVars

\* Celery beat starts the reconciliation every minute; users owe nothing.
RecoveryFairSpec == RecoverySpec /\ WF_recoveryVars(Reconcile)

-----------------------------------------------------------------------------

RecoveryTypeOK ==
  /\ caseStatus \in [Cases -> {"none", "assessing", "options_ready", "strategy_selected",
       "executing", "monitoring", "verified", "failed", "abandoned"}]
  /\ selected \in [Cases -> Strategies \union {NoStrategy}]
  /\ strategy \in [Cases -> [Strategies -> {"absent", "candidate", "rejected",
       "selected", "failed", "executed"}]]
  /\ unavailable \in [Cases -> SUBSET Strategies]
  /\ action \in [Cases -> [Strategies -> [1..Steps ->
       {"absent", "open", "in_progress", "completed", "failed", "cancelled"}]]]
  /\ outcome \in [Cases -> BOOLEAN]

\* A case that is selected, executed or monitored has a selected strategy that
\* has not failed meanwhile, and a verified one has executed it: a failing
\* action takes its case out of execution (recovery/service.py:156-160, 299-302
\* and operations/service.py:1519-1526).
BehindStatus(c) ==
  /\ caseStatus[c] \in {"strategy_selected", "executing", "monitoring"} =>
       selected[c] # NoStrategy /\ strategy[c][selected[c]] = "selected"
  /\ caseStatus[c] = "verified" =>
       selected[c] # NoStrategy /\ strategy[c][selected[c]] = "executed" /\ outcome[c]

StrategyBehindStatus == \A c \in Cases : BehindStatus(c)

\* The work on a strategy is done in sequence: an action that has been started
\* follows completed ones, also after the case has moved on to another
\* strategy (operations/service.py:1475-1483).
WorkInSequence ==
  \A c \in Cases, s \in Strategies, i \in 1..Steps :
    action[c][s][i] \in {"in_progress", "completed", "failed"} =>
      \A j \in 1..(i - 1) : action[c][s][j] = "completed"

\* A case that has lost its strategy, or was never given one, is executed,
\* monitored or verified only after a new selection, whatever actions of
\* earlier strategies are still completed (service.py:256-258, 266, 273).
NoExecutionWithoutSelection ==
  [][\A c \in Cases :
       caseStatus[c] \in {"none", "assessing", "options_ready", "failed", "abandoned"} =>
         caseStatus'[c] \notin {"executing", "monitoring", "verified"}]_recoveryVars

\* operations/recovery/service.py:19 lists verified among the terminal statuses
\* and :92-93 and :357 refuse to leave it: no operation does.
VerifiedIsFinal ==
  [][\A c \in Cases : caseStatus[c] = "verified" => caseStatus'[c] = "verified"]_recoveryVars

\* V2_1_RECOVERY_IMPLEMENTATION.md:30: completing the tasks that the selected
\* strategy expanded into starts the monitoring.
MonitoringFollowsSelectedWork ==
  [][\A c \in Cases :
       caseStatus[c] = "executing" /\ caseStatus'[c] = "monitoring" /\ action' # action =>
         WorkDone(c)']_recoveryVars

\* V2_1_RECOVERY_IMPLEMENTATION.md:70: the worker verifies the observed outcome
\* of a monitored case, here one that has none recorded yet, so that nothing
\* about the case itself stands in the way.
MonitoredIsSettled ==
  \A c \in Cases :
    caseStatus[c] = "monitoring" /\ ~ outcome[c] ~> caseStatus[c] # "monitoring"

=============================================================================
