----------------------------- MODULE MCPlanning -----------------------------
(* Planning runs and what a run calculates, for TLC.  The two modules      *)
(* share no variable: a behaviour follows one of them, "focus".  Without a *)
(* run nothing is to be done by the dispatcher and the workers, so their   *)
(* fairness says nothing of the behaviours that follow a plan.             *)
EXTENDS PlanningRuns, PlanningEngine
VARIABLE focus

planningServiceVars == <<planningVars, vars, focus>>

Rule(safety, demandFirst, inclusive, stale) ==
  [safety |-> safety, demandFirst |-> demandFirst, inclusive |-> inclusive, stale |-> stale]

\* The default rules without and with a safety stock, each of them changed.
SomePolicies ==
  {Rule(0, TRUE, TRUE, FALSE), Rule(1, TRUE, TRUE, FALSE), Rule(1, FALSE, TRUE, FALSE),
   Rule(1, TRUE, FALSE, TRUE)}

SomeOpenings == {-1, 0, 2}

\* The plan that stands still while the runs are followed.
IdlePlan ==
  [opening |-> 0, policy |-> Rule(0, TRUE, TRUE, FALSE),
   demand |-> [d \in Days |-> 0], supply |-> [d \in Days |-> 0]]

PlanningServiceNext ==
  \/ focus = "runs" /\ PlanningNext /\ UNCHANGED <<vars, focus>>
  \/ focus = "plan" /\ Next /\ UNCHANGED <<planningVars, focus>>

PlanningServiceInit ==
  /\ PlanningInit /\ Init
  /\ focus \in {"runs", "plan"}
  /\ focus = "runs" => plan = IdlePlan

PlanningServiceSpec ==
  /\ PlanningServiceInit
  /\ [][PlanningServiceNext]_planningServiceVars
  /\ WF_planningVars(Dispatch)
  /\ \A w \in Workers : WF_planningVars(Step(w))
=============================================================================
