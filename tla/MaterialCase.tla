---------------------------- MODULE MaterialCase ----------------------------
(***************************************************************************)
(* The shortage of one material: the risk that planning runs find and      *)
(* resolve, the shared case that is opened for it, and the verification    *)
(* that the case has recovered.                                            *)
(*                                                                         *)
(* A run is planned against the inputs captured when it was queued, so     *)
(* runs are executed in any order.  Every completed run leaves at most one *)
(* observation on the case, and a case is closed by the last Required      *)
(* fresh ones, in the run itself, by a user, or by the monitor.  The rows  *)
(* of risk and case carry versions: an operation is a single step.         *)
(***************************************************************************)
EXTENDS Integers, Sequences, FiniteSets

CONSTANTS
  Runs,           \* bound: the planning runs there will be
  ScenarioRuns,   \* those of a WHAT_IF scenario
  Required        \* required_observation_count of the recovery target

ASSUME MaterialAssumption ==
  /\ IsFiniteSet(Runs)
  /\ ScenarioRuns \subseteq Runs
  /\ Required \in Nat \ {0}

\* What a run calculates for the material: days that end below the safety
\* stock, days that end at zero without one, neither, or nothing that can be
\* trusted.  Zero is a stockout and a shortage window, but no missing quantity.
Results == {"short", "zero", "covered", "stale"}
Risky(result) == result \in {"short", "zero"}
Satisfied(result) == result \in {"zero", "covered"}

VARIABLES
  run,          \* scm_planning_runs.status, "none" without a row
  result,       \* what the snapshot of each run amounts to
  risk,         \* scm_material_risks.status; "active" is every open status
  status,       \* platform_operational_cases.status, "none" without a row
  recovery,     \* platform_operational_cases.recovery_state
  observations, \* platform_recovery_observations in order of observed_at
  decision      \* platform_decision_records.decision per run, "none" without

\* Not in the database: the runs that covered the material since the last
\* fresh one that did not.
VARIABLE clean

vars == <<run, result, risk, status, recovery, observations, decision, clean>>

Init ==
  /\ run = [r \in Runs |-> "none"]
  /\ result = [r \in Runs |-> "stale"]
  /\ risk = "none"
  /\ status = "none"
  /\ recovery = "PENDING"
  /\ observations = <<>>
  /\ decision = [r \in Runs |-> "none"]
  /\ clean = {}

-----------------------------------------------------------------------------
(* Verification.                                                           *)

\* The places of the fresh observations from place i on.
FreshFrom(obs, i) == {j \in i..Len(obs) : obs[j].fresh}

\* Mutant: counts the satisfied ones and overlooks the others.
RecoveredByCount(obs) ==
  Cardinality({obs[j].run : j \in {k \in FreshFrom(obs, 1) : obs[k].satisfied}}) >= Required

\* Going back from the newest fresh observation, enough runs satisfy the
\* target before one does not.
Recovered(obs) ==
  \E i \in DOMAIN obs :
    /\ \A j \in FreshFrom(obs, i) : obs[j].satisfied
    /\ Cardinality({obs[j].run : j \in FreshFrom(obs, i)}) >= Required

Violated(obs) ==
  ~Recovered(obs) /\ \E i \in DOMAIN obs : obs[i].fresh /\ ~obs[i].satisfied

\* Status and recovery state after a verification of a case in status s.
StatusAfter(s, obs) ==
  IF Recovered(obs) THEN "closed" ELSE IF s = "closed" THEN "monitoring" ELSE s

RecoveryAfter(obs) ==
  IF Recovered(obs) THEN "RECOVERED" ELSE IF Violated(obs) THEN "NOT_RECOVERED" ELSE "MONITORING"

VerifyCase ==
  /\ status # "none"
  /\ status' = StatusAfter(status, observations)
  /\ recovery' = RecoveryAfter(observations)
  /\ UNCHANGED <<run, result, risk, observations, decision, clean>>

\* Mutant: only looks at cases nobody has verified yet.
MonitoredPending == recovery = "PENDING"

\* Every 300 seconds, for the cases that are still under observation.
Monitored == recovery \in {"PENDING", "MONITORING"}

Monitor == Monitored /\ VerifyCase

\* A user asks for it at any time.
Verify == VerifyCase

-----------------------------------------------------------------------------
(* Planning runs.                                                          *)

\* The inputs are captured when the run is queued.
CreateRun(r, calculated) ==
  /\ run[r] = "none"
  /\ run' = [run EXCEPT ![r] = "queued"]
  /\ result' = [result EXCEPT ![r] = calculated]
  /\ UNCHANGED <<risk, status, recovery, observations, decision, clean>>

\* The risk, and the case before it is verified: opened or reopened by a risky
\* run, put under observation by the first run that no longer finds the risk.
Reconciled(r) ==
  CASE Risky(result[r]) ->
         [risk     |-> IF risk \in {"none", "resolved"} THEN "active" ELSE risk,
          status   |-> "open",
          recovery |-> recovery]
    [] ~Risky(result[r]) /\ risk = "active" ->
         [risk |-> "resolved", status |-> "monitoring", recovery |-> "MONITORING"]
    [] OTHER ->
         [risk |-> risk, status |-> status, recovery |-> recovery]

\* The session does not flush before a query.  The observation is recorded for
\* a case that the database, not the session, shows as not closed; only when
\* the run opens the risk or the case of another material afterwards has the
\* new status been written.
Seen(r, flushed) ==
  IF Risky(result[r]) /\ flushed /\ status # "none" THEN "open" ELSE status

\* Mutant: forgets that the run may have been observed before.
ObservedAgain(r) == TRUE

NotObserved(r) == \A i \in DOMAIN observations : observations[i].run # r

Observes(r, flushed) ==
  /\ Seen(r, flushed) \in {"active", "monitoring", "open"}
  /\ NotObserved(r)

ObservationOf(r) ==
  [run |-> r, fresh |-> result[r] # "stale", satisfied |-> Satisfied(result[r])]

\* A run with recommendations leaves one decision to take on the case.
SynchronizeDecisions(r) ==
  \/ /\ Risky(result[r])
     /\ decision[r] = "none"
     /\ decision' = [decision EXCEPT ![r] = "PENDING"]
  \/ UNCHANGED decision

ExecuteRun(r) ==
  /\ run[r] \in {"queued", "failed"}
  /\ run' = [run EXCEPT ![r] = "completed"]
  /\ \E flushed \in BOOLEAN :
       LET case == Reconciled(r)
           obs  == Append(observations, ObservationOf(r))
       IN /\ risk' = case.risk
          /\ IF Observes(r, flushed)
             THEN /\ observations' = obs
                  /\ status' = StatusAfter(case.status, obs)
                  /\ recovery' = RecoveryAfter(obs)
             ELSE /\ status' = case.status
                  /\ recovery' = case.recovery
                  /\ UNCHANGED observations
  /\ SynchronizeDecisions(r)
  /\ clean' = CASE result[r] = "stale" -> clean
                [] Satisfied(result[r]) -> clean \union {r}
                [] OTHER -> {}
  /\ UNCHANGED result

\* A failed attempt, which may follow a completion (see PlanningRuns), marks
\* the run as failed; it is executed again.
FailRun(r) ==
  /\ run[r] \in {"queued", "completed"}
  /\ run' = [run EXCEPT ![r] = "failed"]
  /\ UNCHANGED <<result, risk, status, recovery, observations, decision, clean>>

-----------------------------------------------------------------------------
(* Users.                                                                  *)

\* The newest decision to take is taken once, on a case in any status; which
\* run it belongs to makes no difference to the case.
SelectAlternative(r) ==
  /\ decision[r] = "PENDING"
  /\ decision' = [decision EXCEPT ![r] = "SELECTED"]
  /\ status' = "active"
  /\ recovery' = "PENDING"
  /\ UNCHANGED <<run, result, risk, observations, clean>>

\* Any status but NEW and RESOLVED, from any status.
UpdateRiskStatus(new) ==
  /\ risk # "none"
  /\ risk' = new
  /\ UNCHANGED <<run, result, status, recovery, observations, decision, clean>>

Next ==
  \/ \E r \in Runs, c \in Results : CreateRun(r, c)
  \/ \E r \in Runs : ExecuteRun(r) \/ FailRun(r) \/ SelectAlternative(r)
  \/ \E new \in {"active", "dismissed"} : UpdateRiskStatus(new)
  \/ Verify
  \/ Monitor

Spec == Init /\ [][Next]_vars

\* The monitor is started by the beat scheduler every 300 seconds.  Nobody
\* has to queue, select or ask for anything.
FairSpec == Spec /\ WF_vars(Monitor)

-----------------------------------------------------------------------------
(* Properties.                                                             *)

Observation == [run : Runs, fresh : BOOLEAN, satisfied : BOOLEAN]

\* Types; there is a case as soon as there is a risk, an observation or a
\* decision.
TypeOK ==
  /\ run \in [Runs -> {"none", "queued", "completed", "failed"}]
  /\ result \in [Runs -> Results]
  /\ risk \in {"none", "active", "resolved", "dismissed"}
  /\ status \in {"none", "open", "active", "monitoring", "closed"}
  /\ recovery \in {"PENDING", "MONITORING", "NOT_RECOVERED", "RECOVERED"}
  /\ observations \in Seq(Observation)
  /\ decision \in [Runs -> {"none", "PENDING", "SELECTED"}]
  /\ clean \subseteq Runs
  /\ status = "none" => risk = "none" /\ observations = <<>> /\ \A r \in Runs : decision[r] = "none"

\* A closed case has been recovered: as many different runs as the target asks
\* for have covered the material, and every run that was observed to be short
\* was observed before all of them (verify_recovery), whoever verifies and
\* however often runs are repeated.
ClosedOnEvidence ==
  status = "closed" =>
    \E witnesses \in SUBSET Runs :
      /\ Cardinality(witnesses) >= Required
      /\ \A r \in witnesses : /\ result[r] \in {"zero", "covered"}
                             /\ \E i \in DOMAIN observations : observations[i].run = r
      /\ \A i, j \in DOMAIN observations :
           result[observations[i].run] = "short" /\ observations[j].run \in witnesses => i < j

\* A run is one observation of a case, also when it is executed again after
\* an attempt that failed (_record_recovery_observations).
ObservedOnce ==
  \A i, j \in DOMAIN observations : observations[i].run = observations[j].run => i = j

\* Evidence is only ever added: no step withdraws or rewrites an observation,
\* and one is added by a run that completes, for what that run calculated.
EvidenceGrows ==
  [][observations' # observations =>
       \E r \in Runs :
         /\ run[r] # "completed" /\ run'[r] = "completed"
         /\ observations' = Append(observations,
              [run |-> r, fresh |-> result[r] # "stale", satisfied |-> Satisfied(result[r])])]_vars

\* A case under observation whose evidence suffices is closed in the end, with
\* nobody asking for it (monitor_case_recovery).
RecoveryIsNoticed ==
  recovery \in {"PENDING", "MONITORING"} /\ status # "none" /\ Recovered(observations)
    ~> status = "closed" \/ ~Recovered(observations)

-----------------------------------------------------------------------------
(* What the documents promise and the code does not keep.                  *)

\* A closed case has been covered by Required fresh runs in a row: a run that
\* found the material short again starts the count anew.
StableRecovery == status = "closed" => Cardinality(clean) >= Required

\* Executing the run of a scenario leaves the risk and the case alone.
ScenarioIsIsolated ==
  [][\A r \in ScenarioRuns :
       run[r] # "completed" /\ run'[r] = "completed" =>
         UNCHANGED <<risk, status, recovery, observations>>]_vars

=============================================================================
