------------------------ MODULE MaterialCaseProofs -------------------------
(***************************************************************************)
(* The evidence of a material case, for any number of runs and any number  *)
(* of required observations: a run is observed once, for what it has       *)
(* calculated, and a closed case has recovered on what was observed, not   *)
(* only at the moment it was closed.                                       *)
(***************************************************************************)
EXTENDS MaterialCase, TLAPS

\* An observation says what its run has calculated, and the inputs of that run
\* will not be captured again.
TrueEvidence ==
  \A i \in DOMAIN observations :
    /\ run[observations[i].run] # "none"
    /\ observations[i] = ObservationOf(observations[i].run)

\* A closed case is recovered by the observations it has now.
ClosedIsRecovered == status = "closed" => Recovered(observations)

Inv == TypeOK /\ ObservedOnce /\ TrueEvidence /\ ClosedIsRecovered

-----------------------------------------------------------------------------
(* Lemmas about the operators.                                             *)

\* What a run leaves behind is an observation.
LEMMA ObservationType ==
  ASSUME TypeOK, NEW r \in Runs
  PROVE  ObservationOf(r) \in Observation /\ ObservationOf(r).run = r
BY DEF ObservationOf, Observation, Satisfied

\* Adding one keeps the others where they are.
LEMMA Appended ==
  ASSUME NEW obs \in Seq(Observation), NEW o \in Observation
  PROVE  /\ Append(obs, o) \in Seq(Observation)
         /\ Append(obs, o) # <<>>
         /\ DOMAIN Append(obs, o) = DOMAIN obs \union {Len(obs) + 1}
         /\ \A i \in DOMAIN obs : Append(obs, o)[i] = obs[i]
         /\ Append(obs, o)[Len(obs) + 1] = o
         /\ Len(obs) + 1 \notin DOMAIN obs
OBVIOUS

\* A verification closes a case exactly on observations that recover it.
LEMMA ClosesOnRecovery ==
  ASSUME NEW s \in {"none", "open", "active", "monitoring", "closed"}, NEW obs
  PROVE  /\ StatusAfter(s, obs) = "closed" <=> Recovered(obs)
         /\ StatusAfter(s, obs) \in {"none", "open", "active", "monitoring", "closed"}
         /\ RecoveryAfter(obs) \in {"MONITORING", "NOT_RECOVERED", "RECOVERED"}
         /\ s # "none" => StatusAfter(s, obs) # "none"
BY DEF StatusAfter, RecoveryAfter

\* Reconciling keeps the types, and a case that exists.
LEMMA ReconciledType ==
  ASSUME TypeOK, NEW r \in Runs
  PROVE  /\ Reconciled(r).risk \in {"none", "active", "resolved", "dismissed"}
         /\ Reconciled(r).status \in {"none", "open", "active", "monitoring", "closed"}
         /\ Reconciled(r).recovery \in {"PENDING", "MONITORING", "NOT_RECOVERED", "RECOVERED"}
         /\ Reconciled(r).status = "closed" => status = "closed"
         /\ Reconciled(r).status = "none" =>
              status = "none" /\ Reconciled(r).risk = risk /\ ~Risky(result[r])
BY DEF TypeOK, Reconciled, Risky

-----------------------------------------------------------------------------
(* The execution of a run.                                                 *)

\* The run leaves an observation, or it leaves the observations alone.
Observed(r) ==
  /\ NotObserved(r)
  /\ status \in {"open", "active", "monitoring", "closed"}
  /\ observations' = Append(observations, ObservationOf(r))
  /\ status' = StatusAfter(Reconciled(r).status, observations')
  /\ recovery' = RecoveryAfter(observations')

Unobserved(r) ==
  /\ UNCHANGED observations
  /\ status' = Reconciled(r).status
  /\ recovery' = Reconciled(r).recovery

LEMMA ExecuteCases ==
  ASSUME TypeOK, NEW r \in Runs, ExecuteRun(r)
  PROVE  /\ Observed(r) \/ Unobserved(r)
         /\ run' = [run EXCEPT ![r] = "completed"]
         /\ risk' = Reconciled(r).risk
         /\ UNCHANGED result
<1>1. PICK flushed \in BOOLEAN :
        LET obs == Append(observations, ObservationOf(r))
        IN /\ risk' = Reconciled(r).risk
           /\ IF Observes(r, flushed)
              THEN /\ observations' = obs
                   /\ status' = StatusAfter(Reconciled(r).status, obs)
                   /\ recovery' = RecoveryAfter(obs)
              ELSE /\ status' = Reconciled(r).status
                   /\ recovery' = Reconciled(r).recovery
                   /\ UNCHANGED observations
  BY DEF ExecuteRun
<1>2. CASE Observes(r, flushed)
  <2>1. status \in {"open", "active", "monitoring", "closed"}
    BY <1>2 DEF Observes, Seen, TypeOK
  <2> QED
    BY <1>1, <1>2, <2>1 DEF Observes, Observed, ExecuteRun
<1>3. CASE ~Observes(r, flushed)
  BY <1>1, <1>3 DEF Unobserved, ExecuteRun
<1> QED
  BY <1>2, <1>3

LEMMA ExecuteTypes ==
  ASSUME TypeOK, NEW r \in Runs, ExecuteRun(r)
  PROVE  TypeOK'
<1>1. /\ Observed(r) \/ Unobserved(r)
      /\ run' = [run EXCEPT ![r] = "completed"]
      /\ risk' = Reconciled(r).risk
      /\ UNCHANGED result
  BY ExecuteCases
<1>2. run' \in [Runs -> {"none", "queued", "completed", "failed"}] /\ result' \in [Runs -> Results]
  BY <1>1 DEF TypeOK
<1>3. risk' \in {"none", "active", "resolved", "dismissed"}
  BY <1>1, ReconciledType
<1>4. observations' \in Seq(Observation)
  BY <1>1, ObservationType, Appended DEF TypeOK, Observed, Unobserved
<1>5. /\ status' \in {"none", "open", "active", "monitoring", "closed"}
      /\ recovery' \in {"PENDING", "MONITORING", "NOT_RECOVERED", "RECOVERED"}
  BY <1>1, ReconciledType, ClosesOnRecovery DEF Observed, Unobserved
<1>6. decision' \in [Runs -> {"none", "PENDING", "SELECTED"}]
  BY DEF ExecuteRun, SynchronizeDecisions, TypeOK
<1>7. clean' \subseteq Runs
  <2>1. clean' \in {clean, clean \union {r}, {}}
    BY DEF ExecuteRun
  <2> QED
    BY <2>1 DEF TypeOK
<1>8. ASSUME status' = "none"
      PROVE  risk' = "none" /\ observations' = <<>> /\ \A q \in Runs : decision'[q] = "none"
  <2>1. Unobserved(r)
    BY <1>1, <1>8, ReconciledType, ClosesOnRecovery DEF Observed, Reconciled
  <2>2. status = "none" /\ Reconciled(r).risk = risk /\ ~Risky(result[r])
    BY <2>1, <1>8, ReconciledType DEF Unobserved
  <2>3. UNCHANGED decision
    BY <2>2 DEF ExecuteRun, SynchronizeDecisions
  <2> QED
    BY <1>1, <2>1, <2>2, <2>3 DEF Unobserved, TypeOK
<1> QED
  BY <1>2, <1>3, <1>4, <1>5, <1>6, <1>7, <1>8 DEF TypeOK

LEMMA ExecuteEvidence ==
  ASSUME Inv, NEW r \in Runs, ExecuteRun(r)
  PROVE  ObservedOnce' /\ TrueEvidence' /\ ClosedIsRecovered'
<1> DEFINE o == ObservationOf(r)
<1>1. /\ Observed(r) \/ Unobserved(r)
      /\ run' = [run EXCEPT ![r] = "completed"]
      /\ UNCHANGED result
  BY ExecuteCases DEF Inv
<1>2. o \in Observation /\ o.run = r /\ o' = o
  BY <1>1, ObservationType DEF Inv, ObservationOf
<1>3. \A i \in DOMAIN observations : run'[observations[i].run] # "none"
                                   /\ observations[i] = ObservationOf(observations[i].run)
  <2> TAKE i \in DOMAIN observations
  <2>1. observations[i] \in Observation
    BY DEF Inv, TypeOK
  <2>2. observations[i].run \in Runs
    BY <2>1 DEF Observation
  <2>3. run[observations[i].run] # "none" /\ observations[i] = ObservationOf(observations[i].run)
    BY DEF Inv, TrueEvidence
  <2>4. run'[observations[i].run] # "none"
    BY <1>1, <2>2, <2>3 DEF Inv, TypeOK
  <2> QED
    BY <2>3, <2>4
<1>4. CASE Unobserved(r)
  <2>1. ObservedOnce' /\ ClosedIsRecovered'
    BY <1>4, ReconciledType DEF Inv, Unobserved, ObservedOnce, ClosedIsRecovered
  <2>2. TrueEvidence'
    BY <1>1, <1>3, <1>4 DEF Unobserved, TrueEvidence, ObservationOf
  <2> QED
    BY <2>1, <2>2
<1>5. CASE Observed(r)
  <2>1. /\ DOMAIN observations' = DOMAIN observations \union {Len(observations) + 1}
        /\ \A i \in DOMAIN observations : observations'[i] = observations[i]
        /\ observations'[Len(observations) + 1] = o
        /\ Len(observations) + 1 \notin DOMAIN observations
    BY <1>2, <1>5, Appended DEF Inv, TypeOK, Observed
  <2>2. \A i \in DOMAIN observations : observations[i].run # r
    BY <1>5 DEF Observed, NotObserved
  <2>3. ObservedOnce'
    BY <1>2, <2>1, <2>2 DEF Inv, ObservedOnce
  <2>4. TrueEvidence'
    <3>1. run'[r] # "none"
      BY <1>1 DEF Inv, TypeOK
    <3>2. \A i \in DOMAIN observations' :
            run'[observations'[i].run] # "none" /\ observations'[i] = ObservationOf(observations'[i].run)
      BY <1>2, <1>3, <2>1, <3>1
    <3> QED
      BY <1>1, <3>2 DEF TrueEvidence, ObservationOf
  <2>5. ClosedIsRecovered'
    BY <1>5, ReconciledType, ClosesOnRecovery DEF Inv, Observed, ClosedIsRecovered
  <2> QED
    BY <2>3, <2>4, <2>5
<1> QED
  BY <1>1, <1>4, <1>5

-----------------------------------------------------------------------------
(* The other steps.                                                        *)

\* A verification changes the status of the case and nothing it rests on.
LEMMA VerifyStep ==
  ASSUME Inv, VerifyCase
  PROVE  Inv'
<1>1. TypeOK'
  BY ClosesOnRecovery DEF Inv, TypeOK, VerifyCase
<1>2. ObservedOnce' /\ TrueEvidence'
  BY DEF Inv, VerifyCase, ObservedOnce, TrueEvidence, ObservationOf
<1>3. ClosedIsRecovered'
  BY ClosesOnRecovery DEF Inv, TypeOK, VerifyCase, ClosedIsRecovered
<1> QED
  BY <1>1, <1>2, <1>3 DEF Inv

\* Only a run that was not queued before gets a result: no observation is about it.
LEMMA CreateStep ==
  ASSUME Inv, NEW r \in Runs, NEW calculated \in Results, CreateRun(r, calculated)
  PROVE  Inv'
<1>1. TypeOK'
  BY DEF Inv, TypeOK, CreateRun
<1>2. ObservedOnce' /\ ClosedIsRecovered'
  BY DEF Inv, CreateRun, ObservedOnce, ClosedIsRecovered
<1>3. TrueEvidence'
  <2> SUFFICES ASSUME NEW i \in DOMAIN observations
               PROVE  /\ run'[observations[i].run] # "none"
                      /\ observations[i] = [run |-> observations[i].run,
                                            fresh |-> result'[observations[i].run] # "stale",
                                            satisfied |-> Satisfied(result'[observations[i].run])]
    BY DEF CreateRun, TrueEvidence, ObservationOf
  <2>1. observations[i] \in Observation
    BY DEF Inv, TypeOK
  <2>2. observations[i].run \in Runs
    BY <2>1 DEF Observation
  <2>3. run[observations[i].run] # "none" /\ observations[i] = ObservationOf(observations[i].run)
    BY DEF Inv, TrueEvidence
  <2>4. observations[i].run # r
    BY <2>3 DEF CreateRun
  <2>5. /\ run'[observations[i].run] = run[observations[i].run]
        /\ result'[observations[i].run] = result[observations[i].run]
    BY <2>2, <2>4 DEF CreateRun, Inv, TypeOK
  <2> QED
    BY <2>3, <2>5 DEF ObservationOf
<1> QED
  BY <1>1, <1>2, <1>3 DEF Inv

LEMMA FailStep ==
  ASSUME Inv, NEW r \in Runs, FailRun(r)
  PROVE  Inv'
<1>1. TypeOK'
  BY DEF Inv, TypeOK, FailRun
<1>2. ObservedOnce' /\ ClosedIsRecovered'
  BY DEF Inv, FailRun, ObservedOnce, ClosedIsRecovered
<1>3. TrueEvidence'
  BY DEF Inv, TypeOK, FailRun, TrueEvidence, ObservationOf
<1> QED
  BY <1>1, <1>2, <1>3 DEF Inv

\* What users do to a case or a risk does not close it.
LEMMA UserStep ==
  ASSUME Inv,
         \/ \E r \in Runs : SelectAlternative(r)
         \/ \E new \in {"active", "dismissed"} : UpdateRiskStatus(new)
  PROVE  Inv'
<1>1. CASE \E r \in Runs : SelectAlternative(r)
  <2>1. TypeOK'
    BY <1>1 DEF Inv, TypeOK, SelectAlternative
  <2>2. ObservedOnce' /\ TrueEvidence' /\ ClosedIsRecovered'
    BY <1>1 DEF Inv, SelectAlternative, ObservedOnce, TrueEvidence, ObservationOf, ClosedIsRecovered
  <2> QED
    BY <2>1, <2>2 DEF Inv
<1>2. CASE \E new \in {"active", "dismissed"} : UpdateRiskStatus(new)
  <2>1. status # "none"
    BY <1>2 DEF Inv, TypeOK, UpdateRiskStatus
  <2>2. TypeOK'
    BY <1>2, <2>1 DEF Inv, TypeOK, UpdateRiskStatus
  <2>3. ObservedOnce' /\ TrueEvidence' /\ ClosedIsRecovered'
    BY <1>2 DEF Inv, UpdateRiskStatus, ObservedOnce, TrueEvidence, ObservationOf, ClosedIsRecovered
  <2> QED
    BY <2>2, <2>3 DEF Inv
<1> QED
  BY <1>1, <1>2

-----------------------------------------------------------------------------
(* The theorems.                                                           *)

\* Observations are about different runs and say what these calculated, and a
\* closed case is recovered by them (risks.py:275-330, case_service.py:188-225).
THEOREM EvidenceInvariant == Spec => []Inv
<1>1. Init => Inv
  BY DEF Init, Inv, TypeOK, ObservedOnce, TrueEvidence, ClosedIsRecovered, Results
<1>2. ASSUME Inv, [Next]_vars
      PROVE  Inv'
  <2>1. ASSUME NEW r \in Runs, NEW calculated \in Results, CreateRun(r, calculated)
        PROVE  Inv'
    BY <1>2, <2>1, CreateStep
  <2>2. ASSUME NEW r \in Runs, ExecuteRun(r)
        PROVE  Inv'
    BY <1>2, <2>2, ExecuteTypes, ExecuteEvidence DEF Inv
  <2>3. ASSUME NEW r \in Runs, FailRun(r)
        PROVE  Inv'
    BY <1>2, <2>3, FailStep
  <2>4. CASE \/ \E r \in Runs : SelectAlternative(r)
             \/ \E new \in {"active", "dismissed"} : UpdateRiskStatus(new)
    BY <1>2, <2>4, UserStep
  <2>5. CASE Verify \/ Monitor
    BY <1>2, <2>5, VerifyStep DEF Verify, Monitor
  <2>6. CASE UNCHANGED vars
    BY <1>2, <2>6 DEF vars, Inv, TypeOK, ObservedOnce, TrueEvidence, ClosedIsRecovered, ObservationOf
  <2> QED
    BY <1>2, <2>1, <2>2, <2>3, <2>4, <2>5, <2>6 DEF Next
<1> QED
  BY <1>1, <1>2, PTL DEF Spec

\* Every variable keeps its type, for any number of runs.
THEOREM MaterialTypes == Spec => []TypeOK
BY EvidenceInvariant, PTL DEF Inv

\* However often a run fails and is executed again, it is one observation of
\* the case (risks.py:301-303).
THEOREM ObservedAtMostOnce == Spec => []ObservedOnce
BY EvidenceInvariant, PTL DEF Inv

\* The evidence behind a closed case is never lost while it is closed: the
\* verification would close it again (case_service.py:222-225).
THEOREM ClosedStaysRecovered == Spec => []ClosedIsRecovered
BY EvidenceInvariant, PTL DEF Inv

\* What a closed case rests on: enough runs that covered the material, with
\* every observed shortage before them (case_service.py:197-222).
THEOREM ClosedRestsOnRuns == Spec => []ClosedOnEvidence
<1>1. ASSUME Inv, status = "closed"
      PROVE  \E witnesses \in SUBSET Runs :
               /\ Cardinality(witnesses) >= Required
               /\ \A r \in witnesses : /\ result[r] \in {"zero", "covered"}
                                      /\ \E i \in DOMAIN observations : observations[i].run = r
               /\ \A i, j \in DOMAIN observations :
                    result[observations[i].run] = "short" /\ observations[j].run \in witnesses => i < j
  <2>1. PICK i \in DOMAIN observations :
          /\ \A j \in FreshFrom(observations, i) : observations[j].satisfied
          /\ Cardinality({observations[j].run : j \in FreshFrom(observations, i)}) >= Required
    BY <1>1 DEF Inv, ClosedIsRecovered, Recovered
  <2> DEFINE last == FreshFrom(observations, i)
             witnesses == {observations[j].run : j \in last}
  <2>2. \A j \in DOMAIN observations : observations[j] \in Observation
    BY <1>1 DEF Inv, TypeOK
  <2>3. ASSUME NEW j \in DOMAIN observations
        PROVE  /\ observations[j].run \in Runs
               /\ observations[j].fresh = (result[observations[j].run] # "stale")
               /\ observations[j].satisfied = Satisfied(result[observations[j].run])
    <3>1. observations[j].run \in Runs
      BY <2>2 DEF Observation
    <3> QED  BY <1>1, <3>1 DEF Inv, TrueEvidence, ObservationOf
  <2>4. Len(observations) \in Nat /\ DOMAIN observations = 1..Len(observations)
    BY <1>1 DEF Inv, TypeOK
  <2>5. last = {j \in DOMAIN observations : i <= j /\ observations[j].fresh}
    BY <2>1, <2>4 DEF FreshFrom
  <2> HIDE DEF last
  <2>6. witnesses \in SUBSET Runs /\ Cardinality(witnesses) >= Required
    BY <2>1, <2>3, <2>5 DEF last
  <2>7. ASSUME NEW r \in witnesses
        PROVE  /\ result[r] \in {"zero", "covered"}
               /\ \E j \in DOMAIN observations : observations[j].run = r
    BY <2>1, <2>3, <2>5 DEF last, Satisfied
  <2>8. ASSUME NEW p \in DOMAIN observations, NEW q \in DOMAIN observations,
               result[observations[p].run] = "short", observations[q].run \in witnesses
        PROVE  p < q
    <3>1. PICK j \in last : observations[j].run = observations[q].run
      BY <2>8
    <3>2. q = j
      BY <1>1, <2>5, <3>1 DEF Inv, ObservedOnce
    <3>3. p \notin last
      BY <2>1, <2>3, <2>5, <2>8 DEF last, Satisfied
    <3>4. ~ (i <= p)
      BY <2>3, <2>5, <2>8, <3>3
    <3> QED  BY <2>4, <2>5, <3>2, <3>4
  <2> HIDE DEF witnesses
  <2> QED  BY <2>6, <2>7, <2>8
<1> QED  BY <1>1, EvidenceInvariant, PTL DEF ClosedOnEvidence

\* Observations are only added, one by a run that completes, for what that run
\* calculated (risks.py:304-330).
THEOREM EvidenceIsAppended == Spec => EvidenceGrows
<1>1. ASSUME Inv, [Next]_vars
      PROVE  [observations' # observations =>
                \E r \in Runs :
                  /\ run[r] # "completed" /\ run'[r] = "completed"
                  /\ observations' = Append(observations,
                       [run |-> r, fresh |-> result[r] # "stale",
                        satisfied |-> Satisfied(result[r])])]_vars
  <2> SUFFICES ASSUME observations' # observations
               PROVE  \E r \in Runs :
                        /\ run[r] # "completed" /\ run'[r] = "completed"
                        /\ observations' = Append(observations, ObservationOf(r))
    BY DEF ObservationOf
  <2>1. PICK r \in Runs : ExecuteRun(r)
    BY <1>1 DEF Next, vars, CreateRun, FailRun, SelectAlternative, UpdateRiskStatus, Verify,
                Monitor, VerifyCase
  <2>2. Observed(r) /\ run' = [run EXCEPT ![r] = "completed"]
    BY <1>1, <2>1, ExecuteCases DEF Inv, Unobserved
  <2>3. run[r] # "completed" /\ run'[r] = "completed"
    BY <1>1, <2>1, <2>2 DEF ExecuteRun, Inv, TypeOK
  <2> QED
    BY <2>2, <2>3 DEF Observed
<1> QED
  BY <1>1, EvidenceInvariant, PTL DEF Spec, EvidenceGrows

=============================================================================
