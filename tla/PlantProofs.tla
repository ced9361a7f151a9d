---------------------------- MODULE PlantProofs ----------------------------
(***************************************************************************)
(* Proofs about what the plant tells the platform and what becomes of it.  *)
(***************************************************************************)
EXTENDS SupplyPlan, ExchangeImport, InventoryFeed, ConnectorFeed, Deviations,
        PlantRecords, RecoveryCase, FiniteSetTheorems, TLAPS

-----------------------------------------------------------------------------
(***************************************************************************)
(* RecoveryCase, for any number of cases, of strategies and of actions per *)
(* strategy.                                                               *)
(*                                                                         *)
(* Types, BehindStatus and the sequence of work are inductive together.    *)
(* The argument for BehindStatus: a strategy leaves "selected" only by a   *)
(* failing action, a verification or stale inputs, and each of the three   *)
(* takes its case out of execution in the same transaction.                *)
(***************************************************************************)

StrategyStatuses == {"absent", "candidate", "rejected", "selected", "failed", "executed"}
ActionStatuses == {"absent", "open", "in_progress", "completed", "failed", "cancelled"}

Inv == RecoveryTypeOK /\ StrategyBehindStatus /\ WorkInSequence

-----------------------------------------------------------------------------
(* Typing.                                                                 *)

\* An update of one entry of a table of tables keeps its type.
LEMMA TableUpdate ==
  ASSUME NEW R, NEW C, NEW V, NEW t \in [R -> [C -> V]], NEW r \in R, NEW c \in C, NEW v \in V
  PROVE  [t EXCEPT ![r][c] = v] \in [R -> [C -> V]]
OBVIOUS

\* What an action step writes into the table of actions.
LEMMA ActionTyped ==
  ASSUME RecoveryTypeOK, NEW c \in Cases, NEW s \in Strategies, NEW i \in 1..Steps, NEW to \in ActionStatuses,
         action' = [action EXCEPT ![c][s][i] = to]
  PROVE  action' \in [Cases -> [Strategies -> [1..Steps -> ActionStatuses]]]
<1>1. action[c] \in [Strategies -> [1..Steps -> ActionStatuses]]
  BY DEF RecoveryTypeOK, ActionStatuses
<1>2. [action[c] EXCEPT ![s][i] = to] \in [Strategies -> [1..Steps -> ActionStatuses]]
  BY <1>1, TableUpdate
<1>3. action' = [action EXCEPT ![c] = [action[c] EXCEPT ![s][i] = to]]
  OBVIOUS
<1> QED
  BY <1>2, <1>3 DEF RecoveryTypeOK, ActionStatuses

\* Generating options keeps the types of what it writes.
LEMMA RegenerateTyped ==
  ASSUME RecoveryTypeOK, NEW c \in Cases, Regenerate(c)
  PROVE  /\ strategy' \in [Cases -> [Strategies -> StrategyStatuses]]
         /\ unavailable' \in [Cases -> SUBSET Strategies]
BY DEF RecoveryTypeOK, Regenerate, StrategyStatuses

\* A verification keeps the types of what it writes.
LEMMA VerifyTyped ==
  ASSUME RecoveryTypeOK, NEW C \in SUBSET Cases, NEW result, VerifyAll(C, result)
  PROVE  RecoveryTypeOK'
<1>1. \A c \in Cases : StatusAfter(result[c]) \in {"monitoring", "failed", "verified"}
  BY DEF StatusAfter
<1>2. caseStatus' \in [Cases -> {"none", "assessing", "options_ready", "strategy_selected",
                    "executing", "monitoring", "verified", "failed", "abandoned"}]
  BY <1>1 DEF VerifyAll, RecoveryTypeOK
<1>3. \A c \in Cases, s \in Strategies :
        StrategyAfter(strategy[c][s], result[c]) \in StrategyStatuses
  BY DEF StrategyAfter, RecoveryTypeOK, StrategyStatuses
<1>4. strategy' \in [Cases -> [Strategies -> StrategyStatuses]]
  BY <1>3 DEF VerifyAll, RecoveryTypeOK, StrategyStatuses
<1>5. outcome' \in [Cases -> BOOLEAN]
  BY DEF VerifyAll, RecoveryTypeOK
<1> QED
  BY <1>2, <1>4, <1>5 DEF VerifyAll, RecoveryTypeOK, StrategyStatuses

\* Every step keeps the types.
LEMMA TypeStep ==
  ASSUME RecoveryAssumption, RecoveryTypeOK, RecoveryNext
  PROVE  RecoveryTypeOK'
<1> USE DEF SetStatus
<1>1. ASSUME NEW c \in Cases, CaseStep(c)
      PROVE  RecoveryTypeOK'
  <2>1. CASE OpenForDeviation(c) \/ RefreshOptions(c)
    BY <1>1, <2>1, RegenerateTyped DEF RecoveryTypeOK, OpenForDeviation, RefreshOptions, StrategyStatuses
  <2>2. ASSUME NEW s \in Strategies, SelectStrategy(c, s)
        PROVE  RecoveryTypeOK'
    <3>1. strategy' \in [Cases -> [Strategies -> StrategyStatuses]]
      BY <2>2, TableUpdate DEF SelectStrategy, RecoveryTypeOK, StrategyStatuses
    <3>2. [i \in 1..Steps |-> "open"] \in [1..Steps -> ActionStatuses]
      BY DEF ActionStatuses
    <3>3. action' \in [Cases -> [Strategies -> [1..Steps -> ActionStatuses]]]
      BY <2>2, <3>2, TableUpdate DEF SelectStrategy, RecoveryTypeOK, ActionStatuses
    <3> QED
      BY <2>2, <3>1, <3>3 DEF SelectStrategy, RecoveryTypeOK, StrategyStatuses, ActionStatuses
  <2>3. ASSUME NEW s \in Strategies, SelectStale(c, s)
        PROVE  RecoveryTypeOK'
    <3>1. strategy' \in [Cases -> [Strategies -> StrategyStatuses]]
      BY <2>3, TableUpdate DEF SelectStale, RecoveryTypeOK, StrategyStatuses
    <3> QED
      BY <2>3, <3>1 DEF SelectStale, RecoveryTypeOK, StrategyStatuses
  <2>4. CASE Start(c) \/ Abandon(c)
    BY <2>4 DEF Start, Abandon, RecoveryTypeOK
  <2>5. CASE Verify(c)
    BY <2>5, VerifyTyped DEF Verify
  <2>6. ASSUME NEW s \in Strategies, NEW i \in 1..Steps, ActionStep(c, s, i)
        PROVE  RecoveryTypeOK'
    <3>1. CASE StartAction(c, s, i)
      BY <3>1, ActionTyped DEF StartAction, RecoveryTypeOK, ActionStatuses
    <3>2. CASE CancelAction(c, s, i)
      BY <3>2, ActionTyped DEF CancelAction, RecoveryTypeOK, ActionStatuses
    <3>3. CASE CompleteAction(c, s, i)
      BY <3>3, ActionTyped DEF CompleteAction, RecoveryTypeOK, ActionStatuses
    <3>4. CASE FailAction(c, s, i)
      <4>1. strategy' \in [Cases -> [Strategies -> StrategyStatuses]]
        BY <3>4, TableUpdate DEF FailAction, RecoveryTypeOK, StrategyStatuses
      <4>2. \E to \in {"failed", "assessing"} : caseStatus' = [caseStatus EXCEPT ![c] = to]
        BY <3>4 DEF FailAction
      <4> QED
        BY <3>4, <4>1, <4>2, ActionTyped DEF FailAction, RecoveryTypeOK, ActionStatuses, StrategyStatuses
    <3> QED
      BY <2>6, <3>1, <3>2, <3>3, <3>4 DEF ActionStep
  <2> QED
    BY <1>1, <2>1, <2>2, <2>3, <2>4, <2>5, <2>6 DEF CaseStep
<1>2. CASE Reconcile
  BY <1>2, VerifyTyped DEF Reconcile, ToReconcile
<1> QED
  BY <1>1, <1>2 DEF RecoveryNext

-----------------------------------------------------------------------------
(* The strategy behind the status of a case.                               *)

\* A verification concerns the selected strategies of the verified cases.
LEMMA VerifyBehind ==
  ASSUME RecoveryAssumption, Inv, NEW C \in SUBSET Cases, NEW result, VerifyAll(C, result),
         \A c \in C : caseStatus[c] \in {"executing", "monitoring"}
  PROVE  StrategyBehindStatus'
<1> SUFFICES ASSUME NEW c \in Cases PROVE BehindStatus(c)'
  BY DEF StrategyBehindStatus
<1> USE DEF Inv, RecoveryTypeOK
<1>1. BehindStatus(c)
  BY DEF StrategyBehindStatus
<1>2. CASE c \notin C
  BY <1>1, <1>2 DEF VerifyAll, BehindStatus
<1>3. CASE c \in C
  <2>1. selected[c] \in Strategies /\ strategy[c][selected[c]] = "selected"
    BY <1>1, <1>3 DEF BehindStatus
  <2>2. /\ caseStatus'[c] = StatusAfter(result[c])
        /\ strategy'[c][selected'[c]] = StrategyAfter("selected", result[c])
        /\ outcome'[c] = (outcome[c] \/ Conclusive(result[c]))
        /\ selected'[c] # NoStrategy
    BY <1>3, <2>1, RecoveryAssumption DEF VerifyAll, RecoveryAssumption
  <2>3. CASE result[c] = "INCONCLUSIVE"
    <3>1. StatusAfter(result[c]) = "monitoring" /\ StrategyAfter("selected", result[c]) = "selected"
      BY <2>3 DEF StatusAfter, StrategyAfter
    <3> QED
      BY <2>1, <2>2, <3>1 DEF BehindStatus
  <2>4. CASE result[c] = "NO_EFFECT"
    <3>1. StatusAfter(result[c]) = "failed"
      BY <2>4 DEF StatusAfter
    <3> QED
      BY <2>1, <2>2, <3>1 DEF BehindStatus
  <2>5. CASE result[c] \notin {"INCONCLUSIVE", "NO_EFFECT"}
    <3>1. StatusAfter(result[c]) = "verified" /\ StrategyAfter("selected", result[c]) = "executed"
      BY <2>5 DEF StatusAfter, StrategyAfter
    <3>2. outcome'[c]
      BY <2>2, <2>5 DEF Conclusive
    <3> QED
      BY <2>1, <2>2, <3>1, <3>2 DEF BehindStatus
  <2> QED
    BY <2>3, <2>4, <2>5
<1> QED
  BY <1>2, <1>3

\* Every step keeps the strategy of a case in line with its status.
LEMMA BehindStep ==
  ASSUME RecoveryAssumption, Inv, RecoveryNext
  PROVE  StrategyBehindStatus'
<1> USE DEF Inv, RecoveryTypeOK, SetStatus
<1>1. ASSUME NEW c \in Cases, CaseStep(c), ~ Verify(c)
      PROVE  StrategyBehindStatus'
  <2> SUFFICES ASSUME NEW d \in Cases PROVE BehindStatus(d)'
    BY DEF StrategyBehindStatus
  <2>0. BehindStatus(d)
    BY DEF StrategyBehindStatus
  <2>1. CASE OpenForDeviation(c) \/ RefreshOptions(c)
    BY <2>0, <2>1 DEF OpenForDeviation, RefreshOptions, Regenerate, BehindStatus
  <2>2. ASSUME NEW s \in Strategies, SelectStrategy(c, s)
        PROVE  BehindStatus(d)'
    BY <2>0, <2>2, RecoveryAssumption DEF RecoveryAssumption, SelectStrategy, Selectable, BehindStatus
  <2>3. ASSUME NEW s \in Strategies, SelectStale(c, s)
        PROVE  BehindStatus(d)'
    BY <2>0, <2>3 DEF SelectStale, Selectable, BehindStatus
  <2>4. CASE Start(c) \/ Abandon(c)
    BY <2>0, <2>4 DEF Start, Abandon, BehindStatus
  <2>5. ASSUME NEW s \in Strategies, NEW i \in 1..Steps, ActionStep(c, s, i)
        PROVE  BehindStatus(d)'
    <3>1. CASE StartAction(c, s, i) \/ CancelAction(c, s, i)
      BY <2>0, <3>1 DEF StartAction, CancelAction, BehindStatus
    <3>2. CASE CompleteAction(c, s, i)
      BY <2>0, <3>2 DEF CompleteAction, BehindStatus
    <3>3. CASE FailAction(c, s, i)
      <4>1. \E to \in {"failed", "assessing"} : caseStatus' = [caseStatus EXCEPT ![c] = to]
        BY <3>3 DEF FailAction
      <4> QED
        BY <2>0, <3>3, <4>1 DEF FailAction, BehindStatus
    <3> QED
      BY <2>5, <3>1, <3>2, <3>3 DEF ActionStep
  <2> QED
    BY <1>1, <2>1, <2>2, <2>3, <2>4, <2>5 DEF CaseStep
<1>2. ASSUME NEW c \in Cases, Verify(c)
      PROVE  StrategyBehindStatus'
  <2>1. PICK result \in [{c} -> Results] : VerifyAll({c}, result)
    BY <1>2 DEF Verify
  <2>2. {c} \in SUBSET Cases /\ \A d \in {c} : caseStatus[d] \in {"executing", "monitoring"}
    BY <1>2 DEF Verify
  <2> QED
    BY <2>1, <2>2, VerifyBehind, RecoveryAssumption
<1>3. CASE Reconcile
  BY <1>3, VerifyBehind, RecoveryAssumption DEF Reconcile, ToReconcile
<1> QED
  BY <1>1, <1>2, <1>3 DEF RecoveryNext

-----------------------------------------------------------------------------
(* The sequence of work.                                                   *)

\* An action is started after its predecessor, and what is completed stays so.
LEMMA SequenceStep ==
  ASSUME RecoveryAssumption, Inv, RecoveryNext
  PROVE  WorkInSequence'
<1> USE DEF Inv, RecoveryTypeOK
<1>1. ASSUME NEW c \in Cases, NEW s \in Strategies, SelectStrategy(c, s)
      PROVE  WorkInSequence'
  <2>1. \A d \in Cases, t \in Strategies, i \in 1..Steps :
          action'[d][t][i] = action[d][t][i] \/ (d = c /\ t = s /\ action'[d][t][i] = "open")
    BY <1>1 DEF SelectStrategy
  <2>2. \A i \in 1..Steps : action'[c][s][i] = "open"
    BY <1>1 DEF SelectStrategy
  <2>3. \A d \in Cases, t \in Strategies : <<d, t>> # <<c, s>> =>
          \A i \in 1..Steps : action'[d][t][i] = action[d][t][i]
    BY <2>1
  <2> SUFFICES ASSUME NEW d \in Cases, NEW t \in Strategies, NEW i \in 1..Steps,
                      action'[d][t][i] \in {"in_progress", "completed", "failed"},
                      NEW j \in 1..(i - 1)
               PROVE  action'[d][t][j] = "completed"
    BY DEF WorkInSequence
  <2>4. j \in 1..Steps
    BY RecoveryAssumption DEF RecoveryAssumption
  <2>5. <<d, t>> # <<c, s>>
    BY <2>2
  <2>6. action[d][t][i] \in {"in_progress", "completed", "failed"}
    BY <2>3, <2>5
  <2>7. action[d][t][j] = "completed"
    BY <2>6 DEF WorkInSequence
  <2> QED
    BY <2>3, <2>4, <2>5, <2>7
<1>2. ASSUME NEW c \in Cases, NEW s \in Strategies, NEW n \in 1..Steps, ActionStep(c, s, n)
      PROVE  WorkInSequence'
  <2>1. PICK to \in ActionStatuses : action' = [action EXCEPT ![c][s][n] = to]
    BY <1>2 DEF ActionStep, StartAction, CancelAction, CompleteAction, FailAction, ActionStatuses
  <2>2. /\ action[c][s][n] \in {"open", "in_progress"}
        /\ (action[c][s][n] = "open" /\ to # "cancelled" /\ n > 1) => action[c][s][n - 1] = "completed"
    BY <1>2, <2>1 DEF ActionStep, StartAction, CancelAction, CompleteAction, FailAction
  <2>3. \A d \in Cases, t \in Strategies, i \in 1..Steps :
          action'[d][t][i] = IF d = c /\ t = s /\ i = n THEN to ELSE action[d][t][i]
    BY <2>1
  <2>4. \A d \in Cases, t \in Strategies, i \in 1..Steps :
          (d = c /\ t = s /\ i = n) \/ action'[d][t][i] = action[d][t][i]
    BY <2>3
  <2> SUFFICES ASSUME NEW d \in Cases, NEW t \in Strategies, NEW i \in 1..Steps,
                      action'[d][t][i] \in {"in_progress", "completed", "failed"},
                      NEW j \in 1..(i - 1)
               PROVE  action'[d][t][j] = "completed"
    BY DEF WorkInSequence
  <2>5. j \in 1..Steps
    BY RecoveryAssumption DEF RecoveryAssumption
  <2>6. action[d][t][j] = "completed"
    <3>1. CASE d = c /\ t = s /\ i = n
      <4>1. CASE action[c][s][n] = "in_progress"
        BY <3>1, <4>1 DEF WorkInSequence
      <4>2. CASE action[c][s][n] = "open"
        <5>1. n - 1 \in 1..Steps /\ action[c][s][n - 1] = "completed"
          BY <2>2, <2>3, <3>1, <4>2, RecoveryAssumption DEF RecoveryAssumption
        <5>2. j = n - 1 \/ j \in 1..(n - 2)
          BY <3>1
        <5>3. \A k \in 1..((n - 1) - 1) : action[c][s][k] = "completed"
          BY <5>1 DEF WorkInSequence
        <5> QED
          BY <3>1, <5>1, <5>2, <5>3
      <4> QED
        BY <2>2, <4>1, <4>2
    <3>2. CASE ~ (d = c /\ t = s /\ i = n)
      <4>1. action'[d][t][i] = action[d][t][i]
        BY ONLY <2>4, <3>2, d \in Cases, t \in Strategies, i \in 1..Steps, Zenon
      <4>2. action[d][t][i] \in {"in_progress", "completed", "failed"}
        BY <4>1
      <4> QED
        BY <4>2 DEF WorkInSequence
    <3> QED
      BY <3>1, <3>2
  <2>7. ~ (d = c /\ t = s /\ j = n)
    BY <2>2, <2>6
  <2> QED
    BY <2>3, <2>5, <2>6, <2>7
<1>3. ASSUME UNCHANGED action
      PROVE  WorkInSequence'
  BY <1>3 DEF WorkInSequence
<1>4. ASSUME NEW c \in Cases, CaseStep(c)
      PROVE  WorkInSequence'
  BY <1>1, <1>2, <1>3, <1>4
  DEF CaseStep, OpenForDeviation, RefreshOptions, SelectStale, Start, Abandon, Verify, VerifyAll
<1>5. CASE Reconcile
  BY <1>3, <1>5 DEF Reconcile, VerifyAll
<1> QED
  BY <1>4, <1>5 DEF RecoveryNext

-----------------------------------------------------------------------------
(* The theorems.                                                           *)

\* The types, the strategy behind the status and the sequence of work are one
\* inductive invariant.
THEOREM RecoveryInvariant ==
  ASSUME RecoveryAssumption
  PROVE  RecoverySpec => []Inv
<1>1. RecoveryInit => Inv
  <2> SUFFICES ASSUME RecoveryInit PROVE Inv
    OBVIOUS
  <2>1. RecoveryTypeOK
    BY DEF RecoveryInit, RecoveryTypeOK
  <2>2. StrategyBehindStatus
    BY DEF RecoveryInit, StrategyBehindStatus, BehindStatus
  <2>3. WorkInSequence
    BY DEF RecoveryInit, WorkInSequence
  <2> QED
    BY <2>1, <2>2, <2>3 DEF Inv
<1>2. Inv /\ [RecoveryNext]_recoveryVars => Inv'
  <2> SUFFICES ASSUME Inv, [RecoveryNext]_recoveryVars PROVE Inv'
    OBVIOUS
  <2>1. CASE RecoveryNext
    BY <2>1, TypeStep, BehindStep, SequenceStep, RecoveryAssumption DEF Inv
  <2>2. CASE UNCHANGED recoveryVars
    BY <2>2 DEF recoveryVars, Inv, RecoveryTypeOK, StrategyBehindStatus, BehindStatus, WorkInSequence
  <2> QED
    BY <2>1, <2>2
<1> QED
  BY <1>1, <1>2, PTL DEF RecoverySpec

\* Every variable keeps its type.
THEOREM TypeCorrect ==
  ASSUME RecoveryAssumption
  PROVE  RecoverySpec => []RecoveryTypeOK
BY RecoveryInvariant, PTL DEF Inv

\* A case in execution has a selected strategy that has not failed, and a
\* verified one has executed it and has an outcome.
THEOREM StrategyFollowsStatus ==
  ASSUME RecoveryAssumption
  PROVE  RecoverySpec => []StrategyBehindStatus
BY RecoveryInvariant, PTL DEF Inv

\* No action of a strategy is worked on before its predecessors are completed.
THEOREM SequenceIsKept ==
  ASSUME RecoveryAssumption
  PROVE  RecoverySpec => []WorkInSequence
BY RecoveryInvariant, PTL DEF Inv

\* A case without a current selection is not executed, monitored or verified,
\* whatever happens to the actions of its earlier strategies.
THEOREM SelectionComesFirst ==
  ASSUME RecoveryAssumption
  PROVE  RecoverySpec => NoExecutionWithoutSelection
<1> DEFINE Waiting == {"none", "assessing", "options_ready", "failed", "abandoned"}
           Busy == {"executing", "monitoring", "verified"}
<1>1. ASSUME RecoveryTypeOK, RecoveryNext, NEW c \in Cases, caseStatus[c] \in Waiting
      PROVE  caseStatus'[c] \notin Busy
  <2> USE <1>1 DEF RecoveryTypeOK, SetStatus
  <2>1. ASSUME NEW d \in Cases, CaseStep(d)
        PROVE  caseStatus'[c] \notin Busy
    <3>1. CASE OpenForDeviation(d) \/ RefreshOptions(d)
      BY <3>1 DEF OpenForDeviation, RefreshOptions
    <3>2. ASSUME NEW s \in Strategies, SelectStrategy(d, s) \/ SelectStale(d, s)
          PROVE  caseStatus'[c] \notin Busy
      BY <3>2 DEF SelectStrategy, SelectStale
    <3>3. CASE Start(d) \/ Abandon(d)
      BY <3>3 DEF Start, Abandon
    <3>4. CASE Verify(d)
      BY <3>4 DEF Verify, VerifyAll
    <3>5. ASSUME NEW s \in Strategies, NEW i \in 1..Steps, ActionStep(d, s, i)
          PROVE  caseStatus'[c] \notin Busy
      BY <3>5 DEF ActionStep, StartAction, CancelAction, CompleteAction, FailAction
    <3> QED
      BY <2>1, <3>1, <3>2, <3>3, <3>4, <3>5 DEF CaseStep
  <2>2. CASE Reconcile
    BY <2>2 DEF Reconcile, VerifyAll, ToReconcile
  <2> QED
    BY <1>1, <2>1, <2>2 DEF RecoveryNext
<1>2. RecoveryTypeOK /\ [RecoveryNext]_recoveryVars =>
        [\A c \in Cases : caseStatus[c] \in Waiting => caseStatus'[c] \notin Busy]_recoveryVars
  BY <1>1
<1>3. RecoverySpec => []RecoveryTypeOK
  BY TypeCorrect, RecoveryAssumption
<1> QED
  BY <1>2, <1>3, PTL DEF RecoverySpec, NoExecutionWithoutSelection

-----------------------------------------------------------------------------
(***************************************************************************)
(* SupplyPlan, for any plan, entries and recommendations.  A simulated     *)
(* order keeps the recommendation it was made from: a confirmation either  *)
(* adds an order no other stands for, or moves the day of one there is.    *)
(***************************************************************************)

\* The rows of the simulated orders.
OrderRow(D) == [advice : D, day : D, qty : D]

OrdersKeepAdvice ==
  /\ \E D : bought \in Seq(OrderRow(D))
  /\ BoughtOnce

\* A sequence of rows of a set is one of a larger set.
LEMMA WiderRows ==
  ASSUME NEW A, NEW B, A \subseteq B, NEW s \in Seq(A)
  PROVE  s \in Seq(B)
OBVIOUS

\* A sequence in which one row is written.
LEMMA RowWritten ==
  ASSUME NEW R, NEW s \in Seq(R), NEW i \in DOMAIN s, NEW r \in R
  PROVE  /\ [s EXCEPT ![i] = r] \in Seq(R) /\ DOMAIN [s EXCEPT ![i] = r] = DOMAIN s
         /\ [s EXCEPT ![i] = r][i] = r
         /\ \A k \in DOMAIN s : k # i => [s EXCEPT ![i] = r][k] = s[k]
OBVIOUS

\* Another order for a recommendation that has none.
LEMMA OrderAdded ==
  ASSUME OrdersKeepAdvice, NEW a, NEW d, NEW q, Orderable(a),
         bought' = Append(bought, [advice |-> a, day |-> d, qty |-> q])
  PROVE  OrdersKeepAdvice'
<1>1. PICK D : bought \in Seq(OrderRow(D))
  BY DEF OrdersKeepAdvice
<1> DEFINE E == D \union {a, d, q}
           row == [advice |-> a, day |-> d, qty |-> q]
<1>2. row \in OrderRow(E) /\ row.advice = a
  BY DEF OrderRow
<1>3. bought \in Seq(OrderRow(E))
  <2>1. OrderRow(D) \subseteq OrderRow(E)
    BY DEF OrderRow
  <2> QED  BY <1>1, <2>1, WiderRows
<1> HIDE DEF E, row
<1>4. /\ bought' \in Seq(OrderRow(E))
      /\ Len(bought) \in Nat /\ DOMAIN bought = 1..Len(bought) /\ DOMAIN bought' = 1..Len(bought) + 1
      /\ \A k \in DOMAIN bought : bought'[k] = bought[k]
      /\ bought'[Len(bought) + 1] = row
  BY <1>2, <1>3 DEF row
<1>5. BoughtOnce'
  BY <1>2, <1>4 DEF OrdersKeepAdvice, BoughtOnce, Orderable
<1> QED  BY <1>4, <1>5 DEF OrdersKeepAdvice

\* An order that is moved to another day.
LEMMA OrderMoved ==
  ASSUME OrdersKeepAdvice, NEW i, NEW d, bought' = [bought EXCEPT ![i].day = d]
  PROVE  OrdersKeepAdvice'
<1>1. PICK D : bought \in Seq(OrderRow(D))
  BY DEF OrdersKeepAdvice
<1> DEFINE E == D \union {d}
           row == [bought[i] EXCEPT !.day = d]
<1>2. bought \in Seq(OrderRow(E))
  <2>1. OrderRow(D) \subseteq OrderRow(E)
    BY DEF OrderRow
  <2> QED  BY <1>1, <2>1, WiderRows
<1>3. i \in DOMAIN bought => row \in OrderRow(E) /\ row.advice = bought[i].advice
  <2>1. i \in DOMAIN bought => bought[i] \in OrderRow(E)
    BY <1>2
  <2> QED  BY <2>1 DEF OrderRow
<1>4. bought' = [bought EXCEPT ![i] = row]
  OBVIOUS
<1> HIDE DEF E, row
<1>5. /\ bought' \in Seq(OrderRow(E)) /\ DOMAIN bought' = DOMAIN bought
      /\ \A k \in DOMAIN bought : bought'[k].advice = bought[k].advice
  <2>1. CASE i \in DOMAIN bought
    BY <1>2, <1>3, <1>4, <2>1, RowWritten
  <2>2. CASE i \notin DOMAIN bought
    <3>1. bought' = bought
      BY <1>2, <1>4, <2>2
    <3> QED  BY <1>2, <3>1
  <2> QED  BY <2>1, <2>2
<1>6. BoughtOnce'
  BY <1>5 DEF OrdersKeepAdvice, BoughtOnce
<1> QED  BY <1>5, <1>6 DEF OrdersKeepAdvice

LEMMA OrdersStay ==
  ASSUME OrdersKeepAdvice, UNCHANGED bought
  PROVE  OrdersKeepAdvice'
BY DEF OrdersKeepAdvice, BoughtOnce

\* A confirmation buys when the recommendation has no order yet.
LEMMA ConfirmationKeeps ==
  ASSUME OrdersKeepAdvice, NEW c, ConfirmExecution(c)
  PROVE  OrdersKeepAdvice'
<1> DEFINE a == advice[c.row]
           row == [advice |-> c.row, day |-> a.day, qty |-> a.qty]
           added == Append(bought, row)
           moved == [bought EXCEPT ![a.source[2]].day = a.day]
<1>1. bought' = CASE a.action = "NEW_BUY" -> added
                  [] a.source[1] = "order" -> moved
                  [] OTHER -> bought
  BY DEF ConfirmExecution
<1>2. a.action = "NEW_BUY" => Orderable(c.row)
  BY DEF ConfirmExecution, Executable
<1>3. ASSUME a.action = "NEW_BUY" PROVE bought' = added \/ bought' = moved
  <2> HIDE DEF a, added, moved
  <2> QED  BY <1>1, <1>3
<1>4. ASSUME a.action # "NEW_BUY" PROVE bought' = moved \/ bought' = bought
  <2> HIDE DEF a, added, moved
  <2> QED  BY <1>1, <1>4
<1> QED  BY <1>2, <1>3, <1>4, OrderAdded, OrderMoved, OrdersStay

LEMMA SupplyKeeps ==
  ASSUME OrdersKeepAdvice, [SupplyNext]_supplyVars
  PROVE  OrdersKeepAdvice'
<1>1. CASE UNCHANGED supplyVars
  BY <1>1, OrdersStay DEF supplyVars
<1>2. CASE Outside
  BY <1>2, OrdersStay
     DEF Outside, Import, AddBucket, Publish, Override, Record, Void, Resolve, TriggerRun, CreateScenario,
         RunScenario, Decide, CreateAction, DeliveryUpdate, inputVars, adviceVars
<1>3. CASE Inside
  <2>1. ASSUME NEW q \in open, Commit(q) \/ Conflict(q)
        PROVE  OrdersKeepAdvice'
    BY <2>1, OrdersStay DEF Commit, Conflict, adviceVars
  <2>2. ASSUME NEW r \in DOMAIN plans, ExecuteRun(r)
        PROVE  OrdersKeepAdvice'
    BY <2>2, OrdersStay DEF ExecuteRun
  <2>3. ASSUME NEW x \in DOMAIN advice, ReadAccepted(x)
        PROVE  OrdersKeepAdvice'
    BY <2>3, OrdersStay DEF ReadAccepted
  <2>4. ASSUME NEW c \in confirming, ConfirmExecution(c) \/ ConfirmFails(c)
        PROVE  OrdersKeepAdvice'
    BY <2>4, ConfirmationKeeps, OrdersStay DEF ConfirmFails
  <2>5. ASSUME NEW e \in outbox, Rescheduled(e) \/ PlanCompleted(e)
        PROVE  OrdersKeepAdvice'
    BY <2>5, OrdersStay DEF Rescheduled, PlanCompleted
  <2> QED  BY <1>3, <2>1, <2>2, <2>3, <2>4, <2>5 DEF Inside
<1> QED  BY <1>1, <1>2, <1>3 DEF SupplyNext

\* The inductive invariant: an order stays with the recommendation it was
\* made from (confirm_execution and its source record).
THEOREM OrderInvariantOfPlan == SupplySpec => []OrdersKeepAdvice
<1>1. SupplyInit => OrdersKeepAdvice
  BY DEF SupplyInit, OrdersKeepAdvice, BoughtOnce
<1>2. OrdersKeepAdvice /\ [SupplyNext]_supplyVars => OrdersKeepAdvice'
  BY SupplyKeeps
<1> QED  BY <1>1, <1>2, PTL DEF SupplySpec

\* A recommendation to buy is bought once, however often it is accepted again
\* and confirmed, and whatever deliveries and simulated orders move meanwhile.
THEOREM RecommendationsAreBoughtOnce == SupplySpec => []BoughtOnce
<1>1. OrdersKeepAdvice => BoughtOnce
  BY DEF OrdersKeepAdvice
<1> QED  BY <1>1, OrderInvariantOfPlan, PTL

-----------------------------------------------------------------------------
(***************************************************************************)
(* PlantRecords, for any number of people, of cases and of edits.  A       *)
(* screen that shows a case in its current version shows its current text: *)
(* an edit always raises the version, and whoever verifies compares it.    *)
(***************************************************************************)

CaseStatuses == {"open", "investigating", "action_in_progress", "effectiveness_review", "verified", "closed"}

CaseRow == [type : {"ncr", "capa"}, parent : Nat, status : CaseStatuses, version : Nat,
            analysis : Analyses, edit : Nat, read : Nat]

\* What a person has on the screen is a case as it is now, or was before.
ScreensAreHonest ==
  \A p \in People : \A i \in Nat : ShowsRecord(p, <<"case", i>>) =>
    /\ i \in DOMAIN cases
    /\ screens[p].row.version \in Nat /\ screens[p].row.version <= cases[i].version
    /\ screens[p].row.version = cases[i].version => screens[p].row.edit = cases[i].edit

VerificationInv ==
  /\ cases \in Seq(CaseRow)
  /\ DOMAIN screens = People
  /\ ScreensAreHonest
  /\ VerifiedAsRead

LEMMA VerificationInitially ==
  ASSUME RecordsInit
  PROVE  VerificationInv
<1>1. cases = <<>> /\ screens = [p \in People |-> Closed]
  BY DEF RecordsInit
<1>2. \A i \in Nat : <<"nothing">> # <<"case", i>>
  OBVIOUS
<1> QED
  BY <1>1, <1>2 DEF VerificationInv, ScreensAreHonest, ShowsRecord, Closed, VerifiedAsRead

\* Nothing is written that a case, or a screen that shows one, depends on.
LEMMA RecordsStay ==
  ASSUME VerificationInv, UNCHANGED <<cases, screens>>
  PROVE  VerificationInv'
BY DEF VerificationInv, ScreensAreHonest, ShowsRecord, VerifiedAsRead

LEMMA CaseFields ==
  ASSUME VerificationInv, NEW i \in DOMAIN cases
  PROVE  /\ i \in Nat /\ cases[i] \in CaseRow
         /\ cases[i].version \in Nat /\ cases[i].edit \in Nat /\ cases[i].read \in Nat
<1>1. i \in Nat /\ cases[i] \in CaseRow
  BY DEF VerificationInv
<1> QED  BY <1>1 DEF CaseRow

\* A person opens something that is no case.
LEMMA OtherOpened ==
  ASSUME VerificationInv, NEW p \in People, NEW what, NEW row, Open(p, what, row),
         \A i \in Nat : what # <<"case", i>>
  PROVE  VerificationInv'
<1>1. /\ DOMAIN screens' = People /\ cases' = cases /\ screens'[p].what = what
      /\ \A o \in People : o # p => screens'[o] = screens[o]
  BY DEF Open, VerificationInv, qualityVars
<1> QED  BY <1>1, ZenonT(30) DEF VerificationInv, ScreensAreHonest, ShowsRecord, VerifiedAsRead

LEMMA CaseOpened ==
  ASSUME VerificationInv, NEW p \in People, NEW i \in DOMAIN cases, Open(p, <<"case", i>>, cases[i])
  PROVE  VerificationInv'
<1>1. /\ DOMAIN screens' = People /\ cases' = cases
      /\ screens'[p].what = <<"case", i>> /\ screens'[p].row = cases[i]
      /\ \A o \in People : o # p => screens'[o] = screens[o]
  BY DEF Open, VerificationInv, qualityVars
<1>2. \A k \in Nat : <<"case", k>> = <<"case", i>> => k = i
  BY CaseFields
<1>3. cases[i].version \in Nat
  BY CaseFields
<1>4. ScreensAreHonest'
  <2>1. ASSUME NEW o \in People, NEW k \in Nat, screens'[o].what = <<"case", k>>
        PROVE  /\ k \in DOMAIN cases'
               /\ screens'[o].row.version \in Nat /\ screens'[o].row.version <= cases'[k].version
               /\ screens'[o].row.version = cases'[k].version => screens'[o].row.edit = cases'[k].edit
    <3>1. CASE o = p
      BY <1>1, <1>2, <1>3, <2>1, <3>1
    <3>2. CASE o # p
      BY <1>1, <2>1, <3>2 DEF VerificationInv, ScreensAreHonest, ShowsRecord
    <3> QED  BY <3>1, <3>2
  <2> QED  BY <2>1 DEF ScreensAreHonest, ShowsRecord
<1> QED  BY <1>1, <1>4 DEF VerificationInv, VerifiedAsRead

\* One case is written: its version rises, its text with it at most, and it is
\* verified, or stays so, with what was read.
LEMMA CaseWritten ==
  ASSUME VerificationInv, NEW i \in DOMAIN cases, NEW row \in CaseRow, UNCHANGED screens,
         cases' = [cases EXCEPT ![i] = row],
         row = cases[i] \/ row.version = cases[i].version + 1,
         row.status \in {"verified", "closed"} => row.read = row.edit
  PROVE  VerificationInv'
<1>1. /\ cases' \in Seq(CaseRow) /\ DOMAIN cases' = DOMAIN cases /\ cases'[i] = row
      /\ \A k \in DOMAIN cases : k # i => cases'[k] = cases[k]
  <2>1. cases \in Seq(CaseRow)
    BY DEF VerificationInv
  <2> QED  BY <2>1, RowWritten
<1>2. \A k \in DOMAIN cases : cases[k].version \in Nat
  BY CaseFields
<1>3. ScreensAreHonest'
  <2>1. ASSUME NEW o \in People, NEW k \in Nat, screens[o].what = <<"case", k>>
        PROVE  /\ k \in DOMAIN cases'
               /\ screens[o].row.version \in Nat /\ screens[o].row.version <= cases'[k].version
               /\ screens[o].row.version = cases'[k].version => screens[o].row.edit = cases'[k].edit
    <3>1. /\ k \in DOMAIN cases
          /\ screens[o].row.version \in Nat /\ screens[o].row.version <= cases[k].version
          /\ screens[o].row.version = cases[k].version => screens[o].row.edit = cases[k].edit
      BY <2>1 DEF VerificationInv, ScreensAreHonest, ShowsRecord
    <3>2. cases'[k] = cases[k] \/ cases'[k].version = cases[k].version + 1
      BY <1>1, <3>1
    <3> QED  BY <1>1, <1>2, <3>1, <3>2
  <2> QED  BY <2>1 DEF ScreensAreHonest, ShowsRecord
<1>4. VerifiedAsRead'
  BY <1>1 DEF VerificationInv, VerifiedAsRead
<1> QED  BY <1>1, <1>3, <1>4 DEF VerificationInv

LEMMA CaseCreated ==
  ASSUME VerificationInv, NEW type \in {"ncr", "capa"}, NEW parent \in Nat, CreateCase(type, parent)
  PROVE  VerificationInv'
<1> DEFINE row == NewCase(type, parent)
<1>1. row \in CaseRow /\ row.status = "open"
  BY DEF NewCase, CaseRow, CaseStatuses, Analyses
<1>2. cases' = Append(cases, row) /\ UNCHANGED screens
  BY DEF CreateCase
<1> HIDE DEF row
<1>3. /\ cases' \in Seq(CaseRow) /\ DOMAIN cases' = DOMAIN cases \union {Len(cases) + 1}
      /\ cases'[Len(cases) + 1] = row
      /\ \A k \in DOMAIN cases : cases'[k] = cases[k]
  <2>1. cases \in Seq(CaseRow)
    BY DEF VerificationInv
  <2> QED  BY <1>1, <1>2, <2>1
<1>4. ScreensAreHonest'
  BY <1>2, <1>3 DEF VerificationInv, ScreensAreHonest, ShowsRecord
<1>5. VerifiedAsRead'
  BY <1>1, <1>3 DEF VerificationInv, VerifiedAsRead
<1> QED  BY <1>2, <1>3, <1>4, <1>5 DEF VerificationInv

\* A save of a case that is not verified.
LEMMA CaseUpdated ==
  ASSUME VerificationInv, NEW p \in People, NEW i \in DOMAIN cases, NEW status \in DOMAIN CaseStages,
         NEW analysis \in Analyses, NEW edited \in BOOLEAN, UpdateCase(p, i, status, analysis, edited)
  PROVE  VerificationInv'
<1> DEFINE c == cases[i]
           text == IF edited THEN c.edit + 1 ELSE c.edit
           changes == [c EXCEPT !.status = status, !.analysis = analysis, !.edit = text]
           next == c.version + 1
           row == IF changes = c THEN c ELSE [changes EXCEPT !.version = next]
<1>1. /\ c \in CaseRow /\ text \in Nat /\ next \in Nat /\ c.status \notin {"verified", "closed"}
      /\ status \in CaseStatuses \ {"verified", "closed"}
  BY CaseFields DEF UpdateCase, CaseStages, CaseStatuses
<1>2. cases' = [cases EXCEPT ![i] = row] /\ UNCHANGED screens
  <2>1. changes.version = c.version
    BY <1>1 DEF CaseRow
  <2> QED  BY <2>1 DEF UpdateCase
<1> HIDE DEF c, text, next
<1>3. /\ row \in CaseRow
      /\ row = c \/ row.version = next
      /\ row.status \notin {"verified", "closed"}
  <2>1. LET to == [changes EXCEPT !.version = next]
        IN to \in CaseRow /\ to.version = next /\ to.status = status
    BY <1>1 DEF CaseRow
  <2> QED  BY <1>1, <2>1
<1> HIDE DEF row
<1> QED  BY <1>2, <1>3, CaseWritten DEF c, next

\* The verifier has the current version on the screen, and so its text.
LEMMA CaseVerified ==
  ASSUME VerificationInv, NEW p \in People, NEW i \in DOMAIN cases, VerifyCase(p, i)
  PROVE  VerificationInv'
<1> DEFINE c == cases[i]
           seen == screens[p].row.edit
           next == c.version + 1
           row == [c EXCEPT !.status = "verified", !.version = next, !.read = seen]
<1>1. /\ c \in CaseRow /\ next \in Nat /\ c.edit \in Nat
      /\ seen = c.edit
  <2>1. i \in Nat /\ c \in CaseRow /\ next \in Nat /\ c.edit \in Nat
    BY CaseFields
  <2>2. ShowsRecord(p, <<"case", i>>) /\ screens[p].row.version = c.version
    BY DEF VerifyCase, Current
  <2> QED  BY <2>1, <2>2 DEF VerificationInv, ScreensAreHonest
<1>2. cases' = [cases EXCEPT ![i] = row] /\ UNCHANGED screens
  BY DEF VerifyCase
<1> HIDE DEF c, seen, next
<1>3. row \in CaseRow /\ row.version = next /\ row.read = row.edit
  BY <1>1 DEF CaseRow, CaseStatuses
<1> HIDE DEF row
<1> QED  BY <1>2, <1>3, CaseWritten DEF c, next

LEMMA CaseClosed ==
  ASSUME VerificationInv, NEW p \in People, NEW i \in DOMAIN cases, CloseCase(p, i)
  PROVE  VerificationInv'
<1> DEFINE c == cases[i]
           next == c.version + 1
           row == [c EXCEPT !.status = "closed", !.version = next]
<1>1. c \in CaseRow /\ next \in Nat /\ c.read = c.edit
  BY CaseFields DEF CloseCase, VerificationInv, VerifiedAsRead
<1>2. cases' = [cases EXCEPT ![i] = row] /\ UNCHANGED screens
  BY DEF CloseCase
<1> HIDE DEF c, next
<1>3. row \in CaseRow /\ row.version = next /\ row.read = row.edit
  BY <1>1 DEF CaseRow, CaseStatuses
<1> HIDE DEF row
<1> QED  BY <1>2, <1>3, CaseWritten DEF c, next

LEMMA RecordsKeep ==
  ASSUME VerificationInv, [RecordsNext]_recordVars
  PROVE  VerificationInv'
<1>1. CASE UNCHANGED recordVars
  BY <1>1, RecordsStay DEF recordVars, qualityVars
<1>2. CASE QualityNext
  <2>1. ASSUME NEW p \in People, NEW i \in DOMAIN cases, Open(p, <<"case", i>>, cases[i])
        PROVE  VerificationInv'
    BY <2>1, CaseOpened
  <2>2. ASSUME NEW type \in {"ncr", "capa"}, NEW parent \in 0..Len(cases), CreateCase(type, parent)
        PROVE  VerificationInv'
    <3>1. parent \in Nat
      BY DEF VerificationInv
    <3> QED  BY <2>2, <3>1, CaseCreated
  <2>3. ASSUME NEW p \in People, NEW i \in DOMAIN cases, VerifyCase(p, i) \/ CloseCase(p, i)
        PROVE  VerificationInv'
    BY <2>3, CaseVerified, CaseClosed
  <2>4. ASSUME NEW p \in People, NEW i \in DOMAIN cases, NEW status \in DOMAIN CaseStages,
               NEW analysis \in Analyses, NEW edited \in BOOLEAN, UpdateCase(p, i, status, analysis, edited)
        PROVE  VerificationInv'
    BY <2>4, CaseUpdated
  <2> QED  BY <1>2, <2>1, <2>2, <2>3, <2>4 DEF QualityNext
<1>3. \A i \in Nat : /\ <<"setup">> # <<"case", i>> /\ <<"transfer">> # <<"case", i>>
                     /\ <<"handover">> # <<"case", i>>
                     /\ \A k : <<"work", k>> # <<"case", i>>
  OBVIOUS
<1>4. CASE SetupNext
  BY <1>3, <1>4, OtherOpened, RecordsStay DEF SetupNext, SaveRule, SaveProfile
<1>5. CASE PlantNext
  BY <1>3, <1>5, OtherOpened, RecordsStay DEF PlantNext, TransitionTransfer, SaveArea, SaveLine
<1>6. CASE HandoverNext
  BY <1>3, <1>6, OtherOpened, RecordsStay
     DEF HandoverNext, GenerateHandover, GenerateByJob, UpdateHandover, VerifyHandover, PublishHandover,
         qualityVars
<1>7. CASE MaintenanceNext
  BY <1>3, <1>7, OtherOpened, RecordsStay
     DEF MaintenanceNext, CreateWork, TransitionWork, Stop, VerifyTrouble, qualityVars
<1> QED  BY <1>1, <1>2, <1>4, <1>5, <1>6, <1>7 DEF RecordsNext

\* The inductive invariant: a screen in the current version shows the current
\* text (update_quality_case raises the version with every change).
THEOREM VerificationInvariant == RecordsSpec => []VerificationInv
<1>1. RecordsInit => VerificationInv
  BY VerificationInitially
<1>2. VerificationInv /\ [RecordsNext]_recordVars => VerificationInv'
  BY RecordsKeep
<1> QED  BY <1>1, <1>2, PTL DEF RecordsSpec

\* A quality case is verified, and closed, as its verifier has read it, for
\* any number of people who edit it meanwhile.
THEOREM CasesAreVerifiedAsRead == RecordsSpec => []VerifiedAsRead
<1>1. VerificationInv => VerifiedAsRead
  BY DEF VerificationInv
<1> QED  BY <1>1, VerificationInvariant, PTL

-----------------------------------------------------------------------------
(***************************************************************************)
(* Deviations, for any keys, detectors and people.  A detector decides on  *)
(* a deviation before it writes: what it has read must be of its key, for  *)
(* the key says how it may move the deviation on.                          *)
(***************************************************************************)

DeviationStatuses == Active \union {"verified"}
WorkStates == {"open", "accepted", "in_progress", "waiting", "completed", "failed", "cancelled"}
CaseStates == {"none", "open", "verified", "abandoned"}

DeviationRow == [key : Keys, status : DeviationStatuses, version : Nat, action : WorkStates,
                 task : WorkStates, blocked : BOOLEAN, case : CaseStates, recovered : Nat]

\* The deviation a detector has read is of the key it has judged.
DetectorsReadTheirKey ==
  \A d \in Detectors : detecting[d] # Idle =>
    /\ detecting[d].key \in Keys
    /\ detecting[d].row # 0 =>
         detecting[d].row \in DOMAIN deviations /\ deviations[detecting[d].row].key = detecting[d].key

DeviationInv ==
  /\ deviations \in Seq(DeviationRow)
  /\ DOMAIN detecting = Detectors
  /\ DetectorsReadTheirKey

\* What a step may make of a deviation.
Kept(r, to) ==
  /\ to \in DeviationRow /\ to.key = r.key
  /\ to.status = "verified" =>
       r.status = "verified" \/ to.case \in {"none", "verified"} \/ KindOf[r.key] = "output"

KeptIn(rows) ==
  /\ rows \in Seq(DeviationRow)
  /\ DOMAIN deviations \subseteq DOMAIN rows
  /\ \A i \in DOMAIN deviations : Kept(deviations[i], rows[i])

RowsKept == KeptIn(deviations')

LEMMA KeptAsItIs ==
  ASSUME NEW r \in DeviationRow
  PROVE  Kept(r, r)
BY DEF Kept

\* The work on a deviation the plant has recovered from.
LEMMA RecoveredRow ==
  ASSUME NEW r \in DeviationRow
  PROVE  /\ ActionsDone(r) \in DeviationRow /\ ActionsDone(r).key = r.key
         /\ ActionsDone(r).version = r.version /\ ActionsDone(r).status = r.status
         /\ ActionsDone(r).case = r.case
BY DEF ActionsDone, DeviationRow, WorkStates, Finished

\* Some deviations are changed.
LEMMA ChangedRows ==
  ASSUME DeviationInv, NEW rows, NEW T,
         deviations' = [i \in DOMAIN deviations |-> IF i \in rows THEN T[i] ELSE deviations[i]],
         \A i \in DOMAIN deviations : i \in rows => Kept(deviations[i], T[i])
  PROVE  RowsKept
<1>1. \A i \in DOMAIN deviations : deviations[i] \in DeviationRow
  BY DEF DeviationInv
<1>2. \A i \in DOMAIN deviations : Kept(deviations[i], deviations'[i])
  BY <1>1, KeptAsItIs
<1>3. \A i \in DOMAIN deviations : deviations'[i] \in DeviationRow
  BY <1>2 DEF Kept
<1>4. DOMAIN deviations = 1..Len(deviations) /\ Len(deviations) \in Nat
  BY DEF DeviationInv
<1>5. deviations' \in [1..Len(deviations) -> DeviationRow]
  BY <1>3, <1>4
<1>6. deviations' \in Seq(DeviationRow)
  BY <1>4, <1>5
<1> QED  BY <1>2, <1>6 DEF RowsKept, KeptIn

\* The version of a deviation that is changed.
LEMMA NextVersion ==
  ASSUME DeviationInv, NEW i \in DOMAIN deviations
  PROVE  /\ deviations[i] \in DeviationRow /\ deviations[i].version + 1 \in Nat
         /\ deviations[i].recovered \in Nat
<1>1. deviations[i] \in DeviationRow
  BY DEF DeviationInv
<1> QED  BY <1>1 DEF DeviationRow

\* A deviation takes another status, whoever reads it meanwhile.
LEMMA StatusKept ==
  ASSUME DeviationInv, NEW i \in DOMAIN deviations, NEW status \in Active,
         Change({i}, LAMBDA r : [r EXCEPT !.status = status])
  PROVE  RowsKept
<1> DEFINE T == [k \in DOMAIN deviations |->
                   [[deviations[k] EXCEPT !.status = status] EXCEPT !.version = @ + 1]]
<1>1. deviations' = [k \in DOMAIN deviations |-> IF k \in {i} THEN T[k] ELSE deviations[k]]
  BY DEF Change
<1>2. ASSUME NEW k \in DOMAIN deviations
      PROVE  Kept(deviations[k], T[k])
  <2> DEFINE r == deviations[k]
             version == r.version + 1
  <2>1. r \in DeviationRow /\ version \in Nat
    BY NextVersion
  <2>2. T[k] = [[r EXCEPT !.status = status] EXCEPT !.version = version]
    BY <2>1 DEF DeviationRow
  <2> HIDE DEF r, version, T
  <2>3. Kept(r, T[k])
    BY <2>1, <2>2 DEF Kept, DeviationRow, DeviationStatuses, Active
  <2> QED  BY <2>3 DEF r
<1> HIDE DEF T
<1> QED  BY <1>1, <1>2, ChangedRows

\* The work on it ends or waits, and its status follows.
LEMMA WorkKept ==
  ASSUME DeviationInv, NEW i \in DOMAIN deviations, NEW steps \in WorkStates, NEW task \in WorkStates,
         NEW blocked \in BOOLEAN, NEW status \in DeviationStatuses,
         status = "verified" => deviations[i].status = "verified",
         deviations' = [k \in DOMAIN deviations |-> IF k \in {i} THEN
             [[deviations[k] EXCEPT !.action = steps, !.task = task, !.blocked = blocked, !.status = status]
                EXCEPT !.version = @ + 1] ELSE deviations[k]]
  PROVE  RowsKept
<1> DEFINE T == [k \in DOMAIN deviations |->
       [[deviations[k] EXCEPT !.action = steps, !.task = task, !.blocked = blocked, !.status = status]
          EXCEPT !.version = @ + 1]]
<1>1. deviations' = [k \in DOMAIN deviations |-> IF k \in {i} THEN T[k] ELSE deviations[k]]
  OBVIOUS
<1>2. Kept(deviations[i], T[i])
  <2> DEFINE r == deviations[i]
             version == r.version + 1
  <2>1. r \in DeviationRow /\ version \in Nat
    BY NextVersion
  <2>2. T[i] = [[r EXCEPT !.action = steps, !.task = task, !.blocked = blocked, !.status = status]
                   EXCEPT !.version = version]
    BY <2>1 DEF DeviationRow
  <2> HIDE DEF r, version, T
  <2>3. Kept(r, T[i])
    <3>1. status = "verified" => r.status = "verified"
      BY DEF r
    <3> QED  BY <2>1, <2>2, <3>1, ZenonT(30) DEF Kept, DeviationRow
  <2> QED  BY <2>3 DEF r
<1> HIDE DEF T
<1> QED  BY <1>1, <1>2, ChangedRows

LEMMA AssetRecoveredKept ==
  ASSUME DeviationInv, AssetRecovered
  PROVE  RowsKept
<1> DEFINE T == [k \in DOMAIN deviations |->
                   [[ActionsDone(deviations[k]) EXCEPT !.status = "monitoring"] EXCEPT !.version = @ + 1]]
           rows == {i \in DOMAIN deviations :
                      deviations[i].status \in Active /\ KindOf[deviations[i].key] \in {"machine", "downtime"}}
<1>1. deviations' = [k \in DOMAIN deviations |-> IF k \in rows THEN T[k] ELSE deviations[k]]
  BY DEF AssetRecovered, Change
<1>2. ASSUME NEW k \in DOMAIN deviations
      PROVE  Kept(deviations[k], T[k])
  <2> DEFINE r == deviations[k]
             version == r.version + 1
             done == ActionsDone(r)
  <2>1. r \in DeviationRow /\ version \in Nat
    BY NextVersion
  <2>2. done \in DeviationRow /\ done.key = r.key /\ done.version = r.version
    BY <2>1, RecoveredRow
  <2>3. T[k] = [[done EXCEPT !.status = "monitoring"] EXCEPT !.version = version]
    BY <2>1, <2>2 DEF DeviationRow
  <2> HIDE DEF r, version, done, T
  <2>4. Kept(r, T[k])
    BY <2>1, <2>2, <2>3 DEF Kept, DeviationRow, DeviationStatuses, Active
  <2> QED  BY <2>4 DEF r
<1> HIDE DEF T, rows
<1> QED  BY <1>1, <1>2, ChangedRows

LEMMA VerifyKept ==
  ASSUME DeviationInv, NEW i \in DOMAIN deviations, NEW claimed \in 0..1, VerifyDeviation(i, claimed)
  PROVE  RowsKept
<1> DEFINE T == [k \in DOMAIN deviations |->
       [[deviations[k] EXCEPT !.status = "verified", !.recovered = @ + claimed] EXCEPT !.version = @ + 1]]
<1>1. deviations' = [k \in DOMAIN deviations |-> IF k \in {i} THEN T[k] ELSE deviations[k]]
  BY DEF VerifyDeviation, Change
<1>2. Kept(deviations[i], T[i])
  <2> DEFINE r == deviations[i]
             version == r.version + 1
             recovered == r.recovered + claimed
  <2>1. r \in DeviationRow /\ version \in Nat /\ recovered \in Nat /\ r.case \in {"none", "verified"}
    BY NextVersion DEF VerifyDeviation
  <2>2. T[i] = [[r EXCEPT !.status = "verified", !.recovered = recovered] EXCEPT !.version = version]
    BY <2>1 DEF DeviationRow
  <2> HIDE DEF r, version, recovered, T
  <2>3. Kept(r, T[i])
    BY <2>1, <2>2 DEF Kept, DeviationRow, DeviationStatuses
  <2> QED  BY <2>3 DEF r
<1> HIDE DEF T
<1>3. \A k \in DOMAIN deviations : k \in {i} => Kept(deviations[k], T[k])
  BY <1>2
<1> QED  BY <1>1, <1>3, ChangedRows

\* The recovery case takes its deviation with it when it is verified.
LEMMA SettleKept ==
  ASSUME DeviationInv, NEW i \in DOMAIN deviations, NEW verified \in BOOLEAN, SettleCase(i, verified)
  PROVE  RowsKept
<1> DEFINE T == [k \in DOMAIN deviations |->
       [(IF verified THEN [deviations[k] EXCEPT !.case = "verified", !.status = "verified"]
           ELSE [deviations[k] EXCEPT !.case = "abandoned"]) EXCEPT !.version = @ + 1]]
<1>1. deviations' = [k \in DOMAIN deviations |-> IF k \in {i} THEN T[k] ELSE deviations[k]]
  BY DEF SettleCase, Change
<1>2. Kept(deviations[i], T[i])
  <2> DEFINE r == deviations[i]
             version == r.version + 1
             ended == IF verified THEN [r EXCEPT !.case = "verified", !.status = "verified"]
                        ELSE [r EXCEPT !.case = "abandoned"]
  <2>1. r \in DeviationRow /\ version \in Nat
    BY NextVersion
  <2>2. ended.version = r.version
    BY <2>1 DEF DeviationRow
  <2>3. T[i] = [ended EXCEPT !.version = version]
    BY <2>2
  <2> HIDE DEF r, version, T
  <2>4. CASE verified
    <3>1. T[i] = [[r EXCEPT !.case = "verified", !.status = "verified"] EXCEPT !.version = version]
      BY <2>3, <2>4
    <3> QED  BY <2>1, <3>1 DEF r, Kept, DeviationRow, DeviationStatuses, CaseStates
  <2>5. CASE ~ verified
    <3>1. T[i] = [[r EXCEPT !.case = "abandoned"] EXCEPT !.version = version]
      BY <2>3, <2>5
    <3> QED  BY <2>1, <3>1 DEF r, Kept, DeviationRow, DeviationStatuses, CaseStates
  <2> QED  BY <2>4, <2>5
<1> HIDE DEF T
<1>3. \A k \in DOMAIN deviations : k \in {i} => Kept(deviations[k], T[k])
  BY <1>2
<1> QED  BY <1>1, <1>3, ChangedRows

\* A person or a system moves the work on.
LEMMA TransitionKept ==
  ASSUME DeviationInv, NEW i \in DOMAIN deviations,
         NEW command \in {"accept", "start", "wait", "complete", "fail"}, TransitionAction(i, command)
  PROVE  RowsKept
<1> DEFINE r == deviations[i]
           target == Transitions(command)[r.action]
           status == StatusWith(target, r.status)
<1>1. r \in DeviationRow /\ r.blocked \in BOOLEAN /\ r.status \in DeviationStatuses
  <2>1. r \in DeviationRow
    BY NextVersion
  <2> QED  BY <2>1 DEF DeviationRow
<1>2. r.action \in DOMAIN Transitions(command)
  BY DEF TransitionAction
<1>3. target \in {"accepted", "in_progress", "waiting", "completed", "failed"}
  <2>1. CASE command = "accept"
    BY <1>2, <2>1 DEF Transitions
  <2>2. CASE command = "start"
    BY <1>2, <2>2 DEF Transitions
  <2>3. CASE command = "wait"
    BY <1>2, <2>3 DEF Transitions
  <2>4. CASE command \in {"complete", "fail"}
    BY <1>2, <2>4 DEF Transitions
  <2> QED  BY <2>1, <2>2, <2>3, <2>4
<1>4. deviations' = [k \in DOMAIN deviations |-> IF k \in {i}
        THEN [[deviations[k] EXCEPT !.action = target, !.task = target,
                                    !.status = StatusWith(target, @)] EXCEPT !.version = @ + 1]
        ELSE deviations[k]]
  BY DEF TransitionAction, Change
<1>5. status \in DeviationStatuses /\ (status = "verified" => r.status = "verified")
  <2> HIDE DEF target, r
  <2> QED  BY <1>1, <1>3 DEF StatusWith, DeviationStatuses, Active
<1>6. target \in WorkStates
  BY <1>3 DEF WorkStates
<1> DEFINE T == [k \in DOMAIN deviations |->
       [[deviations[k] EXCEPT !.action = target, !.task = target,
                              !.status = StatusWith(target, @)] EXCEPT !.version = @ + 1]]
<1>7. deviations' = [k \in DOMAIN deviations |-> IF k \in {i} THEN T[k] ELSE deviations[k]]
  BY <1>4
<1>8. Kept(r, T[i])
  <2> DEFINE version == r.version + 1
  <2>1. version \in Nat
    BY NextVersion
  <2>2. T[i] = [[r EXCEPT !.action = target, !.task = target, !.status = status] EXCEPT !.version = version]
    <3> HIDE DEF target
    <3>1. T[i] = [[r EXCEPT !.action = target, !.task = target, !.status = StatusWith(target, @)]
                     EXCEPT !.version = @ + 1]
      OBVIOUS
    <3> HIDE DEF T
    <3> QED  BY <1>1, <3>1 DEF DeviationRow
  <2> HIDE DEF r, version, T, target, status
  <2> QED  BY <1>1, <1>5, <1>6, <2>1, <2>2 DEF Kept, DeviationRow
<1>9. \A k \in DOMAIN deviations : k \in {i} => Kept(deviations[k], T[k])
  BY <1>8
<1> HIDE DEF T
<1> QED  BY <1>7, <1>9, ChangedRows

\* The maintenance system's reports.
LEMMA ReportsKept ==
  ASSUME DeviationInv, NEW i \in DOMAIN deviations, SpareAwaited(i) \/ RepairReported(i)
  PROVE  RowsKept
<1> DEFINE r == deviations[i]
           version == r.version + 1
           awaited == [[r EXCEPT !.action = "waiting", !.blocked = TRUE] EXCEPT !.version = version]
           reported == [[r EXCEPT !.action = "completed", !.task = "completed", !.blocked = FALSE,
                                  !.status = "monitoring"] EXCEPT !.version = version]
           T == [k \in DOMAIN deviations |-> IF SpareAwaited(i) THEN awaited ELSE reported]
<1>1. r \in DeviationRow /\ version \in Nat
  BY NextVersion
<1>2. r.version + 1 = version /\ r.version = r.version
  OBVIOUS
<1>3. /\ [[r EXCEPT !.action = "waiting", !.blocked = TRUE] EXCEPT !.version = @ + 1] = awaited
      /\ [[r EXCEPT !.action = "completed", !.task = "completed", !.blocked = FALSE,
                    !.status = "monitoring"] EXCEPT !.version = @ + 1] = reported
  BY <1>1 DEF DeviationRow
<1>4. deviations' = [k \in DOMAIN deviations |-> IF k \in {i} THEN T[k] ELSE deviations[k]]
  <2>1. CASE SpareAwaited(i)
    BY <1>3, <2>1 DEF SpareAwaited, Change
  <2>2. CASE ~ SpareAwaited(i)
    BY <1>3, <2>2, ZenonT(30) DEF RepairReported, Change
  <2> QED  BY <2>1, <2>2
<1>5. Kept(r, awaited)
  <2> HIDE DEF r, version
  <2> QED  BY <1>1 DEF Kept, DeviationRow, WorkStates
<1>6. Kept(r, reported)
  <2> HIDE DEF r, version
  <2> QED  BY <1>1 DEF Kept, DeviationRow, WorkStates, DeviationStatuses, Active
<1>7. \A k \in DOMAIN deviations : k \in {i} => Kept(deviations[k], T[k])
  <2> HIDE DEF awaited, reported
  <2> QED  BY <1>5, <1>6
<1> HIDE DEF T
<1> QED  BY <1>4, <1>7, ChangedRows

\* The rows a detector leaves: a new one, or the one it has read.
LEMMA DetectedKept ==
  ASSUME DeviationAssumption, DeviationInv, NEW d \in Detectors, detecting[d] # Idle,
         NEW rows, rows = RowsAfter(detecting[d])
  PROVE  KeptIn(rows)
<1> DEFINE t == detecting[d]
           r == deviations[t.row]
           version == r.version + 1
<1>1. /\ t.key \in Keys
      /\ t.row # 0 => t.row \in DOMAIN deviations /\ r.key = t.key /\ r \in DeviationRow /\ version \in Nat
  BY NextVersion DEF DeviationInv, DetectorsReadTheirKey
<1>2. deviations \in Seq(DeviationRow)
  BY DEF DeviationInv
<1>3. \A i \in DOMAIN deviations : Kept(deviations[i], deviations[i])
  BY <1>2, KeptAsItIs
<1>4. ASSUME NEW to \in DeviationRow, t.row # 0, Kept(r, to), rows = [deviations EXCEPT ![t.row] = to]
      PROVE  KeptIn(rows)
  BY <1>1, <1>2, <1>3, <1>4, RowWritten DEF KeptIn
<1>5. CASE t.judged = "bad" /\ t.row = 0
  <2> DEFINE new == Opened(t.key, "open")
  <2>1. new \in DeviationRow
    BY <1>1 DEF Opened, DeviationRow, DeviationStatuses, Active, WorkStates, CaseStates
  <2>2. rows = Append(deviations, new)
    BY <1>5 DEF RowsAfter
  <2> HIDE DEF new
  <2> QED  BY <1>2, <1>3, <2>1, <2>2 DEF KeptIn
<1>6. CASE t.judged = "good" /\ t.row # 0
  <2> DEFINE moved == Recover(KindOf[t.key], r)
             to == [moved EXCEPT !.version = version]
  <2>1. /\ moved \in DeviationRow /\ moved.key = r.key /\ moved.version = r.version
        /\ moved.status = "verified" => r.status = "verified" \/ KindOf[t.key] = "output"
    <3> DEFINE done == ActionsDone(r)
    <3>1. done \in DeviationRow /\ done.key = r.key /\ done.version = r.version /\ done.status = r.status
      BY <1>1, <1>6, RecoveredRow
    <3>2. r \in DeviationRow
      BY <1>1, <1>6
    <3> HIDE DEF r, done
    <3>3. moved \in {[done EXCEPT !.status = "verified"], [done EXCEPT !.status = "monitoring"],
                     [r EXCEPT !.status = "monitoring"], r}
      BY DEF Recover, done
    <3>4. moved = [done EXCEPT !.status = "verified"] => KindOf[t.key] = "output" \/ r.status = "verified"
      BY <3>1, <3>2 DEF Recover, done, DeviationRow
    <3> HIDE DEF moved
    <3> QED  BY <3>1, <3>2, <3>3, <3>4 DEF DeviationRow, DeviationStatuses, Active
  <2>2. rows = [deviations EXCEPT ![t.row] = to]
    <3>1. rows = [deviations EXCEPT ![t.row] = [moved EXCEPT !.version = moved.version + 1]]
      BY <1>6 DEF RowsAfter
    <3> HIDE DEF moved
    <3> QED  BY <2>1, <3>1
  <2>3. to \in DeviationRow /\ Kept(r, to)
    <3>1. version \in Nat /\ r.key = t.key
      BY <1>1, <1>6
    <3> HIDE DEF moved, version, r
    <3> QED  BY <2>1, <3>1 DEF Kept, DeviationRow
  <2> HIDE DEF to
  <2> QED  BY <1>4, <1>6, <2>2, <2>3
<1>7. CASE t.judged = "bad" /\ t.row # 0
  <2> DEFINE to == [r EXCEPT !.version = version]
  <2>1. rows = [deviations EXCEPT ![t.row] = to]
    BY <1>7 DEF RowsAfter
  <2>2. to \in DeviationRow /\ Kept(r, to)
    <3>1. version \in Nat /\ r \in DeviationRow
      BY <1>1, <1>7
    <3> HIDE DEF version, r
    <3> QED  BY <3>1 DEF Kept, DeviationRow
  <2> HIDE DEF to
  <2> QED  BY <1>4, <1>7, <2>1, <2>2
<1>8. CASE t.judged # "bad" /\ (t.judged = "good" => t.row = 0)
  <2>1. rows = deviations
    BY <1>8 DEF RowsAfter
  <2> QED  BY <1>2, <1>3, <2>1 DEF KeptIn
<1> QED  BY <1>5, <1>6, <1>7, <1>8

\* A synchronisation verifies what is monitored and has no recovery case.
LEMMA ResumedRows ==
  ASSUME NEW rows \in Seq(DeviationRow)
  PROVE  /\ Resumed(rows) \in Seq(DeviationRow) /\ DOMAIN Resumed(rows) = DOMAIN rows
         /\ \A i \in DOMAIN rows :
              /\ Resumed(rows)[i].key = rows[i].key /\ Resumed(rows)[i].case = rows[i].case
              /\ Kept(rows[i], Resumed(rows)[i])
<1>1. ASSUME NEW i \in DOMAIN rows
      PROVE  /\ Resumed(rows)[i].key = rows[i].key /\ Resumed(rows)[i].case = rows[i].case
             /\ Kept(rows[i], Resumed(rows)[i])
  <2> DEFINE r == rows[i]
             version == r.version + 1
             to == [r EXCEPT !.status = "verified", !.version = version]
  <2>1. r \in DeviationRow
    OBVIOUS
  <2>2. version \in Nat
    BY <2>1 DEF DeviationRow
  <2>3. Resumed(rows)[i] = IF r.status = "monitoring" /\ Unmanaged(r) THEN to ELSE r
    BY DEF Resumed
  <2>4. Unmanaged(r) => Kept(r, to) /\ to.key = r.key /\ to.case = r.case
    <3> HIDE DEF r, version
    <3> QED  BY <2>1, <2>2 DEF Kept, DeviationRow, DeviationStatuses, Unmanaged
  <2> HIDE DEF r, to
  <2>5. Resumed(rows)[i].key = r.key /\ Resumed(rows)[i].case = r.case /\ Kept(r, Resumed(rows)[i])
    BY <2>1, <2>3, <2>4, KeptAsItIs
  <2> QED  BY <2>5 DEF r
<1>2. DOMAIN Resumed(rows) = DOMAIN rows
  BY DEF Resumed
<1>3. \A i \in DOMAIN rows : Resumed(rows)[i] \in DeviationRow
  BY <1>1 DEF Kept
<1>4. DOMAIN rows = 1..Len(rows) /\ Len(rows) \in Nat
  OBVIOUS
<1>5. Resumed(rows) \in [1..Len(rows) -> DeviationRow]
  BY <1>3, <1>4 DEF Resumed
<1>6. Resumed(rows) \in Seq(DeviationRow)
  BY <1>4, <1>5
<1> QED  BY <1>1, <1>2, <1>6

LEMMA CommitKept ==
  ASSUME DeviationAssumption, DeviationInv, NEW d \in Detectors, CommitDetection(d)
  PROVE  RowsKept
<1>1. PICK rows : rows = RowsAfter(detecting[d])
  OBVIOUS
<1>2. /\ detecting[d] # Idle
      /\ deviations' = Resumed(rows) \/ deviations' = rows
  BY <1>1 DEF CommitDetection
<1>3. KeptIn(rows)
  BY <1>1, <1>2, DetectedKept
<1>4. CASE deviations' = rows
  BY <1>3, <1>4 DEF RowsKept
<1>5. CASE deviations' = Resumed(rows)
  <2>1. ASSUME NEW i \in DOMAIN deviations
        PROVE  Kept(deviations[i], Resumed(rows)[i])
    <3>1. /\ Kept(deviations[i], rows[i]) /\ Kept(rows[i], Resumed(rows)[i])
          /\ Resumed(rows)[i].case = rows[i].case
      BY <1>3, ResumedRows DEF KeptIn
    <3> QED  BY <3>1 DEF Kept
  <2> QED  BY <1>3, <1>5, <2>1, ResumedRows DEF RowsKept, KeptIn
<1> QED  BY <1>2, <1>4, <1>5

-----------------------------------------------------------------------------
(* Every step, and what it leaves of what detectors have read.             *)

LEMMA DeviationsKept ==
  ASSUME DeviationAssumption, DeviationInv, [DeviationNext]_deviationVars
  PROVE  RowsKept
<1>1. CASE UNCHANGED deviations
  BY <1>1, KeptAsItIs DEF DeviationInv, RowsKept, KeptIn
<1>2. ASSUME NEW d \in Detectors, CommitDetection(d) \/ AbortDetection(d)
      PROVE  RowsKept
  BY <1>1, <1>2, CommitKept DEF AbortDetection
<1>3. CASE AssetRecovered
  BY <1>3, AssetRecoveredKept
<1>4. ASSUME NEW i \in DOMAIN deviations, SpareAwaited(i) \/ RepairReported(i)
      PROVE  RowsKept
  BY <1>4, ReportsKept
<1>5. ASSUME NEW i \in DOMAIN deviations,
             CompleteMaintenance(i) \/ Assign(i) \/ Acknowledge(i) \/ ResolveDeviation(i)
      PROVE  RowsKept
  <2>1. {"monitoring", "assigned", "investigating", "resolved"} \subseteq Active
    BY DEF Active
  <2> QED
    BY <1>5, <2>1, StatusKept DEF CompleteMaintenance, Assign, Acknowledge, ResolveDeviation
<1>6. ASSUME NEW i \in DOMAIN deviations, NEW claimed \in 0..1, VerifyDeviation(i, claimed)
      PROVE  RowsKept
  BY <1>6, VerifyKept
<1>7. ASSUME NEW i \in DOMAIN deviations, NEW command \in {"accept", "start", "wait", "complete", "fail"},
             TransitionAction(i, command)
      PROVE  RowsKept
  BY <1>7, TransitionKept
<1>8. ASSUME NEW i \in DOMAIN deviations, NEW verified \in BOOLEAN, SettleCase(i, verified)
      PROVE  RowsKept
  BY <1>8, SettleKept
<1> QED
  BY <1>1, <1>2, <1>3, <1>4, <1>5, <1>6, <1>7, <1>8 DEF DeviationNext, Detect, deviationVars

\* A deviation keeps its place and its key, so what was read stays of its key.
LEMMA DetectorsKeep ==
  ASSUME DeviationAssumption, DeviationInv, [DeviationNext]_deviationVars
  PROVE  DeviationInv'
<1>1. RowsKept
  BY DeviationsKept
<1>2. /\ deviations' \in Seq(DeviationRow) /\ DOMAIN deviations \subseteq DOMAIN deviations'
      /\ \A i \in DOMAIN deviations : deviations'[i].key = deviations[i].key
  BY <1>1 DEF RowsKept, KeptIn, Kept
<1>3. ASSUME NEW d \in Detectors, NEW key \in Keys, NEW judged, NEW sync, Detect(d, key, judged, sync)
      PROVE  DOMAIN detecting' = Detectors /\ DetectorsReadTheirKey'
  <2> DEFINE found == ActiveOf(deviations, key)
             row == IF found = {} THEN 0 ELSE CHOOSE i \in found : TRUE
             version == IF row = 0 THEN 0 ELSE deviations[row].version
             read == [key |-> key, judged |-> judged, sync |-> sync, row |-> row, version |-> version]
  <2>1. detecting' = [detecting EXCEPT ![d] = read] /\ UNCHANGED deviations
    BY <1>3 DEF Detect
  <2>2. row # 0 => row \in DOMAIN deviations /\ deviations[row].key = key
    BY DEF ActiveOf
  <2>3. read.key = key /\ read.row = row
    OBVIOUS
  <2> HIDE DEF row, version, read
  <2> QED  BY <2>1, <2>2, <2>3 DEF DeviationInv, DetectorsReadTheirKey
<1>4. ASSUME \/ UNCHANGED detecting
             \/ \E d \in Detectors : detecting' = [detecting EXCEPT ![d] = Idle]
      PROVE  DOMAIN detecting' = Detectors /\ DetectorsReadTheirKey'
  BY <1>2, <1>4 DEF DeviationInv, DetectorsReadTheirKey
<1>5. DOMAIN detecting' = Detectors /\ DetectorsReadTheirKey'
  BY <1>3, <1>4
     DEF DeviationNext, deviationVars, CommitDetection, AbortDetection, AssetRecovered, SpareAwaited,
         RepairReported, CompleteMaintenance, Assign, Acknowledge, ResolveDeviation, VerifyDeviation,
         TransitionAction, SettleCase
<1> QED  BY <1>2, <1>5 DEF DeviationInv

\* The inductive invariant: a detector writes to a deviation of the key it has
\* judged (the active row it has read, under optimistic locking).
THEOREM DeviationInvariant ==
  ASSUME DeviationAssumption
  PROVE  DeviationSpec => []DeviationInv
<1>1. ASSUME DeviationInit
      PROVE  DeviationInv
  <2>1. PICK keys \in SUBSET Seeded :
          deviations = IF keys = {} THEN <<>> ELSE <<Opened(CHOOSE k \in keys : TRUE, "none")>>
    BY <1>1 DEF DeviationInit
  <2>2. keys # {} => (CHOOSE k \in keys : TRUE) \in Keys
    BY <2>1, DeviationAssumption DEF DeviationAssumption
  <2>3. \A k \in Keys : Opened(k, "none") \in DeviationRow
    BY DEF Opened, DeviationRow, DeviationStatuses, Active, WorkStates, CaseStates
  <2>4. deviations \in Seq(DeviationRow)
    BY <2>1, <2>2, <2>3
  <2>5. detecting = [d \in Detectors |-> Idle]
    BY <1>1 DEF DeviationInit
  <2> QED  BY <2>4, <2>5 DEF DeviationInv, DetectorsReadTheirKey
<1>2. DeviationInv /\ [DeviationNext]_deviationVars => DeviationInv'
  BY DetectorsKeep, DeviationAssumption
<1> QED  BY <1>1, <1>2, PTL DEF DeviationSpec

\* A constraint with a recovery case is verified by its case only, for any
\* detectors, synchronisations, reports and commands in between.
THEOREM CasesVerifyTheirDeviations ==
  ASSUME DeviationAssumption
  PROVE  DeviationSpec => VerifiedByItsCase
<1>1. ASSUME DeviationInv, [DeviationNext]_deviationVars, NEW i \in DOMAIN deviations,
             KindOf[deviations[i].key] # "output", Verified(i)
      PROVE  deviations'[i].case \in {"none", "verified"}
  <2>1. Kept(deviations[i], deviations'[i])
    BY <1>1, DeviationsKept, DeviationAssumption DEF RowsKept, KeptIn
  <2> QED  BY <1>1, <2>1 DEF Kept, Verified
<1>2. DeviationInv /\ [DeviationNext]_deviationVars =>
        [\A i \in DOMAIN deviations :
           KindOf[deviations[i].key] # "output" /\ Verified(i)
             => deviations'[i].case \in {"none", "verified"}]_deviationVars
  BY <1>1
<1>3. DeviationSpec => []DeviationInv
  BY DeviationInvariant, DeviationAssumption
<1> QED  BY <1>2, <1>3, PTL DEF DeviationSpec, VerifiedByItsCase

-----------------------------------------------------------------------------
(***************************************************************************)
(* InventoryFeed, for any files and materials and any order in which they  *)
(* are applied and their events consumed.  An observation is unread, or    *)
(* the position of its material is as new: files add observations with     *)
(* their events, and the consumer drops only what is older.                *)
(***************************************************************************)

FeedRow(D) == [file : Files, status : D, outcome : D]

\* Records report what a row of a file said.
FactsAreRows ==
  \A id \in DOMAIN facts :
    /\ id = <<id[1], id[2]>>
    /\ facts[id].material \in Materials /\ facts[id].says \in Nat

\* The position of a material is that of an observation, or of none.
PositionIsObserved ==
  \A m \in Materials : position[m] = 0 \/ position[m] \in ObservedOf(m)

\* What has been consumed is not newer than the position.
UnreadOrShown ==
  \A id \in DOMAIN facts : id[1] = "stock" =>
    id[2] \in unread \/ facts[id].says <= position[facts[id].material]

FeedInv ==
  /\ \E D : feeds \in Seq(FeedRow(D))
  /\ position \in [Materials -> Nat]
  /\ FactsAreRows
  /\ \A key \in unread : <<"stock", key>> \in DOMAIN facts
  /\ PositionIsObserved
  /\ UnreadOrShown

\* A file is previewed: nothing is known of it yet.
LEMMA PreviewFeedKeeps ==
  ASSUME FeedInv, NEW file \in Files, PreviewFeed(file)
  PROVE  FeedInv'
<1>1. PICK D : feeds \in Seq(FeedRow(D))
  BY DEF FeedInv
<1> DEFINE E == D \union {"previewed", <<>>}
           row == [file |-> file, status |-> "previewed", outcome |-> <<>>]
<1>2. row \in FeedRow(E)
  BY DEF FeedRow
<1>3. feeds \in Seq(FeedRow(E))
  <2>1. FeedRow(D) \subseteq FeedRow(E)
    BY DEF FeedRow
  <2> QED  BY <1>1, <2>1, WiderRows
<1>4. /\ feeds' = Append(feeds, row)
      /\ UNCHANGED <<facts, unread, position>>
  BY DEF PreviewFeed
<1> HIDE DEF E, row
<1>5. feeds' \in Seq(FeedRow(E))
  BY <1>2, <1>3, <1>4
<1> QED
  BY <1>4, <1>5 DEF FeedInv, FactsAreRows, PositionIsObserved, UnreadOrShown, ObservedOf

\* A file is applied: its observations are added, with their events.
LEMMA CommitFeedKeeps ==
  ASSUME FeedAssumption, FeedInv, NEW i \in DOMAIN feeds, CommitFeed(i)
  PROVE  FeedInv'
<1>1. PICK D : feeds \in Seq(FeedRow(D))
  BY DEF FeedInv
<1> DEFINE file == feeds[i].file
           applied == Applied(file)
           told == {row \in applied : row.kind # "material"}
           results == [row \in file |-> Outcome(row, file)]
           status == IF \E row \in file : Outcome(row, file) = "error"
                       THEN "partially_completed" ELSE "completed"
           E == D \union {results, status}
           row == [feeds[i] EXCEPT !.outcome = results, !.status = status]
<1>2. feeds \in Seq(FeedRow(E))
  <2>1. FeedRow(D) \subseteq FeedRow(E)
    BY DEF FeedRow
  <2> QED  BY <1>1, <2>1, WiderRows
<1>3. feeds[i] \in FeedRow(E)
  BY <1>2
<1>4. file \in Files
  BY <1>3 DEF FeedRow
<1>5. /\ feeds' = [feeds EXCEPT ![i] = row]
      /\ facts' = FactsWith(told)
      /\ unread' = unread \union {r.key : r \in {q \in applied : q.kind = "stock"}}
      /\ position' = position
  BY DEF CommitFeed
<1>6. \A r \in told : r \in applied /\ r.kind \in RowKinds /\ r.material \in Materials /\ r.says \in Nat
  BY <1>4 DEF FeedAssumption, Applied
<1> HIDE DEF file, applied, results, status
<1>7. row \in FeedRow(E)
  <2>1. results \in E /\ status \in E
    OBVIOUS
  <2> HIDE DEF E
  <2> QED  BY <1>3, <2>1 DEF FeedRow
<1> HIDE DEF E, row
<1>8. feeds' \in Seq(FeedRow(E))
  BY <1>2, <1>5, <1>7, RowWritten
<1>9. /\ DOMAIN facts' = DOMAIN facts \union {Id(r) : r \in told}
      /\ \A id \in DOMAIN facts : facts'[id] = facts[id]
  BY <1>5 DEF FactsWith
<1>10. ASSUME NEW id \in DOMAIN facts', id \notin DOMAIN facts
       PROVE  \E r \in told : /\ Id(r) = id
                              /\ facts'[id] = [material |-> r.material, says |-> r.says]
  <2>1. \E r \in told : Id(r) = id
    BY <1>9, <1>10
  <2> DEFINE r == CHOOSE r \in told : Id(r) = id
  <2>2. r \in told /\ Id(r) = id
    BY <2>1
  <2>3. facts'[id] = [material |-> r.material, says |-> r.says]
    BY <1>5, <1>10 DEF FactsWith
  <2> HIDE DEF r
  <2> QED  BY <2>2, <2>3
<1> HIDE DEF told
<1>11. FactsAreRows'
  <2>1. ASSUME NEW id \in DOMAIN facts'
        PROVE  /\ id = <<id[1], id[2]>>
               /\ facts'[id].material \in Materials /\ facts'[id].says \in Nat
    <3>1. CASE id \in DOMAIN facts
      BY <1>9, <3>1 DEF FeedInv, FactsAreRows
    <3>2. CASE id \notin DOMAIN facts
      BY <1>6, <1>10, <3>2 DEF Id
    <3> QED  BY <3>1, <3>2
  <2> QED  BY <2>1 DEF FactsAreRows
<1>12. \A key \in unread' : <<"stock", key>> \in DOMAIN facts'
  BY <1>5, <1>9 DEF FeedInv, Id, told
<1>13. PositionIsObserved'
  BY <1>5, <1>9 DEF FeedInv, PositionIsObserved, ObservedOf
<1>14. UnreadOrShown'
  <2>1. ASSUME NEW id \in DOMAIN facts', id[1] = "stock"
        PROVE  id[2] \in unread' \/ facts'[id].says <= position'[facts'[id].material]
    <3>1. CASE id \in DOMAIN facts
      BY <1>5, <1>9, <2>1, <3>1 DEF FeedInv, UnreadOrShown
    <3>2. CASE id \notin DOMAIN facts
      BY <1>5, <1>6, <1>10, <2>1, <3>2 DEF Id
    <3> QED  BY <3>1, <3>2
  <2> QED  BY <2>1 DEF UnreadOrShown
<1> QED  BY <1>5, <1>8, <1>11, <1>12, <1>13, <1>14 DEF FeedInv

\* An event is consumed: its observation is shown unless it is older.
LEMMA HearKeeps ==
  ASSUME FeedInv, NEW key \in unread, Hear(key)
  PROVE  FeedInv'
<1> DEFINE id == <<"stock", key>>
           o == facts[id]
<1>1. id \in DOMAIN facts /\ o.material \in Materials /\ o.says \in Nat
  BY DEF FeedInv, FactsAreRows
<1>2. /\ unread' = unread \ {key}
      /\ position' = IF Shows(o) THEN [position EXCEPT ![o.material] = o.says] ELSE position
      /\ UNCHANGED <<facts, feeds>>
  BY DEF Hear
<1>3. /\ position' \in [Materials -> Nat]
      /\ \A m \in Materials : position[m] <= position'[m]
      /\ o.says <= position'[o.material]
      /\ \A m \in Materials : position'[m] = position[m] \/ (m = o.material /\ position'[m] = o.says)
  BY <1>1, <1>2 DEF FeedInv, Shows
<1>4. o.says \in ObservedOf(o.material)
  BY <1>1 DEF ObservedOf
<1>5. PositionIsObserved'
  <2>1. \A m \in Materials : ObservedOf(m)' = ObservedOf(m)
    BY <1>2 DEF ObservedOf
  <2> HIDE DEF o
  <2> QED  BY <1>3, <1>4, <2>1 DEF FeedInv, PositionIsObserved
<1>6. UnreadOrShown'
  <2>1. ASSUME NEW x \in DOMAIN facts, x[1] = "stock", x[2] \notin unread'
        PROVE  facts[x].says <= position'[facts[x].material]
    <3>1. /\ x = <<x[1], x[2]>> /\ facts[x].material \in Materials /\ facts[x].says \in Nat
      BY DEF FeedInv, FactsAreRows
    <3>2. CASE x[2] = key
      <4>1. x = id
        BY <2>1, <3>1, <3>2
      <4> QED  BY <1>3, <4>1
    <3>3. CASE x[2] # key
      <4>1. facts[x].says <= position[facts[x].material]
        BY <1>2, <2>1, <3>3 DEF FeedInv, UnreadOrShown
      <4> QED  BY <1>3, <3>1, <4>1 DEF FeedInv
    <3> QED  BY <3>2, <3>3
  <2> QED  BY <1>2, <2>1 DEF UnreadOrShown
<1> QED  BY <1>2, <1>3, <1>5, <1>6 DEF FeedInv, FactsAreRows

\* The inductive invariant: an observation has an event that is not consumed,
\* or is not newer than the position (platform_inventory_state_consumer).
THEOREM FeedInvariant ==
  ASSUME FeedAssumption
  PROVE  FeedSpec => []FeedInv
<1>1. FeedInit => FeedInv
  BY DEF FeedInit, FeedInv, FactsAreRows, PositionIsObserved, UnreadOrShown
<1>2. FeedInv /\ [FeedNext]_feedVars => FeedInv'
  <2> SUFFICES ASSUME FeedInv, [FeedNext]_feedVars
               PROVE  FeedInv'
    OBVIOUS
  <2>1. CASE UNCHANGED feedVars
    BY <2>1 DEF feedVars, FeedInv, FactsAreRows, PositionIsObserved, UnreadOrShown, ObservedOf
  <2> QED
    BY <2>1, PreviewFeedKeeps, CommitFeedKeeps, HearKeeps, FeedAssumption DEF FeedNext
<1> QED  BY <1>1, <1>2, PTL DEF FeedSpec

\* Once every event is consumed the position of a material is that of its
\* newest observation, in whatever order files and events were taken.
THEOREM PositionsAreNewest ==
  ASSUME FeedAssumption
  PROVE  FeedSpec => []PositionIsNewest
<1>1. FeedInv => PositionIsNewest
  <2> SUFFICES ASSUME FeedInv, unread = {}, NEW m \in Materials
               PROVE  position[m] = Max(ObservedOf(m) \union {0})
    BY DEF PositionIsNewest
  <2> DEFINE S == ObservedOf(m) \union {0}
  <2>1. position[m] \in S /\ position[m] \in Nat
    BY DEF FeedInv, PositionIsObserved
  <2>2. \A x \in S : x \in Nat /\ x <= position[m]
    BY <2>1 DEF FeedInv, UnreadOrShown, FactsAreRows, ObservedOf
  <2> HIDE DEF S
  <2>3. position[m] = Max(S)
    BY <2>1, <2>2 DEF Max
  <2> QED  BY <2>3 DEF S
<1> QED  BY <1>1, FeedInvariant, FeedAssumption, PTL

-----------------------------------------------------------------------------
(***************************************************************************)
(* ConnectorFeed, for any stream, any number of jobs and of messages.  The *)
(* cursor of a job that counts is backed by all that was stored and        *)
(* reported before it: it starts from the cursor of such a job, and every  *)
(* record it pulls is stored or reported.                                  *)
(***************************************************************************)

JobRow == [dataset : Datasets, status : {"queued", "failed", "completed", "completed_with_errors"},
           cursor : Nat, errors : SUBSET Nat]

JobsAreRows ==
  /\ stream \in Seq(RecordKinds) /\ syncJobs \in Seq(JobRow) /\ finished \in Seq(Nat)
  /\ \A i \in DOMAIN finished :
       finished[i] \in DOMAIN syncJobs /\ syncJobs[finished[i]].status # "queued"
  /\ \A j \in DOMAIN syncJobs : syncJobs[j].status = "queued" => syncJobs[j].errors = {}

\* A record was stored, or a job reported it.
Accounted(key) == key \in points \/ \E j \in DOMAIN syncJobs : key \in syncJobs[j].errors

Backed(j) == \A key \in 1..syncJobs[j].cursor : Accounted(key)

CursorsAreBacked ==
  \A j \in DOMAIN syncJobs : syncJobs[j].dataset = "actuals" /\ Counted(syncJobs[j].status) => Backed(j)

MessagesAreKept ==
  /\ raised \in Nat /\ spool \subseteq Nat /\ sentOut \subseteq Nat /\ alarms \in Seq(Nat)
  /\ \A m \in 1..raised : m \in spool \/ \E i \in DOMAIN alarms : alarms[i] = m

FeedIsComplete == JobsAreRows /\ CursorsAreBacked /\ MessagesAreKept

-----------------------------------------------------------------------------
(* Lemmas about cursors.                                                   *)

\* A set of places of a sequence has a last one.
LEMMA LastPlace ==
  ASSUME NEW n \in Nat, NEW S, S \subseteq 1..n, S # {}
  PROVE  Max(S) \in S /\ \A k \in S : k <= Max(S)
<1> DEFINE From(k) == {j \in S : k <= j}
           T == {From(k) : k \in S}
           F == FiniteSubsetsOf(S)
           less == StrictSubsetOrdering(S)
<1>1. IsFiniteSet(1..n)
  BY FS_Interval
<1>2. IsFiniteSet(S)
  BY <1>1, FS_Subset
<1>3. T \subseteq SUBSET S /\ T # {}
  OBVIOUS
<1>4. T \subseteq F
  BY <1>2, <1>3, FS_FiniteSubsetsOfFinite
<1>5. IsWellFoundedOn(less, F)
  BY FS_StrictSubsetOrderingWellFounded
<1>6. \A a, b \in SUBSET S : a \subseteq b /\ a # b => <<a, b>> \in less
  BY DEF StrictSubsetOrdering
<1> HIDE DEF F, less
<1>7. \E x \in T : \A y \in T : ~ (<<y, x>> \in less)
  <2> HIDE DEF T
  <2> QED  BY <1>3, <1>4, <1>5, WFMin
<1>8. PICK k \in S : \A j \in S : ~ (<<From(j), From(k)>> \in less)
  BY <1>7
<1>9. \A j \in S : ~ (From(j) \subseteq From(k) /\ From(j) # From(k))
  BY <1>3, <1>6, <1>8
<1>10. ASSUME NEW j \in S
       PROVE  j <= k
  <2>1. SUFFICES ASSUME k < j
                 PROVE  FALSE
    BY SMT
  <2>2. j \in Int /\ k \in Int /\ S \subseteq Int
    OBVIOUS
  <2>3. k \in From(k) /\ k \notin From(j)
    BY <2>1, <2>2
  <2>4. From(j) \subseteq From(k)
    <3>1. ASSUME NEW i \in From(j)
          PROVE  i \in From(k)
      <4>1. i \in S /\ i \in Int /\ j <= i
        BY <2>2
      <4>2. k <= i
        BY <2>1, <2>2, <4>1
      <4> QED  BY <4>1, <4>2
    <3> HIDE DEF From
    <3> QED  BY <3>1
  <2>5. From(j) # From(k)
    BY <2>3
  <2> QED  BY <1>9, <2>4, <2>5
<1> QED  BY <1>10 DEF Max

LEMMA Smallest ==
  ASSUME NEW a \in Nat, NEW b \in Nat
  PROVE  Min({a, b}) \in {a, b} /\ Min({a, b}) \in Nat
<1> DEFINE m == IF a <= b THEN a ELSE b
<1>1. m \in {a, b} /\ \A y \in {a, b} : m =< y
  OBVIOUS
<1>2. Min({a, b}) \in {a, b}
  BY <1>1 DEF Min
<1> QED  BY <1>2

\* The stream is read on from the cursor of a job that counts.
LEMMA PriorIsBacked ==
  ASSUME JobsAreRows, CursorsAreBacked
  PROVE  PriorCursor("actuals") \in Nat /\ \A key \in 1..PriorCursor("actuals") : Accounted(key)
<1> DEFINE own == {i \in Recent : syncJobs[finished[i]].dataset = "actuals"}
           last == finished[Max(own)]
<1>1. PriorCursor("actuals") = IF own = {} THEN 0 ELSE syncJobs[last].cursor
  BY DEF PriorCursor
<1>2. /\ own \subseteq 1..Len(finished) /\ Len(finished) \in Nat
      /\ \A i \in own : /\ i \in DOMAIN finished /\ Counted(syncJobs[finished[i]].status)
                        /\ syncJobs[finished[i]].dataset = "actuals"
  BY DEF JobsAreRows, Recent
<1> HIDE DEF own
<1>3. CASE own = {}
  BY <1>1, <1>3
<1>4. CASE own # {}
  <2>1. Max(own) \in own
    BY <1>2, <1>4, LastPlace
  <2>2. /\ last \in DOMAIN syncJobs /\ Counted(syncJobs[last].status)
        /\ syncJobs[last].dataset = "actuals"
    BY <1>2, <2>1 DEF JobsAreRows
  <2> HIDE DEF last
  <2>3. syncJobs[last] \in JobRow
    BY <2>2 DEF JobsAreRows
  <2>4. syncJobs[last].cursor \in Nat
    BY <2>3 DEF JobRow
  <2>5. Backed(last)
    BY <2>2 DEF CursorsAreBacked
  <2> QED  BY <1>1, <1>4, <2>4, <2>5 DEF Backed
<1> QED  BY <1>3, <1>4

\* What is accounted for stays so.
AccountsGrow ==
  /\ points \subseteq points'
  /\ \A j \in DOMAIN syncJobs : j \in DOMAIN syncJobs' /\ syncJobs[j].errors \subseteq syncJobs'[j].errors

LEMMA AccountedStays ==
  ASSUME AccountsGrow, NEW key, Accounted(key)
  PROVE  Accounted(key)'
BY DEF AccountsGrow, Accounted

\* A job that was queued ends.
LEMMA JobFinished ==
  ASSUME FeedIsComplete, NEW j \in DOMAIN syncJobs, syncJobs[j].status = "queued",
         NEW status \in {"failed", "completed", "completed_with_errors"},
         NEW cursor \in Nat, NEW errors \in SUBSET Nat,
         Finish(j, status, cursor, errors), points \subseteq points', UNCHANGED <<stream, edgeVars>>,
         syncJobs[j].dataset = "actuals" /\ Counted(status) =>
           \A key \in 1..cursor : Accounted(key) \/ key \in points' \/ key \in errors
  PROVE  FeedIsComplete'
<1> DEFINE row == [syncJobs[j] EXCEPT !.status = status, !.cursor = cursor, !.errors = errors]
<1>1. syncJobs' = [syncJobs EXCEPT ![j] = row] /\ finished' = Append(finished, j)
  BY DEF Finish
<1>2. /\ row \in JobRow /\ row.status = status /\ row.cursor = cursor /\ row.errors = errors
      /\ row.dataset = syncJobs[j].dataset
  <2>1. syncJobs[j] \in JobRow
    BY DEF FeedIsComplete, JobsAreRows
  <2> QED  BY <2>1 DEF JobRow
<1> HIDE DEF row
<1>3. /\ syncJobs' \in Seq(JobRow) /\ DOMAIN syncJobs' = DOMAIN syncJobs /\ syncJobs'[j] = row
      /\ \A k \in DOMAIN syncJobs : k # j => syncJobs'[k] = syncJobs[k]
  BY <1>1, <1>2, RowWritten DEF FeedIsComplete, JobsAreRows
<1>4. JobsAreRows'
  <2>1. /\ finished' \in Seq(Nat) /\ DOMAIN finished' = DOMAIN finished \union {Len(finished) + 1}
        /\ \A i \in DOMAIN finished : finished'[i] = finished[i]
        /\ finished'[Len(finished) + 1] = j
    <3>1. finished \in Seq(Nat) /\ j \in Nat
      BY DEF FeedIsComplete, JobsAreRows
    <3> QED  BY <1>1, <3>1
  <2>2. \A i \in DOMAIN finished' :
          finished'[i] \in DOMAIN syncJobs' /\ syncJobs'[finished'[i]].status # "queued"
    BY <1>2, <1>3, <2>1 DEF FeedIsComplete, JobsAreRows
  <2>3. \A k \in DOMAIN syncJobs' : syncJobs'[k].status = "queued" => syncJobs'[k].errors = {}
    BY <1>2, <1>3 DEF FeedIsComplete, JobsAreRows
  <2> QED  BY <1>3, <2>1, <2>2, <2>3 DEF FeedIsComplete, JobsAreRows
<1>5. AccountsGrow
  BY <1>3 DEF AccountsGrow, FeedIsComplete, JobsAreRows
<1>6. CursorsAreBacked'
  <2>1. ASSUME NEW k \in DOMAIN syncJobs', syncJobs'[k].dataset = "actuals", Counted(syncJobs'[k].status),
               NEW key \in 1..syncJobs'[k].cursor
        PROVE  Accounted(key)'
    <3>1. CASE k = j
      <4>1. Accounted(key) \/ key \in points' \/ key \in errors
        BY <1>2, <1>3, <2>1, <3>1
      <4>2. key \in points' \/ key \in errors => Accounted(key)'
        BY <1>2, <1>3 DEF Accounted
      <4> QED  BY <1>5, <4>1, <4>2, AccountedStays
    <3>2. CASE k # j
      <4>1. Accounted(key)
        BY <1>3, <2>1, <3>2 DEF FeedIsComplete, CursorsAreBacked, Backed
      <4> QED  BY <1>5, <4>1, AccountedStays
    <3> QED  BY <3>1, <3>2
  <2> QED  BY <2>1 DEF CursorsAreBacked, Backed
<1> QED  BY <1>4, <1>6 DEF FeedIsComplete, MessagesAreKept, edgeVars

LEMMA QueueKeeps ==
  ASSUME FeedIsComplete, NEW dataset \in Datasets, Queue(dataset)
  PROVE  FeedIsComplete'
<1> DEFINE row == [dataset |-> dataset, status |-> "queued", cursor |-> 0, errors |-> {}]
<1>1. row \in JobRow /\ row.status = "queued" /\ row.errors = {}
  BY DEF JobRow
<1>2. /\ syncJobs' = Append(syncJobs, row)
      /\ UNCHANGED <<points, stream, finished, edgeVars>>
  BY DEF Queue, feedState
<1> HIDE DEF row
<1>3. /\ syncJobs' \in Seq(JobRow) /\ DOMAIN syncJobs' = DOMAIN syncJobs \union {Len(syncJobs) + 1}
      /\ syncJobs'[Len(syncJobs) + 1] = row
      /\ \A j \in DOMAIN syncJobs : syncJobs'[j] = syncJobs[j]
  <2>1. syncJobs \in Seq(JobRow)
    BY DEF FeedIsComplete, JobsAreRows
  <2> QED  BY <1>1, <1>2, <2>1
<1>4. JobsAreRows'
  BY <1>1, <1>2, <1>3 DEF FeedIsComplete, JobsAreRows
<1>5. AccountsGrow
  BY <1>2, <1>3 DEF AccountsGrow
<1>6. CursorsAreBacked'
  <2>1. ASSUME NEW k \in DOMAIN syncJobs', syncJobs'[k].dataset = "actuals", Counted(syncJobs'[k].status),
               NEW key \in 1..syncJobs'[k].cursor
        PROVE  Accounted(key)'
    <3>1. k \in DOMAIN syncJobs /\ syncJobs'[k] = syncJobs[k]
      BY <1>1, <1>3, <2>1 DEF Counted
    <3>2. Accounted(key)
      BY <2>1, <3>1 DEF FeedIsComplete, CursorsAreBacked, Backed
    <3> QED  BY <1>5, <3>2, AccountedStays
  <2> QED  BY <2>1 DEF CursorsAreBacked, Backed
<1> QED  BY <1>2, <1>4, <1>6 DEF FeedIsComplete, MessagesAreKept, edgeVars

\* What a job pulls is stored before, stored now, or reported.
LEMMA RunSyncKeeps ==
  ASSUME ConnectorAssumption, FeedIsComplete, NEW j \in DOMAIN syncJobs, RunSync(j)
  PROVE  FeedIsComplete'
<1> DEFINE dataset == syncJobs[j].dataset
           from == PriorCursor(dataset)
           upto == Min({from + PullLimit, Len(stream)})
           pulled == IF dataset = "actuals" THEN (from + 1)..upto ELSE {}
           stored == Storable(New(pulled))
           odd == {key \in stored : stream[key] = "odd"}
           status == IF New(pulled) = stored THEN "completed" ELSE "completed_with_errors"
           cursor == IF dataset = "actuals" THEN upto ELSE 0
           errors == New(pulled) \ stored
<1>1. /\ syncJobs[j].status = "queued"
      /\ points' = points \union stored
      /\ \/ Finish(j, status, cursor, errors)
         \/ Finish(j, "failed", 0, {})
      /\ UNCHANGED <<stream, edgeVars>>
  BY DEF RunSync
<1>2. dataset = "actuals" =>
        from \in Nat /\ upto \in Nat /\ \A key \in 1..from : Accounted(key)
  <2>1. ASSUME dataset = "actuals"
        PROVE  from \in Nat /\ \A key \in 1..from : Accounted(key)
    BY <2>1, PriorIsBacked DEF FeedIsComplete
  <2>2. PullLimit \in Nat /\ Len(stream) \in Nat
    BY DEF ConnectorAssumption, FeedIsComplete, JobsAreRows
  <2> HIDE DEF from, dataset
  <2> QED  BY <2>1, <2>2, Smallest
<1>3. cursor \in Nat /\ errors \in SUBSET Nat
  <2>1. pulled \subseteq Nat
    <3> HIDE DEF upto, from, dataset
    <3> QED  BY <1>2
  <2>2. errors \subseteq pulled
    BY DEF New
  <2> HIDE DEF upto, dataset, pulled, errors
  <2> QED  BY <1>2, <2>1, <2>2
<1>4. dataset = "actuals" => \A key \in 1..cursor : Accounted(key) \/ key \in points' \/ key \in errors
  <2>1. ASSUME dataset = "actuals", NEW key \in 1..upto
        PROVE  Accounted(key) \/ key \in points' \/ key \in errors
    <3>1. CASE key \in 1..from
      BY <1>2, <2>1, <3>1
    <3>2. CASE key \notin 1..from
      <4>1. key \in pulled
        <5> HIDE DEF from, upto, dataset
        <5> QED  BY <1>2, <2>1, <3>2
      <4>2. key \in points \/ key \in New(pulled)
        <5> HIDE DEF pulled
        <5> QED  BY <4>1 DEF New
      <4>3. key \in points \/ key \in stored \/ key \in errors
        <5> HIDE DEF stored, pulled
        <5> QED  BY <4>2
      <4> HIDE DEF stored, errors
      <4> QED  BY <1>1, <4>3
    <3> QED  BY <3>1, <3>2
  <2> HIDE DEF upto, dataset, errors
  <2> QED  BY <2>1
<1>5. status \in {"failed", "completed", "completed_with_errors"} /\ points \subseteq points'
  BY <1>1
<1> HIDE DEF status, cursor, errors, stored
<1>6. CASE Finish(j, status, cursor, errors)
  BY <1>1, <1>3, <1>4, <1>5, <1>6, JobFinished
<1>7. CASE Finish(j, "failed", 0, {})
  <2>1. ~ Counted("failed")
    BY DEF Counted
  <2> QED  BY <1>1, <1>5, <1>7, <2>1, JobFinished
<1> QED  BY <1>1, <1>6, <1>7

LEMMA FailSyncKeeps ==
  ASSUME FeedIsComplete, NEW j \in DOMAIN syncJobs, FailSync(j)
  PROVE  FeedIsComplete'
<1>1. ~ Counted("failed")
  BY DEF Counted
<1> QED  BY <1>1, JobFinished DEF FailSync, feedState

\* Nothing of jobs, cursors or records is written.
LEMMA CursorsStay ==
  ASSUME FeedIsComplete, UNCHANGED <<stream, syncJobs, finished, points>>
  PROVE  JobsAreRows' /\ CursorsAreBacked'
BY DEF FeedIsComplete, JobsAreRows, CursorsAreBacked, Backed, Accounted

LEMMA StreamKeeps ==
  ASSUME ConnectorAssumption, FeedIsComplete, StreamNext
  PROVE  FeedIsComplete'
<1>1. ASSUME NEW kind \in RecordKinds, Produce(kind)
      PROVE  FeedIsComplete'
  BY <1>1 DEF Produce, FeedIsComplete, JobsAreRows, CursorsAreBacked, Backed, Accounted, MessagesAreKept, edgeVars
<1>2. CASE OrderArrives \/ \E mode \in {"live", "disconnected"} : SetMode(mode)
  BY <1>2, CursorsStay DEF OrderArrives, SetMode, feedState, edgeVars, FeedIsComplete, MessagesAreKept
<1>3. ASSUME NEW dataset \in Datasets, SyncNow(dataset) \/ ScheduleSync(dataset)
      PROVE  FeedIsComplete'
  BY <1>3, QueueKeeps DEF SyncNow, ScheduleSync
<1>4. ASSUME NEW j \in DOMAIN syncJobs, RunSync(j) \/ FailSync(j)
      PROVE  FeedIsComplete'
  BY <1>4, RunSyncKeeps, FailSyncKeeps
<1> QED  BY <1>1, <1>2, <1>3, <1>4 DEF StreamNext

\* A message leaves the gateway's store when the platform has acted on it.
LEMMA EdgeKeeps ==
  ASSUME FeedIsComplete, EdgeNext
  PROVE  FeedIsComplete'
<1>1. CASE Raise
  BY <1>1, CursorsStay DEF Raise, feedState, FeedIsComplete, MessagesAreKept
<1>2. ASSUME NEW m \in spool, Flush(m)
      PROVE  FeedIsComplete'
  BY <1>2, CursorsStay DEF Flush, feedState, FeedIsComplete, MessagesAreKept
<1>3. ASSUME NEW m \in sentOut, NEW accepted \in BOOLEAN, NEW answered \in BOOLEAN, Serve(m, accepted, answered)
      PROVE  FeedIsComplete'
  <2>1. /\ m \in Nat /\ alarms \in Seq(Nat)
        /\ alarms' = IF accepted /\ ~ \E i \in DOMAIN alarms : alarms[i] = m THEN Append(alarms, m) ELSE alarms
        /\ spool' = IF accepted /\ answered THEN spool \ {m} ELSE spool
        /\ sentOut' = sentOut \ {m} /\ raised' = raised
        /\ UNCHANGED <<stream, syncJobs, finished, points>>
    BY <1>3 DEF Serve, Done, feedState, FeedIsComplete, MessagesAreKept
  <2>2. /\ alarms' \in Seq(Nat) /\ DOMAIN alarms \subseteq DOMAIN alarms'
        /\ \A i \in DOMAIN alarms : alarms'[i] = alarms[i]
        /\ accepted => \E i \in DOMAIN alarms' : alarms'[i] = m
    <3>1. CASE accepted /\ ~ \E i \in DOMAIN alarms : alarms[i] = m
      <4>1. alarms' = Append(alarms, m)
        BY <2>1, <3>1
      <4>2. Len(alarms) + 1 \in DOMAIN alarms' /\ alarms'[Len(alarms) + 1] = m
        BY <2>1, <4>1
      <4> QED  BY <2>1, <4>1, <4>2
    <3>2. CASE ~ (accepted /\ ~ \E i \in DOMAIN alarms : alarms[i] = m)
      BY <2>1, <3>2
    <3> QED  BY <3>1, <3>2
  <2>3. MessagesAreKept'
    BY <2>1, <2>2 DEF FeedIsComplete, MessagesAreKept
  <2> QED  BY <2>1, <2>3, CursorsStay DEF FeedIsComplete
<1> QED  BY <1>1, <1>2, <1>3 DEF EdgeNext

\* The inductive invariant: the cursor of every job that counts is backed by
\* records stored or reported (run_sync_job_by_id), and the gateway keeps what
\* the platform has not acted on (flush).
THEOREM FeedsAreComplete ==
  ASSUME ConnectorAssumption
  PROVE  ConnectorSpec => []FeedIsComplete
<1>1. ConnectorInit => FeedIsComplete
  BY DEF ConnectorInit, FeedIsComplete, JobsAreRows, CursorsAreBacked, MessagesAreKept
<1>2. FeedIsComplete /\ [ConnectorNext]_connectorVars => FeedIsComplete'
  <2> SUFFICES ASSUME FeedIsComplete, [ConnectorNext]_connectorVars
               PROVE  FeedIsComplete'
    OBVIOUS
  <2>1. CASE UNCHANGED connectorVars
    BY <2>1, CursorsStay DEF connectorVars, feedState, edgeVars, FeedIsComplete, MessagesAreKept
  <2> QED  BY <2>1, StreamKeeps, EdgeKeeps, ConnectorAssumption DEF ConnectorNext
<1> QED  BY <1>1, <1>2, PTL DEF ConnectorSpec

\* No record the cursor has passed and no message of the gateway is lost, for
\* any limits, failing jobs, late orders, refusals and lost answers.
THEOREM RecordsAreNotLost ==
  ASSUME ConnectorAssumption
  PROVE  ConnectorSpec => []NothingIsLost
<1>1. FeedIsComplete => NothingIsLost
  BY PriorIsBacked DEF FeedIsComplete, MessagesAreKept, NothingIsLost, Accounted
<1> QED  BY <1>1, FeedsAreComplete, ConnectorAssumption, PTL

-----------------------------------------------------------------------------
(***************************************************************************)
(* ExchangeImport, for any workbooks and any number of batches and edits.  *)
(*                                                                         *)
(* An edit keeps its number, and the number of a batch is that of the last *)
(* edit it was compared with.  A row is proposed as an update only when    *)
(* the record has not been edited since its last synchronisation, so every *)
(* edit that an update finds is a later one (PreviewsSawNoEdit).  That the *)
(* version tells it follows from KnownAgrees, and that a row can only be   *)
(* written to the record it was compared with from the names of records:   *)
(* a requirement gets a name that no record has (RequirementsAreNumbered). *)
(***************************************************************************)

Actions == {"error", "insert", "unchanged", "update", "conflict", "committed"}
ImportRow == [payload : Nat, action : Actions]
ImportRows == UNION {[D -> ImportRow] : D \in SUBSET Kinds}
ImportBatch == [connection : Connections, edits : Nat, rows : ImportRows,
                status : {"previewed", "completed", "completed_with_errors"}]

\* The record of a row, when the key of the row gives it.
NameOf(c, k) == IF k = "item" THEN <<"item", "code">> ELSE <<"order", c>>
RecordNames == {NameOf(c, k) : c \in Connections, k \in {"item", "order"}}
                 \union {<<"requirement", n>> : n \in Nat}

Requirements(R) == {r \in DOMAIN R : r[1] = "requirement"}
RequirementsAreNumbered(R) ==
  /\ IsFiniteSet(Requirements(R))
  /\ \A r \in Requirements(R) : r[2] < Cardinality(Requirements(R))

\* R: the records, n: the edits so far.
RecordsFit(R, n) ==
  /\ R = [r \in DOMAIN R |-> R[r]]
  /\ DOMAIN R \subseteq RecordNames
  /\ \A r \in DOMAIN R : /\ R[r] \in [payload : Nat, version : Nat, edit : 0..n]
                         /\ R[r].edit # 0 => R[r].payload = 0
  /\ RequirementsAreNumbered(R)

\* K: what is known of the records R.
KnownAgrees(K, R) ==
  /\ K = [p \in DOMAIN K |-> K[p]]
  /\ DOMAIN K \subseteq Connections \X Kinds
  /\ \A p \in DOMAIN K :
       /\ K[p].id \in DOMAIN R
       /\ K[p].version \in Nat /\ K[p].version <= R[K[p].id].version
       /\ K[p].version = R[K[p].id].version => R[K[p].id].edit = 0
       /\ p[2] # "requirement" => K[p].id = NameOf(p[1], p[2])

PreviewsSawNoEdit(R) ==
  \A i \in DOMAIN batches : \A k \in DOMAIN batches[i].rows :
    LET r == NameOf(batches[i].connection, k)
    IN batches[i].status = "previewed" =>
         /\ batches[i].rows[k].action \in {"insert", "update"} => batches[i].rows[k].payload # 0
         /\ (k # "requirement" /\ batches[i].rows[k].action = "update" /\ r \in DOMAIN R) =>
              (R[r].edit = 0 \/ batches[i].edits < R[r].edit)

FactoryRow == [contents : Workbooks, part : Nat, status : {"previewed", "completed"}, errors : BOOLEAN]

ImportInv ==
  /\ edits \in Nat
  /\ RecordsFit(records, edits)
  /\ KnownAgrees(known, records)
  /\ batches \in Seq(ImportBatch)
  /\ \A i \in DOMAIN batches : batches[i].edits <= edits
  /\ factory \in Seq(FactoryRow)
  /\ \A f \in DOMAIN factory : factory[f].part \in DOMAIN batches
  /\ PreviewsSawNoEdit(records)

\* What a batch is applied to.
Loaded(R, K, W) == [records |-> R, known |-> K, rows |-> W]

Writes(W, k) == k \in DOMAIN W /\ W[k].action \in {"insert", "update"}

\* What is needed to apply the rows W to the records R.
Ready(R, K, W, n) ==
  /\ RecordsFit(R, n) /\ KnownAgrees(K, R) /\ W \in ImportRows
  /\ \A k \in DOMAIN W : Writes(W, k) => W[k].payload # 0

\* R2 differs from R only in new records and in records that rows of these
\* kinds are written to.
Replaced(R, R2, W, c, kinds) ==
  /\ \A r \in DOMAIN R :
       /\ r \in DOMAIN R2
       /\ \/ R2[r] = R[r]
          \/ /\ R2[r].edit = 0
             /\ \E k \in kinds : Writes(W, k) /\ k # "requirement" /\ r = NameOf(c, k)
  /\ \A r \in DOMAIN R2 : r \in DOMAIN R \/ R2[r].edit = 0

\* The record that is written to: a requirement is always a new one.
LEMMA WrittenTo ==
  ASSUME NEW n \in Nat, NEW R, NEW K, NEW W, NEW c \in Connections, NEW k \in Kinds, RecordsFit(R, n)
  PROVE  LET r == RecordOf(Loaded(R, K, W), c, k)
         IN /\ r \in RecordNames /\ r[1] = k
            /\ k # "requirement" => r = NameOf(c, k)
            /\ k = "requirement" => r \notin DOMAIN R /\ r[2] = Cardinality(Requirements(R))
<1> DEFINE s == Loaded(R, K, W)
           r == RecordOf(s, c, k)
<1>1. IsFiniteSet(Requirements(R)) /\ \A q \in Requirements(R) : q[2] < Cardinality(Requirements(R))
  BY DEF RecordsFit, RequirementsAreNumbered
<1>2. Cardinality(Requirements(R)) \in Nat
  BY <1>1, FS_CardinalityType
<1>3. CASE k = "requirement"
  <2>1. r = <<"requirement", Cardinality(Requirements(R))>>
    BY <1>3 DEF RecordOf, Requirements, Loaded
  <2> DEFINE m == Cardinality(Requirements(R))
  <2> HIDE DEF r, m
  <2>2. r = <<"requirement", m>> /\ m \in Nat
    BY <1>2, <2>1 DEF m
  <2>3. r \in RecordNames /\ r[1] = "requirement" /\ r[2] = m
    BY <2>2 DEF RecordNames
  <2>4. ~ (m < m)
    BY <2>2
  <2>5. r \notin DOMAIN R
    BY <1>1, <2>3, <2>4 DEF Requirements, m
  <2> QED  BY <1>3, <2>3, <2>5 DEF r, m
<1>4. CASE k # "requirement"
  <2>1. k \in {"item", "order"}
    BY <1>4 DEF Kinds
  <2>2. r = NameOf(c, k)
    BY <2>1 DEF RecordOf, NameOf, Loaded
  <2>3. NameOf(c, k) \in RecordNames /\ NameOf(c, k)[1] = k
    BY <2>1 DEF RecordNames, NameOf
  <2> QED  BY <1>4, <2>2, <2>3
<1> QED  BY <1>3, <1>4

\* What is written is synchronised: no edit is left in it.
LEMMA WrittenIsFresh ==
  ASSUME NEW n \in Nat, NEW R, NEW K, NEW W, RecordsFit(R, n), NEW r, NEW p \in Nat \ {0}
  PROVE  LET new == WrittenRecord(Loaded(R, K, W), r, p)
         IN /\ new \in [payload : Nat, version : Nat, edit : 0..n]
            /\ new.edit = 0
            /\ r \in DOMAIN R => (new = R[r] \/ new.version = R[r].version + 1)
<1> DEFINE s == Loaded(R, K, W)
           new == WrittenRecord(s, r, p)
<1>1. CASE r \notin DOMAIN R
  <2>1. new = [payload |-> p, version |-> 1, edit |-> 0]
    BY <1>1 DEF WrittenRecord, Loaded
  <2> QED  BY <1>1, <2>1
<1>2. ASSUME r \in DOMAIN R
      PROVE  /\ R[r] \in [payload : Nat, version : Nat, edit : 0..n]
             /\ R[r].edit # 0 => R[r].payload = 0
  BY <1>2 DEF RecordsFit
<1>3. CASE r \in DOMAIN R /\ R[r].payload = p
  <2>1. new = R[r]
    BY <1>3 DEF WrittenRecord, Loaded
  <2> QED  BY <1>2, <1>3, <2>1
<1>4. CASE r \in DOMAIN R /\ R[r].payload # p
  <2>1. new = [payload |-> p, version |-> R[r].version + 1, edit |-> 0]
    BY <1>4 DEF WrittenRecord, Loaded
  <2>2. R[r].version \in Nat
    BY <1>2, <1>4
  <2> QED  BY <1>4, <2>1, <2>2
<1> QED  BY <1>1, <1>3, <1>4

\* The records with one of them written.
LEMMA RecordEntered ==
  ASSUME NEW n \in Nat, NEW R, RecordsFit(R, n), NEW k \in Kinds, NEW r \in RecordNames, r[1] = k,
         k = "requirement" => r \notin DOMAIN R /\ r[2] = Cardinality(Requirements(R)),
         NEW new \in [payload : Nat, version : Nat, edit : 0..n], new.edit = 0
  PROVE  RecordsFit(Entered(R, r, new), n)
<1> DEFINE S == Entered(R, r, new)
<1>1. /\ DOMAIN S = DOMAIN R \union {r}
      /\ S = [q \in DOMAIN S |-> S[q]]
      /\ S[r] = new
      /\ \A q \in DOMAIN R : q # r => S[q] = R[q]
  BY DEF Entered
<1>2. /\ DOMAIN R \subseteq RecordNames /\ RequirementsAreNumbered(R)
      /\ \A q \in DOMAIN R : /\ R[q] \in [payload : Nat, version : Nat, edit : 0..n]
                             /\ R[q].edit # 0 => R[q].payload = 0
  BY DEF RecordsFit
<1> HIDE DEF S
<1>3. RequirementsAreNumbered(S)
  <2> DEFINE Q == Requirements(R)
  <2>1. IsFiniteSet(Q) /\ \A q \in Q : q[2] < Cardinality(Q)
    BY <1>2 DEF RequirementsAreNumbered
  <2>2. CASE k # "requirement"
    <3>1. Requirements(S) = Requirements(R)
      BY <1>1, <2>2 DEF Requirements
    <3> QED  BY <1>2, <3>1 DEF RequirementsAreNumbered
  <2>3. CASE k = "requirement"
    <3>1. Requirements(S) = Q \union {r} /\ r \notin Q
      BY <1>1, <2>3 DEF Requirements
    <3>2. \A q \in Q : q[2] \in Nat
      BY <1>2 DEF Requirements, RecordNames, NameOf
    <3> HIDE DEF Q
    <3>3. Cardinality(Q) \in Nat
      BY <2>1, FS_CardinalityType
    <3>4. IsFiniteSet(Q \union {r}) /\ Cardinality(Q \union {r}) = Cardinality(Q) + 1
      BY <2>1, <3>1, FS_AddElement
    <3>5. \A q \in Q \union {r} : q[2] < Cardinality(Q) + 1
      BY <2>1, <2>3, <3>2, <3>3 DEF Q
    <3> QED  BY <3>1, <3>4, <3>5 DEF RequirementsAreNumbered
  <2> QED  BY <2>2, <2>3
<1>4. DOMAIN S \subseteq RecordNames
  BY <1>1, <1>2
<1>5. \A q \in DOMAIN S : /\ S[q] \in [payload : Nat, version : Nat, edit : 0..n]
                         /\ S[q].edit # 0 => S[q].payload = 0
  BY <1>1, <1>2
<1> QED  BY <1>1, <1>3, <1>4, <1>5 DEF RecordsFit, S

\* And what is known of them.
LEMMA KnowledgeEntered ==
  ASSUME NEW n \in Nat, NEW R, RecordsFit(R, n), NEW K, KnownAgrees(K, R),
         NEW c \in Connections, NEW k \in Kinds, NEW r, k # "requirement" => r = NameOf(c, k),
         NEW new \in [payload : Nat, version : Nat, edit : 0..n], new.edit = 0,
         r \in DOMAIN R => (new = R[r] \/ new.version = R[r].version + 1), NEW p
  PROVE  KnownAgrees(Entered(K, <<c, k>>, [payload |-> p, id |-> r, version |-> new.version]),
                     Entered(R, r, new))
<1> DEFINE S == Entered(R, r, new)
           row == [payload |-> p, id |-> r, version |-> new.version]
           L == Entered(K, <<c, k>>, row)
<1>1. /\ DOMAIN S = DOMAIN R \union {r} /\ S[r] = new
      /\ \A q \in DOMAIN R : q # r => S[q] = R[q]
  BY DEF Entered
<1>2. /\ DOMAIN L = DOMAIN K \union {<<c, k>>} /\ L = [q \in DOMAIN L |-> L[q]]
      /\ L[<<c, k>>] = row
      /\ \A q \in DOMAIN K : q # <<c, k>> => L[q] = K[q]
  BY DEF Entered
<1>3. row.id = r /\ row.version = new.version /\ new.version \in Nat
  OBVIOUS
<1> HIDE DEF S, L, row
<1>4. DOMAIN L \subseteq Connections \X Kinds
  BY <1>2 DEF KnownAgrees
<1>5. ASSUME NEW q \in DOMAIN L
      PROVE  /\ L[q].id \in DOMAIN S
             /\ L[q].version \in Nat /\ L[q].version <= S[L[q].id].version
             /\ L[q].version = S[L[q].id].version => S[L[q].id].edit = 0
             /\ q[2] # "requirement" => L[q].id = NameOf(q[1], q[2])
  <2>1. CASE q = <<c, k>>
    BY <1>1, <1>2, <1>3, <2>1
  <2>2. CASE q # <<c, k>>
    <3> DEFINE id == K[q].id
    <3>1. q \in DOMAIN K /\ L[q] = K[q]
      BY <1>2, <2>2
    <3>2. /\ id \in DOMAIN R
          /\ K[q].version \in Nat /\ K[q].version <= R[id].version
          /\ K[q].version = R[id].version => R[id].edit = 0
          /\ q[2] # "requirement" => id = NameOf(q[1], q[2])
      BY <3>1 DEF KnownAgrees
    <3>3. R[id].version \in Nat
      BY <3>2 DEF RecordsFit
    <3> HIDE DEF id
    <3>4. /\ id \in DOMAIN S /\ K[q].version <= S[id].version
          /\ K[q].version = S[id].version => S[id].edit = 0
      <4>1. CASE id # r
        BY <1>1, <3>2, <4>1
      <4>2. CASE id = r /\ new = R[r]
        BY <1>1, <3>2, <4>2
      <4>3. CASE id = r /\ new.version = R[r].version + 1
        BY <1>1, <3>2, <3>3, <4>3
      <4> QED  BY <3>2, <4>1, <4>2, <4>3
    <3> QED  BY <3>1, <3>2, <3>4 DEF id
  <2> QED  BY <2>1, <2>2
<1> QED  BY <1>2, <1>4, <1>5 DEF KnownAgrees, S, L, row

\* The row of one kind is applied: rows of other kinds stay, and of the
\* records none but the row's own is written.
RowMakes(n, R, K, W, c, k, R2, K2, W2) ==
  /\ Apply(Loaded(R, K, W), c, k) = Loaded(R2, K2, W2)
  /\ Ready(R2, K2, W2, n)
  /\ Replaced(R, R2, W, c, {k})
  /\ \A j \in Kinds \ {k} : (j \in DOMAIN W2 <=> j \in DOMAIN W) /\ W2[j] = W[j]

LEMMA RowApplied ==
  ASSUME NEW n \in Nat, NEW R, NEW K, NEW W, Ready(R, K, W, n), NEW c \in Connections, NEW k \in Kinds
  PROVE  \E R2, K2, W2 : RowMakes(n, R, K, W, c, k, R2, K2, W2)
<1> DEFINE s == Loaded(R, K, W)
           p == W[k].payload
           r == RecordOf(s, c, k)
           new == WrittenRecord(s, r, p)
           R2 == Entered(R, r, new)
           K2 == Entered(K, <<c, k>>, [payload |-> p, id |-> r, version |-> new.version])
<1>1. /\ RecordsFit(R, n) /\ KnownAgrees(K, R) /\ W \in ImportRows
      /\ \A j \in DOMAIN W : Writes(W, j) => W[j].payload # 0
  BY DEF Ready
<1>2. /\ DOMAIN W \subseteq Kinds /\ W \in [DOMAIN W -> ImportRow]
  BY <1>1 DEF ImportRows
<1>3. ASSUME NEW act \in {"error", "committed"}, k \in DOMAIN W
      PROVE  LET V == [W EXCEPT ![k].action = act]
             IN /\ V \in ImportRows
                /\ \A j \in DOMAIN V : Writes(V, j) => V[j].payload # 0
                /\ \A j \in Kinds \ {k} : (j \in DOMAIN V <=> j \in DOMAIN W) /\ V[j] = W[j]
  <2> DEFINE row == [W[k] EXCEPT !.action = act]
             V == [W EXCEPT ![k] = row]
  <2>1. row \in ImportRow /\ row.action = act
    BY <1>2, <1>3 DEF ImportRow, Actions
  <2>2. V = [W EXCEPT ![k].action = act]
    OBVIOUS
  <2> HIDE DEF row
  <2>3. /\ DOMAIN V = DOMAIN W /\ V[k] = row
        /\ \A j \in DOMAIN W : j # k => V[j] = W[j]
        /\ V \in [DOMAIN W -> ImportRow]
    BY <1>2, <1>3, <2>1
  <2>4. \A j \in Kinds \ {k} : V[j] = W[j]
    OBVIOUS
  <2> HIDE DEF V
  <2>5. V \in ImportRows
    BY <1>2, <2>3 DEF ImportRows
  <2>6. \A j \in DOMAIN V : Writes(V, j) => V[j].payload # 0
    BY <1>1, <1>3, <2>1, <2>3 DEF Writes
  <2> QED  BY <2>2, <2>3, <2>4, <2>5, <2>6
<1>4. CASE ~ Writes(W, k)
  <2>1. Apply(s, c, k) = s
    BY <1>4 DEF Apply, Writes, Loaded
  <2>2. Replaced(R, R, W, c, {k})
    BY DEF Replaced
  <2> QED  BY <2>1, <2>2 DEF RowMakes
<1>5. CASE Writes(W, k) /\ ~ RefersToKnown(s, c, k)
  <2> DEFINE V == [W EXCEPT ![k].action = "error"]
  <2>1. k \in DOMAIN W
    BY <1>5 DEF Writes
  <2>2. Apply(s, c, k) = Loaded(R, K, V)
    BY <1>5 DEF Apply, Writes, Loaded
  <2>3. /\ V \in ImportRows
        /\ \A j \in DOMAIN V : Writes(V, j) => V[j].payload # 0
        /\ \A j \in Kinds \ {k} : (j \in DOMAIN V <=> j \in DOMAIN W) /\ V[j] = W[j]
    BY <1>3, <2>1
  <2>4. Replaced(R, R, W, c, {k})
    BY DEF Replaced
  <2> HIDE DEF V
  <2>5. Ready(R, K, V, n)
    BY <1>1, <2>3 DEF Ready
  <2> QED  BY <2>2, <2>3, <2>4, <2>5 DEF RowMakes
<1>6. CASE Writes(W, k) /\ RefersToKnown(s, c, k)
  <2> DEFINE V == [W EXCEPT ![k].action = "committed"]
  <2>1. k \in DOMAIN W
    BY <1>6 DEF Writes
  <2>2. Apply(s, c, k) = Loaded(R2, K2, V)
    BY <1>6 DEF Apply, Writes, Loaded
  <2>3. /\ V \in ImportRows
        /\ \A j \in DOMAIN V : Writes(V, j) => V[j].payload # 0
        /\ \A j \in Kinds \ {k} : (j \in DOMAIN V <=> j \in DOMAIN W) /\ V[j] = W[j]
    BY <1>3, <2>1
  <2>4. p \in Nat \ {0}
    BY <1>1, <1>2, <1>6, <2>1 DEF ImportRow
  <2>5. /\ r \in RecordNames /\ r[1] = k
        /\ k # "requirement" => r = NameOf(c, k)
        /\ k = "requirement" => r \notin DOMAIN R /\ r[2] = Cardinality(Requirements(R))
    BY <1>1, WrittenTo
  <2> HIDE DEF p, r, V
  <2>6. /\ new \in [payload : Nat, version : Nat, edit : 0..n]
        /\ new.edit = 0
        /\ r \in DOMAIN R => (new = R[r] \/ new.version = R[r].version + 1)
    BY <1>1, <2>4, WrittenIsFresh
  <2> HIDE DEF new, s
  <2>7. RecordsFit(R2, n)
    BY <1>1, <2>5, <2>6, RecordEntered
  <2>8. KnownAgrees(K2, R2)
    BY <1>1, <2>5, <2>6, KnowledgeEntered
  <2>9. Replaced(R, R2, W, c, {k})
    <3>1. ASSUME NEW q \in DOMAIN R
          PROVE  q \in DOMAIN R2 /\ (R2[q] = R[q] \/ (q = r /\ R2[q] = new))
      BY DEF Entered
    <3>2. \A q \in DOMAIN R2 : q \in DOMAIN R \/ R2[q] = new
      BY DEF Entered
    <3> HIDE DEF R2
    <3> QED  BY <1>6, <2>5, <2>6, <3>1, <3>2 DEF Replaced
  <2> HIDE DEF R2, K2
  <2>10. Ready(R2, K2, V, n)
    BY <2>3, <2>7, <2>8 DEF Ready
  <2> QED  BY <2>2, <2>3, <2>9, <2>10 DEF s, RowMakes
<1> QED  BY <1>4, <1>5, <1>6

\* Steps that follow each other with different kinds write what each writes.
LEMMA ReplacedTwice ==
  ASSUME NEW c, NEW R, NEW R2, NEW R3, NEW W, NEW W2, NEW kinds \in SUBSET Kinds, NEW k \in Kinds \ kinds,
         Replaced(R, R2, W, c, kinds), Replaced(R2, R3, W2, c, {k}),
         k \in DOMAIN W2 <=> k \in DOMAIN W, W2[k] = W[k]
  PROVE  Replaced(R, R3, W, c, kinds \union {k})
BY DEF Replaced, Writes

\* The rows of a batch are applied.
LEMMA BatchApplied ==
  ASSUME NEW n \in Nat, NEW b \in ImportBatch, Ready(records, known, b.rows, n)
  PROVE  LET done == Committed(b)
         IN /\ Ready(done.records, done.known, done.rows, n)
            /\ Replaced(records, done.records, b.rows, b.connection, Kinds)
<1> DEFINE c == b.connection
           W == b.rows
<1>1. c \in Connections /\ "item" \in Kinds /\ "order" \in Kinds /\ "requirement" \in Kinds
  BY DEF ImportBatch, Kinds
<1> HIDE DEF c, W
<1>2. Ready(records, known, W, n)
  BY DEF W
<1>3. PICK R1, K1, W1 : RowMakes(n, records, known, W, c, "item", R1, K1, W1)
  BY <1>1, <1>2, RowApplied
<1>4. PICK R2, K2, W2 : RowMakes(n, R1, K1, W1, c, "order", R2, K2, W2)
  <2>1. Ready(R1, K1, W1, n)
    BY <1>3 DEF RowMakes
  <2> QED  BY <1>1, <2>1, RowApplied
<1>5. PICK R3, K3, W3 : RowMakes(n, R2, K2, W2, c, "requirement", R3, K3, W3)
  <2>1. Ready(R2, K2, W2, n)
    BY <1>4 DEF RowMakes
  <2> QED  BY <1>1, <2>1, RowApplied
<1>6. Committed(b) = Loaded(R3, K3, W3)
  BY <1>3, <1>4, <1>5 DEF Committed, RowMakes, Loaded, c, W
<1>7. Replaced(records, R2, W, c, {"item"} \union {"order"})
  BY <1>1, <1>3, <1>4, ReplacedTwice DEF RowMakes
<1>8. Replaced(records, R3, W, c, {"item", "order"} \union {"requirement"})
  <2>1. {"item"} \union {"order"} = {"item", "order"}
    OBVIOUS
  <2>2. W2["requirement"] = W["requirement"] /\ ("requirement" \in DOMAIN W2 <=> "requirement" \in DOMAIN W)
    BY <1>1, <1>3, <1>4 DEF RowMakes
  <2> QED  BY <1>1, <1>5, <1>7, <2>1, <2>2, ReplacedTwice DEF RowMakes
<1>9. {"item", "order"} \union {"requirement"} = Kinds
  BY DEF Kinds
<1> QED  BY <1>5, <1>6, <1>8, <1>9 DEF RowMakes, Loaded, c, W

\* A batch that waits can be applied.
LEMMA WaitingIsReady ==
  ASSUME ImportInv, NEW i \in DOMAIN batches, batches[i].status = "previewed"
  PROVE  batches[i] \in ImportBatch /\ Ready(records, known, batches[i].rows, edits)
<1>1. batches[i] \in ImportBatch
  BY DEF ImportInv
<1>2. batches[i].rows \in ImportRows
  BY <1>1 DEF ImportBatch
<1>3. \A k \in DOMAIN batches[i].rows : Writes(batches[i].rows, k) => batches[i].rows[k].payload # 0
  BY DEF ImportInv, PreviewsSawNoEdit, Writes
<1> QED  BY <1>1, <1>2, <1>3 DEF ImportInv, Ready

\* Previews of records of which some were written, and none edited.
LEMMA WrittenAreSeen ==
  ASSUME NEW R, NEW R2, PreviewsSawNoEdit(R),
         \A r \in DOMAIN R2 : (r \in DOMAIN R /\ R2[r] = R[r]) \/ R2[r].edit = 0
  PROVE  PreviewsSawNoEdit(R2)
BY DEF PreviewsSawNoEdit

\* A batch that waits is committed, as it is or with some rows left out.
LEMMA CommitToKeeps ==
  ASSUME ImportInv, NEW i \in DOMAIN batches, batches[i].status = "previewed",
         NEW b \in ImportBatch, b.connection = batches[i].connection, b.edits = batches[i].edits,
         \A k \in DOMAIN b.rows : Writes(b.rows, k) =>
           k \in DOMAIN batches[i].rows /\ b.rows[k] = batches[i].rows[k],
         CommitTo(i, b), edits' = edits
  PROVE  /\ RecordsFit(records', edits') /\ KnownAgrees(known', records')
         /\ batches' \in Seq(ImportBatch) /\ DOMAIN batches' = DOMAIN batches
         /\ \A j \in DOMAIN batches' : batches'[j].edits <= edits'
         /\ PreviewsSawNoEdit(records)'
         /\ LostReviewed
<1> DEFINE done == Committed(b)
           status == StatusOf(done.rows)
           row == [b EXCEPT !.rows = done.rows, !.status = status]
           c == batches[i].connection
           W == batches[i].rows
<1>1. edits \in Nat /\ batches \in Seq(ImportBatch) /\ \A j \in DOMAIN batches : batches[j].edits <= edits
  BY DEF ImportInv
<1>2. Ready(records, known, W, edits)
  BY WaitingIsReady
<1>3. Ready(records, known, b.rows, edits)
  <2>1. b.rows \in ImportRows
    BY DEF ImportBatch
  <2>2. \A k \in DOMAIN b.rows : Writes(b.rows, k) => b.rows[k].payload # 0
    BY <1>2 DEF Ready, Writes
  <2> QED  BY <1>2, <2>1, <2>2 DEF Ready
<1>4. /\ Ready(done.records, done.known, done.rows, edits)
      /\ Replaced(records, done.records, b.rows, c, Kinds)
  BY <1>1, <1>3, BatchApplied
<1>5. records' = done.records /\ known' = done.known /\ batches' = [batches EXCEPT ![i] = row]
  BY DEF CommitTo
<1>6. status \in {"completed", "completed_with_errors"}
  BY DEF StatusOf
<1> HIDE DEF done, status
<1>7. row \in ImportBatch /\ row.status = status /\ row.edits = b.edits
  BY <1>4, <1>6 DEF ImportBatch, Ready
<1> HIDE DEF row
<1>8. /\ batches' \in Seq(ImportBatch) /\ DOMAIN batches' = DOMAIN batches
      /\ batches'[i] = row /\ \A j \in DOMAIN batches : j # i => batches'[j] = batches[j]
  BY <1>1, <1>5, <1>7, RowWritten
<1>9. \A j \in DOMAIN batches' : batches'[j].edits <= edits'
  BY <1>1, <1>7, <1>8
<1>10. PreviewsSawNoEdit(records)'
  <2>1. PreviewsSawNoEdit(done.records)
    <3>1. \A r \in DOMAIN done.records :
            (r \in DOMAIN records /\ done.records[r] = records[r]) \/ done.records[r].edit = 0
      BY <1>4 DEF Replaced
    <3> QED  BY <3>1, WrittenAreSeen DEF ImportInv
  <2> SUFFICES ASSUME NEW j \in DOMAIN batches', NEW k \in DOMAIN batches'[j].rows,
                      batches'[j].status = "previewed"
               PROVE  LET r == NameOf(batches'[j].connection, k)
                      IN /\ batches'[j].rows[k].action \in {"insert", "update"} => batches'[j].rows[k].payload # 0
                         /\ (k # "requirement" /\ batches'[j].rows[k].action = "update" /\ r \in DOMAIN records') =>
                              (records'[r].edit = 0 \/ batches'[j].edits < records'[r].edit)
    BY DEF PreviewsSawNoEdit
  <2>2. j # i /\ j \in DOMAIN batches /\ batches'[j] = batches[j]
    BY <1>6, <1>7, <1>8
  <2> QED  BY <1>5, <2>1, <2>2 DEF PreviewsSawNoEdit
<1>11. LostReviewed
  <2> SUFFICES ASSUME NEW r \in DOMAIN records, records[r].edit # 0, records'[r].edit = 0
               PROVE  /\ CommittedNow(i)
                      /\ batches[i].edits < records[r].edit \/ batches[i].rows[r[1]].action = "insert"
    BY DEF LostReviewed
  <2>1. PICK k \in Kinds : Writes(b.rows, k) /\ k # "requirement" /\ r = NameOf(c, k)
    BY <1>4, <1>5 DEF Replaced
  <2>2. k \in DOMAIN W /\ W[k].action \in {"insert", "update"}
    BY <2>1 DEF Writes
  <2>3. r[1] = k
    BY <2>1 DEF NameOf, Kinds
  <2>4. W[k].action = "update" => batches[i].edits < records[r].edit
    BY <2>1, <2>2 DEF ImportInv, PreviewsSawNoEdit
  <2>5. CommittedNow(i)
    BY <1>6, <1>7, <1>8 DEF CommittedNow
  <2> QED  BY <2>2, <2>3, <2>4, <2>5
<1>12. RecordsFit(records', edits') /\ KnownAgrees(known', records')
  BY <1>4, <1>5 DEF Ready
<1> QED  BY <1>8, <1>9, <1>10, <1>11, <1>12

\* An update is proposed for a record that nobody edited since.
LEMMA UpdateSawNoEdit ==
  ASSUME ImportInv, NEW c \in Connections, NEW k \in Kinds, k # "requirement", NEW payload,
         Classified(c, k, payload) = "update"
  PROVE  NameOf(c, k) \in DOMAIN records /\ records[NameOf(c, k)].edit = 0
<1> DEFINE p == <<c, k>>
           id == known[p].id
<1>1. p \in DOMAIN known /\ known[p].version = records[id].version
  BY DEF Classified
<1>2. p[1] = c /\ p[2] = k
  OBVIOUS
<1> HIDE DEF p
<1>3. id = NameOf(c, k) /\ id \in DOMAIN records /\ records[id].edit = 0
  BY <1>1, <1>2 DEF ImportInv, KnownAgrees
<1> QED  BY <1>3

\* A workbook is previewed.
LEMMA PreviewAdds ==
  ASSUME ImportAssumption, ImportInv, NEW c \in Connections, NEW w \in Workbooks,
         batches' = Append(batches, Previewed(c, w)), UNCHANGED <<records, edits>>
  PROVE  /\ batches' \in Seq(ImportBatch) /\ DOMAIN batches \subseteq DOMAIN batches'
         /\ Len(batches) + 1 \in DOMAIN batches'
         /\ \A j \in DOMAIN batches' : batches'[j].edits <= edits'
         /\ PreviewsSawNoEdit(records)'
<1> DEFINE b == Previewed(c, w)
           new == Len(batches) + 1
<1>1. edits \in Nat /\ batches \in Seq(ImportBatch) /\ \A j \in DOMAIN batches : batches[j].edits <= edits
  BY DEF ImportInv
<1>2. DOMAIN w \subseteq Kinds /\ \A k \in DOMAIN w : w[k] \in Nat
  BY DEF ImportAssumption
<1>3. /\ b.connection = c /\ b.status = "previewed" /\ b.edits = edits
      /\ b.rows = [k \in DOMAIN w |-> [payload |-> w[k], action |-> Classified(c, k, w[k])]]
      /\ b = [connection |-> b.connection, status |-> b.status, edits |-> b.edits, rows |-> b.rows]
  BY DEF Previewed
<1>4. ASSUME NEW k \in DOMAIN b.rows
      PROVE  /\ b.rows[k] \in ImportRow /\ b.rows[k].payload = w[k]
             /\ b.rows[k].action = Classified(c, k, w[k]) /\ k \in Kinds
             /\ b.rows[k].action \in {"insert", "update"} => b.rows[k].payload # 0
  <2>1. k \in DOMAIN w /\ b.rows[k] = [payload |-> w[k], action |-> Classified(c, k, w[k])]
    BY <1>3
  <2>2. /\ Classified(c, k, w[k]) \in Actions
        /\ Classified(c, k, w[k]) \in {"insert", "update"} => w[k] # 0
    BY DEF Classified, Actions
  <2> QED  BY <1>2, <2>1, <2>2 DEF ImportRow
<1> HIDE DEF b
<1>5. b.rows \in ImportRows
  <2>1. DOMAIN b.rows \subseteq Kinds /\ b.rows = [k \in DOMAIN b.rows |-> b.rows[k]]
    BY <1>2, <1>3
  <2>2. b.rows \in [DOMAIN b.rows -> ImportRow]
    BY <1>4, <2>1
  <2> QED  BY <2>1, <2>2 DEF ImportRows
<1>6. b \in ImportBatch
  BY <1>1, <1>3, <1>5 DEF ImportBatch
<1>7. /\ batches' \in Seq(ImportBatch) /\ DOMAIN batches' = DOMAIN batches \union {new}
      /\ batches'[new] = b /\ \A j \in DOMAIN batches : batches'[j] = batches[j]
  BY <1>1, <1>6 DEF b
<1>8. \A j \in DOMAIN batches' : batches'[j].edits <= edits'
  BY <1>1, <1>3, <1>7
<1>9. PreviewsSawNoEdit(records)'
  <2> SUFFICES ASSUME NEW j \in DOMAIN batches', NEW k \in DOMAIN batches'[j].rows,
                      batches'[j].status = "previewed"
               PROVE  LET r == NameOf(batches'[j].connection, k)
                      IN /\ batches'[j].rows[k].action \in {"insert", "update"} => batches'[j].rows[k].payload # 0
                         /\ (k # "requirement" /\ batches'[j].rows[k].action = "update" /\ r \in DOMAIN records') =>
                              (records'[r].edit = 0 \/ batches'[j].edits < records'[r].edit)
    BY DEF PreviewsSawNoEdit
  <2>1. CASE j \in DOMAIN batches
    BY <1>7, <2>1 DEF ImportInv, PreviewsSawNoEdit
  <2>2. CASE j = new
    <3>1. batches'[j] = b
      BY <1>7, <2>2
    <3> QED  BY <1>3, <1>4, <3>1, UpdateSawNoEdit
  <2> QED  BY <1>7, <2>1, <2>2
<1> QED  BY <1>7, <1>8, <1>9

\* Somebody edits a record: its edit is later than every preview.
LEMMA EditKeeps ==
  ASSUME ImportInv, NEW r \in DOMAIN records, Edit(r)
  PROVE  ImportInv' /\ LostReviewed
<1> DEFINE n == edits + 1
           new == [payload |-> 0, version |-> records[r].version + 1, edit |-> n]
<1>1. /\ edits \in Nat /\ RecordsFit(records, edits) /\ KnownAgrees(known, records)
      /\ batches \in Seq(ImportBatch)
      /\ \A j \in DOMAIN batches : batches[j].edits <= edits
  BY DEF ImportInv
<1>2. /\ records = [q \in DOMAIN records |-> records[q]]
      /\ DOMAIN records \subseteq RecordNames /\ RequirementsAreNumbered(records)
      /\ \A q \in DOMAIN records : /\ records[q] \in [payload : Nat, version : Nat, edit : 0..edits]
                                   /\ records[q].edit # 0 => records[q].payload = 0
  BY <1>1 DEF RecordsFit
<1>3. /\ edits' = n /\ known' = known /\ batches' = batches /\ factory' = factory
      /\ records' = [records EXCEPT ![r] = new]
  BY DEF Edit
<1>4. new.version = records[r].version + 1 /\ records[r].version \in Nat /\ new.edit = n /\ new.payload = 0
  BY <1>2
<1>5. new \in [payload : Nat, version : Nat, edit : 0..n]
  BY <1>1, <1>4
<1> HIDE DEF new
<1>6. /\ DOMAIN records' = DOMAIN records /\ records'[r] = new
      /\ records' = [q \in DOMAIN records' |-> records'[q]]
      /\ \A q \in DOMAIN records : q # r => records'[q] = records[q]
  BY <1>2, <1>3
<1>7. RecordsFit(records', edits')
  <2>1. RequirementsAreNumbered(records')
    BY <1>2, <1>6 DEF RequirementsAreNumbered, Requirements
  <2>2. ASSUME NEW q \in DOMAIN records'
        PROVE  /\ records'[q] \in [payload : Nat, version : Nat, edit : 0..edits']
               /\ records'[q].edit # 0 => records'[q].payload = 0
    BY <1>1, <1>2, <1>3, <1>4, <1>5, <1>6
  <2> QED  BY <1>2, <1>6, <2>1, <2>2 DEF RecordsFit
<1>8. KnownAgrees(known', records')
  <2>1. ASSUME NEW p \in DOMAIN known
        PROVE  LET id == known[p].id
               IN /\ id \in DOMAIN records' /\ known[p].version <= records'[id].version
                  /\ known[p].version = records'[id].version => records'[id].edit = 0
    <3> DEFINE id == known[p].id
    <3>1. /\ id \in DOMAIN records /\ known[p].version \in Nat
          /\ known[p].version <= records[id].version
          /\ known[p].version = records[id].version => records[id].edit = 0
      BY <1>1 DEF KnownAgrees
    <3> HIDE DEF id
    <3>2. /\ id \in DOMAIN records' /\ known[p].version <= records'[id].version
          /\ known[p].version = records'[id].version => records'[id].edit = 0
      BY <1>4, <1>6, <3>1
    <3> QED  BY <3>2 DEF id
  <2> QED  BY <1>1, <1>3, <2>1 DEF KnownAgrees
<1>9. PreviewsSawNoEdit(records)'
  <2> SUFFICES ASSUME NEW j \in DOMAIN batches, NEW k \in DOMAIN batches[j].rows,
                      batches[j].status = "previewed"
               PROVE  LET q == NameOf(batches[j].connection, k)
                      IN /\ batches[j].rows[k].action \in {"insert", "update"} => batches[j].rows[k].payload # 0
                         /\ (k # "requirement" /\ batches[j].rows[k].action = "update" /\ q \in DOMAIN records') =>
                              (records'[q].edit = 0 \/ batches[j].edits < records'[q].edit)
    BY <1>3 DEF PreviewsSawNoEdit
  <2>1. batches[j].edits < n
    <3>1. batches[j] \in ImportBatch /\ batches[j].edits <= edits
      BY <1>1
    <3>2. batches[j].edits \in Nat
      BY <3>1 DEF ImportBatch
    <3> QED  BY <1>1, <3>1, <3>2
  <2> QED  BY <1>4, <1>6, <2>1 DEF ImportInv, PreviewsSawNoEdit
<1>10. LostReviewed
  BY <1>1, <1>4, <1>6 DEF LostReviewed
<1>11. edits' \in Nat /\ \A j \in DOMAIN batches' : batches'[j].edits <= edits'
  <2>1. \A j \in DOMAIN batches : batches[j] \in ImportBatch /\ batches[j].edits <= edits
    BY <1>1
  <2>2. \A j \in DOMAIN batches : batches[j].edits \in Nat
    BY <2>1 DEF ImportBatch
  <2> QED  BY <1>1, <1>3, <2>1, <2>2
<1> QED
  BY <1>3, <1>7, <1>8, <1>9, <1>10, <1>11 DEF ImportInv

\* A batch is approved by its id.
LEMMA ApproveKeeps ==
  ASSUME ImportInv, NEW i \in DOMAIN batches, Approve(i)
  PROVE  ImportInv' /\ LostReviewed
<1>1. /\ batches[i].status = "previewed" /\ CommitTo(i, batches[i])
      /\ factory' = factory /\ edits' = edits
  BY DEF Approve
<1>2. batches[i] \in ImportBatch
  BY <1>1, WaitingIsReady
<1>3. \A k \in DOMAIN batches[i].rows : Writes(batches[i].rows, k) => k \in DOMAIN batches[i].rows
  OBVIOUS
<1> QED
  BY <1>1, <1>2, <1>3, CommitToKeeps DEF ImportInv

\* A factory workbook is previewed.
LEMMA PreviewFactoryKeeps ==
  ASSUME ImportAssumption, ImportInv, NEW w \in Workbooks, PreviewFactory(w)
  PROVE  ImportInv' /\ LostReviewed
<1> DEFINE row == [contents |-> w, part |-> Len(batches) + 1, status |-> "previewed",
                   errors |-> StatusOf(Previewed("factory", w).rows) # "completed"]
<1>1. /\ batches' = Append(batches, Previewed("factory", w)) /\ factory' = Append(factory, row)
      /\ records' = records /\ known' = known /\ edits' = edits
  BY DEF PreviewFactory
<1>2. /\ batches' \in Seq(ImportBatch) /\ DOMAIN batches \subseteq DOMAIN batches'
      /\ Len(batches) + 1 \in DOMAIN batches'
      /\ \A j \in DOMAIN batches' : batches'[j].edits <= edits'
      /\ PreviewsSawNoEdit(records)'
  <2>1. "factory" \in Connections
    BY DEF Connections
  <2> QED  BY <1>1, <2>1, PreviewAdds
<1>3. Len(batches) \in Nat /\ factory \in Seq(FactoryRow) /\ \A f \in DOMAIN factory : factory[f].part \in DOMAIN batches
  BY DEF ImportInv
<1>4. row \in FactoryRow /\ row.part = Len(batches) + 1
  BY <1>3 DEF FactoryRow
<1> HIDE DEF row
<1>5. factory' \in Seq(FactoryRow) /\ \A f \in DOMAIN factory' : factory'[f].part \in DOMAIN batches'
  BY <1>1, <1>2, <1>3, <1>4
<1>6. LostReviewed
  BY <1>1 DEF LostReviewed
<1> QED
  BY <1>1, <1>2, <1>5, <1>6 DEF ImportInv

\* The rows of a factory workbook are previewed again or applied.
LEMMA FactoryCommitKeeps ==
  ASSUME ImportInv, NEW f \in DOMAIN factory, NEW row,
         factory' = [factory EXCEPT ![f] = row], row.part = factory[f].part,
         row \in FactoryRow,
         /\ RecordsFit(records', edits') /\ KnownAgrees(known', records')
         /\ batches' \in Seq(ImportBatch) /\ DOMAIN batches' = DOMAIN batches
         /\ \A j \in DOMAIN batches' : batches'[j].edits <= edits'
         /\ PreviewsSawNoEdit(records)',
         edits' = edits
  PROVE  ImportInv'
<1>1. factory \in Seq(FactoryRow) /\ \A g \in DOMAIN factory : factory[g].part \in DOMAIN batches
  BY DEF ImportInv
<1>2. row \in FactoryRow
  OBVIOUS
<1>3. /\ factory' \in Seq(FactoryRow) /\ DOMAIN factory' = DOMAIN factory
      /\ factory'[f] = row /\ \A g \in DOMAIN factory : g # f => factory'[g] = factory[g]
  BY <1>1, <1>2, RowWritten
<1>4. \A g \in DOMAIN factory' : factory'[g].part \in DOMAIN batches'
  BY <1>1, <1>3
<1> QED
  BY <1>3, <1>4 DEF ImportInv

\* The parts of a factory workbook are committed together.
LEMMA CommitFactoryKeeps ==
  ASSUME ImportInv, NEW f \in DOMAIN factory, NEW others \in BOOLEAN, CommitFactory(f, others)
  PROVE  ImportInv' /\ LostReviewed
<1> DEFINE i == factory[f].part
           row == [factory[f] EXCEPT !.status = "completed"]
<1>1. factory \in Seq(FactoryRow) /\ i \in DOMAIN batches
  BY DEF ImportInv
<1>2. row \in FactoryRow /\ row.part = i
  <2>1. factory[f] \in FactoryRow
    BY <1>1
  <2> QED  BY <2>1 DEF FactoryRow
<1>3. factory' = [factory EXCEPT ![f] = row] /\ edits' = edits
  BY DEF CommitFactory
<1> HIDE DEF row, i
<1>4. /\ RecordsFit(records', edits') /\ KnownAgrees(known', records')
      /\ batches' \in Seq(ImportBatch) /\ DOMAIN batches' = DOMAIN batches
      /\ \A j \in DOMAIN batches' : batches'[j].edits <= edits'
      /\ PreviewsSawNoEdit(records)'
      /\ LostReviewed
  <2>1. CASE batches[i].status = "completed"
    <3>1. records' = records /\ known' = known /\ batches' = batches
      BY <2>1 DEF CommitFactory, i
    <3> QED  BY <1>3, <3>1 DEF ImportInv, LostReviewed, PreviewsSawNoEdit
  <2>2. CASE batches[i].status # "completed"
    <3>1. batches[i].status = "previewed" /\ CommitTo(i, batches[i])
      BY <2>2 DEF CommitFactory, i
    <3>2. batches[i] \in ImportBatch
      BY <1>1, <3>1, WaitingIsReady
    <3>3. \A k \in DOMAIN batches[i].rows : Writes(batches[i].rows, k) => k \in DOMAIN batches[i].rows
      OBVIOUS
    <3> QED  BY <1>1, <1>3, <3>1, <3>2, <3>3, CommitToKeeps
  <2> QED  BY <2>1, <2>2
<1> QED
  BY <1>2, <1>3, <1>4, FactoryCommitKeeps DEF i

\* The demonstration is loaded: rows of edited items are left out.
LEMMA LoadDemoKeeps ==
  ASSUME ImportInv, NEW f \in DOMAIN factory, LoadDemo(f)
  PROVE  ImportInv' /\ LostReviewed
<1> DEFINE i == factory[f].part
           W == batches[i].rows
           V == Preserved(W)
           b == [batches[i] EXCEPT !.rows = V]
           row == [factory[f] EXCEPT !.status = "completed", !.errors = FALSE]
<1>1. factory \in Seq(FactoryRow) /\ i \in DOMAIN batches /\ batches[i] \in ImportBatch
  <2>1. factory \in Seq(FactoryRow) /\ i \in DOMAIN batches /\ batches \in Seq(ImportBatch)
    BY DEF ImportInv
  <2> HIDE DEF i
  <2> QED  BY <2>1
<1>2. row \in FactoryRow /\ row.part = i
  <2>1. factory[f] \in FactoryRow
    BY <1>1
  <2> QED  BY <2>1 DEF FactoryRow
<1>3. factory' = [factory EXCEPT ![f] = row] /\ edits' = edits /\ b.status = "previewed" /\ CommitTo(i, b)
  <2>1. factory' = [factory EXCEPT ![f] = row]
    BY DEF LoadDemo
  <2> QED  BY <2>1 DEF LoadDemo
<1> HIDE DEF row, i
<1>4. W \in ImportRows /\ V = [k \in DOMAIN W |-> IF k = "item" /\ W[k].action = "conflict"
                                                  THEN [W[k] EXCEPT !.action = "unchanged"] ELSE W[k]]
  BY <1>1 DEF ImportBatch, Preserved
<1> HIDE DEF W, V
<1>5. /\ V \in ImportRows
      /\ \A k \in DOMAIN V : Writes(V, k) => k \in DOMAIN W /\ V[k] = W[k]
  <2>1. DOMAIN W \subseteq Kinds /\ \A k \in DOMAIN W : W[k] \in ImportRow
    BY <1>4 DEF ImportRows
  <2>2. ASSUME NEW k \in DOMAIN W
        PROVE  /\ V[k] \in ImportRow
               /\ V[k].action \in {"insert", "update"} => V[k] = W[k]
    <3>1. W[k] \in ImportRow
      BY <2>1
    <3>2. /\ [W[k] EXCEPT !.action = "unchanged"] \in ImportRow
          /\ [W[k] EXCEPT !.action = "unchanged"].action = "unchanged"
      BY <3>1 DEF ImportRow, Actions
    <3> QED  BY <1>4, <3>1, <3>2
  <2>3. DOMAIN V = DOMAIN W /\ V \in [DOMAIN W -> ImportRow]
    BY <1>4, <2>2
  <2> QED  BY <2>1, <2>2, <2>3 DEF ImportRows, Writes
<1>6. /\ b \in ImportBatch /\ b.rows = V /\ b.status = batches[i].status
      /\ b.connection = batches[i].connection /\ b.edits = batches[i].edits
  BY <1>1, <1>5 DEF ImportBatch
<1> HIDE DEF b
<1>7. \A k \in DOMAIN b.rows : Writes(b.rows, k) => k \in DOMAIN batches[i].rows /\ b.rows[k] = batches[i].rows[k]
  BY <1>5, <1>6 DEF W
<1>8. /\ RecordsFit(records', edits') /\ KnownAgrees(known', records')
      /\ batches' \in Seq(ImportBatch) /\ DOMAIN batches' = DOMAIN batches
      /\ \A j \in DOMAIN batches' : batches'[j].edits <= edits'
      /\ PreviewsSawNoEdit(records)'
      /\ LostReviewed
  BY <1>1, <1>3, <1>6, <1>7, CommitToKeeps
<1> QED
  BY <1>2, <1>3, <1>8, FactoryCommitKeeps DEF i

LEMMA ImportInvInit ==
  ASSUME ImportInit
  PROVE  ImportInv
<1>1. records = <<>> /\ known = <<>> /\ batches = <<>> /\ factory = <<>> /\ edits = 0
  BY DEF ImportInit
<1>2. DOMAIN records = {} /\ DOMAIN known = {} /\ DOMAIN batches = {} /\ DOMAIN factory = {}
  BY <1>1
<1>3. RecordsFit(records, edits)
  <2>1. Requirements(records) = {}
    BY <1>2 DEF Requirements
  <2>2. RequirementsAreNumbered(records)
    BY <2>1, FS_EmptySet DEF RequirementsAreNumbered
  <2>3. records = [r \in DOMAIN records |-> records[r]]
    BY <1>1
  <2> QED  BY <1>2, <2>2, <2>3 DEF RecordsFit
<1>4. KnownAgrees(known, records)
  <2>1. known = [p \in DOMAIN known |-> known[p]]
    BY <1>1
  <2> QED  BY <1>2, <2>1 DEF KnownAgrees
<1>5. PreviewsSawNoEdit(records)
  BY <1>2 DEF PreviewsSawNoEdit
<1> QED
  BY <1>1, <1>2, <1>3, <1>4, <1>5 DEF ImportInv

LEMMA ImportStep ==
  ASSUME ImportAssumption, ImportInv, [ImportNext]_importVars
  PROVE  ImportInv' /\ (LostReviewed \/ UNCHANGED importVars)
<1>1. ASSUME NEW w \in Workbooks, Preview(w)
      PROVE  ImportInv' /\ LostReviewed
  <2>1. /\ batches' = Append(batches, Previewed("exchange", w))
        /\ records' = records /\ known' = known /\ edits' = edits /\ factory' = factory
    BY <1>1 DEF Preview
  <2>2. "exchange" \in Connections
    BY DEF Connections
  <2>3. /\ batches' \in Seq(ImportBatch) /\ DOMAIN batches \subseteq DOMAIN batches'
        /\ \A j \in DOMAIN batches' : batches'[j].edits <= edits'
        /\ PreviewsSawNoEdit(records)'
    BY <2>1, <2>2, PreviewAdds
  <2>4. LostReviewed
    BY <2>1 DEF LostReviewed
  <2> QED  BY <2>1, <2>3, <2>4 DEF ImportInv
<1>2. ASSUME BeginExport \/ (\E x \in exports.writing : FinishExport(x)) \/ UNCHANGED importVars
      PROVE  ImportInv' /\ (LostReviewed \/ UNCHANGED importVars)
  <2>1. UNCHANGED <<records, known, batches, factory, edits>>
    BY <1>2 DEF BeginExport, FinishExport, importVars
  <2> QED  BY <2>1 DEF ImportInv, PreviewsSawNoEdit, LostReviewed
<1> QED
  BY <1>1, <1>2, PreviewFactoryKeeps, ApproveKeeps, LoadDemoKeeps, CommitFactoryKeeps, EditKeeps
     DEF ImportNext

\* What the versions of the records and of the previews say of edits: a
\* waiting update was compared with its record after its last edit but those
\* that came since (excel_connector.preview_import, commit_import).
THEOREM ImportInvariant == ImportSpec => []ImportInv
<1>1. ImportInit => ImportInv
  BY ImportInvInit
<1>2. ImportInv /\ [ImportNext]_importVars => ImportInv'
  BY ImportAssumption, ImportStep
<1> QED  BY <1>1, <1>2, PTL DEF ImportSpec

\* "Stale local-version conflict protection", as far as the code has it: an
\* edit made in the platform is lost to a workbook only when the workbook was
\* previewed before the edit, or its connection did not know the record then.
THEOREM LostEditsAreReviewed == ImportSpec => EditsAreReviewed
<1>1. ImportInv /\ [ImportNext]_importVars => [LostReviewed]_importVars
  BY ImportAssumption, ImportStep
<1> QED  BY <1>1, ImportInvariant, PTL DEF ImportSpec, EditsAreReviewed
=============================================================================
