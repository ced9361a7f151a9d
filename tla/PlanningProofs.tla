-------------------------- MODULE PlanningProofs ---------------------------
(***************************************************************************)
(* Proofs about planning runs and about the plans they calculate.          *)
(***************************************************************************)
EXTENDS PlanningRuns, PlanningEngine, WellFoundedInduction, TLAPS

-----------------------------------------------------------------------------
(***************************************************************************)
(* PlanningRuns, for any number of runs and workers, of retries and of     *)
(* crashes.                                                                *)
(*                                                                         *)
(* CompletedOnce is about two steps of a worker, the one that looks at the *)
(* status and the one that commits, with any steps of others between them. *)
(* The invariant carries what was seen over: the worker that calculates a  *)
(* run is the only one (Exclusive), so nobody else can have completed it   *)
(* since (NotYetCompleted).                                                *)
(***************************************************************************)

Exclusive ==
  \A v, w \in Workers :
    workerPhase[v] = "running" /\ workerPhase[w] = "running" /\ task[v].run = task[w].run => v = w

NotYetCompleted ==
  \A w \in Workers : workerPhase[w] = "running" => runStatus[task[w].run] # "COMPLETED"

Inv == PlanningTypeOK /\ ResultsAreWhole /\ Exclusive /\ NotYetCompleted

-----------------------------------------------------------------------------

\* The task of a worker that is not idle is a message.
LEMMA BusyTask ==
  ASSUME PlanningTypeOK, NEW w \in Workers, workerPhase[w] # "idle"
  PROVE  task[w] \in Message /\ task[w].run \in RunIds
BY DEF PlanningTypeOK, Message

\* A worker takes a run nobody else calculates and that is not completed.
LEMMA BeginKeeps ==
  ASSUME Inv, NEW w \in Workers, NEW m \in queue, Begin(w, m)
  PROVE  Inv'
<1> USE DEF Inv, Goto
<1>0. m \in Message /\ m.run \in RunIds /\ m # NoTask
  BY NoTaskAssumption DEF PlanningTypeOK, Message
<1>1. CASE runStatus[m.run] = "COMPLETED"
  BY <1>1 DEF Begin, PlanningTypeOK, ResultsAreWhole, Exclusive, NotYetCompleted
<1>2. CASE runStatus[m.run] # "COMPLETED"
  <2>1. /\ task' = [task EXCEPT ![w] = m]
        /\ workerPhase' = [workerPhase EXCEPT ![w] = "running"]
        /\ session' = [session EXCEPT ![w] = "partial"]
        /\ queue' = queue \ {m}
        /\ UNCHANGED <<runStatus, results, current, crashes>>
    BY <1>2 DEF Begin
  <2>2. PlanningTypeOK'
    BY <1>0, <2>1 DEF PlanningTypeOK
  <2>3. ResultsAreWhole'
    BY <2>1 DEF ResultsAreWhole
  <2>4. \A v \in Workers : workerPhase[v] = "running" => task[v].run # m.run
    BY BusyTask, NoTaskAssumption DEF Begin, Locked, On
  <2>5. Exclusive'
    BY <2>1, <2>4 DEF Exclusive, PlanningTypeOK
  <2>6. NotYetCompleted'
    BY <1>2, <2>1 DEF NotYetCompleted, PlanningTypeOK
  <2> QED
    BY <2>2, <2>3, <2>5, <2>6
<1> QED
  BY <1>1, <1>2

\* The worker that completes a run is the only one that calculates it.
LEMMA CompleteKeeps ==
  ASSUME Inv, NEW w \in Workers, Complete(w)
  PROVE  Inv'
<1> USE DEF Inv, Goto, Complete, Commit
<1>0. task[w].run \in RunIds
  BY BusyTask
<1>1. PlanningTypeOK'
  BY <1>0 DEF PlanningTypeOK
<1>2. ResultsAreWhole'
  BY <1>0 DEF ResultsAreWhole, PlanningTypeOK
<1>3. Exclusive'
  BY DEF Exclusive, PlanningTypeOK
<1>4. NotYetCompleted'
  <2> SUFFICES ASSUME NEW v \in Workers, workerPhase'[v] = "running"
               PROVE  runStatus'[task'[v].run] # "COMPLETED"
    BY DEF NotYetCompleted
  <2>1. v # w /\ workerPhase[v] = "running"
    BY DEF PlanningTypeOK
  <2>2. task[v].run # task[w].run
    BY <2>1 DEF Exclusive
  <2>3. task[v].run \in RunIds
    BY <2>1, BusyTask
  <2> QED
    BY <1>0, <2>1, <2>2, <2>3 DEF NotYetCompleted, PlanningTypeOK
<1> QED
  BY <1>1, <1>2, <1>3, <1>4

\* The steps of a worker that leave the row alone and do not begin a run.
LEMMA OtherStepKeeps ==
  ASSUME Inv, NEW w \in Workers, Return(w) \/ Raise(w) \/ ReadRun(w) \/ Retry(w) \/ Crash(w)
  PROVE  Inv'
<1> USE DEF Inv, Goto, Finish
<1>0. /\ UNCHANGED <<runStatus, results>>
      /\ \A v \in Workers : workerPhase'[v] = "running" => workerPhase[v] = "running" /\ task'[v] = task[v]
  BY DEF Return, Raise, ReadRun, Retry, Crash, PlanningTypeOK
<1>1. PlanningTypeOK'
  <2>0. workerPhase[w] # "idle" /\ task[w] \in Message
    BY BusyTask DEF Return, Raise, ReadRun, Retry, Crash
  <2>1. CASE Return(w)
    BY <2>1 DEF Return, PlanningTypeOK
  <2>2. CASE Raise(w)
    BY <2>2 DEF Raise, PlanningTypeOK
  <2>3. CASE ReadRun(w)
    BY <2>3 DEF ReadRun, PlanningTypeOK
  <2>4. CASE Retry(w)
    <3>1. task[w].retries < MaxRetries => [task[w] EXCEPT !.retries = @ + 1] \in Message
      BY <2>0, PlanningAssumption DEF Message
    <3>2. queue' \subseteq Message
      BY <2>4, <3>1 DEF Retry, PlanningTypeOK
    <3> QED
      BY <2>4, <3>2 DEF Retry, PlanningTypeOK
  <2>5. CASE Crash(w)
    <3>1. queue' \subseteq Message
      BY <2>0, <2>5 DEF Crash, PlanningTypeOK
    <3>2. crashes' \in 0..MaxCrashes
      BY <2>5, PlanningAssumption DEF Crash, PlanningTypeOK
    <3> QED
      BY <2>5, <3>1, <3>2 DEF Crash, PlanningTypeOK
  <2> QED
    BY <2>1, <2>2, <2>3, <2>4, <2>5
<1>2. ResultsAreWhole'
  BY <1>0 DEF ResultsAreWhole
<1>3. Exclusive'
  BY <1>0 DEF Exclusive
<1>4. NotYetCompleted'
  BY <1>0 DEF NotYetCompleted
<1> QED
  BY <1>1, <1>2, <1>3, <1>4

\* The record of a failure carries nothing of the attempt with it.
LEMMA MarkFailedKeeps ==
  ASSUME Inv, NEW w \in Workers, MarkFailed(w)
  PROVE  Inv'
<1> USE DEF Inv, Goto, Finish, MarkFailed, Commit
<1>0. task[w].run \in RunIds /\ session[w] = "clean"
  BY BusyTask DEF PlanningTypeOK
<1>1. /\ results' = results
      /\ \A r \in RunIds : runStatus'[r] \in {runStatus[r], "FAILED"}
      /\ \A v \in Workers : workerPhase'[v] = "running" => workerPhase[v] = "running" /\ task'[v] = task[v]
  BY <1>0 DEF PlanningTypeOK
<1>2. PlanningTypeOK'
  BY <1>0 DEF PlanningTypeOK
<1>3. ResultsAreWhole'
  BY <1>1 DEF ResultsAreWhole
<1>4. Exclusive'
  BY <1>1 DEF Exclusive
<1>5. NotYetCompleted'
  <2> SUFFICES ASSUME NEW v \in Workers, workerPhase'[v] = "running"
               PROVE  runStatus'[task'[v].run] # "COMPLETED"
    BY DEF NotYetCompleted
  <2>1. workerPhase[v] = "running" /\ task'[v] = task[v] /\ task[v].run \in RunIds
    BY <1>1, BusyTask
  <2> QED
    BY <1>1, <2>1 DEF NotYetCompleted
<1> QED
  BY <1>2, <1>3, <1>4, <1>5

\* The API and the dispatcher only add messages and queued runs.
LEMMA QueueingKeeps ==
  ASSUME Inv, Dispatch \/ \E r \in RunIds : TriggerRun(r)
  PROVE  Inv'
<1> USE DEF Inv
<1>1. \A r \in RunIds : [run |-> r, retries |-> 0] \in Message
  BY PlanningAssumption DEF Message
<1>2. CASE Dispatch
  <2>1. queue' \subseteq Message
    BY <1>1, <1>2 DEF Dispatch, Queued, PlanningTypeOK
  <2> QED
    BY <1>2, <2>1 DEF Dispatch, PlanningTypeOK, ResultsAreWhole, Exclusive, NotYetCompleted
<1>3. ASSUME NEW r \in RunIds, TriggerRun(r) PROVE Inv'
  <2>1. PlanningTypeOK'
    BY <1>1, <1>3 DEF TriggerRun, PlanningTypeOK
  <2>2. ResultsAreWhole' /\ Exclusive'
    BY <1>3 DEF TriggerRun, ResultsAreWhole, Exclusive, PlanningTypeOK
  <2>3. NotYetCompleted'
    BY <1>3, BusyTask DEF TriggerRun, NotYetCompleted, PlanningTypeOK
  <2> QED
    BY <2>1, <2>2, <2>3
<1> QED
  BY <1>2, <1>3

\* The inductive invariant: types, whole results, and the exclusion of workers
\* that execute_run gets from the lock on the row.
THEOREM PlanningInvariant == PlanningSpec => []Inv
<1>1. PlanningInit => Inv
  BY PlanningAssumption DEF PlanningInit, Inv, PlanningTypeOK, ResultsAreWhole, Exclusive, NotYetCompleted
<1>2. Inv /\ [PlanningNext]_planningVars => Inv'
  <2> SUFFICES ASSUME Inv, [PlanningNext]_planningVars PROVE Inv'
    OBVIOUS
  <2>1. CASE UNCHANGED planningVars
    BY <2>1 DEF planningVars, Inv, PlanningTypeOK, ResultsAreWhole, Exclusive, NotYetCompleted
  <2>2. CASE Dispatch \/ \E r \in RunIds : TriggerRun(r)
    BY <2>2, QueueingKeeps
  <2>3. ASSUME NEW w \in Workers, Step(w) \/ Crash(w) PROVE Inv'
    BY <2>3, BeginKeeps, CompleteKeeps, OtherStepKeeps, MarkFailedKeeps DEF Step
  <2> QED
    BY <2>1, <2>2, <2>3 DEF PlanningNext
<1> QED
  BY <1>1, <1>2, PTL DEF PlanningSpec

\* A failed attempt leaves none of its results behind, and a completed run has
\* all of them (run_scm_planning rolls back before it records a failure).
THEOREM WholeResults == PlanningSpec => []ResultsAreWhole
<1>1. Inv => ResultsAreWhole
  BY DEF Inv
<1> QED
  BY <1>1, PlanningInvariant, PTL

\* No message, duplicate or redelivered, makes a worker calculate a run that is
\* completed (execute_run under its lock).
THEOREM NoSecondCompletion == PlanningSpec => CompletedOnce
<1>1. Inv /\ [PlanningNext]_planningVars =>
        [\A w \in Workers :
           workerPhase[w] = "running" /\ workerPhase'[w] = "committed" => runStatus[task[w].run] # "COMPLETED"]_planningVars
  BY DEF Inv, NotYetCompleted
<1> QED
  BY <1>1, PlanningInvariant, PTL DEF PlanningSpec, CompletedOnce

-----------------------------------------------------------------------------
(***************************************************************************)
(* PlanningEngine. The dates of a plan follow its lowest balance, for      *)
(* every horizon, quantity, opening stock and policy. The invariant adds   *)
(* what the code relies on without saying: the lowest balance is not above *)
(* the current one nor above the end of any day that is already projected. *)
(***************************************************************************)

Dated(p, r) ==
  /\ r.breach # NoDay <=> r.minimum < p.policy.safety
  /\ r.stockout # NoDay <=> Stockout(p.policy, r.minimum)

MinimumIsLowest(r) ==
  /\ r.minimum <= r.balance
  /\ \A i \in DOMAIN r.closing : r.minimum <= r.closing[i]

EngineInv ==
  /\ TypeOK
  /\ Dated(plan, result)
  /\ MinimumIsLowest(result)

Plans ==
  [opening : Int, demand : [Days -> Nat], supply : [Days -> Nat],
   policy : [safety : Nat, demandFirst : BOOLEAN, inclusive : BOOLEAN, stale : BOOLEAN]]

Projections ==
  [balance : Int, minimum : Int, used : Nat, breach : Days \union {NoDay},
   stockout : Days \union {NoDay}, recovery : Days \union {NoDay}, closing : Seq(Int)]

-----------------------------------------------------------------------------

LEMMA DayFacts ==
  /\ Horizon \in Nat \ {0}
  /\ 0 \in Days
  /\ Days \subseteq Int
  /\ NoDay \notin Days
  BY EngineAssumption DEF EngineAssumption, Days

\* What a plan starts from satisfies the invariant.
LEMMA StartIsGood ==
  ASSUME NEW p \in Plans
  PROVE  /\ Start(p) \in Projections
         /\ Dated(p, Start(p))
         /\ MinimumIsLowest(Start(p))
  <1>1. p.opening \in Int /\ p.policy.safety \in Nat /\ p.policy.inclusive \in BOOLEAN
    BY DEF Plans
  <1>2. Start(p) \in Projections
    BY <1>1, DayFacts DEF Start, Projections
  <1>3. Dated(p, Start(p))
    BY <1>1, DayFacts DEF Start, Dated
  <1>4. MinimumIsLowest(Start(p))
    BY <1>1 DEF Start, MinimumIsLowest
  <1> QED BY <1>2, <1>3, <1>4

\* A day that is closed.
LEMMA ClosingUpdate ==
  ASSUME NEW r \in Projections, NEW c \in Seq(Int)
  PROVE  [r EXCEPT !.closing = c] \in Projections
  BY DEF Projections

\* One event keeps it, whatever the new balance is.
LEMMA AfterIsGood ==
  ASSUME NEW p \in Plans, NEW r \in Projections, NEW d \in Days, NEW now \in Int,
         Dated(p, r), MinimumIsLowest(r)
  PROVE  /\ After(p, r, d, now) \in Projections
         /\ After(p, r, d, now).balance = now
         /\ After(p, r, d, now).closing = r.closing
         /\ Dated(p, After(p, r, d, now))
         /\ MinimumIsLowest(After(p, r, d, now))
  <1> DEFINE a == After(p, r, d, now)
  <1>1. p.policy.safety \in Nat /\ p.policy.inclusive \in BOOLEAN
    BY DEF Plans
  <1>2. /\ r.minimum \in Int /\ r.balance \in Int /\ r.used \in Nat /\ r.closing \in Seq(Int)
        /\ {r.breach, r.stockout, r.recovery} \subseteq Days \union {NoDay}
    BY DEF Projections
  <1>3. /\ a.balance = now
        /\ a.minimum = Least(r.minimum, now)
        /\ a.breach = IF r.breach = NoDay /\ now < p.policy.safety THEN d ELSE r.breach
        /\ a.stockout = IF r.stockout = NoDay /\ Stockout(p.policy, now) THEN d ELSE r.stockout
        /\ a.closing = r.closing
    BY DEF After, Projections
  <1>4. a \in Projections
    <2>1. Least(r.minimum, now) \in Int
      BY <1>2 DEF Least
    <2>2. a.used \in Nat
      BY <1>2 DEF After
    <2>3. {a.breach, a.stockout, a.recovery} \subseteq Days \union {NoDay}
      BY <1>2 DEF After
    <2> QED BY <1>2, <2>1, <2>2, <2>3 DEF After, Projections
  <1>5. a.breach # NoDay <=> a.minimum < p.policy.safety
    BY <1>1, <1>2, <1>3, DayFacts DEF Dated, Least
  <1>6. Stockout(p.policy, a.minimum) <=> Stockout(p.policy, r.minimum) \/ Stockout(p.policy, now)
    BY <1>1, <1>2, <1>3 DEF Stockout, Least
  <1>7. a.stockout # NoDay <=> Stockout(p.policy, a.minimum)
    BY <1>3, <1>6, DayFacts DEF Dated
  <1>8. MinimumIsLowest(a)
    <2>1. a.minimum <= now /\ a.minimum <= r.minimum
      BY <1>2, <1>3 DEF Least
    <2>2. \A i \in DOMAIN r.closing : r.closing[i] \in Int
      BY <1>2
    <2> QED BY <1>2, <1>3, <1>4, <2>1, <2>2 DEF MinimumIsLowest, Projections
  <1> QED BY <1>3, <1>4, <1>5, <1>7, <1>8 DEF Dated

\* So does closing a day at the balance it has reached.
LEMMA CloseIsGood ==
  ASSUME NEW p \in Plans, NEW r \in Projections, Dated(p, r), MinimumIsLowest(r)
  PROVE  LET c == [r EXCEPT !.closing = Append(@, r.balance)]
         IN c \in Projections /\ Dated(p, c) /\ MinimumIsLowest(c)
  <1> DEFINE c == [r EXCEPT !.closing = Append(@, r.balance)]
  <1>1. r.balance \in Int /\ r.minimum \in Int /\ r.closing \in Seq(Int)
    BY DEF Projections
  <1>2. c \in Projections
    <2>1. Append(r.closing, r.balance) \in Seq(Int)
      BY <1>1
    <2> QED BY <2>1, ClosingUpdate
  <1>3. /\ c.breach = r.breach /\ c.stockout = r.stockout
        /\ c.minimum = r.minimum /\ c.balance = r.balance
        /\ c.closing = Append(r.closing, r.balance)
    BY DEF Projections
  <1>4. Dated(p, c)
    BY <1>3 DEF Dated
  <1>5. MinimumIsLowest(c)
    BY <1>1, <1>3 DEF MinimumIsLowest
  <1> QED BY <1>2, <1>4, <1>5

LEMMA ChangeIsWhole ==
  ASSUME NEW p \in Plans, NEW d \in Days, NEW h \in 1..2
  PROVE  Change(p, d, h) \in Int
  BY DEF Plans, Change

\* What a recommendation says of the supply it is about.
LEMMA RecommendedFacts ==
  ASSUME NEW p \in Plans, NEW r \in Projections, NEW rec \in Recommended(p, r), Dated(p, r)
  PROVE  /\ rec.action = "PULL_IN" => rec.supply \in Days
         /\ rec.action = "CANCEL_REDUCE" =>
              rec.supply \in Days /\ rec.quantity \in Nat /\ rec.quantity <= p.supply[rec.supply]
         /\ rec.action \in {"NEW_BUY", "INTERPLANT_TRANSFER"} => rec.quantity \in Nat
  <1>1. /\ p.supply \in [Days -> Nat]
        /\ r.minimum \in Int /\ r.balance \in Int /\ r.used \in Nat
    BY DEF Plans, Projections
  <1>2. PeakShortage(r) \in Nat
    BY <1>1 DEF PeakShortage, Greatest
  <1>3. Excess(r) \in Nat
    <2>1. Window \in Nat \ {0} /\ Coverage \in Nat
      BY EngineAssumption DEF EngineAssumption
    <2>2. r.used * Coverage \in Nat
      BY <1>1, <2>1
    <2>3. MaximumInventory(r) \in Int
      BY <2>1, <2>2 DEF MaximumInventory
    <2> QED BY <1>1, <2>3 DEF Excess, Greatest
  <1>4. RoundedOrder(PeakShortage(r)) \in Nat
    <2>1. Multiple \in Nat \ {0} /\ MinOrder \in Nat
      BY EngineAssumption DEF EngineAssumption
    <2> DEFINE n == Greatest(PeakShortage(r), MinOrder) + Multiple - 1
    <2>2. n \in Nat
      BY <1>2, <2>1 DEF Greatest
    <2>3. n \div Multiple \in Nat
      BY <2>1, <2>2
    <2>4. (n \div Multiple) * Multiple \in Nat
      BY <2>1, <2>3
    <2> QED BY <2>4 DEF RoundedOrder
  <1>5. CASE rec \in ShortageActions(p, r)
    BY <1>1, <1>2, <1>4, <1>5 DEF ShortageActions, Movable
  <1>6. CASE rec \in ExcessActions(p, r)
    <2>1. PICK s \in Cancellable(p) :
            rec = [action |-> "CANCEL_REDUCE", quantity |-> Least(p.supply[s], Excess(r)),
                   supply |-> s, proposed |-> NoDay]
      BY <1>6 DEF ExcessActions
    <2>2. s \in Days /\ p.supply[s] \in Nat
      BY <1>1 DEF Cancellable
    <2> QED BY <1>3, <2>1, <2>2 DEF Least
  <1>7. CASE rec \in Transfers(r)
    BY <1>2, <1>7 DEF Transfers
  <1> QED BY <1>5, <1>6, <1>7 DEF Recommended

\* Simulating keeps plans well formed: no recommendation takes away more than
\* there is.
LEMMA SimulatedPlan ==
  ASSUME NEW p \in Plans, NEW r \in Projections, NEW rec \in Recommended(p, r), Dated(p, r)
  PROVE  [p EXCEPT !.supply = SupplyAfter(p, rec),
                   !.policy.demandFirst = TRUE, !.policy.inclusive = TRUE] \in Plans
  <1>1. /\ p.supply \in [Days -> Nat]
        /\ p.policy \in [safety : Nat, demandFirst : BOOLEAN, inclusive : BOOLEAN, stale : BOOLEAN]
    BY DEF Plans
  <1>2. SupplyAfter(p, rec) \in [Days -> Nat]
    BY <1>1, RecommendedFacts DEF SupplyAfter
  <1>3. [p.policy EXCEPT !.demandFirst = TRUE, !.inclusive = TRUE] \in
          [safety : Nat, demandFirst : BOOLEAN, inclusive : BOOLEAN, stale : BOOLEAN]
    BY <1>1
  <1> QED BY <1>1, <1>2, <1>3 DEF Plans

-----------------------------------------------------------------------------

LEMMA InitInv == Init => EngineInv
  <1> SUFFICES ASSUME Init PROVE EngineInv
    OBVIOUS
  <1>1. plan \in Plans
    BY EngineAssumption DEF Init, EngineAssumption, Plans
  <1>2. result = Start(plan) /\ phase = "project" /\ day = 0 /\ half = 1
    BY DEF Init
  <1> QED BY <1>1, <1>2, StartIsGood, DayFacts DEF EngineInv, TypeOK, Plans, Projections

LEMMA NextInv == EngineInv /\ [Next]_vars => EngineInv'
  <1> SUFFICES ASSUME EngineInv, [Next]_vars PROVE EngineInv'
    OBVIOUS
  <1>0. /\ plan \in Plans /\ result \in Projections
        /\ phase \in {"project", "peg", "done"} /\ day \in Days /\ half \in 1..2
        /\ Dated(plan, result) /\ MinimumIsLowest(result)
    BY DEF EngineInv, TypeOK, Plans, Projections
  <1>1. SUFFICES /\ plan' \in Plans /\ result' \in Projections
                 /\ phase' \in {"project", "peg", "done"} /\ day' \in Days /\ half' \in 1..2
                 /\ Dated(plan', result') /\ MinimumIsLowest(result')
    BY DEF EngineInv, TypeOK, Plans, Projections, Dated, MinimumIsLowest, Stockout
  <1>2. ASSUME day # Horizon - 1 PROVE day + 1 \in Days
    BY <1>0, <1>2, DayFacts DEF Days
  <1>3. CASE FirstEvent
    <2>1. result.balance + Change(plan, day, 1) \in Int
      BY <1>0, ChangeIsWhole DEF Projections
    <2> QED BY <1>0, <1>3, <2>1, AfterIsGood DEF FirstEvent
  <1>4. CASE LastEvent
    <2> DEFINE r == After(plan, result, day, result.balance + Change(plan, day, 2))
    <2>1. result.balance + Change(plan, day, 2) \in Int
      BY <1>0, ChangeIsWhole DEF Projections
    <2>2. r \in Projections /\ Dated(plan, r) /\ MinimumIsLowest(r)
      BY <1>0, <2>1, AfterIsGood
    <2>3. result' = [r EXCEPT !.closing = Append(@, r.balance)] /\ plan' = plan
      BY <1>4 DEF LastEvent
    <2>4. result' \in Projections /\ Dated(plan', result') /\ MinimumIsLowest(result')
      BY <1>0, <2>2, <2>3, CloseIsGood
    <2>5. phase' \in {"project", "peg", "done"} /\ day' \in Days /\ half' \in 1..2
      BY <1>0, <1>2, <1>4, DayFacts DEF LastEvent
    <2> QED BY <1>0, <2>3, <2>4, <2>5
  <1>5. CASE Peg
    <2>1. plan' = plan /\ result' = result /\ half' = half
      BY <1>5 DEF Peg
    <2>2. phase' \in {"project", "peg", "done"} /\ day' \in Days
      BY <1>0, <1>2, <1>5, DayFacts DEF Peg
    <2> QED BY <1>0, <2>1, <2>2
  <1>6. CASE \E rec \in Recommended(plan, result) : Simulate(rec)
    <2>1. PICK rec \in Recommended(plan, result) : Simulate(rec)
      BY <1>6
    <2>2. plan' \in Plans
      BY <1>0, <2>1, SimulatedPlan DEF Simulate
    <2>3. result' = Start(plan') /\ phase' = "project" /\ day' = day /\ half' = half
      BY <2>1 DEF Simulate
    <2> QED BY <1>0, <2>2, <2>3, StartIsGood
  <1>7. CASE UNCHANGED vars
    BY <1>0, <1>7 DEF vars
  <1> QED BY <1>3, <1>4, <1>5, <1>6, <1>7 DEF Next

\* The inductive invariant of the planner: types, dates that follow the lowest
\* balance, and a lowest balance that is the lowest.
THEOREM EngineInvariant == Spec => []EngineInv
  <1> QED BY InitInv, NextInv, PTL DEF Spec

\* The values of a plan, simulated ones included, keep their types: in
\* particular no recommendation cancels more than a supply holds.
THEOREM EngineTypes == Spec => []TypeOK
  <1>1. EngineInv => TypeOK
    BY DEF EngineInv
  <1> QED BY <1>1, EngineInvariant, PTL

\* A breach and a stockout are dated exactly when the lowest balance crosses
\* the threshold, and a shortage always has a stockout date.
THEOREM MinimumIsDated == Spec => []DatesFollowMinimum
  <1>1. ASSUME EngineInv PROVE PeakShortage(result) > 0 => result.stockout # NoDay
    BY <1>1 DEF EngineInv, TypeOK, Dated, Stockout, PeakShortage, Greatest
  <1>2. EngineInv => DatesFollowMinimum
    BY <1>1 DEF EngineInv, Dated, DatesFollowMinimum
  <1> QED BY <1>2, EngineInvariant, PTL

\* Under the default policy no plan is GREEN that ends a day short: whatever
\* the horizon, a day below the safety stock or out of stock shows in the
\* severity of the material (engine.py:162-178 and 297-305).
GreenIsCovered ==
  (plan.policy.inclusive /\ Severity(plan, result) = "GREEN") =>
    \A i \in DOMAIN result.closing : ~ShortDay(plan, result.closing[i])

THEOREM NoGreenShortage == Spec => []GreenIsCovered
  <1>1. ASSUME EngineInv, plan.policy.inclusive, Severity(plan, result) = "GREEN",
               NEW i \in DOMAIN result.closing
        PROVE  ~ShortDay(plan, result.closing[i])
    <2>1. result.breach = NoDay /\ result.stockout = NoDay
      BY <1>1 DEF Severity
    <2>2. /\ plan.policy.safety \in Nat /\ result.minimum \in Int
          /\ result.closing[i] \in Int /\ result.minimum <= result.closing[i]
      BY <1>1 DEF EngineInv, TypeOK, MinimumIsLowest
    <2>3. ~(result.minimum < plan.policy.safety) /\ ~(result.minimum <= 0)
      BY <1>1, <2>1 DEF EngineInv, Dated, Stockout
    <2> QED BY <2>2, <2>3 DEF ShortDay
  <1>2. EngineInv => GreenIsCovered
    BY <1>1 DEF GreenIsCovered
  <1> QED BY <1>2, EngineInvariant, PTL

-----------------------------------------------------------------------------
(***************************************************************************)
(* Induction over days. The sums and sequences of the planner are          *)
(* functions defined day by day: such a function exists (Recursion), so it *)
(* satisfies its equation, and Induction follows it day by day.            *)
(***************************************************************************)

\* A set of numbers that has 0, and with a number the next one, has them all.
LEMMA Induction ==
  ASSUME NEW n \in Nat, NEW S, 0 \in S, \A k \in 0..n - 1 : k \in S => k + 1 \in S
  PROVE  0..n \subseteq S
<1> DEFINE T == (0..n) \ S
           less == OpToRel(<, Nat)
<1>1. SUFFICES ASSUME T # {}
               PROVE  FALSE
  OBVIOUS
<1>2. IsWellFoundedOn(less, Nat)
  BY NatLessThanWellFounded
<1>3. \A a, b \in Nat : a < b => <<a, b>> \in less
  BY DEF OpToRel
<1>4. T \subseteq Nat
  OBVIOUS
<1>5. \E x \in T : \A y \in T : ~ (<<y, x>> \in less)
  <2> HIDE DEF T, less
  <2> QED  BY <1>1, <1>2, <1>4, WFMin
<1> HIDE DEF less
<1>6. PICK m \in T : \A y \in T : ~ (<<y, m>> \in less)
  BY <1>5
<1>7. m \in 1..n /\ m - 1 \in 0..n - 1
  BY <1>6
<1>8. m - 1 \notin T
  <2>1. m \in Nat /\ m - 1 \in Nat /\ m - 1 < m
    BY <1>7
  <2>2. <<m - 1, m>> \in less
    BY <1>3, <2>1
  <2> HIDE DEF T
  <2> QED  BY <1>6, <2>2
<1>9. m - 1 \in S
  BY <1>7, <1>8
<1>10. (m - 1) + 1 \in S
  BY <1>7, <1>9
<1>11. m \in S
  BY <1>7, <1>10
<1> QED  BY <1>6, <1>11

\* A function that is defined step by step exists.
Iterates(n, V, v, F, g) ==
  g \in [0..n -> V] /\ g[0] = v /\ \A k \in 1..n : g[k] = F[k][g[k - 1]]

LEMMA Recursion ==
  ASSUME NEW n \in Nat, NEW V, NEW v \in V, NEW F \in [1..n -> [V -> V]]
  PROVE  \E g : Iterates(n, V, v, F, g)
<1> DEFINE Good(m, g) == g[0] = v /\ \A k \in 1..m : g[k] = F[k][g[k - 1]]
           S == {m \in 0..n : \E g \in [0..m -> V] : Good(m, g)}
<1>1. 0 \in S
  <2> DEFINE g == [k \in 0..0 |-> v]
  <2>1. g \in [0..0 -> V] /\ Good(0, g)
    OBVIOUS
  <2> HIDE DEF g, Good
  <2>2. \E x \in [0..0 -> V] : Good(0, x)
    BY <2>1
  <2> QED  BY <2>2
<1>2. ASSUME NEW m \in 0..n - 1, m \in S
      PROVE  m + 1 \in S
  <2>1. PICK g \in [0..m -> V] : Good(m, g)
    BY <1>2
  <2>2. m \in Nat /\ m \in 0..m /\ m + 1 \in 1..n /\ m + 1 \in 0..n
    BY <1>2
  <2> DEFINE w == F[m + 1][g[m]]
             h == [k \in 0..m + 1 |-> IF k = m + 1 THEN w ELSE g[k]]
  <2>3. w \in V
    BY <2>2
  <2> HIDE DEF w
  <2>4. h \in [0..m + 1 -> V]
    BY <2>2, <2>3
  <2>5. h[0] = v /\ h[m + 1] = w /\ \A k \in 0..m : h[k] = g[k]
    BY <2>1, <2>2
  <2>6. ASSUME NEW k \in 1..m + 1
        PROVE  h[k] = F[k][h[k - 1]]
    <3> HIDE DEF h
    <3>1. CASE k = m + 1
      BY <2>2, <2>5, <3>1 DEF w
    <3>2. CASE k # m + 1
      <4>1. k \in 1..m /\ k \in 0..m /\ k - 1 \in 0..m
        BY <2>2, <3>2
      <4> QED  BY <2>1, <2>5, <4>1
    <3> QED  BY <3>1, <3>2
  <2>7. Good(m + 1, h)
    <3> HIDE DEF h
    <3> QED  BY <2>5, <2>6
  <2> HIDE DEF h, Good
  <2>8. \E x \in [0..m + 1 -> V] : Good(m + 1, x)
    BY <2>4, <2>7
  <2> QED  BY <2>2, <2>8
<1> HIDE DEF S
<1>3. n \in S
  <2>1. 0..n \subseteq S
    BY <1>1, <1>2, Induction
  <2> QED  BY <2>1
<1> QED  BY <1>3 DEF S, Iterates

-----------------------------------------------------------------------------
\* TotalBefore adds up what its recursion says it does.
Running(quantity, d, upto) ==
  upto = [n \in 0..d |-> IF n = 0 THEN 0 ELSE upto[n - 1] + quantity[n - 1]]

LEMMA RunningExists ==
  ASSUME NEW quantity \in [Days -> Nat], NEW d \in 0..Horizon
  PROVE  \E upto \in [0..d -> Nat] : Running(quantity, d, upto)
<1> DEFINE F == [k \in 1..d |-> [x \in Nat |-> x + quantity[k - 1]]]
<1>1. d \in Nat /\ 0 \in Nat
  BY DayFacts
<1>2. \A k \in 1..d : k - 1 \in Days /\ quantity[k - 1] \in Nat
  BY DayFacts DEF Days
<1>3. F \in [1..d -> [Nat -> Nat]]
  BY <1>2
<1>4. PICK g : g \in [0..d -> Nat] /\ g[0] = 0 /\ \A k \in 1..d : g[k] = F[k][g[k - 1]]
  <2> HIDE DEF F
  <2>1. \E g : Iterates(d, Nat, 0, F, g)
    BY <1>1, <1>3, Recursion
  <2> QED  BY <2>1 DEF Iterates
<1>5. \A k \in 1..d : g[k] = g[k - 1] + quantity[k - 1]
  <2>1. ASSUME NEW k \in 1..d
        PROVE  g[k] = g[k - 1] + quantity[k - 1]
    <3>0. k - 1 \in 0..d
      BY <1>1
    <3>1. g[k] = F[k][g[k - 1]] /\ g[k - 1] \in Nat
      <4> HIDE DEF F
      <4> QED  BY <1>4, <3>0
    <3>2. F[k] = [x \in Nat |-> x + quantity[k - 1]]
      OBVIOUS
    <3> HIDE DEF F
    <3> QED  BY <3>1, <3>2
  <2> QED  BY <2>1
<1>6. Running(quantity, d, g)
  BY <1>1, <1>4, <1>5 DEF Running
<1> QED  BY <1>4, <1>6

LEMMA RunningIsUnique ==
  ASSUME NEW quantity \in [Days -> Nat], NEW e \in 0..Horizon, NEW d \in 0..e,
         NEW u \in [0..e -> Nat], Running(quantity, e, u), NEW w, Running(quantity, d, w)
  PROVE  w[d] = u[d]
<1> DEFINE S == {k \in 0..d : w[k] = u[k]}
<1>1. d \in Nat /\ e \in Nat
  BY DayFacts
<1>2. \A k \in 0..d : w[k] = IF k = 0 THEN 0 ELSE w[k - 1] + quantity[k - 1]
  BY DEF Running
<1>3. \A k \in 0..e : u[k] = IF k = 0 THEN 0 ELSE u[k - 1] + quantity[k - 1]
  BY DEF Running
<1>4. 0 \in S
  BY <1>1, <1>2, <1>3
<1>5. ASSUME NEW k \in 0..d - 1, k \in S
      PROVE  k + 1 \in S
  <2>1. k + 1 \in 0..d /\ k + 1 \in 0..e /\ k + 1 # 0 /\ (k + 1) - 1 = k
    BY <1>1
  <2> QED  BY <1>2, <1>3, <1>5, <2>1
<1> HIDE DEF S
<1>6. 0..d \subseteq S
  BY <1>1, <1>4, <1>5, Induction
<1> QED  BY <1>1, <1>6 DEF S

LEMMA TotalRuns ==
  ASSUME NEW quantity \in [Days -> Nat], NEW d \in 0..Horizon
  PROVE  \E w : Running(quantity, d, w) /\ TotalBefore(quantity, d) = w[d]
<1> DEFINE w == CHOOSE w : w = [n \in 0..d |-> IF n = 0 THEN 0 ELSE w[n - 1] + quantity[n - 1]]
<1>1. Running(quantity, d, w)
  BY RunningExists DEF Running
<1>2. TotalBefore(quantity, d) = w[d]
  BY DEF TotalBefore
<1> QED  BY <1>1, <1>2

LEMMA TotalSteps ==
  ASSUME NEW quantity \in [Days -> Nat]
  PROVE  /\ TotalBefore(quantity, 0) = 0
         /\ \A d \in 0..Horizon : TotalBefore(quantity, d) \in Nat
         /\ \A d \in Days : TotalBefore(quantity, d + 1) = TotalBefore(quantity, d) + quantity[d]
<1>1. Horizon \in Nat /\ Horizon \in 0..Horizon /\ 0 \in 0..Horizon
  BY DayFacts
<1>2. PICK u \in [0..Horizon -> Nat] : Running(quantity, Horizon, u)
  BY <1>1, RunningExists
<1>3. ASSUME NEW d \in 0..Horizon
      PROVE  TotalBefore(quantity, d) = u[d]
  BY <1>1, <1>2, TotalRuns, RunningIsUnique
<1>4. \A k \in 0..Horizon : u[k] = IF k = 0 THEN 0 ELSE u[k - 1] + quantity[k - 1]
  BY <1>2 DEF Running
<1>5. ASSUME NEW d \in Days
      PROVE  TotalBefore(quantity, d + 1) = TotalBefore(quantity, d) + quantity[d]
  <2>1. d \in 0..Horizon /\ d + 1 \in 0..Horizon /\ d + 1 # 0 /\ (d + 1) - 1 = d
    BY <1>1 DEF Days
  <2> QED  BY <1>3, <1>4, <2>1
<1> QED  BY <1>1, <1>2, <1>3, <1>4, <1>5

-----------------------------------------------------------------------------
\* A total never falls.
LEMMA TotalGrows ==
  ASSUME NEW quantity \in [Days -> Nat], NEW a \in 0..Horizon, NEW b \in 0..Horizon, a <= b
  PROVE  TotalBefore(quantity, a) <= TotalBefore(quantity, b)
<1> DEFINE S == {k \in 0..b - a : TotalBefore(quantity, a) <= TotalBefore(quantity, a + k)}
<1>1. a \in Nat /\ b \in Nat /\ b - a \in Nat /\ a + 0 = a /\ a + (b - a) = b
  BY DayFacts
<1>2. \A d \in 0..Horizon : TotalBefore(quantity, d) \in Nat
  BY TotalSteps
<1>3. 0 \in S
  BY <1>1, <1>2
<1>4. ASSUME NEW k \in 0..(b - a) - 1, k \in S
      PROVE  k + 1 \in S
  <2>1. a + k \in Days /\ a + k \in 0..Horizon /\ a + (k + 1) = (a + k) + 1
        /\ (a + k) + 1 \in 0..Horizon /\ k + 1 \in 0..b - a
    BY <1>1, DayFacts DEF Days
  <2>2. TotalBefore(quantity, (a + k) + 1) = TotalBefore(quantity, a + k) + quantity[a + k]
        /\ quantity[a + k] \in Nat
    BY <2>1, TotalSteps
  <2>3. TotalBefore(quantity, a) <= TotalBefore(quantity, a + k)
    BY <1>4
  <2>4. /\ TotalBefore(quantity, a) \in Nat /\ TotalBefore(quantity, a + k) \in Nat
    BY <1>2, <2>1
  <2>5. TotalBefore(quantity, a) <= TotalBefore(quantity, a + (k + 1))
    BY <2>1, <2>2, <2>3, <2>4
  <2> QED  BY <2>1, <2>5
<1> HIDE DEF S
<1>5. b - a \in S
  <2>1. 0..b - a \subseteq S
    BY <1>1, <1>3, <1>4, Induction
  <2> QED  BY <1>1, <2>1
<1> QED  BY <1>1, <1>5 DEF S

LEMMA PlanFacts ==
  ASSUME NEW p \in Plans
  PROVE  /\ p.opening \in Int /\ p.demand \in [Days -> Nat] /\ p.supply \in [Days -> Nat]
         /\ p.policy.safety \in Nat /\ p.policy.demandFirst \in BOOLEAN
         /\ p.policy.inclusive \in BOOLEAN
BY DEF Plans

\* The events of a day, as moments of the horizon.
LEMMA MomentsOfDay ==
  ASSUME NEW d \in Days
  PROVE  /\ d \in Nat /\ 2 * d \in 0..2 * Horizon
         /\ 2 * d + 1 \in 0..2 * Horizon /\ 2 * d + 2 \in 0..2 * Horizon
         /\ (2 * d) \div 2 = d /\ (2 * d) % 2 = 0
         /\ (2 * d + 1) \div 2 = d /\ (2 * d + 1) % 2 = 1
         /\ (2 * d + 2) \div 2 = d + 1 /\ (2 * d + 2) % 2 = 0
         /\ d + 1 \in 0..Horizon /\ d \in 0..Horizon
<1>1. d \in Nat /\ Horizon \in Nat /\ d + 1 <= Horizon
  BY DayFacts DEF Days
<1> QED  BY <1>1

LEMMA MomentIsOfDay ==
  ASSUME NEW n \in 0..2 * Horizon
  PROVE  n = 0 \/ \E d \in Days : n = 2 * d + 1 \/ n = 2 * d + 2
<1>1. Horizon \in Nat /\ n \in Nat
  BY DayFacts
<1>2. n # 0 => (n - 1) \div 2 \in Days /\ (n = 2 * ((n - 1) \div 2) + 1 \/ n = 2 * ((n - 1) \div 2) + 2)
  BY <1>1 DEF Days
<1> QED  BY <1>2

\* The balance of a moment and that of the next differ by one event.
LEMMA LevelSteps ==
  ASSUME NEW p \in Plans
  PROVE  /\ LevelOf(p, 0) = p.opening
         /\ \A d \in Days : /\ LevelOf(p, 2 * d + 1) = LevelOf(p, 2 * d) + Change(p, d, 1)
                            /\ LevelOf(p, 2 * d + 2) = LevelOf(p, 2 * d + 1) + Change(p, d, 2)
         /\ \A n \in 0..2 * Horizon : LevelOf(p, n) \in Int
<1> DEFINE S(d) == TotalBefore(p.supply, d)
           D(d) == TotalBefore(p.demand, d)
<1>1. /\ p.opening \in Int /\ p.demand \in [Days -> Nat] /\ p.supply \in [Days -> Nat]
      /\ p.policy.demandFirst \in BOOLEAN
  BY PlanFacts
<1>2. /\ S(0) = 0 /\ D(0) = 0
      /\ \A d \in 0..Horizon : S(d) \in Nat /\ D(d) \in Nat
      /\ \A d \in Days : S(d + 1) = S(d) + p.supply[d] /\ D(d + 1) = D(d) + p.demand[d]
  BY <1>1, TotalSteps
<1>3. ASSUME NEW d \in 0..Horizon
      PROVE  LevelOf(p, 2 * d) = p.opening + S(d) - D(d)
  <2>1. (2 * d) \div 2 = d /\ (2 * d) % 2 = 0 /\ S(d) \in Nat /\ D(d) \in Nat
    BY <1>2, DayFacts
  <2> HIDE DEF S, D
  <2>2. LevelOf(p, 2 * d) = p.opening + S(d) - D(d) + 0
    BY <2>1 DEF LevelOf, S, D
  <2> QED  BY <1>1, <2>1, <2>2
<1>4. ASSUME NEW d \in Days
      PROVE  LevelOf(p, 2 * d + 1) = p.opening + S(d) - D(d)
               + (IF p.policy.demandFirst THEN -p.demand[d] ELSE p.supply[d])
  <2>1. (2 * d + 1) \div 2 = d /\ (2 * d + 1) % 2 = 1
    BY MomentsOfDay
  <2> QED  BY <2>1 DEF LevelOf
<1> HIDE DEF S, D
<1>5. LevelOf(p, 0) = p.opening
  <2>1. 0 \in 0..Horizon /\ 2 * 0 = 0
    BY DayFacts
  <2>2. LevelOf(p, 0) = p.opening + S(0) - D(0)
    BY <1>3, <2>1
  <2> QED  BY <1>1, <1>2, <2>2
<1>6. ASSUME NEW d \in Days
      PROVE  /\ LevelOf(p, 2 * d + 1) = LevelOf(p, 2 * d) + Change(p, d, 1)
             /\ LevelOf(p, 2 * d + 2) = LevelOf(p, 2 * d + 1) + Change(p, d, 2)
             /\ LevelOf(p, 2 * d + 1) \in Int /\ LevelOf(p, 2 * d + 2) \in Int
  <2>1. d \in 0..Horizon /\ d + 1 \in 0..Horizon /\ 2 * (d + 1) = 2 * d + 2
    BY MomentsOfDay
  <2>2. LevelOf(p, 2 * d) = p.opening + S(d) - D(d)
    BY <1>3, <2>1
  <2>3. LevelOf(p, 2 * d + 2) = p.opening + S(d + 1) - D(d + 1)
    BY <1>3, <2>1
  <2>4. S(d + 1) = S(d) + p.supply[d] /\ D(d + 1) = D(d) + p.demand[d]
    BY <1>2
  <2>5. p.supply[d] \in Nat /\ p.demand[d] \in Nat /\ S(d) \in Nat /\ D(d) \in Nat
    BY <1>1, <1>2, <2>1
  <2>6. CASE p.policy.demandFirst
    <3>1. Change(p, d, 1) = -p.demand[d] /\ Change(p, d, 2) = p.supply[d]
      <4>1. p.policy.demandFirst = TRUE
        BY <1>1, <2>6
      <4>2. (1 = 1) = TRUE /\ (2 = 1) = FALSE
        OBVIOUS
      <4> QED  BY <4>1, <4>2, Zenon DEF Change
    <3> QED  BY <1>1, <1>4, <2>2, <2>3, <2>4, <2>5, <2>6, <3>1
  <2>7. CASE ~ p.policy.demandFirst
    <3>1. Change(p, d, 1) = p.supply[d] /\ Change(p, d, 2) = -p.demand[d]
      BY <1>1, <2>7 DEF Change
    <3> QED  BY <1>1, <1>4, <2>2, <2>3, <2>4, <2>5, <2>7, <3>1
  <2> QED  BY <2>6, <2>7
<1>7. \A n \in 0..2 * Horizon : LevelOf(p, n) \in Int
  BY <1>1, <1>5, <1>6, MomentIsOfDay
<1> QED  BY <1>5, <1>6, <1>7

-----------------------------------------------------------------------------
\* A set of moments has a first one.
LEMMA FirstExists ==
  ASSUME NEW n \in Nat, NEW events, events \subseteq 0..n, events # {}
  PROVE  \E m \in events : \A k \in events : m <= k
<1> DEFINE none(k) == \A j \in 0..k : j \notin events
           S == {k \in 0..n : none(k)}
<1>1. SUFFICES ASSUME \A m \in events : \E k \in events : k < m
               PROVE  FALSE
  <2>1. events \subseteq Int
    OBVIOUS
  <2> QED  BY <2>1
<1>2. 0 \in S
  BY <1>1
<1>3. ASSUME NEW k \in 0..n - 1, k \in S
      PROVE  k + 1 \in S
  <2>1. \A j \in events : j > k
    BY <1>3
  <2>2. k + 1 \notin events
    BY <1>1, <2>1
  <2> QED  BY <2>1, <2>2
<1> HIDE DEF S
<1>4. 0..n \subseteq S
  BY <1>2, <1>3, Induction
<1>5. ASSUME NEW m \in events
      PROVE  FALSE
  <2>1. m \in S /\ m \in 0..m
    BY <1>4
  <2> QED  BY <2>1 DEF S
<1> QED  BY <1>5

\* DayOfFirst is the day of that first one.
LEMMA FirstDay ==
  ASSUME NEW n \in Nat, NEW events, events \subseteq 0..n
  PROVE  /\ events = {} => DayOfFirst(events) = NoDay
         /\ \A m \in events : (\A k \in events : m <= k) =>
              DayOfFirst(events) = IF m = 0 THEN 0 ELSE (m - 1) \div 2
         /\ events # {} => DayOfFirst(events) # NoDay
<1>1. ASSUME NEW m \in events, \A k \in events : m <= k
      PROVE  /\ DayOfFirst(events) = IF m = 0 THEN 0 ELSE (m - 1) \div 2
             /\ DayOfFirst(events) # NoDay
  <2> DEFINE f == CHOOSE x \in events : \A k \in events : x <= k
  <2>1. f \in events /\ \A k \in events : f <= k
    BY <1>1
  <2>2. f = m
    <3> HIDE DEF f
    <3>1. f \in Int /\ m \in Int /\ f <= m /\ m <= f
      BY <1>1, <2>1
    <3> QED  BY <3>1
  <2>3. DayOfFirst(events) = IF f = 0 THEN 0 ELSE (f - 1) \div 2
    BY DEF DayOfFirst
  <2>4. (IF m = 0 THEN 0 ELSE (m - 1) \div 2) \in Int
    OBVIOUS
  <2>5. NoDay \notin Int
    BY EngineAssumption
  <2> HIDE DEF f
  <2> QED  BY <2>2, <2>3, <2>4, <2>5
<1> QED  BY <1>1, FirstExists DEF DayOfFirst

\* One more moment, on day n \div 2.
LEMMA FirstGrows ==
  ASSUME NEW n \in Nat, NEW events, events \subseteq 0..n
  PROVE  DayOfFirst(events \union {n + 1}) =
           IF DayOfFirst(events) = NoDay THEN n \div 2 ELSE DayOfFirst(events)
<1> DEFINE more == events \union {n + 1}
<1>1. more \subseteq 0..n + 1 /\ n + 1 \in Nat
  OBVIOUS
<1>2. CASE events = {}
  <2>1. n + 1 \in more /\ \A k \in more : n + 1 <= k
    BY <1>2
  <2> HIDE DEF more
  <2>2. DayOfFirst(more) = IF n + 1 = 0 THEN 0 ELSE ((n + 1) - 1) \div 2
    BY <1>1, <2>1, FirstDay
  <2>3. DayOfFirst(events) = NoDay
    BY <1>2, FirstDay
  <2> QED  BY <2>2, <2>3 DEF more
<1>3. CASE events # {}
  <2>1. PICK m \in events : \A k \in events : m <= k
    BY <1>3, FirstExists
  <2>2. m \in more /\ \A k \in more : m <= k
    BY <2>1
  <2> HIDE DEF more
  <2>3. DayOfFirst(more) = IF m = 0 THEN 0 ELSE (m - 1) \div 2
    BY <1>1, <2>2, FirstDay
  <2>4. DayOfFirst(events) = IF m = 0 THEN 0 ELSE (m - 1) \div 2
    BY <2>1, FirstDay
  <2>5. DayOfFirst(events) # NoDay
    BY <1>3, FirstDay
  <2> QED  BY <2>3, <2>4, <2>5 DEF more
<1> QED  BY <1>2, <1>3

-----------------------------------------------------------------------------
\* The moments at which a date is due, up to moment n.
Breaches(p, n) == {m \in 0..n : LevelOf(p, m) < p.policy.safety}
Stockouts(p, n) == {m \in 0..n : Stockout(p.policy, LevelOf(p, m))}
Recoveries(p, n) ==
  {m \in 0..n : (\E k \in Stockouts(p, n) : k < m) /\ LevelOf(p, m) > p.policy.safety}

\* A projection that has seen the events up to moment n.
ProjectedTo(p, r, n) ==
  /\ r.balance = LevelOf(p, n)
  /\ \A m \in 0..n : r.minimum <= LevelOf(p, m)
  /\ \E m \in 0..n : r.minimum = LevelOf(p, m)
  /\ r.breach = DayOfFirst(Breaches(p, n))
  /\ r.stockout = DayOfFirst(Stockouts(p, n))
  /\ r.recovery = DayOfFirst(Recoveries(p, n))

\* How many events of the horizon the projection has seen.
Moment == IF phase = "project" THEN 2 * day + half - 1 ELSE 2 * Horizon


\* A projection starts that way, and every event keeps it.
LEMMA StartIsProjected ==
  ASSUME NEW p \in Plans
  PROVE  ProjectedTo(p, Start(p), 0)
<1>1. p.opening \in Int /\ p.policy.safety \in Nat /\ p.policy.inclusive \in BOOLEAN
  BY PlanFacts
<1>2. LevelOf(p, 0) = p.opening
  BY LevelSteps
<1> DEFINE first(E) == IF E = {} THEN NoDay ELSE 0
<1>3. ASSUME NEW E, E \subseteq {0}
      PROVE  DayOfFirst(E) = first(E)
  <2>1. CASE E = {}
    BY <2>1 DEF DayOfFirst
  <2>2. CASE E # {}
    <3>1. 0 \in E /\ E = {0}
      <4>1. PICK x : x \in E
        BY <2>2
      <4> QED  BY <1>3, <4>1
    <3>2. 0 \in Nat /\ E \subseteq 0..0 /\ \A k \in E : 0 <= k
      BY <3>1
    <3>3. DayOfFirst(E) = IF 0 = 0 THEN 0 ELSE (0 - 1) \div 2
      BY <3>1, <3>2, FirstDay
    <3> QED  BY <2>2, <3>3
  <2> QED  BY <2>1, <2>2
<1>4. Breaches(p, 0) = IF p.opening < p.policy.safety THEN {0} ELSE {}
  BY <1>2 DEF Breaches
<1>5. Stockouts(p, 0) = IF Stockout(p.policy, p.opening) THEN {0} ELSE {}
  BY <1>2 DEF Stockouts
<1>6. Recoveries(p, 0) = {}
  BY DEF Recoveries, Stockouts
<1>7. /\ DayOfFirst(Breaches(p, 0)) = IF p.opening < p.policy.safety THEN 0 ELSE NoDay
      /\ DayOfFirst(Stockouts(p, 0)) = IF Stockout(p.policy, p.opening) THEN 0 ELSE NoDay
      /\ DayOfFirst(Recoveries(p, 0)) = NoDay
  BY <1>3, <1>4, <1>5, <1>6
<1>8. /\ \A m \in 0..0 : p.opening <= LevelOf(p, m)
      /\ \E m \in 0..0 : p.opening = LevelOf(p, m)
  <2>1. 0..0 = {0}
    OBVIOUS
  <2> QED  BY <1>1, <1>2, <2>1
<1> QED  BY <1>2, <1>7, <1>8 DEF ProjectedTo, Start

LEMMA AfterIsProjected ==
  ASSUME NEW p \in Plans, NEW r \in Projections, NEW n \in Nat, n + 1 <= 2 * Horizon,
         ProjectedTo(p, r, n)
  PROVE  ProjectedTo(p, After(p, r, n \div 2, LevelOf(p, n + 1)), n + 1)
<1> DEFINE d == n \div 2
           now == LevelOf(p, n + 1)
           a == After(p, r, d, now)
<1>1. p.policy.safety \in Nat /\ Horizon \in Nat
  BY PlanFacts, DayFacts
<1>2. /\ \A m \in 0..n + 1 : LevelOf(p, m) \in Int
      /\ n + 1 \in 0..n + 1 /\ 0..n + 1 = (0..n) \union {n + 1}
  BY <1>1, LevelSteps
<1>3. /\ a.balance = now
      /\ a.minimum = Least(r.minimum, now)
      /\ a.breach = IF r.breach = NoDay /\ now < p.policy.safety THEN d ELSE r.breach
      /\ a.stockout = IF r.stockout = NoDay /\ Stockout(p.policy, now) THEN d ELSE r.stockout
      /\ a.recovery = IF r.recovery = NoDay /\ r.stockout # NoDay /\ now > p.policy.safety
                      THEN d ELSE r.recovery
  BY DEF After
<1>4. Breaches(p, n + 1) = Breaches(p, n) \union (IF now < p.policy.safety THEN {n + 1} ELSE {})
  BY <1>2 DEF Breaches
<1>5. Stockouts(p, n + 1) = Stockouts(p, n) \union (IF Stockout(p.policy, now) THEN {n + 1} ELSE {})
  BY <1>2 DEF Stockouts
<1>6. /\ Breaches(p, n) \subseteq 0..n /\ Stockouts(p, n) \subseteq 0..n
      /\ Recoveries(p, n) \subseteq 0..n
  BY DEF Breaches, Stockouts, Recoveries
<1>7. r.stockout # NoDay <=> Stockouts(p, n) # {}
  BY <1>6, FirstDay DEF ProjectedTo
<1>8. Recoveries(p, n + 1) = Recoveries(p, n) \union
        (IF r.stockout # NoDay /\ now > p.policy.safety THEN {n + 1} ELSE {})
  <2>1. ASSUME NEW m \in 0..n
        PROVE  m \in Recoveries(p, n + 1) <=> m \in Recoveries(p, n)
    <3>1. (\E k \in Stockouts(p, n + 1) : k < m) <=> (\E k \in Stockouts(p, n) : k < m)
      BY <1>5
    <3> QED  BY <1>2, <3>1 DEF Recoveries
  <2>2. n + 1 \in Recoveries(p, n + 1) <=> r.stockout # NoDay /\ now > p.policy.safety
    <3>1. (\E k \in Stockouts(p, n + 1) : k < n + 1) <=> Stockouts(p, n) # {}
      BY <1>5, <1>6
    <3> QED  BY <1>2, <1>7, <3>1 DEF Recoveries
  <2>3. Recoveries(p, n + 1) \subseteq (0..n) \union {n + 1}
    BY <1>2 DEF Recoveries
  <2>4. n + 1 \notin 0..n
    OBVIOUS
  <2> HIDE DEF now
  <2> QED  BY <1>6, <2>1, <2>2, <2>3, <2>4
<1> HIDE DEF now, a, d
<1>9. ASSUME NEW E, E \subseteq 0..n, NEW more \in BOOLEAN
      PROVE  DayOfFirst(E \union (IF more THEN {n + 1} ELSE {}))
               = IF DayOfFirst(E) = NoDay /\ more THEN d ELSE DayOfFirst(E)
  <2>1. CASE more
    BY <1>9, <2>1, FirstGrows DEF d
  <2>2. CASE ~ more
    <3>1. E \union (IF more THEN {n + 1} ELSE {}) = E
      BY <2>2
    <3> QED  BY <2>2, <3>1
  <2> QED  BY <2>1, <2>2
<1>10. /\ r.breach = DayOfFirst(Breaches(p, n)) /\ r.stockout = DayOfFirst(Stockouts(p, n))
       /\ r.recovery = DayOfFirst(Recoveries(p, n))
  BY DEF ProjectedTo
<1>11. a.breach = DayOfFirst(Breaches(p, n + 1))
  BY <1>3, <1>4, <1>6, <1>9, <1>10
<1>12. a.stockout = DayOfFirst(Stockouts(p, n + 1))
  <2>1. Stockout(p.policy, now) \in BOOLEAN
    <3>1. p.policy.inclusive \in BOOLEAN
      BY PlanFacts
    <3>2. CASE p.policy.inclusive
      BY <3>2 DEF Stockout
    <3>3. CASE ~ p.policy.inclusive
      BY <3>3 DEF Stockout
    <3> QED  BY <3>2, <3>3
  <2> QED  BY <1>3, <1>5, <1>6, <1>9, <1>10, <2>1
<1>13. a.recovery = DayOfFirst(Recoveries(p, n + 1))
  <2> DEFINE more == r.stockout # NoDay /\ now > p.policy.safety
  <2>1. DayOfFirst(Recoveries(p, n) \union (IF more THEN {n + 1} ELSE {}))
          = IF r.recovery = NoDay /\ more THEN d ELSE r.recovery
    <3>1. more \in BOOLEAN
      OBVIOUS
    <3> HIDE DEF more
    <3> QED  BY <1>6, <1>9, <1>10, <3>1
  <2> QED  BY <1>3, <1>8, <2>1
<1>14. /\ \A m \in 0..n + 1 : a.minimum <= LevelOf(p, m)
       /\ \E m \in 0..n + 1 : a.minimum = LevelOf(p, m)
  <2>1. /\ r.minimum \in Int /\ now \in Int /\ \A m \in 0..n : LevelOf(p, m) \in Int
        /\ now = LevelOf(p, n + 1)
    BY <1>2 DEF Projections, now
  <2>2. /\ \A m \in 0..n : r.minimum <= LevelOf(p, m)
        /\ \E m \in 0..n : r.minimum = LevelOf(p, m)
    BY DEF ProjectedTo
  <2>3. a.minimum <= now /\ a.minimum <= r.minimum /\ a.minimum \in {now, r.minimum} /\ a.minimum \in Int
    BY <1>3, <2>1 DEF Least
  <2>4. \A m \in 0..n : a.minimum <= LevelOf(p, m)
    BY <2>1, <2>2, <2>3
  <2> QED  BY <1>2, <2>1, <2>2, <2>3, <2>4
<1> QED  BY <1>3, <1>11, <1>12, <1>13, <1>14 DEF ProjectedTo, now, a, d

-----------------------------------------------------------------------------
\* The first event of day 0 is next when a plan is finished.
Between == (phase # "project" => half = 1) /\ (phase = "done" => day = 0)

DatesInv == EngineInv /\ Between /\ ProjectedTo(plan, result, Moment)

LEMMA InitDates == Init => DatesInv
<1> SUFFICES ASSUME Init PROVE DatesInv
  OBVIOUS
<1>1. EngineInv /\ Between
  BY InitInv DEF Init, Between
<1>2. result = Start(plan) /\ Moment = 0
  BY DEF Init, Moment
<1>3. plan \in Plans
  BY <1>1 DEF EngineInv, TypeOK, Plans
<1> QED  BY <1>1, <1>2, <1>3, StartIsProjected DEF DatesInv

LEMMA NextDates == DatesInv /\ [Next]_vars => DatesInv'
<1> SUFFICES ASSUME DatesInv, [Next]_vars PROVE DatesInv'
  OBVIOUS
<1>0. EngineInv' /\ EngineInv
  BY NextInv DEF DatesInv
<1>1. /\ plan \in Plans /\ result \in Projections
      /\ phase \in {"project", "peg", "done"} /\ day \in Days /\ half \in 1..2
      /\ plan' \in Plans
  BY <1>0 DEF EngineInv, TypeOK, Plans, Projections
<1>2. Between'
  BY DEF DatesInv, Between, Next, FirstEvent, LastEvent, Peg, Simulate, vars
<1>3. Between /\ ProjectedTo(plan, result, Moment)
  BY DEF DatesInv
<1>4. /\ 2 * day \in Nat /\ 2 * day + 1 \in Nat /\ 2 * day + 1 + 1 = 2 * day + 2
      /\ 2 * day + 1 <= 2 * Horizon /\ 2 * day + 2 <= 2 * Horizon
      /\ (2 * day) \div 2 = day /\ (2 * day + 1) \div 2 = day
  BY <1>1, MomentsOfDay, DayFacts DEF Days
<1>5. /\ LevelOf(plan, 2 * day + 1) = LevelOf(plan, 2 * day) + Change(plan, day, 1)
      /\ LevelOf(plan, 2 * day + 2) = LevelOf(plan, 2 * day + 1) + Change(plan, day, 2)
  BY <1>1, LevelSteps
<1>6. SUFFICES ProjectedTo(plan', result', Moment')
  <2> HIDE DEF EngineInv, Between
  <2>1. ProjectedTo(plan, result, Moment)' = ProjectedTo(plan', result', Moment')
    BY DEF ProjectedTo
  <2> QED  BY <1>0, <1>2, <2>1 DEF DatesInv
<1>7. CASE FirstEvent
  <2>1. Moment = 2 * day
    BY <1>4, <1>7 DEF FirstEvent, Moment
  <2>2. /\ plan' = plan /\ Moment' = 2 * day + 1
        /\ result' = After(plan, result, day, result.balance + Change(plan, day, 1))
    BY <1>4, <1>7 DEF FirstEvent, Moment
  <2>3. result.balance = LevelOf(plan, 2 * day)
    BY <1>3, <2>1 DEF ProjectedTo
  <2> QED  BY <1>1, <1>3, <1>4, <1>5, <2>1, <2>2, <2>3, AfterIsProjected
<1>8. CASE LastEvent
  <2> DEFINE r == After(plan, result, day, result.balance + Change(plan, day, 2))
  <2>1. Moment = 2 * day + 1
    BY <1>1, <1>8 DEF LastEvent, Moment
  <2>2. /\ plan' = plan
        /\ result' = [r EXCEPT !.closing = Append(@, r.balance)]
    BY <1>8 DEF LastEvent
  <2>3. Moment' = 2 * day + 2
    <3>1. Horizon \in Nat /\ day \in Int
      BY <1>1, DayFacts
    <3>2. half' = 1 /\ \/ day = Horizon - 1 /\ phase' = "peg"
                       \/ phase' = "project" /\ day' = day + 1
      BY <1>8 DEF LastEvent
    <3> QED  BY <3>1, <3>2 DEF Moment
  <2>4. result.balance = LevelOf(plan, 2 * day + 1)
    BY <1>3, <2>1 DEF ProjectedTo
  <2>5. ProjectedTo(plan, r, 2 * day + 2)
    BY <1>1, <1>3, <1>4, <1>5, <2>1, <2>4, AfterIsProjected
  <2>6. /\ result'.balance = r.balance /\ result'.minimum = r.minimum /\ result'.breach = r.breach
        /\ result'.stockout = r.stockout /\ result'.recovery = r.recovery
    BY <2>2 DEF After
  <2> HIDE DEF r
  <2>7. ProjectedTo(plan, result', 2 * day + 2)
    BY <2>5, <2>6 DEF ProjectedTo
  <2> QED  BY <2>2, <2>3, <2>7
<1>9. CASE Peg
  <2>1. /\ plan' = plan /\ result' = result
        /\ phase = "peg" /\ phase' \in {"peg", "done"}
    BY <1>9 DEF Peg
  <2>2. Moment' = Moment
    BY <2>1 DEF Moment
  <2> QED  BY <1>3, <2>1, <2>2
<1>10. CASE \E rec \in Recommended(plan, result) : Simulate(rec)
  <2>1. PICK rec \in Recommended(plan, result) : Simulate(rec)
    BY <1>10
  <2>2. /\ result' = Start(plan') /\ phase = "done"
        /\ phase' = "project" /\ day' = day /\ half' = half
    BY <2>1 DEF Simulate
  <2>3. Moment' = 0
    BY <1>3, <2>2 DEF Moment, Between
  <2> QED  BY <1>1, <2>2, <2>3, StartIsProjected
<1>11. CASE UNCHANGED vars
  BY <1>3, <1>11 DEF vars, Moment
<1> QED  BY <1>7, <1>8, <1>9, <1>10, <1>11 DEF Next

\* The dates of a plan are those of the first moment below the safety stock, the
\* first out of stock and the first above the safety stock again after it, for
\* every horizon, quantity and policy (engine.py:227-252).
THEOREM DatesAreFirstMoments == Spec => []DatesAreFirst
<1>1. DatesInv => DatesAreFirst
  <2> SUFFICES ASSUME DatesInv, phase = "done"
               PROVE  DatesAreFirst
    BY DEF DatesAreFirst
  <2>1. ProjectedTo(plan, result, 2 * Horizon)
    BY DEF DatesInv, Moment
  <2>2. \A n : Level(n) = LevelOf(plan, n)
    BY DEF Level
  <2> DEFINE moments == 0..2 * Horizon
             out == {n \in moments : Stockout(plan.policy, Level(n))}
  <2>3. out = Stockouts(plan, 2 * Horizon)
    BY <2>2 DEF Stockouts
  <2>4. {n \in moments : Level(n) < plan.policy.safety} = Breaches(plan, 2 * Horizon)
    BY <2>2 DEF Breaches
  <2>5. {n \in moments : (\E m \in out : m < n) /\ Level(n) > plan.policy.safety}
          = Recoveries(plan, 2 * Horizon)
    <3> HIDE DEF out
    <3> QED  BY <2>2, <2>3 DEF Recoveries
  <2> HIDE DEF out, moments
  <2> QED  BY <2>1, <2>3, <2>4, <2>5 DEF ProjectedTo, DatesAreFirst, out, moments
<1> QED  BY <1>1, InitDates, NextDates, PTL DEF Spec

-----------------------------------------------------------------------------
(***************************************************************************)
(* Windows. Collapsing keeps that the windows found are the stretches that *)
(* end before the day, and that an open one started where its mark did.    *)
(***************************************************************************)

\* The stretches of marked days that end before day d.
Stretches(marked, least, d) ==
  {w \in [from : DOMAIN marked, to : DOMAIN marked] :
     /\ w.to < d
     /\ w.to - w.from + 1 >= least
     /\ \A k \in w.from..w.to : marked[k]
     /\ w.from > 1 => ~marked[w.from - 1]
     /\ w.to < Len(marked) => ~marked[w.to + 1]}

Ordered(windows) == \A i, j \in DOMAIN windows : i < j => windows[i].to < windows[j].from

Shows(windows, marked, least, d) ==
  /\ windows \in Seq([from : DOMAIN marked, to : DOMAIN marked])
  /\ {windows[i] : i \in DOMAIN windows} = Stretches(marked, least, d)
  /\ Ordered(windows)

\* The days up to d are collapsed, and c.from opens the stretch that day d is in.
Collapsed(c, marked, least, d) ==
  /\ c \in [found : Seq([from : DOMAIN marked, to : DOMAIN marked]),
            from : DOMAIN marked \union {NoDay}]
  /\ Shows(c.found, marked, least, d)
  /\ c.from = NoDay => d = 0 \/ ~marked[d]
  /\ c.from # NoDay =>
       /\ c.from \in 1..d
       /\ \A k \in c.from..d : marked[k]
       /\ c.from > 1 => ~marked[c.from - 1]

\* What a sequence has when one element is appended.
LEMMA Appended ==
  ASSUME NEW W, NEW s \in Seq(W), NEW w \in W
  PROVE  /\ Append(s, w) \in Seq(W)
         /\ {Append(s, w)[i] : i \in DOMAIN Append(s, w)} = {s[i] : i \in DOMAIN s} \union {w}
         /\ DOMAIN Append(s, w) = DOMAIN s \union {Len(s) + 1}
         /\ \A i \in DOMAIN s : Append(s, w)[i] = s[i] /\ i < Len(s) + 1 /\ i # Len(s) + 1
         /\ Append(s, w)[Len(s) + 1] = w
<1>1. Append(s, w) \in Seq(W)
  OBVIOUS
<1>2. DOMAIN Append(s, w) = 1..Len(s) + 1 /\ DOMAIN s = 1..Len(s) /\ Len(s) \in Nat
  OBVIOUS
<1>3. DOMAIN Append(s, w) = DOMAIN s \union {Len(s) + 1}
  BY <1>2
<1>4. /\ \A i \in DOMAIN s : Append(s, w)[i] = s[i] /\ i < Len(s) + 1 /\ i # Len(s) + 1
      /\ Append(s, w)[Len(s) + 1] = w
  OBVIOUS
<1> DEFINE t == Append(s, w)
<1> HIDE DEF t
<1>5. DOMAIN t = DOMAIN s \union {Len(s) + 1} /\ t[Len(s) + 1] = w /\ \A i \in DOMAIN s : t[i] = s[i]
  BY <1>3, <1>4 DEF t
<1>6. {t[i] : i \in DOMAIN t} = {s[i] : i \in DOMAIN s} \union {w}
  BY <1>5
<1> QED  BY <1>1, <1>3, <1>4, <1>6 DEF t

\* Closing the open stretch on day d shows the stretches before d.
LEMMA ClosingShows ==
  ASSUME NEW marked \in Seq(BOOLEAN), NEW least \in Nat \ {0}, NEW d \in 1..Len(marked) + 1,
         NEW c, Collapsed(c, marked, least, d - 1), d <= Len(marked) => ~marked[d]
  PROVE  Shows(WindowsUntil(c, d, least), marked, least, d)
<1> DEFINE n == Len(marked)
           W == [from : DOMAIN marked, to : DOMAIN marked]
<1>1. n \in Nat /\ DOMAIN marked = 1..n /\ \A k \in 1..n : marked[k] \in BOOLEAN
  OBVIOUS
<1>2. c.found \in Seq(W) /\ c.from \in 1..n \union {NoDay} /\ Shows(c.found, marked, least, d - 1)
  BY <1>1 DEF Collapsed
<1>3. d \in Nat /\ d - 1 \in Nat /\ d - 1 < d /\ d - 1 \in 0..n /\ (d - 1) + 1 = d
  BY <1>1
<1> DEFINE last == {w \in Stretches(marked, least, d) : w.to = d - 1}
<1>4. Stretches(marked, least, d) = Stretches(marked, least, d - 1) \union last
  <2>1. \A w \in W : w.to \in Int /\ (w.to < d <=> w.to < d - 1 \/ w.to = d - 1)
    BY <1>1, <1>3
  <2> HIDE DEF W
  <2> QED  BY <2>1 DEF Stretches, W
<1>5. \A w \in last : /\ w.from \in 1..d - 1 /\ w.to = d - 1 /\ d - w.from >= least
                      /\ w = [from |-> w.from, to |-> d - 1]
                      /\ \A k \in w.from..d - 1 : marked[k]
                      /\ w.from > 1 => ~marked[w.from - 1]
  <2>1. SUFFICES ASSUME NEW w \in last
                 PROVE  /\ w.from \in 1..d - 1 /\ w.to = d - 1 /\ d - w.from >= least
                        /\ w = [from |-> w.from, to |-> d - 1]
                        /\ \A k \in w.from..d - 1 : marked[k]
                        /\ w.from > 1 => ~marked[w.from - 1]
    OBVIOUS
  <2>2. /\ w \in W /\ w.to = d - 1 /\ w.to - w.from + 1 >= least
        /\ \A k \in w.from..w.to : marked[k]
        /\ w.from > 1 => ~marked[w.from - 1]
    BY DEF Stretches
  <2>3. w.from \in 1..n
    BY <1>1, <2>2
  <2> QED  BY <1>3, <2>2, <2>3
<1>6. CASE c.from = NoDay
  <2>1. d - 1 = 0 \/ ~marked[d - 1]
    BY <1>6 DEF Collapsed
  <2>2. last = {}
    <3>1. SUFFICES ASSUME NEW w \in last PROVE FALSE
      OBVIOUS
    <3>2. w.from \in 1..d - 1 /\ \A k \in w.from..d - 1 : marked[k]
      BY <1>5
    <3>3. d - 1 \in w.from..d - 1 /\ d - 1 # 0
      BY <1>3, <3>2
    <3> QED  BY <2>1, <3>2, <3>3
  <2>3. WindowsUntil(c, d, least) = c.found
    BY <1>6 DEF WindowsUntil
  <2> HIDE DEF last
  <2> QED  BY <1>2, <1>4, <2>2, <2>3 DEF Shows
<1>7. CASE c.from # NoDay
  <2> DEFINE f == c.from
             new == [from |-> f, to |-> d - 1]
  <2>1. f \in 1..d - 1 /\ (\A k \in f..d - 1 : marked[k]) /\ (f > 1 => ~marked[f - 1])
    BY <1>7 DEF Collapsed
  <2>2. \A w \in last : w.from = f
    <3>1. SUFFICES ASSUME NEW w \in last PROVE w.from = f
      OBVIOUS
    <3>2. /\ w.from \in 1..d - 1 /\ \A k \in w.from..d - 1 : marked[k]
          /\ w.from > 1 => ~marked[w.from - 1]
      BY <1>5
    <3>3. f - 1 \in w.from..d - 1 \/ f = 1 \/ f <= w.from
      BY <1>3, <2>1, <3>2
    <3>4. w.from - 1 \in f..d - 1 \/ w.from = 1 \/ w.from <= f
      BY <1>3, <2>1, <3>2
    <3>5. f <= w.from /\ w.from <= f
      <4> DEFINE g == w.from
      <4>1. g \in 1..d - 1 /\ (g > 1 => ~marked[g - 1]) /\ (\A k \in g..d - 1 : marked[k])
        BY <3>2
      <4>2. f <= g
        BY <1>3, <2>1, <3>3, <4>1
      <4>3. g <= f
        BY <1>3, <2>1, <3>4, <4>1
      <4> QED  BY <4>2, <4>3
    <3> QED  BY <1>3, <2>1, <3>2, <3>5
  <2>3. new \in W
    BY <1>1, <1>3, <2>1
  <2>4. CASE d - f < least
    <3>1. last = {}
      BY <1>5, <2>2, <2>4, <1>3, <2>1
    <3>2. WindowsUntil(c, d, least) = c.found
      BY <2>4 DEF WindowsUntil
    <3> HIDE DEF last
    <3> QED  BY <1>2, <1>4, <3>1, <3>2 DEF Shows
  <2>5. CASE ~ (d - f < least)
    <3>1. WindowsUntil(c, d, least) = Append(c.found, new)
      BY <1>7, <2>5 DEF WindowsUntil
    <3>2. new \in last
      <4>1. new.from = f /\ new.to = d - 1
        OBVIOUS
      <4>2. d - 1 < Len(marked) => ~marked[d - 1 + 1]
        BY <1>3
      <4>3. (d - 1) - f + 1 >= least
        BY <1>3, <2>1, <2>5
      <4> HIDE DEF new
      <4> QED  BY <1>3, <2>1, <2>3, <4>1, <4>2, <4>3 DEF Stretches
    <3>3. last = {new}
      BY <1>5, <2>2, <3>2
    <3> HIDE DEF last, new, W
    <3>4. /\ Append(c.found, new) \in Seq(W)
          /\ {Append(c.found, new)[i] : i \in DOMAIN Append(c.found, new)}
               = Stretches(marked, least, d)
      BY <1>2, <1>4, <2>3, <3>3, Appended DEF Shows
    <3>5. Ordered(Append(c.found, new))
      <4>1. Ordered(c.found)
        BY <1>2 DEF Shows
      <4>2. \A i \in DOMAIN c.found : c.found[i].to < f
        <5>1. SUFFICES ASSUME NEW i \in DOMAIN c.found PROVE c.found[i].to < f
          OBVIOUS
        <5> DEFINE w == c.found[i]
        <5>2. w \in Stretches(marked, least, d - 1)
          BY <1>2 DEF Shows
        <5>3. /\ w.to \in 1..n /\ w.to < d - 1
              /\ w.to < Len(marked) => ~marked[w.to + 1]
          BY <1>1, <5>2 DEF Stretches
        <5>4. ~marked[w.to + 1] /\ w.to + 1 <= d - 1
          BY <1>1, <1>3, <5>3
        <5>5. ~ (w.to + 1 \in f..d - 1)
          BY <2>1, <5>4
        <5> HIDE DEF w
        <5>6. w.to < f
          BY <1>3, <2>1, <5>3, <5>4, <5>5
        <5> QED  BY <5>6 DEF w
      <4>3. new.from = f
        BY DEF new
      <4> DEFINE t == Append(c.found, new)
      <4>4. /\ DOMAIN t = DOMAIN c.found \union {Len(c.found) + 1}
            /\ \A i \in DOMAIN c.found : t[i] = c.found[i] /\ i < Len(c.found) + 1
            /\ t[Len(c.found) + 1] = new
        BY <1>2, <2>3, Appended
      <4>5. \A i \in DOMAIN c.found : i \in Int /\ Len(c.found) + 1 \in Int
        BY <1>2
      <4> HIDE DEF t
      <4>6. SUFFICES ASSUME NEW i \in DOMAIN t, NEW j \in DOMAIN t, i < j
                     PROVE  t[i].to < t[j].from
        BY DEF Ordered, t
      <4>7. i \in DOMAIN c.found
        BY <4>4, <4>5, <4>6
      <4>8. CASE j \in DOMAIN c.found
        BY <4>1, <4>4, <4>6, <4>7, <4>8 DEF Ordered
      <4>9. CASE j = Len(c.found) + 1
        BY <4>2, <4>3, <4>4, <4>7, <4>9
      <4> QED  BY <4>4, <4>8, <4>9
    <3> QED  BY <3>1, <3>4, <3>5 DEF Shows, W
  <2> QED  BY <2>4, <2>5
<1> QED  BY <1>6, <1>7

\* One step of CollapseDays.
Collapse(marked, least, d, c) ==
  IF marked[d]
  THEN [c EXCEPT !.from = IF @ = NoDay THEN d ELSE @]
  ELSE [found |-> WindowsUntil(c, d, least), from |-> NoDay]

Spans(marked) == Seq([from : DOMAIN marked, to : DOMAIN marked])

Collapsing(marked) == [found : Spans(marked), from : DOMAIN marked \union {NoDay}]

\* Collapsing starts well and goes on well.
LEMMA NothingCollapsed ==
  ASSUME NEW marked \in Seq(BOOLEAN), NEW least \in Nat \ {0}
  PROVE  Collapsed([found |-> <<>>, from |-> NoDay], marked, least, 0)
<1> DEFINE c == [found |-> <<>>, from |-> NoDay]
<1>1. c.found = <<>> /\ c.from = NoDay /\ c \in Collapsing(marked)
  BY DEF Collapsing, Spans
<1>2. DOMAIN marked = 1..Len(marked) /\ Len(marked) \in Nat
  OBVIOUS
<1>3. Stretches(marked, least, 0) = {}
  BY <1>2 DEF Stretches
<1>4. /\ {<<>>[i] : i \in DOMAIN <<>>} = {} /\ Ordered(<<>>)
      /\ <<>> \in Spans(marked)
  BY DEF Ordered, Spans
<1>5. Shows(<<>>, marked, least, 0)
  BY <1>3, <1>4 DEF Shows, Spans
<1> HIDE DEF c
<1>6. Collapsed(c, marked, least, 0)
  BY <1>1, <1>5 DEF Collapsed, Collapsing, Spans
<1> QED  BY <1>6 DEF c

LEMMA CollapseKeeps ==
  ASSUME NEW marked \in Seq(BOOLEAN), NEW least \in Nat \ {0}, NEW d \in 1..Len(marked),
         NEW c, Collapsed(c, marked, least, d - 1)
  PROVE  Collapsed(Collapse(marked, least, d, c), marked, least, d)
<1> DEFINE n == Len(marked)
           next == Collapse(marked, least, d, c)
<1>1. n \in Nat /\ DOMAIN marked = 1..n /\ \A k \in 1..n : marked[k] \in BOOLEAN
  OBVIOUS
<1>2. /\ c \in Collapsing(marked) /\ c.found \in Spans(marked) /\ c.from \in 1..n \union {NoDay}
      /\ Shows(c.found, marked, least, d - 1)
  BY <1>1 DEF Collapsed, Collapsing, Spans
<1>3. d \in Nat /\ d - 1 \in Nat /\ d <= n /\ NoDay \notin Int
  BY <1>1, EngineAssumption
<1>4. CASE marked[d]
  <2> DEFINE f == IF c.from = NoDay THEN d ELSE c.from
  <2>1. next.found = c.found /\ next.from = f /\ next \in Collapsing(marked)
    <3>1. next = [c EXCEPT !.from = f]
      BY <1>4 DEF Collapse
    <3>2. f \in DOMAIN marked
      BY <1>1, <1>2
    <3> HIDE DEF f, next
    <3> QED  BY <1>2, <3>1, <3>2 DEF Collapsing
  <2>2. Stretches(marked, least, d) = Stretches(marked, least, d - 1)
    <3> DEFINE W == [from : DOMAIN marked, to : DOMAIN marked]
    <3>1. \A w \in W : w.to \in Int /\ (w.to < d <=> w.to < d - 1 \/ w.to = d - 1)
      BY <1>1, <1>3
    <3>2. \A w \in W : w.to = d - 1 => w.to < n /\ marked[w.to + 1]
      BY <1>1, <1>3, <1>4
    <3> HIDE DEF W
    <3> QED  BY <3>1, <3>2 DEF Stretches, W
  <2>3. Shows(next.found, marked, least, d)
    BY <1>2, <2>1, <2>2 DEF Shows
  <2>4. f \in 1..d /\ (\A k \in f..d : marked[k]) /\ (f > 1 => ~marked[f - 1]) /\ f # NoDay
    <3>1. CASE c.from = NoDay
      <4>1. f = d
        BY <3>1
      <4>2. d - 1 = 0 \/ ~marked[d - 1]
        BY <3>1 DEF Collapsed
      <4> QED  BY <1>3, <1>4, <4>1, <4>2
    <3>2. CASE c.from # NoDay
      <4>1. f = c.from
        BY <3>2
      <4>2. f \in 1..d - 1 /\ (\A k \in f..d - 1 : marked[k]) /\ (f > 1 => ~marked[f - 1])
        BY <3>2, <4>1 DEF Collapsed
      <4> HIDE DEF f
      <4>3. \A k \in f..d : k \in f..d - 1 \/ k = d
        BY <1>3, <4>2
      <4> QED  BY <1>3, <1>4, <4>2, <4>3
    <3> QED  BY <3>1, <3>2
  <2> HIDE DEF f, next
  <2>5. Collapsed(next, marked, least, d)
    BY <2>1, <2>3, <2>4 DEF Collapsed, Collapsing, Spans
  <2> QED  BY <2>5 DEF next
<1>5. CASE ~marked[d]
  <2>1. Shows(WindowsUntil(c, d, least), marked, least, d)
    <3>1. d \in 1..n + 1
      BY <1>3
    <3> QED  BY <1>5, <3>1, ClosingShows
  <2>2. next = [found |-> WindowsUntil(c, d, least), from |-> NoDay]
    BY <1>5 DEF Collapse
  <2>3. next.found = WindowsUntil(c, d, least) /\ next.from = NoDay
    BY <2>2
  <2>4. next \in Collapsing(marked)
    BY <2>1, <2>2 DEF Collapsing, Spans, Shows
  <2> HIDE DEF next
  <2>5. Collapsed(next, marked, least, d)
    BY <1>5, <2>1, <2>3, <2>4 DEF Collapsed, Collapsing, Spans
  <2> QED  BY <2>5 DEF next
<1> QED  BY <1>1, <1>4, <1>5

\* What CollapseDays builds, day by day.
CollapsesTo(marked, least, g) ==
  g = [d \in 0..Len(marked) |->
         IF d = 0 THEN [found |-> <<>>, from |-> NoDay]
         ELSE Collapse(marked, least, d, g[d - 1])]

LEMMA CollapsesExists ==
  ASSUME NEW marked \in Seq(BOOLEAN), NEW least \in Nat \ {0}
  PROVE  \E g : CollapsesTo(marked, least, g)
<1> DEFINE n == Len(marked)
           V == Collapsing(marked)
           v == [found |-> <<>>, from |-> NoDay]
           F == [d \in 1..n |-> [c \in V |-> Collapse(marked, least, d, c)]]
<1>1. n \in Nat /\ DOMAIN marked = 1..n
  OBVIOUS
<1>2. v \in V
  BY DEF Collapsing, Spans
<1>3. ASSUME NEW d \in 1..n, NEW c \in V
      PROVE  Collapse(marked, least, d, c) \in V
  <2>1. c.found \in Spans(marked) /\ c.from \in DOMAIN marked \union {NoDay} /\ d \in DOMAIN marked
    BY <1>1 DEF Collapsing
  <2>2. CASE marked[d]
    <3> DEFINE f == IF c.from = NoDay THEN d ELSE c.from
    <3>1. f \in DOMAIN marked
      BY <2>1
    <3>2. Collapse(marked, least, d, c) = [c EXCEPT !.from = f]
      BY <2>2 DEF Collapse
    <3> HIDE DEF f
    <3> QED  BY <3>1, <3>2 DEF Collapsing
  <2>3. CASE ~marked[d]
    <3>1. WindowsUntil(c, d, least) \in Spans(marked)
      <4>1. CASE c.from = NoDay \/ d - c.from < least
        BY <2>1, <4>1 DEF WindowsUntil
      <4>2. CASE c.from # NoDay /\ ~(d - c.from < least)
        <5>1. c.from \in 1..n /\ d - 1 \in 1..n
          BY <1>1, <2>1, <4>2
        <5> DEFINE w == [from |-> c.from, to |-> d - 1]
        <5>2. w \in [from : DOMAIN marked, to : DOMAIN marked]
          BY <1>1, <5>1
        <5> HIDE DEF w
        <5>3. Append(c.found, w) \in Spans(marked)
          BY <2>1, <5>2 DEF Spans
        <5> QED  BY <4>2, <5>3 DEF WindowsUntil, w
      <4> QED  BY <4>1, <4>2
    <3>2. Collapse(marked, least, d, c) = [found |-> WindowsUntil(c, d, least), from |-> NoDay]
      BY <2>3 DEF Collapse
    <3> QED  BY <3>1, <3>2 DEF Collapsing
  <2> QED  BY <2>2, <2>3
<1>4. F \in [1..n -> [V -> V]]
  BY <1>3
<1> HIDE DEF v, V
<1>5. PICK g : g \in [0..n -> V] /\ g[0] = v /\ \A d \in 1..n : g[d] = F[d][g[d - 1]]
  <2> HIDE DEF F
  <2>1. \E g : Iterates(n, V, v, F, g)
    BY <1>1, <1>2, <1>4, Recursion
  <2> QED  BY <2>1 DEF Iterates
<1>6. ASSUME NEW d \in 1..n
      PROVE  g[d] = Collapse(marked, least, d, g[d - 1])
  <2>1. g[d - 1] \in V /\ d - 1 \in 0..n
    BY <1>1, <1>5
  <2>2. F[d] = [c \in V |-> Collapse(marked, least, d, c)]
    OBVIOUS
  <2> HIDE DEF F
  <2> QED  BY <1>5, <2>1, <2>2
<1>7. CollapsesTo(marked, least, g)
  BY <1>1, <1>5, <1>6 DEF CollapsesTo, v
<1> QED  BY <1>7

\* CollapseDays is what its recursion says, and so collapses every day.
LEMMA CollapsesWell ==
  ASSUME NEW marked \in Seq(BOOLEAN), NEW least \in Nat \ {0}
  PROVE  Collapsed(CollapseDays(marked, least), marked, least, Len(marked))
<1> DEFINE g == CHOOSE g : g = [d \in 0..Len(marked) |->
         IF d = 0 THEN [found |-> <<>>, from |-> NoDay]
         ELSE IF marked[d]
         THEN [g[d - 1] EXCEPT !.from = IF @ = NoDay THEN d ELSE @]
         ELSE [found |-> WindowsUntil(g[d - 1], d, least), from |-> NoDay]]
           n == Len(marked)
           S == {d \in 0..n : Collapsed(g[d], marked, least, d)}
<1>1. CollapsesTo(marked, least, g)
  BY CollapsesExists DEF CollapsesTo, Collapse
<1>2. CollapseDays(marked, least) = g[n]
  BY DEF CollapseDays
<1> HIDE DEF g
<1>3. n \in Nat /\ n \in 0..n
  OBVIOUS
<1>4. g[0] = [found |-> <<>>, from |-> NoDay]
  BY <1>1, <1>3 DEF CollapsesTo
<1>5. \A d \in 1..n : g[d] = Collapse(marked, least, d, g[d - 1])
  BY <1>1, <1>3 DEF CollapsesTo
<1>6. 0 \in S
  BY <1>3, <1>4, NothingCollapsed
<1>7. ASSUME NEW d \in 0..n - 1, d \in S
      PROVE  d + 1 \in S
  <2>1. d + 1 \in 1..n /\ d + 1 \in 0..n /\ (d + 1) - 1 = d
    BY <1>3
  <2> QED  BY <1>5, <1>7, <2>1, CollapseKeeps
<1> HIDE DEF S
<1>8. n \in S
  <2>1. 0..n \subseteq S
    BY <1>3, <1>6, <1>7, Induction
  <2> QED  BY <1>3, <2>1
<1> QED  BY <1>2, <1>8 DEF S

\* The windows of days with a mark are their stretches.
LEMMA WindowsShow ==
  ASSUME NEW marked \in Seq(BOOLEAN), NEW least \in Nat \ {0}
  PROVE  AreStretches(Windows(marked, least), marked, least)
<1> DEFINE n == Len(marked)
           windows == Windows(marked, least)
           W == [from : DOMAIN marked, to : DOMAIN marked]
<1>1. n \in Nat /\ DOMAIN marked = 1..n /\ n + 1 \in 1..n + 1 /\ (n + 1) - 1 = n /\ ~(n + 1 <= n)
  OBVIOUS
<1>2. Shows(windows, marked, least, n + 1)
  BY <1>1, CollapsesWell, ClosingShows DEF Windows
<1>3. \A w \in W : w.to < n + 1
  BY <1>1
<1>4. Stretches(marked, least, n + 1) =
        {w \in W : /\ w.to - w.from + 1 >= least
                   /\ \A d \in w.from..w.to : marked[d]
                   /\ w.from > 1 => ~marked[w.from - 1]
                   /\ w.to < Len(marked) => ~marked[w.to + 1]}
  BY <1>3 DEF Stretches
<1> HIDE DEF windows
<1>5. AreStretches(windows, marked, least)
  BY <1>2, <1>4 DEF AreStretches, Shows, Ordered
<1> QED  BY <1>5 DEF windows

\* A day with a mark shows in a window.
LEMMA MarkedDayShows ==
  ASSUME NEW marked \in Seq(BOOLEAN)
  PROVE  Windows(marked, 1) # <<>> <=> \E i \in DOMAIN marked : marked[i]
<1> DEFINE n == Len(marked)
           W == [from : DOMAIN marked, to : DOMAIN marked]
           windows == Windows(marked, 1)
           stretches == {windows[i] : i \in DOMAIN windows}
<1>1. n \in Nat /\ DOMAIN marked = 1..n
  OBVIOUS
<1>2. Shows(windows, marked, 1, n + 1)
  <2>1. Collapsed(CollapseDays(marked, 1), marked, 1, n)
    BY CollapsesWell
  <2> QED  BY <1>1, <2>1, ClosingShows DEF Windows
<1>3. stretches = Stretches(marked, 1, n + 1)
  BY <1>2 DEF Shows
<1>4. ASSUME windows # <<>> PROVE \E i \in DOMAIN marked : marked[i]
  <2>1. windows \in Seq(W)
    BY <1>2 DEF Shows
  <2> HIDE DEF windows, W, stretches
  <2>2. 1 \in DOMAIN windows
    BY <1>4, <2>1
  <2>3. windows[1] \in stretches
    BY <2>2 DEF stretches
  <2> DEFINE w == windows[1]
  <2>4. w.from \in 1..n /\ w.to \in 1..n /\ w.to - w.from + 1 >= 1
        /\ \A d \in w.from..w.to : marked[d]
    <3> HIDE DEF w
    <3>1. w \in W /\ w.to - w.from + 1 >= 1 /\ \A d \in w.from..w.to : marked[d]
      BY <1>3, <2>3 DEF w, W, Stretches
    <3> QED  BY <1>1, <3>1 DEF W
  <2>5. w.from \in w.from..w.to
    BY <2>4
  <2> QED  BY <1>1, <2>4, <2>5
<1>5. ASSUME NEW i \in DOMAIN marked, marked[i] PROVE windows # <<>>
  <2>1. i \in 1..n
    BY <1>1
  \* The first day from i on that has no mark, and the last one before i.
  <2> DEFINE after == {k \in 0..n + 1 : k > i /\ (k <= n => ~marked[k])}
  <2>2. PICK t \in after : \A k \in after : t <= k
    <3>1. n + 1 \in Nat /\ n + 1 \in after /\ after \subseteq 0..n + 1
      BY <1>1, <2>1
    <3> HIDE DEF after
    <3> QED  BY <3>1, FirstExists
  <2> DEFINE past == {k \in 1..n : k <= i /\ (k < i => ~marked[i - k])}
  <2>3. PICK f \in past : \A k \in past : f <= k
    <3>1. i \in past /\ past \subseteq 0..n
      BY <1>1, <2>1
    <3> HIDE DEF past
    <3> QED  BY <1>1, <3>1, FirstExists
  <2>4. /\ t \in i + 1..n + 1 /\ (t <= n => ~marked[t])
        /\ \A k \in i + 1..t - 1 : marked[k]
    <3>1. t \in i + 1..n + 1 /\ (t <= n => ~marked[t])
      BY <1>1, <2>1
    <3>2. ASSUME NEW k \in i + 1..t - 1 PROVE marked[k]
      <4>1. k \in 0..n + 1 /\ k > i /\ k < t /\ k <= n
        BY <1>1, <2>1, <3>1, <3>2
      <4>2. k \notin after
        BY <2>2, <3>1, <4>1
      <4> QED  BY <4>1, <4>2
    <3> QED  BY <3>1, <3>2
  <2>5. /\ f \in 1..i /\ (f < i => ~marked[i - f])
        /\ \A k \in i - f + 1..i : marked[k]
    <3>1. f \in 1..i /\ (f < i => ~marked[i - f])
      BY <1>1, <2>1
    <3>2. ASSUME NEW k \in i - f + 1..i PROVE marked[k]
      <4>1. CASE k = i
        BY <1>5, <4>1
      <4>2. CASE k # i
        <5> DEFINE j == i - k
        <5>1. j \in 1..n /\ j < i /\ j < f /\ i - j = k
          BY <1>1, <2>1, <3>1, <3>2, <4>2
        <5>2. j \notin past
          BY <2>3, <3>1, <5>1
        <5> HIDE DEF j
        <5> QED  BY <5>1, <5>2
      <4> QED  BY <4>1, <4>2
    <3> QED  BY <3>1, <3>2
  <2> HIDE DEF after, past
  <2> DEFINE b == i - f + 1
             e == t - 1
             w == [from |-> b, to |-> e]
  <2>6. b \in 1..n /\ e \in 1..n /\ b <= i /\ i <= e /\ e - b + 1 >= 1
    BY <1>1, <2>1, <2>4, <2>5
  <2>7. \A d \in b..e : marked[d]
    <3>1. \A d \in b..e : d \in i - f + 1..i \/ d \in i + 1..t - 1
      BY <1>1, <2>1, <2>4, <2>5
    <3> QED  BY <2>4, <2>5, <3>1
  <2>8. (b > 1 => ~marked[b - 1]) /\ (e < n => ~marked[e + 1])
    BY <1>1, <2>1, <2>4, <2>5
  <2> HIDE DEF b, e
  <2>9. w \in W /\ w.from = b /\ w.to = e
    BY <1>1, <2>6
  <2> HIDE DEF w, W, windows, stretches
  <2>10. w \in stretches
    <3>1. w.to < n + 1
      BY <1>1, <2>6, <2>9
    <3> QED  BY <1>3, <2>6, <2>7, <2>8, <2>9, <3>1 DEF W, Stretches
  <2> QED  BY <2>10 DEF stretches
<1> QED  BY <1>4, <1>5

\* The windows of a plan are the stretches of its days with a mark, and a risk is
\* raised exactly for a day that ends short, for every horizon and balance
\* (engine.py:297-338, risks.py:64-70).
THEOREM NoShortageIsHidden == Spec => []ShortagesAreShown
<1>1. ASSUME EngineInv PROVE ShortagesAreShown
  <2> DEFINE n == Len(result.closing)
             short == [i \in DOMAIN result.closing |-> ShortDay(plan, result.closing[i])]
             much == [i \in DOMAIN result.closing |-> result.closing[i] > MaximumInventory(result)]
  <2>1. /\ result.closing \in Seq(Int) /\ plan.policy.safety \in Nat
        /\ plan.policy.inclusive \in BOOLEAN /\ plan.policy.stale \in BOOLEAN
        /\ result.minimum \in Int /\ result \in Projections /\ plan \in Plans
    BY <1>1 DEF EngineInv, TypeOK, Projections, Plans
  <2>2. n \in Nat /\ DOMAIN result.closing = 1..n
    BY <2>1
  <2>3. short \in Seq(BOOLEAN) /\ DOMAIN short = DOMAIN result.closing
    BY <2>2 DEF ShortDay
  <2>4. much \in Seq(BOOLEAN)
    BY <2>2
  <2>5. WindowsAreStretches
    <3>1. 1 \in Nat \ {0} /\ 2 \in Nat \ {0}
      OBVIOUS
    <3> HIDE DEF short, much
    <3>2. AreStretches(Windows(short, 1), short, 1) /\ AreStretches(Windows(much, 2), much, 2)
      BY <2>3, <2>4, <3>1, WindowsShow
    <3> QED  BY <3>2 DEF WindowsAreStretches, ShortageWindows, ExcessWindows, short, much
  <2>6. ShortageWindows(plan, result) # <<>> <=>
          \E i \in DOMAIN result.closing : ShortDay(plan, result.closing[i])
    <3>1. \A i \in DOMAIN short : short[i] = ShortDay(plan, result.closing[i])
      OBVIOUS
    <3>2. ShortageWindows(plan, result) = Windows(short, 1)
      BY DEF ShortageWindows
    <3> HIDE DEF short
    <3> QED  BY <2>3, <3>1, <3>2, MarkedDayShows
  <2>7. ASSUME plan.policy.inclusive, ~plan.policy.stale, NEW i \in DOMAIN result.closing,
               ShortDay(plan, result.closing[i])
        PROVE  Severity(plan, result) \notin {"GREEN", "UNKNOWN"}
    <3>1. result.minimum <= result.closing[i] /\ result.closing[i] \in Int
      BY <1>1, <2>1 DEF EngineInv, MinimumIsLowest
    <3>2. result.minimum < plan.policy.safety \/ result.minimum <= 0
      BY <2>1, <2>7, <3>1 DEF ShortDay
    <3>3. result.breach # NoDay \/ result.stockout # NoDay
      BY <1>1, <2>7, <3>2 DEF EngineInv, Dated, Stockout
    <3>4. CASE result.stockout = NoDay
      BY <2>7, <3>3, <3>4 DEF Severity
    <3>5. CASE result.stockout # NoDay
      BY <2>7, <3>5 DEF Severity
    <3> QED  BY <3>4, <3>5
  <2>8. NoSilentShortage
    BY <2>6, <2>7 DEF NoSilentShortage, RaisesRisk
  <2> QED  BY <2>5, <2>8 DEF ShortagesAreShown
<1> QED  BY <1>1, EngineInvariant, PTL

-----------------------------------------------------------------------------
(***************************************************************************)
(* Pegging. The demand that was pegged is laid along the supplies from the *)
(* first on: of every supply the part beyond it is left. The invariant     *)
(* says so of a day that is done, and Asked of a day that is at work.      *)
(***************************************************************************)

Stocks == Days \union {Opening}

\* Laid end to end, supply s reaches from SuppliedFrom to SuppliedTo, and the
\* demand of day d from Due of d to Due of the next day.
SuppliedTo(p, s) == Greatest(p.opening, 0) + TotalBefore(p.supply, s + 1)
SuppliedFrom(p, s) == IF s = Opening THEN 0 ELSE SuppliedTo(p, s - 1)
Due(p, d) == TotalBefore(p.demand, d)

Overlap(p, s, d) == Least(SuppliedTo(p, s), Due(p, d + 1)) - Greatest(SuppliedFrom(p, s), Due(p, d))

Missing(p, d) == Due(p, d + 1) - Greatest(SuppliedTo(p, Horizon - 1), Due(p, d))

\* Of supply s the part beyond the demand so far is left.
Left(p, left, s, demanded) ==
  Greatest(left[s], 0) = Greatest(SuppliedTo(p, s) - Greatest(SuppliedFrom(p, s), demanded), 0)

\* The pegs of day d with the first n supplies.
PegsWith(p, d, n) == {<<s, d, Overlap(p, s, d)>> : s \in {t \in Stocks : t + 2 <= n /\ Overlap(p, t, d) > 0}}

\* The demand of day d has asked the first n supplies.
Asked(p, d, n, pegs, so) ==
  /\ so.left \in [Stocks -> Int]
  /\ so.need = Due(p, d + 1) - Greatest(Due(p, d),
                 Least(Due(p, d + 1), IF n = 0 THEN 0 ELSE SuppliedTo(p, n - 2)))
  /\ \A s \in Stocks : Left(p, so.left, s, IF s + 2 <= n THEN Due(p, d + 1) ELSE Due(p, d))
  /\ so.pegs = pegs \union PegsWith(p, d, n)

\* The days before d are pegged.
Pegged(p, made, d) ==
  /\ made.left \in [Stocks -> Int]
  /\ \A s \in Stocks : Left(p, made.left, s, Due(p, d))
  /\ made.pegs = UNION {PegsWith(p, e, Horizon + 1) : e \in 0..d - 1}
  /\ made.uncovered = {<<e, Missing(p, e)>> : e \in {f \in 0..d - 1 : Missing(p, f) > 0}}

\* What a demand takes of a supply is their overlap.
LEMMA TakenIsOverlap ==
  ASSUME NEW u \in Nat, NEW l \in Nat, NEW lo \in Nat, NEW hi \in Nat, l <= u, lo <= hi,
         NEW left \in Int, Greatest(left, 0) = Greatest(u - Greatest(l, lo), 0),
         NEW need, need = hi - Greatest(lo, Least(hi, l)),
         NEW taken, taken = IF left <= 0 THEN 0 ELSE Least(left, need)
  PROVE  /\ taken \in Nat
         /\ taken = Greatest(Least(u, hi) - Greatest(l, lo), 0)
         /\ need - taken = hi - Greatest(lo, Least(hi, u))
         /\ Greatest(left - taken, 0) = Greatest(u - Greatest(l, hi), 0)
BY DEF Greatest, Least

\* How the bounds of supplies and demands follow one another.
LEMMA SupplyFacts ==
  ASSUME NEW p \in Plans
  PROVE  /\ \A s \in Stocks : /\ SuppliedTo(p, s) \in Nat /\ SuppliedFrom(p, s) \in Nat
                              /\ SuppliedFrom(p, s) <= SuppliedTo(p, s)
                              /\ s + 2 \in 1..Horizon + 1 /\ s \in Int
         /\ \A s \in Days : SuppliedTo(p, s) = SuppliedFrom(p, s) + p.supply[s] /\ s # Opening
         /\ SuppliedTo(p, Opening) = Greatest(p.opening, 0) /\ SuppliedFrom(p, Opening) = 0
         /\ \A s \in Days : SuppliedFrom(p, s) = SuppliedTo(p, s - 1) /\ s - 1 \in Stocks
         /\ \A d \in 0..Horizon : Due(p, d) \in Nat
         /\ \A d \in Days : Due(p, d + 1) = Due(p, d) + p.demand[d] /\ Due(p, d) <= Due(p, d + 1)
<1>1. p.opening \in Int /\ p.demand \in [Days -> Nat] /\ p.supply \in [Days -> Nat]
  BY PlanFacts
<1>2. Horizon \in Nat \ {0} /\ \A d \in Days : d \in Nat /\ d + 1 \in 0..Horizon /\ d \in 0..Horizon
  BY DayFacts, MomentsOfDay
<1>3. /\ TotalBefore(p.supply, 0) = 0
      /\ \A d \in 0..Horizon : TotalBefore(p.supply, d) \in Nat /\ TotalBefore(p.demand, d) \in Nat
      /\ \A d \in Days : /\ TotalBefore(p.supply, d + 1) = TotalBefore(p.supply, d) + p.supply[d]
                         /\ TotalBefore(p.demand, d + 1) = TotalBefore(p.demand, d) + p.demand[d]
  BY <1>1, TotalSteps
<1>4. Greatest(p.opening, 0) \in Nat
  BY <1>1 DEF Greatest
<1>5. SuppliedTo(p, Opening) = Greatest(p.opening, 0) /\ SuppliedFrom(p, Opening) = 0
  <2>1. Opening + 1 = 0
    BY DEF Opening
  <2> QED  BY <1>3, <1>4, <2>1 DEF SuppliedTo, SuppliedFrom
<1>6. ASSUME NEW s \in Days
      PROVE  /\ SuppliedFrom(p, s) = SuppliedTo(p, s - 1) /\ s - 1 \in Stocks /\ s # Opening
             /\ SuppliedTo(p, s) = SuppliedFrom(p, s) + p.supply[s]
             /\ SuppliedTo(p, s) \in Nat /\ SuppliedFrom(p, s) \in Nat
             /\ SuppliedFrom(p, s) <= SuppliedTo(p, s)
  <2>1. s \in Nat /\ (s - 1) + 1 = s /\ s # Opening
    BY <1>2 DEF Opening
  <2>2. s - 1 \in Stocks
    BY <2>1, <1>2 DEF Stocks, Days, Opening
  <2>3. SuppliedFrom(p, s) = Greatest(p.opening, 0) + TotalBefore(p.supply, s)
    BY <2>1 DEF SuppliedTo, SuppliedFrom
  <2>4. SuppliedTo(p, s) = Greatest(p.opening, 0) + TotalBefore(p.supply, s + 1)
    BY DEF SuppliedTo
  <2>5. SuppliedFrom(p, s) = SuppliedTo(p, s - 1)
    BY <2>1 DEF SuppliedFrom
  <2>6. TotalBefore(p.supply, s + 1) = TotalBefore(p.supply, s) + p.supply[s]
        /\ TotalBefore(p.supply, s) \in Nat /\ p.supply[s] \in Nat
    BY <1>1, <1>2, <1>3
  <2>7. /\ SuppliedTo(p, s) = SuppliedFrom(p, s) + p.supply[s]
        /\ SuppliedTo(p, s) \in Nat /\ SuppliedFrom(p, s) \in Nat
        /\ SuppliedFrom(p, s) <= SuppliedTo(p, s)
    BY <1>4, <2>3, <2>4, <2>6
  <2> QED  BY <2>1, <2>2, <2>5, <2>7
<1>7. ASSUME NEW d \in Days
      PROVE  Due(p, d + 1) = Due(p, d) + p.demand[d] /\ Due(p, d) <= Due(p, d + 1)
  <2>1. p.demand[d] \in Nat /\ TotalBefore(p.demand, d) \in Nat
    BY <1>1, <1>2, <1>3
  <2>2. TotalBefore(p.demand, d + 1) = TotalBefore(p.demand, d) + p.demand[d]
    BY <1>3
  <2> QED  BY <2>1, <2>2 DEF Due
<1>8. \A d \in 0..Horizon : Due(p, d) \in Nat
  BY <1>3 DEF Due
<1>9. \A s \in Stocks : s + 2 \in 1..Horizon + 1 /\ s \in Int
  BY <1>2 DEF Stocks, Opening, Days
<1>10. \A s \in Stocks : /\ SuppliedTo(p, s) \in Nat /\ SuppliedFrom(p, s) \in Nat
                         /\ SuppliedFrom(p, s) <= SuppliedTo(p, s)
  BY <1>4, <1>5, <1>6 DEF Stocks
<1> QED  BY <1>5, <1>6, <1>7, <1>8, <1>9, <1>10

LEMMA SuppliesInOrder ==
  /\ Len(Supplies) = Horizon + 1
  /\ \A n \in 1..Horizon + 1 : Supplies[n] = n - 2 /\ n - 2 \in Stocks
<1>1. Horizon \in Nat
  BY DayFacts
<1> DEFINE later == [i \in 1..Horizon |-> i - 1]
<1>2. later \in Seq(Int) /\ Len(later) = Horizon /\ \A i \in 1..Horizon : later[i] = i - 1
  BY <1>1
<1> HIDE DEF later
<1>3. /\ Len(<<Opening>> \o later) = Horizon + 1
      /\ \A n \in 1..Horizon + 1 : (<<Opening>> \o later)[n] = IF n = 1 THEN Opening ELSE later[n - 1]
  BY <1>1, <1>2 DEF Opening
<1>4. Supplies = <<Opening>> \o later
  BY DEF Supplies, later
<1>5. ASSUME NEW n \in 1..Horizon + 1
      PROVE  Supplies[n] = n - 2 /\ n - 2 \in Stocks
  <2>1. CASE n = 1
    BY <1>3, <1>4, <2>1 DEF Opening, Stocks
  <2>2. CASE n # 1
    <3>1. n - 1 \in 1..Horizon /\ n - 2 \in 0..Horizon - 1 /\ (n - 1) - 1 = n - 2
      BY <1>1, <2>2
    <3> QED  BY <1>2, <1>3, <1>4, <2>2, <3>1 DEF Stocks, Days
  <2> QED  BY <2>1, <2>2
<1> QED  BY <1>3, <1>4, <1>5

\* One supply is asked.
LEMMA AllocateKeeps ==
  ASSUME NEW p \in Plans, NEW d \in Days, NEW n \in 1..Horizon + 1, NEW pegs,
         NEW so, Asked(p, d, n - 1, pegs, so)
  PROVE  Asked(p, d, n, pegs, Allocate(d, n - 2, so))
<1> DEFINE s == n - 2
           taken == IF so.left[s] <= 0 THEN 0 ELSE Least(so.left[s], so.need)
           then == Allocate(d, s, so)
           u == SuppliedTo(p, s)
           l == SuppliedFrom(p, s)
           lo == Due(p, d)
           hi == Due(p, d + 1)
<1>1. Horizon \in Nat /\ d \in 0..Horizon /\ d + 1 \in 0..Horizon
  BY DayFacts, MomentsOfDay
<1>2. s \in Stocks /\ s \in Int /\ s + 2 = n /\ n \in Nat
  <2>1. n - 2 \in Stocks
    BY SuppliesInOrder
  <2>2. n \in Nat
    BY <1>1
  <2>3. n - 2 \in Int /\ (n - 2) + 2 = n
    BY <2>2
  <2> QED  BY <2>1, <2>2, <2>3
<1>3. u \in Nat /\ l \in Nat /\ lo \in Nat /\ hi \in Nat /\ l <= u /\ lo <= hi
  BY <1>1, <1>2, SupplyFacts
<1>4. l = IF n - 1 = 0 THEN 0 ELSE SuppliedTo(p, (n - 1) - 2)
  <2>1. CASE n = 1
    BY <2>1 DEF SuppliedFrom, Opening
  <2>2. CASE n # 1
    <3>1. s \in Days /\ (n - 1) - 2 = s - 1
      BY <1>1, <2>2 DEF Days
    <3> QED  BY <1>2, <2>2, <3>1, SupplyFacts
  <2> QED  BY <2>1, <2>2
<1>5. /\ so.left \in [Stocks -> Int] /\ so.left[s] \in Int
      /\ so.need = hi - Greatest(lo, Least(hi, l))
      /\ \A t \in Stocks : Left(p, so.left, t, IF t + 2 <= n - 1 THEN hi ELSE lo)
      /\ so.pegs = pegs \union PegsWith(p, d, n - 1)
  BY <1>2, <1>4 DEF Asked
<1>6. Greatest(so.left[s], 0) = Greatest(u - Greatest(l, lo), 0)
  <2>1. ~ (s + 2 <= n - 1)
    BY <1>2
  <2> QED  BY <1>2, <1>5, <2>1 DEF Left
<1>7. /\ taken \in Nat
      /\ taken = Greatest(Overlap(p, s, d), 0)
      /\ so.need - taken = hi - Greatest(lo, Least(hi, u))
      /\ Greatest(so.left[s] - taken, 0) = Greatest(u - Greatest(l, hi), 0)
  <2> HIDE DEF taken, u, l, lo, hi
  <2>1. taken = IF so.left[s] <= 0 THEN 0 ELSE Least(so.left[s], so.need)
    BY DEF taken
  <2>2. Overlap(p, s, d) = Least(u, hi) - Greatest(l, lo)
    BY DEF Overlap, u, l, lo, hi
  <2> DEFINE left == so.left[s]
             need == so.need
  <2>3. left \in Int /\ need = hi - Greatest(lo, Least(hi, l))
    BY <1>5
  <2>4. taken = IF left <= 0 THEN 0 ELSE Least(left, need)
    BY <2>1
  <2>5. Greatest(left, 0) = Greatest(u - Greatest(l, lo), 0)
    BY <1>6
  <2> HIDE DEF left, need
  <2>6. /\ taken \in Nat
        /\ taken = Greatest(Least(u, hi) - Greatest(l, lo), 0)
        /\ need - taken = hi - Greatest(lo, Least(hi, u))
        /\ Greatest(left - taken, 0) = Greatest(u - Greatest(l, hi), 0)
    BY ONLY <1>3, <2>3, <2>4, <2>5, TakenIsOverlap
  <2> QED  BY <2>2, <2>6 DEF left, need
<1>8. /\ then.left = [so.left EXCEPT ![s] = IF taken = 0 THEN @ ELSE @ - taken]
      /\ then.need = so.need - taken
      /\ then.pegs = IF taken = 0 THEN so.pegs ELSE so.pegs \union {<<s, d, taken>>}
  BY DEF Allocate, Take
<1> HIDE DEF taken, then
<1>9. then.left \in [Stocks -> Int] /\ then.left[s] = so.left[s] - taken
      /\ \A t \in Stocks : t # s => then.left[t] = so.left[t]
  BY <1>2, <1>5, <1>7, <1>8
<1>10. ASSUME NEW t \in Stocks
       PROVE  Left(p, then.left, t, IF t + 2 <= n THEN hi ELSE lo)
  <2>1. CASE t = s
    BY <1>2, <1>7, <1>9, <2>1 DEF Left
  <2>2. CASE t # s
    <3>1. t \in Int /\ (t + 2 <= n <=> t + 2 <= n - 1)
      BY <1>2, <2>2, SupplyFacts
    <3> QED  BY <1>5, <1>9, <2>2, <3>1 DEF Left
  <2> QED  BY <2>1, <2>2
<1>11. PegsWith(p, d, n) = PegsWith(p, d, n - 1) \union
         (IF Overlap(p, s, d) > 0 THEN {<<s, d, Overlap(p, s, d)>>} ELSE {})
  <2>1. \A t \in Stocks : t + 2 <= n <=> t + 2 <= n - 1 \/ t = s
    BY <1>2, SupplyFacts
  <2>2. s + 2 <= n
    BY <1>2
  <2> HIDE DEF s
  <2> QED  BY <1>2, <2>1, <2>2 DEF PegsWith
<1>12. Overlap(p, s, d) \in Int
  BY <1>3 DEF Overlap, Least, Greatest
<1>13. then.pegs = pegs \union PegsWith(p, d, n)
  <2>1. CASE Overlap(p, s, d) > 0
    <3>1. taken = Overlap(p, s, d) /\ taken # 0
      BY <1>7, <1>12, <2>1 DEF Greatest
    <3> QED  BY <1>5, <1>8, <1>11, <2>1, <3>1
  <2>2. CASE ~ (Overlap(p, s, d) > 0)
    <3>1. taken = 0
      BY <1>7, <1>12, <2>2 DEF Greatest
    <3> QED  BY <1>5, <1>8, <1>11, <2>2, <3>1
  <2> QED  BY <2>1, <2>2
<1>14. then.need = hi - Greatest(lo, Least(hi, IF n = 0 THEN 0 ELSE SuppliedTo(p, n - 2)))
  BY <1>2, <1>7, <1>8
<1>15. Asked(p, d, n, pegs, then)
  BY <1>9, <1>10, <1>13, <1>14 DEF Asked
<1> QED  BY <1>15 DEF then

\* What a demand finds when it asks the supplies.
Rests == [left : [Stocks -> Int], need : Int, pegs : SUBSET (Stocks \X Days \X Int)]

AllocatesTo(d, start, g) ==
  g = [n \in 0..Len(Supplies) |->
         IF n = 0 THEN start ELSE Allocate(d, Supplies[n], g[n - 1])]

LEMMA AllocatesExists ==
  ASSUME NEW d \in Days, NEW start \in Rests
  PROVE  \E g : AllocatesTo(d, start, g)
<1> DEFINE m == Horizon + 1
           F == [n \in 1..m |-> [so \in Rests |-> Allocate(d, n - 2, so)]]
<1>1. m \in Nat /\ Len(Supplies) = m /\ \A n \in 1..m : Supplies[n] = n - 2 /\ n - 2 \in Stocks
  BY SuppliesInOrder, DayFacts
<1>2. ASSUME NEW s \in Stocks, NEW so \in Rests
      PROVE  Allocate(d, s, so) \in Rests
  <2> DEFINE taken == IF so.left[s] <= 0 THEN 0 ELSE Least(so.left[s], so.need)
  <2>1. /\ so.left \in [Stocks -> Int] /\ so.left[s] \in Int /\ so.need \in Int
        /\ so.pegs \in SUBSET (Stocks \X Days \X Int)
    BY DEF Rests
  <2>2. taken \in Int
    BY <2>1 DEF Least
  <2> HIDE DEF taken
  <2> DEFINE left == [so.left EXCEPT ![s] = IF taken = 0 THEN @ ELSE @ - taken]
             pegs == IF taken = 0 THEN so.pegs ELSE so.pegs \union {<<s, d, taken>>}
  <2>3. left \in [Stocks -> Int] /\ so.need - taken \in Int
        /\ pegs \in SUBSET (Stocks \X Days \X Int)
    BY <2>1, <2>2
  <2>4. Allocate(d, s, so) = [left |-> left, need |-> so.need - taken, pegs |-> pegs]
    BY DEF Allocate, Take, taken
  <2> HIDE DEF left, pegs
  <2> QED  BY <2>3, <2>4 DEF Rests
<1>3. F \in [1..m -> [Rests -> Rests]]
  BY <1>1, <1>2
<1>4. PICK g : g \in [0..m -> Rests] /\ g[0] = start /\ \A n \in 1..m : g[n] = F[n][g[n - 1]]
  <2> HIDE DEF F, m
  <2>1. \E g : Iterates(m, Rests, start, F, g)
    BY <1>1, <1>3, Recursion
  <2> QED  BY <2>1 DEF Iterates
<1>5. ASSUME NEW n \in 1..m
      PROVE  g[n] = Allocate(d, Supplies[n], g[n - 1])
  <2>1. g[n - 1] \in Rests /\ n - 1 \in 0..m
    BY <1>1, <1>4
  <2>2. F[n] = [so \in Rests |-> Allocate(d, n - 2, so)]
    OBVIOUS
  <2> HIDE DEF F
  <2> QED  BY <1>1, <1>4, <2>1, <2>2
<1>6. AllocatesTo(d, start, g)
  BY <1>1, <1>4, <1>5 DEF AllocatesTo
<1> QED  BY <1>6

\* All supplies are asked.
LEMMA AllocatesWell ==
  ASSUME NEW p \in Plans, NEW d \in Days, NEW start \in Rests, NEW pegs, Asked(p, d, 0, pegs, start)
  PROVE  Asked(p, d, Horizon + 1, pegs, AllocateAll(d, start))
<1> DEFINE g == CHOOSE g : g = [n \in 0..Len(Supplies) |->
                  IF n = 0 THEN start ELSE Allocate(d, Supplies[n], g[n - 1])]
           m == Horizon + 1
           S == {n \in 0..m : Asked(p, d, n, pegs, g[n])}
<1>1. AllocatesTo(d, start, g)
  BY AllocatesExists DEF AllocatesTo
<1>2. AllocateAll(d, start) = g[Len(Supplies)]
  BY DEF AllocateAll
<1> HIDE DEF g
<1>3. m \in Nat /\ m \in 0..m /\ Len(Supplies) = m /\ \A n \in 1..m : Supplies[n] = n - 2
  BY SuppliesInOrder, DayFacts
<1>4. g[0] = start /\ \A n \in 1..m : g[n] = Allocate(d, n - 2, g[n - 1])
  BY <1>1, <1>3 DEF AllocatesTo
<1>5. 0 \in S
  BY <1>3, <1>4
<1>6. ASSUME NEW n \in 0..m - 1, n \in S
      PROVE  n + 1 \in S
  <2>1. n + 1 \in 1..m /\ n + 1 \in 0..m /\ (n + 1) - 1 = n
    BY <1>3
  <2> QED  BY <1>4, <1>6, <2>1, AllocateKeeps
<1> HIDE DEF S
<1>7. m \in S
  <2>1. 0..m \subseteq S
    BY <1>3, <1>5, <1>6, Induction
  <2> QED  BY <1>3, <2>1
<1> QED  BY <1>2, <1>3, <1>7 DEF S

Peggings == [left : [Stocks -> Int], pegs : SUBSET (Stocks \X Days \X Int), uncovered : SUBSET (Days \X Int)]

\* Nothing is pegged at the start.
LEMMA NothingPegged ==
  ASSUME NEW p \in Plans
  PROVE  StartPegging(p) \in Peggings /\ Pegged(p, StartPegging(p), 0)
<1> DEFINE start == StartPegging(p)
           left == [s \in Stocks |-> IF s = Opening THEN p.opening ELSE p.supply[s]]
<1>1. p.opening \in Int /\ p.supply \in [Days -> Nat]
  BY PlanFacts
<1>2. start = [left |-> left, pegs |-> {}, uncovered |-> {}]
  BY DEF StartPegging, Stocks
<1>3. left \in [Stocks -> Int]
  BY <1>1 DEF Stocks
<1>4. Due(p, 0) = 0
  <2>1. p.demand \in [Days -> Nat]
    BY PlanFacts
  <2> QED  BY <2>1, TotalSteps DEF Due
<1>5. ASSUME NEW s \in Stocks
      PROVE  Left(p, left, s, 0)
  <2>1. CASE s = Opening
    <3>1. left[s] = p.opening
      BY <2>1
    <3>2. SuppliedTo(p, s) = Greatest(p.opening, 0) /\ SuppliedFrom(p, s) = 0
      BY <2>1, SupplyFacts
    <3> QED  BY <1>1, <3>1, <3>2 DEF Left, Greatest
  <2>2. CASE s # Opening
    <3>1. s \in Days
      BY <2>2 DEF Stocks
    <3>2. left[s] = p.supply[s] /\ p.supply[s] \in Nat
      BY <1>1, <2>2, <3>1
    <3>3. SuppliedTo(p, s) = SuppliedFrom(p, s) + p.supply[s] /\ SuppliedFrom(p, s) \in Nat
      BY <3>1, SupplyFacts
    <3> HIDE DEF left
    <3> QED  BY <3>2, <3>3 DEF Left, Greatest
  <2> QED  BY <2>1, <2>2
<1> HIDE DEF left, start
<1>6. start.left = left /\ start.pegs = {} /\ start.uncovered = {} /\ start \in Peggings
  BY <1>2, <1>3 DEF Peggings
<1>7. 0..0 - 1 = {}
  OBVIOUS
<1>8. Pegged(p, start, 0)
  BY <1>3, <1>4, <1>5, <1>6, <1>7 DEF Pegged
<1> QED  BY <1>6, <1>8 DEF start

\* A day is pegged.
LEMMA DayPegged ==
  ASSUME NEW p \in Plans, NEW made \in Peggings, NEW d \in Days, Pegged(p, made, d),
         NEW so, so = AllocateAll(d, [left |-> made.left, need |-> p.demand[d], pegs |-> made.pegs]),
         NEW next, next = [left |-> so.left, pegs |-> so.pegs,
                           uncovered |-> IF so.need = 0 THEN made.uncovered
                                         ELSE made.uncovered \union {<<d, so.need>>}]
  PROVE  next \in Peggings /\ Pegged(p, next, d + 1)
<1> DEFINE start == [left |-> made.left, need |-> p.demand[d], pegs |-> made.pegs]
           lo == Due(p, d)
           hi == Due(p, d + 1)
           all == SuppliedTo(p, Horizon - 1)
<1>1. Horizon \in Nat /\ d \in 0..Horizon /\ d + 1 \in 0..Horizon /\ d \in Nat
  BY DayFacts, MomentsOfDay
<1>2. p.demand[d] \in Nat
  BY PlanFacts
<1>3. lo \in Nat /\ hi \in Nat /\ lo <= hi /\ hi = lo + p.demand[d]
  BY <1>1, SupplyFacts
<1>4. start \in Rests
  BY <1>2 DEF Rests, Peggings
<1>5. Asked(p, d, 0, made.pegs, start)
  <2>1. start.left = made.left /\ start.need = p.demand[d] /\ start.pegs = made.pegs
    OBVIOUS
  <2> HIDE DEF start
  <2>2. start.need = hi - Greatest(lo, Least(hi, 0))
    <3> HIDE DEF lo, hi
    <3>1. Least(hi, 0) = 0 /\ Greatest(lo, 0) = lo
      BY <1>3 DEF Greatest, Least
    <3>2. p.demand[d] = hi - lo
      BY <1>2, <1>3
    <3> QED  BY <2>1, <3>1, <3>2
  <2>3. \A s \in Stocks : ~ (s + 2 <= 0)
    BY SupplyFacts
  <2>4. PegsWith(p, d, 0) = {}
    BY <2>3 DEF PegsWith
  <2> QED  BY <2>1, <2>2, <2>3, <2>4 DEF Asked, Pegged
<1>6. Asked(p, d, Horizon + 1, made.pegs, so)
  BY <1>4, <1>5, AllocatesWell
<1>7. all \in Nat /\ Horizon + 1 # 0 /\ (Horizon + 1) - 2 = Horizon - 1
  <2>1. Horizon - 1 \in Stocks
    BY <1>1, DayFacts DEF Stocks, Days
  <2> QED  BY <1>1, <2>1, SupplyFacts
<1>8. /\ so.left \in [Stocks -> Int]
      /\ so.need = hi - Greatest(lo, Least(hi, all))
      /\ so.pegs = made.pegs \union PegsWith(p, d, Horizon + 1)
  BY <1>6, <1>7 DEF Asked
<1>9. \A s \in Stocks : Left(p, so.left, s, hi)
  <2>1. \A s \in Stocks : s + 2 <= Horizon + 1
    BY <1>1, SupplyFacts
  <2> QED  BY <1>6, <2>1 DEF Asked
<1>10. next.left = so.left /\ next.pegs = so.pegs
       /\ next.uncovered = IF so.need = 0 THEN made.uncovered ELSE made.uncovered \union {<<d, so.need>>}
  OBVIOUS
<1>11. so.need \in Nat /\ (so.need # 0 <=> Missing(p, d) > 0) /\ (so.need # 0 => so.need = Missing(p, d))
  <2>1. Missing(p, d) = hi - Greatest(all, lo)
    BY DEF Missing
  <2> HIDE DEF hi, lo, all
  <2> QED  BY <1>3, <1>7, <1>8, <2>1 DEF Greatest, Least
<1>12. 0..(d + 1) - 1 = (0..d - 1) \union {d}
  BY <1>1
<1>13. next.pegs = UNION {PegsWith(p, e, Horizon + 1) : e \in 0..(d + 1) - 1}
  <2>1. made.pegs = UNION {PegsWith(p, e, Horizon + 1) : e \in 0..d - 1}
    BY DEF Pegged
  <2> QED  BY <1>8, <1>10, <1>12, <2>1
<1>14. next.uncovered = {<<e, Missing(p, e)>> : e \in {f \in 0..(d + 1) - 1 : Missing(p, f) > 0}}
  <2>1. made.uncovered = {<<e, Missing(p, e)>> : e \in {f \in 0..d - 1 : Missing(p, f) > 0}}
    BY DEF Pegged
  <2>2. CASE Missing(p, d) > 0
    BY <1>10, <1>11, <1>12, <2>1, <2>2
  <2>3. CASE ~ (Missing(p, d) > 0)
    BY <1>10, <1>11, <1>12, <2>1, <2>3
  <2> QED  BY <2>2, <2>3
<1>15. next \in Peggings
  <2>1. PegsWith(p, d, Horizon + 1) \subseteq Stocks \X Days \X Int
    <3>1. \A s \in Stocks : Overlap(p, s, d) \in Int
      BY <1>3, SupplyFacts DEF Overlap, Least, Greatest
    <3> QED  BY <3>1 DEF PegsWith
  <2>2. so.pegs \in SUBSET (Stocks \X Days \X Int)
    BY <1>8, <2>1 DEF Peggings
  <2>3. next.uncovered \in SUBSET (Days \X Int)
    <3>1. made.uncovered \in SUBSET (Days \X Int) /\ <<d, so.need>> \in Days \X Int
      BY <1>11 DEF Peggings
    <3> QED  BY <1>10, <3>1
  <2> QED  BY <1>8, <1>10, <2>2, <2>3 DEF Peggings
<1>16. Pegged(p, next, d + 1)
  BY <1>8, <1>9, <1>10, <1>13, <1>14 DEF Pegged
<1> QED  BY <1>15, <1>16

PeggedDays == IF phase = "project" THEN 0 ELSE IF phase = "peg" THEN day ELSE Horizon

PegInv ==
  /\ EngineInv
  /\ phase = "done" => day = 0
  /\ pegging \in Peggings
  /\ Pegged(plan, pegging, PeggedDays)

LEMMA InitPegs == Init => PegInv
<1> SUFFICES ASSUME Init PROVE PegInv
  OBVIOUS
<1>1. EngineInv /\ pegging = StartPegging(plan) /\ phase = "project"
  BY InitInv DEF Init
<1>2. plan \in Plans /\ PeggedDays = 0
  BY <1>1 DEF EngineInv, TypeOK, Plans, PeggedDays
<1> QED  BY <1>1, <1>2, NothingPegged DEF PegInv

LEMMA NextPegs == PegInv /\ [Next]_vars => PegInv'
<1> SUFFICES ASSUME PegInv, [Next]_vars PROVE PegInv'
  OBVIOUS
<1>1. EngineInv /\ EngineInv' /\ pegging \in Peggings /\ Pegged(plan, pegging, PeggedDays)
  BY NextInv DEF PegInv
<1>2. plan \in Plans /\ plan' \in Plans /\ day \in Days
  BY <1>1 DEF EngineInv, TypeOK, Plans
<1>3. SUFFICES /\ phase' = "done" => day' = 0
               /\ pegging' \in Peggings /\ Pegged(plan', pegging', PeggedDays')
  <2> HIDE DEF EngineInv
  <2>1. Pegged(plan, pegging, PeggedDays)' = Pegged(plan', pegging', PeggedDays')
    BY DEF Pegged, Left
  <2>2. (pegging \in Peggings)' = (pegging' \in Peggings)
    OBVIOUS
  <2> QED  BY <1>1, <1>3, <2>1, <2>2 DEF PegInv
<1>4. CASE FirstEvent
  <2>1. phase = "project" /\ phase' = "project" /\ plan' = plan /\ pegging' = pegging
    BY <1>4 DEF FirstEvent
  <2> QED  BY <1>1, <2>1 DEF PeggedDays
<1>5. CASE LastEvent
  <2>1. /\ phase = "project" /\ phase' \in {"project", "peg"} /\ plan' = plan /\ pegging' = pegging
        /\ phase' = "peg" => day' = 0
    BY <1>5 DEF LastEvent
  <2> QED  BY <1>1, <2>1 DEF PeggedDays
<1>6. CASE Peg
  <2> DEFINE so == AllocateAll(day, [left |-> pegging.left, need |-> plan.demand[day],
                                     pegs |-> pegging.pegs])
  <2>1. /\ phase = "peg" /\ plan' = plan
        /\ pegging' = [left |-> so.left, pegs |-> so.pegs,
                       uncovered |-> IF so.need = 0 THEN pegging.uncovered
                                     ELSE pegging.uncovered \union {<<day, so.need>>}]
        /\ \/ day = Horizon - 1 /\ phase' = "done" /\ day' = 0
           \/ phase' = "peg" /\ day' = day + 1
    BY <1>6 DEF Peg
  <2>2. Pegged(plan, pegging, day)
    BY <1>1, <2>1 DEF PeggedDays
  <2>3. pegging' \in Peggings /\ Pegged(plan, pegging', day + 1)
    BY <1>1, <1>2, <2>1, <2>2, DayPegged
  <2>4. PeggedDays' = day + 1
    <3>1. day \in Int /\ Horizon \in Nat
      BY <1>2, DayFacts
    <3> HIDE DEF so
    <3>2. \/ day = Horizon - 1 /\ phase' = "done"
          \/ phase' = "peg" /\ day' = day + 1
      BY <2>1
    <3>3. CASE day = Horizon - 1 /\ phase' = "done"
      <4>1. PeggedDays' = Horizon
        BY <3>3 DEF PeggedDays
      <4> QED  BY <3>1, <3>3, <4>1
    <3>4. CASE phase' = "peg" /\ day' = day + 1
      BY <3>4 DEF PeggedDays
    <3> QED  BY <3>2, <3>3, <3>4
  <2> QED  BY <2>1, <2>3, <2>4
<1>7. CASE \E rec \in Recommended(plan, result) : Simulate(rec)
  <2>1. pegging' = StartPegging(plan') /\ phase' = "project"
    BY <1>7 DEF Simulate
  <2> QED  BY <1>2, <2>1, NothingPegged DEF PeggedDays
<1>8. CASE UNCHANGED vars
  BY <1>1, <1>8 DEF vars, PeggedDays, PegInv
<1> QED  BY <1>4, <1>5, <1>6, <1>7, <1>8 DEF Next

\* When all days are pegged the pegs are those of first in, first out.
LEMMA PegsFollow == PegInv => PegsAreFifo
<1> SUFFICES ASSUME PegInv, phase = "done"
             PROVE  PegsAreFifo
  BY DEF PegsAreFifo
<1> DEFINE Upper(s) == Greatest(plan.opening, 0) + TotalBefore(plan.supply, s + 1)
           Lower(s) == IF s = Opening THEN 0 ELSE Upper(s - 1)
           DemandUpTo(d) == TotalBefore(plan.demand, d + 1)
           Both(from, to, d) == Least(to, DemandUpTo(d)) - Greatest(from, DemandUpTo(d - 1))
<1>1. Pegged(plan, pegging, Horizon) /\ plan \in Plans
  BY DEF PegInv, PeggedDays, EngineInv, TypeOK, Plans
<1>2. /\ pegging.pegs = UNION {PegsWith(plan, e, Horizon + 1) : e \in 0..Horizon - 1}
      /\ pegging.uncovered = {<<e, Missing(plan, e)>> : e \in {f \in 0..Horizon - 1 : Missing(plan, f) > 0}}
  BY <1>1 DEF Pegged
<1>3. /\ Horizon \in Nat \ {0} /\ Horizon - 1 \in Days
      /\ \A d \in Days : (d - 1) + 1 = d /\ d \in 0..Horizon /\ d + 1 \in 0..Horizon
      /\ \A s \in Stocks : s + 2 <= Horizon + 1
  BY <1>1, DayFacts, SupplyFacts DEF Days
<1>4. /\ \A s : Upper(s) = SuppliedTo(plan, s) /\ Lower(s) = SuppliedFrom(plan, s)
      /\ \A d \in Days : DemandUpTo(d) = Due(plan, d + 1) /\ DemandUpTo(d - 1) = Due(plan, d)
  BY <1>3 DEF SuppliedTo, SuppliedFrom, Due
<1>5. \A s \in Stocks, d \in Days : Both(Lower(s), Upper(s), d) = Overlap(plan, s, d)
  BY <1>4 DEF Overlap
<1>6. \A d \in Days : Both(Upper(Horizon - 1), DemandUpTo(Horizon - 1), d) = Missing(plan, d)
  <2>1. SUFFICES ASSUME NEW d \in Days
                 PROVE  Both(Upper(Horizon - 1), DemandUpTo(Horizon - 1), d) = Missing(plan, d)
    OBVIOUS
  <2>2. DemandUpTo(d) <= DemandUpTo(Horizon - 1)
    <3>1. plan.demand \in [Days -> Nat] /\ d + 1 <= (Horizon - 1) + 1
      BY <1>1, <1>3, PlanFacts DEF Days
    <3> QED  BY <1>3, <3>1, TotalGrows
  <2>3. DemandUpTo(d) \in Nat /\ DemandUpTo(Horizon - 1) \in Nat
    <3>1. plan.demand \in [Days -> Nat] /\ (Horizon - 1) + 1 \in 0..Horizon
      BY <1>1, <1>3, PlanFacts
    <3> QED  BY <1>3, <3>1, TotalSteps
  <2>4. Least(DemandUpTo(Horizon - 1), DemandUpTo(d)) = DemandUpTo(d)
    <3> HIDE DEF DemandUpTo
    <3> QED  BY <2>2, <2>3 DEF Least
  <2> QED  BY <1>4, <2>4 DEF Missing
<1> HIDE DEF Upper, Lower, DemandUpTo, Both
<1>7. pegging.pegs = {peg \in {<<s, d, Both(Lower(s), Upper(s), d)>> :
                                s \in Days \union {Opening}, d \in Days} : peg[3] > 0}
  <2>1. {<<s, d, Both(Lower(s), Upper(s), d)>> : s \in Days \union {Opening}, d \in Days}
          = {<<s, d, Overlap(plan, s, d)>> : s \in Stocks, d \in Days}
    BY <1>5 DEF Stocks
  <2>2. pegging.pegs = {peg \in {<<s, d, Overlap(plan, s, d)>> : s \in Stocks, d \in Days} : peg[3] > 0}
    BY <1>2, <1>3 DEF PegsWith, Days
  <2> QED  BY <2>1, <2>2
<1>8. pegging.uncovered =
        {rest \in {<<d, Both(Upper(Horizon - 1), DemandUpTo(Horizon - 1), d)>> : d \in Days} : rest[2] > 0}
  <2>1. {<<d, Both(Upper(Horizon - 1), DemandUpTo(Horizon - 1), d)>> : d \in Days}
          = {<<d, Missing(plan, d)>> : d \in Days}
    BY <1>6
  <2>2. pegging.uncovered = {rest \in {<<d, Missing(plan, d)>> : d \in Days} : rest[2] > 0}
    BY <1>2 DEF Days
  <2> QED  BY <2>1, <2>2
<1> QED  BY <1>7, <1>8 DEF PegsAreFifo, Upper, Lower, DemandUpTo, Both

\* What is there for the demand of day d when it is due.
Ready(p, d) == IF p.policy.demandFirst THEN SuppliedFrom(p, d) ELSE SuppliedTo(p, d)

\* A later supply begins where the earlier ones end, or after it.
LEMMA LaterSupply ==
  ASSUME NEW p \in Plans, NEW s \in Stocks, NEW t \in Days, s < t
  PROVE  SuppliedTo(p, s) <= SuppliedFrom(p, t)
<1>1. s + 1 \in 0..Horizon /\ t \in 0..Horizon /\ s + 1 <= t /\ (t - 1) + 1 = t
  BY DayFacts, SupplyFacts DEF Days
<1>2. p.supply \in [Days -> Nat] /\ p.opening \in Int
  BY PlanFacts
<1>3. /\ TotalBefore(p.supply, s + 1) <= TotalBefore(p.supply, t)
      /\ TotalBefore(p.supply, s + 1) \in Nat /\ TotalBefore(p.supply, t) \in Nat
  BY <1>1, <1>2, TotalGrows, TotalSteps
<1>4. SuppliedFrom(p, t) = Greatest(p.opening, 0) + TotalBefore(p.supply, t)
  <2>1. SuppliedFrom(p, t) = SuppliedTo(p, t - 1)
    BY SupplyFacts
  <2> QED  BY <1>1, <2>1 DEF SuppliedTo
<1>5. Greatest(p.opening, 0) \in Int
  BY <1>2 DEF Greatest
<1> QED  BY <1>3, <1>4, <1>5 DEF SuppliedTo

\* The balance is below zero at a moment of the horizon exactly when a demand
\* is more than what is ready for it.
LEMMA ShortIsUnready ==
  ASSUME NEW p \in Plans, p.opening >= 0
  PROVE  (\E m \in 0..2 * Horizon : LevelOf(p, m) < 0) <=> \E d \in Days : Due(p, d + 1) > Ready(p, d)
<1>1. p.opening \in Int /\ p.supply \in [Days -> Nat] /\ p.demand \in [Days -> Nat]
      /\ p.policy.demandFirst \in BOOLEAN
  BY PlanFacts
<1>2. ASSUME NEW d \in Days
      PROVE  /\ LevelOf(p, 2 * d + 2) = SuppliedTo(p, d) - Due(p, d + 1)
             /\ LevelOf(p, 2 * d + 1) = IF p.policy.demandFirst THEN SuppliedFrom(p, d) - Due(p, d + 1)
                                        ELSE SuppliedTo(p, d) - Due(p, d)
             /\ SuppliedFrom(p, d) <= SuppliedTo(p, d) /\ Due(p, d) <= Due(p, d + 1)
             /\ {SuppliedFrom(p, d), SuppliedTo(p, d), Due(p, d), Due(p, d + 1)} \subseteq Nat
  <2> DEFINE s == TotalBefore(p.supply, d)
             q == TotalBefore(p.demand, d)
  <2>1. /\ d \in 0..Horizon /\ d + 1 \in 0..Horizon
        /\ (2 * d + 1) \div 2 = d /\ (2 * d + 1) % 2 = 1
        /\ (2 * d + 2) \div 2 = d + 1 /\ (2 * d + 2) % 2 = 0
    BY MomentsOfDay
  <2>2. /\ SuppliedFrom(p, d) = p.opening + s /\ SuppliedTo(p, d) = p.opening + TotalBefore(p.supply, d + 1)
        /\ Due(p, d) = q /\ Due(p, d + 1) = TotalBefore(p.demand, d + 1)
    <3>1. Greatest(p.opening, 0) = p.opening
      BY <1>1 DEF Greatest
    <3>2. SuppliedFrom(p, d) = SuppliedTo(p, d - 1) /\ (d - 1) + 1 = d
      BY <2>1, SupplyFacts, DayFacts
    <3> QED  BY <3>1, <3>2 DEF SuppliedTo, Due
  <2>3. /\ s \in Nat /\ q \in Nat /\ p.supply[d] \in Nat /\ p.demand[d] \in Nat
        /\ TotalBefore(p.supply, d + 1) = s + p.supply[d]
        /\ TotalBefore(p.demand, d + 1) = q + p.demand[d]
    BY <1>1, <2>1, TotalSteps
  <2>4. /\ LevelOf(p, 2 * d + 2) = p.opening + TotalBefore(p.supply, d + 1) - TotalBefore(p.demand, d + 1) + 0
        /\ LevelOf(p, 2 * d + 1) = p.opening + s - q
             + (IF p.policy.demandFirst THEN -p.demand[d] ELSE p.supply[d])
    BY <2>1 DEF LevelOf
  <2> HIDE DEF s, q
  <2> QED  BY <1>1, <2>2, <2>3, <2>4
<1>3. ASSUME NEW d \in Days, Due(p, d + 1) > Ready(p, d)
      PROVE  \E m \in 0..2 * Horizon : LevelOf(p, m) < 0
  <2>1. 2 * d + 1 \in 0..2 * Horizon /\ 2 * d + 2 \in 0..2 * Horizon
    BY MomentsOfDay
  <2>2. CASE p.policy.demandFirst
    <3>1. LevelOf(p, 2 * d + 1) = SuppliedFrom(p, d) - Due(p, d + 1) /\ Ready(p, d) = SuppliedFrom(p, d)
      BY <1>2, <2>2 DEF Ready
    <3>2. LevelOf(p, 2 * d + 1) < 0
      BY <1>2, <1>3, <3>1
    <3> QED  BY <2>1, <3>2
  <2>3. CASE ~ p.policy.demandFirst
    <3>1. LevelOf(p, 2 * d + 2) = SuppliedTo(p, d) - Due(p, d + 1) /\ Ready(p, d) = SuppliedTo(p, d)
      BY <1>2, <2>3 DEF Ready
    <3>2. LevelOf(p, 2 * d + 2) < 0
      BY <1>2, <1>3, <3>1
    <3> QED  BY <2>1, <3>2
  <2> QED  BY <2>2, <2>3
<1>4. ASSUME NEW m \in 0..2 * Horizon, LevelOf(p, m) < 0
      PROVE  \E d \in Days : Due(p, d + 1) > Ready(p, d)
  <2>1. LevelOf(p, 0) = p.opening
    BY LevelSteps
  <2>2. m # 0
    BY <1>1, <1>4, <2>1
  <2>3. PICK d \in Days : m = 2 * d + 1 \/ m = 2 * d + 2
    BY <2>2, MomentIsOfDay
  <2>4. CASE p.policy.demandFirst
    <3>1. LevelOf(p, 2 * d + 1) = SuppliedFrom(p, d) - Due(p, d + 1) /\ Ready(p, d) = SuppliedFrom(p, d)
      BY <1>2, <2>4 DEF Ready
    <3>2. Due(p, d + 1) > Ready(p, d)
      BY <1>2, <1>4, <2>3, <3>1
    <3> QED  BY <3>2
  <2>5. CASE ~ p.policy.demandFirst
    <3>1. LevelOf(p, 2 * d + 1) = SuppliedTo(p, d) - Due(p, d) /\ Ready(p, d) = SuppliedTo(p, d)
      BY <1>2, <2>5 DEF Ready
    <3>2. Due(p, d + 1) > Ready(p, d)
      BY <1>2, <1>4, <2>3, <3>1
    <3> QED  BY <3>2
  <2> QED  BY <2>4, <2>5
<1> QED  BY <1>3, <1>4

\* A peg with a supply that comes after the demand.
LateOverlap(p, s, e) ==
  Overlap(p, s, e) > 0 /\ (s > e \/ (s = e /\ p.policy.demandFirst))

\* And then it is pegged to a later supply or to none.
LEMMA UnreadyIsLate ==
  ASSUME NEW p \in Plans
  PROVE  (\E d \in Days : Due(p, d + 1) > Ready(p, d)) <=>
           \/ \E e \in Days : Missing(p, e) > 0
           \/ \E s \in Stocks, e \in Days : LateOverlap(p, s, e)
<1> DEFINE last == Horizon - 1
<1>1. /\ Horizon \in Nat \ {0} /\ last \in Days /\ last \in Stocks /\ Opening \in Stocks
      /\ \A d \in Days : d \in Nat /\ d <= last /\ d \in Stocks /\ d + 1 \in 0..Horizon /\ d \in 0..Horizon
  BY DayFacts DEF Days, Stocks
<1>2. /\ \A s \in Stocks : /\ SuppliedTo(p, s) \in Nat /\ SuppliedFrom(p, s) \in Nat
                           /\ SuppliedFrom(p, s) <= SuppliedTo(p, s) /\ s \in Int
      /\ \A d \in Days : Due(p, d) \in Nat /\ Due(p, d + 1) \in Nat /\ Due(p, d) <= Due(p, d + 1)
  BY <1>1, SupplyFacts
<1>3. \A d \in Days : Ready(p, d) \in Nat /\ SuppliedFrom(p, d) <= Ready(p, d) /\ Ready(p, d) <= SuppliedTo(p, d)
  BY <1>1, <1>2 DEF Ready
<1>4. ASSUME NEW e \in Days, Missing(p, e) > 0
      PROVE  Due(p, e + 1) > Ready(p, e)
  <2>1. SuppliedTo(p, e) <= SuppliedTo(p, last)
    <3>1. CASE e = last
      BY <1>1, <1>2, <3>1
    <3>2. CASE e # last
      <4>1. SuppliedTo(p, e) <= SuppliedFrom(p, last)
        BY <1>1, <3>2, LaterSupply
      <4> QED  BY <1>1, <1>2, <4>1
    <3> QED  BY <3>1, <3>2
  <2>2. Due(p, e + 1) > SuppliedTo(p, last)
    BY <1>1, <1>2, <1>4 DEF Missing, Greatest
  <2> HIDE DEF last
  <2> QED  BY <1>1, <1>2, <1>3, <2>1, <2>2
<1>5. ASSUME NEW s \in Stocks, NEW e \in Days, LateOverlap(p, s, e)
      PROVE  Due(p, e + 1) > Ready(p, e)
  <2>1. Due(p, e + 1) > SuppliedFrom(p, s)
    BY <1>2, <1>5 DEF LateOverlap, Overlap, Least, Greatest
  <2>2. CASE s > e
    <3>1. s \in Days
      BY <1>1, <2>2 DEF Stocks, Opening
    <3>2. SuppliedTo(p, e) <= SuppliedFrom(p, s)
      BY <1>1, <2>2, <3>1, LaterSupply
    <3> QED  BY <1>1, <1>2, <1>3, <2>1, <3>2
  <2>3. CASE s = e /\ p.policy.demandFirst
    BY <2>1, <2>3 DEF Ready
  <2> QED  BY <1>5, <2>2, <2>3 DEF LateOverlap
<1>6. ASSUME NEW d \in Days, Due(p, d + 1) > Ready(p, d)
      PROVE  \/ \E e \in Days : Missing(p, e) > 0
             \/ \E s \in Stocks, e \in Days : LateOverlap(p, s, e)
  <2> DEFINE x == Ready(p, d)
             beyond == {e \in Days : Due(p, e + 1) > x}
             enough == {s \in Days : SuppliedTo(p, s) > x}
  <2>1. PICK e \in beyond : \A k \in beyond : e <= k
    <3>1. d \in beyond /\ beyond \subseteq 0..Horizon
      BY <1>1, <1>6
    <3> HIDE DEF beyond
    <3> QED  BY <1>1, <3>1, FirstExists
  <2>2. e \in Days /\ Due(p, e) <= x /\ x < Due(p, e + 1) /\ e <= d
    <3>1. e \in Days /\ x < Due(p, e + 1) /\ e <= d
      BY <1>6, <2>1, <1>2, <1>3
    <3>2. CASE e = 0
      <4>1. Due(p, 0) = 0
        <5>1. p.demand \in [Days -> Nat]
          BY PlanFacts
        <5> QED  BY <5>1, TotalSteps DEF Due
      <4> QED  BY <1>3, <3>1, <3>2, <4>1
    <3>3. CASE e # 0
      <4>1. e - 1 \in Days /\ (e - 1) + 1 = e /\ e - 1 < e /\ e \in Nat
        BY <1>1, <3>1, <3>3 DEF Days
      <4>2. e - 1 \notin beyond
        <5> HIDE DEF beyond
        <5> QED  BY <2>1, <4>1
      <4>3. ~ (Due(p, e) > x)
        BY <4>1, <4>2
      <4> HIDE DEF x
      <4>4. x \in Nat /\ Due(p, e) \in Nat
        BY <1>2, <1>3, <3>1 DEF x
      <4> QED  BY <3>1, <4>3, <4>4
    <3> QED  BY <3>2, <3>3
  <2> HIDE DEF beyond
  <2>3. CASE enough = {}
    <3>1. ~ (SuppliedTo(p, last) > x)
      BY <1>1, <2>3
    <3>2. x \in Nat /\ SuppliedTo(p, last) \in Nat /\ Due(p, e) \in Nat /\ Due(p, e + 1) \in Nat
      BY <1>1, <1>2, <1>3, <2>2
    <3> HIDE DEF x, last
    <3>3. Missing(p, e) > 0
      BY <2>2, <3>1, <3>2 DEF Missing, Greatest, last
    <3> QED  BY <2>2, <3>3
  <2>4. CASE enough # {}
    <3>1. PICK s \in enough : \A k \in enough : s <= k
      <4>1. enough \subseteq 0..Horizon
        BY <1>1
      <4> HIDE DEF enough
      <4> QED  BY <1>1, <2>4, <4>1, FirstExists
    <3>2. s \in Days /\ SuppliedTo(p, s) > x /\ s \in Stocks
      BY <1>1, <3>1
    <3>3. SuppliedFrom(p, s) <= x
      <4>0. SuppliedFrom(p, s) \in Nat /\ x \in Nat
        BY <1>2, <1>3, <3>2
      <4>1. CASE s <= d
        <5>1. CASE s = d
          BY <1>3, <5>1
        <5>2. CASE s # d
          <6>1. SuppliedTo(p, s) <= SuppliedFrom(p, d)
            BY <1>1, <3>2, <4>1, <5>2, LaterSupply
          <6> QED  BY <1>1, <1>2, <1>3, <3>2, <6>1
        <5> QED  BY <5>1, <5>2
      <4>2. CASE ~ (s <= d)
        <5>1. s - 1 \in Days /\ s - 1 < s /\ s \in Nat
          BY <1>1, <3>2, <4>2 DEF Days
        <5>2. s - 1 \notin enough
          <6> HIDE DEF enough
          <6> QED  BY <3>1, <5>1
        <5>3. ~ (SuppliedTo(p, s - 1) > x)
          BY <5>1, <5>2
        <5>4. SuppliedFrom(p, s) = SuppliedTo(p, s - 1)
          BY <3>2, SupplyFacts
        <5> HIDE DEF x
        <5> QED  BY <4>0, <5>3, <5>4
      <4> QED  BY <4>1, <4>2
    <3>4. s > d \/ (s = d /\ p.policy.demandFirst)
      <4>1. ASSUME s < d PROVE FALSE
        <5>1. SuppliedTo(p, s) <= SuppliedFrom(p, d)
          BY <3>2, <4>1, LaterSupply
        <5> QED  BY <1>1, <1>2, <1>3, <3>2, <5>1
      <4>2. ASSUME s = d, ~ p.policy.demandFirst PROVE FALSE
        <5>1. x = SuppliedTo(p, s)
          BY <4>2 DEF Ready
        <5> QED  BY <1>2, <3>2, <5>1
      <4> QED  BY <1>1, <3>2, <4>1, <4>2
    <3>5. Overlap(p, s, e) > 0
      <4>1. /\ SuppliedTo(p, s) \in Nat /\ SuppliedFrom(p, s) \in Nat /\ x \in Nat
            /\ Due(p, e) \in Nat /\ Due(p, e + 1) \in Nat
        BY <1>2, <1>3, <2>2, <3>2
      <4> HIDE DEF x
      <4> QED  BY <2>2, <3>2, <3>3, <4>1 DEF Overlap, Least, Greatest
    <3>6. LateOverlap(p, s, e)
      BY <1>1, <2>2, <3>2, <3>4, <3>5 DEF LateOverlap
    <3> QED  BY <2>2, <3>2, <3>6
  <2> QED  BY <2>3, <2>4
<1> QED  BY <1>4, <1>5, <1>6

\* Pegs are those of first in, first out, and the late or missing ones among them
\* are the shortages of the projection, for every horizon and quantity
\* (engine.py:188-208).
THEOREM PegsAndDatesAgree == Spec => []PeggingAgrees
<1>1. ASSUME DatesInv, PegInv PROVE LatePegsAreShortages
  <2>1. SUFFICES ASSUME phase = "done", plan.opening >= 0
                 PROVE  PeakShortage(result) > 0 <=>
                          \/ pegging.uncovered # {}
                          \/ \E peg \in pegging.pegs :
                               \/ peg[1] > peg[2]
                               \/ peg[1] = peg[2] /\ plan.policy.demandFirst
    BY DEF LatePegsAreShortages
  <2>2. /\ plan \in Plans /\ result.minimum \in Int
        /\ ProjectedTo(plan, result, 2 * Horizon) /\ Pegged(plan, pegging, Horizon)
    BY <1>1, <2>1 DEF DatesInv, PegInv, EngineInv, TypeOK, Plans, Moment, PeggedDays
  <2>3. PeakShortage(result) > 0 <=> \E m \in 0..2 * Horizon : LevelOf(plan, m) < 0
    <3>1. /\ \A m \in 0..2 * Horizon : result.minimum <= LevelOf(plan, m)
          /\ \E m \in 0..2 * Horizon : result.minimum = LevelOf(plan, m)
          /\ \A m \in 0..2 * Horizon : LevelOf(plan, m) \in Int
      BY <2>2, LevelSteps DEF ProjectedTo
    <3>2. PeakShortage(result) > 0 <=> result.minimum < 0
      BY <2>2 DEF PeakShortage, Greatest
    <3> QED  BY <2>2, <3>1, <3>2
  <2>4. PeakShortage(result) > 0 <=>
          \/ \E e \in Days : Missing(plan, e) > 0
          \/ \E s \in Stocks, e \in Days : LateOverlap(plan, s, e)
    BY <2>1, <2>2, <2>3, ShortIsUnready, UnreadyIsLate
  <2>5. pegging.uncovered # {} <=> \E e \in Days : Missing(plan, e) > 0
    BY <2>2 DEF Pegged, Days
  <2>6. (\E peg \in pegging.pegs : peg[1] > peg[2] \/ (peg[1] = peg[2] /\ plan.policy.demandFirst))
          <=> \E s \in Stocks, e \in Days : LateOverlap(plan, s, e)
    <3>1. pegging.pegs = UNION {PegsWith(plan, e, Horizon + 1) : e \in Days}
      BY <2>2 DEF Pegged, Days
    <3>2. \A s \in Stocks : s + 2 <= Horizon + 1
      BY <2>2, SupplyFacts, DayFacts
    <3>3. \A peg : peg \in pegging.pegs <=>
            \E e \in Days, s \in Stocks : Overlap(plan, s, e) > 0 /\ peg = <<s, e, Overlap(plan, s, e)>>
      BY <3>1, <3>2 DEF PegsWith
    <3> DEFINE late(s, e) == s > e \/ (s = e /\ plan.policy.demandFirst)
    <3>4. ASSUME NEW peg \in pegging.pegs, late(peg[1], peg[2])
          PROVE  \E s \in Stocks, e \in Days : LateOverlap(plan, s, e)
      <4>1. PICK e \in Days, s \in Stocks : Overlap(plan, s, e) > 0 /\ peg = <<s, e, Overlap(plan, s, e)>>
        BY <3>3
      <4>2. peg[1] = s /\ peg[2] = e
        BY <4>1
      <4> QED  BY <3>4, <4>1, <4>2 DEF LateOverlap
    <3>5. ASSUME NEW s \in Stocks, NEW e \in Days, LateOverlap(plan, s, e)
          PROVE  \E peg \in pegging.pegs : late(peg[1], peg[2])
      <4> DEFINE peg == <<s, e, Overlap(plan, s, e)>>
      <4>1. peg \in pegging.pegs
        BY <3>3, <3>5 DEF LateOverlap
      <4>2. peg[1] = s /\ peg[2] = e
        OBVIOUS
      <4>3. late(peg[1], peg[2])
        BY <3>5, <4>2 DEF LateOverlap
      <4> HIDE DEF peg, late
      <4> QED  BY <4>1, <4>3
    <3> QED  BY <3>4, <3>5
  <2> QED  BY <2>4, <2>5, <2>6
<1>2. Spec => []DatesInv
  BY InitDates, NextDates, PTL DEF Spec
<1>3. Spec => []PegInv
  BY InitPegs, NextPegs, PTL DEF Spec
<1>4. DatesInv /\ PegInv => PeggingAgrees
  BY <1>1, PegsFollow DEF PeggingAgrees
<1> QED  BY <1>2, <1>3, <1>4, PTL

-----------------------------------------------------------------------------
(***************************************************************************)
(* Interventions. A recommendation moves quantities between the days, so   *)
(* the balances of the plan with it and without it differ by what was      *)
(* moved until then. The invariant keeps both plans and the recommendation *)
(* that leads from the one to the other.                                   *)
(***************************************************************************)

\* Quantities that are moved between the days.
LEMMA TotalsMove ==
  ASSUME NEW f \in [Days -> Nat], NEW g \in [Days -> Nat], NEW change \in [0..Horizon -> Int],
         change[0] = 0, \A d \in Days : g[d] = f[d] + change[d + 1] - change[d]
  PROVE  \A d \in 0..Horizon : TotalBefore(g, d) = TotalBefore(f, d) + change[d]
<1> DEFINE S == {d \in 0..Horizon : TotalBefore(g, d) = TotalBefore(f, d) + change[d]}
<1>1. Horizon \in Nat
  BY DayFacts
<1>2. /\ TotalBefore(f, 0) = 0 /\ TotalBefore(g, 0) = 0
      /\ \A d \in 0..Horizon : TotalBefore(f, d) \in Nat
      /\ \A d \in Days : /\ TotalBefore(f, d + 1) = TotalBefore(f, d) + f[d]
                         /\ TotalBefore(g, d + 1) = TotalBefore(g, d) + g[d]
  BY TotalSteps
<1>3. 0 \in S
  BY <1>1, <1>2
<1>4. ASSUME NEW d \in 0..Horizon - 1, d \in S
      PROVE  d + 1 \in S
  <2>1. d \in Days /\ d \in 0..Horizon /\ d + 1 \in 0..Horizon
    BY <1>1 DEF Days
  <2>2. TotalBefore(g, d) = TotalBefore(f, d) + change[d]
    BY <1>4
  <2>3. /\ TotalBefore(f, d) \in Nat /\ change[d] \in Int /\ change[d + 1] \in Int
        /\ f[d] \in Nat /\ g[d] = f[d] + change[d + 1] - change[d]
    BY <1>2, <2>1
  <2>4. /\ TotalBefore(f, d + 1) = TotalBefore(f, d) + f[d]
        /\ TotalBefore(g, d + 1) = TotalBefore(g, d) + g[d]
    BY <1>2, <2>1
  <2>5. TotalBefore(g, d + 1) = TotalBefore(f, d + 1) + change[d + 1]
    BY <2>2, <2>3, <2>4
  <2> QED  BY <2>1, <2>5
<1> HIDE DEF S
<1>5. 0..Horizon \subseteq S
  BY <1>1, <1>3, <1>4, Induction
<1> QED  BY <1>5 DEF S

\* A total stays when nothing is added.
LEMMA TotalRests ==
  ASSUME NEW f \in [Days -> Nat], NEW a \in 0..Horizon, \A d \in Days : d >= a => f[d] = 0
  PROVE  \A b \in a..Horizon : TotalBefore(f, b) = TotalBefore(f, a)
<1> SUFFICES ASSUME NEW b \in a..Horizon
             PROVE  TotalBefore(f, b) = TotalBefore(f, a)
  OBVIOUS
<1> DEFINE S == {k \in 0..b - a : TotalBefore(f, a + k) = TotalBefore(f, a)}
<1>1. a \in Nat /\ b \in Nat /\ b - a \in Nat /\ a + 0 = a /\ a + (b - a) = b /\ Horizon \in Nat
  BY DayFacts
<1>2. 0 \in S
  BY <1>1
<1>3. ASSUME NEW k \in 0..(b - a) - 1, k \in S
      PROVE  k + 1 \in S
  <2>1. a + k \in Days /\ a + k >= a /\ a + (k + 1) = (a + k) + 1 /\ k + 1 \in 0..b - a /\ a + k \in 0..Horizon
    BY <1>1 DEF Days
  <2>2. TotalBefore(f, (a + k) + 1) = TotalBefore(f, a + k) + f[a + k] /\ TotalBefore(f, a + k) \in Nat
    BY <2>1, TotalSteps
  <2>3. f[a + k] = 0 /\ TotalBefore(f, a + k) = TotalBefore(f, a)
    BY <1>3, <2>1
  <2>4. TotalBefore(f, a + (k + 1)) = TotalBefore(f, a)
    BY <2>1, <2>2, <2>3
  <2> QED  BY <2>1, <2>4
<1> HIDE DEF S
<1>4. b - a \in S
  <2>1. 0..b - a \subseteq S
    BY <1>1, <1>2, <1>3, Induction
  <2> QED  BY <1>1, <2>1
<1> QED  BY <1>1, <1>4 DEF S

\* The balance before the supply of day d, and after it, under the default order.
LEMMA LevelParts ==
  ASSUME NEW p \in Plans, p.policy.demandFirst
  PROVE  /\ \A d \in 0..Horizon : LevelOf(p, 2 * d) = p.opening + TotalBefore(p.supply, d) - TotalBefore(p.demand, d)
         /\ \A d \in Days : LevelOf(p, 2 * d + 1) = p.opening + TotalBefore(p.supply, d) - TotalBefore(p.demand, d + 1)
         /\ \A n \in 0..2 * Horizon : \/ \E d \in 0..Horizon : n = 2 * d /\ n \div 2 = d
                                      \/ \E d \in Days : n = 2 * d + 1 /\ n \div 2 = d
<1>1. /\ p.opening \in Int /\ p.supply \in [Days -> Nat] /\ p.demand \in [Days -> Nat]
      /\ Horizon \in Nat
  BY PlanFacts, DayFacts
<1>2. \A d \in 0..Horizon : TotalBefore(p.supply, d) \in Nat /\ TotalBefore(p.demand, d) \in Nat
  BY <1>1, TotalSteps
<1>3. ASSUME NEW d \in 0..Horizon
      PROVE  LevelOf(p, 2 * d) = p.opening + TotalBefore(p.supply, d) - TotalBefore(p.demand, d)
  <2>1. (2 * d) \div 2 = d /\ (2 * d) % 2 = 0
    BY <1>1
  <2>2. LevelOf(p, 2 * d) = p.opening + TotalBefore(p.supply, d) - TotalBefore(p.demand, d) + 0
    BY <2>1 DEF LevelOf
  <2> QED  BY <1>1, <1>2, <2>2
<1>4. ASSUME NEW d \in Days
      PROVE  LevelOf(p, 2 * d + 1) = p.opening + TotalBefore(p.supply, d) - TotalBefore(p.demand, d + 1)
  <2>1. (2 * d + 1) \div 2 = d /\ (2 * d + 1) % 2 = 1 /\ d \in 0..Horizon
    BY MomentsOfDay
  <2>2. LevelOf(p, 2 * d + 1) = p.opening + TotalBefore(p.supply, d) - TotalBefore(p.demand, d) + (-p.demand[d])
    BY <2>1 DEF LevelOf
  <2>3. TotalBefore(p.demand, d + 1) = TotalBefore(p.demand, d) + p.demand[d] /\ p.demand[d] \in Nat
    BY <1>1, TotalSteps
  <2>4. TotalBefore(p.supply, d) \in Nat /\ TotalBefore(p.demand, d) \in Nat
    BY <1>2, <2>1
  <2> QED  BY <1>1, <2>2, <2>3, <2>4
<1>5. \A n \in 0..2 * Horizon : \/ \E d \in 0..Horizon : n = 2 * d /\ n \div 2 = d
                                \/ \E d \in Days : n = 2 * d + 1 /\ n \div 2 = d
  <2>1. SUFFICES ASSUME NEW n \in 0..2 * Horizon
                 PROVE  \/ \E d \in 0..Horizon : n = 2 * d /\ n \div 2 = d
                        \/ \E d \in Days : n = 2 * d + 1 /\ n \div 2 = d
    OBVIOUS
  <2>2. n \div 2 \in 0..Horizon /\ (n = 2 * (n \div 2) \/ n = 2 * (n \div 2) + 1)
    BY <1>1
  <2>3. n = 2 * (n \div 2) + 1 => n \div 2 \in Days
    BY <1>1, <2>2 DEF Days
  <2> QED  BY <2>2, <2>3
<1> QED  BY <1>3, <1>4, <1>5

\* The balances move by what was moved.
LEMMA LevelsMove ==
  ASSUME NEW p \in Plans, NEW q \in Plans, p.policy.demandFirst, q.policy.demandFirst,
         q.opening = p.opening, q.demand = p.demand, NEW change \in [0..Horizon -> Int],
         change[0] = 0, \A d \in Days : q.supply[d] = p.supply[d] + change[d + 1] - change[d]
  PROVE  \A n \in 0..2 * Horizon : LevelOf(q, n) = LevelOf(p, n) + change[n \div 2] /\ n \div 2 \in 0..Horizon
<1>1. /\ p.supply \in [Days -> Nat] /\ q.supply \in [Days -> Nat] /\ p.demand \in [Days -> Nat]
      /\ p.opening \in Int
  BY PlanFacts
<1>2. \A d \in 0..Horizon : TotalBefore(q.supply, d) = TotalBefore(p.supply, d) + change[d]
  BY <1>1, TotalsMove, ZenonT(30)
<1>3. \A d \in 0..Horizon : /\ TotalBefore(p.supply, d) \in Nat /\ TotalBefore(p.demand, d) \in Nat
                            /\ change[d] \in Int
  BY <1>1, TotalSteps
<1>4. SUFFICES ASSUME NEW n \in 0..2 * Horizon
               PROVE  LevelOf(q, n) = LevelOf(p, n) + change[n \div 2] /\ n \div 2 \in 0..Horizon
  OBVIOUS
<1>5. CASE \E d \in 0..Horizon : n = 2 * d /\ n \div 2 = d
  <2>1. PICK d \in 0..Horizon : n = 2 * d /\ n \div 2 = d
    BY <1>5
  <2>2. /\ LevelOf(p, n) = p.opening + TotalBefore(p.supply, d) - TotalBefore(p.demand, d)
        /\ LevelOf(q, n) = p.opening + TotalBefore(q.supply, d) - TotalBefore(p.demand, d)
    BY <2>1, LevelParts
  <2>3. TotalBefore(q.supply, d) = TotalBefore(p.supply, d) + change[d]
        /\ TotalBefore(p.supply, d) \in Nat /\ TotalBefore(p.demand, d) \in Nat /\ change[d] \in Int
    BY <1>2, <1>3
  <2> QED  BY <1>1, <2>1, <2>2, <2>3
<1>6. CASE \E d \in Days : n = 2 * d + 1 /\ n \div 2 = d
  <2>1. PICK d \in Days : n = 2 * d + 1 /\ n \div 2 = d
    BY <1>6
  <2>2. /\ LevelOf(p, n) = p.opening + TotalBefore(p.supply, d) - TotalBefore(p.demand, d + 1)
        /\ LevelOf(q, n) = p.opening + TotalBefore(q.supply, d) - TotalBefore(p.demand, d + 1)
    BY <2>1, LevelParts
  <2>3. d \in 0..Horizon /\ d + 1 \in 0..Horizon
    BY MomentsOfDay
  <2>4. TotalBefore(q.supply, d) = TotalBefore(p.supply, d) + change[d]
        /\ TotalBefore(p.supply, d) \in Nat /\ TotalBefore(p.demand, d + 1) \in Nat /\ change[d] \in Int
    BY <1>2, <1>3, <2>3
  <2>5. LevelOf(q, n) = LevelOf(p, n) + change[d]
    BY <1>1, <2>2, <2>4
  <2> QED  BY <2>1, <2>3, <2>5
<1> QED  BY <1>5, <1>6, LevelParts

\* The plan q is p with the recommendation rec, which was made for the
\* finished projection r of p.
With(p, rec) ==
  [p EXCEPT !.supply = SupplyAfter(p, rec), !.policy.demandFirst = TRUE, !.policy.inclusive = TRUE]

Foretold(p, r, rec, q) ==
  /\ p \in Plans /\ r \in Projections /\ q \in Plans
  /\ Dated(p, r) /\ ProjectedTo(p, r, 2 * Horizon)
  /\ rec \in Recommended(p, r)
  /\ q = With(p, rec)

LEMMA WithIsLike ==
  ASSUME NEW p \in Plans, NEW rec, NEW q, q = With(p, rec)
  PROVE  /\ q.opening = p.opening /\ q.demand = p.demand /\ q.supply = SupplyAfter(p, rec)
         /\ q.policy.demandFirst
<1>1. q = [p EXCEPT !.supply = SupplyAfter(p, rec),
                    !.policy = [p.policy EXCEPT !.demandFirst = TRUE, !.inclusive = TRUE]]
  BY DEF With, Plans
<1>2. q.opening = p.opening /\ q.demand = p.demand /\ q.supply = SupplyAfter(p, rec)
      /\ q.policy = [p.policy EXCEPT !.demandFirst = TRUE, !.inclusive = TRUE]
  BY <1>1 DEF Plans
<1>3. [p.policy EXCEPT !.demandFirst = TRUE, !.inclusive = TRUE].demandFirst = TRUE
  BY DEF Plans
<1> QED  BY <1>2, <1>3

\* Before the day of the stockout no balance is below zero.
LEMMA NotYetShort ==
  ASSUME NEW p \in Plans, NEW r, ProjectedTo(p, r, 2 * Horizon), r.stockout \in Days,
         NEW n \in 0..2 * Horizon, n \div 2 < r.stockout
  PROVE  LevelOf(p, n) >= 0
<1> DEFINE events == Stockouts(p, 2 * Horizon)
<1>1. 2 * Horizon \in Nat /\ events \subseteq 0..2 * Horizon /\ n \in Nat /\ r.stockout \in Int
  <2>1. Horizon \in Nat /\ Days \subseteq Int
    BY DayFacts
  <2>2. events \subseteq 0..2 * Horizon
    BY DEF Stockouts
  <2>3. 2 * Horizon \in Nat /\ n \in Nat
    BY <2>1
  <2>4. r.stockout \in Int
    BY <2>1
  <2> QED  BY <2>2, <2>3, <2>4
<1>2. r.stockout = DayOfFirst(events)
  BY DEF ProjectedTo
<1>3. n \notin events
  <2>1. SUFFICES ASSUME n \in events PROVE FALSE
    OBVIOUS
  <2> HIDE DEF events
  <2>2. PICK m \in events : \A k \in events : m <= k
    BY <1>1, <2>1, FirstExists
  <2>3. r.stockout = IF m = 0 THEN 0 ELSE (m - 1) \div 2
    BY <1>1, <1>2, <2>2, FirstDay
  <2>4. m <= n /\ m \in Nat
    BY <1>1, <2>1, <2>2
  <2>5. r.stockout <= n \div 2
    BY <1>1, <2>3, <2>4
  <2> QED  BY <1>1, <2>5
<1>4. LevelOf(p, n) \in Int /\ p.policy.inclusive \in BOOLEAN
  BY LevelSteps, PlanFacts
<1>5. ~ Stockout(p.policy, LevelOf(p, n))
  BY <1>3 DEF Stockouts
<1> QED  BY <1>4, <1>5 DEF Stockout

\* What is short has a stockout day.
LEMMA ShortIsDated ==
  ASSUME NEW p \in Plans, NEW r \in Projections, Dated(p, r), PeakShortage(r) # 0
  PROVE  r.stockout \in Days
<1>1. r.minimum \in Int /\ r.stockout \in Days \union {NoDay} /\ p.policy.inclusive \in BOOLEAN
  BY PlanFacts DEF Projections
<1>2. r.minimum < 0
  BY <1>1 DEF PeakShortage, Greatest
<1>3. Stockout(p.policy, r.minimum)
  BY <1>1, <1>2 DEF Stockout
<1> QED  BY <1>1, <1>3 DEF Dated

\* A rounded order is not smaller.
LEMMA RoundedUp ==
  ASSUME NEW quantity \in Nat
  PROVE  RoundedOrder(quantity) \in Nat /\ RoundedOrder(quantity) >= quantity
<1> DEFINE wanted == Greatest(quantity, MinOrder)
           n == wanted + Multiple - 1
<1>1. Multiple \in Nat \ {0} /\ MinOrder \in Nat
  BY EngineAssumption DEF EngineAssumption
<1>2. wanted \in Nat /\ wanted >= quantity
  BY <1>1 DEF Greatest
<1> HIDE DEF wanted
<1>3. n \in Nat
  BY <1>1, <1>2
<1>4. n = Multiple * (n \div Multiple) + (n % Multiple) /\ n % Multiple \in 0..Multiple - 1 /\ n \div Multiple \in Nat
  <2> HIDE DEF n
  <2> QED  BY <1>1, <1>3
<1>5. (n \div Multiple) * Multiple = Multiple * (n \div Multiple) /\ (n \div Multiple) * Multiple \in Nat
  <2> HIDE DEF n
  <2> QED  BY <1>1, <1>4
<1>6. RoundedOrder(quantity) = (n \div Multiple) * Multiple
  BY DEF RoundedOrder, wanted
<1> DEFINE lots == Multiple * (n \div Multiple)
           rest == n % Multiple
<1>7. lots = wanted + Multiple - 1 - rest /\ rest <= Multiple - 1
  BY <1>1, <1>2, <1>3, <1>4
<1> HIDE DEF lots, rest
<1>8. lots \in Nat /\ rest \in Int
  BY <1>1, <1>4, <1>5 DEF lots, rest
<1>9. lots >= quantity
  BY <1>1, <1>2, <1>7, <1>8
<1> QED  BY <1>5, <1>6, <1>8, <1>9 DEF lots

LEMMA GreatestIsWhole ==
  ASSUME NEW a \in Nat, NEW b \in Int
  PROVE  Greatest(a, b) \in Nat
BY DEF Greatest

\* What the recommendations are made from.
LEMMA RecommendationFacts ==
  ASSUME NEW p \in Plans, NEW r \in Projections, NEW rec \in Recommended(p, r), Dated(p, r)
  PROVE  /\ rec.action \in {"NEW_BUY", "INTERPLANT_TRANSFER"} =>
              /\ rec.quantity \in Nat /\ rec.quantity >= PeakShortage(r)
              /\ rec.proposed \in Nat /\ r.stockout \in Days
         /\ rec.action = "PULL_IN" =>
              /\ rec.supply \in Days /\ r.stockout \in Days /\ rec.supply > r.stockout
              /\ rec.proposed = r.stockout - 1
         /\ rec.action = "CANCEL_REDUCE" =>
              /\ rec.supply \in Days /\ rec.quantity \in Nat /\ rec.quantity <= p.supply[rec.supply]
              /\ rec.quantity <= r.balance
              /\ \A d \in Days : d > rec.supply => p.supply[d] = 0
<1>1. /\ p.supply \in [Days -> Nat] /\ Days \subseteq Nat
      /\ r.minimum \in Int /\ r.balance \in Int /\ r.used \in Nat
      /\ r.stockout \in Days \union {NoDay}
  BY PlanFacts DEF Projections, Days
<1>2. PeakShortage(r) \in Nat
  BY <1>1 DEF PeakShortage, Greatest
<1>3. Lead \in Nat
  BY EngineAssumption DEF EngineAssumption
<1>4. ASSUME rec \in ShortageActions(p, r) PROVE r.stockout \in Days
  BY <1>1, <1>4 DEF ShortageActions
<1>5. ASSUME rec \in ShortageActions(p, r), rec.action = "NEW_BUY"
      PROVE  /\ rec.quantity \in Nat /\ rec.quantity >= PeakShortage(r)
             /\ rec.proposed \in Nat
  <2>1. rec.quantity = RoundedOrder(PeakShortage(r)) /\ rec.proposed = Greatest(Lead, r.stockout - 1)
    BY <1>5 DEF ShortageActions
  <2>2. rec.proposed \in Nat
    <3>1. r.stockout - 1 \in Int
      <4>1. r.stockout \in Nat
        BY <1>1, <1>4, <1>5
      <4> QED  BY <4>1
    <3> QED  BY <1>3, <2>1, <3>1, GreatestIsWhole
  <2> QED  BY <1>2, <2>1, <2>2, RoundedUp
<1>6. ASSUME rec \in ShortageActions(p, r), rec.action = "PULL_IN"
      PROVE  rec.supply \in Days /\ rec.supply > r.stockout /\ rec.proposed = r.stockout - 1
  BY <1>1, <1>6 DEF ShortageActions, Movable
<1>7. ASSUME rec \in ExcessActions(p, r)
      PROVE  /\ rec.action = "CANCEL_REDUCE"
             /\ rec.supply \in Days /\ rec.quantity \in Nat /\ rec.quantity <= p.supply[rec.supply]
             /\ rec.quantity <= r.balance
             /\ \A d \in Days : d > rec.supply => p.supply[d] = 0
  <2>1. PICK s \in Cancellable(p) :
          /\ \A u \in Cancellable(p) : s >= u
          /\ rec = [action |-> "CANCEL_REDUCE", quantity |-> Least(p.supply[s], Excess(r)),
                    supply |-> s, proposed |-> NoDay]
    BY <1>7 DEF ExcessActions
  <2>2. s \in Days /\ p.supply[s] \in Nat /\ s > CancelWindow
    BY <1>1, <2>1 DEF Cancellable
  <2>3. Excess(r) \in Nat /\ Excess(r) <= r.balance
    <3>1. Window \in Nat \ {0} /\ Coverage \in Nat
      BY EngineAssumption DEF EngineAssumption
    <3>2. r.used * Coverage \in Nat
      BY <1>1, <3>1
    <3>3. MaximumInventory(r) \in Nat
      BY <3>1, <3>2 DEF MaximumInventory
    <3>4. Excess(r) # 0
      BY <1>7 DEF ExcessActions
    <3> QED  BY <1>1, <3>3, <3>4 DEF Excess, Greatest
  <2>4. \A d \in Days : d > s => p.supply[d] = 0
    <3>1. SUFFICES ASSUME NEW d \in Days, d > s
                   PROVE  p.supply[d] = 0
      OBVIOUS
    <3>2. d \notin Cancellable(p)
      <4>1. d \in Nat /\ s \in Nat
        BY <1>1, <2>2
      <4> QED  BY <2>1, <3>1, <4>1
    <3>3. CancelWindow \in Nat /\ p.supply[d] \in Nat
      BY <1>1, EngineAssumption DEF EngineAssumption
    <3>4. d > CancelWindow
      BY <1>1, <2>2, <3>1, <3>3
    <3> QED  BY <3>2, <3>3, <3>4 DEF Cancellable
  <2>5. rec.action = "CANCEL_REDUCE" /\ rec.supply = s /\ rec.quantity = Least(p.supply[s], Excess(r))
    BY <2>1
  <2> QED  BY <1>1, <2>2, <2>3, <2>4, <2>5 DEF Least
<1>8. ASSUME rec \in Transfers(r)
      PROVE  /\ rec.action = "INTERPLANT_TRANSFER"
             /\ rec.quantity \in Nat /\ rec.quantity >= PeakShortage(r)
             /\ rec.proposed \in Nat /\ r.stockout \in Days
  <2>1. /\ PeakShortage(r) # 0 /\ rec.action = "INTERPLANT_TRANSFER"
        /\ rec.quantity = PeakShortage(r) /\ rec.proposed = Greatest(0, r.stockout - 2)
    BY <1>8 DEF Transfers
  <2>2. r.stockout \in Days
    BY <2>1, ShortIsDated
  <2>3. r.stockout - 2 \in Int /\ 0 \in Nat
    <3>1. r.stockout \in Nat
      BY <1>1, <2>2
    <3> QED  BY <3>1
  <2>4. rec.proposed \in Nat
    BY <2>1, <2>3, GreatestIsWhole
  <2> QED  BY <1>2, <2>1, <2>2, <2>4
<1>9. rec \in ShortageActions(p, r) => rec.action \in {"NEW_BUY", "PULL_IN"}
  BY DEF ShortageActions
<1>10. rec \in ShortageActions(p, r) \/ rec \in ExcessActions(p, r) \/ rec \in Transfers(r)
  BY DEF Recommended
<1>11. CASE rec \in ShortageActions(p, r)
  BY <1>4, <1>5, <1>6, <1>9, <1>11
<1>12. CASE rec \in ExcessActions(p, r)
  BY <1>7, <1>12
<1>13. CASE rec \in Transfers(r)
  BY <1>8, <1>13
<1> QED  BY <1>10, <1>11, <1>12, <1>13

\* What is bought or transferred before the stockout leaves nothing short.
LEMMA BuyingHelps ==
  ASSUME NEW p, NEW r, NEW rec, NEW q, Foretold(p, r, rec, q), p.policy.demandFirst,
         rec.action \in {"NEW_BUY", "INTERPLANT_TRANSFER"}, rec.proposed < r.stockout,
         NEW n \in 0..2 * Horizon
  PROVE  LevelOf(q, n) >= 0
<1> DEFINE t == rec.proposed
           k == rec.quantity
           change == [d \in 0..Horizon |-> IF d > t THEN k ELSE 0]
<1>1. /\ p \in Plans /\ q \in Plans /\ r \in Projections /\ Dated(p, r)
      /\ ProjectedTo(p, r, 2 * Horizon) /\ rec \in Recommended(p, r) /\ q = With(p, rec)
  BY DEF Foretold
<1>2. /\ k \in Nat /\ k >= PeakShortage(r) /\ t \in Nat /\ r.stockout \in Days
  BY <1>1, RecommendationFacts
<1>3. q.opening = p.opening /\ q.demand = p.demand /\ q.supply = SupplyAfter(p, rec) /\ q.policy.demandFirst
  BY <1>1, WithIsLike
<1>4. p.supply \in [Days -> Nat] /\ Horizon \in Nat /\ Days = 0..Horizon - 1
  BY <1>1, PlanFacts, DayFacts DEF Days
<1>5. change \in [0..Horizon -> Int] /\ change[0] = 0
  <2> HIDE DEF t, k
  <2> QED  BY <1>2, <1>4
<1>6. \A d \in Days : q.supply[d] = p.supply[d] + change[d + 1] - change[d]
  <2>1. SUFFICES ASSUME NEW d \in Days
                 PROVE  q.supply[d] = p.supply[d] + change[d + 1] - change[d]
    OBVIOUS
  <2>2. q.supply[d] = IF d = t THEN p.supply[d] + k ELSE p.supply[d]
    BY <1>3 DEF SupplyAfter
  <2>3. d \in 0..Horizon /\ d + 1 \in 0..Horizon /\ d \in Nat /\ p.supply[d] \in Nat
    BY <1>4
  <2> HIDE DEF t, k
  <2>4. change[d + 1] = (IF d + 1 > t THEN k ELSE 0) /\ change[d] = (IF d > t THEN k ELSE 0)
    BY <2>3
  <2> HIDE DEF change
  <2> QED  BY <1>2, <2>2, <2>3, <2>4
<1> HIDE DEF change
<1>7. LevelOf(q, n) = LevelOf(p, n) + change[n \div 2] /\ n \div 2 \in 0..Horizon
  BY <1>1, <1>3, <1>5, <1>6, LevelsMove, ZenonT(30)
<1>8. LevelOf(p, n) \in Int /\ r.minimum \in Int /\ r.minimum <= LevelOf(p, n)
  BY <1>1, LevelSteps DEF ProjectedTo, Projections
<1>9. change[n \div 2] = IF n \div 2 > t THEN k ELSE 0
  BY <1>7 DEF change
<1>10. CASE n \div 2 > t
  <2>1. LevelOf(q, n) = LevelOf(p, n) + k
    BY <1>7, <1>9, <1>10
  <2> HIDE DEF k
  <2> QED  BY <1>2, <1>8, <2>1 DEF PeakShortage, Greatest
<1>11. CASE ~ (n \div 2 > t)
  <2>1. n \div 2 < r.stockout
    <3> DEFINE h == n \div 2
    <3>1. h \in Int /\ t \in Int /\ r.stockout \in Int /\ ~ (h > t) /\ t < r.stockout
      BY <1>2, <1>4, <1>7, <1>11
    <3> HIDE DEF h, t
    <3>2. h < r.stockout
      BY <3>1
    <3> QED  BY <3>2 DEF h
  <2>2. LevelOf(p, n) >= 0
    BY <1>1, <1>2, <2>1, NotYetShort
  <2> QED  BY <1>7, <1>8, <1>9, <1>11, <2>2
<1> QED  BY <1>10, <1>11

\* What is pulled in to a day of the horizon makes no balance lower.
LEMMA PullingHelps ==
  ASSUME NEW p, NEW r, NEW rec, NEW q, Foretold(p, r, rec, q), p.policy.demandFirst,
         rec.action = "PULL_IN", rec.proposed \in Days,
         NEW n \in 0..2 * Horizon
  PROVE  LevelOf(q, n) >= LevelOf(p, n)
<1> DEFINE t == rec.proposed
           s == rec.supply
           k == p.supply[s]
           change == [d \in 0..Horizon |-> IF d > t /\ d <= s THEN k ELSE 0]
<1>1. /\ p \in Plans /\ q \in Plans /\ r \in Projections /\ Dated(p, r)
      /\ rec \in Recommended(p, r) /\ q = With(p, rec)
  BY DEF Foretold
<1>2. p.supply \in [Days -> Nat] /\ Horizon \in Nat /\ Days = 0..Horizon - 1
  BY <1>1, PlanFacts, DayFacts DEF Days
<1>3. k \in Nat /\ t \in Nat /\ s \in Nat /\ t < s /\ t # s /\ s \in Days /\ t \in Days
  <2>1. s \in Days /\ r.stockout \in Days /\ s > r.stockout /\ t = r.stockout - 1
    BY <1>1, RecommendationFacts
  <2>2. s \in Nat /\ r.stockout \in Nat /\ p.supply[s] \in Nat /\ t \in Nat
    BY <1>2, <2>1
  <2>3. r.stockout - 1 < s
    BY <2>1, <2>2
  <2> QED  BY <2>1, <2>2, <2>3
<1>4. q.opening = p.opening /\ q.demand = p.demand /\ q.supply = SupplyAfter(p, rec) /\ q.policy.demandFirst
  BY <1>1, WithIsLike
<1>5. change \in [0..Horizon -> Int] /\ change[0] = 0
  <2> HIDE DEF t, k, s
  <2> QED  BY <1>2, <1>3
<1>6. \A d \in Days : q.supply[d] = p.supply[d] + change[d + 1] - change[d]
  <2>1. SUFFICES ASSUME NEW d \in Days
                 PROVE  q.supply[d] = p.supply[d] + change[d + 1] - change[d]
    OBVIOUS
  <2>2. q.supply[d] = IF d = s THEN 0 ELSE IF d = t THEN p.supply[d] + k ELSE p.supply[d]
    <3>1. q.supply[d] = CASE d = s -> 0 [] d = t -> p.supply[d] + k [] OTHER -> p.supply[d]
      BY <1>4 DEF SupplyAfter
    <3> HIDE DEF s, t, k
    <3> QED  BY <1>3, <3>1
  <2>3. d \in 0..Horizon /\ d + 1 \in 0..Horizon /\ d \in Nat /\ p.supply[d] \in Nat
    BY <1>2
  <2>4. d = s => p.supply[d] = k
    OBVIOUS
  <2> HIDE DEF t, k, s
  <2>5. /\ change[d + 1] = (IF d + 1 > t /\ d + 1 <= s THEN k ELSE 0)
        /\ change[d] = (IF d > t /\ d <= s THEN k ELSE 0)
    BY <2>3
  <2> HIDE DEF change
  <2>6. CASE d = s
    BY <1>3, <2>2, <2>3, <2>4, <2>5, <2>6
  <2>7. CASE d = t
    BY <1>3, <2>2, <2>3, <2>5, <2>7
  <2>8. CASE d # s /\ d # t
    BY <1>3, <2>2, <2>3, <2>5, <2>8
  <2> QED  BY <2>6, <2>7, <2>8
<1> HIDE DEF change
<1>7. LevelOf(q, n) = LevelOf(p, n) + change[n \div 2] /\ n \div 2 \in 0..Horizon
  BY <1>1, <1>4, <1>5, <1>6, LevelsMove, ZenonT(30)
<1>8. change[n \div 2] \in Nat
  <2> HIDE DEF t, k, s
  <2> QED  BY <1>3, <1>7 DEF change
<1>9. LevelOf(p, n) \in Int
  BY <1>1, LevelSteps
<1> QED  BY <1>7, <1>8, <1>9

\* What is cancelled of an excess leaves nothing short that was not.
LEMMA CancellingIsSafe ==
  ASSUME NEW p, NEW r, NEW rec, NEW q, Foretold(p, r, rec, q), p.policy.demandFirst,
         rec.action = "CANCEL_REDUCE", NEW n \in 0..2 * Horizon
  PROVE  LevelOf(q, n) >= r.minimum \/ LevelOf(q, n) >= 0
<1> DEFINE s == rec.supply
           k == rec.quantity
           change == [d \in 0..Horizon |-> IF d > s THEN -k ELSE 0]
<1>1. /\ p \in Plans /\ q \in Plans /\ r \in Projections /\ Dated(p, r)
      /\ ProjectedTo(p, r, 2 * Horizon) /\ rec \in Recommended(p, r) /\ q = With(p, rec)
  BY DEF Foretold
<1>2. /\ p.supply \in [Days -> Nat] /\ p.demand \in [Days -> Nat] /\ p.opening \in Int
      /\ Horizon \in Nat /\ Days = 0..Horizon - 1
  BY <1>1, PlanFacts, DayFacts DEF Days
<1>3. /\ s \in Days /\ k \in Nat /\ k <= p.supply[s] /\ k <= r.balance /\ s \in Nat /\ r.balance \in Int
      /\ \A d \in Days : d > s => p.supply[d] = 0
  BY <1>1, <1>2, RecommendationFacts DEF Projections
<1>4. q.opening = p.opening /\ q.demand = p.demand /\ q.supply = SupplyAfter(p, rec) /\ q.policy.demandFirst
  BY <1>1, WithIsLike
<1>5. change \in [0..Horizon -> Int] /\ change[0] = 0
  <2> HIDE DEF k, s
  <2> QED  BY <1>2, <1>3
<1>6. \A d \in Days : q.supply[d] = p.supply[d] + change[d + 1] - change[d]
  <2>1. SUFFICES ASSUME NEW d \in Days
                 PROVE  q.supply[d] = p.supply[d] + change[d + 1] - change[d]
    OBVIOUS
  <2>2. q.supply[d] = IF d = s THEN p.supply[d] - k ELSE p.supply[d]
    BY <1>4 DEF SupplyAfter
  <2>3. d \in 0..Horizon /\ d + 1 \in 0..Horizon /\ d \in Nat /\ p.supply[d] \in Nat
    BY <1>2
  <2> HIDE DEF k, s
  <2>4. change[d + 1] = (IF d + 1 > s THEN -k ELSE 0) /\ change[d] = (IF d > s THEN -k ELSE 0)
    BY <2>3
  <2> HIDE DEF change
  <2> QED  BY <1>3, <2>2, <2>3, <2>4
<1> HIDE DEF change
<1>7. LevelOf(q, n) = LevelOf(p, n) + change[n \div 2] /\ n \div 2 \in 0..Horizon
  BY <1>1, <1>4, <1>5, <1>6, LevelsMove, ZenonT(30)
<1>8. LevelOf(p, n) \in Int /\ r.minimum \in Int /\ r.minimum <= LevelOf(p, n)
  BY <1>1, LevelSteps DEF ProjectedTo, Projections
<1>9. change[n \div 2] = IF n \div 2 > s THEN -k ELSE 0
  BY <1>7 DEF change
<1>10. CASE ~ (n \div 2 > s)
  BY <1>7, <1>8, <1>9, <1>10
<1>11. CASE n \div 2 > s
  <2> DEFINE S(d) == TotalBefore(p.supply, d)
             D(d) == TotalBefore(p.demand, d)
  <2>1. /\ \A d \in 0..Horizon : S(d) \in Nat /\ D(d) \in Nat /\ D(d) <= D(Horizon)
        /\ Horizon \in 0..Horizon
    <3>1. Horizon \in 0..Horizon /\ \A d \in 0..Horizon : d <= Horizon
      BY <1>2
    <3>2. \A d \in 0..Horizon : S(d) \in Nat /\ D(d) \in Nat
      BY <1>2, TotalSteps
    <3>3. \A d \in 0..Horizon : D(d) <= D(Horizon)
      BY <1>2, <3>1, TotalGrows
    <3> QED  BY <3>1, <3>2, <3>3
  <2>2. \A d \in 0..Horizon : d > s => S(d) = S(Horizon)
    <3>1. s + 1 \in 0..Horizon /\ \A d \in Days : d >= s + 1 => p.supply[d] = 0
      BY <1>2, <1>3
    <3>2. \A b \in s + 1..Horizon : S(b) = S(s + 1)
      BY <1>2, <3>1, TotalRests
    <3>3. Horizon \in s + 1..Horizon /\ \A d \in 0..Horizon : d > s => d \in s + 1..Horizon
      BY <1>2, <1>3
    <3> HIDE DEF S, s
    <3> QED  BY <1>2, <1>3, <2>1, <3>2, <3>3
  <2>3. LevelOf(p, 2 * Horizon) = p.opening + S(Horizon) - D(Horizon)
    BY <1>1, <2>1, LevelParts
  <2>4. r.balance = LevelOf(p, 2 * Horizon)
    BY <1>1 DEF ProjectedTo
  <2>5. LevelOf(p, n) >= r.balance
    <3>1. CASE \E d \in 0..Horizon : n = 2 * d /\ n \div 2 = d
      <4>1. PICK d \in 0..Horizon : n = 2 * d /\ n \div 2 = d
        BY <3>1
      <4>2. LevelOf(p, n) = p.opening + S(d) - D(d) /\ S(d) = S(Horizon)
        BY <1>1, <1>11, <2>2, <4>1, LevelParts
      <4>3. D(d) <= D(Horizon) /\ D(d) \in Nat /\ D(Horizon) \in Nat /\ S(Horizon) \in Nat
        BY <2>1
      <4> HIDE DEF S, D
      <4> QED  BY <1>2, <2>3, <2>4, <4>2, <4>3
    <3>2. CASE \E d \in Days : n = 2 * d + 1 /\ n \div 2 = d
      <4>1. PICK d \in Days : n = 2 * d + 1 /\ n \div 2 = d
        BY <3>2
      <4>2. d \in 0..Horizon /\ d + 1 \in 0..Horizon
        BY <1>2
      <4>3. LevelOf(p, n) = p.opening + S(d) - D(d + 1) /\ S(d) = S(Horizon)
        BY <1>1, <1>11, <2>2, <4>1, <4>2, LevelParts
      <4>4. D(d + 1) <= D(Horizon) /\ D(d + 1) \in Nat /\ D(Horizon) \in Nat /\ S(Horizon) \in Nat
        BY <2>1, <4>2
      <4> HIDE DEF S, D
      <4> QED  BY <1>2, <2>3, <2>4, <4>3, <4>4
    <3> QED  BY <1>1, <3>1, <3>2, LevelParts
  <2>6. LevelOf(q, n) = LevelOf(p, n) + (-k)
    BY <1>7, <1>9, <1>11
  <2> HIDE DEF k, s, S, D
  <2> QED  BY <1>3, <1>8, <2>5, <2>6
<1> QED  BY <1>10, <1>11

HelpInv ==
  /\ DatesInv
  /\ \A rec \in tried, old \in before : Foretold(old.plan, old.result, rec, plan)

LEMMA InitHelp == Init => HelpInv
  BY InitDates DEF Init, HelpInv

LEMMA NextHelp == HelpInv /\ [Next]_vars => HelpInv'
<1> SUFFICES ASSUME HelpInv, [Next]_vars PROVE HelpInv'
  OBVIOUS
<1>1. DatesInv /\ DatesInv'
  BY NextDates DEF HelpInv
<1>2. SUFFICES \A rec \in tried', old \in before' : Foretold(old.plan, old.result, rec, plan')
  <2> HIDE DEF DatesInv
  <2> QED  BY <1>1, <1>2 DEF HelpInv, Foretold
<1>3. CASE \E rec \in Recommended(plan, result) : Simulate(rec)
  <2>1. PICK rec \in Recommended(plan, result) : Simulate(rec)
    BY <1>3
  <2>2. /\ tried' = {rec} /\ before' = {[plan |-> plan, result |-> result]}
        /\ plan' = With(plan, rec) /\ phase = "done"
    BY <2>1 DEF Simulate, With
  <2>3. Foretold(plan, result, rec, plan')
    <3>1. plan \in Plans /\ result \in Projections /\ Dated(plan, result)
      BY <1>1 DEF DatesInv, EngineInv, TypeOK, Plans, Projections
    <3>2. plan' \in Plans
      BY <1>1 DEF DatesInv, EngineInv, TypeOK, Plans
    <3>3. ProjectedTo(plan, result, 2 * Horizon)
      BY <1>1, <2>2 DEF DatesInv, Moment
    <3> QED  BY <2>2, <3>1, <3>2, <3>3 DEF Foretold
  <2> QED  BY <2>2, <2>3
<1>4. CASE FirstEvent \/ LastEvent \/ Peg \/ UNCHANGED vars
  <2>1. plan' = plan /\ tried' = tried /\ before' = before
    BY <1>4 DEF FirstEvent, LastEvent, Peg, vars
  <2> QED  BY <2>1 DEF HelpInv
<1> QED  BY <1>3, <1>4 DEF Next

\* For every plan with the default order: buying or transferring before the
\* stockout leaves nothing short, pulling in to a day of the horizon makes no
\* balance lower, and cancelling an excess leaves nothing short that was not
\* (recommendations.py:52-71).
THEOREM InterventionsHelp == Spec => []InterventionHelps
<1>1. ASSUME HelpInv PROVE InterventionHelps
  <2>1. SUFFICES ASSUME phase = "done", NEW rec \in tried, NEW old \in before, old.plan.policy.demandFirst
                 PROVE  /\ (rec.action \in {"NEW_BUY", "INTERPLANT_TRANSFER"} /\ rec.proposed < old.result.stockout)
                             => PeakShortage(result) = 0
                        /\ (rec.action = "PULL_IN" /\ rec.proposed \in Days)
                             => result.minimum >= old.result.minimum
                        /\ rec.action = "CANCEL_REDUCE"
                             => PeakShortage(result) <= PeakShortage(old.result)
    BY DEF InterventionHelps
  <2> DEFINE p == old.plan
             r == old.result
  <2>2. Foretold(p, r, rec, plan)
    BY <1>1 DEF HelpInv
  <2>3. PICK n \in 0..2 * Horizon : result.minimum = LevelOf(plan, n)
    <3>1. ProjectedTo(plan, result, 2 * Horizon)
      BY <1>1, <2>1 DEF HelpInv, DatesInv, Moment
    <3> QED  BY <3>1 DEF ProjectedTo
  <2>4. result.minimum \in Int /\ r.minimum \in Int /\ p \in Plans
    BY <1>1, <2>2 DEF HelpInv, DatesInv, EngineInv, TypeOK, Foretold, Projections
  <2>5. r.minimum <= LevelOf(p, n) /\ LevelOf(p, n) \in Int
    BY <2>2, <2>4, LevelSteps DEF Foretold, ProjectedTo
  <2> HIDE DEF p, r
  <2>6. ASSUME rec.action \in {"NEW_BUY", "INTERPLANT_TRANSFER"}, rec.proposed < r.stockout
        PROVE  PeakShortage(result) = 0
    <3>1. LevelOf(plan, n) >= 0
      BY <2>1, <2>2, <2>6, BuyingHelps DEF p
    <3> QED  BY <2>3, <2>4, <3>1 DEF PeakShortage, Greatest
  <2>7. ASSUME rec.action = "PULL_IN", rec.proposed \in Days
        PROVE  result.minimum >= r.minimum
    <3>1. LevelOf(plan, n) >= LevelOf(p, n)
      BY <2>1, <2>2, <2>7, PullingHelps DEF p
    <3> QED  BY <2>3, <2>4, <2>5, <3>1
  <2>8. ASSUME rec.action = "CANCEL_REDUCE"
        PROVE  PeakShortage(result) <= PeakShortage(r)
    <3>1. LevelOf(plan, n) >= r.minimum \/ LevelOf(plan, n) >= 0
      BY <2>1, <2>2, <2>8, CancellingIsSafe DEF p
    <3> QED  BY <2>3, <2>4, <3>1 DEF PeakShortage, Greatest
  <2> QED  BY <2>6, <2>7, <2>8 DEF r
<1>2. Spec => []HelpInv
  BY InitHelp, NextHelp, PTL DEF Spec
<1> QED  BY <1>1, <1>2, PTL

=============================================================================
