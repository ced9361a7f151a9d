----------------------------- MODULE SupplyPlan -----------------------------
(***************************************************************************)
(* What a supply plan is made from, and what is done about it.  The plan   *)
(* of one material is made from its stock, its demand, the delivery of one *)
(* purchase order and the simulated orders; approved overrides and what    *)
(* planners enter by hand lie on top.  A run captures these inputs when it *)
(* is created.  Its recommendation is decided, simulated and, in a demo    *)
(* workspace, executed.  The supplier's delivery updates arrive as events. *)
(*                                                                         *)
(* The projection of PlanningEngine is reduced to the balances that decide *)
(* the recommendation: demand before supply, zero counts as a stockout, no *)
(* safety stock, no maximum coverage.  Day 0 is as_of.                     *)
(***************************************************************************)
EXTENDS Integers, Sequences, FiniteSetsExt

CONSTANTS
  SupplyHorizon,  \* horizon_days
  SupplyDays,     \* bound: the days a delivery is planned for, some beyond the horizon
  StockLevels,    \* bound: what an import may find in stock
  NeedDay,        \* the day of the demand
  PlannedNeed,    \* the demand of each kind of bucket, in order of precedence
  OpenNeed,       \* and of the requirements that are used without a demand plan
  DeliveryQty,    \* what the purchase order delivers
  LotSize,        \* the order multiple of a new buy
  LeadDays,       \* planned_lead_time_days
  Updates,        \* bound: the delivery updates the supplier's system sends
  MaxEntries,     \* bound on what is entered by hand
  MaxInputs,      \* bound on what planners and source systems send
  MaxPlans,       \* bound on planning runs
  MaxScenarios    \* bound on what-if scenarios

ASSUME SupplyAssumption ==
  /\ SupplyHorizon \in Nat \ {0} /\ SupplyDays \subseteq Nat
  /\ StockLevels \subseteq Nat /\ StockLevels # {}
  /\ NeedDay \in 0..SupplyHorizon - 1
  /\ PlannedNeed \in Seq(Nat) /\ {OpenNeed, DeliveryQty, LeadDays} \subseteq Nat
  /\ LotSize \in Nat \ {0}
  /\ {MaxEntries, MaxInputs, MaxPlans, MaxScenarios} \subseteq Nat

VARIABLES
  stock,      \* the newest inventory snapshot
  due,        \* current_due_date of the purchase order's schedule line
  promised,   \* confirmed_delivery_date of the canonical purchase order
  buckets,    \* the demand plan: its kinds of bucket, and whether it is published
  override,   \* the date of an approved override of the delivery, {} without one
  entries,    \* SCMManualDataEntry rows, in the order they were made
  conflicts,  \* entries with an open scm_manual_source_conflict
  open,       \* planners' requests that have not committed yet
  plans,      \* SCMPlanningRun rows with their input snapshots
  scenarios,  \* what-if scenarios
  advice,     \* SCMRecommendation rows
  confirming, \* confirmations that have read the recommendation
  bought,     \* the simulated supply orders
  intents,    \* recommendations with an action intent
  heard,      \* delivery updates that are recorded as ingested
  outbox,     \* events that are not dispatched yet
  sent        \* counts what planners and source systems have sent

supplyVars == <<stock, due, promised, buckets, override, entries, conflicts, open, plans,
                scenarios, advice, confirming, bought, intents, heard, outbox, sent>>

inputVars == <<stock, due, promised, buckets, override, conflicts, heard>>
adviceVars == <<advice, confirming, bought, intents>>

-----------------------------------------------------------------------------
(* The input snapshot.                                                     *)

EntryTypes == {"EXPECTED_DELIVERY_CREATED", "SUPPLY_SCHEDULE_CHANGED", "SUPPLY_QUANTITY_CHANGED",
               "GOODS_RECEIPT_RECORDED", "INVENTORY_CORRECTION_RECORDED", "DEMAND_CREATED",
               "DEMAND_CHANGED"}

\* The entries that correct a row, of which one is in force at a time.
Targeted == {"SUPPLY_SCHEDULE_CHANGED", "SUPPLY_QUANTITY_CHANGED", "DEMAND_CHANGED"}

\* Of buckets that overlap the kind that comes first in the precedence counts.
Normalized(kinds) ==
  IF kinds = {} THEN 0 ELSE PlannedNeed[Min(kinds)]

\* A published plan is authoritative for the material it covers.
BaseDemand ==
  IF buckets.status = "PUBLISHED" THEN Normalized(buckets.kinds) ELSE OpenNeed

Supply(source, day, qty) == [source |-> source, day |-> day, qty |-> qty]

\* The schedule lines: the delivery of the purchase order and the simulated orders.
Scheduled(delivery, orders) ==
  {Supply(<<"po", 0>>, delivery, DeliveryQty)}
    \union {Supply(<<"order", k>>, orders[k].day, orders[k].qty) : k \in DOMAIN orders}

SourceInputs(delivery, orders) ==
  [opening  |-> stock,
   need     |-> BaseDemand,
   supplies |-> Scheduled(IF override = {} THEN delivery ELSE Max(override), orders)]

\* A correction of the purchase order's delivery.
OnDelivery(supplies, Correct(_)) ==
  {IF s.source = <<"po", 0>> THEN Correct(s) ELSE s : s \in supplies}

\* What the entry in position k makes of the inputs under it.
Overlaid(inputs, k, e) ==
  IF e.status # "ACTIVE" THEN inputs
  ELSE CASE e.type = "INVENTORY_CORRECTION_RECORDED" -> [inputs EXCEPT !.opening = e.value]
         [] e.type = "EXPECTED_DELIVERY_CREATED" ->
              [inputs EXCEPT !.supplies = @ \union {Supply(<<"entry", k>>, e.value, LotSize)}]
         [] e.type = "GOODS_RECEIPT_RECORDED" -> [inputs EXCEPT !.opening = @ + e.value]
         [] e.type = "SUPPLY_SCHEDULE_CHANGED" ->
              [inputs EXCEPT !.supplies = OnDelivery(@, LAMBDA s : [s EXCEPT !.day = e.value])]
         [] e.type = "SUPPLY_QUANTITY_CHANGED" ->
              [inputs EXCEPT !.supplies = OnDelivery(@, LAMBDA s : [s EXCEPT !.qty = e.value])]
         [] e.type = "DEMAND_CREATED" -> [inputs EXCEPT !.need = @ + e.value]
         [] e.type = "DEMAND_CHANGED" -> [inputs EXCEPT !.need = e.value]

\* Supply beyond the horizon is left out after the overlays.
InHorizon(inputs) ==
  [inputs EXCEPT !.supplies = {s \in @ : s.day < SupplyHorizon}]

SnapshotOf(made, delivery, orders) ==
  LET overlaid[k \in 0..Len(made)] ==
        IF k = 0 THEN SourceInputs(delivery, orders)
        ELSE Overlaid(overlaid[k - 1], k, made[k])
  IN  InHorizon(overlaid[Len(made)])

InputSnapshot(made) == SnapshotOf(made, due, bought)

-----------------------------------------------------------------------------
(* The plan that is made from it.                                          *)

Balance(inputs, d) ==
  inputs.opening
    + MapThenSumSet(LAMBDA s : s.qty, {s \in inputs.supplies : s.day < d})
    - (IF d >= NeedDay THEN inputs.need ELSE 0)

StockoutDays(inputs) == {d \in 0..SupplyHorizon - 1 : Balance(inputs, d) <= 0}

Shortage(inputs) == Max({0} \union {-Balance(inputs, d) : d \in 0..SupplyHorizon - 1})

Rounded(qty) == ((qty + LotSize - 1) \div LotSize) * LotSize

Advise(run, action, source, day, qty) ==
  [run |-> run, action |-> action, source |-> source, day |-> day, qty |-> qty,
   status |-> "PENDING", version |-> 1]

\* The supply that comes first after the stockout is pulled in, or more is bought.
Advice(run, inputs) ==
  IF StockoutDays(inputs) = {} \/ Shortage(inputs) = 0 THEN <<>>
  ELSE LET first == Min(StockoutDays(inputs))
           later == {s \in inputs.supplies : s.day > first}
       IN IF later # {}
          THEN LET s == CHOOSE s \in later : \A o \in later : s.day <= o.day
               IN <<Advise(run, "PULL_IN", s.source, first - 1, s.qty)>>
          ELSE <<Advise(run, "NEW_BUY", <<"none", 0>>, Max({LeadDays, first - 1}), Rounded(Shortage(inputs)))>>

\* The plan is projected again with the recommendation applied.
Simulated(a) ==
  LET inputs == plans[a.run].inputs
      moved == {IF s.source = a.source THEN [s EXCEPT !.day = a.day] ELSE s : s \in inputs.supplies}
      more == IF a.action = "NEW_BUY" THEN {Supply(<<"simulation", 0>>, a.day, a.qty)} ELSE {}
  IN [inputs EXCEPT !.supplies = {s \in moved \union more : s.day \in 0..SupplyHorizon - 1}]

Resolves(a) == StockoutDays(Simulated(a)) = {}

\* create_run: the snapshot is part of the transaction that creates the run.
NewPlan(inputs, scenario, status) == [inputs |-> inputs, scenario |-> scenario, status |-> status]

\* create_run and execute_run in one transaction.
Planned(run, inputs, scenario) ==
  /\ plans' = Append(plans, NewPlan(inputs, scenario, "COMPLETED"))
  /\ outbox' = outbox \union {[event |-> "completed", run |-> run, day |-> 0]}

-----------------------------------------------------------------------------
(* What planners enter.                                                    *)

\* Sources, the demand plan and approved overrides change without a new run.
Import(level) ==
  /\ level # stock
  /\ stock' = level
  /\ conflicts' = conflicts \union {k \in DOMAIN entries : entries[k].status = "ACTIVE"}
  /\ UNCHANGED <<due, promised, buckets, override, entries, open, plans, scenarios, outbox, heard>>
  /\ UNCHANGED adviceVars

AddBucket(kind) ==
  /\ buckets.status = "DRAFT" /\ kind \notin buckets.kinds
  /\ buckets' = [buckets EXCEPT !.kinds = @ \union {kind}]
  /\ UNCHANGED <<stock, due, promised, override, entries, conflicts, open, plans, scenarios, outbox, heard>>
  /\ UNCHANGED adviceVars

Publish ==
  /\ buckets.status = "DRAFT" /\ buckets.kinds # {}
  /\ buckets' = [buckets EXCEPT !.status = "PUBLISHED"]
  /\ UNCHANGED <<stock, due, promised, override, entries, conflicts, open, plans, scenarios, outbox, heard>>
  /\ UNCHANGED adviceVars

Override(day) ==
  /\ override = {}
  /\ override' = {day}
  /\ UNCHANGED <<stock, due, promised, buckets, entries, conflicts, open, plans, scenarios, outbox, heard>>
  /\ UNCHANGED adviceVars

\* The entry that is in force for the same row, 0 without one.
Prior(type) ==
  LET same == {k \in DOMAIN entries : entries[k].type = type /\ entries[k].status = "ACTIVE"}
  IN IF type \in Targeted /\ same # {} THEN Max(same) ELSE 0

WithStatus(made, k, status) ==
  IF k = 0 THEN made ELSE [made EXCEPT ![k].status = status]

Request(op, row, entry, snapshot) == [op |-> op, row |-> row, entry |-> entry, inputs |-> snapshot]

\* A planner's request: its run sees what it writes itself and what others have
\* committed, and nothing of a request that is still open.
Record(type, value) ==
  /\ Len(entries) + Cardinality({q \in open : q.op = "record"}) < MaxEntries
  /\ Cardinality(open) < 2
  /\ LET e == [type |-> type, value |-> value, status |-> "ACTIVE"]
         made == Append(WithStatus(entries, Prior(type), "SUPERSEDED"), e)
     IN open' = open \union {Request("record", Prior(type), e, InputSnapshot(made))}
  /\ UNCHANGED <<entries, plans, scenarios, outbox>> /\ UNCHANGED inputVars /\ UNCHANGED adviceVars

Void(k) ==
  /\ entries[k].status = "ACTIVE" /\ Cardinality(open) < 2
  /\ open' = open \union
       {Request("void", k, entries[k], InputSnapshot(WithStatus(entries, k, "VOIDED")))}
  /\ UNCHANGED <<entries, plans, scenarios, outbox>> /\ UNCHANGED inputVars /\ UNCHANGED adviceVars

Resolve(k, accept) ==
  /\ k \in conflicts /\ Cardinality(open) < 2
  /\ LET row == IF accept /\ entries[k].status = "ACTIVE" THEN k ELSE 0
     IN open' = open \union
          {Request(IF row = 0 THEN "keep" ELSE "reconcile", k, entries[k],
                   InputSnapshot(WithStatus(entries, row, "RECONCILED")))}
  /\ UNCHANGED <<entries, plans, scenarios, outbox>> /\ UNCHANGED inputVars /\ UNCHANGED adviceVars

\* The rows the request changes have the version it has read.
Unchanged(q) ==
  CASE q.op = "record" -> (q.row # 0 => entries[q.row].status = "ACTIVE")
    [] q.op = "void" -> entries[q.row].status = "ACTIVE"
    [] q.op = "reconcile" -> entries[q.row].status = "ACTIVE" /\ q.row \in conflicts
    [] q.op = "keep" -> q.row \in conflicts

Written(q) ==
  CASE q.op = "record" -> Append(WithStatus(entries, q.row, "SUPERSEDED"), q.entry)
    [] q.op = "void" -> WithStatus(entries, q.row, "VOIDED")
    [] q.op = "reconcile" -> WithStatus(entries, q.row, "RECONCILED")
    [] q.op = "keep" -> entries

Commit(q) ==
  /\ Len(plans) < MaxPlans
  /\ Unchanged(q)
  /\ entries' = Written(q)
  /\ conflicts' = IF q.op \in {"reconcile", "keep"} THEN conflicts \ {q.row} ELSE conflicts
  /\ plans' = Append(plans, NewPlan(q.inputs, 0, "QUEUED"))
  /\ open' = open \ {q}
  /\ UNCHANGED <<stock, due, promised, buckets, override, scenarios, outbox, heard>>
  /\ UNCHANGED adviceVars

\* Another request was faster: everything is rolled back.
Conflict(q) ==
  /\ ~Unchanged(q)
  /\ open' = open \ {q}
  /\ UNCHANGED <<entries, plans, scenarios, outbox>> /\ UNCHANGED inputVars /\ UNCHANGED adviceVars

-----------------------------------------------------------------------------
(* Runs and scenarios.                                                     *)

TriggerRun ==
  /\ Len(plans) < MaxPlans
  /\ plans' = Append(plans, NewPlan(InputSnapshot(entries), 0, "QUEUED"))
  /\ UNCHANGED <<entries, open, scenarios, outbox>> /\ UNCHANGED inputVars /\ UNCHANGED adviceVars

ExecuteRun(r) ==
  /\ plans[r].status = "QUEUED"
  /\ plans' = [plans EXCEPT ![r].status = "COMPLETED"]
  /\ advice' = advice \o Advice(r, plans[r].inputs)
  /\ outbox' = outbox \union {[event |-> "completed", run |-> r, day |-> 0]}
  /\ UNCHANGED <<entries, open, scenarios, confirming, bought, intents>> /\ UNCHANGED inputVars

\* _latest_run does not ask whether the run was one of a scenario.
CreateScenario(r, level) ==
  /\ Len(scenarios) < MaxScenarios
  /\ plans[r].status = "COMPLETED"
  /\ scenarios' = Append(scenarios, [baseline |-> r, inventory |-> level])
  /\ UNCHANGED <<entries, open, plans, outbox>> /\ UNCHANGED inputVars /\ UNCHANGED adviceVars

\* The baseline's snapshot is copied and overridden.
ScenarioInputs(s) ==
  [plans[scenarios[s].baseline].inputs EXCEPT !.opening = scenarios[s].inventory]

RunScenario(s) ==
  /\ Len(plans) < MaxPlans
  /\ LET inputs == ScenarioInputs(s)
     IN /\ Planned(Len(plans) + 1, inputs, s)
        /\ advice' = advice \o Advice(Len(plans) + 1, inputs)
  /\ UNCHANGED <<entries, open, scenarios, confirming, bought, intents>> /\ UNCHANGED inputVars

-----------------------------------------------------------------------------
(* Recommendations.                                                        *)

Marked(a, status) == [advice EXCEPT ![a].status = status, ![a].version = @ + 1]

\* An accepted recommendation is proposed as an action, once.
Decide(a, decision) ==
  /\ advice[a].status = "PENDING"
  /\ advice' = Marked(a, decision)
  /\ intents' = IF decision = "ACCEPTED" THEN intents \union {a} ELSE intents
  /\ UNCHANGED <<entries, open, plans, scenarios, confirming, bought, outbox>> /\ UNCHANGED inputVars

\* create-action accepts whatever the status was.
CreateAction(a) ==
  /\ Resolves(advice[a])
  /\ advice' = Marked(a, "ACCEPTED")
  /\ intents' = intents \union {a}
  /\ UNCHANGED <<entries, open, plans, scenarios, confirming, bought, outbox>> /\ UNCHANGED inputVars

ReadAccepted(a) ==
  /\ advice[a].status = "ACCEPTED" /\ Resolves(advice[a])
  /\ [row |-> a, version |-> advice[a].version] \notin confirming
  /\ confirming' = confirming \union {[row |-> a, version |-> advice[a].version]}
  /\ UNCHANGED <<entries, open, plans, scenarios, advice, bought, intents, outbox>> /\ UNCHANGED inputVars

\* Mutant: a supply order may repeat the source record of another.
OrderableTwice(a) == TRUE

\* uq_scm_supply_order_source: the source record of the order is the recommendation.
Orderable(a) ==
  \A k \in DOMAIN bought : bought[k].advice # a

Executable(c) ==
  /\ advice[c.row].version = c.version
  /\ CASE advice[c.row].action = "NEW_BUY" -> Orderable(c.row)
       [] OTHER -> advice[c.row].source[1] \in {"po", "order"}

\* The source row is changed, and the plan is made again in the same transaction.
ConfirmExecution(c) ==
  /\ Len(plans) < MaxPlans
  /\ Executable(c)
  /\ LET a == advice[c.row]
         run == Len(plans) + 1
         delivery == IF a.source[1] = "po" THEN a.day ELSE due
         orders == CASE a.action = "NEW_BUY" ->
                          Append(bought, [advice |-> c.row, day |-> a.day, qty |-> a.qty])
                     [] a.source[1] = "order" -> [bought EXCEPT ![a.source[2]].day = a.day]
                     [] OTHER -> bought
         inputs == SnapshotOf(entries, delivery, orders)
     IN /\ due' = delivery
        /\ bought' = orders
        /\ Planned(run, inputs, 0)
        /\ advice' = Marked(c.row, "EXECUTED_SIMULATION") \o Advice(run, inputs)
  /\ confirming' = confirming \ {c}
  /\ UNCHANGED <<stock, promised, buckets, override, entries, conflicts, open, scenarios, intents, heard>>

ConfirmFails(c) ==
  /\ ~Executable(c)
  /\ confirming' = confirming \ {c}
  /\ UNCHANGED <<entries, open, plans, scenarios, advice, bought, intents, outbox>> /\ UNCHANGED inputVars

-----------------------------------------------------------------------------
(* Events.                                                                 *)

\* A source record that was ingested before changes nothing.
DeliveryUpdate(u) ==
  /\ u \notin heard
  /\ heard' = heard \union {u}
  /\ promised' = u.day
  /\ outbox' = outbox \union {[event |-> "rescheduled", run |-> u.id, day |-> u.day]}
  /\ UNCHANGED <<stock, due, buckets, override, conflicts, entries, open, plans, scenarios>>
  /\ UNCHANGED adviceVars

Rescheduled(e) ==
  /\ e.event = "rescheduled" /\ Len(plans) < MaxPlans
  /\ LET run == Len(plans) + 1
         inputs == SnapshotOf(entries, e.day, bought)
     IN /\ plans' = Append(plans, NewPlan(inputs, 0, "COMPLETED"))
        /\ advice' = advice \o Advice(run, inputs)
        /\ outbox' = (outbox \ {e}) \union {[event |-> "completed", run |-> run, day |-> 0]}
  /\ due' = e.day
  /\ UNCHANGED <<stock, promised, buckets, override, conflicts, heard, entries, open, scenarios>>
  /\ UNCHANGED <<confirming, bought, intents>>

\* A stockout no action was found for: a later delivery, as it is now, is rescheduled.
Intervention(r) ==
  LET days == StockoutDays(plans[r].inputs)
      later == {s \in Scheduled(due, bought) : s.day > Min(days)}
  IN IF days = {} \/ later = {} THEN <<>>
     ELSE LET s == CHOOSE s \in later : \A o \in later : s.day <= o.day
          IN <<Advise(r, "RESCHEDULE_PURCHASE_ORDER", s.source, Min(days) - 1, s.qty)>>

\* The run's recommendation is proposed as an action on the purchase order,
\* whether or not the run was one of a scenario.
PlanCompleted(e) ==
  /\ e.event = "completed"
  /\ LET own == {a \in DOMAIN advice : advice[a].run = e.run}
         more == IF own = {} THEN Intervention(e.run) ELSE <<>>
     IN /\ advice' = advice \o more
        /\ intents' = intents \union
             (IF own # {} THEN {Min(own)} ELSE IF more # <<>> THEN {Len(advice) + 1} ELSE {})
  /\ outbox' = outbox \ {e}
  /\ UNCHANGED <<entries, open, plans, scenarios, confirming, bought>> /\ UNCHANGED inputVars

-----------------------------------------------------------------------------

SupplyInit ==
  /\ stock = Min(StockLevels) /\ due = Max(SupplyDays) /\ promised = due
  /\ buckets = [status |-> "DRAFT", kinds |-> {}]
  /\ override = {} /\ entries = <<>> /\ conflicts = {} /\ open = {}
  /\ plans = <<>> /\ scenarios = <<>>
  /\ advice = <<>> /\ confirming = {} /\ bought = <<>> /\ intents = {}
  /\ heard = {} /\ outbox = {} /\ sent = 0

\* What comes from outside.
Outside ==
  \/ \E level \in StockLevels : Import(level)
  \/ \E kind \in DOMAIN PlannedNeed : AddBucket(kind)
  \/ Publish
  \/ \E d \in SupplyDays : Override(d)
  \/ \E t \in EntryTypes : \E v \in IF t \in {"EXPECTED_DELIVERY_CREATED", "SUPPLY_SCHEDULE_CHANGED"}
                                     THEN SupplyDays ELSE StockLevels : Record(t, v)
  \/ \E k \in DOMAIN entries : Void(k) \/ (\E accept \in BOOLEAN : Resolve(k, accept))
  \/ TriggerRun
  \/ \E r \in DOMAIN plans, level \in StockLevels : CreateScenario(r, level)
  \/ \E s \in DOMAIN scenarios : RunScenario(s)
  \/ \E a \in DOMAIN advice : (\E d \in {"ACCEPTED", "REJECTED"} : Decide(a, d)) \/ CreateAction(a)
  \/ \E u \in Updates : DeliveryUpdate(u)

Inside ==
  \/ \E q \in open : Commit(q) \/ Conflict(q)
  \/ \E r \in DOMAIN plans : ExecuteRun(r)
  \/ \E a \in DOMAIN advice : ReadAccepted(a)
  \/ \E c \in confirming : ConfirmExecution(c) \/ ConfirmFails(c)
  \/ \E e \in outbox : Rescheduled(e) \/ PlanCompleted(e)

SupplyNext ==
  \/ sent < MaxInputs /\ sent' = sent + 1 /\ Outside
  \/ sent' = sent /\ Inside

SupplySpec == SupplyInit /\ [][SupplyNext]_supplyVars

-----------------------------------------------------------------------------

\* A recommendation to buy is bought at most once, however often it is
\* accepted again and confirmed.
BoughtOnce ==
  \A j, k \in DOMAIN bought : j # k => bought[j].advice # bought[k].advice

\* Running a scenario sends no action: an intent nobody has decided on comes
\* from a run of the operational plan.
ScenariosSendNothing ==
  \A a \in intents : advice[a].status = "PENDING" => plans[advice[a].run].scenario = 0

\* When nothing is under way, a completed plan shows every entry in force.
EntriesArePlanned ==
  open = {} /\ (\A r \in DOMAIN plans : plans[r].status = "COMPLETED") /\ entries # <<>>
  => \E r \in DOMAIN plans : plans[r].scenario = 0 /\ plans[r].inputs = InputSnapshot(entries)

=============================================================================
