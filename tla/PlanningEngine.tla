--------------------------- MODULE PlanningEngine ---------------------------
(***************************************************************************)
(* The deterministic plan of one material: the balance is projected over   *)
(* the horizon event by event, demand is pegged to supply first in first   *)
(* out, shortage and excess windows are collapsed from the days, actions   *)
(* are recommended, and one of them is simulated by planning again.        *)
(*                                                                         *)
(* Days count from as_of.  The events of a day that go in one direction    *)
(* are one quantity: the balance is monotone over them, so they reach the  *)
(* same extremes, and pegging takes them without a gap.  A quantity of     *)
(* zero is no event, and projecting it changes nothing but the position.   *)
(***************************************************************************)
EXTENDS Integers, Sequences

CONSTANTS
  Horizon,       \* policy.horizon_days
  Quantities,    \* bound: what a day may supply or demand
  Openings,      \* bound: the available quantities a plan may start with
  Policies,      \* the rules and the freshness a plan may be made under
  CriticalDays,  \* a stockout that is no further away is CRITICAL
  RedDays,       \* and one that is no further away than this is RED
  Fence,         \* planning_time_fence_days
  Lead,          \* planned_lead_time_days
  MinOrder,      \* minimum_order_qty
  Multiple,      \* order_multiple
  Window,        \* average_demand_window_days
  Coverage,      \* maximum_coverage_days
  CancelWindow,  \* cancellation_window_days
  NoDay          \* None

Days == 0..Horizon - 1

ASSUME EngineAssumption ==
  /\ Horizon \in Nat \ {0}
  /\ Quantities \subseteq Nat
  /\ Openings \subseteq Int
  /\ Policies \subseteq [safety : Nat, demandFirst : BOOLEAN, inclusive : BOOLEAN, stale : BOOLEAN]
  /\ {CriticalDays, RedDays, Fence, Lead, MinOrder, CancelWindow} \subseteq Nat
  /\ {Multiple, Window, Coverage} \subseteq Nat \ {0}
  /\ Coverage % Window = 0
  /\ NoDay \notin Int

VARIABLES
  plan,     \* the input: opening quantity, policy, demand and supply per day
  phase,    \* "project", "peg" or "done"
  day,      \* the day that is projected or pegged
  half,     \* which of the two events of the day is next
  result,   \* the projection of PlanningResult, as far as it is known
  pegging,  \* its pegs and uncovered demand, and the supply that is left
  tried,    \* the recommendation that is simulated, {} without one
  before    \* what the plan it was made for came to, {} without one

vars == <<plan, phase, day, half, result, pegging, tried, before>>

-----------------------------------------------------------------------------
(* Projection.                                                             *)

Least(a, b) == IF a <= b THEN a ELSE b
Greatest(a, b) == IF a >= b THEN a ELSE b

\* The opening inventory is the supply of the day before the horizon.
Opening == -1

\* Mutant: the opening inventory is used last.
OpeningLast == [i \in 1..Horizon |-> i - 1] \o <<Opening>>

Supplies == <<Opening>> \o [i \in 1..Horizon |-> i - 1]

\* Mutant: an empty stock is only a stockout when it is owed.
StockoutBelowZero(policy, balance) == balance < 0

Stockout(policy, balance) == IF policy.inclusive THEN balance <= 0 ELSE balance < 0

Start(p) ==
  [balance   |-> p.opening,
   minimum   |-> p.opening,
   breach    |-> IF p.opening < p.policy.safety THEN 0 ELSE NoDay,
   stockout  |-> IF Stockout(p.policy, p.opening) THEN 0 ELSE NoDay,
   recovery  |-> NoDay,
   used      |-> 0,
   closing   |-> <<>>]

StartPegging(p) ==
  [left      |-> [s \in Days \union {Opening} |-> IF s = Opening THEN p.opening ELSE p.supply[s]],
   pegs      |-> {},
   uncovered |-> {}]

\* Mutant: the policy's order within a day is ignored.
SupplyFirst(p, d, h) == IF h = 1 THEN p.supply[d] ELSE -p.demand[d]

Change(p, d, h) ==
  IF (h = 1) = p.policy.demandFirst THEN -p.demand[d] ELSE p.supply[d]

\* The balance becomes now on day d; demand of the averaging window adds up.
After(p, r, d, now) ==
  [balance  |-> now,
   minimum  |-> Least(r.minimum, now),
   used     |-> IF d < Window /\ now < r.balance THEN r.used + r.balance - now ELSE r.used,
   breach   |-> IF r.breach = NoDay /\ now < p.policy.safety THEN d ELSE r.breach,
   stockout |-> IF r.stockout = NoDay /\ Stockout(p.policy, now) THEN d ELSE r.stockout,
   recovery |-> IF r.recovery = NoDay /\ r.stockout # NoDay /\ now > p.policy.safety
                THEN d ELSE r.recovery,
   closing  |-> r.closing]

FirstEvent ==
  /\ phase = "project" /\ half = 1
  /\ result' = After(plan, result, day, result.balance + Change(plan, day, 1))
  /\ half' = 2
  /\ UNCHANGED <<plan, phase, day, pegging, tried, before>>

LastEvent ==
  /\ phase = "project" /\ half = 2
  /\ LET r == After(plan, result, day, result.balance + Change(plan, day, 2))
     IN result' = [r EXCEPT !.closing = Append(@, r.balance)]
  /\ half' = 1
  /\ IF day = Horizon - 1
     THEN phase' = "peg" /\ day' = 0
     ELSE phase' = phase /\ day' = day + 1
  /\ UNCHANGED <<plan, pegging, tried, before>>

-----------------------------------------------------------------------------
(* Pegging.                                                                *)

Take(taken, available) == available - taken

\* One demand takes what it still needs from one supply.
Allocate(d, s, so) ==
  LET taken == IF so.left[s] <= 0 THEN 0 ELSE Least(so.left[s], so.need)
  IN [left |-> [so.left EXCEPT ![s] = IF taken = 0 THEN @ ELSE Take(taken, @)],
      need |-> so.need - taken,
      pegs |-> IF taken = 0 THEN so.pegs ELSE so.pegs \union {<<s, d, taken>>}]

\* The demand of a day asks the supplies one after the other.
AllocateAll(d, start) ==
  LET upto[n \in 0..Len(Supplies)] ==
        IF n = 0 THEN start ELSE Allocate(d, Supplies[n], upto[n - 1])
  IN upto[Len(Supplies)]

Peg ==
  /\ phase = "peg"
  /\ LET so == AllocateAll(day, [left |-> pegging.left, need |-> plan.demand[day],
                                 pegs |-> pegging.pegs])
     IN pegging' = [left      |-> so.left,
                    pegs      |-> so.pegs,
                    uncovered |-> IF so.need = 0 THEN pegging.uncovered
                                  ELSE pegging.uncovered \union {<<day, so.need>>}]
  /\ IF day = Horizon - 1
     THEN phase' = "done" /\ day' = 0
     ELSE phase' = phase /\ day' = day + 1
  /\ UNCHANGED <<plan, half, result, tried, before>>

-----------------------------------------------------------------------------
(* Severity and windows.                                                   *)

Severity(p, r) ==
  CASE p.policy.stale -> "UNKNOWN"
    [] ~p.policy.stale /\ r.stockout = NoDay -> IF r.breach = NoDay THEN "GREEN" ELSE "YELLOW"
    [] OTHER -> IF r.stockout <= CriticalDays THEN "CRITICAL"
                ELSE IF r.stockout <= RedDays THEN "RED" ELSE "ORANGE"

\* The windows that are complete when day d is not part of one.
WindowsUntil(open, d, least) ==
  IF open.from = NoDay \/ d - open.from < least THEN open.found
  ELSE Append(open.found, [from |-> open.from, to |-> d - 1])

\* Consecutive days with a mark, at least that many of them.
CollapseDays(marked, least) ==
  LET upto[d \in 0..Len(marked)] ==
        IF d = 0 THEN [found |-> <<>>, from |-> NoDay]
        ELSE IF marked[d]
        THEN [upto[d - 1] EXCEPT !.from = IF @ = NoDay THEN d ELSE @]
        ELSE [found |-> WindowsUntil(upto[d - 1], d, least), from |-> NoDay]
  IN upto[Len(marked)]

Windows(marked, least) ==
  WindowsUntil(CollapseDays(marked, least), Len(marked) + 1, least)

ShortDay(p, balance) == balance <= 0 \/ balance < p.policy.safety

ShortageWindows(p, r) ==
  Windows([i \in DOMAIN r.closing |-> ShortDay(p, r.closing[i])], 1)

\* The stock that covers the configured number of average days.
MaximumInventory(r) == (r.used * Coverage) \div Window

ExcessWindows(r) ==
  Windows([i \in DOMAIN r.closing |-> r.closing[i] > MaximumInventory(r)], 2)

\* A risk and a case are made for the material.
RaisesRisk(p, r) ==
  Severity(p, r) \notin {"GREEN", "UNKNOWN"} /\ ShortageWindows(p, r) # <<>>

-----------------------------------------------------------------------------
(* Recommendations and their simulation.                                   *)

PeakShortage(r) == Greatest(-r.minimum, 0)

\* Mutant: rounds to the lot size below.
RoundedDown(quantity) == (Greatest(quantity, MinOrder) \div Multiple) * Multiple

RoundedOrder(quantity) ==
  LET wanted == Greatest(quantity, MinOrder)
  IN ((wanted + Multiple - 1) \div Multiple) * Multiple

Movable(p, r) == {s \in Days : p.supply[s] > 0 /\ s > r.stockout /\ s > Fence}

ShortageActions(p, r) ==
  IF r.stockout = NoDay \/ PeakShortage(r) = 0 THEN {}
  ELSE IF Movable(p, r) = {}
  THEN {[action |-> "NEW_BUY", quantity |-> RoundedOrder(PeakShortage(r)), supply |-> NoDay,
         proposed |-> Greatest(Lead, r.stockout - 1)]}
  ELSE {[action |-> "PULL_IN", quantity |-> Least(p.supply[s], PeakShortage(r)), supply |-> s,
         proposed |-> r.stockout - 1] :
           s \in {t \in Movable(p, r) : \A u \in Movable(p, r) : t <= u}}

Excess(r) == Greatest(r.balance - MaximumInventory(r), 0)

Cancellable(p) == {s \in Days : p.supply[s] > 0 /\ s > CancelWindow}

\* A push-out has no proposed date: its simulation changes nothing.
ExcessActions(p, r) ==
  IF Excess(r) = 0 THEN {}
  ELSE {[action |-> "CANCEL_REDUCE", quantity |-> Least(p.supply[s], Excess(r)), supply |-> s,
         proposed |-> NoDay] :
           s \in {t \in Cancellable(p) : \A u \in Cancellable(p) : t >= u}}

\* The run adds the stock of another plant, also to a plan from stale data.
Transfers(r) ==
  IF PeakShortage(r) = 0 THEN {}
  ELSE {[action |-> "INTERPLANT_TRANSFER", quantity |-> PeakShortage(r), supply |-> NoDay,
         proposed |-> Greatest(0, r.stockout - 2)]}

Recommended(p, r) ==
  (IF p.policy.stale THEN {} ELSE ShortageActions(p, r) \union ExcessActions(p, r))
    \union Transfers(r)

\* What arrives on a day before as_of or after the horizon is dropped.
SupplyAfter(p, rec) ==
  [d \in Days |->
     CASE rec.action = "PULL_IN" /\ d = rec.supply -> 0
       [] rec.action = "PULL_IN" /\ d = rec.proposed -> p.supply[d] + p.supply[rec.supply]
       [] rec.action = "CANCEL_REDUCE" /\ d = rec.supply -> p.supply[d] - rec.quantity
       [] rec.action \in {"NEW_BUY", "INTERPLANT_TRANSFER"} /\ d = rec.proposed ->
            p.supply[d] + rec.quantity
       [] OTHER -> p.supply[d]]

\* The simulation only keeps the safety stock of the policy.
Simulate(rec) ==
  /\ phase = "done" /\ tried = {}
  /\ rec \in Recommended(plan, result)
  /\ tried' = {rec}
  /\ before' = {[plan |-> plan, result |-> result]}
  /\ plan' = [plan EXCEPT !.supply = SupplyAfter(plan, rec),
                          !.policy.demandFirst = TRUE, !.policy.inclusive = TRUE]
  /\ result' = Start(plan')
  /\ pegging' = StartPegging(plan')
  /\ phase' = "project"
  /\ UNCHANGED <<day, half>>

-----------------------------------------------------------------------------

Init ==
  /\ plan \in [opening : Openings, policy : Policies,
               demand : [Days -> Quantities], supply : [Days -> Quantities]]
  /\ phase = "project"
  /\ day = 0
  /\ half = 1
  /\ result = Start(plan)
  /\ pegging = StartPegging(plan)
  /\ tried = {}
  /\ before = {}

Next ==
  \/ FirstEvent
  \/ LastEvent
  \/ Peg
  \/ \E rec \in Recommended(plan, result) : Simulate(rec)

Spec == Init /\ [][Next]_vars

-----------------------------------------------------------------------------
(* What the plan promises.                                                 *)

TypeOK ==
  /\ plan \in [opening : Int, demand : [Days -> Nat], supply : [Days -> Nat],
               policy : [safety : Nat, demandFirst : BOOLEAN, inclusive : BOOLEAN, stale : BOOLEAN]]
  /\ phase \in {"project", "peg", "done"}
  /\ day \in Days /\ half \in 1..2
  /\ result \in [balance : Int, minimum : Int, used : Nat,
                 breach : Days \union {NoDay}, stockout : Days \union {NoDay},
                 recovery : Days \union {NoDay}, closing : Seq(Int)]

\* What the days before day d bring or take together.
TotalBefore(quantity, d) ==
  LET upto[n \in 0..d] == IF n = 0 THEN 0 ELSE upto[n - 1] + quantity[n - 1]
  IN upto[d]

\* The balance after n events of the horizon, from the totals up to there.
LevelOf(p, n) ==
  LET d == n \div 2
  IN p.opening + TotalBefore(p.supply, d) - TotalBefore(p.demand, d)
       + IF n % 2 = 0 THEN 0
         ELSE IF p.policy.demandFirst THEN -p.demand[d] ELSE p.supply[d]

Level(n) == LevelOf(plan, n)

\* The day of the first of these events; the opening counts as day 0.
DayOfFirst(events) ==
  IF events = {} THEN NoDay
  ELSE LET n == CHOOSE n \in events : \A m \in events : n <= m
       IN IF n = 0 THEN 0 ELSE (n - 1) \div 2

\* The dates a plan reports are those of the first moment, within a day too, at
\* which the balance is below the safety stock, out of stock, and after that
\* stockout above the safety stock again (engine.py:227-252).
DatesAreFirst ==
  phase = "done" =>
    LET moments == 0..2 * Horizon
        out == {n \in moments : Stockout(plan.policy, Level(n))}
    IN /\ result.breach = DayOfFirst({n \in moments : Level(n) < plan.policy.safety})
       /\ result.stockout = DayOfFirst(out)
       /\ result.recovery =
            DayOfFirst({n \in moments : /\ \E m \in out : m < n
                                        /\ Level(n) > plan.policy.safety})

\* A date is reported exactly when the lowest balance of the plan crosses the
\* threshold, so what is short has a stockout date: service.py:393 subtracts
\* days from it without asking.
DatesFollowMinimum ==
  /\ result.breach # NoDay <=> result.minimum < plan.policy.safety
  /\ result.stockout # NoDay <=> Stockout(plan.policy, result.minimum)
  /\ PeakShortage(result) > 0 => result.stockout # NoDay

\* Under the default policy a material that ends a day short raises a risk: no
\* plan is GREEN with a shortage window.  And a risk is not raised for what is
\* only short within a day (risks.py:64-70).
NoSilentShortage ==
  (phase = "done" /\ plan.policy.inclusive /\ ~plan.policy.stale) =>
    (RaisesRisk(plan, result) <=>
       \E i \in DOMAIN result.closing : ShortDay(plan, result.closing[i]))

\* The windows of a plan are its longest stretches of days with a mark, in
\* order, each of at least the given length (engine.py:297-338).
AreStretches(windows, marked, least) ==
  /\ {windows[i] : i \in DOMAIN windows} =
       {w \in [from : DOMAIN marked, to : DOMAIN marked] :
          /\ w.to - w.from + 1 >= least
          /\ \A d \in w.from..w.to : marked[d]
          /\ w.from > 1 => ~marked[w.from - 1]
          /\ w.to < Len(marked) => ~marked[w.to + 1]}
  /\ \A i, j \in DOMAIN windows : i < j => windows[i].to < windows[j].from

WindowsAreStretches ==
  phase = "done" =>
    /\ AreStretches(ShortageWindows(plan, result),
                    [i \in DOMAIN result.closing |-> ShortDay(plan, result.closing[i])], 1)
    /\ AreStretches(ExcessWindows(result),
                    [i \in DOMAIN result.closing |-> result.closing[i] > MaximumInventory(result)], 2)

\* What a plan shows of its shortages: a risk exactly for a day that ends
\* short, and windows that are the whole stretches of such days.
ShortagesAreShown == NoSilentShortage /\ WindowsAreStretches

\* First in, first out: laid end to end, supplies and demands are pegged where
\* they overlap, and what reaches beyond the last supply is uncovered
\* (engine.py:188-208).
PegsAreFifo ==
  phase = "done" =>
    LET SupplyUpTo(s) == Greatest(plan.opening, 0) + TotalBefore(plan.supply, s + 1)
        SupplyFrom(s) == IF s = Opening THEN 0 ELSE SupplyUpTo(s - 1)
        DemandUpTo(d) == TotalBefore(plan.demand, d + 1)
        Overlap(from, to, d) == Least(to, DemandUpTo(d)) - Greatest(from, DemandUpTo(d - 1))
        all == SupplyUpTo(Horizon - 1)
    IN /\ pegging.pegs =
            {peg \in {<<s, d, Overlap(SupplyFrom(s), SupplyUpTo(s), d)>> :
                        s \in Days \union {Opening}, d \in Days} : peg[3] > 0}
       /\ pegging.uncovered =
            {rest \in {<<d, Overlap(all, DemandUpTo(Horizon - 1), d)>> : d \in Days} : rest[2] > 0}

\* Pegging ignores dates.  It agrees with the projection nevertheless: the plan
\* falls short of zero exactly when a demand is pegged to a supply that comes
\* after it, or to none.
LatePegsAreShortages ==
  (phase = "done" /\ plan.opening >= 0) =>
    (PeakShortage(result) > 0 <=>
       \/ pegging.uncovered # {}
       \/ \E peg \in pegging.pegs :
            \/ peg[1] > peg[2]
            \/ peg[1] = peg[2] /\ plan.policy.demandFirst)

\* The pegs are those of first in, first out, and the late or missing ones
\* among them are the shortages of the projection.
PeggingAgrees == PegsAreFifo /\ LatePegsAreShortages

\* The simulation of a recommendation for a plan with the default order: what
\* is bought or transferred before the stockout leaves nothing short, what is
\* pulled in to a day of the horizon makes no balance lower, and cancelling an
\* excess leaves nothing short that was not (recommendations.py:52-71).
InterventionHelps ==
  phase = "done" =>
    \A rec \in tried : \A old \in before :
      old.plan.policy.demandFirst =>
        /\ (rec.action \in {"NEW_BUY", "INTERPLANT_TRANSFER"} /\ rec.proposed < old.result.stockout)
             => PeakShortage(result) = 0
        /\ (rec.action = "PULL_IN" /\ rec.proposed \in Days)
             => result.minimum >= old.result.minimum
        /\ rec.action = "CANCEL_REDUCE"
             => PeakShortage(result) <= PeakShortage(old.result)

-----------------------------------------------------------------------------
(* What the documents promise and the code does not keep.                  *)

\* control-tower-foundation.md: pulling supply forward "can reduce/resolve
\* shortage".  A stockout on the first day proposes the day before it, which
\* the planner drops.
PullInHelps ==
  phase = "done" =>
    \A rec \in tried : \A old \in before :
      (rec.action = "PULL_IN" /\ old.plan.policy.demandFirst) =>
        result.minimum >= old.result.minimum

\* What a run marks as resolving the full shortage covers it (recommendations.py:30).
\* The simulation does not agree: it brings the balance to zero, a stockout.
BuyingResolves ==
  phase = "done" =>
    \A rec \in tried : \A old \in before :
      (rec.action = "NEW_BUY" /\ rec.proposed < old.result.stockout) => result.stockout = NoDay

\* test_scm_engine.py: a stale source suppresses actions.  The run adds the
\* transfer from another plant all the same.
StaleGivesNoAction ==
  (phase = "done" /\ plan.policy.stale) => Recommended(plan, result) = {}

=============================================================================
