----------------------------- MODULE Companion ------------------------------
(***************************************************************************)
(* What the companion shows one employee about one procurement cycle and   *)
(* one task: items made from domain events, and items that the employee's  *)
(* own requests make from the open task when an event has not arrived.     *)
(* Both read, then commit: a commit fails when its key is taken or a row   *)
(* it changes has changed.                                                 *)
(***************************************************************************)
EXTENDS Integers, FiniteSets

CONSTANTS
  MaxStage,       \* bound: changes of the business records of the cycle
  MaxTaskVersion, \* bound: versions of the task
  MaxMoves        \* bound: what the employee and the runs do with items

ASSUME CompanionAssumption == {MaxStage, MaxTaskVersion, MaxMoves} \subseteq Nat

VARIABLES
  businessRecords, \* the business records of the cycle, and whether they are late
  objective,  \* the projection of the cycle; version 0: none yet
  task,       \* the task of the employee
  news,       \* domain events that have not been consumed: of the cycle, of the task
  items,      \* companion items, by their semantic key
  open,       \* transactions: what they have read and are going to write
  moves       \* what the employee and the runs have done with items

companionVars == <<businessRecords, objective, task, news, items, open, moves>>

-----------------------------------------------------------------------------
\* "delivered" stands for opened, snoozed and acted on, too.
OpenStates == {"queued", "delivered"}

CompanionInit ==
  /\ businessRecords = [number |-> 1, late |-> FALSE]
  /\ objective = [version |-> 0, stage |-> 0, late |-> FALSE]
  /\ task = [version |-> 1, open |-> TRUE]
  /\ news = {"task"}
  /\ items = <<>>
  /\ open = {} /\ moves = 0

Key(trigger, resource, version) == <<trigger, resource, version>>

Trigger(k) == k[1]

IsOpen(its, k) == its[k].state \in OpenStates

-----------------------------------------------------------------------------
(* The business records, the task, and the projection of the cycle.        *)

CycleAdvances(late) ==
  /\ businessRecords.number < MaxStage
  /\ businessRecords' = [number |-> businessRecords.number + 1, late |-> late]
  /\ UNCHANGED <<objective, task, news, items, open, moves>>

TaskChanges(stays) ==
  /\ task.open /\ task.version < MaxTaskVersion
  /\ task' = [version |-> task.version + 1, open |-> stays]
  /\ news' = news \union {"task"}
  /\ UNCHANGED <<businessRecords, objective, items, open, moves>>

\* ensure_objective and the projection: a new version only when it changes.
Evaluated ==
  IF <<objective.stage, objective.late>> = <<businessRecords.number, businessRecords.late>> THEN objective
  ELSE [version |-> objective.version + 1, stage |-> businessRecords.number, late |-> businessRecords.late]

Evaluate ==
  /\ Evaluated # objective
  /\ objective' = Evaluated
  /\ news' = news \union {"cycle"}
  /\ UNCHANGED <<businessRecords, task, items, open, moves>>

-----------------------------------------------------------------------------
(* process_event.                                                          *)

NewItem(hasObjective, hasTask) ==
  [state |-> "queued", objective |-> hasObjective, task |-> hasTask]

Resolved(its, ks) == [k \in ks |-> [its[k] EXCEPT !.state = "resolved"]]

Merge(f, g) == [k \in DOMAIN f \union DOMAIN g |-> IF k \in DOMAIN g THEN g[k] ELSE f[k]]

EventTrigger == IF objective.version > 0 /\ objective.late THEN "cycle.risk_changed" ELSE "work.handoff"

\* An event is about the cycle as it is now, if there is a projection of it.
EventKey ==
  IF objective.version > 0 THEN Key(EventTrigger, "cycle", objective.version)
  ELSE Key(EventTrigger, "task", task.version)

Superseded ==
  {k \in DOMAIN items :
     /\ Trigger(k) = EventTrigger /\ IsOpen(items, k)
     /\ IF objective.version > 0 THEN items[k].objective ELSE items[k].task}

EventWrites(about) ==
  IF EventKey \in DOMAIN items THEN <<>>
  ELSE Merge(Resolved(items, Superseded),
             [k \in {EventKey} |-> NewItem(objective.version > 0, about = "task")])

\* Events are consumed one after the other by the worker of their queue.
BeginEvent(about) ==
  /\ about \in news
  /\ ~ \E x \in open : x.by # "request"
  /\ open' = open \union {[by |-> about, read |-> items, writes |-> EventWrites(about)]}
  /\ news' = news \ {about}
  /\ UNCHANGED <<businessRecords, objective, task, items, moves>>

-----------------------------------------------------------------------------
(* reconcile_assigned_work, in the employee's request for the state.       *)

\* Items of the task without a cycle: the first gets it, the others end.
Generic ==
  {k \in DOMAIN items :
     Trigger(k) = "work.handoff" /\ IsOpen(items, k) /\ items[k].task /\ ~ items[k].objective}

Upgraded ==
  IF Generic = {} THEN <<>>
  ELSE LET first == CHOOSE k \in Generic : TRUE
       IN Merge(Resolved(items, Generic \ {first}), [k \in {first} |-> [items[k] EXCEPT !.objective = TRUE]])

\* Shown already, for the task or for the cycle; it is made the task's then.
Shown ==
  {k \in DOMAIN items :
     Trigger(k) = "work.handoff" /\ IsOpen(items, k) /\ (items[k].task \/ items[k].objective)}

RequestWrites ==
  LET mine == Key("work.handoff", "task", task.version)
  IN IF ~ task.open THEN <<>>
     ELSE IF Shown \ DOMAIN Upgraded # {} \/ Generic # {}
       THEN Merge([k \in {CHOOSE k \in Shown : TRUE} |-> [items[k] EXCEPT !.task = TRUE]], Upgraded)
     ELSE IF mine \in DOMAIN items THEN <<>>
     ELSE [k \in {mine} |-> NewItem(TRUE, TRUE)]

\* The cycle of the task is evaluated when there is no projection of it yet.
BeginRequest ==
  /\ ~ \E x \in open : x.by = "request"
  /\ open' = open \union {[by |-> "request", read |-> items, writes |-> RequestWrites]}
  /\ IF task.open /\ objective.version = 0
       THEN objective' = Evaluated /\ news' = news \union {"cycle"}
       ELSE UNCHANGED <<objective, news>>
  /\ UNCHANGED <<businessRecords, task, items, moves>>

\* What the request finds queued counts as delivered, its own items too.
Delivered(x, its) ==
  IF x.by # "request" THEN its
  ELSE [k \in DOMAIN its |-> IF its[k].state = "queued" THEN [its[k] EXCEPT !.state = "delivered"]
                             ELSE its[k]]

\* Mutant: a row is written whatever has happened to it since it was read.
ConflictsOnKeys(x) == \E k \in DOMAIN x.writes : k \notin DOMAIN x.read /\ k \in DOMAIN items

Conflicts(x) ==
  \E k \in DOMAIN x.writes :
    IF k \in DOMAIN x.read THEN items[k] # x.read[k] ELSE k \in DOMAIN items

CommitItems(x) ==
  /\ ~ Conflicts(x)
  /\ items' = Delivered(x, Merge(items, x.writes))
  /\ open' = open \ {x}
  /\ UNCHANGED <<businessRecords, objective, task, news, moves>>

\* A failed event is retried, a failed request is the employee's to repeat.
AbortItems(x) ==
  /\ open' = open \ {x}
  /\ news' = IF x.by = "request" THEN news ELSE news \union {x.by}
  /\ UNCHANGED <<businessRecords, objective, task, items, moves>>

-----------------------------------------------------------------------------
(* The employee, and the runs of items.  An item that is over can still be *)
(* opened, and is open again then.                                         *)

Moves(k, states, state) ==
  /\ moves < MaxMoves /\ moves' = moves + 1
  /\ items[k].state \in states
  /\ items' = [items EXCEPT ![k].state = state]
  /\ UNCHANGED <<businessRecords, objective, task, news, open>>

OpenItem(k) == Moves(k, {"queued", "dismissed", "resolved"}, "delivered")

DismissItem(k) == Moves(k, {"queued", "delivered", "resolved"}, "dismissed")

\* The end of a preparation, which needs the cycle, presents the item again.
PreparationEnds(k) == items[k].objective /\ Moves(k, {"dismissed", "resolved"}, "delivered")

-----------------------------------------------------------------------------
CompanionNext ==
  \/ \E b \in BOOLEAN : CycleAdvances(b) \/ TaskChanges(b)
  \/ Evaluate \/ BeginRequest
  \/ \E a \in {"cycle", "task"} : BeginEvent(a)
  \/ \E x \in open : CommitItems(x) \/ AbortItems(x)
  \/ \E k \in DOMAIN items : OpenItem(k) \/ DismissItem(k) \/ PreparationEnds(k)

CompanionSpec == CompanionInit /\ [][CompanionNext]_companionVars

-----------------------------------------------------------------------------
\* What the employee has put away is not ended behind his back, nor is an item
\* that was ended given out again by a transaction that read it earlier: only
\* the employee and the runs of an item bring it out of where they put it
\* (dismiss and process_event, routers/companion.py:103, companion.py:228).
PutAwayIsKept ==
  [][\A k \in DOMAIN items :
       items[k].state \in {"dismissed", "resolved"} /\ items'[k].state # items[k].state
         => moves' = moves + 1]_companionVars

\* At most one handoff is open for a task or its cycle (process_event,
\* companion.py:229: "at most one current intervention per recipient/resource
\* version").
OneOpenHandoff ==
  Cardinality({k \in DOMAIN items : Trigger(k) = "work.handoff" /\ IsOpen(items, k)}) <= 1

=============================================================================
