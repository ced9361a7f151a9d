--------------------------- MODULE PurchaseOrder ---------------------------
(***************************************************************************)
(* A purchase order and its revisions: approval, the dispatch of every     *)
(* version to the ERP by workers that crash and overlap, the answer of the *)
(* supplier, delivery notices, gate entries and first receipts, and        *)
(* amendments and cancellations.                                           *)
(*                                                                         *)
(* Every operation is one transaction, but for the dispatch, which commits *)
(* before and after the call of the ERP.  Two requests that prepare a      *)
(* revision at once give it the same business number, which is unique.     *)
(* Receipts of replacements and what quality does with a receipt are in    *)
(* Inbound.                                                                *)
(***************************************************************************)
EXTENDS Integers, FiniteSets, Sequences, FiniteSetsExt

CONSTANTS
  Ordered,        \* the quantity of the original order
  Tolerance,      \* what the over-delivery tolerance adds to it
  MaxOrders,      \* bound: versions of the order
  MaxDeliveries,  \* bound: delivery notices
  MaxDispatches   \* bound: attempts to dispatch a version

ASSUME PurchaseOrderAssumption ==
  /\ Ordered \in Nat \ {0}
  /\ Tolerance \in Nat
  /\ {MaxOrders, MaxDeliveries, MaxDispatches} \subseteq Nat

VARIABLES
  orders,      \* the versions: row, dispatch event, answer, gate, receipts
  deliveries,  \* ASNs: version, quantity, sender, arrived at the gate
  dispatches   \* attempts that have called the ERP: version and number

orderVars == <<orders, deliveries, dispatches>>

Version(kind, quantity) ==
  [status |-> "pending_approval", kind |-> kind, quantity |-> quantity,
   event |-> "none", attempts |-> 0, answer |-> "none", confirmed |-> 0,
   gate |-> FALSE, received |-> 0]

OrderInit ==
  /\ orders = <<Version("original", Ordered)>>
  /\ deliveries = {}
  /\ dispatches = {}

Versions == DOMAIN orders
Posted(v) == orders[v].status = "posted"
AwaitsDispatch(v) == orders[v].status \in {"pending_approval", "approved_pending_outbox"}

\* Revisions carry the root of their order, the original does not.
ChangePending == \E v \in Versions \ {1} : AwaitsDispatch(v)

Notified(v) == {d \in deliveries : d.order = v}
Announced(v) == MapThenSumSet(LAMBDA d : d.quantity, Notified(v))

SetOrder(v, fields) ==
  orders' = [orders EXCEPT ![v] = [f \in DOMAIN @ |->
               IF f \in DOMAIN fields THEN fields[f] ELSE @[f]]]

-----------------------------------------------------------------------------
(* Approval and dispatch.                                                  *)

\* Also takes a revision: neither its kind nor its previous version is
\* looked at.
ApprovePo(v) ==
  /\ orders[v].status = "pending_approval"
  /\ SetOrder(v, [status |-> "approved_pending_outbox", event |-> "pending_approval"])
  /\ UNCHANGED <<deliveries, dispatches>>

ApproveChange(v) ==
  /\ v # 1 /\ orders[v].status = "pending_approval" /\ Posted(v - 1)
  /\ SetOrder(v, [status |-> "approved_pending_outbox", event |-> "pending_approval"])
  /\ UNCHANGED <<deliveries, dispatches>>

ApproveEvent(v) ==
  /\ orders[v].event = "pending_approval"
  /\ SetOrder(v, [event |-> "approved"])
  /\ UNCHANGED <<deliveries, dispatches>>

\* The request to dispatch and the one to retry a failed event.
RequestDispatch(v) ==
  /\ orders[v].event \in {"approved", "failed"}
  /\ SetOrder(v, [event |-> "dispatching"])
  /\ UNCHANGED <<deliveries, dispatches>>

\* A worker commits its attempt before it calls the ERP.  An event that is
\* dispatching can be taken again: its worker may have crashed.
BeginDispatch(v) ==
  /\ orders[v].event \in {"approved", "dispatching", "failed"}
  /\ orders[v].attempts < MaxDispatches
  /\ SetOrder(v, [event |-> "dispatching", attempts |-> orders[v].attempts + 1])
  /\ dispatches' = dispatches \union {<<v, orders[v].attempts + 1>>}
  /\ UNCHANGED deliveries

\* Mutant: the version before a revision stays in force.
IssueBeside(v) ==
  [orders EXCEPT ![v].event = "dispatched",
                 ![v].status = IF orders[v].kind = "cancellation" THEN "cancelled" ELSE "posted"]

\* A dispatched version is issued; a revision retires the one before it.
Issue(v) ==
  [w \in Versions |->
     IF w = v THEN [orders[v] EXCEPT !.event = "dispatched",
                      !.status = IF orders[v].kind = "cancellation"
                                   THEN "cancelled" ELSE "posted"]
     ELSE IF w = v - 1
       THEN [orders[w] EXCEPT !.status =
               IF orders[v].kind = "cancellation" THEN "cancelled" ELSE "superseded"]
     ELSE orders[w]]

\* Mutant: the attempt writes its result without looking at the version.
NeverOvertaken(v, n) == FALSE

\* The commit of an attempt that another one has overtaken fails on the
\* version of the event.
Overtaken(v, n) == orders[v].attempts # n

EndDispatch(v, n) ==
  /\ <<v, n>> \in dispatches
  /\ dispatches' = dispatches \ {<<v, n>>}
  /\ \/ ~ Overtaken(v, n) /\ orders' = Issue(v)
     \/ ~ Overtaken(v, n) /\ SetOrder(v, [event |-> "failed"])
     \/ UNCHANGED orders          \* overtaken, or the worker crashes
  /\ UNCHANGED deliveries

-----------------------------------------------------------------------------
(* The supplier.                                                           *)

\* The link of a dispatched version stays valid when it is superseded.
Linked(v) == orders[v].event = "dispatched"

Acknowledge(v, answer, quantity) ==
  /\ Linked(v) /\ orders[v].answer = "none"
  /\ quantity \in 0..orders[v].quantity
  /\ SetOrder(v, [answer |-> answer, confirmed |-> quantity])
  /\ UNCHANGED <<deliveries, dispatches>>

NewDelivery(v, quantity, sender) ==
  /\ quantity > 0
  /\ Cardinality(deliveries) < MaxDeliveries
  /\ deliveries' = deliveries \union
       {[id |-> Cardinality(deliveries) + 1, order |-> v, quantity |-> quantity,
         sender |-> sender, status |-> "announced", arrived |-> FALSE]}
  /\ UNCHANGED <<orders, dispatches>>

\* Neither the status of the order nor a pending change is looked at.
DeliveryNotice(v, quantity) ==
  /\ orders[v].answer = "accepted"
  /\ quantity <= orders[v].quantity - Announced(v)
  /\ NewDelivery(v, quantity, "supplier")

RescheduleDelivery(d) ==
  /\ d.sender = "supplier" /\ ~ d.arrived
  /\ deliveries' = (deliveries \ {d}) \union {[d EXCEPT !.status = "rescheduled"]}
  /\ UNCHANGED <<orders, dispatches>>

-----------------------------------------------------------------------------
(* Stores and gate.                                                        *)

CreateAsn(v, quantity) ==
  /\ Posted(v) /\ ~ ChangePending
  /\ orders[v].answer = "accepted"
  /\ Announced(v) + quantity <= orders[v].confirmed
  /\ NewDelivery(v, quantity, "stores")

\* With the delivery it belongs to, or without one.
GateEntry(v, arriving) ==
  /\ orders[v].status \in {"approved_pending_outbox", "posted"}
  /\ ~ ChangePending
  /\ arriving \subseteq Notified(v) /\ Cardinality(arriving) <= 1
  /\ SetOrder(v, [gate |-> TRUE])
  /\ deliveries' = (deliveries \ arriving) \union {[d EXCEPT !.arrived = TRUE] : d \in arriving}
  /\ UNCHANGED dispatches

\* What is announced is authorised, everything when nothing is announced.
Authorised(v) == IF Announced(v) = 0 THEN orders[v].quantity ELSE Announced(v)

\* Mutant: inbound activity goes on while a change is pending.
ReceiveDuringChange(v, quantity) ==
  /\ orders[v].gate
  /\ quantity > 0
  /\ orders[v].received + quantity <= Authorised(v) + Tolerance
  /\ SetOrder(v, [received |-> orders[v].received + quantity])
  /\ UNCHANGED <<deliveries, dispatches>>

\* The status of the version is not looked at: one that was superseded
\* after its gate entry is received too.
ReceiveGoods(v, quantity) ==
  /\ ~ ChangePending
  /\ orders[v].gate
  /\ quantity > 0
  /\ orders[v].received + quantity <= Authorised(v) + Tolerance
  /\ SetOrder(v, [received |-> orders[v].received + quantity])
  /\ UNCHANGED <<deliveries, dispatches>>

-----------------------------------------------------------------------------
(* Changes of an issued order.                                             *)

\* The revision of v follows it, and may answer the change its supplier has
\* asked for.  Deliveries and receipts are those of this version only.
PrepareChange(v, kind, quantity, request) ==
  /\ Posted(v) /\ ~ ChangePending
  /\ Len(orders) < MaxOrders
  /\ kind = "cancellation" => orders[v].received = 0 /\ Notified(v) = {}
  /\ kind = "amendment" => quantity >= orders[v].received
  /\ request => orders[v].answer = "change_requested"
  /\ quantity > 0
  /\ orders' = Append([orders EXCEPT ![v].answer = IF request THEN "change_prepared" ELSE @],
                      Version(kind, quantity))
  /\ UNCHANGED <<deliveries, dispatches>>

-----------------------------------------------------------------------------
Quantities == 1..(Ordered + Tolerance)

OrderNext ==
  \/ \E v \in Versions : ApprovePo(v)
  \/ \E v \in Versions : ApproveChange(v)
  \/ \E v \in Versions : ApproveEvent(v)
  \/ \E v \in Versions : RequestDispatch(v)
  \/ \E v \in Versions : BeginDispatch(v)
  \/ \E a \in dispatches : EndDispatch(a[1], a[2])
  \/ \E v \in Versions, q \in Quantities : Acknowledge(v, "accepted", q)
  \/ \E v \in Versions, a \in {"rejected", "change_requested"} : Acknowledge(v, a, 0)
  \/ \E v \in Versions, q \in Quantities : DeliveryNotice(v, q)
  \/ \E d \in deliveries : RescheduleDelivery(d)
  \/ \E v \in Versions, q \in Quantities : CreateAsn(v, q)
  \/ \E v \in Versions, a \in SUBSET deliveries : GateEntry(v, a)
  \/ \E v \in Versions, q \in Quantities : ReceiveGoods(v, q)
  \/ \E v \in Versions, k \in {"amendment", "cancellation"}, q \in Quantities, r \in BOOLEAN :
       PrepareChange(v, k, q, r)

OrderSpec == OrderInit /\ [][OrderNext]_orderVars

-----------------------------------------------------------------------------
(* Whatever is approved, dispatched twice or late: one version of an order *)
(* is in force at the ERP at most, and one change of it is on the way.     *)
OneOrderInForce ==
  /\ Cardinality({v \in Versions : Posted(v)}) <= 1
  /\ \A v \in Versions \ {1} : AwaitsDispatch(v) => v = Len(orders) /\ Posted(v - 1)

\* An amendment that replaces a version covers what was received on it: the
\* check when it is prepared still holds when it is issued.
AmendmentCoversReceipts ==
  \A v \in Versions \ {1} : AwaitsDispatch(v) /\ orders[v].kind = "amendment" =>
    orders[v].quantity >= orders[v - 1].received

\* A dispatch that succeeded is not undone by an attempt that ends later.
DispatchIsFinal ==
  [][\A v \in Versions : orders[v].event = "dispatched" => orders'[v].event = "dispatched"]_orderVars

-----------------------------------------------------------------------------
(* prepare_po_change answers a request with: "An order with delivery or    *)
(* receipt activity cannot be cancelled": an order that waits for its      *)
(* cancellation has none, on any of its versions.                          *)
CancelledIsUnused ==
  \A v \in Versions : orders[v].kind = "cancellation" /\ AwaitsDispatch(v) =>
    \A w \in Versions : Notified(w) = {} /\ orders[w].received = 0

=============================================================================
