------------------------- MODULE FulfilmentProofs -------------------------
(***************************************************************************)
(* Proofs about what becomes of an approved order.                         *)
(***************************************************************************)
EXTENDS PurchaseOrder, Inbound, WellFoundedInduction, FiniteSetTheorems, TLAPS

-----------------------------------------------------------------------------
(***************************************************************************)
(* PurchaseOrder, for any number of versions, of attempts to dispatch them *)
(* and of deliveries.                                                      *)
(*                                                                         *)
(* That one version is in force is not inductive: what is issued has to be *)
(* the last version, and what it replaces the only one in force (Chain).   *)
(* That an attempt issues a version once only follows from LiveAttempt:    *)
(* the attempt that is not overtaken belongs to a version whose event is   *)
(* still being dispatched, so its status is that of an approved one.       *)
(***************************************************************************)
OrderStatuses == {"pending_approval", "approved_pending_outbox", "posted", "superseded", "cancelled"}
DispatchEvents == {"none", "pending_approval", "approved", "dispatching", "failed", "dispatched"}
Answers == {"none", "accepted", "rejected", "change_requested", "change_prepared"}

OrderRow ==
  [status : OrderStatuses, kind : {"original", "amendment", "cancellation"}, quantity : Nat,
   event : DispatchEvents, attempts : Nat, answer : Answers, confirmed : Nat,
   gate : BOOLEAN, received : Nat]

OrderRowTypes ==
  /\ orders \in Seq(OrderRow) /\ orders # <<>>
  /\ dispatches \subseteq Versions \X Nat

\* The dispatch event of a version says where the version is.
EventFollowsStatus ==
  \A v \in Versions :
    orders[v].event \in
      (CASE orders[v].status = "pending_approval" -> {"none"}
         [] orders[v].status = "approved_pending_outbox" ->
              {"pending_approval", "approved", "dispatching", "failed"}
         [] OTHER -> {"dispatched"})

LiveAttempt ==
  \A a \in dispatches :
    /\ a[2] <= orders[a[1]].attempts
    /\ a[2] = orders[a[1]].attempts => orders[a[1]].event = "dispatching"

\* What waits is the last version, what is in force is it or the one before it.
Chain ==
  /\ \A v \in Versions : AwaitsDispatch(v) => v = Len(orders) /\ (v # 1 => Posted(v - 1))
  /\ \A v \in Versions : Posted(v) =>
       v = Len(orders) \/ (v = Len(orders) - 1 /\ AwaitsDispatch(Len(orders)))

OrderInv ==
  /\ OrderRowTypes
  /\ EventFollowsStatus
  /\ LiveAttempt
  /\ Chain
  /\ AmendmentCoversReceipts

Columns == {"status", "kind", "quantity", "event", "attempts", "answer", "confirmed", "gate", "received"}

\* A change of some columns of one version leaves its other columns and all
\* other versions as they are.
LEMMA SetOrderRow ==
  ASSUME OrderRowTypes, NEW v \in Versions, NEW fields, SetOrder(v, fields)
  PROVE  /\ DOMAIN orders' = DOMAIN orders
         /\ orders' = [orders EXCEPT ![v] = orders'[v]]
         /\ DOMAIN orders[v] = Columns
         /\ orders'[v] = [f \in Columns |-> IF f \in DOMAIN fields THEN fields[f] ELSE orders[v][f]]
<1>1. orders[v] \in OrderRow
  BY DEF OrderRowTypes, Versions
<1>2. DOMAIN orders[v] = Columns
  BY <1>1 DEF OrderRow, Columns
<1>3. v \in DOMAIN orders /\ DOMAIN orders = 1..Len(orders)
  BY DEF OrderRowTypes, Versions
<1> DEFINE row == [f \in DOMAIN orders[v] |-> IF f \in DOMAIN fields THEN fields[f] ELSE orders[v][f]]
<1>4. orders' = [orders EXCEPT ![v] = row]
  BY DEF SetOrder
<1>5. orders'[v] = row
  BY <1>3, <1>4
<1> HIDE DEF row
<1>6. DOMAIN orders' = DOMAIN orders
  BY <1>4
<1>7. orders' = [orders EXCEPT ![v] = orders'[v]]
  BY <1>4, <1>5
<1> QED
  BY <1>2, <1>5, <1>6, <1>7 DEF row

LEMMA RowOfColumns ==
  ASSUME NEW row, row = [f \in Columns |-> row[f]],
         row.status \in OrderStatuses, row.kind \in {"original", "amendment", "cancellation"},
         row.quantity \in Nat, row.event \in DispatchEvents, row.attempts \in Nat,
         row.answer \in Answers, row.confirmed \in Nat, row.gate \in BOOLEAN, row.received \in Nat
  PROVE  row \in OrderRow
BY DEF Columns, OrderRow

\* A version that has been written keeps the table what it is.
LEMMA OneRowWritten ==
  ASSUME OrderRowTypes, NEW v \in Versions, NEW fields, SetOrder(v, fields),
         orders'[v].status \in OrderStatuses, orders'[v].event \in DispatchEvents,
         orders'[v].attempts \in Nat, orders'[v].answer \in Answers,
         orders'[v].confirmed \in Nat, orders'[v].gate \in BOOLEAN, orders'[v].received \in Nat,
         orders'[v].kind = orders[v].kind, orders'[v].quantity = orders[v].quantity
  PROVE  /\ orders' \in Seq(OrderRow) /\ orders' # <<>>
         /\ Len(orders') = Len(orders) /\ Versions' = Versions
         /\ \A w \in Versions \ {v} : orders'[w] = orders[w]
<1>1. orders[v] \in OrderRow /\ v \in 1..Len(orders) /\ Len(orders) \in Nat
  BY DEF OrderRowTypes, Versions
<1>2. orders'[v].kind \in {"original", "amendment", "cancellation"} /\ orders'[v].quantity \in Nat
  BY <1>1 DEF OrderRow
<1>3. orders'[v] = [f \in Columns |-> orders'[v][f]]
  BY SetOrderRow
<1>4. orders'[v] \in OrderRow
  BY <1>2, <1>3, RowOfColumns
<1>5. orders' = [orders EXCEPT ![v] = orders'[v]]
  BY SetOrderRow
<1> DEFINE row == orders'[v]
<1>6. orders' = [orders EXCEPT ![v] = row] /\ row \in OrderRow
  BY <1>4, <1>5
<1> HIDE DEF row
<1>7. orders' \in Seq(OrderRow) /\ orders' # <<>> /\ Len(orders') = Len(orders)
  BY <1>1, <1>6 DEF OrderRowTypes
<1> QED
  BY <1>1, <1>6, <1>7 DEF OrderRowTypes, Versions

\* The chain and the amendments look at few columns.
LEMMA ChainUntouched ==
  ASSUME OrderInv, Versions' = Versions, Len(orders') = Len(orders),
         \A w \in Versions :
           /\ AwaitsDispatch(w)' = AwaitsDispatch(w) /\ Posted(w)' = Posted(w)
           /\ orders'[w].kind = orders[w].kind /\ orders'[w].quantity = orders[w].quantity
           /\ orders'[w].received = orders[w].received
  PROVE  Chain' /\ AmendmentCoversReceipts'
<1>1. Len(orders) \in Versions /\ \A w \in Versions \ {1} : w - 1 \in Versions
  BY DEF OrderInv, OrderRowTypes, Versions
<1>2. Chain'
  BY <1>1 DEF OrderInv, Chain
<1>3. AmendmentCoversReceipts'
  BY <1>1 DEF OrderInv, AmendmentCoversReceipts
<1> QED  BY <1>2, <1>3

\* Steps before a version is issued write its status and event only.
LEMMA DispatchColumnsKeep ==
  ASSUME OrderInv, NEW v \in Versions, NEW fields, SetOrder(v, fields),
         DOMAIN fields \subseteq {"status", "event"},
         UNCHANGED dispatches,
         AwaitsDispatch(v), AwaitsDispatch(v)',
         orders'[v].status = "pending_approval" => orders'[v].event = "none",
         orders'[v].status = "approved_pending_outbox" =>
           orders'[v].event \in {"pending_approval", "approved", "dispatching", "failed"},
         orders'[v].event = "dispatching"
           \/ \A a \in dispatches : a[1] = v => a[2] # orders[v].attempts
  PROVE  OrderInv'
<1>1. orders[v] \in OrderRow
  BY DEF OrderInv, OrderRowTypes, Versions
<1>2. /\ orders'[v].kind = orders[v].kind /\ orders'[v].quantity = orders[v].quantity
      /\ orders'[v].attempts = orders[v].attempts /\ orders'[v].answer = orders[v].answer
      /\ orders'[v].confirmed = orders[v].confirmed /\ orders'[v].gate = orders[v].gate
      /\ orders'[v].received = orders[v].received
  <2>1. orders'[v] = [f \in Columns |-> IF f \in DOMAIN fields THEN fields[f] ELSE orders[v][f]]
    BY SetOrderRow DEF OrderInv
  <2> QED  BY <2>1 DEF Columns
<1>3. orders'[v].status \in OrderStatuses /\ orders'[v].event \in DispatchEvents
  BY DEF AwaitsDispatch, OrderStatuses, DispatchEvents
<1>4. /\ orders' \in Seq(OrderRow) /\ orders' # <<>>
      /\ Len(orders') = Len(orders) /\ Versions' = Versions
      /\ \A w \in Versions \ {v} : orders'[w] = orders[w]
  <2>1. OrderRowTypes
    BY DEF OrderInv
  <2>2. /\ orders[v].attempts \in Nat /\ orders[v].answer \in Answers
        /\ orders[v].confirmed \in Nat /\ orders[v].gate \in BOOLEAN /\ orders[v].received \in Nat
    BY <1>1 DEF OrderRow
  <2> QED  BY <1>2, <1>3, <2>1, <2>2, OneRowWritten
<1>5. OrderRowTypes'
  BY <1>4 DEF OrderInv, OrderRowTypes
<1>6. EventFollowsStatus'
  BY <1>4 DEF OrderInv, EventFollowsStatus, AwaitsDispatch
<1>7. LiveAttempt'
  <2> SUFFICES ASSUME NEW a \in dispatches
               PROVE  /\ a[2] <= orders'[a[1]].attempts
                      /\ a[2] = orders'[a[1]].attempts => orders'[a[1]].event = "dispatching"
    BY DEF LiveAttempt
  <2>1. a[1] \in Versions
    BY DEF OrderInv, OrderRowTypes
  <2> QED  BY <1>2, <1>4, <2>1 DEF OrderInv, LiveAttempt
<1>8. Chain' /\ AmendmentCoversReceipts'
  BY <1>2, <1>4, ChainUntouched DEF Posted, AwaitsDispatch
<1> QED  BY <1>5, <1>6, <1>7, <1>8 DEF OrderInv

\* Suppliers, stores and the gate write neither status nor dispatch.
LEMMA BookkeepingKeeps ==
  ASSUME OrderInv, NEW v \in Versions, NEW fields, SetOrder(v, fields),
         DOMAIN fields \subseteq {"answer", "confirmed", "gate", "received"},
         UNCHANGED dispatches,
         orders'[v].answer \in Answers, orders'[v].confirmed \in Nat,
         orders'[v].gate \in BOOLEAN, orders'[v].received \in Nat,
         ChangePending => orders'[v].received = orders[v].received
  PROVE  OrderInv'
<1>1. orders[v] \in OrderRow
  BY DEF OrderInv, OrderRowTypes, Versions
<1>2. /\ orders'[v].kind = orders[v].kind /\ orders'[v].quantity = orders[v].quantity
      /\ orders'[v].attempts = orders[v].attempts /\ orders'[v].status = orders[v].status
      /\ orders'[v].event = orders[v].event
  <2>1. orders'[v] = [f \in Columns |-> IF f \in DOMAIN fields THEN fields[f] ELSE orders[v][f]]
    BY SetOrderRow DEF OrderInv
  <2> QED  BY <2>1 DEF Columns
<1>3. /\ orders' \in Seq(OrderRow) /\ orders' # <<>>
      /\ Len(orders') = Len(orders) /\ Versions' = Versions
      /\ \A w \in Versions \ {v} : orders'[w] = orders[w]
  <2>1. OrderRowTypes
    BY DEF OrderInv
  <2>2. /\ orders[v].attempts \in Nat
        /\ orders[v].status \in OrderStatuses /\ orders[v].event \in DispatchEvents
    BY <1>1 DEF OrderRow
  <2> QED  BY <1>2, <2>1, <2>2, OneRowWritten
<1>4. OrderRowTypes'
  BY <1>3 DEF OrderInv, OrderRowTypes
<1>5. EventFollowsStatus'
  BY <1>2, <1>3 DEF OrderInv, EventFollowsStatus
<1>6. LiveAttempt'
  <2> SUFFICES ASSUME NEW a \in dispatches
               PROVE  /\ a[2] <= orders'[a[1]].attempts
                      /\ a[2] = orders'[a[1]].attempts => orders'[a[1]].event = "dispatching"
    BY DEF LiveAttempt
  <2>1. a[1] \in Versions
    BY DEF OrderInv, OrderRowTypes
  <2> QED  BY <1>2, <1>3, <2>1 DEF OrderInv, LiveAttempt
<1>7. CASE ~ChangePending
  <2>1. \A w \in Versions \ {1} : ~ AwaitsDispatch(w)'
    BY <1>2, <1>3, <1>7 DEF ChangePending, AwaitsDispatch
  <2>2. AmendmentCoversReceipts'
    BY <1>3, <2>1 DEF AmendmentCoversReceipts
  <2>3. Len(orders) \in Versions /\ \A w \in Versions \ {1} : w - 1 \in Versions
    BY DEF OrderInv, OrderRowTypes, Versions
  <2>4. \A w \in Versions : AwaitsDispatch(w)' = AwaitsDispatch(w) /\ Posted(w)' = Posted(w)
    BY <1>2, <1>3 DEF AwaitsDispatch, Posted
  <2>5. Chain'
    BY <1>3, <2>3, <2>4 DEF OrderInv, Chain
  <2> QED  BY <1>4, <1>5, <1>6, <2>2, <2>5 DEF OrderInv
<1>8. CASE ChangePending
  <2>1. \A w \in Versions : AwaitsDispatch(w)' = AwaitsDispatch(w) /\ Posted(w)' = Posted(w)
    BY <1>2, <1>3 DEF AwaitsDispatch, Posted
  <2>2. Chain' /\ AmendmentCoversReceipts'
    BY <1>2, <1>3, <1>8, <2>1, ChainUntouched
  <2> QED  BY <1>4, <1>5, <1>6, <2>2 DEF OrderInv
<1> QED  BY <1>7, <1>8

LEMMA BeginDispatchKeeps ==
  ASSUME OrderInv, NEW v \in Versions, BeginDispatch(v)
  PROVE  OrderInv'
<1> DEFINE fields == [event |-> "dispatching", attempts |-> orders[v].attempts + 1]
<1>1. orders[v] \in OrderRow
  BY DEF OrderInv, OrderRowTypes, Versions
<1>2. SetOrder(v, fields) /\ orders[v].event \in {"approved", "dispatching", "failed"}
      /\ dispatches' = dispatches \union {<<v, orders[v].attempts + 1>>}
  BY DEF BeginDispatch
<1>3. /\ orders'[v].kind = orders[v].kind /\ orders'[v].quantity = orders[v].quantity
      /\ orders'[v].attempts = orders[v].attempts + 1 /\ orders'[v].status = orders[v].status
      /\ orders'[v].event = "dispatching" /\ orders'[v].answer = orders[v].answer
      /\ orders'[v].confirmed = orders[v].confirmed /\ orders'[v].gate = orders[v].gate
      /\ orders'[v].received = orders[v].received
  <2>1. orders'[v] = [f \in Columns |-> IF f \in DOMAIN fields THEN fields[f] ELSE orders[v][f]]
    BY <1>2, SetOrderRow DEF OrderInv
  <2> QED  BY <2>1 DEF Columns
<1>4. /\ orders[v].status \in OrderStatuses /\ orders[v].attempts \in Nat
      /\ orders[v].answer \in Answers /\ orders[v].confirmed \in Nat
      /\ orders[v].gate \in BOOLEAN /\ orders[v].received \in Nat
  BY <1>1 DEF OrderRow
<1> HIDE DEF fields
<1>5. /\ orders' \in Seq(OrderRow) /\ orders' # <<>>
      /\ Len(orders') = Len(orders) /\ Versions' = Versions
      /\ \A w \in Versions \ {v} : orders'[w] = orders[w]
  <2>1. OrderRowTypes /\ orders'[v].event \in DispatchEvents /\ orders'[v].attempts \in Nat
    BY <1>3, <1>4 DEF OrderInv, DispatchEvents
  <2> QED  BY <1>2, <1>3, <1>4, <2>1, OneRowWritten
<1>6. OrderRowTypes'
  BY <1>2, <1>4, <1>5 DEF OrderInv, OrderRowTypes
<1>7. EventFollowsStatus'
  <2>1. orders[v].status = "approved_pending_outbox"
    BY <1>2, <1>4 DEF OrderInv, EventFollowsStatus, OrderStatuses
  <2> QED  BY <1>3, <1>5, <2>1 DEF OrderInv, EventFollowsStatus
<1>8. LiveAttempt'
  <2> SUFFICES ASSUME NEW a \in dispatches'
               PROVE  /\ a[2] <= orders'[a[1]].attempts
                      /\ a[2] = orders'[a[1]].attempts => orders'[a[1]].event = "dispatching"
    BY DEF LiveAttempt
  <2>1. CASE a = <<v, orders[v].attempts + 1>>
    BY <1>3, <1>4, <2>1
  <2>2. CASE a \in dispatches
    <3>1. a[1] \in Versions /\ a[2] \in Nat
      BY <2>2 DEF OrderInv, OrderRowTypes
    <3> QED  BY <1>3, <1>4, <1>5, <2>2, <3>1, SMTT(30) DEF OrderInv, LiveAttempt
  <2> QED  BY <1>2, <2>1, <2>2
<1>9. Chain' /\ AmendmentCoversReceipts'
  BY <1>3, <1>5, ChainUntouched DEF Posted, AwaitsDispatch
<1> QED  BY <1>6, <1>7, <1>8, <1>9 DEF OrderInv

\* What an attempt issues is the last version, and replaces the only one in force.
LEMMA IssueKeeps ==
  ASSUME OrderInv, NEW a \in dispatches, ~ Overtaken(a[1], a[2]),
         orders' = Issue(a[1]), dispatches' = dispatches \ {a}
  PROVE  OrderInv'
<1> DEFINE v == a[1]
<1>1. v \in Versions /\ a[2] \in Nat /\ a = <<v, a[2]>> /\ Len(orders) \in Nat \ {0}
      /\ Versions = 1..Len(orders)
  BY DEF OrderInv, OrderRowTypes, Versions
<1>2. \A w \in Versions : orders[w] \in OrderRow
  BY DEF OrderInv, OrderRowTypes, Versions
<1>3. orders[v].event = "dispatching" /\ orders[v].attempts = a[2]
  BY <1>1 DEF OrderInv, LiveAttempt, Overtaken
<1>4. orders[v].status = "approved_pending_outbox"
  BY <1>1, <1>2, <1>3 DEF OrderInv, EventFollowsStatus, OrderRow, OrderStatuses
<1>5. v = Len(orders) /\ (v # 1 => Posted(v - 1)) /\ \A w \in Versions : Posted(w) => w = v - 1
  BY <1>1, <1>4 DEF OrderInv, Chain, AwaitsDispatch, Posted
<1> DEFINE issued == IF orders[v].kind = "cancellation" THEN "cancelled" ELSE "posted"
           retired == IF orders[v].kind = "cancellation" THEN "cancelled" ELSE "superseded"
<1>6. /\ orders' = [w \in 1..Len(orders) |-> orders'[w]]
      /\ orders'[v] = [orders[v] EXCEPT !.event = "dispatched", !.status = issued]
      /\ v # 1 => orders'[v - 1] = [orders[v - 1] EXCEPT !.status = retired]
      /\ \A w \in Versions : w # v /\ w # v - 1 => orders'[w] = orders[w]
  BY <1>1 DEF Issue
<1>7. \A w \in Versions :
        /\ orders'[w] \in OrderRow
        /\ orders'[w].attempts = orders[w].attempts
        /\ orders'[w].event = IF w = v THEN "dispatched" ELSE orders[w].event
        /\ orders'[w].status = IF w = v THEN issued ELSE IF w = v - 1 THEN retired ELSE orders[w].status
  <2> TAKE w \in Versions
  <2>1. CASE w = v
    BY <1>1, <1>2, <1>6, <2>1, ZenonT(30) DEF OrderRow, OrderStatuses, DispatchEvents
  <2>2. CASE w = v - 1
    <3>1. orders'[w] = [orders[w] EXCEPT !.status = retired] /\ w # v
      BY <1>1, <1>6, <2>2
    <3>2. retired \in OrderStatuses /\ orders[w] \in OrderRow
      BY <1>2 DEF OrderStatuses
    <3> HIDE DEF retired
    <3>3. orders'[w] \in OrderRow /\ orders'[w].status = retired
          /\ orders'[w].attempts = orders[w].attempts /\ orders'[w].event = orders[w].event
      BY <3>1, <3>2 DEF OrderRow
    <3> QED  BY <2>2, <3>1, <3>3
  <2>3. CASE w # v /\ w # v - 1
    BY <1>2, <1>6, <2>3
  <2> QED  BY <2>1, <2>2, <2>3
<1>8. orders' \in Seq(OrderRow) /\ Len(orders') = Len(orders) /\ orders' # <<>> /\ Versions' = Versions
  <2>1. orders' \in [1..Len(orders) -> OrderRow]
    BY <1>1, <1>6, <1>7
  <2> QED  BY <1>1, <2>1 DEF Versions
<1>9. OrderRowTypes'
  BY <1>8 DEF OrderInv, OrderRowTypes
<1>10. EventFollowsStatus'
  <2>1. v # 1 => orders[v - 1].event = "dispatched"
    BY <1>1, <1>5 DEF OrderInv, EventFollowsStatus, Posted
  <2> QED  BY <1>1, <1>7, <1>8, <2>1 DEF OrderInv, EventFollowsStatus
<1>11. LiveAttempt'
  <2> SUFFICES ASSUME NEW b \in dispatches, b # a
               PROVE  /\ b[2] <= orders'[b[1]].attempts
                      /\ b[2] = orders'[b[1]].attempts => orders'[b[1]].event = "dispatching"
    BY DEF LiveAttempt
  <2>1. b[1] \in Versions /\ b = <<b[1], b[2]>>
    BY DEF OrderInv, OrderRowTypes
  <2>2. b[1] = v => b[2] # orders[v].attempts
    BY <1>1, <1>3, <2>1
  <2> QED  BY <1>7, <2>1, <2>2 DEF OrderInv, LiveAttempt
<1>12. \A w \in Versions' : ~ AwaitsDispatch(w)' /\ (Posted(w)' => w = Len(orders'))
  BY <1>1, <1>4, <1>5, <1>7, <1>8 DEF OrderInv, Chain, AwaitsDispatch, Posted
<1>13. Chain' /\ AmendmentCoversReceipts'
  BY <1>12 DEF Chain, AmendmentCoversReceipts
<1> QED  BY <1>9, <1>10, <1>11, <1>13 DEF OrderInv

\* A revision is prepared of the version in force, which is the last one then.
LEMMA PrepareChangeKeeps ==
  ASSUME OrderInv, NEW v \in Versions, NEW kind \in {"amendment", "cancellation"},
         NEW quantity \in Nat, NEW request \in BOOLEAN, PrepareChange(v, kind, quantity, request)
  PROVE  OrderInv'
<1> DEFINE answer == IF request THEN "change_prepared" ELSE orders[v].answer
           changed == [orders EXCEPT ![v].answer = answer]
           revision == Version(kind, quantity)
<1>1. v \in 1..Len(orders) /\ Len(orders) \in Nat \ {0} /\ Versions = 1..Len(orders)
      /\ orders[v] \in OrderRow
  BY DEF OrderInv, OrderRowTypes, Versions
<1>2. Posted(v) /\ ~ ChangePending /\ (kind = "amendment" => quantity >= orders[v].received)
      /\ orders' = Append(changed, revision) /\ dispatches' = dispatches
  BY DEF PrepareChange
<1>3. v = Len(orders)
  BY <1>1, <1>2 DEF OrderInv, Chain, ChangePending, AwaitsDispatch, Posted
<1>4. \A w \in Versions : ~ AwaitsDispatch(w)
  BY <1>1, <1>2, <1>3 DEF ChangePending, OrderInv, Chain, AwaitsDispatch, Posted
<1>5. changed \in Seq(OrderRow) /\ Len(changed) = Len(orders)
      /\ \A w \in Versions : /\ changed[w].status = orders[w].status
                             /\ changed[w].event = orders[w].event
                             /\ changed[w].attempts = orders[w].attempts
                             /\ changed[w].received = orders[w].received
  <2>1. answer \in Answers
    BY <1>1 DEF OrderRow, Answers
  <2> HIDE DEF answer
  <2> DEFINE row == [orders[v] EXCEPT !.answer = answer]
  <2>2. /\ row \in OrderRow /\ row.status = orders[v].status /\ row.event = orders[v].event
        /\ row.attempts = orders[v].attempts /\ row.received = orders[v].received
    BY <1>1, <2>1 DEF OrderRow
  <2>3. changed = [orders EXCEPT ![v] = row]
    OBVIOUS
  <2> HIDE DEF row, changed
  <2> QED  BY <1>1, <2>2, <2>3 DEF OrderInv, OrderRowTypes
<1>6. revision \in OrderRow /\ revision.status = "pending_approval" /\ revision.event = "none"
      /\ revision.attempts = 0 /\ revision.kind = kind /\ revision.quantity = quantity
  BY DEF Version, OrderRow, OrderStatuses, DispatchEvents, Answers
<1> HIDE DEF changed, revision
<1>7. /\ orders' \in Seq(OrderRow) /\ orders' # <<>> /\ Len(orders') = Len(orders) + 1
      /\ Versions' = Versions \union {Len(orders) + 1}
      /\ \A w \in Versions : orders'[w] = changed[w]
      /\ orders'[Len(orders) + 1] = revision
  BY <1>1, <1>2, <1>5, <1>6 DEF Versions
<1>8. OrderRowTypes'
  BY <1>2, <1>7 DEF OrderInv, OrderRowTypes
<1>9. EventFollowsStatus'
  BY <1>5, <1>6, <1>7 DEF OrderInv, EventFollowsStatus
<1>10. LiveAttempt'
  <2> SUFFICES ASSUME NEW a \in dispatches
               PROVE  /\ a[2] <= orders'[a[1]].attempts
                      /\ a[2] = orders'[a[1]].attempts => orders'[a[1]].event = "dispatching"
    BY <1>2 DEF LiveAttempt
  <2>1. a[1] \in Versions
    BY DEF OrderInv, OrderRowTypes
  <2> QED  BY <1>5, <1>7, <2>1 DEF OrderInv, LiveAttempt
<1>11. Chain'
  BY <1>1, <1>2, <1>3, <1>4, <1>5, <1>6, <1>7 DEF OrderInv, Chain, AwaitsDispatch, Posted
<1>12. AmendmentCoversReceipts'
  BY <1>1, <1>2, <1>3, <1>4, <1>5, <1>6, <1>7 DEF AmendmentCoversReceipts, AwaitsDispatch
<1> QED  BY <1>8, <1>9, <1>10, <1>11, <1>12 DEF OrderInv

\* An attempt ends: it issues its version, fails, or has been overtaken.
LEMMA EndDispatchKeeps ==
  ASSUME OrderInv, NEW a \in dispatches, EndDispatch(a[1], a[2])
  PROVE  OrderInv'
<1>1. a = <<a[1], a[2]>> /\ a[1] \in Versions /\ a[2] \in Nat
  BY DEF OrderInv, OrderRowTypes
<1>2. dispatches' = dispatches \ {a}
  BY <1>1 DEF EndDispatch
<1>3. CASE ~ Overtaken(a[1], a[2]) /\ orders' = Issue(a[1])
  BY <1>2, <1>3, IssueKeeps
<1>4. CASE UNCHANGED orders
  BY <1>2, <1>4 DEF OrderInv, OrderRowTypes, EventFollowsStatus, LiveAttempt, Chain,
                    AmendmentCoversReceipts, Versions, AwaitsDispatch, Posted
<1>5. CASE ~ Overtaken(a[1], a[2]) /\ SetOrder(a[1], [event |-> "failed"])
  <2> DEFINE v == a[1]
             fields == [event |-> "failed"]
  <2>1. orders[v].event = "dispatching" /\ orders[v].attempts = a[2] /\ orders[v] \in OrderRow
    BY <1>1, <1>5 DEF OrderInv, OrderRowTypes, Versions, LiveAttempt, Overtaken
  <2>2. orders[v].status = "approved_pending_outbox"
    BY <1>1, <2>1 DEF OrderInv, EventFollowsStatus, OrderRow, OrderStatuses
  <2>3. /\ orders'[v].kind = orders[v].kind /\ orders'[v].quantity = orders[v].quantity
        /\ orders'[v].attempts = orders[v].attempts /\ orders'[v].status = orders[v].status
        /\ orders'[v].event = "failed" /\ orders'[v].answer = orders[v].answer
        /\ orders'[v].confirmed = orders[v].confirmed /\ orders'[v].gate = orders[v].gate
        /\ orders'[v].received = orders[v].received
    <3>1. orders'[v] = [f \in Columns |-> IF f \in DOMAIN fields THEN fields[f] ELSE orders[v][f]]
      BY <1>1, <1>5, SetOrderRow DEF OrderInv
    <3> QED  BY <3>1 DEF Columns
  <2> HIDE DEF fields
  <2>4. /\ orders[v].status \in OrderStatuses /\ orders[v].attempts \in Nat
        /\ orders[v].answer \in Answers /\ orders[v].confirmed \in Nat
        /\ orders[v].gate \in BOOLEAN /\ orders[v].received \in Nat
    BY <2>1 DEF OrderRow
  <2>5. /\ orders' \in Seq(OrderRow) /\ orders' # <<>>
        /\ Len(orders') = Len(orders) /\ Versions' = Versions
        /\ \A w \in Versions \ {v} : orders'[w] = orders[w]
    <3>1. OrderRowTypes /\ orders'[v].event \in DispatchEvents /\ SetOrder(v, fields)
      BY <1>5, <2>3 DEF OrderInv, DispatchEvents, fields
    <3> QED  BY <1>1, <2>3, <2>4, <3>1, OneRowWritten
  <2>6. OrderRowTypes'
    BY <1>2, <2>5 DEF OrderInv, OrderRowTypes
  <2>7. EventFollowsStatus'
    BY <2>2, <2>3, <2>5 DEF OrderInv, EventFollowsStatus
  <2>8. LiveAttempt'
    <3> SUFFICES ASSUME NEW b \in dispatches, b # a
                 PROVE  /\ b[2] <= orders'[b[1]].attempts
                        /\ b[2] = orders'[b[1]].attempts => orders'[b[1]].event = "dispatching"
      BY <1>2 DEF LiveAttempt
    <3>1. b[1] \in Versions /\ b = <<b[1], b[2]>>
      BY DEF OrderInv, OrderRowTypes
    <3>2. b[1] = v => b[2] # orders[v].attempts
      BY <1>1, <2>1, <3>1
    <3> QED  BY <2>3, <2>5, <3>1, <3>2 DEF OrderInv, LiveAttempt
  <2>9. Chain' /\ AmendmentCoversReceipts'
    BY <2>3, <2>5, ChainUntouched DEF Posted, AwaitsDispatch
  <2> QED  BY <2>6, <2>7, <2>8, <2>9 DEF OrderInv
<1> QED  BY <1>3, <1>4, <1>5 DEF EndDispatch

\* No attempt is under way on a version that is still being approved.
LEMMA ApprovalKeeps ==
  ASSUME OrderInv, NEW v \in Versions,
         ApprovePo(v) \/ ApproveChange(v) \/ ApproveEvent(v) \/ RequestDispatch(v)
  PROVE  OrderInv'
<1>1. orders[v] \in OrderRow /\ \A a \in dispatches : a[1] \in Versions /\ a[2] \in Nat
  BY DEF OrderInv, OrderRowTypes, Versions
<1>2. CASE ApprovePo(v) \/ ApproveChange(v)
  <2> DEFINE fields == [status |-> "approved_pending_outbox", event |-> "pending_approval"]
  <2>1. SetOrder(v, fields) /\ dispatches' = dispatches /\ orders[v].status = "pending_approval"
        /\ DOMAIN fields \subseteq {"status", "event"}
    BY <1>2 DEF ApprovePo, ApproveChange
  <2>2. orders'[v].status = "approved_pending_outbox" /\ orders'[v].event = "pending_approval"
    <3>1. orders'[v] = [f \in Columns |-> IF f \in DOMAIN fields THEN fields[f] ELSE orders[v][f]]
      BY <2>1, SetOrderRow DEF OrderInv
    <3> QED  BY <3>1 DEF Columns
  <2> HIDE DEF fields
  <2>3. \A a \in dispatches : a[1] = v => a[2] # orders[v].attempts
    BY <2>1 DEF OrderInv, LiveAttempt, EventFollowsStatus
  <2> QED  BY <2>1, <2>2, <2>3, DispatchColumnsKeep DEF AwaitsDispatch
<1>3. CASE ApproveEvent(v)
  <2> DEFINE fields == [event |-> "approved"]
  <2>1. SetOrder(v, fields) /\ dispatches' = dispatches /\ orders[v].event = "pending_approval"
        /\ DOMAIN fields \subseteq {"status", "event"}
    BY <1>3 DEF ApproveEvent
  <2>2. orders[v].status = "approved_pending_outbox"
    BY <1>1, <2>1 DEF OrderInv, EventFollowsStatus, OrderRow, OrderStatuses
  <2>3. orders'[v].status = orders[v].status /\ orders'[v].event = "approved"
    <3>1. orders'[v] = [f \in Columns |-> IF f \in DOMAIN fields THEN fields[f] ELSE orders[v][f]]
      BY <2>1, SetOrderRow DEF OrderInv
    <3> QED  BY <3>1 DEF Columns
  <2> HIDE DEF fields
  <2>4. \A a \in dispatches : a[1] = v => a[2] # orders[v].attempts
    BY <2>1 DEF OrderInv, LiveAttempt
  <2> QED  BY <2>1, <2>2, <2>3, <2>4, DispatchColumnsKeep DEF AwaitsDispatch
<1>4. CASE RequestDispatch(v)
  <2> DEFINE fields == [event |-> "dispatching"]
  <2>1. SetOrder(v, fields) /\ dispatches' = dispatches /\ orders[v].event \in {"approved", "failed"}
        /\ DOMAIN fields \subseteq {"status", "event"}
    BY <1>4 DEF RequestDispatch
  <2>2. orders[v].status = "approved_pending_outbox"
    BY <1>1, <2>1 DEF OrderInv, EventFollowsStatus, OrderRow, OrderStatuses
  <2>3. orders'[v].status = orders[v].status /\ orders'[v].event = "dispatching"
    <3>1. orders'[v] = [f \in Columns |-> IF f \in DOMAIN fields THEN fields[f] ELSE orders[v][f]]
      BY <2>1, SetOrderRow DEF OrderInv
    <3> QED  BY <3>1 DEF Columns
  <2> HIDE DEF fields
  <2> QED  BY <2>1, <2>2, <2>3, DispatchColumnsKeep DEF AwaitsDispatch
<1> QED  BY <1>2, <1>3, <1>4

\* The supplier, stores and the gate.
LEMMA ActivityKeeps ==
  ASSUME OrderInv, NEW v \in Versions,
         \/ \E a \in {"accepted", "rejected", "change_requested"}, q \in Nat : Acknowledge(v, a, q)
         \/ \E arriving : GateEntry(v, arriving)
         \/ \E q \in Nat : ReceiveGoods(v, q)
  PROVE  OrderInv'
<1>1. orders[v] \in OrderRow
  BY DEF OrderInv, OrderRowTypes, Versions
<1>2. /\ orders[v].answer \in Answers /\ orders[v].confirmed \in Nat
      /\ orders[v].gate \in BOOLEAN /\ orders[v].received \in Nat
  BY <1>1 DEF OrderRow
<1>3. ASSUME NEW a \in {"accepted", "rejected", "change_requested"}, NEW q \in Nat,
             Acknowledge(v, a, q)
      PROVE  OrderInv'
  <2> DEFINE fields == [answer |-> a, confirmed |-> q]
  <2>1. SetOrder(v, fields) /\ dispatches' = dispatches /\ a \in Answers
        /\ DOMAIN fields \subseteq {"answer", "confirmed", "gate", "received"}
    BY <1>3 DEF Acknowledge, Answers
  <2>2. /\ orders'[v].answer = a /\ orders'[v].confirmed = q
        /\ orders'[v].gate = orders[v].gate /\ orders'[v].received = orders[v].received
    <3>1. orders'[v] = [f \in Columns |-> IF f \in DOMAIN fields THEN fields[f] ELSE orders[v][f]]
      BY <2>1, SetOrderRow DEF OrderInv
    <3> QED  BY <3>1 DEF Columns
  <2> HIDE DEF fields
  <2> QED  BY <1>2, <2>1, <2>2, BookkeepingKeeps
<1>4. ASSUME NEW arriving, GateEntry(v, arriving)
      PROVE  OrderInv'
  <2> DEFINE fields == [gate |-> TRUE]
  <2>1. SetOrder(v, fields) /\ dispatches' = dispatches
        /\ DOMAIN fields \subseteq {"answer", "confirmed", "gate", "received"}
    BY <1>4 DEF GateEntry
  <2>2. /\ orders'[v].answer = orders[v].answer /\ orders'[v].confirmed = orders[v].confirmed
        /\ orders'[v].gate = TRUE /\ orders'[v].received = orders[v].received
    <3>1. orders'[v] = [f \in Columns |-> IF f \in DOMAIN fields THEN fields[f] ELSE orders[v][f]]
      BY <2>1, SetOrderRow DEF OrderInv
    <3> QED  BY <3>1 DEF Columns
  <2> HIDE DEF fields
  <2>3. orders'[v].gate \in BOOLEAN
    BY <2>2
  <2> QED  BY <1>2, <2>1, <2>2, <2>3, BookkeepingKeeps
<1>5. ASSUME NEW q \in Nat, ReceiveGoods(v, q)
      PROVE  OrderInv'
  <2> DEFINE fields == [received |-> orders[v].received + q]
  <2>1. SetOrder(v, fields) /\ dispatches' = dispatches /\ ~ ChangePending
        /\ DOMAIN fields \subseteq {"answer", "confirmed", "gate", "received"}
    BY <1>5 DEF ReceiveGoods
  <2>2. /\ orders'[v].answer = orders[v].answer /\ orders'[v].confirmed = orders[v].confirmed
        /\ orders'[v].gate = orders[v].gate /\ orders'[v].received = orders[v].received + q
    <3>1. orders'[v] = [f \in Columns |-> IF f \in DOMAIN fields THEN fields[f] ELSE orders[v][f]]
      BY <2>1, SetOrderRow DEF OrderInv
    <3> QED  BY <3>1 DEF Columns
  <2> HIDE DEF fields
  <2>3. orders'[v].received \in Nat
    BY <1>2, <2>2
  <2> QED  BY <1>2, <2>1, <2>2, <2>3, BookkeepingKeeps
<1> QED  BY <1>3, <1>4, <1>5

LEMMA OrderInitially ==
  ASSUME OrderInit
  PROVE  OrderInv
<1> DEFINE row == Version("original", Ordered)
<1>1. row \in OrderRow /\ row.status = "pending_approval" /\ row.event = "none"
  BY PurchaseOrderAssumption DEF Version, OrderRow, OrderStatuses, DispatchEvents, Answers
<1>2. orders = <<row>> /\ dispatches = {}
  BY DEF OrderInit
<1> HIDE DEF row
<1>3. orders \in Seq(OrderRow) /\ orders # <<>> /\ Len(orders) = 1 /\ Versions = {1} /\ orders[1] = row
  BY <1>1, <1>2 DEF Versions
<1> QED
  BY <1>1, <1>2, <1>3 DEF OrderInv, OrderRowTypes, EventFollowsStatus, LiveAttempt, Chain,
     AmendmentCoversReceipts, AwaitsDispatch, Posted

LEMMA OrderNextKeeps ==
  ASSUME OrderInv, [OrderNext]_orderVars
  PROVE  OrderInv'
<1>1. Quantities \subseteq Nat
  BY PurchaseOrderAssumption DEF Quantities
<1>2. CASE UNCHANGED <<orders, dispatches>>
  BY <1>2 DEF OrderInv, OrderRowTypes, EventFollowsStatus, LiveAttempt, Chain,
              AmendmentCoversReceipts, Versions, AwaitsDispatch, Posted
<1>3. ASSUME NEW v \in Versions,
             ApprovePo(v) \/ ApproveChange(v) \/ ApproveEvent(v) \/ RequestDispatch(v)
      PROVE  OrderInv'
  BY <1>3, ApprovalKeeps
<1>4. ASSUME NEW v \in Versions, BeginDispatch(v)
      PROVE  OrderInv'
  BY <1>4, BeginDispatchKeeps
<1>5. ASSUME NEW a \in dispatches, EndDispatch(a[1], a[2])
      PROVE  OrderInv'
  BY <1>5, EndDispatchKeeps
<1>6. ASSUME NEW v \in Versions,
             \/ \E q \in Quantities : Acknowledge(v, "accepted", q)
             \/ \E a \in {"rejected", "change_requested"} : Acknowledge(v, a, 0)
             \/ \E a \in SUBSET deliveries : GateEntry(v, a)
             \/ \E q \in Quantities : ReceiveGoods(v, q)
      PROVE  OrderInv'
  BY <1>1, <1>6, ActivityKeeps
<1>7. ASSUME NEW v \in Versions, NEW k \in {"amendment", "cancellation"}, NEW q \in Quantities,
             NEW r \in BOOLEAN, PrepareChange(v, k, q, r)
      PROVE  OrderInv'
  BY <1>1, <1>7, PrepareChangeKeeps
<1>8. CASE \/ \E v \in Versions, q \in Quantities : DeliveryNotice(v, q) \/ CreateAsn(v, q)
           \/ \E d \in deliveries : RescheduleDelivery(d)
  BY <1>2, <1>8 DEF DeliveryNotice, CreateAsn, NewDelivery, RescheduleDelivery
<1>9. CASE UNCHANGED orderVars
  BY <1>2, <1>9 DEF orderVars
<1> QED
  BY <1>3, <1>4, <1>5, <1>6, <1>7, <1>8, <1>9 DEF OrderNext

\* What each step leaves of a dispatched event.
LEMMA DispatchedStays ==
  ASSUME OrderInv, OrderNext, NEW v \in Versions, orders[v].event = "dispatched"
  PROVE  orders'[v].event = "dispatched"
<1>1. v \in DOMAIN orders /\ orders[v] \in OrderRow
  BY DEF OrderInv, OrderRowTypes, Versions
<1>2. ASSUME NEW w \in Versions, NEW fields, SetOrder(w, fields),
             w = v => "event" \notin DOMAIN fields
      PROVE  orders'[v].event = "dispatched"
  <2>1. orders' = [orders EXCEPT ![w] = orders'[w]]
        /\ orders'[w] = [f \in Columns |-> IF f \in DOMAIN fields THEN fields[f] ELSE orders[w][f]]
    BY <1>2, SetOrderRow DEF OrderInv
  <2>2. CASE w = v
    BY <1>2, <2>1, <2>2 DEF Columns
  <2> DEFINE row == orders'[w]
  <2>3. orders' = [orders EXCEPT ![w] = row]
    BY <2>1
  <2> HIDE DEF row
  <2>4. CASE w # v
    BY <1>1, <2>3, <2>4
  <2> QED  BY <2>2, <2>4
<1>3. ASSUME NEW w \in Versions,
             ApprovePo(w) \/ ApproveChange(w) \/ ApproveEvent(w) \/ RequestDispatch(w)
               \/ BeginDispatch(w)
      PROVE  orders'[v].event = "dispatched"
  <2>1. w # v
    BY <1>1, <1>3
       DEF ApprovePo, ApproveChange, ApproveEvent, RequestDispatch, BeginDispatch, OrderInv,
           EventFollowsStatus
  <2>2. \E fields : SetOrder(w, fields)
    BY <1>3 DEF ApprovePo, ApproveChange, ApproveEvent, RequestDispatch, BeginDispatch
  <2> QED  BY <1>2, <2>1, <2>2
<1>4. ASSUME NEW a \in dispatches, EndDispatch(a[1], a[2])
      PROVE  orders'[v].event = "dispatched"
  <2>1. a[1] \in Versions
    BY DEF OrderInv, OrderRowTypes
  <2>2. CASE UNCHANGED orders
    BY <2>2
  <2>3. CASE orders' = Issue(a[1])
    <3>1. /\ v = a[1] => orders'[v] = [orders[v] EXCEPT !.event = "dispatched",
                           !.status = IF orders[v].kind = "cancellation" THEN "cancelled" ELSE "posted"]
          /\ v = a[1] - 1 /\ v # a[1] => orders'[v] = [orders[v] EXCEPT !.status =
               IF orders[a[1]].kind = "cancellation" THEN "cancelled" ELSE "superseded"]
          /\ v # a[1] /\ v # a[1] - 1 => orders'[v] = orders[v]
      BY <2>3 DEF Issue
    <3>2. "event" \in DOMAIN orders[v]
      BY <1>1 DEF OrderRow
    <3> QED  BY <3>1, <3>2
  <2>4. CASE ~ Overtaken(a[1], a[2]) /\ SetOrder(a[1], [event |-> "failed"])
    <3>1. a[1] # v
      BY <2>4 DEF Overtaken, OrderInv, LiveAttempt
    <3> QED  BY <1>2, <2>1, <2>4, <3>1
  <2> QED  BY <1>4, <2>2, <2>3, <2>4 DEF EndDispatch
<1>5. ASSUME NEW w \in Versions,
             \/ \E a, q : Acknowledge(w, a, q)
             \/ \E a : GateEntry(w, a)
             \/ \E q : ReceiveGoods(w, q)
      PROVE  orders'[v].event = "dispatched"
  <2>1. ASSUME NEW a, NEW q, Acknowledge(w, a, q)
        PROVE  orders'[v].event = "dispatched"
    <3>1. SetOrder(w, [answer |-> a, confirmed |-> q]) /\ "event" \notin DOMAIN [answer |-> a, confirmed |-> q]
      BY <2>1 DEF Acknowledge
    <3> QED  BY <1>2, <3>1
  <2>2. ASSUME NEW a, GateEntry(w, a)
        PROVE  orders'[v].event = "dispatched"
    <3>1. SetOrder(w, [gate |-> TRUE]) /\ "event" \notin DOMAIN [gate |-> TRUE]
      BY <2>2 DEF GateEntry
    <3> QED  BY <1>2, <3>1
  <2>3. ASSUME NEW q, ReceiveGoods(w, q)
        PROVE  orders'[v].event = "dispatched"
    <3>1. SetOrder(w, [received |-> orders[w].received + q])
          /\ "event" \notin DOMAIN [received |-> orders[w].received + q]
      BY <2>3 DEF ReceiveGoods
    <3> QED  BY <1>2, <3>1
  <2> QED  BY <1>5, <2>1, <2>2, <2>3
<1>6. ASSUME NEW w \in Versions, NEW k, NEW q, NEW r, PrepareChange(w, k, q, r)
      PROVE  orders'[v].event = "dispatched"
  <2> DEFINE changed == [orders EXCEPT ![w].answer = IF r THEN "change_prepared" ELSE @]
  <2>1. orders' = Append(changed, Version(k, q))
    BY <1>6 DEF PrepareChange
  <2>2. v \in 1..Len(orders) /\ Len(changed) = Len(orders) /\ changed[v].event = orders[v].event
    BY <1>1 DEF OrderRow, OrderInv, OrderRowTypes
  <2> HIDE DEF changed
  <2>3. orders'[v] = changed[v]
    BY <2>1, <2>2
  <2> QED  BY <2>2, <2>3
<1>7. CASE \/ \E w \in Versions, q \in Quantities : DeliveryNotice(w, q) \/ CreateAsn(w, q)
           \/ \E d \in deliveries : RescheduleDelivery(d)
  BY <1>7 DEF DeliveryNotice, CreateAsn, NewDelivery, RescheduleDelivery
<1> QED
  BY <1>3, <1>4, <1>5, <1>6, <1>7 DEF OrderNext

\* The inductive invariant: what waits is the last version and replaces the
\* only one in force (prepare_po_change, approve_po_change, the dispatch worker).
THEOREM OrderInvariant == OrderSpec => []OrderInv
<1>1. OrderInit => OrderInv
  BY OrderInitially
<1>2. OrderInv /\ [OrderNext]_orderVars => OrderInv'
  BY OrderNextKeeps
<1> QED  BY <1>1, <1>2, PTL DEF OrderSpec

\* For any number of versions, attempts that overlap and crash, and deliveries,
\* one version of an order is in force at most and one change on its way.
THEOREM OneVersionInForce == OrderSpec => []OneOrderInForce
<1>1. OrderInv => OneOrderInForce
  <2> SUFFICES ASSUME OrderInv PROVE OneOrderInForce
    OBVIOUS
  <2> DEFINE inForce == {v \in Versions : Posted(v)}
  <2>1. \A v, w \in inForce : v = w
    BY DEF OrderInv, Chain, AwaitsDispatch, Posted
  <2> HIDE DEF inForce
  <2>2. ASSUME inForce = {}
        PROVE  Cardinality(inForce) <= 1
    <3>1. Cardinality(inForce) = 0
      BY <2>2, FS_EmptySet, Zenon
    <3> QED  BY <3>1
  <2>3. ASSUME inForce # {}
        PROVE  Cardinality(inForce) <= 1
    <3>1. PICK v : v \in inForce
      BY <2>3
    <3>2. inForce = {v}
      BY <2>1, <3>1
    <3>3. Cardinality(inForce) = 1
      BY <3>2, FS_Singleton, Zenon
    <3> QED  BY <3>3
  <2>4. Cardinality({v \in Versions : Posted(v)}) <= 1
    BY <2>2, <2>3 DEF inForce
  <2> QED  BY <2>4 DEF OrderInv, Chain, OneOrderInForce
<1> QED  BY <1>1, OrderInvariant, PTL

\* An amendment that waits covers what has been received on the version it
\* replaces: receipts stop while a change is pending.
THEOREM AmendmentsCoverReceipts == OrderSpec => []AmendmentCoversReceipts
<1>1. OrderInv => AmendmentCoversReceipts
  BY DEF OrderInv
<1> QED  BY <1>1, OrderInvariant, PTL

\* An attempt that ends late does not undo a dispatch that succeeded.
THEOREM DispatchesAreFinal == OrderSpec => DispatchIsFinal
<1>1. OrderInv /\ [OrderNext]_orderVars =>
        [\A v \in Versions : orders[v].event = "dispatched" => orders'[v].event = "dispatched"]_orderVars
  BY DispatchedStays
<1> QED  BY <1>1, OrderInvariant, PTL DEF OrderSpec, DispatchIsFinal
-----------------------------------------------------------------------------
(* Lemmas about sums.  A column is summed by a recursive function, so what *)
(* is said of it needs an induction, over a set of numbers here.           *)

\* A set that holds 0, and the successor of each of its numbers below n.
LEMMA Induction ==
  ASSUME NEW n \in Nat, NEW S, 0 \in S, \A k \in 0..n - 1 : k \in S => k + 1 \in S
  PROVE  0..n \subseteq S
<1> DEFINE T == (0..n) \ S
           less == OpToRel(<, Nat)
<1>1. SUFFICES ASSUME T # {}
               PROVE  FALSE
  OBVIOUS
<1>2. IsWellFoundedOn(less, Nat)
  BY NatLessThanWellFounded
<1>3. \A a, b \in Nat : a < b => <<a, b>> \in less
  BY DEF OpToRel
<1>4. T \subseteq Nat
  OBVIOUS
<1>5. \E x \in T : \A y \in T : ~ (<<y, x>> \in less)
  <2> HIDE DEF T, less
  <2> QED  BY <1>1, <1>2, <1>4, WFMin
<1> HIDE DEF less
<1>6. PICK m \in T : \A y \in T : ~ (<<y, m>> \in less)
  BY <1>5
<1>7. m \in 1..n /\ m - 1 \in 0..n - 1
  BY <1>6
<1>8. m - 1 \notin T
  <2>1. m \in Nat /\ m - 1 \in Nat /\ m - 1 < m
    BY <1>7
  <2>2. <<m - 1, m>> \in less
    BY <1>3, <2>1
  <2> HIDE DEF T
  <2> QED  BY <1>6, <2>2
<1>9. m - 1 \in S
  BY <1>7, <1>8
<1>10. (m - 1) + 1 \in S
  BY <1>7, <1>9
<1>11. m \in S
  BY <1>7, <1>10
<1> QED  BY <1>6, <1>11

\* The sums of the first quantities of a column.
Sums(column, n, sums) ==
  sums = [k \in 0..n |-> IF k = 0 THEN 0 ELSE sums[k - 1] + column[k]]

\* The function that adds a column up exists for every column of numbers.
LEMMA SumsExist ==
  ASSUME NEW column \in Seq(Nat)
  PROVE  \A n \in 0..Len(column) : \E sums \in [0..n -> Nat] : Sums(column, n, sums)
<1> DEFINE S == {n \in 0..Len(column) : \E sums \in [0..n -> Nat] : Sums(column, n, sums)}
<1>1. Len(column) \in Nat
  OBVIOUS
<1>2. 0 \in S
  <2> DEFINE none == [k \in 0..0 |-> 0]
  <2>1. none \in [0..0 -> Nat] /\ Sums(column, 0, none)
    BY DEF Sums
  <2> QED  BY <2>1
<1>3. ASSUME NEW n \in 0..Len(column) - 1, n \in S
      PROVE  n + 1 \in S
  <2>1. PICK sums \in [0..n -> Nat] : Sums(column, n, sums)
    BY <1>3
  <2> DEFINE more == [k \in 0..n + 1 |-> IF k = n + 1 THEN sums[n] + column[n + 1] ELSE sums[k]]
  <2>2. column[n + 1] \in Nat
    BY <1>1
  <2>3. more \in [0..n + 1 -> Nat]
    BY <2>2
  <2>4. \A k \in 0..n + 1 : more[k] = IF k = 0 THEN 0 ELSE more[k - 1] + column[k]
    BY <2>1, SMTT(30) DEF Sums
  <2>5. Sums(column, n + 1, more)
    BY <2>4 DEF Sums
  <2> HIDE DEF more
  <2>6. \E s \in [0..n + 1 -> Nat] : Sums(column, n + 1, s)
    BY <2>3, <2>5
  <2>7. n + 1 \in 0..Len(column)
    BY <1>1
  <2> QED  BY <2>6, <2>7
<1> HIDE DEF S
<1>4. 0..Len(column) \subseteq S
  BY <1>1, <1>2, <1>3, Induction
<1> QED  BY <1>4 DEF S

LEMMA SumsAreNumbers ==
  ASSUME NEW column \in Seq(Nat), NEW n \in 0..Len(column), NEW sums, Sums(column, n, sums)
  PROVE  /\ \A k \in 0..n : sums[k] \in Nat
         /\ sums[0] = 0
         /\ \A k \in 1..n : sums[k] = sums[k - 1] + column[k]
<1> DEFINE S == {k \in 0..n : sums[k] \in Nat}
<1>1. n \in Nat /\ sums[0] = 0
  BY DEF Sums
<1>2. ASSUME NEW k \in 1..n
      PROVE  sums[k] = sums[k - 1] + column[k] /\ column[k] \in Nat
  BY SMTT(30) DEF Sums
<1>3. ASSUME NEW k \in 0..n - 1, k \in S
      PROVE  k + 1 \in S
  <2>1. k + 1 \in 1..n /\ (k + 1) - 1 = k
    BY <1>1
  <2>2. sums[k + 1] = sums[k] + column[k + 1] /\ column[k + 1] \in Nat
    BY <1>2, <2>1
  <2> QED  BY <1>3, <2>1, <2>2
<1>4. 0 \in S
  BY <1>1
<1> HIDE DEF S
<1>5. 0..n \subseteq S
  BY <1>1, <1>3, <1>4, Induction
<1> QED  BY <1>1, <1>2, <1>5 DEF S

LEMMA TotalSums ==
  ASSUME NEW column \in Seq(Nat)
  PROVE  \E sums : Sums(column, Len(column), sums) /\ Total(column) = sums[Len(column)]
<1> DEFINE upto == CHOOSE sums : sums = [n \in 0..Len(column) |-> IF n = 0 THEN 0 ELSE sums[n - 1] + column[n]]
<1>1. Len(column) \in 0..Len(column)
  OBVIOUS
<1>2. PICK sums \in [0..Len(column) -> Nat] : Sums(column, Len(column), sums)
  BY <1>1, SumsExist
<1>3. Sums(column, Len(column), upto)
  BY <1>2 DEF Sums
<1>4. Total(column) = upto[Len(column)]
  BY DEF Total
<1> QED  BY <1>3, <1>4

LEMMA BothGrow ==
  ASSUME NEW a \in Nat, NEW b \in Nat, NEW c \in Nat, NEW d \in Nat, NEW x \in Nat, NEW y \in Nat,
         a + x <= b, c + y <= d
  PROVE  (a + c) + (x + y) <= b + d
OBVIOUS

\* A column that is larger by "more" in one place, and nowhere smaller.
LEMMA TotalGrows ==
  ASSUME NEW small \in Seq(Nat), NEW large \in Seq(Nat), Len(small) = Len(large),
         NEW more \in Nat, NEW place \in Nat \ {0},
         \A k \in 1..Len(small) : small[k] + (IF k = place THEN more ELSE 0) <= large[k]
  PROVE  Total(small) + (IF place <= Len(small) THEN more ELSE 0) <= Total(large)
<1> DEFINE n == Len(small)
<1>1. PICK s : Sums(small, n, s) /\ Total(small) = s[n]
  BY TotalSums
<1>2. PICK l : Sums(large, n, l) /\ Total(large) = l[n]
  BY TotalSums
<1>3. n \in Nat /\ n \in 0..Len(small) /\ n \in 0..Len(large) /\ n \in 0..n
  OBVIOUS
<1>4. /\ \A k \in 0..n : s[k] \in Nat
      /\ s[0] = 0
      /\ \A k \in 1..n : s[k] = s[k - 1] + small[k]
  BY <1>1, <1>3, SumsAreNumbers
<1>5. /\ \A k \in 0..n : l[k] \in Nat
      /\ l[0] = 0
      /\ \A k \in 1..n : l[k] = l[k - 1] + large[k]
  BY <1>2, <1>3, SumsAreNumbers
<1>6. \A k \in 1..n : small[k] \in Nat /\ large[k] \in Nat
  OBVIOUS
<1> DEFINE S == {k \in 0..n : s[k] + (IF place <= k THEN more ELSE 0) <= l[k]}
<1> HIDE DEF n
<1>7. 0 \in S
  <2>1. s[0] + (IF place <= 0 THEN more ELSE 0) <= l[0]
    BY <1>4, <1>5
  <2> QED  BY <1>3, <2>1
<1>8. ASSUME NEW k \in 0..n - 1, k \in S
      PROVE  k + 1 \in S
  <2>1. k + 1 \in 1..n /\ (k + 1) - 1 = k /\ k \in 0..n
    BY <1>3
  <2>2. /\ s[k + 1] = s[k] + small[k + 1] /\ s[k] \in Nat /\ small[k + 1] \in Nat
        /\ l[k + 1] = l[k] + large[k + 1] /\ l[k] \in Nat /\ large[k + 1] \in Nat
    BY <1>4, <1>5, <1>6, <2>1
  <2>3. small[k + 1] + (IF k + 1 = place THEN more ELSE 0) <= large[k + 1]
    BY <2>1 DEF n
  <2>4. s[k] + (IF place <= k THEN more ELSE 0) <= l[k]
    BY <1>8
  <2>5. s[k + 1] + (IF place <= k + 1 THEN more ELSE 0) <= l[k + 1]
    <3> HIDE DEF S
    <3> DEFINE x == IF place <= k THEN more ELSE 0
               y == IF k + 1 = place THEN more ELSE 0
    <3>1. x \in Nat /\ y \in Nat
      OBVIOUS
    <3>2. (IF place <= k + 1 THEN more ELSE 0) = x + y
      BY <2>1
    <3> HIDE DEF x, y
    <3>3. (s[k] + small[k + 1]) + (x + y) <= l[k] + large[k + 1]
      BY <2>2, <2>3, <2>4, <3>1, BothGrow DEF x, y
    <3> QED  BY <2>2, <3>2, <3>3
  <2>6. k + 1 \in 0..n
    BY <1>3
  <2> QED  BY <2>5, <2>6
<1> HIDE DEF S
<1>9. n \in S
  <2>1. 0..n \subseteq S
    BY <1>3, <1>7, <1>8, Induction
  <2> QED  BY <1>3, <2>1
<1> QED  BY <1>1, <1>2, <1>9 DEF S, n

LEMMA TotalIsNumber ==
  ASSUME NEW column \in Seq(Nat)
  PROVE  Total(column) \in Nat
<1>1. PICK s : Sums(column, Len(column), s) /\ Total(column) = s[Len(column)]
  BY TotalSums
<1>2. Len(column) \in 0..Len(column)
  OBVIOUS
<1> QED  BY <1>1, <1>2, SumsAreNumbers

LEMMA TotalOfLonger ==
  ASSUME NEW column \in Seq(Nat), NEW q \in Nat
  PROVE  Total(Append(column, q)) = Total(column) + q
<1> DEFINE n == Len(column)
           longer == Append(column, q)
<1>1. /\ longer \in Seq(Nat) /\ Len(longer) = n + 1 /\ n \in Nat
      /\ longer[n + 1] = q /\ \A k \in 1..n : longer[k] = column[k]
  OBVIOUS
<1>2. PICK l : Sums(longer, n + 1, l) /\ Total(longer) = l[n + 1]
  <2> HIDE DEF longer, n
  <2> QED  BY <1>1, TotalSums
<1>3. /\ \A k \in 0..n + 1 : l[k] \in Nat
      /\ l[0] = 0
      /\ \A k \in 1..n + 1 : l[k] = l[k - 1] + longer[k]
  <2>1. n + 1 \in 0..Len(longer)
    BY <1>1
  <2> HIDE DEF longer, n
  <2> QED  BY <1>1, <1>2, <2>1, SumsAreNumbers
<1>4. PICK c : Sums(column, n, c) /\ Total(column) = c[n]
  BY TotalSums
<1>5. /\ \A k \in 0..n : c[k] \in Nat
      /\ c[0] = 0
      /\ \A k \in 1..n : c[k] = c[k - 1] + column[k]
  BY <1>1, <1>4, SumsAreNumbers
<1> DEFINE S == {k \in 0..n : c[k] = l[k]}
<1> HIDE DEF n, longer
<1>6. 0 \in S
  BY <1>1, <1>3, <1>5
<1>7. ASSUME NEW k \in 0..n - 1, k \in S
      PROVE  k + 1 \in S
  <2>1. k + 1 \in 1..n /\ (k + 1) - 1 = k /\ k \in 0..n
    BY <1>1
  <2> QED  BY <1>1, <1>3, <1>5, <1>7, <2>1
<1> HIDE DEF S
<1>8. 0..n \subseteq S
  BY <1>1, <1>6, <1>7, Induction
<1>9. l[n + 1] = l[n] + q /\ c[n] = l[n]
  <2>1. n \in S /\ n + 1 \in 1..n + 1 /\ (n + 1) - 1 = n
    BY <1>1, <1>8
  <2> QED  BY <1>1, <1>3, <2>1 DEF S
<1> QED  BY <1>2, <1>4, <1>9 DEF longer
LEMMA TotalIsMonotone ==
  ASSUME NEW small \in Seq(Nat), NEW large \in Seq(Nat), Len(small) = Len(large),
         \A k \in 1..Len(small) : small[k] <= large[k]
  PROVE  Total(small) <= Total(large)
<1>1. \A k \in 1..Len(small) : small[k] + (IF k = 1 THEN 0 ELSE 0) <= large[k]
  OBVIOUS
<1>2. 0 \in Nat /\ 1 \in Nat \ {0}
  OBVIOUS
<1>3. Total(small) + (IF 1 <= Len(small) THEN 0 ELSE 0) <= Total(large)
  BY <1>1, <1>2, TotalGrows
<1>4. Total(small) \in Nat /\ Total(large) \in Nat
  BY TotalIsNumber
<1> QED  BY <1>3, <1>4

-----------------------------------------------------------------------------
(***************************************************************************)
(* Inbound, for any quantities and any number of receipts and inspections. *)
(*                                                                         *)
(* StockIsReceived compares two sums.  What connects them is a third, over *)
(* the receipts, of what each has had inspected: no receipt has more of it *)
(* than it brought (InspectedWithin), and an inspection adds to one of its *)
(* terms at least what it books (BookedIsInspected).                       *)
(***************************************************************************)
ReturnStatuses ==
  {"draft", "replacement_requested", "replacement_partially_received", "replacement_received",
   "replacement_rejected", "replacement_accepted", "replacement_partially_accepted"}

ReceiptRow ==
  [quantity : Nat, replaces : Nat, flaw : {"none", "damaged", "wrong_material", "certificate"},
   exceptional : BOOLEAN]

InspectionRow ==
  [receipt : Nat, quantity : Nat, accepted : Nat, rejected : Nat, held : Nat, verified : BOOLEAN]

ReturnRow ==
  [inspection : Nat, quantity : Nat, status : ReturnStatuses, requested : Nat, replaced : Nat]

StockRow == [usable : Nat, rejected : Nat, held : Nat]

MaterialTypes ==
  /\ inspected \in BOOLEAN
  /\ receipts \in Seq(ReceiptRow)
  /\ inspections \in Seq(InspectionRow)
  /\ returns \in Seq(ReturnRow)
  /\ stock \in StockRow

ReceiptsAreKnown ==
  \A q \in DOMAIN inspections : inspections[q].receipt \in DOMAIN receipts

InspectedWithin ==
  \A i \in DOMAIN receipts : Inspected(i) <= receipts[i].quantity

\* What all receipts have had inspected bounds what is booked.
BookedIsInspected ==
  inspected => stock.usable + stock.rejected + stock.held
                 <= Total([i \in DOMAIN receipts |-> Inspected(i)])

MaterialInv ==
  /\ MaterialTypes
  /\ ReceiptsAreKnown
  /\ InspectedWithin
  /\ BookedIsInspected

InspectedIn(rows, i) ==
  Total([q \in DOMAIN rows |-> Counted(rows[q].receipt = i, rows[q].quantity)])

LEMMA ColumnOfReceipt ==
  ASSUME NEW rows \in Seq(InspectionRow), NEW i
  PROVE  [q \in DOMAIN rows |-> Counted(rows[q].receipt = i, rows[q].quantity)] \in Seq(Nat)
<1>1. ASSUME NEW q \in DOMAIN rows
      PROVE  rows[q].quantity \in Nat
  <2>1. rows[q] \in InspectionRow
    OBVIOUS
  <2> QED  BY <2>1 DEF InspectionRow
<1>2. DOMAIN rows = 1..Len(rows) /\ Len(rows) \in Nat
  OBVIOUS
<1> QED  BY <1>1, <1>2 DEF Counted

LEMMA InspectedIsNumber ==
  ASSUME NEW rows \in Seq(InspectionRow), NEW i
  PROVE  InspectedIn(rows, i) \in Nat
BY ColumnOfReceipt, TotalIsNumber DEF InspectedIn

LEMMA ReceiptColumns ==
  ASSUME MaterialTypes
  PROVE  /\ [i \in DOMAIN receipts |-> Inspected(i)] \in Seq(Nat)
         /\ [i \in DOMAIN receipts |-> receipts[i].quantity] \in Seq(Nat)
<1>1. ASSUME NEW i \in DOMAIN receipts
      PROVE  receipts[i].quantity \in Nat
  <2>1. receipts[i] \in ReceiptRow
    BY DEF MaterialTypes
  <2> QED  BY <2>1 DEF ReceiptRow
<1>2. DOMAIN receipts = 1..Len(receipts) /\ Len(receipts) \in Nat
  BY DEF MaterialTypes
<1>3. \A i \in DOMAIN receipts : Inspected(i) \in Nat
  BY InspectedIsNumber DEF Inspected, InspectedIn, MaterialTypes
<1> QED  BY <1>1, <1>2, <1>3

\* The sum over what was inspected lies between what is booked and what arrived.
LEMMA InspectedIsBetween ==
  ASSUME MaterialInv
  PROVE  StockIsReceived
<1> DEFINE small == [i \in DOMAIN receipts |-> Inspected(i)]
           large == [i \in DOMAIN receipts |-> receipts[i].quantity]
<1>1. small \in Seq(Nat) /\ large \in Seq(Nat)
  BY ReceiptColumns DEF MaterialInv
<1>2. DOMAIN receipts = 1..Len(receipts) /\ Len(receipts) \in Nat
  BY DEF MaterialInv, MaterialTypes
<1>3. Len(small) = Len(large) /\ Len(small) = Len(receipts)
  BY <1>2
<1>4. \A k \in 1..Len(small) : small[k] <= large[k] /\ small[k] \in Nat
  BY <1>1, <1>2, <1>3 DEF MaterialInv, InspectedWithin
<1>5. Total(small) \in Nat /\ Total(large) \in Nat
  BY <1>1, TotalIsNumber
<1> HIDE DEF small, large
<1>8. Total(small) <= Total(large)
  BY <1>1, <1>3, <1>4, TotalIsMonotone
<1>9. stock.usable + stock.rejected + stock.held \in Nat
  BY DEF MaterialInv, MaterialTypes, StockRow
<1>10. inspected => stock.usable + stock.rejected + stock.held <= Total(small)
  BY DEF MaterialInv, BookedIsInspected, small
<1>11. inspected => stock.usable + stock.rejected + stock.held <= Total(large)
  BY <1>5, <1>8, <1>9, <1>10
<1> QED  BY <1>11 DEF StockIsReceived, Arrived, large

\* What was inspected only depends on the inspections.
LEMMA InspectedStays ==
  ASSUME UNCHANGED inspections
  PROVE  \A i : Inspected(i)' = Inspected(i)
BY DEF Inspected, Total, Counted

\* A new receipt has had nothing inspected.
LEMMA NothingInspected ==
  ASSUME MaterialTypes, NEW i, \A q \in DOMAIN inspections : inspections[q].receipt # i
  PROVE  Inspected(i) = 0
<1> DEFINE c == [q \in DOMAIN inspections |-> Counted(inspections[q].receipt = i, inspections[q].quantity)]
<1>1. c \in Seq(Nat)
  BY ColumnOfReceipt DEF MaterialTypes
<1>2. \A q \in DOMAIN inspections : c[q] = 0
  BY DEF Counted
<1>3. Len(c) = Len(inspections) /\ Len(c) \in Nat
  BY <1>1 DEF MaterialTypes
<1>4. DOMAIN inspections = 1..Len(c)
  BY <1>3 DEF MaterialTypes
<1>5. Inspected(i) = Total(c)
  BY DEF Inspected
<1> HIDE DEF c
<1>6. PICK sums : Sums(c, Len(c), sums) /\ Total(c) = sums[Len(c)]
  BY <1>1, TotalSums
<1>7. /\ sums[0] = 0
      /\ \A k \in 1..Len(c) : sums[k] = sums[k - 1] + c[k]
  <2>1. Len(c) \in 0..Len(c)
    BY <1>3
  <2> QED  BY <1>1, <1>6, <2>1, SumsAreNumbers
<1> DEFINE S == {k \in 0..Len(c) : sums[k] = 0}
<1>8. 0 \in S
  BY <1>3, <1>7
<1>9. ASSUME NEW k \in 0..Len(c) - 1, k \in S
      PROVE  k + 1 \in S
  <2>1. k + 1 \in 1..Len(c) /\ (k + 1) - 1 = k
    BY <1>3
  <2>2. sums[k + 1] = sums[k] + c[k + 1] /\ c[k + 1] = 0 /\ sums[k] = 0
    BY <1>2, <1>4, <1>7, <1>9, <2>1
  <2> QED  BY <2>1, <2>2
<1> HIDE DEF S
<1>10. 0..Len(c) \subseteq S
  BY <1>3, <1>8, <1>9, Induction
<1> QED  BY <1>3, <1>5, <1>6, <1>10 DEF S

\* Lemmas about appending and booking.
LEMMA OneMore ==
  ASSUME NEW column \in Seq(Nat), NEW longer \in Seq(Nat), Len(longer) = Len(column) + 1,
         \A k \in 1..Len(column) : longer[k] = column[k]
  PROVE  longer = Append(column, longer[Len(longer)])
OBVIOUS

LEMMA SumsOfThree ==
  ASSUME NEW a \in Nat, NEW b \in Nat, NEW c \in Nat, NEW x \in Nat, NEW y \in Nat, NEW z \in Nat
  PROVE  /\ (a + x) + (b + y) + (c + z) = (a + b + c) + (x + y + z)
         /\ a + b + c \in Nat
         /\ a + x \in Nat /\ b + y \in Nat /\ c + z \in Nat
OBVIOUS

LEMMA Booking ==
  ASSUME NEW s \in StockRow, NEW x \in Nat, NEW y \in Nat, NEW z \in Nat,
         NEW t, t = [usable |-> s.usable + x, rejected |-> s.rejected + y, held |-> s.held + z]
  PROVE  /\ t \in StockRow
         /\ t.usable + t.rejected + t.held = (s.usable + s.rejected + s.held) + (x + y + z)
<1>1. s.usable \in Nat /\ s.rejected \in Nat /\ s.held \in Nat
  BY DEF StockRow
<1>2. t.usable = s.usable + x /\ t.rejected = s.rejected + y /\ t.held = s.held + z
  OBVIOUS
<1>3. s.usable + x \in Nat /\ s.rejected + y \in Nat /\ s.held + z \in Nat
  BY <1>1, SumsOfThree
<1>4. t \in StockRow
  BY <1>3 DEF StockRow
<1>5. t.usable + t.rejected + t.held = (s.usable + s.rejected + s.held) + (x + y + z)
  BY <1>1, <1>2, SumsOfThree
<1> QED  BY <1>4, <1>5

\* A receipt brings goods nobody has inspected.  Without inspection it may book.
LEMMA ReceiptAdded ==
  ASSUME MaterialInv, NEW row \in ReceiptRow, receipts' = Append(receipts, row),
         UNCHANGED <<inspected, inspections>>,
         stock' \in StockRow, inspected => UNCHANGED stock,
         returns' \in Seq(ReturnRow)
  PROVE  MaterialInv'
<1> DEFINE n == Len(receipts)
           column == [i \in DOMAIN receipts |-> Inspected(i)]
<1>1. /\ n \in Nat /\ DOMAIN receipts = 1..n /\ DOMAIN receipts' = 1..n + 1
      /\ receipts' \in Seq(ReceiptRow)
      /\ receipts'[n + 1] = row /\ \A i \in 1..n : receipts'[i] = receipts[i]
  BY DEF MaterialInv, MaterialTypes
<1>2. MaterialTypes'
  BY <1>1 DEF MaterialInv, MaterialTypes
<1>3. \A i : Inspected(i)' = Inspected(i)
  BY InspectedStays
<1>4. ReceiptsAreKnown'
  BY <1>1 DEF MaterialInv, ReceiptsAreKnown
<1>5. Inspected(n + 1) = 0
  <2>1. \A q \in DOMAIN inspections : inspections[q].receipt # n + 1
    BY <1>1 DEF MaterialInv, ReceiptsAreKnown
  <2> QED  BY <2>1, NothingInspected DEF MaterialInv
<1>6. InspectedWithin'
  <2>1. row.quantity \in Nat
    BY DEF ReceiptRow
  <2>2. ASSUME NEW i \in 1..n + 1
        PROVE  Inspected(i) <= receipts'[i].quantity
    <3>1. CASE i = n + 1
      BY <1>1, <1>5, <2>1, <3>1
    <3>2. CASE i # n + 1
      <4>1. i \in 1..n
        BY <1>1, <3>2
      <4> QED  BY <1>1, <4>1 DEF MaterialInv, InspectedWithin
    <3> QED  BY <3>1, <3>2
  <2> QED  BY <1>1, <1>3, <2>2 DEF InspectedWithin
<1> DEFINE longer == [i \in DOMAIN receipts' |-> Inspected(i)]
<1>7. column \in Seq(Nat) /\ DOMAIN longer = 1..n + 1 /\ DOMAIN column = 1..n
  BY <1>1, ReceiptColumns DEF MaterialInv
<1>8. Total([i \in DOMAIN receipts |-> Inspected(i)])' = Total(longer)
  <2>1. [i \in DOMAIN receipts |-> Inspected(i)]' = longer
    BY <1>3
  <2> QED  BY <2>1
<1>9. Total(longer) = Total(column) /\ Total(column) \in Nat
  <2>1. \A i \in 1..n + 1 : longer[i] = Inspected(i)
    BY <1>1
  <2>2. \A i \in 1..n : column[i] = Inspected(i)
    BY <1>1
  <2>3. \A i \in 1..n + 1 : Inspected(i) \in Nat
    BY InspectedIsNumber DEF MaterialInv, MaterialTypes, Inspected, InspectedIn
  <2>4. longer \in Seq(Nat) /\ Len(longer) = n + 1 /\ Len(column) = n
    BY <1>1, <2>3
  <2> HIDE DEF longer, column
  <2>5. longer[n + 1] = 0 /\ \A i \in 1..n : longer[i] = column[i]
    BY <1>1, <1>5, <2>1, <2>2
  <2>6. longer = Append(column, 0)
    <3>1. longer = Append(column, longer[Len(longer)])
      BY <1>7, <2>4, <2>5, OneMore
    <3> QED  BY <2>4, <2>5, <3>1
  <2>7. Total(Append(column, 0)) = Total(column) + 0
    BY <1>7, TotalOfLonger
  <2> QED  BY <1>7, <2>6, <2>7, TotalIsNumber
<1>10. BookedIsInspected'
  BY <1>8, <1>9 DEF MaterialInv, BookedIsInspected
<1> QED  BY <1>2, <1>4, <1>6, <1>10 DEF MaterialInv

\* An inspection books no more than it inspects.
LEMMA InspectionAdded ==
  ASSUME MaterialInv, NEW row \in InspectionRow, row.receipt \in DOMAIN receipts,
         inspections' = Append(inspections, row),
         UNCHANGED <<inspected, receipts>>,
         row.accepted + row.rejected + row.held <= row.quantity,
         Inspected(row.receipt) + row.quantity <= receipts[row.receipt].quantity,
         Book(row.accepted, row.rejected, row.held),
         returns' \in Seq(ReturnRow)
  PROVE  MaterialInv'
<1> DEFINE i == row.receipt
           n == Len(inspections)
           small == [k \in DOMAIN receipts |-> Inspected(k)]
           large == [k \in DOMAIN receipts |-> InspectedIn(inspections', k)]
<1>1. /\ n \in Nat /\ DOMAIN inspections = 1..n /\ DOMAIN inspections' = 1..n + 1
      /\ inspections' \in Seq(InspectionRow)
      /\ inspections'[n + 1] = row /\ \A q \in 1..n : inspections'[q] = inspections[q]
  BY DEF MaterialInv, MaterialTypes
<1>2. /\ row.accepted \in Nat /\ row.rejected \in Nat /\ row.held \in Nat /\ row.quantity \in Nat
      /\ stock.usable \in Nat /\ stock.rejected \in Nat /\ stock.held \in Nat
  BY DEF InspectionRow, MaterialInv, MaterialTypes, StockRow
<1>3. /\ stock' \in StockRow
      /\ stock'.usable + stock'.rejected + stock'.held
           = (stock.usable + stock.rejected + stock.held) + (row.accepted + row.rejected + row.held)
  <2>1. stock \in StockRow
    BY DEF MaterialInv, MaterialTypes
  <2>2. stock' = [usable |-> stock.usable + row.accepted, rejected |-> stock.rejected + row.rejected,
                  held |-> stock.held + row.held]
    BY DEF Book
  <2>3. row.accepted \in Nat /\ row.rejected \in Nat /\ row.held \in Nat
    BY <1>2
  <2>4. /\ stock' \in StockRow
        /\ stock'.usable + stock'.rejected + stock'.held
             = (stock.usable + stock.rejected + stock.held) + (row.accepted + row.rejected + row.held)
    <3> HIDE DEF MaterialInv
    <3> QED  BY ONLY <2>1, <2>2, <2>3, Booking
  <2> QED  BY <2>4
<1>4. MaterialTypes'
  BY <1>1, <1>3 DEF MaterialInv, MaterialTypes
<1>5. ReceiptsAreKnown'
  BY <1>1 DEF MaterialInv, ReceiptsAreKnown
<1>6. ASSUME NEW k
      PROVE  /\ InspectedIn(inspections', k) = Inspected(k) + (IF k = i THEN row.quantity ELSE 0)
             /\ Inspected(k)' = InspectedIn(inspections', k)
             /\ Inspected(k) \in Nat /\ InspectedIn(inspections', k) \in Nat
  <2> DEFINE old == [q \in DOMAIN inspections |-> Counted(inspections[q].receipt = k, inspections[q].quantity)]
             new == [q \in DOMAIN inspections' |-> Counted(inspections'[q].receipt = k, inspections'[q].quantity)]
             more == IF k = i THEN row.quantity ELSE 0
  <2>1. old \in Seq(Nat) /\ new \in Seq(Nat)
    BY <1>1, ColumnOfReceipt, ZenonT(30) DEF MaterialInv, MaterialTypes
  <2>2. DOMAIN old = 1..n /\ DOMAIN new = 1..n + 1
    BY <1>1
  <2>3. \A q \in 1..n : new[q] = old[q]
    BY <1>1 DEF Counted
  <2>4. new[n + 1] = more /\ more \in Nat
    BY <1>1, <1>2 DEF Counted
  <2>5. Inspected(k) = Total(old) /\ InspectedIn(inspections', k) = Total(new)
    BY DEF Inspected, InspectedIn
  <2>9. Inspected(k)' = InspectedIn(inspections', k)
    BY DEF Inspected, InspectedIn, Total, Counted
  <2> HIDE DEF old, new, more
  <2>6. new = Append(old, more)
    <3>1. Len(old) = n /\ Len(new) = n + 1
      BY <1>1, <2>1, <2>2
    <3>2. new = Append(old, new[Len(new)])
      BY <2>1, <2>3, <3>1, OneMore
    <3> QED  BY <2>4, <3>1, <3>2
  <2>7. Total(new) = Total(old) + more
    BY <2>1, <2>4, <2>6, TotalOfLonger
  <2>8. Total(old) \in Nat /\ Total(new) \in Nat
    BY <2>1, TotalIsNumber
  <2> QED  BY <2>5, <2>7, <2>8, <2>9 DEF more
<1>7. InspectedWithin'
  <2>1. ASSUME NEW k \in DOMAIN receipts
        PROVE  Inspected(k)' <= receipts[k].quantity
    <3>1. CASE k = i
      BY <1>6, <3>1
    <3>2. CASE k # i
      BY <1>6, <3>2 DEF MaterialInv, InspectedWithin
    <3> QED  BY <3>1, <3>2
  <2> QED  BY <2>1 DEF InspectedWithin
<1>8. small \in Seq(Nat) /\ large \in Seq(Nat)
  <2>1. DOMAIN receipts = 1..Len(receipts) /\ Len(receipts) \in Nat
    BY DEF MaterialInv, MaterialTypes
  <2> QED  BY <1>6, <2>1
<1>9. /\ DOMAIN receipts = 1..Len(receipts) /\ Len(receipts) \in Nat
      /\ Len(small) = Len(receipts) /\ Len(large) = Len(receipts)
  BY DEF MaterialInv, MaterialTypes
<1>10. i \in Nat \ {0} /\ i <= Len(small)
  BY <1>9
<1>11. \A k \in 1..Len(small) : small[k] + (IF k = i THEN row.quantity ELSE 0) <= large[k]
  BY <1>6, <1>9
<1>12. Total(small) \in Nat /\ Total(large) \in Nat
  BY <1>8, TotalIsNumber
<1>13. Total(small) + row.quantity <= Total(large)
  <2> HIDE DEF small, large, i
  <2>1. Total(small) + (IF i <= Len(small) THEN row.quantity ELSE 0) <= Total(large)
    BY <1>2, <1>8, <1>9, <1>10, <1>11, TotalGrows
  <2> QED  BY <1>10, <2>1
<1>14. inspected => stock.usable + stock.rejected + stock.held <= Total(small)
  BY DEF MaterialInv, BookedIsInspected
<1>15. inspected' => stock'.usable + stock'.rejected + stock'.held <= Total(large)
  <2> DEFINE booked == stock.usable + stock.rejected + stock.held
             more == row.accepted + row.rejected + row.held
             before == Total(small)
             after == Total(large)
  <2>1. booked \in Nat /\ more \in Nat /\ before \in Nat /\ after \in Nat /\ more <= row.quantity
    BY <1>2, <1>12, SumsOfThree
  <2>2. stock'.usable + stock'.rejected + stock'.held = booked + more
    BY <1>3
  <2> HIDE DEF booked, more
  <2>3. inspected => booked <= before
    BY <1>14 DEF booked
  <2>4. before + row.quantity <= after
    BY <1>13
  <2> HIDE DEF before, after
  <2>5. inspected => booked + more <= after
    BY <1>2, <2>1, <2>3, <2>4
  <2> QED  BY <2>2, <2>5 DEF after
<1>16. Total(large) = Total([k \in DOMAIN receipts |-> Inspected(k)])'
  <2>1. [k \in DOMAIN receipts |-> Inspected(k)]' = large
    BY <1>6
  <2> QED  BY <2>1
<1>17. BookedIsInspected'
  BY <1>15, <1>16 DEF BookedIsInspected
<1> QED  BY <1>4, <1>5, <1>7, <1>17 DEF MaterialInv

\* Returns do not matter to the stock.
LEMMA Examined ==
  ASSUME MaterialInv, UNCHANGED <<inspected, receipts, inspections, stock>>,
         returns' \in Seq(ReturnRow)
  PROVE  MaterialInv'
<1>1. \A i : Inspected(i)' = Inspected(i)
  BY InspectedStays
<1>2. Total([i \in DOMAIN receipts |-> Inspected(i)])' = Total([i \in DOMAIN receipts |-> Inspected(i)])
  <2>1. [i \in DOMAIN receipts |-> Inspected(i)]' = [i \in DOMAIN receipts |-> Inspected(i)]
    BY <1>1
  <2> QED  BY <2>1
<1> QED  BY <1>1, <1>2
         DEF MaterialInv, MaterialTypes, ReceiptsAreKnown, InspectedWithin, BookedIsInspected

\* A return whose columns change keeps its types.
LEMMA ReturnWritten ==
  ASSUME NEW rows \in Seq(ReturnRow), NEW i \in DOMAIN rows,
         NEW status \in ReturnStatuses, NEW requested \in Nat, NEW replaced \in Nat
  PROVE  /\ [rows EXCEPT ![i].status = status] \in Seq(ReturnRow)
         /\ [rows EXCEPT ![i].status = status, ![i].requested = requested] \in Seq(ReturnRow)
         /\ [rows EXCEPT ![i].replaced = replaced, ![i].status = status] \in Seq(ReturnRow)
<1>1. rows[i] \in ReturnRow
  OBVIOUS
<1>2. /\ [rows[i] EXCEPT !.status = status] \in ReturnRow
      /\ [rows[i] EXCEPT !.status = status, !.requested = requested] \in ReturnRow
      /\ [rows[i] EXCEPT !.replaced = replaced, !.status = status] \in ReturnRow
  BY <1>1 DEF ReturnRow
<1>3. ASSUME NEW row \in ReturnRow
      PROVE  [rows EXCEPT ![i] = row] \in Seq(ReturnRow)
  OBVIOUS
<1>4. [rows EXCEPT ![i].status = status] = [rows EXCEPT ![i] = [rows[i] EXCEPT !.status = status]]
  OBVIOUS
<1>5. [rows EXCEPT ![i].status = status, ![i].requested = requested]
        = [rows EXCEPT ![i] = [rows[i] EXCEPT !.status = status, !.requested = requested]]
  BY <1>1 DEF ReturnRow
<1>6. [rows EXCEPT ![i].replaced = replaced, ![i].status = status]
        = [rows EXCEPT ![i] = [rows[i] EXCEPT !.replaced = replaced, !.status = status]]
  BY <1>1 DEF ReturnRow
<1> QED  BY <1>2, <1>3, <1>4, <1>5, <1>6

LEMMA InboundStep ==
  ASSUME MaterialInv, [InboundNext]_inboundVars
  PROVE  MaterialInv'
<1>0. /\ Amounts \subseteq Nat /\ returns \in Seq(ReturnRow) /\ DOMAIN returns \subseteq Nat
      /\ DOMAIN receipts \subseteq Nat /\ DOMAIN inspections \subseteq Nat /\ stock \in StockRow
  BY InboundAssumption DEF Amounts, MaterialInv, MaterialTypes
<1>1. ASSUME NEW q \in Amounts, NEW f \in {"none", "damaged", "wrong_material", "certificate"},
             RecordReceipt(q, f)
      PROVE  MaterialInv'
  <2> DEFINE exceptional == Arrived + q # InboundOrdered \/ f # "none"
             row == [quantity |-> q, replaces |-> 0, flaw |-> f, exceptional |-> exceptional]
             damaged == IF f = "damaged" THEN q ELSE 0
  <2>1. /\ receipts' = Append(receipts, row) /\ UNCHANGED <<inspected, inspections, returns>>
        /\ IF inspected THEN UNCHANGED stock ELSE Book(q - damaged, damaged, 0)
    BY <1>1 DEF RecordReceipt
  <2>2. row \in ReceiptRow
    <3>1. exceptional \in BOOLEAN /\ q \in Nat
      BY <1>0
    <3> HIDE DEF exceptional
    <3> QED  BY <3>1 DEF ReceiptRow
  <2>3. q - damaged \in Nat /\ damaged \in Nat /\ 0 \in Nat
    BY <1>0
  <2> HIDE DEF damaged, row
  <2>4. stock' \in StockRow
    <3>1. CASE inspected
      BY <1>0, <2>1, <3>1
    <3>2. CASE ~ inspected
      <4>1. stock' = [usable |-> stock.usable + (q - damaged), rejected |-> stock.rejected + damaged,
                      held |-> stock.held + 0]
        BY <2>1, <3>2 DEF Book
      <4> QED  BY ONLY <1>0, <2>3, <4>1, Booking
    <3> QED  BY <3>1, <3>2
  <2> QED  BY <1>0, <2>1, <2>2, <2>4, ReceiptAdded
<1>2. ASSUME NEW i \in DOMAIN receipts, NEW q \in Amounts \ {0}, NEW v \in BOOLEAN,
             NEW d \in Dispositions(q), RecordInspection(i, q, d[1], d[2], d[3], v)
      PROVE  MaterialInv'
  <2> DEFINE row == [receipt |-> i, quantity |-> q, accepted |-> d[1], rejected |-> d[2],
                     held |-> d[3], verified |-> v]
             returned == receipts[i].replaces
             status == ReplacementStatus(returned, d[1], d[2])
  <2>1. d[1] \in Nat /\ d[2] \in Nat /\ d[3] \in Nat /\ q \in Nat /\ i \in Nat
    BY <1>0 DEF Dispositions
  <2>2. row \in InspectionRow
    BY <2>1 DEF InspectionRow
  <2>3. /\ inspections' = Append(inspections, row) /\ UNCHANGED <<inspected, receipts>>
        /\ Book(d[1], d[2], d[3])
        /\ d[1] + d[2] + d[3] <= q
        /\ Inspected(i) + q <= receipts[i].quantity
        /\ returns' = IF returned = 0 THEN returns ELSE [returns EXCEPT ![returned].status = status]
    BY <1>2 DEF RecordInspection
  <2>4. status \in ReturnStatuses
    BY DEF ReplacementStatus, ReturnStatuses
  <2>5. returns' \in Seq(ReturnRow)
    <3> HIDE DEF status, returned
    <3>1. CASE returned \in DOMAIN returns
      <4>1. [returns EXCEPT ![returned].status = status] \in Seq(ReturnRow)
        BY <1>0, <2>4, <3>1, ReturnWritten
      <4> QED  BY <1>0, <2>3, <4>1
    <3>2. CASE returned \notin DOMAIN returns
      <4>1. [returns EXCEPT ![returned].status = status] = returns
        BY <1>0, <3>2
      <4> QED  BY <1>0, <2>3, <4>1
    <3> QED  BY <3>1, <3>2
  <2>6. /\ row.receipt = i /\ row.quantity = q
        /\ row.accepted = d[1] /\ row.rejected = d[2] /\ row.held = d[3]
    OBVIOUS
  <2> HIDE DEF row
  <2> QED  BY <2>2, <2>3, <2>5, <2>6, InspectionAdded
<1>3. ASSUME NEW i \in DOMAIN inspections, NEW q \in Amounts, CreateReturn(i, q)
      PROVE  MaterialInv'
  <2> DEFINE row == [inspection |-> i, quantity |-> q, status |-> "draft",
                     requested |-> 0, replaced |-> 0]
  <2>1. row \in ReturnRow
    BY <1>0 DEF ReturnRow, ReturnStatuses
  <2>2. returns' = Append(returns, row) /\ UNCHANGED <<inspected, receipts, inspections, stock>>
    BY <1>3 DEF CreateReturn
  <2> HIDE DEF row
  <2>3. returns' \in Seq(ReturnRow)
    BY <1>0, <2>1, <2>2
  <2> QED  BY <2>2, <2>3, Examined
<1>4. ASSUME NEW i \in DOMAIN returns, NEW q \in Amounts, RequestReplacement(i, q)
      PROVE  MaterialInv'
  <2>1. /\ returns' = [returns EXCEPT ![i].status = "replacement_requested", ![i].requested = q]
        /\ UNCHANGED <<inspected, receipts, inspections, stock>>
    BY <1>4 DEF RequestReplacement
  <2>2. "replacement_requested" \in ReturnStatuses /\ q \in Nat
    BY <1>0 DEF ReturnStatuses
  <2>3. returns' \in Seq(ReturnRow)
    BY <1>0, <2>1, <2>2, ReturnWritten
  <2> QED  BY <2>1, <2>3, Examined
<1>5. ASSUME NEW i \in DOMAIN returns, NEW q \in Amounts, ReceiveReplacement(i, q)
      PROVE  MaterialInv'
  <2> DEFINE row == [quantity |-> q, replaces |-> i, flaw |-> "none", exceptional |-> FALSE]
             replaced == returns[i].replaced + q
             status == IF replaced = returns[i].requested
                         THEN "replacement_received" ELSE "replacement_partially_received"
  <2>1. /\ receipts' = Append(receipts, row) /\ UNCHANGED <<inspected, inspections, stock>>
        /\ returns' = [returns EXCEPT ![i].replaced = replaced, ![i].status = status]
    BY <1>5 DEF ReceiveReplacement
  <2>2. row \in ReceiptRow
    BY <1>0 DEF ReceiptRow
  <2>3. status \in ReturnStatuses
    BY DEF ReturnStatuses
  <2>4. replaced \in Nat
    <3>1. returns[i] \in ReturnRow
      BY <1>0
    <3> QED  BY <1>0, <3>1 DEF ReturnRow
  <2> HIDE DEF row, replaced, status
  <2>5. returns' \in Seq(ReturnRow)
    BY <1>0, <2>1, <2>3, <2>4, ReturnWritten
  <2> QED  BY <1>0, <2>1, <2>2, <2>5, ReceiptAdded
<1>6. ASSUME UNCHANGED material
      PROVE  MaterialInv'
  BY <1>0, <1>6, Examined DEF material
<1> QED  BY <1>1, <1>2, <1>3, <1>4, <1>5, <1>6
         DEF InboundNext, inboundVars, CreateInvoice, MatchInvoice, PrepareHandoff,
             SynchronizePayment, CloseCase, CloseRequirement

LEMMA InboundStart ==
  ASSUME InboundInit
  PROVE  MaterialInv
<1>1. /\ inspected \in BOOLEAN /\ receipts = <<>> /\ inspections = <<>> /\ returns = <<>>
      /\ stock = [usable |-> 0, rejected |-> 0, held |-> 0]
  BY DEF InboundInit
<1>2. MaterialTypes
  <2>1. stock \in StockRow
    BY <1>1 DEF StockRow
  <2> QED  BY <1>1, <2>1 DEF MaterialTypes
<1>3. stock.usable + stock.rejected + stock.held = 0
  BY <1>1
<1>4. Total([i \in DOMAIN receipts |-> Inspected(i)]) \in Nat
  BY <1>2, ReceiptColumns, TotalIsNumber
<1>5. BookedIsInspected
  BY <1>3, <1>4 DEF BookedIsInspected
<1> QED  BY <1>1, <1>2, <1>5 DEF MaterialInv, ReceiptsAreKnown, InspectedWithin

\* The invariant of receipts, inspections and stock.
THEOREM MaterialInvariant == InboundSpec => []MaterialInv
<1>1. InboundInit => MaterialInv
  BY InboundStart
<1>2. MaterialInv /\ [InboundNext]_inboundVars => MaterialInv'
  BY InboundStep
<1> QED  BY <1>1, <1>2, PTL DEF InboundSpec

\* However a receipt is split over inspections (record_inspection), quality
\* books no more than has arrived, replacements included.
THEOREM BookedWasReceived == InboundSpec => []StockIsReceived
<1>1. MaterialInv => StockIsReceived
  BY InspectedIsBetween
<1> QED  BY <1>1, MaterialInvariant, PTL

=============================================================================
