------------------------------ MODULE Inbound ------------------------------
(***************************************************************************)
(* What arrives on an issued purchase order, until its requirement is      *)
(* closed: receipts, quality inspections and the stock they book, returns  *)
(* of rejected material and their replacements, supplier invoices with     *)
(* their match and handoff to finance, the exception case and the          *)
(* requirement.                                                            *)
(*                                                                         *)
(* The order has one line, is posted, has a gate entry and no pending      *)
(* change (PurchaseOrder has those).  Corrective actions, which block the  *)
(* closure of the requirement too, are left out.                           *)
(***************************************************************************)
EXTENDS Integers, Sequences

CONSTANTS
  InboundOrdered,    \* quantity of the order
  InboundAuthorised, \* what its delivery notices announce, with tolerance
  MaxReceipts,       \* bound
  MaxInspections,    \* bound
  MaxReturns,        \* bound
  MaxInvoices,       \* bound
  MaxMatches         \* bound: matches of an invoice

ASSUME InboundAssumption ==
  /\ {InboundOrdered, InboundAuthorised} \subseteq Nat \ {0}
  /\ {MaxReceipts, MaxInspections, MaxReturns, MaxInvoices, MaxMatches} \subseteq Nat

VARIABLES
  inspected,    \* whether the line of the order requires an inspection
  receipts, inspections, returns,
  stock,        \* the sums of the inventory impacts
  case,         \* status of the exception case
  invoices,     \* with their last match, handoffs and payment status
  requirement   \* status of the purchase requirement

material == <<inspected, receipts, inspections, returns, stock>>
inboundVars == <<material, case, invoices, requirement>>

InboundInit ==
  /\ inspected \in BOOLEAN
  /\ receipts = <<>> /\ inspections = <<>> /\ returns = <<>>
  /\ stock = [usable |-> 0, rejected |-> 0, held |-> 0]
  /\ case = "open" /\ requirement = "ordered"

InvoiceInit ==
  invoices = <<>>

\* The sum of a column, given as the sequence of its quantities; a row that
\* does not count has the quantity 0 there.
Total(column) ==
  LET upto[n \in 0..Len(column)] == IF n = 0 THEN 0 ELSE upto[n - 1] + column[n]
  IN upto[Len(column)]

Counted(counts, quantity) == IF counts THEN quantity ELSE 0

Original(i) == receipts[i].replaces = 0
Originals == {i \in DOMAIN receipts : Original(i)}
Arrived == Total([i \in DOMAIN receipts |-> receipts[i].quantity])
Received == Total([i \in DOMAIN receipts |-> Counted(Original(i), receipts[i].quantity)])
InspectionsOf(i) == {q \in DOMAIN inspections : inspections[q].receipt = i}
Inspected(i) ==
  Total([q \in DOMAIN inspections |-> Counted(inspections[q].receipt = i, inspections[q].quantity)])

Book(usable, rejected, held) ==
  stock' = [usable |-> stock.usable + usable, rejected |-> stock.rejected + rejected,
            held |-> stock.held + held]

\* An exception writes its status into the case, also when it is closed.
Raise(exception) == case' = IF exception THEN "inbound_exception" ELSE case

-----------------------------------------------------------------------------
(* Receipts and inspections.                                               *)

\* Receipts of replacements count too; one flaw stands for a set of them.
\* Without inspection the material is usable at once.
RecordReceipt(quantity, flaw) ==
  LET cumulative == Arrived + quantity
      exceptional == cumulative # InboundOrdered \/ flaw # "none"
      damaged == IF flaw = "damaged" THEN quantity ELSE 0
  IN /\ quantity > 0
     /\ cumulative <= InboundAuthorised
     /\ Len(receipts) < MaxReceipts
     /\ receipts' = Append(receipts,
          [quantity |-> quantity, replaces |-> 0, flaw |-> flaw, exceptional |-> exceptional])
     /\ Raise(exceptional)
     /\ IF inspected THEN UNCHANGED stock ELSE Book(quantity - damaged, damaged, 0)
     /\ UNCHANGED <<inspected, inspections, returns, invoices, requirement>>

\* Where a replacement stands after one more inspection of it.
ReplacementStatus(i, accepted, rejected) ==
  LET Others(quantity) ==
        Total([q \in DOMAIN inspections |->
                 Counted(receipts[inspections[q].receipt].replaces = i, inspections[q][quantity])])
  IN IF Others("rejected") + rejected > 0 THEN "replacement_rejected"
     ELSE IF Others("accepted") + accepted >= returns[i].requested
       THEN "replacement_accepted"
     ELSE "replacement_partially_accepted"

\* Mutant: what was inspected before is not counted.
InspectAgain(i, quantity, accepted, rejected, held, verified) ==
  /\ Len(inspections) < MaxInspections
  /\ accepted + rejected + held <= quantity
  /\ quantity <= receipts[i].quantity
  /\ inspections' = Append(inspections,
       [receipt |-> i, quantity |-> quantity, accepted |-> accepted,
        rejected |-> rejected, held |-> held, verified |-> verified])
  /\ Book(accepted, rejected, held)
  /\ UNCHANGED <<inspected, receipts, returns, case, invoices, requirement>>

RecordInspection(i, quantity, accepted, rejected, held, verified) ==
  LET returned == receipts[i].replaces
  IN /\ Len(inspections) < MaxInspections
     /\ accepted + rejected + held <= quantity
     /\ accepted > 0 => verified /\ receipts[i].flaw # "wrong_material"
     /\ Inspected(i) + quantity <= receipts[i].quantity
     /\ inspections' = Append(inspections,
          [receipt |-> i, quantity |-> quantity, accepted |-> accepted,
           rejected |-> rejected, held |-> held, verified |-> verified])
     /\ Book(accepted, rejected, held)
     /\ Raise(rejected > 0 \/ held > 0 \/ ~ verified)
     /\ returns' = IF returned = 0 THEN returns
                   ELSE [returns EXCEPT ![returned].status =
                           ReplacementStatus(returned, accepted, rejected)]
     /\ UNCHANGED <<inspected, receipts, invoices, requirement>>

-----------------------------------------------------------------------------
(* Returns and replacements.                                               *)

\* What the returns of an inspection have left of its rejected quantity.
Returnable(q) ==
  inspections[q].rejected
    - Total([r \in DOMAIN returns |-> Counted(returns[r].inspection = q, returns[r].quantity)])

CreateReturn(q, quantity) ==
  /\ quantity \in 1..Returnable(q)
  /\ Len(returns) < MaxReturns
  /\ returns' = Append(returns,
       [inspection |-> q, quantity |-> quantity, status |-> "draft",
        requested |-> 0, replaced |-> 0])
  /\ case' = "supplier_return_prepared"
  /\ UNCHANGED <<inspected, receipts, inspections, stock, invoices, requirement>>

RequestReplacement(i, quantity) ==
  /\ returns[i].status = "draft"
  /\ quantity \in 1..returns[i].quantity
  /\ returns' = [returns EXCEPT ![i].status = "replacement_requested", ![i].requested = quantity]
  /\ UNCHANGED <<inspected, receipts, inspections, stock, case, invoices, requirement>>

\* A replacement that was inspected takes no further receipt.
AwaitsReplacement(i) ==
  returns[i].status \in {"replacement_requested", "replacement_partially_received"}

ReceiveReplacement(i, quantity) ==
  LET replaced == returns[i].replaced + quantity
  IN /\ AwaitsReplacement(i)
     /\ quantity > 0 /\ replaced <= returns[i].requested
     /\ Len(receipts) < MaxReceipts
     /\ receipts' = Append(receipts,
          [quantity |-> quantity, replaces |-> i, flaw |-> "none", exceptional |-> FALSE])
     /\ returns' = [returns EXCEPT ![i].replaced = replaced,
          ![i].status = IF replaced = returns[i].requested
                          THEN "replacement_received" ELSE "replacement_partially_received"]
     /\ UNCHANGED <<inspected, inspections, stock, case, invoices, requirement>>

-----------------------------------------------------------------------------
(* Invoices.                                                               *)

\* The number of an invoice is unique, two invoices of one order are not
\* excluded.  Its prices are those of the order.
CreateInvoice(quantity) ==
  /\ Len(invoices) < MaxInvoices
  /\ invoices' = Append(invoices,
       [quantity |-> quantity, status |-> "captured", matches |-> 0, against |-> 0,
        result |-> "none", handoffs |-> {}, payment |-> "not_synchronized"])
  /\ UNCHANGED <<material, case, requirement>>

\* The total must be that of the order.  Replacements are no payable
\* delivery.  Nothing received: a two-way match.
MatchResult(i) ==
  IF /\ invoices[i].quantity = InboundOrdered
     /\ Originals # {} => invoices[i].quantity <= Received
  THEN "matched" ELSE "exception"

\* A match with the evidence of the last one is that one, and leaves the
\* status of the invoice alone.
MatchInvoice(i) ==
  /\ invoices[i].matches < MaxMatches
  /\ invoices[i].matches = 0 \/ invoices[i].against # Received
  /\ invoices' = [invoices EXCEPT ![i].matches = @ + 1, ![i].against = Received,
       ![i].result = MatchResult(i),
       ![i].status = IF MatchResult(i) = "matched" THEN "matched" ELSE "match_exception"]
  /\ UNCHANGED <<material, case, requirement>>

\* The match is current, its evidence may be stale.
PrepareHandoff(i) ==
  /\ invoices[i].result = "matched"
  /\ invoices[i].matches \notin invoices[i].handoffs
  /\ invoices' = [invoices EXCEPT ![i].handoffs = @ \union {invoices[i].matches},
                                  ![i].status = "finance_handoff_prepared"]
  /\ UNCHANGED <<material, case, requirement>>

\* The latest payment status the ERP reports.
SynchronizePayment(i, payment) ==
  /\ invoices' = [invoices EXCEPT ![i].payment = payment]
  /\ UNCHANGED <<material, case, requirement>>

-----------------------------------------------------------------------------
(* The case and the requirement.                                           *)

OnHold == \E q \in DOMAIN inspections : inspections[q].held > 0
Recovered ==
  Total([r \in DOMAIN returns |->
           Counted(returns[r].status = "replacement_accepted", returns[r].quantity)])
Unrecovered ==
  Total([q \in DOMAIN inspections |->
           Counted(Original(inspections[q].receipt), inspections[q].rejected)]) > Recovered

\* A first receipt with exceptions, but without inspection, or with a
\* certificate that no inspection has verified.
Unexamined(i) ==
  /\ Original(i) /\ receipts[i].exceptional
  /\ \/ InspectionsOf(i) = {}
     \/ receipts[i].flaw = "certificate" /\ \A q \in InspectionsOf(i) : ~ inspections[q].verified

CaseUnresolved ==
  \/ Received < InboundOrdered \/ OnHold \/ Unrecovered
  \/ \E i \in DOMAIN receipts : Unexamined(i)

CloseCase(override) ==
  /\ CaseUnresolved => override
  /\ case' = "closed"
  /\ UNCHANGED <<material, invoices, requirement>>

\* Material nobody has inspected does not block, a later match neither.
Closable ==
  /\ Received >= InboundOrdered
  /\ ~ OnHold /\ ~ Unrecovered
  /\ invoices # <<>>
  /\ \A n \in DOMAIN invoices : invoices[n].handoffs # {} /\ invoices[n].payment = "paid"
  /\ case = "closed"

CloseRequirement ==
  /\ requirement # "closed" /\ Closable
  /\ requirement' = "closed"
  /\ UNCHANGED <<material, case, invoices>>

-----------------------------------------------------------------------------
Amounts == 0..InboundAuthorised

\* An inspection accepts, rejects or holds all it inspects, or nothing.
Dispositions(q) == {<<q, 0, 0>>, <<0, q, 0>>, <<0, 0, q>>, <<0, 0, 0>>}

InboundNext ==
  \/ \E q \in Amounts, f \in {"none", "damaged", "wrong_material", "certificate"} :
       RecordReceipt(q, f)
  \/ \E i \in DOMAIN receipts, q \in Amounts \ {0}, v \in BOOLEAN :
       \E d \in Dispositions(q) : RecordInspection(i, q, d[1], d[2], d[3], v)
  \/ \E i \in DOMAIN inspections, q \in Amounts : CreateReturn(i, q)
  \/ \E i \in DOMAIN returns, q \in Amounts : RequestReplacement(i, q)
  \/ \E i \in DOMAIN returns, q \in Amounts : ReceiveReplacement(i, q)
  \/ \E q \in InboundOrdered..InboundOrdered + 1 : CreateInvoice(q)
  \/ \E i \in DOMAIN invoices : MatchInvoice(i)
  \/ \E i \in DOMAIN invoices : PrepareHandoff(i)
  \/ \E i \in DOMAIN invoices, p \in {"scheduled", "paid"} : SynchronizePayment(i, p)
  \/ \E o \in BOOLEAN : CloseCase(o)
  \/ CloseRequirement

InboundSpec == InboundInit /\ InvoiceInit /\ [][InboundNext]_inboundVars

-----------------------------------------------------------------------------
(* However a receipt is split over inspections, what quality books is the  *)
(* material that arrived, first deliveries and replacements together.      *)
StockIsReceived ==
  inspected => stock.usable + stock.rejected + stock.held <= Arrived

-----------------------------------------------------------------------------
(* What the code claims and does not ensure.                               *)

\* close_requirement_lifecycle: "All procurement, quality, finance, and
\* external payment evidence reconciled".
ClosedIsInspected ==
  requirement = "closed" /\ inspected =>
    \A i \in DOMAIN receipts : Inspected(i) = receipts[i].quantity

\* Finance gets no more than was received, over all invoices of the order.
HandoffsWithinReceipts ==
  Total([n \in DOMAIN invoices |-> Counted(invoices[n].handoffs # {}, invoices[n].quantity)])
    <= InboundOrdered

=============================================================================
