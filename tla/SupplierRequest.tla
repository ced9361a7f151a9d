--------------------------- MODULE SupplierRequest ---------------------------
(***************************************************************************)
(* The way of a material need to its suppliers: the requirement, the       *)
(* certificates that make a supplier eligible, the request for quotation   *)
(* with its invitations and portal links, who answers it, and the rounds   *)
(* of negotiation.  The quotations themselves are in Comparison.           *)
(*                                                                         *)
(* One requirement, one mandatory type of certificate; every supplier can  *)
(* deliver the material and has a contact.  Buyers and suppliers act in    *)
(* any order.                                                              *)
(***************************************************************************)
EXTENDS Integers, FiniteSetsExt

CONSTANTS
  Bidders,
  MaxPending,  \* bound: certificates of a supplier under review
  MaxRounds    \* bound: rounds of negotiation

ASSUME SupplierRequestAssumption == {MaxPending, MaxRounds} \subseteq Nat

VARIABLES
  need,         \* status of the purchase requirement
  standing,     \* suppliers.status
  certified,    \* the suppliers with a verified certificate in date
  pending,      \* certificates under review per supplier
  rfq,          \* [status, invited]: supplier_ids of the request
  invitation,   \* rfq_supplier_invitations.status per supplier
  linked,       \* the suppliers with an active portal link
  negotiation   \* the rounds per supplier: [number, status]

requirementVars == <<need, rfq>>
supplierVars == <<standing, certified, pending>>
answerVars == <<invitation, linked>>
requestVars == <<requirementVars, supplierVars, answerVars, negotiation>>

RequestInit ==
  /\ need = "none"
  /\ rfq = [status |-> "none", invited |-> {}]
  /\ invitation = [s \in Bidders |-> "none"]
  /\ linked = {}
  /\ negotiation = [s \in Bidders |-> [number |-> 0, status |-> "none"]]

SupplierInit ==
  /\ standing = [s \in Bidders |-> "approved"]
  /\ certified \in SUBSET Bidders
  /\ pending = [s \in Bidders |-> 0]

Ready(s) == s \in certified /\ standing[s] # "blocked"

-----------------------------------------------------------------------------
(* Compliance.                                                             *)

\* A renewal retires the verified certificate before it is reviewed.
SubmitCertificate(s) ==
  /\ pending[s] < MaxPending
  /\ pending' = [pending EXCEPT ![s] = @ + 1]
  /\ certified' = certified \ {s}
  /\ standing' = [standing EXCEPT ![s] = IF @ = "blocked" THEN @ ELSE "conditional"]
  /\ UNCHANGED <<requirementVars, answerVars, negotiation>>

DecideCertificate(s, verify) ==
  /\ pending[s] > 0
  /\ pending' = [pending EXCEPT ![s] = @ - 1]
  /\ certified' = IF verify THEN certified \union {s} ELSE certified
  /\ standing' = [standing EXCEPT ![s] =
       IF @ = "blocked" THEN @ ELSE IF s \in certified' THEN "approved" ELSE "conditional"]
  /\ UNCHANGED <<requirementVars, answerVars, negotiation>>

\* The date passes; the status of the supplier stays.
ExpireCertificate(s) ==
  /\ s \in certified
  /\ certified' = certified \ {s}
  /\ UNCHANGED <<standing, pending, requirementVars, answerVars, negotiation>>

-----------------------------------------------------------------------------
(* The requirement and its request.                                        *)

CreateRequirement ==
  /\ need = "none"
  /\ need' = "approved"
  /\ UNCHANGED <<rfq, supplierVars, answerVars, negotiation>>

\* One request per requirement, to the suppliers that are ready now.
CreateRfq ==
  LET ready == {s \in Bidders : Ready(s)}
  IN /\ need = "approved" /\ rfq.status = "none"
     /\ ready # {}
     /\ rfq' = [status |-> "draft", invited |-> ready]
     /\ invitation' = [s \in Bidders |-> IF s \in ready THEN "pending" ELSE "none"]
     /\ need' = "rfq_drafted"
     /\ UNCHANGED <<supplierVars, linked, negotiation>>

\* Only "published" refuses an edit, not the answers that follow it.  An added
\* supplier has no invitation.
UpdateRfq(suppliers) ==
  /\ rfq.status \notin {"none", "published"}
  /\ rfq' = [rfq EXCEPT !.invited = suppliers]
  /\ UNCHANGED <<need, supplierVars, answerVars, negotiation>>

PublishRfq ==
  /\ rfq.status = "draft"
  /\ \A s \in rfq.invited : Ready(s)
  /\ rfq' = [rfq EXCEPT !.status = "published"]
  /\ linked' = linked \union rfq.invited
  /\ invitation' = [s \in Bidders |->
       IF s \in rfq.invited /\ invitation[s] # "none" THEN "sent" ELSE invitation[s]]
  /\ UNCHANGED <<need, supplierVars, negotiation>>

-----------------------------------------------------------------------------
(* Answers.                                                                *)

\* A quotation through the portal, also after a decline.
PortalQuote(s) ==
  /\ s \in linked
  /\ rfq.status \in {"published", "responses_open"}
  /\ invitation' = [invitation EXCEPT ![s] = IF @ = "none" THEN @ ELSE "responded"]
  /\ rfq' = [rfq EXCEPT !.status = "responses_open"]
  /\ UNCHANGED <<need, linked, supplierVars, negotiation>>

\* A quotation the buyer uploads opens the answers of a request in any
\* status, and leaves the invitation alone.
BuyerQuote ==
  /\ rfq.status # "none"
  /\ rfq' = [rfq EXCEPT !.status = "responses_open"]
  /\ UNCHANGED <<need, supplierVars, answerVars, negotiation>>

\* Mutant: a supplier that has quoted can still decline.
DeclinableAlways(s) == invitation[s] # "none"

Declinable(s) == invitation[s] \in {"sent", "pending", "no_bid"}

\* A repeated decline changes nothing.
NoBid(s) ==
  /\ s \in linked
  /\ Declinable(s)
  /\ invitation' = [invitation EXCEPT ![s] = "no_bid"]
  /\ UNCHANGED <<linked, requirementVars, supplierVars, negotiation>>

-----------------------------------------------------------------------------
(* Negotiation: a round per supplier at a time is followed here.           *)

CreateNegotiation(s) ==
  /\ rfq.status # "none"
  /\ MapThenSumSet(LAMBDA b : negotiation[b].number, Bidders) < MaxRounds
  /\ negotiation' = [negotiation EXCEPT ![s] = [number |-> @.number + 1, status |-> "draft"]]
  /\ UNCHANGED <<requirementVars, supplierVars, answerVars>>

Negotiate(s, from, to) ==
  /\ negotiation[s].status = from
  /\ negotiation' = [negotiation EXCEPT ![s].status = to]
  /\ UNCHANGED <<requirementVars, supplierVars, answerVars>>

SubmitNegotiation(s) == Negotiate(s, "draft", "pending_approval")
ApproveNegotiation(s) == Negotiate(s, "pending_approval", "manager_approved")
RecordCounteroffer(s) == Negotiate(s, "manager_approved", "supplier_countered")

\* Needs a quotation of the supplier (Comparison reprices it).
AcceptCounteroffer(s) ==
  /\ invitation[s] = "responded"
  /\ Negotiate(s, "supplier_countered", "accepted_pending_reverification")

-----------------------------------------------------------------------------
RequestNext ==
  \/ \E s \in Bidders : SubmitCertificate(s)
  \/ \E s \in Bidders, v \in BOOLEAN : DecideCertificate(s, v)
  \/ \E s \in Bidders : ExpireCertificate(s)
  \/ CreateRequirement
  \/ CreateRfq
  \/ \E suppliers \in SUBSET Bidders : UpdateRfq(suppliers)
  \/ PublishRfq
  \/ \E s \in Bidders : PortalQuote(s)
  \/ BuyerQuote
  \/ \E s \in Bidders : NoBid(s)
  \/ \E s \in Bidders : CreateNegotiation(s)
  \/ \E s \in Bidders : SubmitNegotiation(s)
  \/ \E s \in Bidders : ApproveNegotiation(s)
  \/ \E s \in Bidders : RecordCounteroffer(s)
  \/ \E s \in Bidders : AcceptCounteroffer(s)

RequestSpec == RequestInit /\ SupplierInit /\ [][RequestNext]_requestVars

-----------------------------------------------------------------------------
(* A supplier that has quoted stays one that has: no decline, edit of the  *)
(* request or later publication turns its invitation back.                 *)
ResponseIsKept ==
  [][\A s \in Bidders : invitation[s] = "responded" => invitation'[s] = "responded"]_requestVars

(* state_machine.py lets a request reach its answers through "published"   *)
(* only.  A quotation uploaded by the buyer opens a draft, which then can  *)
(* never be published: nobody has a link.                                  *)
OpenedWasPublished == rfq.status = "responses_open" /\ rfq.invited # {} => linked # {}

=============================================================================
