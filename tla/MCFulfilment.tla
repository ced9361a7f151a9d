---------------------------- MODULE MCFulfilment ----------------------------
(* From the approved order to the closed requirement, for TLC.  The two    *)
(* modules share no variable: a run follows one of them, "focus", so that  *)
(* it explores their sum and not their product.                            *)
EXTENDS PurchaseOrder, Inbound
VARIABLE focus

fulfilmentVars == <<orderVars, inboundVars, focus>>

Init ==
  /\ focus \in {"order", "inbound"}
  /\ OrderInit /\ InboundInit /\ InvoiceInit

Next ==
  \/ focus = "order" /\ OrderNext /\ UNCHANGED <<inboundVars, focus>>
  \/ focus = "inbound" /\ InboundNext /\ UNCHANGED <<orderVars, focus>>

Spec == Init /\ [][Next]_fulfilmentVars
=============================================================================
