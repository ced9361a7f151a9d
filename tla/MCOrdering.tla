----------------------------- MODULE MCOrdering -----------------------------
(* From the material need to the order, for TLC.  The two modules share no *)
(* variable: a run follows one of them, "focus", so that it explores their *)
(* sum and not their product.                                              *)
EXTENDS Comparison, SupplierRequest, TLC
CONSTANTS s1, s2
VARIABLE focus

orderingVars == <<requestVars, comparisonVars, focus>>

\* One supplier revises its quotation.
Revisions == (s1 :> 2) @@ (s2 :> 1)

Init ==
  /\ focus \in {"request", "comparison"}
  /\ RequestInit /\ SupplierInit /\ ComparisonInit

Next ==
  \/ focus = "request" /\ RequestNext /\ UNCHANGED <<comparisonVars, focus>>
  \/ focus = "comparison" /\ ComparisonNext /\ UNCHANGED <<requestVars, focus>>

\* A comparison alone.
ComparisonOnly == RequestInit /\ SupplierInit /\ ComparisonInit /\ focus = "comparison"

Spec == Init /\ [][Next]_orderingVars
SpecComparison == ComparisonOnly /\ [][Next]_orderingVars
=============================================================================
