-------------------------- MODULE MCMaterialCase ---------------------------
(* Instances of MaterialCase for TLC. *)
EXTENDS MaterialCase, TLC

\* No definition tells the runs apart, unless some belong to a scenario.
Symmetry == Permutations(Runs)

=============================================================================
