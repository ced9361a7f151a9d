-------------------------- MODULE MCActionIntent ---------------------------
(* Instances of ActionIntent for TLC. *)
EXTENDS ActionIntent, TLC

\* No definition tells the clients apart.
Symmetry == Permutations(Clients)

=============================================================================
