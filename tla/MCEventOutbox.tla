--------------------------- MODULE MCEventOutbox ---------------------------
(* Instances of EventOutbox for TLC. *)
EXTENDS EventOutbox, TLC

\* Sound for the runs without liveness: no definition tells them apart.
Symmetry ==
  Permutations(Events) \union Permutations(Workers) \union Permutations(Consumers)

=============================================================================
