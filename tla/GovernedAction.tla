-------------------------- MODULE GovernedAction ---------------------------
(***************************************************************************)
(* The lifecycle an action intent is meant to have: it is decided once,    *)
(* executed at most once and only when approved, and its outcome is        *)
(* verified after that.  No stage is entered twice.                        *)
(***************************************************************************)
CONSTANT Intents

VARIABLE stage

Init == stage = [k \in Intents |-> "absent"]

Move(k, from, to) ==
  /\ stage[k] \in from
  /\ \E s \in to : stage' = [stage EXCEPT ![k] = s]

Propose(k) == Move(k, {"absent"}, {"awaiting"})
Decide(k) == Move(k, {"awaiting"}, {"approved", "rejected"})
Execute(k) == Move(k, {"approved"}, {"executed", "failed"})
Verify(k) == Move(k, {"executed"}, {"recovered", "not_recovered"})

\* A domain service that is itself authorised does all of it at once.
ExecuteInternally(k) == Move(k, {"absent"}, {"executed"})

Next == \E k \in Intents :
  Propose(k) \/ Decide(k) \/ Execute(k) \/ Verify(k) \/ ExecuteInternally(k)

Spec == Init /\ [][Next]_stage

=============================================================================
