-------------------------- MODULE OutboxDelivery ---------------------------
(***************************************************************************)
(* What the outbox promises, without workers, locks, messages, receipts or *)
(* attempts: a published event is owed to its consumers until it has been  *)
(* delivered to all of them in one step or is abandoned, delivered effects *)
(* stay, and an event that was settled may become owed again.              *)
(***************************************************************************)
CONSTANTS Events, Consumers

VARIABLES
  stage,     \* where each event stands
  applied    \* the consumers whose effects it has had

vars == <<stage, applied>>

Init ==
  /\ stage = [e \in Events |-> "unpublished"]
  /\ applied = [e \in Events |-> {}]

Publish(e) ==
  /\ stage[e] = "unpublished"
  /\ stage' = [stage EXCEPT ![e] = "owed"]
  /\ UNCHANGED applied

\* All consumers at once; consumers that had their effect keep it.
Deliver(e) ==
  /\ stage[e] \in {"owed", "abandoned"}
  /\ stage' = [stage EXCEPT ![e] = "delivered"]
  /\ applied' = [applied EXCEPT ![e] = Consumers]

Abandon(e) ==
  /\ stage[e] \in {"owed", "delivered"}
  /\ stage' = [stage EXCEPT ![e] = "abandoned"]
  /\ UNCHANGED applied

Reopen(e) ==
  /\ stage[e] \in {"delivered", "abandoned"}
  /\ stage' = [stage EXCEPT ![e] = "owed"]
  /\ UNCHANGED applied

Settle(e) == stage[e] = "owed" /\ (Deliver(e) \/ Abandon(e))

Next == \E e \in Events : Publish(e) \/ Deliver(e) \/ Abandon(e) \/ Reopen(e)

Spec == Init /\ [][Next]_vars

FairSpec == Spec /\ \A e \in Events : WF_vars(Settle(e))

=============================================================================
