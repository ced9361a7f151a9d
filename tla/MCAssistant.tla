---------------------------- MODULE MCAssistant ----------------------------
(* The turns of a conversation, and tasks and commitments with their       *)
(* follow-ups, for TLC.  The two modules share no variable: a behaviour    *)
(* follows one of them, "focus".  Elsewhere no turn has begun and nothing  *)
(* is to be followed up, so the fairness of one says nothing of the other. *)
EXTENDS AgentTurn, WorkItems
VARIABLE focus

Init ==
  /\ TurnInit /\ WorkInit
  /\ focus \in {"turn", "work"}

Next ==
  \/ focus = "turn" /\ TurnNext /\ UNCHANGED <<workVars, focus>>
  \/ focus = "work" /\ WorkNext /\ UNCHANGED <<turnVars, focus>>

AssistantSpec ==
  /\ Init /\ [][Next]_<<turnVars, workVars, focus>>
  /\ WF_turnVars(TurnStep)
  /\ WorkFairness
=============================================================================
