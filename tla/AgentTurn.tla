----------------------------- MODULE AgentTurn ------------------------------
(***************************************************************************)
(* One message of an employee to the role agent: the model chooses tools   *)
(* in a loop with budgets, their adapters change business records, and     *)
(* everything is committed at the end, also when the provider fails in the *)
(* middle.  What the model chooses is arbitrary; the employee's role may   *)
(* use every tool.                                                         *)
(***************************************************************************)
EXTENDS Integers, FiniteSets

CONSTANTS
  MaxDecisions,   \* agent_max_graph_steps
  MaxCalls,       \* agent_max_tool_calls
  MaxTurns        \* bound: messages

ASSUME AgentTurnAssumption == {MaxDecisions, MaxCalls, MaxTurns} \subseteq Nat

VARIABLES
  turn,          \* the open transaction of the message
  conversation,  \* confirmation asked for, material request, last execution
  saved,         \* what the last committed turn did, and how it ended
  turns          \* messages so far

turnVars == <<turn, conversation, saved, turns>>

-----------------------------------------------------------------------------
(* Tools.  An outcome is an effect and the block of the answer that        *)
(* decides how the loop goes on.  An effect is                             *)
(*   "change"       a record under a receipt with the name of the tool,    *)
(*   "requirement"  one whose receipt has another name,                    *)
(*   "request"      a material request, with a receipt of its tool,        *)
(*   "update"       a follow-up of a task, without a receipt,              *)
(*   "proposal"     a pending proposal.                                    *)

Effects == {"change", "requirement", "request", "update", "proposal"}

Told == [effect |-> "none", block |-> "record"]
Asked == [effect |-> "none", block |-> "clarification"]
Refused == [effect |-> "none", block |-> "warning"]
Made == [effect |-> "change", block |-> "record"]
Proposed == [effect |-> "proposal", block |-> "record"]

ContextReads == {Told}
SupplierReads == {Told}
ReviewExcelImport == {Told}
ManagementReads == {Told}
WorkReads == {Told}
ReviewQuoteExtraction == {Told}
SearchApprovedMaterial == {Told, Asked}

PreviewExcelImport == {Asked, Made}
PreparePoChange == {Made}
OpenSupplierCorrectiveAction == {Made}
ExportExcelExchange == {Made}
ExchangeRates == {Made}
PrepareInvoiceFromAttachment == {Made}
MatchSupplierInvoice == {Made, [Made EXCEPT !.block = "warning"]}
PrepareRfqDraft == {[Made EXCEPT !.block = "receipt"]}
PrepareSupplierComparison == {[Made EXCEPT !.block = "receipt"]}
PrepareSupplierReturn == {Made}
DelegateTask == {[Made EXCEPT !.block = "receipt"]}

\* Which request for quotation, then what became of the batch.
FindRequest == {Asked}
UploadSupplierQuotes ==
  FindRequest \union {Asked, Refused, [Told EXCEPT !.block = "progress"],
                      [Made EXCEPT !.block = "receipt"]}

ApproveExcelImportProposal == {Told, Proposed}
PrepareFinanceHandoffProposal == {Proposed}
VerifyQuoteFieldsProposal == {Asked, Proposed}
ComparisonProposals == {Proposed}
RecordComparisonDecisionProposal == {Asked, Proposed}
\* The negotiation itself is created and submitted beside the proposal.
PrepareNegotiationProposal == {[Proposed EXCEPT !.block = "receipt"]}
RecordProposals == {Proposed}
PrepareSupplierFollowup == {Asked, Proposed}
InboundProposals == {Proposed}
ReplacementProposals == {Proposed}

\* Asks for a confirmation, or creates the request once the message confirms.
CreateMaterialMasterRequest(own, yes) ==
  IF own.asked /\ yes THEN {[effect |-> "request", block |-> "record"]}
  ELSE {Asked, [effect |-> "none", block |-> "confirmation"]}

ExecuteProcurementDelegation(own) ==
  {[effect |-> "requirement", block |-> "receipt"]}
    \union (IF own.executed THEN {Refused} ELSE {})

CreatePurchaseRequirement(own) ==
  CASE own.request = "pending" -> {Told}
    [] own.request = "rejected" -> {Refused}
    [] OTHER -> {Asked} \union ExecuteProcurementDelegation(own)

RequestTaskUpdate == {Asked, [effect |-> "update", block |-> "record"]}

\* Tools whose adapters do the same are one tool of the model.
ReadTools == {"reads", "search_approved_material", "request_task_update"}
ProposalTools == {"proposals", "create_material_master_request"}
MutationTools == {"records", "upload_supplier_quotes", "create_purchase_requirement"}
Tools == ReadTools \union ProposalTools \union MutationTools

Category(tool) ==
  CASE tool \in ReadTools -> "read"
    [] tool \in ProposalTools -> "proposal"
    [] OTHER -> "mutation"

\* What the adapter of a tool can do in this conversation.
Adapter(tool, own, yes) ==
  CASE tool = "reads" ->
         ContextReads \union SupplierReads \union ReviewExcelImport \union ManagementReads
           \union WorkReads \union ReviewQuoteExtraction
    [] tool = "search_approved_material" -> SearchApprovedMaterial
    [] tool = "request_task_update" -> RequestTaskUpdate
    [] tool = "records" ->
         PreviewExcelImport \union PreparePoChange \union OpenSupplierCorrectiveAction
           \union ExportExcelExchange \union ExchangeRates \union PrepareInvoiceFromAttachment
           \union MatchSupplierInvoice \union PrepareRfqDraft \union PrepareSupplierComparison
           \union PrepareSupplierReturn \union DelegateTask
    [] tool = "upload_supplier_quotes" -> UploadSupplierQuotes
    [] tool = "create_purchase_requirement" -> CreatePurchaseRequirement(own)
    [] tool = "create_material_master_request" -> CreateMaterialMasterRequest(own, yes)
    [] tool = "proposals" ->
         ApproveExcelImportProposal \union PrepareFinanceHandoffProposal
           \union VerifyQuoteFieldsProposal \union ComparisonProposals
           \union RecordComparisonDecisionProposal \union PrepareNegotiationProposal
           \union RecordProposals \union PrepareSupplierFollowup
           \union InboundProposals \union ReplacementProposals

-----------------------------------------------------------------------------
(* The loop.                                                               *)

Nothing == [e \in Effects |-> 0]

Idle == [phase |-> "idle"]

TurnInit ==
  /\ turn = Idle
  /\ conversation = [asked |-> FALSE, request |-> "none", executed |-> FALSE]
  /\ saved = [effects |-> Nothing, state |-> "none", reason |-> "none"]
  /\ turns = 0

\* "live" is a model that may go on after an observation.
StartTurn(live, yes) ==
  /\ turn.phase = "idle" /\ turns < MaxTurns
  /\ turns' = turns + 1
  /\ turn' = [phase |-> "deciding", live |-> live, yes |-> yes, own |-> conversation,
              tool |-> "none", reason |-> "none", decisions |-> 0, reads |-> 0,
              mutations |-> 0, proposals |-> 0, observed |-> FALSE,
              receipt |-> FALSE, effects |-> Nothing]
  /\ UNCHANGED <<conversation, saved>>

Ends(why) == turn' = [turn EXCEPT !.phase = "ending", !.reason = why]

\* Mutant: only the first decision is counted.
CountedOnce(n) == IF n = 0 THEN 1 ELSE n

Counted(n) == n + 1

Chooses(tool) ==
  turn' = [turn EXCEPT !.phase = "executing", !.tool = tool, !.decisions = Counted(@)]

\* A "yes" to a pending confirmation overrides what the model has chosen.
\* After a receipt that is not the tool's own the model may only answer.
DecidesTool(tool) ==
  /\ turn.phase = "deciding" /\ turn.decisions < MaxDecisions
  /\ turn.decisions > 0 => turn.live /\ ~ turn.receipt
  /\ turn.decisions = 0 /\ turn.own.asked /\ turn.yes =>
       tool = "create_material_master_request"
  /\ Chooses(tool)
  /\ UNCHANGED <<conversation, saved, turns>>

\* The model answers, or must, or has no decision or no time left.
DecidesFinal ==
  /\ turn.phase = "deciding" /\ turn.decisions > 0
  /\ \/ turn.decisions < MaxDecisions /\ Ends("final_answer")
     \/ turn.decisions >= MaxDecisions /\ Ends("decision_budget_exceeded")
     \/ Ends("time_budget_exceeded")
  /\ UNCHANGED <<conversation, saved, turns>>

OverBudget ==
  \/ turn.reads + turn.mutations + turn.proposals >= MaxCalls
  \/ Category(turn.tool) = "read" /\ turn.reads >= MaxCalls
  \/ Category(turn.tool) = "mutation" /\ turn.mutations >= 1
  \/ Category(turn.tool) = "proposal" /\ turn.proposals >= 1

StopsBeforeTool ==
  /\ turn.phase = "executing"
  /\ \/ OverBudget /\ Ends("budget_exceeded")
     \/ Ends("time_budget_exceeded")
  /\ UNCHANGED <<conversation, saved, turns>>

\* The status that the result of a tool has after these effects of the turn.
Status(out, effects) ==
  IF effects["proposal"] > 0 THEN "proposal_created"
  ELSE IF \/ out.effect \in {"change", "request"}
          \/ turn.tool = "create_material_master_request" /\ effects["request"] > 0
    THEN "completed"
  ELSE CASE out.block = "clarification" -> "needs_clarification"
         [] out.block = "progress" -> "processing"
         [] out.block = "warning" -> "blocked"
         [] OTHER -> "observed"

\* Mutant: a tool is counted, but the loop goes on.
TerminationNever(status) ==
  IF status \in {"needs_clarification", "processing", "blocked"} THEN status ELSE "none"

\* How the loop ends after a result, if it does.
Termination(status) ==
  CASE Category(turn.tool) = "mutation" /\ status = "completed" -> "mutation_completed"
    [] Category(turn.tool) = "proposal" /\ status = "proposal_created" -> "proposal_created"
    [] status \in {"needs_clarification", "processing", "blocked"} -> status
    [] OTHER -> "none"

\* What the tool leaves in the state of the conversation.
Remembers(own, out) ==
  [own EXCEPT
     !.asked = (@ /\ out.effect # "request") \/ out.block = "confirmation",
     !.request = CASE out.effect = "request" -> "pending"
                   [] turn.tool = "create_purchase_requirement" /\ @ = "rejected" -> "none"
                   [] OTHER -> @,
     !.executed = @ \/ out.effect = "requirement"]

ExecutesTool(out) ==
  LET effects == IF out.effect = "none" THEN turn.effects
                 ELSE [turn.effects EXCEPT ![out.effect] = @ + 1]
      status == Status(out, effects)
      why == Termination(status)
      category == Category(turn.tool)
  IN /\ turn.phase = "executing" /\ ~ OverBudget
     /\ out \in Adapter(turn.tool, turn.own, turn.yes)
     /\ turn' = [turn EXCEPT
          !.phase = IF why = "none" THEN "deciding" ELSE "ending",
          !.reason = why,
          !.effects = effects,
          !.own = Remembers(@, out),
          !.observed = TRUE,
          !.receipt = @ \/ out.block = "receipt",
          !.reads = @ + (IF category = "read" THEN 1 ELSE 0),
          !.mutations = @ + (IF category = "mutation" /\ status = "completed" THEN 1 ELSE 0),
          !.proposals = @ + (IF category = "proposal" /\ status = "proposal_created" THEN 1 ELSE 0)]
     /\ UNCHANGED <<conversation, saved, turns>>

-----------------------------------------------------------------------------
(* The end of the message.                                                 *)

Receipts(effects) == effects["change"] + effects["requirement"] + effects["request"]

Saves(state, why) ==
  /\ saved' = [effects |-> turn.effects, state |-> state, reason |-> why]
  /\ conversation' = turn.own
  /\ turn' = Idle
  /\ UNCHANGED turns

FinishTurn ==
  /\ turn.phase = "ending" /\ turn.observed
  /\ Saves("completed",
           IF Receipts(turn.effects) > 0 THEN "mutation_completed"
           ELSE IF turn.effects["proposal"] > 0 THEN "proposal_created" ELSE turn.reason)

\* The provider, or an agent that has been stopped, answers 503: the message
\* and what the tools have done so far are kept, and the employee may retry.
PauseTurn ==
  /\ turn.phase \in {"deciding", "executing"}
  /\ Saves("paused_provider", "none")

\* Any other error rolls the transaction back, the failed run with it.
FailTurn ==
  /\ turn.phase # "idle"
  /\ turn' = Idle
  /\ UNCHANGED <<conversation, saved, turns>>

\* An administrator decides the material request meanwhile.
DecideMaterialRequest(decision) ==
  /\ conversation.request = "pending" /\ turn.phase = "idle"
  /\ conversation' = [conversation EXCEPT !.request = decision]
  /\ UNCHANGED <<turn, saved, turns>>

-----------------------------------------------------------------------------
TurnStep ==
  \/ \E t \in Tools : DecidesTool(t)
  \/ DecidesFinal \/ StopsBeforeTool
  \/ \E e \in Effects \union {"none"},
        b \in {"record", "receipt", "clarification", "confirmation", "progress", "warning"} :
       ExecutesTool([effect |-> e, block |-> b])
  \/ FinishTurn \/ PauseTurn \/ FailTurn

TurnNext ==
  \/ \E l, y \in BOOLEAN : StartTurn(l, y)
  \/ TurnStep
  \/ \E d \in {"approved", "rejected"} : DecideMaterialRequest(d)

\* The loop runs in the thread of its request.
TurnSpec == TurnInit /\ [][TurnNext]_turnVars /\ WF_turnVars(TurnStep)

-----------------------------------------------------------------------------
(* run_bounded_tool_loop: whatever tools the model asks for, one message   *)
(* makes one business record with a receipt or one proposal, not both and  *)
(* not two.  Follow-ups of tasks and a confirmed material request are not  *)
(* counted by the loop.                                                    *)
OneChangePerTurn ==
  saved.effects["change"] + saved.effects["requirement"] + saved.effects["proposal"] <= 1

(* agent_max_graph_steps: a message is answered, though a model may choose *)
(* tools that change nothing for as long as it likes.                      *)
EveryTurnEnds == turn.phase # "idle" ~> turn.phase = "idle"

-----------------------------------------------------------------------------
(* code-level-handoff.md: "At most one business mutation per user turn."   *)
OneMutationPerTurn ==
  saved.effects["change"] + saved.effects["requirement"]
    + saved.effects["request"] + saved.effects["update"] <= 1

=============================================================================
