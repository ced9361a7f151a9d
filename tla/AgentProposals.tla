--------------------------- MODULE AgentProposals ---------------------------
(***************************************************************************)
(* Controlled actions that an agent prepares and its human owner confirms. *)
(* A proposal names the version of the record it is about.  Other work     *)
(* changes the records meanwhile, also between the check and the commit of *)
(* a confirmation; rows are versioned, so a commit fails when a row that   *)
(* it writes is not the one it has read.                                   *)
(***************************************************************************)
EXTENDS Integers, Sequences

CONSTANTS
  ProposalRuns,    \* runs of the agent that propose; 0 stands for none
  MaxProposals,    \* bound: proposals
  MaxTargetVersion \* bound: versions of a record

ASSUME AgentProposalsAssumption ==
  /\ ProposalRuns \subseteq Nat \ {0}
  /\ {MaxProposals, MaxTargetVersion} \subseteq Nat

VARIABLES
  proposals,     \* in the order of their creation
  versions,      \* version of every record
  pointer,       \* the pending proposal of the conversation, or 0
  proposalRuns,  \* state of every run
  agentsOn,      \* whether the workspace's agents are enabled
  confirmations  \* open transactions of confirmations

proposalVars == <<proposals, versions, pointer, proposalRuns, agentsOn, confirmations>>

-----------------------------------------------------------------------------
\* One action of every kind: it writes its record or only what refers to it.
ControlledActions ==
  [publish_rfq |-> "rfqs", approve_po_change |-> "po_drafts", create_asn |-> "po_drafts",
   decide_comparison |-> "bid_comparison"]

Written == {"publish_rfq", "approve_po_change", "decide_comparison"}

Records == {"rfqs", "po_drafts", "bid_comparison"}

\* The table of confirm_proposal calls comparisons "bid_comparisons".
TargetModels == {"rfqs", "po_drafts", "bid_comparisons"}

ProposalInit ==
  /\ proposals = <<>>
  /\ versions = [t \in Records |-> 1]
  /\ pointer = 0
  /\ proposalRuns = [r \in ProposalRuns |-> "running"]
  /\ agentsOn = TRUE
  /\ confirmations = {}

Target(i) == ControlledActions[proposals[i].action]

SetState(i, state) == [proposals EXCEPT ![i].state = state]

Unpoint(i) == pointer' = IF pointer = i THEN 0 ELSE pointer

CompleteRun(i) ==
  proposalRuns' = [r \in ProposalRuns |->
    IF r = proposals[i].run THEN "completed" ELSE proposalRuns[r]]

\* The key of a proposal is unique, whatever has become of the earlier one.
CreateProposal(action, run, version) ==
  /\ agentsOn /\ Len(proposals) < MaxProposals
  /\ version \in 1..versions[ControlledActions[action]]
  /\ \A i \in DOMAIN proposals :
       <<proposals[i].action, proposals[i].run, proposals[i].version>> # <<action, run, version>>
  /\ proposals' = Append(proposals,
       [action |-> action, run |-> run, version |-> version, state |-> "pending",
        expired |-> FALSE, executed |-> 0])
  /\ pointer' = Len(proposals')
  /\ proposalRuns' = [r \in ProposalRuns |-> IF r = run THEN "awaiting_approval" ELSE proposalRuns[r]]
  /\ UNCHANGED <<versions, agentsOn, confirmations>>

\* Other work on the record.
EditRecord(t) ==
  /\ versions[t] < MaxTargetVersion
  /\ versions' = [versions EXCEPT ![t] = @ + 1]
  /\ UNCHANGED <<proposals, pointer, proposalRuns, agentsOn, confirmations>>

Expire(i) ==
  /\ proposals[i].state = "pending" /\ ~ proposals[i].expired
  /\ proposals' = [proposals EXCEPT ![i].expired = TRUE]
  /\ UNCHANGED <<versions, pointer, proposalRuns, agentsOn, confirmations>>

\* Mutant: the version of the record is not looked at.
CheckedNever(i) == TRUE

Checked(i) == Target(i) \in TargetModels => versions[Target(i)] = proposals[i].version

\* That the agents have been stopped does not matter to the human owner.
BeginConfirm(i) ==
  /\ proposals[i].state = "pending" /\ ~ proposals[i].expired
  /\ Checked(i)
  /\ confirmations' = confirmations \union {[proposal |-> i, seen |-> versions[Target(i)]]}
  /\ UNCHANGED <<proposals, versions, pointer, proposalRuns, agentsOn>>

\* The action has its own guards, which look at more than the version.
CommitConfirm(s) ==
  LET i == s.proposal
      t == Target(i)
  IN /\ proposals[i].state = "pending"
     /\ confirmations' = confirmations \ {s}
     /\ IF proposals[i].action \in Written
          THEN versions[t] = s.seen /\ versions' = [versions EXCEPT ![t] = @ + 1]
          ELSE UNCHANGED versions
     /\ proposals' = [SetState(i, "confirmed") EXCEPT ![i].executed = versions[t]]
     /\ Unpoint(i)
     /\ CompleteRun(i)
     /\ UNCHANGED agentsOn

\* The action refuses, a row has changed, or the request is lost.
AbortConfirm(s) ==
  /\ confirmations' = confirmations \ {s}
  /\ UNCHANGED <<proposals, versions, pointer, proposalRuns, agentsOn>>

\* A proposal that has expired can still be rejected.
RejectProposal(i) ==
  /\ proposals[i].state = "pending"
  /\ proposals' = SetState(i, "rejected")
  /\ Unpoint(i)
  /\ CompleteRun(i)
  /\ UNCHANGED <<versions, agentsOn, confirmations>>

\* A run that waits for an approval is only marked.
CancelRun(r) ==
  /\ proposalRuns[r] = "running"
  /\ proposalRuns' = [proposalRuns EXCEPT ![r] = "cancelled"]
  /\ UNCHANGED <<proposals, versions, pointer, agentsOn, confirmations>>

CancelRunning ==
  proposalRuns' = [r \in ProposalRuns |->
    IF proposalRuns[r] = "running" THEN "cancelled" ELSE proposalRuns[r]]

EmergencyStop ==
  /\ agentsOn' = FALSE
  /\ CancelRunning
  /\ UNCHANGED <<proposals, versions, pointer, confirmations>>

SetAgentPolicy(enabled) ==
  /\ agentsOn' = enabled
  /\ IF enabled THEN UNCHANGED proposalRuns ELSE CancelRunning
  /\ UNCHANGED <<proposals, versions, pointer, confirmations>>

ProposalNext ==
  \/ \E a \in DOMAIN ControlledActions, r \in ProposalRuns \union {0}, v \in 1..MaxTargetVersion :
       CreateProposal(a, r, v)
  \/ \E t \in Records : EditRecord(t)
  \/ \E i \in DOMAIN proposals : Expire(i) \/ BeginConfirm(i) \/ RejectProposal(i)
  \/ \E s \in confirmations : CommitConfirm(s) \/ AbortConfirm(s)
  \/ \E r \in ProposalRuns : CancelRun(r)
  \/ EmergencyStop
  \/ \E e \in BOOLEAN : SetAgentPolicy(e)

ProposalSpec == ProposalInit /\ [][ProposalNext]_proposalVars

-----------------------------------------------------------------------------
Confirmed == {i \in DOMAIN proposals : proposals[i].state = "confirmed"}

(* confirm_proposal: an action that writes a record of the table acts on   *)
(* the version that its proposal was prepared for, and so at most once per *)
(* version, whatever runs, routes and overlapping confirmations do.        *)
ActedOncePerVersion ==
  \A i \in {j \in Confirmed : proposals[j].action \in Written /\ Target(j) \in TargetModels} :
    /\ proposals[i].executed = proposals[i].version
    /\ \A j \in Confirmed \ {i} :
         proposals[j].action \in Written /\ Target(j) = Target(i) =>
           proposals[j].executed # proposals[i].executed

-----------------------------------------------------------------------------
(* agent-operations.md: "A stale proposal must fail version checks and be  *)
(* regenerated."                                                           *)
StaleIsNotConfirmed ==
  \A i \in Confirmed : proposals[i].executed = proposals[i].version

=============================================================================
