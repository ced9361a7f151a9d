------------------------------- MODULE MCDesk -------------------------------
(* What people, their agents and the outside world put on the desk, for    *)
(* TLC: the documents of a quotation batch and what a model extracts from  *)
(* them, supplier mail and invoice papers, repeated requests, invitations, *)
(* proposals that wait for a decision, runs of specialists, the companion. *)
(* The modules share no variable: a run follows one of them, "focus", so   *)
(* that it explores their sum and not their product.                       *)
EXTENDS QuotationBatch, Extraction, SupplierMail, Workspace, AgentProposals,
        SpecialistRuns, Companion, TLC
VARIABLE focus

\* The same invoice on every paper.
SameContent == [p \in Papers |-> "same"]

documentVars == <<batchVars, extractionVars, supplierMailVars>>
agentVars == <<proposalVars, specialistVars, companionVars>>
deskVars == <<documentVars, workspaceVars, agentVars, focus>>

Init ==
  /\ focus \in {"batch", "extraction", "mail", "evidence", "requests", "invitations",
                "proposals", "specialists", "companion"}
  /\ BatchInit /\ ExtractionInit /\ SupplierMailInit /\ WorkspaceInit
  /\ ProposalInit /\ SpecialistInit /\ CompanionInit

DocumentStep ==
  /\ UNCHANGED <<workspaceVars, agentVars>>
  /\ \/ focus = "batch" /\ BatchNext /\ UNCHANGED <<extractionVars, supplierMailVars>>
     \/ focus = "extraction" /\ ExtractionNext /\ UNCHANGED <<batchVars, supplierMailVars>>
     \/ focus = "mail" /\ MailNext /\ UNCHANGED <<batchVars, extractionVars>>
     \/ focus = "evidence" /\ EvidenceNext /\ UNCHANGED <<batchVars, extractionVars>>

WorkspaceStep ==
  /\ UNCHANGED <<documentVars, agentVars>>
  /\ \/ focus = "requests" /\ RequestNext
     \/ focus = "invitations" /\ InvitationNext

AgentStep ==
  /\ UNCHANGED <<documentVars, workspaceVars>>
  /\ \/ focus = "proposals" /\ ProposalNext /\ UNCHANGED <<specialistVars, companionVars>>
     \/ focus = "specialists" /\ SpecialistNext /\ UNCHANGED <<proposalVars, companionVars>>
     \/ focus = "companion" /\ CompanionNext /\ UNCHANGED <<proposalVars, specialistVars>>

Next ==
  /\ DocumentStep \/ WorkspaceStep \/ AgentStep
  /\ UNCHANGED focus

Spec == Init /\ [][Next]_deskVars
=============================================================================
