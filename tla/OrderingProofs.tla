-------------------------- MODULE OrderingProofs ---------------------------
(***************************************************************************)
(* Proofs about the way from a request for quotation to an approved order. *)
(***************************************************************************)
EXTENDS Comparison, SupplierRequest, TLAPS

-----------------------------------------------------------------------------
(***************************************************************************)
(* Comparison. An approval always stands for the version it was given for, *)
(* whatever buyers, approvers and suppliers do in between, for any number  *)
(* of each.                                                                *)
(***************************************************************************)

\* Records are records, and a batch is confirmed from a version.
WellFormed ==
  /\ comparison = [status |-> comparison.status, version |-> comparison.version,
                   recommended |-> comparison.recommended]
  /\ \A a \in awards :
       /\ a = NewAward(a.quote, a.batch, a.status, a.po)
       /\ a.batch \in 0..MaxVersion

\* While a comparison is decided on, none of the requests of its version was
\* rejected or withdrawn: the last pending one is the last approval missing.
DecisionIsOpen ==
  comparison.status \in {"ready_for_approval", "partially_approved"} =>
    \A r \in Roles : approval[comparison.version][r] \in {"pending", "approved"}

ApprovalInv ==
  /\ ComparisonTypeOK
  /\ WellFormed
  /\ DecisionIsOpen
  /\ ApprovedByAll
  /\ PendingIsCurrent
  /\ BatchesAreApproved

\* What the invariant reads; the quotations do not matter.
approvalVars == <<comparison, approval, awards>>

LEMMA ApprovalInitially ==
  ASSUME ComparisonInit
  PROVE  ApprovalInv
BY ComparisonAssumption
   DEF ComparisonInit, AwardInit, ApprovalInv, ComparisonTypeOK, WellFormed,
       DecisionIsOpen, ApprovedByAll, PendingIsCurrent, BatchesAreApproved

LEMMA ApprovalStutters ==
  ASSUME ApprovalInv, UNCHANGED approvalVars
  PROVE  ApprovalInv'
BY DEF approvalVars, ApprovalInv, ComparisonTypeOK, WellFormed, NewAward,
       DecisionIsOpen, ApprovedByAll, PendingIsCurrent, BatchesAreApproved

\* Closing the open requests touches no decision and leaves none pending.
LEMMA ClosedRequests ==
  ASSUME ComparisonTypeOK, NEW to \in {"superseded", "invalidated"}
  PROVE  /\ CloseRequests(to) \in [1..MaxVersion -> [Roles ->
              {"none", "approved", "rejected", "invalidated", "superseded"}]]
         /\ \A v \in 1..MaxVersion, r \in Roles :
              /\ (approval[v][r] = "approved") => (CloseRequests(to)[v][r] = "approved")
              /\ CloseRequests(to)[v][r] # "pending"
BY DEF ComparisonTypeOK, CloseRequests

LEMMA GenerateKeeps ==
  ASSUME ApprovalInv, Generate
  PROVE  ApprovalInv'
<1>1. comparison' = [status |-> comparison'.status, version |-> comparison'.version,
                     recommended |-> comparison'.recommended]
      /\ comparison'.status \in {"draft", "no_eligible_supplier"}
      /\ awards' = awards
  BY DEF Generate
<1>2. CASE UnderApproval
  <2>1. comparison'.version \in 1..MaxVersion
    BY <1>2, ComparisonAssumption DEF Generate, ApprovalInv, ComparisonTypeOK
  <2>2. approval' = CloseRequests("superseded")
    BY <1>2 DEF Generate
  <2>3. ComparisonTypeOK' /\ WellFormed'
    BY <1>1, <2>1, <2>2, ClosedRequests DEF ApprovalInv, ComparisonTypeOK, WellFormed, NewAward
  <2>4. DecisionIsOpen' /\ ApprovedByAll'
    BY <1>1 DEF DecisionIsOpen, ApprovedByAll
  <2>5. PendingIsCurrent'
    BY <2>2, ClosedRequests DEF ApprovalInv, PendingIsCurrent
  <2>6. BatchesAreApproved'
    <3> SUFFICES ASSUME NEW a \in awards, a.batch # 0, NEW r \in Roles
                 PROVE  approval'[a.batch][r] = "approved"
      BY <1>1 DEF BatchesAreApproved
    <3>1. a.batch \in 1..MaxVersion /\ approval[a.batch][r] = "approved"
      BY ComparisonAssumption DEF ApprovalInv, WellFormed, BatchesAreApproved
    <3> QED  BY <2>2, <3>1, ClosedRequests DEF ApprovalInv
  <2> QED
    BY <2>3, <2>4, <2>5, <2>6 DEF ApprovalInv
<1>3. CASE ~UnderApproval
  <2>1. comparison'.version = comparison.version /\ approval' = approval
    BY <1>3 DEF Generate, ApprovalInv, ComparisonTypeOK
  <2> QED
    BY <1>1, <1>3, <2>1
       DEF UnderApproval, ApprovalInv, ComparisonTypeOK, WellFormed, NewAward,
           DecisionIsOpen, ApprovedByAll, PendingIsCurrent, BatchesAreApproved
<1> QED  BY <1>2, <1>3

LEMMA SubmitKeeps ==
  ASSUME ApprovalInv, NEW j \in BOOLEAN, Submit(j)
  PROVE  ApprovalInv'
<1> DEFINE version == comparison.version + IF comparison.status = "rejected" THEN 1 ELSE 0
<1>1. /\ version \in 1..MaxVersion
      /\ Submittable(version)
      /\ comparison' = [comparison EXCEPT !.status = "ready_for_approval", !.version = version]
      /\ approval' = [CloseRequests("invalidated") EXCEPT ![version] = [r \in Roles |-> "pending"]]
      /\ awards' = awards
  BY ComparisonAssumption DEF Submit, ApprovalInv, ComparisonTypeOK
<1> HIDE DEF version
<1>2. comparison' = [status |-> "ready_for_approval", version |-> version,
                     recommended |-> comparison.recommended]
  BY <1>1 DEF ApprovalInv, WellFormed
<1>3. \A v \in 1..MaxVersion, r \in Roles :
        approval'[v][r] = IF v = version THEN "pending" ELSE CloseRequests("invalidated")[v][r]
  BY <1>1, ClosedRequests DEF ApprovalInv
<1>4. ComparisonTypeOK'
  BY <1>1, <1>2, ClosedRequests DEF ApprovalInv, ComparisonTypeOK
<1>5. WellFormed'
  BY <1>1, <1>2 DEF ApprovalInv, WellFormed, NewAward
<1>6. DecisionIsOpen' /\ ApprovedByAll'
  BY <1>1, <1>2, <1>3 DEF DecisionIsOpen, ApprovedByAll
<1>7. PendingIsCurrent'
  <2>1. \A v \in 1..MaxVersion, r \in Roles : CloseRequests("invalidated")[v][r] # "pending"
    BY ClosedRequests DEF ApprovalInv
  <2> QED  BY <1>2, <1>3, <2>1 DEF PendingIsCurrent
<1>8. BatchesAreApproved'
  <2> SUFFICES ASSUME NEW a \in awards, a.batch # 0, NEW r \in Roles
               PROVE  approval'[a.batch][r] = "approved"
    BY <1>1 DEF BatchesAreApproved
  <2>1. a.batch \in 1..MaxVersion /\ approval[a.batch][r] = "approved"
    BY ComparisonAssumption DEF ApprovalInv, WellFormed, BatchesAreApproved
  <2>2. a.batch # version
    BY <1>1, <2>1 DEF Submittable
  <2> QED  BY <1>3, <2>1, <2>2, ClosedRequests DEF ApprovalInv
<1> QED  BY <1>4, <1>5, <1>6, <1>7, <1>8 DEF ApprovalInv

LEMMA ApproveKeeps ==
  ASSUME ApprovalInv, NEW r \in Roles, Approve(r)
  PROVE  ApprovalInv'
<1> DEFINE v == comparison.version
           open == \E o \in Roles \ {r} : approval[v][o] = "pending"
<1>1. /\ v \in 1..MaxVersion
      /\ approval[v][r] = "pending"
      /\ approval' = [approval EXCEPT ![v][r] = "approved"]
      /\ comparison' = [comparison EXCEPT !.status = IF open THEN "partially_approved" ELSE "approved"]
      /\ awards' = awards
  BY DEF Approve, ApprovalInv, ComparisonTypeOK
<1>2. comparison' = [status |-> IF open THEN "partially_approved" ELSE "approved",
                     version |-> v, recommended |-> comparison.recommended]
  BY <1>1 DEF ApprovalInv, WellFormed
<1>3. \A w \in 1..MaxVersion, o \in Roles :
        approval'[w][o] = IF w = v /\ o = r THEN "approved" ELSE approval[w][o]
  BY <1>1 DEF ApprovalInv, ComparisonTypeOK
<1>4. ComparisonTypeOK'
  BY <1>1, <1>2 DEF ApprovalInv, ComparisonTypeOK
<1>5. WellFormed'
  BY <1>1, <1>2 DEF ApprovalInv, WellFormed, NewAward
<1>6. \A o \in Roles : approval[v][o] \in {"pending", "approved"}
  BY <1>1 DEF ApprovalInv, PendingIsCurrent, DecisionIsOpen
<1>7. DecisionIsOpen' /\ ApprovedByAll'
  BY <1>1, <1>2, <1>3, <1>6 DEF DecisionIsOpen, ApprovedByAll
<1>8. PendingIsCurrent'
  <2> SUFFICES ASSUME NEW w \in 1..MaxVersion, NEW o \in Roles, approval'[w][o] = "pending"
               PROVE  w = v /\ open
    BY <1>2 DEF PendingIsCurrent
  <2>1. approval[w][o] = "pending" /\ ~(w = v /\ o = r)
    BY <1>3
  <2>2. w = v
    BY <2>1 DEF ApprovalInv, PendingIsCurrent
  <2> QED  BY <2>1, <2>2
<1>9. BatchesAreApproved'
  BY <1>1, <1>3, ComparisonAssumption DEF ApprovalInv, WellFormed, BatchesAreApproved
<1> QED  BY <1>4, <1>5, <1>7, <1>8, <1>9 DEF ApprovalInv

LEMMA RejectKeeps ==
  ASSUME ApprovalInv, NEW r \in Roles, Reject(r)
  PROVE  ApprovalInv'
<1> DEFINE v == comparison.version
           Decided(o) == IF o = r THEN "rejected"
                         ELSE IF approval[v][o] = "pending" THEN "invalidated" ELSE approval[v][o]
<1>1. /\ v \in 1..MaxVersion
      /\ approval[v][r] = "pending"
      /\ approval' = [approval EXCEPT ![v] = [o \in Roles |-> Decided(o)]]
      /\ comparison' = [comparison EXCEPT !.status = "rejected"]
      /\ awards' = awards
  BY DEF Reject, ApprovalInv, ComparisonTypeOK
<1>2. comparison' = [status |-> "rejected", version |-> v,
                     recommended |-> comparison.recommended]
  BY <1>1 DEF ApprovalInv, WellFormed
<1>3. \A w \in 1..MaxVersion, o \in Roles :
        approval'[w][o] = IF w = v THEN Decided(o) ELSE approval[w][o]
  BY <1>1 DEF ApprovalInv, ComparisonTypeOK
<1>4. ComparisonTypeOK'
  BY <1>1, <1>2 DEF ApprovalInv, ComparisonTypeOK
<1>5. WellFormed'
  BY <1>1, <1>2 DEF ApprovalInv, WellFormed, NewAward
<1>6. DecisionIsOpen' /\ ApprovedByAll'
  BY <1>2 DEF DecisionIsOpen, ApprovedByAll
<1>7. PendingIsCurrent'
  BY <1>3 DEF ApprovalInv, PendingIsCurrent
<1>8. BatchesAreApproved'
  BY <1>1, <1>3, ComparisonAssumption DEF ApprovalInv, WellFormed, BatchesAreApproved
<1> QED  BY <1>4, <1>5, <1>6, <1>7, <1>8 DEF ApprovalInv

LEMMA RecommendationKeeps ==
  ASSUME ApprovalInv, UNCHANGED <<approval, awards>>, NEW q,
         comparison' = [comparison EXCEPT !.recommended = q]
  PROVE  ApprovalInv'
<1>1. comparison' = [status |-> comparison.status, version |-> comparison.version,
                     recommended |-> q]
  BY DEF ApprovalInv, WellFormed
<1> QED
  BY <1>1 DEF ApprovalInv, ComparisonTypeOK, WellFormed, NewAward, DecisionIsOpen,
              ApprovedByAll, PendingIsCurrent, BatchesAreApproved

\* Orders and awards read the approvals and change none.
LEMMA OrderingKeeps ==
  ASSUME ApprovalInv, UNCHANGED <<comparison, approval>>,
         \A b \in awards' :
           /\ b = NewAward(b.quote, b.batch, b.status, b.po)
           /\ \/ b.batch = 0
              \/ b.batch = comparison.version /\ comparison.status = "approved"
              \/ \E a \in awards : b.batch = a.batch
  PROVE  ApprovalInv'
<1>1. WellFormed'
  BY ComparisonAssumption DEF ApprovalInv, WellFormed, ComparisonTypeOK
<1>2. BatchesAreApproved'
  BY DEF ApprovalInv, BatchesAreApproved, ApprovedByAll
<1> QED
  BY <1>1, <1>2
     DEF ApprovalInv, ComparisonTypeOK, DecisionIsOpen, ApprovedByAll, PendingIsCurrent

\* Writing the status of an award or of its order leaves its batch.
LEMMA UpdateKeeps ==
  ASSUME ApprovalInv, UNCHANGED <<comparison, approval>>,
         NEW a \in awards, NEW status, NEW po, Update(a, status, po)
  PROVE  ApprovalInv'
<1>1. \A b \in awards' :
        \/ b \in awards
        \/ b = NewAward(a.quote, a.batch, status, po)
  BY DEF Update
<1>2. \A b \in awards' :
        /\ b = NewAward(b.quote, b.batch, b.status, b.po)
        /\ \E c \in awards : b.batch = c.batch
  BY <1>1 DEF ApprovalInv, WellFormed, NewAward
<1> QED  BY <1>2, OrderingKeeps

LEMMA NextKeeps ==
  ASSUME ApprovalInv, [ComparisonNext]_comparisonVars
  PROVE  ApprovalInv'
<1>1. CASE \/ \E s \in Suppliers : ReceiveQuote(s) \/ AcceptNegotiation(s)
           \/ \E q \in Quotes, o \in {"needs_review", "verified"} : VerifyFields(q, o)
           \/ \E s \in Lapsing : ComplianceChanges(s)
           \/ UNCHANGED comparisonVars
  <2>1. UNCHANGED approvalVars
    BY <1>1 DEF ReceiveQuote, AcceptNegotiation, VerifyFields, ComplianceChanges, buying,
                comparisonVars, approvalVars
  <2> QED  BY <2>1, ApprovalStutters
<1>2. CASE Generate
  BY <1>2, GenerateKeeps
<1>3. CASE \E j \in BOOLEAN : Submit(j)
  BY <1>3, SubmitKeeps
<1>4. CASE \E r \in Roles : Approve(r)
  BY <1>4, ApproveKeeps
<1>5. CASE \E r \in Roles : Reject(r)
  BY <1>5, RejectKeeps
<1>6. CASE ConfirmOrder
  <2>1. UNCHANGED <<comparison, approval>>
    BY <1>6 DEF ConfirmOrder
  <2>2. CASE \E a \in awards : Update(a, a.status, "approved_pending_outbox")
    BY <2>1, <2>2, UpdateKeeps
  <2>3. CASE awards' = awards \union
               {NewAward(comparison.recommended, 0, "approved", "approved_pending_outbox")}
    BY <2>1, <2>3, OrderingKeeps DEF ApprovalInv, WellFormed, NewAward
  <2> QED  BY <1>6, <2>2, <2>3 DEF ConfirmOrder
<1>7. ASSUME NEW chosen \in SUBSET Verified, ConfirmSplit(chosen)
      PROVE  ApprovalInv'
  <2>1. UNCHANGED <<comparison, approval>> /\ comparison.status = "approved"
    BY <1>7 DEF ConfirmSplit
  <2>2. \A b \in awards' :
          \/ b \in awards
          \/ \E q \in chosen :
               b = NewAward(q, comparison.version, "approved", "approved_pending_outbox")
    BY <1>7 DEF ConfirmSplit
  <2> QED
    BY <2>1, <2>2, OrderingKeeps DEF ApprovalInv, WellFormed, NewAward
<1>8. ASSUME NEW q \in Quotes, CreateAward(q)
      PROVE  ApprovalInv'
  <2>1. CASE awards' = awards
    <3>1. CASE comparison' = comparison
      BY <1>8, <2>1, <3>1, ApprovalStutters DEF CreateAward, approvalVars
    <3>2. CASE comparison' = [comparison EXCEPT !.recommended = Recommendation]
      BY <1>8, <2>1, <3>2, RecommendationKeeps DEF CreateAward
    <3> QED  BY <1>8, <3>1, <3>2 DEF CreateAward
  <2>2. CASE awards' = awards \union {NewAward(q, 0, "pending_approval", "none")}
    <3>1. /\ comparison'.status = comparison.status
          /\ comparison'.version = comparison.version
          /\ comparison' = [status |-> comparison'.status, version |-> comparison'.version,
                            recommended |-> comparison'.recommended]
          /\ approval' = approval
      BY <1>8 DEF CreateAward, ApprovalInv, WellFormed
    <3>2. WellFormed'
      BY <2>2, <3>1, ComparisonAssumption DEF ApprovalInv, WellFormed, NewAward
    <3>3. BatchesAreApproved'
      BY <2>2, <3>1 DEF ApprovalInv, BatchesAreApproved, NewAward
    <3> QED
      BY <3>1, <3>2, <3>3
         DEF ApprovalInv, ComparisonTypeOK, DecisionIsOpen, ApprovedByAll, PendingIsCurrent
  <2> QED  BY <1>8, <2>1, <2>2 DEF CreateAward
<1>9. ASSUME NEW a \in awards, ApproveAward(a) \/ RejectAward(a) \/ ApproveOrder(a)
      PROVE  ApprovalInv'
  BY <1>9, UpdateKeeps DEF ApproveAward, RejectAward, ApproveOrder
<1> QED
  BY <1>1, <1>2, <1>3, <1>4, <1>5, <1>6, <1>7, <1>8, <1>9 DEF ComparisonNext

-----------------------------------------------------------------------------
\* The inductive invariant: the state of a comparison and of the requests of
\* all its versions fit together (regenerate, submit and decide_comparison).
THEOREM ApprovalInvariant == ComparisonSpec => []ApprovalInv
<1>1. ComparisonInit => ApprovalInv
  BY ApprovalInitially
<1>2. ApprovalInv /\ [ComparisonNext]_comparisonVars => ApprovalInv'
  BY NextKeeps
<1> QED  BY <1>1, <1>2, PTL DEF ComparisonSpec

\* An approved comparison has the approval of every required role for its
\* version, for any policy and any number of resubmissions.
THEOREM EveryRoleApproved == ComparisonSpec => []ApprovedByAll
<1>1. ApprovalInv => ApprovedByAll
  BY DEF ApprovalInv
<1> QED  BY <1>1, ApprovalInvariant, PTL

\* No request of an earlier version, or of a comparison that is no longer
\* decided on, stays pending.
THEOREM NoStaleRequest == ComparisonSpec => []PendingIsCurrent
<1>1. ApprovalInv => PendingIsCurrent
  BY DEF ApprovalInv
<1> QED  BY <1>1, ApprovalInvariant, PTL

\* A split order stays backed by the approvals of the version it was
\* confirmed from, also when the comparison has moved on.
THEOREM SplitsAreApproved == ComparisonSpec => []BatchesAreApproved
<1>1. ApprovalInv => BatchesAreApproved
  BY DEF ApprovalInv
<1> QED  BY <1>1, ApprovalInvariant, PTL

-----------------------------------------------------------------------------
(***************************************************************************)
(* SupplierRequest, for any suppliers.  A quotation is taken once the      *)
(* request is published, and from there it never goes back to a draft: the *)
(* steps that write every invitation, CreateRfq and PublishRfq, come       *)
(* before the first response.                                              *)
(***************************************************************************)

InvitationStatuses == {"none", "pending", "sent", "responded", "no_bid"}

\* Nobody has answered a request that is not out.
AnswersFollow ==
  /\ invitation \in [Bidders -> InvitationStatuses]
  /\ rfq = [status |-> rfq.status, invited |-> rfq.invited]
  /\ rfq.status \in {"none", "draft"} => \A s \in Bidders : invitation[s] # "responded"

LEMMA RequestInitially ==
  ASSUME RequestInit
  PROVE  AnswersFollow
BY DEF RequestInit, AnswersFollow, InvitationStatuses

\* What no response and no publication of the request depends on.
LEMMA RequestStays ==
  ASSUME AnswersFollow, UNCHANGED <<rfq, invitation>>
  PROVE  AnswersFollow'
BY DEF AnswersFollow

\* One invitation is written, and the request is not taken back.
LEMMA OneInvitationWritten ==
  ASSUME AnswersFollow, NEW s \in Bidders, NEW to \in InvitationStatuses,
         invitation' = [invitation EXCEPT ![s] = to],
         to = "responded" => rfq'.status = "responses_open",
         rfq' = rfq \/ rfq' = [rfq EXCEPT !.status = "responses_open"]
  PROVE  AnswersFollow'
<1>1. invitation' \in [Bidders -> InvitationStatuses]
  BY DEF AnswersFollow
<1>2. rfq' = [status |-> rfq'.status, invited |-> rfq'.invited]
  BY DEF AnswersFollow
<1>3. rfq'.status \in {"none", "draft"} => \A b \in Bidders : invitation'[b] # "responded"
  BY DEF AnswersFollow
<1> QED  BY <1>1, <1>2, <1>3 DEF AnswersFollow

LEMMA RequestKeeps ==
  ASSUME AnswersFollow, [RequestNext]_requestVars
  PROVE  AnswersFollow'
<1>1. CASE UNCHANGED requestVars
  BY <1>1, RequestStays DEF requestVars, requirementVars, answerVars
<1>2. ASSUME NEW s \in Bidders,
             \/ SubmitCertificate(s) \/ ExpireCertificate(s)
             \/ \E v \in BOOLEAN : DecideCertificate(s, v)
      PROVE  AnswersFollow'
  BY <1>2, RequestStays
     DEF SubmitCertificate, ExpireCertificate, DecideCertificate, requirementVars, answerVars
<1>3. CASE CreateRequirement
  BY <1>3, RequestStays DEF CreateRequirement, answerVars
<1>4. CASE CreateRfq
  <2> DEFINE ready == {s \in Bidders : Ready(s)}
  <2>1. rfq' = [status |-> "draft", invited |-> ready]
    BY <1>4 DEF CreateRfq
  <2>2. invitation' = [s \in Bidders |-> IF s \in ready THEN "pending" ELSE "none"]
    BY <1>4 DEF CreateRfq
  <2> HIDE DEF ready
  <2> QED  BY <2>1, <2>2 DEF AnswersFollow, InvitationStatuses
<1>5. ASSUME NEW suppliers \in SUBSET Bidders, UpdateRfq(suppliers)
      PROVE  AnswersFollow'
  BY <1>5 DEF UpdateRfq, AnswersFollow, answerVars
<1>6. CASE PublishRfq
  <2>1. rfq' = [rfq EXCEPT !.status = "published"]
    BY <1>6 DEF PublishRfq
  <2>2. invitation' \in [Bidders -> InvitationStatuses]
    BY <1>6 DEF PublishRfq, AnswersFollow, InvitationStatuses
  <2> QED  BY <2>1, <2>2 DEF AnswersFollow
<1>7. ASSUME NEW s \in Bidders, PortalQuote(s)
      PROVE  AnswersFollow'
  <2> DEFINE to == IF invitation[s] = "none" THEN "none" ELSE "responded"
  <2>1. to \in InvitationStatuses
    BY DEF InvitationStatuses
  <2>2. invitation' = [invitation EXCEPT ![s] = to]
    BY <1>7 DEF PortalQuote
  <2>3. rfq' = [rfq EXCEPT !.status = "responses_open"] /\ rfq'.status = "responses_open"
    BY <1>7 DEF PortalQuote, AnswersFollow
  <2> HIDE DEF to
  <2> QED  BY <2>1, <2>2, <2>3, OneInvitationWritten
<1>8. CASE BuyerQuote
  BY <1>8 DEF BuyerQuote, AnswersFollow, answerVars
<1>9. ASSUME NEW s \in Bidders, NoBid(s)
      PROVE  AnswersFollow'
  <2>1. rfq' = rfq /\ invitation' = [invitation EXCEPT ![s] = "no_bid"]
    BY <1>9 DEF NoBid, requirementVars
  <2>2. "no_bid" \in InvitationStatuses
    BY DEF InvitationStatuses
  <2> QED  BY <2>1, <2>2, OneInvitationWritten
<1>10. ASSUME NEW s \in Bidders,
              \/ CreateNegotiation(s) \/ SubmitNegotiation(s) \/ ApproveNegotiation(s)
              \/ RecordCounteroffer(s) \/ AcceptCounteroffer(s)
       PROVE  AnswersFollow'
  BY <1>10, RequestStays
     DEF CreateNegotiation, SubmitNegotiation, ApproveNegotiation, RecordCounteroffer,
         AcceptCounteroffer, Negotiate, requirementVars, answerVars
<1> QED
  BY <1>1, <1>2, <1>3, <1>4, <1>5, <1>6, <1>7, <1>8, <1>9, <1>10 DEF RequestNext

\* No step takes a response back: the two that rewrite every invitation find
\* none, and a decline is refused.
LEMMA ResponsesStand ==
  ASSUME AnswersFollow, [RequestNext]_requestVars, NEW s \in Bidders, invitation[s] = "responded"
  PROVE  invitation'[s] = "responded"
<1>1. rfq.status \notin {"none", "draft"}
  BY DEF AnswersFollow
<1>2. CASE CreateRfq \/ PublishRfq
  BY <1>1, <1>2 DEF CreateRfq, PublishRfq
<1>3. ASSUME NEW b \in Bidders, PortalQuote(b) \/ NoBid(b)
      PROVE  invitation'[s] = "responded"
  BY <1>3 DEF PortalQuote, NoBid, Declinable, AnswersFollow
<1>4. CASE UNCHANGED invitation
  BY <1>4
<1> QED
  BY <1>2, <1>3, <1>4
     DEF RequestNext, requestVars, answerVars, SubmitCertificate, ExpireCertificate, DecideCertificate,
         CreateRequirement, UpdateRfq, BuyerQuote, CreateNegotiation, SubmitNegotiation,
         ApproveNegotiation, RecordCounteroffer, AcceptCounteroffer, Negotiate

\* A supplier that has quoted (receive_supplier_quote) stays one that
\* has, whatever edits, publications and declines follow.
THEOREM ResponsesAreKept == RequestSpec => ResponseIsKept
<1>1. RequestInit => AnswersFollow
  BY RequestInitially
<1>2. AnswersFollow /\ [RequestNext]_requestVars => AnswersFollow'
  BY RequestKeeps
<1>3. AnswersFollow /\ [RequestNext]_requestVars =>
        [\A s \in Bidders : invitation[s] = "responded" => invitation'[s] = "responded"]_requestVars
  BY ResponsesStand
<1> QED  BY <1>1, <1>2, <1>3, PTL DEF RequestSpec, ResponseIsKept
=============================================================================
