----------------------------- MODULE Comparison -----------------------------
(***************************************************************************)
(* The comparison of the quotations for one request: how quotations are    *)
(* verified and repriced, the comparison and its named approvals, and the  *)
(* two ways to a purchase order: the confirmation of an approved           *)
(* comparison, as one order or split, and the award that the purchase      *)
(* manager approves directly.                                              *)
(*                                                                         *)
(* Buyers, approvers and suppliers interleave freely; every operation is   *)
(* one transaction on versioned rows.  The request has one line.  What a   *)
(* quotation is worth is a fixed order of the quotations; who may quote,   *)
(* and when, is the subject of SupplierRequest.                            *)
(***************************************************************************)
EXTENDS Integers, FiniteSets, Sequences

CONSTANTS
  Suppliers,
  Roles,        \* required_approval_roles of the active policy
  MinQuotes,    \* minimum_quotation_count of the active policy
  MaxRevision,  \* bound: how many revisions a supplier submits
  MaxVersion,   \* bound: the versions of the comparison
  MaxAwards,    \* bound: award decisions of the request
  Lapsing,      \* bound: suppliers whose compliance changes
  NoQuote       \* a comparison without an eligible quotation

ASSUME ComparisonAssumption ==
  /\ MaxRevision \in [Suppliers -> Nat]
  /\ MaxVersion \in Nat \ {0}
  /\ MinQuotes \in Nat
  /\ MaxAwards \in Nat
  /\ Lapsing \subseteq Suppliers

VARIABLES
  quotes,       \* per supplier the verification_status of its revisions;
                \* "needs_review" stands for rejected too
  compliant,    \* the suppliers whose mandatory certificates are in order
  comparison,   \* [status, version, recommended]
  approval,     \* comparison_approval_requests.status per version and role
  presented,    \* the recommendation in the artifact last submitted
  awards        \* award decisions with their purchase order

comparisonVars == <<quotes, compliant, comparison, approval, presented, awards>>
buying == <<comparison, approval, presented, awards>>

Quotes == UNION {{s} \X DOMAIN quotes[s] : s \in Suppliers}
Status(q) == quotes[q[1]][q[2]]
Current == {q \in Quotes : Status(q) # "superseded"}
Verified == {q \in Quotes : Status(q) = "verified"}

QuoteInit ==
  /\ quotes = [s \in Suppliers |-> <<>>]
  /\ compliant = Suppliers

AwardInit ==
  /\ comparison = [status |-> "none", version |-> 1, recommended |-> NoQuote]
  /\ approval = [v \in 1..MaxVersion |-> [r \in Roles |-> "none"]]
  /\ presented = NoQuote
  /\ awards = {}

ComparisonInit == QuoteInit /\ AwardInit

-----------------------------------------------------------------------------
(* Quotations.                                                             *)

\* The latest revision that is not superseded becomes so; the new one needs
\* review of its fields.
ReceiveQuote(s) ==
  LET previous == {i \in DOMAIN quotes[s] : quotes[s][i] # "superseded"}
      latest == {i \in previous : \A j \in previous : j <= i}
  IN /\ Len(quotes[s]) < MaxRevision[s]
     /\ quotes' = [quotes EXCEPT ![s] =
          Append([i \in DOMAIN @ |-> IF i \in latest
                                       THEN "superseded" ELSE @[i]],
                 "needs_review")]
     /\ UNCHANGED <<compliant, buying>>

\* Field decisions of the buyer, corrections included.  The status of the
\* quotation is not looked at: a superseded one can be verified again.
VerifyFields(q, outcome) ==
  /\ quotes' = [quotes EXCEPT ![q[1]][q[2]] = outcome]
  /\ UNCHANGED <<compliant, buying>>

\* An accepted counteroffer reprices the latest quotation, which needs review
\* again; the comparison and its approvals are not touched.
AcceptNegotiation(s) ==
  /\ quotes[s] # <<>>
  /\ quotes' = [quotes EXCEPT ![s][Len(quotes[s])] = "needs_review"]
  /\ UNCHANGED <<compliant, buying>>

\* Certificates are submitted, reviewed and expire.
ComplianceChanges(s) ==
  /\ compliant' = IF s \in compliant THEN compliant \ {s} ELSE compliant \union {s}
  /\ UNCHANGED <<quotes, buying>>

-----------------------------------------------------------------------------
(* The comparison and its approvals.                                       *)

\* A quotation that is not disqualified; the best of them is recommended.
Eligible == {q \in Verified : q[1] \in compliant}

Recommendation ==
  IF Eligible = {} THEN NoQuote ELSE CHOOSE q \in Eligible : TRUE

UnderApproval == comparison.status \in {"ready_for_approval", "partially_approved", "approved"}

\* Mutant: the open requests of the version under approval stay open.
KeepRequests(to) == approval

CloseRequests(to) ==
  [v \in 1..MaxVersion |-> [r \in Roles |->
     IF approval[v][r] = "pending" THEN to ELSE approval[v][r]]]

\* Regenerating under approval starts a new version; a rejected comparison
\* becomes a draft of the same version.
Generate ==
  /\ Current # {} /\ Current \subseteq Verified
  /\ UnderApproval => comparison.version < MaxVersion
  /\ comparison' = [status |-> IF Recommendation = NoQuote THEN "no_eligible_supplier" ELSE "draft",
                    version |-> comparison.version + IF UnderApproval THEN 1 ELSE 0,
                    recommended |-> Recommendation]
  /\ approval' = IF UnderApproval THEN CloseRequests("superseded") ELSE approval
  /\ UNCHANGED <<quotes, compliant, presented, awards>>

\* Too few verified quotations block a submission without a justification.
PolicyAllows(justified) ==
  justified \/ Cardinality({q[1] : q \in Verified}) >= MinQuotes

\* A request is unique per comparison, version and role: those of a version
\* can be inserted once.
Submittable(version) == \A r \in Roles : approval[version][r] = "none"

Submit(justified) ==
  LET version == comparison.version + IF comparison.status = "rejected" THEN 1 ELSE 0
  IN /\ comparison.status \in {"draft", "rejected"}
     /\ comparison.recommended # NoQuote
     /\ PolicyAllows(justified)
     /\ version <= MaxVersion
     /\ Submittable(version)
     /\ comparison' = [comparison EXCEPT !.status = "ready_for_approval", !.version = version]
     /\ approval' = [CloseRequests("invalidated") EXCEPT ![version] = [r \in Roles |-> "pending"]]
     /\ presented' = comparison.recommended
     /\ UNCHANGED <<quotes, compliant, awards>>

\* Mutant: the other approvals are not waited for.
ApproveAtOnce(r) ==
  /\ approval[comparison.version][r] = "pending"
  /\ approval' = [approval EXCEPT ![comparison.version][r] = "approved"]
  /\ comparison' = [comparison EXCEPT !.status = "approved"]
  /\ UNCHANGED <<quotes, compliant, presented, awards>>

\* Only the request of the current version is looked for, not the status of
\* the comparison.
Approve(r) ==
  LET v == comparison.version
      open == \E o \in Roles \ {r} : approval[v][o] = "pending"
  IN /\ approval[v][r] = "pending"
     /\ approval' = [approval EXCEPT ![v][r] = "approved"]
     /\ comparison' = [comparison EXCEPT !.status = IF open THEN "partially_approved" ELSE "approved"]
     /\ UNCHANGED <<quotes, compliant, presented, awards>>

Reject(r) ==
  LET v == comparison.version
  IN /\ approval[v][r] = "pending"
     /\ approval' = [approval EXCEPT ![v] = [o \in Roles |->
          IF o = r THEN "rejected" ELSE IF @[o] = "pending" THEN "invalidated" ELSE @[o]]]
     /\ comparison' = [comparison EXCEPT !.status = "rejected"]
     /\ UNCHANGED <<quotes, compliant, presented, awards>>

-----------------------------------------------------------------------------
(* Awards and purchase orders.                                             *)

\* batch: the version a split was confirmed from, 0 for a single award.
NewAward(q, batch, status, po) == [quote |-> q, batch |-> batch, status |-> status, po |-> po]

\* The award and its order are written; its quotation and batch are kept.
Update(a, status, po) ==
  awards' = (awards \ {a}) \union {NewAward(a.quote, a.batch, status, po)}

\* What is recommended now is ordered, with any award its supplier has.
ConfirmOrder ==
  LET q == comparison.recommended
      existing == {a \in awards : a.quote[1] = q[1]}
  IN /\ comparison.status = "approved" /\ q # NoQuote
     /\ \/ /\ existing = {} /\ Cardinality(awards) < MaxAwards
           /\ awards' = awards \union
                {NewAward(q, 0, "approved", "approved_pending_outbox")}
        \/ \E a \in existing :
             Update(a, a.status, "approved_pending_outbox")
     /\ UNCHANGED <<quotes, compliant, comparison, approval, presented>>

\* One batch per version; every allocation uses a quotation verified now.
ConfirmSplit(chosen) ==
  /\ comparison.status = "approved"
  /\ chosen # {}
  /\ \A a \in awards : a.batch # comparison.version
  /\ Cardinality(awards) + Cardinality(chosen) <= MaxAwards
  /\ awards' = awards \union
       {NewAward(q, comparison.version, "approved", "approved_pending_outbox") : q \in chosen}
  /\ UNCHANGED <<quotes, compliant, comparison, approval, presented>>

\* Recommending a quotation scores all of them again and overwrites the
\* recommendation of the comparison, whatever its status.
CreateAward(q) ==
  /\ q \in Eligible
  /\ comparison' = IF comparison.status = "none" THEN comparison
                   ELSE [comparison EXCEPT !.recommended = Recommendation]
  /\ \/ (\E a \in awards : a.quote = q) /\ UNCHANGED awards
     \/ /\ ~ \E a \in awards : a.quote = q
        /\ Cardinality(awards) < MaxAwards
        /\ awards' = awards \union {NewAward(q, 0, "pending_approval", "none")}
  /\ UNCHANGED <<quotes, compliant, approval, presented>>

\* Approving the award creates its order, also when the award was approved
\* before.
ApproveAward(a) ==
  /\ a.status # "rejected"
  /\ Update(a, "approved", IF a.po = "none" THEN "pending_approval" ELSE a.po)
  /\ UNCHANGED <<quotes, compliant, comparison, approval, presented>>

RejectAward(a) ==
  /\ a.status = "pending_approval"
  /\ Update(a, "rejected", a.po)
  /\ UNCHANGED <<quotes, compliant, comparison, approval, presented>>

ApproveOrder(a) ==
  /\ a.po = "pending_approval"
  /\ Update(a, a.status, "approved_pending_outbox")
  /\ UNCHANGED <<quotes, compliant, comparison, approval, presented>>

-----------------------------------------------------------------------------
ComparisonNext ==
  \/ \E s \in Suppliers : ReceiveQuote(s)
  \/ \E q \in Quotes, o \in {"needs_review", "verified"} : VerifyFields(q, o)
  \/ \E s \in Suppliers : AcceptNegotiation(s)
  \/ \E s \in Lapsing : ComplianceChanges(s)
  \/ Generate
  \/ \E j \in BOOLEAN : Submit(j)
  \/ \E r \in Roles : Approve(r)
  \/ \E r \in Roles : Reject(r)
  \/ ConfirmOrder
  \/ \E chosen \in SUBSET Verified : ConfirmSplit(chosen)
  \/ \E q \in Quotes : CreateAward(q)
  \/ \E a \in awards : ApproveAward(a)
  \/ \E a \in awards : RejectAward(a)
  \/ \E a \in awards : ApproveOrder(a)

ComparisonSpec == ComparisonInit /\ [][ComparisonNext]_comparisonVars

-----------------------------------------------------------------------------
(* Type correctness of the comparison and of its approval requests.        *)
ComparisonTypeOK ==
  /\ comparison.status \in {"none", "draft", "no_eligible_supplier", "ready_for_approval",
                            "partially_approved", "approved", "rejected"}
  /\ comparison.version \in 1..MaxVersion
  /\ approval \in [1..MaxVersion -> [Roles -> {"none", "pending", "approved", "rejected",
                                               "invalidated", "superseded"}]]

\* An approved comparison carries the approval of every required role for
\* exactly its version, however it was regenerated, rejected and resubmitted.
ApprovedByAll ==
  comparison.status = "approved" =>
    \A r \in Roles : approval[comparison.version][r] = "approved"

\* decide_comparison looks only for a pending request of the current version:
\* one must never be left behind by a comparison that went back to draft.
PendingIsCurrent ==
  \A v \in 1..MaxVersion, r \in Roles : approval[v][r] = "pending" =>
    /\ v = comparison.version
    /\ comparison.status \in {"ready_for_approval", "partially_approved"}

\* A split award belongs to a version that every role approved, also after
\* later versions of the comparison.
BatchesAreApproved ==
  \A a \in awards : a.batch # 0 => \A r \in Roles : approval[a.batch][r] = "approved"

-----------------------------------------------------------------------------
(* What the documents say and the code does not do.                        *)

\* docs/architecture/procurement-v2.md: the approved version is immutable and
\* bound to its approvals: what it recommends, and a confirmation orders, is
\* what the approvers saw.
ApprovedIsPresented ==
  comparison.status = "approved" => comparison.recommended = presented

\* The same document: a rejection assigns the revision to the purchase
\* manager: the revised comparison can be submitted.
RejectedCanBeRevised ==
  comparison.status = "draft" => Submittable(comparison.version)

=============================================================================
