---------------------------- MODULE DeskProofs -----------------------------
(***************************************************************************)
(* Proofs about documents, mail, repeated requests, agents and what they   *)
(* put before people.                                                      *)
(***************************************************************************)
EXTENDS QuotationBatch, Extraction, SupplierMail, Workspace, AgentProposals,
        SpecialistRuns, Companion, AgentTurn, FiniteSetTheorems, TLAPS

-----------------------------------------------------------------------------
(***************************************************************************)
(* AgentProposals. Whatever is confirmed, edited, expired and stopped      *)
(* meanwhile, an action that writes a record acts on the version its       *)
(* proposal was prepared for, for any number of proposals, overlapping     *)
(* confirmations and versions.                                             *)
(***************************************************************************)

Actions == {"publish_rfq", "approve_po_change", "create_asn", "decide_comparison"}

ProposalRow ==
  [action : Actions, run : ProposalRuns \union {0}, version : Nat,
   state : {"pending", "confirmed", "rejected"}, expired : BOOLEAN, executed : Nat]

ProposalTypes ==
  /\ proposals \in Seq(ProposalRow)
  /\ versions \in [Records -> Nat]
  /\ confirmations \subseteq [proposal : DOMAIN proposals, seen : Nat]

\* A confirmation under way has passed the check of confirm_proposal, and
\* neither its proposal's version nor the one it has read changes after that.
SeenAsProposed ==
  \A s \in confirmations :
    Target(s.proposal) \in TargetModels => s.seen = proposals[s.proposal].version

Writes(i) == proposals[i].state = "confirmed" /\ proposals[i].action \in Written

\* Every write takes the record to a version of its own.
WritesAreBehind ==
  \A i \in DOMAIN proposals : Writes(i) => proposals[i].executed < versions[Target(i)]

ProposalInv == ProposalTypes /\ SeenAsProposed /\ WritesAreBehind /\ ActedOncePerVersion

LEMMA TargetsAreRecords ==
  /\ DOMAIN ControlledActions = Actions
  /\ \A a \in Actions : ControlledActions[a] \in Records
BY DEF ControlledActions, Actions, Records

LEMMA TargetIsRecord ==
  ASSUME ProposalTypes, NEW i \in DOMAIN proposals
  PROVE  /\ proposals[i] \in ProposalRow
         /\ proposals[i].executed \in Nat
         /\ Target(i) \in Records
<1>1. proposals[i] \in ProposalRow
  BY DEF ProposalTypes
<1>2. proposals[i].action \in Actions /\ proposals[i].executed \in Nat
  BY <1>1 DEF ProposalRow
<1> QED  BY <1>1, <1>2, TargetsAreRecords DEF Target

\* One row is replaced by another one.
LEMMA RowReplaced ==
  ASSUME ProposalTypes, NEW i \in DOMAIN proposals, NEW row \in ProposalRow,
         proposals' = [proposals EXCEPT ![i] = row]
  PROVE  /\ proposals' \in Seq(ProposalRow)
         /\ DOMAIN proposals' = DOMAIN proposals
         /\ proposals'[i] = row
         /\ \A j \in DOMAIN proposals \ {i} : proposals'[j] = proposals[j]
BY DEF ProposalTypes

LEMMA RowFields ==
  ASSUME NEW row \in ProposalRow, NEW state \in {"pending", "confirmed", "rejected"}, NEW n \in Nat
  PROVE  /\ [row EXCEPT !.state = state] \in ProposalRow
         /\ [row EXCEPT !.state = state].action = row.action
         /\ [row EXCEPT !.state = state].version = row.version
         /\ [row EXCEPT !.state = state].executed = row.executed
         /\ [row EXCEPT !.state = state].state = state
         /\ [row EXCEPT !.executed = n] \in ProposalRow
         /\ [row EXCEPT !.executed = n].action = row.action
         /\ [row EXCEPT !.executed = n].version = row.version
         /\ [row EXCEPT !.executed = n].executed = n
         /\ [row EXCEPT !.executed = n].state = row.state
         /\ [row EXCEPT !.expired = TRUE] \in ProposalRow
         /\ [row EXCEPT !.expired = TRUE].action = row.action
         /\ [row EXCEPT !.expired = TRUE].version = row.version
         /\ [row EXCEPT !.expired = TRUE].executed = row.executed
         /\ [row EXCEPT !.expired = TRUE].state = row.state
BY DEF ProposalRow

LEMMA ProposalInitially ==
  ASSUME ProposalInit
  PROVE  ProposalInv
BY DEF ProposalInit, ProposalInv, ProposalTypes, SeenAsProposed, WritesAreBehind,
       ActedOncePerVersion, Confirmed, Records

\* What the invariant says of a proposal depends on these four fields.
LEMMA UpdateKeeps ==
  ASSUME ProposalInv, proposals' \in Seq(ProposalRow), UNCHANGED versions,
         DOMAIN proposals' = DOMAIN proposals,
         confirmations' \subseteq confirmations,
         \A i \in DOMAIN proposals :
           /\ proposals'[i].action = proposals[i].action
           /\ proposals'[i].version = proposals[i].version
           /\ proposals'[i].executed = proposals[i].executed
           /\ (proposals'[i].state = "confirmed") = (proposals[i].state = "confirmed")
  PROVE  ProposalInv'
<1>1. \A i \in DOMAIN proposals : Target(i)' = Target(i)
  BY DEF Target
<1>2. ProposalTypes'
  BY DEF ProposalInv, ProposalTypes
<1>3. SeenAsProposed'
  BY <1>1 DEF ProposalInv, ProposalTypes, SeenAsProposed
<1>4. WritesAreBehind'
  BY <1>1 DEF ProposalInv, WritesAreBehind, Writes
<1>5. ActedOncePerVersion'
  BY <1>1 DEF ProposalInv, ActedOncePerVersion, Confirmed
<1> QED  BY <1>2, <1>3, <1>4, <1>5 DEF ProposalInv

LEMMA CreateKeeps ==
  ASSUME ProposalInv, NEW a \in Actions, NEW r \in ProposalRuns \union {0}, NEW v \in Nat,
         CreateProposal(a, r, v)
  PROVE  ProposalInv'
<1> DEFINE new == [action |-> a, run |-> r, version |-> v, state |-> "pending",
                   expired |-> FALSE, executed |-> 0]
<1>1. /\ proposals' = Append(proposals, new)
      /\ UNCHANGED <<versions, confirmations>>
  BY DEF CreateProposal
<1>2. new \in ProposalRow
  BY DEF ProposalRow
<1>3. new.state = "pending"
  OBVIOUS
<1> HIDE DEF new
<1>4. /\ proposals' \in Seq(ProposalRow)
      /\ DOMAIN proposals' = DOMAIN proposals \union {Len(proposals) + 1}
      /\ \A i \in DOMAIN proposals : proposals'[i] = proposals[i]
      /\ proposals'[Len(proposals) + 1].state = "pending"
      /\ Len(proposals) + 1 \notin DOMAIN proposals
  BY <1>1, <1>2, <1>3 DEF ProposalInv, ProposalTypes
<1>5. \A i \in DOMAIN proposals : Target(i)' = Target(i)
  BY <1>4 DEF Target
<1>6. ProposalTypes'
  BY <1>1, <1>4 DEF ProposalInv, ProposalTypes
<1>7. SeenAsProposed'
  BY <1>1, <1>4, <1>5 DEF ProposalInv, ProposalTypes, SeenAsProposed
<1>8. WritesAreBehind'
  BY <1>1, <1>4, <1>5 DEF ProposalInv, WritesAreBehind, Writes
<1>9. ActedOncePerVersion'
  BY <1>4, <1>5 DEF ProposalInv, ActedOncePerVersion, Confirmed
<1> QED  BY <1>6, <1>7, <1>8, <1>9 DEF ProposalInv

LEMMA EditKeeps ==
  ASSUME ProposalInv, NEW t \in Records, EditRecord(t)
  PROVE  ProposalInv'
<1>1. /\ versions' = [versions EXCEPT ![t] = @ + 1]
      /\ UNCHANGED <<proposals, confirmations>>
  BY DEF EditRecord
<1>2. \A i \in DOMAIN proposals : Target(i)' = Target(i) /\ Target(i) \in Records
  <2>1. \A i \in DOMAIN proposals : Target(i)' = Target(i)
    BY <1>1 DEF Target
  <2> QED  BY <2>1, TargetIsRecord DEF ProposalInv
<1>3. ProposalTypes'
  BY <1>1 DEF ProposalInv, ProposalTypes
<1>4. SeenAsProposed'
  BY <1>1, <1>2 DEF ProposalInv, ProposalTypes, SeenAsProposed
<1>5. WritesAreBehind'
  <2>1. \A u \in Records : versions[u] \in Nat /\ versions'[u] \in {versions[u], versions[u] + 1}
    BY <1>1 DEF ProposalInv, ProposalTypes
  <2>2. \A i \in DOMAIN proposals : proposals[i].executed \in Nat
    BY TargetIsRecord DEF ProposalInv
  <2> QED  BY <1>1, <1>2, <2>1, <2>2 DEF ProposalInv, WritesAreBehind, Writes
<1>6. ActedOncePerVersion'
  BY <1>1, <1>2 DEF ProposalInv, ActedOncePerVersion, Confirmed
<1> QED  BY <1>3, <1>4, <1>5, <1>6 DEF ProposalInv

LEMMA BeginKeeps ==
  ASSUME ProposalInv, NEW i \in DOMAIN proposals, BeginConfirm(i)
  PROVE  ProposalInv'
<1>1. /\ confirmations' = confirmations \union {[proposal |-> i, seen |-> versions[Target(i)]]}
      /\ Target(i) \in TargetModels => versions[Target(i)] = proposals[i].version
      /\ UNCHANGED <<proposals, versions>>
  BY DEF BeginConfirm, Checked
<1>2. Target(i) \in Records /\ versions[Target(i)] \in Nat
  BY TargetIsRecord DEF ProposalInv, ProposalTypes
<1>3. \A j \in DOMAIN proposals : Target(j)' = Target(j)
  BY <1>1 DEF Target
<1>4. ProposalTypes'
  BY <1>1, <1>2 DEF ProposalInv, ProposalTypes
<1>5. SeenAsProposed'
  BY <1>1, <1>3 DEF ProposalInv, ProposalTypes, SeenAsProposed
<1>6. WritesAreBehind' /\ ActedOncePerVersion'
  BY <1>1, <1>3 DEF ProposalInv, WritesAreBehind, Writes, ActedOncePerVersion, Confirmed
<1> QED  BY <1>4, <1>5, <1>6 DEF ProposalInv

\* The step that acts.  Its versioned write fails unless the record still has
\* the version that was read, which for a record of the table is the
\* proposal's; and it leaves that version behind.
LEMMA CommitKeeps ==
  ASSUME ProposalInv, NEW s \in confirmations, CommitConfirm(s)
  PROVE  ProposalInv'
<1> DEFINE i == s.proposal
           t == Target(i)
<1>1. /\ i \in DOMAIN proposals
      /\ s.seen \in Nat
      /\ proposals[i] \in ProposalRow
      /\ proposals[i].state = "pending"
      /\ t \in Records
      /\ versions[t] \in Nat
  <2>1. i \in DOMAIN proposals /\ s.seen \in Nat
    BY DEF ProposalInv, ProposalTypes
  <2>2. proposals[i] \in ProposalRow /\ t \in Records
    BY <2>1, TargetIsRecord DEF ProposalInv
  <2> QED  BY <2>1, <2>2 DEF CommitConfirm, ProposalInv, ProposalTypes
<1>2. /\ proposals' = [SetState(i, "confirmed") EXCEPT ![i].executed = versions[t]]
      /\ confirmations' = confirmations \ {s}
  BY DEF CommitConfirm
<1> HIDE DEF i, t
<1>3. /\ proposals' \in Seq(ProposalRow)
      /\ DOMAIN proposals' = DOMAIN proposals
      /\ \A j \in DOMAIN proposals \ {i} : proposals'[j] = proposals[j]
      /\ proposals'[i].action = proposals[i].action
      /\ proposals'[i].version = proposals[i].version
      /\ proposals'[i].state = "confirmed"
      /\ proposals'[i].executed = versions[t]
  <2> DEFINE confirmed == [proposals[i] EXCEPT !.state = "confirmed"]
             row == [confirmed EXCEPT !.executed = versions[t]]
  <2>1. /\ confirmed \in ProposalRow
        /\ confirmed.action = proposals[i].action
        /\ confirmed.version = proposals[i].version
        /\ confirmed.state = "confirmed"
    BY <1>1, RowFields
  <2>2. proposals' = [proposals EXCEPT ![i] = row]
    BY <1>1, <1>2 DEF SetState, ProposalInv, ProposalTypes
  <2> HIDE DEF confirmed
  <2>3. /\ row \in ProposalRow
        /\ row.action = proposals[i].action
        /\ row.version = proposals[i].version
        /\ row.state = "confirmed"
        /\ row.executed = versions[t]
    BY <1>1, <2>1, RowFields, ZenonT(30)
  <2> HIDE DEF row
  <2> QED  BY <1>1, <2>2, <2>3, RowReplaced DEF ProposalInv
<1>4. \A j \in DOMAIN proposals : Target(j)' = Target(j) /\ Target(j) \in Records
  <2>1. \A j \in DOMAIN proposals : proposals'[j].action = proposals[j].action
    BY <1>3
  <2>2. \A j \in DOMAIN proposals : Target(j)' = Target(j)
    BY <2>1 DEF Target
  <2> QED  BY <2>2, TargetIsRecord DEF ProposalInv
<1>5. CASE proposals[i].action \notin Written
  <2>1. UNCHANGED versions
    BY <1>5 DEF CommitConfirm, i, t
  <2>2. ProposalTypes'
    BY <1>2, <1>3, <2>1 DEF ProposalInv, ProposalTypes
  <2>3. SeenAsProposed'
    BY <1>2, <1>3, <1>4 DEF ProposalInv, ProposalTypes, SeenAsProposed
  <2>4. WritesAreBehind'
    BY <1>3, <1>4, <1>5, <2>1 DEF ProposalInv, WritesAreBehind, Writes
  <2>5. ActedOncePerVersion'
    BY <1>3, <1>4, <1>5 DEF ProposalInv, ActedOncePerVersion, Confirmed
  <2> QED  BY <2>2, <2>3, <2>4, <2>5 DEF ProposalInv
<1>6. CASE proposals[i].action \in Written
  <2>1. versions[t] = s.seen /\ versions' = [versions EXCEPT ![t] = @ + 1]
    BY <1>6 DEF CommitConfirm, i, t
  <2>2. ProposalTypes'
    BY <1>1, <1>2, <1>3, <2>1 DEF ProposalInv, ProposalTypes
  <2>3. SeenAsProposed'
    BY <1>2, <1>3, <1>4 DEF ProposalInv, ProposalTypes, SeenAsProposed
  <2>4. WritesAreBehind'
    <3> SUFFICES ASSUME NEW j \in DOMAIN proposals, Writes(j)'
                 PROVE  proposals'[j].executed < versions'[Target(j)]
      BY <1>3, <1>4 DEF WritesAreBehind
    <3>1. CASE j = i
      BY <1>1, <1>3, <2>1, <3>1 DEF t, ProposalInv, ProposalTypes
    <3>2. CASE j # i
      <4>1. proposals'[j] = proposals[j] /\ proposals[j].executed < versions[Target(j)]
        BY <1>3, <3>2 DEF ProposalInv, WritesAreBehind, Writes
      <4>2. \A u \in Records : versions[u] \in Nat /\ versions'[u] \in {versions[u], versions[u] + 1}
        BY <1>1, <2>1 DEF ProposalInv, ProposalTypes
      <4> QED  BY <1>4, <4>1, <4>2, TargetIsRecord DEF ProposalInv
    <3> QED  BY <3>1, <3>2
  <2>5. t \in TargetModels => versions[t] = proposals[i].version
    BY <2>1 DEF ProposalInv, SeenAsProposed, i, t
  <2>6. \A j \in DOMAIN proposals \ {i} :
          Writes(j) /\ Target(j) = t => proposals[j].executed < versions[t]
    BY DEF ProposalInv, WritesAreBehind
  <2>7. \A j \in DOMAIN proposals \ {i} : proposals[j].executed \in Nat
    BY TargetIsRecord DEF ProposalInv
  <2>8. ActedOncePerVersion'
    <3> SUFFICES ASSUME NEW j \in DOMAIN proposals, Writes(j)', Target(j) \in TargetModels
                 PROVE  /\ proposals'[j].executed = proposals'[j].version
                        /\ \A k \in DOMAIN proposals \ {j} :
                             Writes(k)' /\ Target(k) = Target(j) =>
                               proposals'[k].executed # proposals'[j].executed
      BY <1>3, <1>4 DEF ActedOncePerVersion, Confirmed, Writes
    <3>1. CASE j = i
      <4>1. proposals'[j].executed = versions[t] /\ versions[t] = proposals'[j].version
        BY <1>3, <2>5, <3>1 DEF t
      <4>2. \A k \in DOMAIN proposals \ {j} :
              Writes(k)' /\ Target(k) = t => proposals'[k].executed < versions[t]
        BY <1>3, <2>6, <3>1 DEF Writes
      <4>3. \A k \in DOMAIN proposals \ {j} : proposals'[k].executed \in Nat
        BY <1>3, <2>7, <3>1
      <4> QED  BY <1>1, <3>1, <4>1, <4>2, <4>3 DEF t
    <3>2. CASE j # i
      <4>1. proposals'[j] = proposals[j] /\ Writes(j)
        BY <1>3, <3>2 DEF Writes
      <4>2. /\ proposals[j].executed = proposals[j].version
            /\ \A k \in DOMAIN proposals \ {j} :
                 Writes(k) /\ Target(k) = Target(j) =>
                   proposals[k].executed # proposals[j].executed
        BY <4>1 DEF ProposalInv, ActedOncePerVersion, Confirmed, Writes
      <4>3. ASSUME NEW k \in DOMAIN proposals \ {j}, Writes(k)', Target(k) = Target(j)
            PROVE  proposals'[k].executed # proposals'[j].executed
        <5>1. CASE k = i
          BY <1>1, <1>3, <2>6, <2>7, <3>2, <4>1, <4>3, <5>1 DEF t
        <5>2. CASE k # i
          BY <1>3, <4>1, <4>2, <4>3, <5>2 DEF Writes
        <5> QED  BY <5>1, <5>2
      <4> QED  BY <4>1, <4>2, <4>3
    <3> QED  BY <3>1, <3>2
  <2> QED  BY <2>2, <2>3, <2>4, <2>8 DEF ProposalInv
<1> QED  BY <1>5, <1>6

LEMMA ProposalNextKeeps ==
  ASSUME ProposalInv, [ProposalNext]_proposalVars
  PROVE  ProposalInv'
<1>1. ASSUME NEW a \in DOMAIN ControlledActions, NEW r \in ProposalRuns \union {0},
             NEW v \in 1..MaxTargetVersion, CreateProposal(a, r, v)
      PROVE  ProposalInv'
  BY <1>1, CreateKeeps, TargetsAreRecords, AgentProposalsAssumption
<1>2. ASSUME NEW t \in Records, EditRecord(t)
      PROVE  ProposalInv'
  BY <1>2, EditKeeps
<1>3. ASSUME NEW i \in DOMAIN proposals, Expire(i)
      PROVE  ProposalInv'
  <2>1. proposals' = [proposals EXCEPT ![i].expired = TRUE] /\ UNCHANGED <<versions, confirmations>>
    BY <1>3 DEF Expire
  <2> DEFINE row == [proposals[i] EXCEPT !.expired = TRUE]
  <2>2. proposals' = [proposals EXCEPT ![i] = row]
    BY <2>1 DEF ProposalInv, ProposalTypes
  <2>3. /\ row \in ProposalRow
        /\ row.action = proposals[i].action
        /\ row.version = proposals[i].version
        /\ row.executed = proposals[i].executed
        /\ row.state = proposals[i].state
    BY TargetIsRecord, RowFields DEF ProposalInv
  <2> HIDE DEF row
  <2> QED  BY <2>1, <2>2, <2>3, RowReplaced, UpdateKeeps DEF ProposalInv
<1>4. ASSUME NEW i \in DOMAIN proposals, RejectProposal(i)
      PROVE  ProposalInv'
  <2>1. /\ proposals' = [proposals EXCEPT ![i].state = "rejected"]
        /\ proposals[i].state = "pending"
        /\ UNCHANGED <<versions, confirmations>>
    BY <1>4 DEF RejectProposal, SetState
  <2> DEFINE row == [proposals[i] EXCEPT !.state = "rejected"]
  <2>2. proposals' = [proposals EXCEPT ![i] = row]
    BY <2>1 DEF ProposalInv, ProposalTypes
  <2>3. /\ row \in ProposalRow
        /\ row.action = proposals[i].action
        /\ row.version = proposals[i].version
        /\ row.executed = proposals[i].executed
        /\ row.state = "rejected"
    BY TargetIsRecord, RowFields DEF ProposalInv
  <2> HIDE DEF row
  <2> QED  BY <2>1, <2>2, <2>3, RowReplaced, UpdateKeeps DEF ProposalInv
<1>5. ASSUME NEW i \in DOMAIN proposals, BeginConfirm(i)
      PROVE  ProposalInv'
  BY <1>5, BeginKeeps
<1>6. ASSUME NEW s \in confirmations, CommitConfirm(s)
      PROVE  ProposalInv'
  BY <1>6, CommitKeeps
<1>7. CASE \/ \E s \in confirmations : AbortConfirm(s)
           \/ \E r \in ProposalRuns : CancelRun(r)
           \/ EmergencyStop
           \/ \E e \in BOOLEAN : SetAgentPolicy(e)
           \/ UNCHANGED proposalVars
  <2>1. UNCHANGED <<proposals, versions>> /\ confirmations' \subseteq confirmations
    BY <1>7 DEF AbortConfirm, CancelRun, EmergencyStop, SetAgentPolicy, proposalVars
  <2> QED  BY <2>1, UpdateKeeps DEF ProposalInv, ProposalTypes
<1> QED
  BY <1>1, <1>2, <1>3, <1>4, <1>5, <1>6, <1>7 DEF ProposalNext

-----------------------------------------------------------------------------
\* The inductive invariant: types, confirmations that have seen the version
\* their proposal names, and records that are past every write.
THEOREM ProposalInvariant == ProposalSpec => []ProposalInv
<1>1. ProposalInit => ProposalInv
  BY ProposalInitially
<1>2. ProposalInv /\ [ProposalNext]_proposalVars => ProposalInv'
  BY ProposalNextKeeps
<1> QED  BY <1>1, <1>2, PTL DEF ProposalSpec

\* confirm_proposal acts on the version that was proposed, at most once per
\* version of a record, for any number of proposals and confirmations.
THEOREM ActsOnWhatWasProposed == ProposalSpec => []ActedOncePerVersion
<1>1. ProposalInv => ActedOncePerVersion
  BY DEF ProposalInv
<1> QED  BY <1>1, ProposalInvariant, PTL

-----------------------------------------------------------------------------
(***************************************************************************)
(* Companion, for any number of changes, items and overlapping             *)
(* transactions.                                                           *)
(*                                                                         *)
(* A transaction ends only items that were open when it read them          *)
(* (EndsWhatWasOpen), and it fails when one of them has changed since.     *)
(***************************************************************************)

EndsWhatWasOpen ==
  \A x \in open : \A k \in DOMAIN x.writes \cap DOMAIN x.read : x.read[k].state \in OpenStates

LEMMA MergeDomain ==
  ASSUME NEW f, NEW g
  PROVE  /\ DOMAIN Merge(f, g) = DOMAIN f \union DOMAIN g
         /\ \A k \in DOMAIN f \union DOMAIN g :
              Merge(f, g)[k] = IF k \in DOMAIN g THEN g[k] ELSE f[k]
BY DEF Merge

\* process_event supersedes open items of its trigger, and adds one.
LEMMA EventEndsOpenItems ==
  ASSUME NEW about, NEW k \in DOMAIN EventWrites(about) \cap DOMAIN items
  PROVE  items[k].state \in OpenStates
<1>1. EventKey \notin DOMAIN items
  BY DEF EventWrites
<1>2. k \in Superseded
  <2> DEFINE new == [j \in {EventKey} |-> NewItem(objective.version > 0, about = "task")]
  <2>1. EventWrites(about) = Merge(Resolved(items, Superseded), new)
    BY <1>1 DEF EventWrites
  <2>2. DOMAIN new = {EventKey} /\ DOMAIN Resolved(items, Superseded) = Superseded
    BY DEF Resolved
  <2> HIDE DEF new
  <2>3. k \in Superseded \union {EventKey}
    BY <2>1, <2>2, MergeDomain, ZenonT(30)
  <2> QED  BY <1>1, <2>3
<1> QED  BY <1>2 DEF Superseded, IsOpen

\* reconcile_assigned_work touches what is shown, and adds one item of the task.
LEMMA RequestEndsOpenItems ==
  ASSUME NEW k \in DOMAIN RequestWrites \cap DOMAIN items
  PROVE  items[k].state \in OpenStates
<1>1. Generic \subseteq Shown /\ \A j \in Shown : items[j].state \in OpenStates
  BY DEF Generic, Shown, IsOpen
<1>2. DOMAIN Upgraded \subseteq Generic
  <2>1. CASE Generic = {}
    BY <2>1 DEF Upgraded
  <2>2. CASE Generic # {}
    <3> DEFINE first == CHOOSE j \in Generic : TRUE
               one == [j \in {first} |-> [items[j] EXCEPT !.objective = TRUE]]
    <3>1. first \in Generic
      BY <2>2
    <3>2. Upgraded = Merge(Resolved(items, Generic \ {first}), one)
      BY <2>2 DEF Upgraded
    <3> HIDE DEF first
    <3>3. DOMAIN one = {first} /\ DOMAIN Resolved(items, Generic \ {first}) = Generic \ {first}
      BY DEF Resolved
    <3> HIDE DEF one
    <3>4. DOMAIN Upgraded = DOMAIN Resolved(items, Generic \ {first}) \union DOMAIN one
      BY <3>2, MergeDomain, Zenon
    <3> QED  BY <3>1, <3>3, <3>4
  <2> QED  BY <2>1, <2>2
<1> DEFINE mine == Key("work.handoff", "task", task.version)
           chosen == CHOOSE j \in Shown : TRUE
           shown == [j \in {chosen} |-> [items[j] EXCEPT !.task = TRUE]]
<1>3. CASE Shown \ DOMAIN Upgraded # {} \/ Generic # {}
  <2>1. chosen \in Shown
    BY <1>1, <1>3
  <2>2. task.open => RequestWrites = Merge(shown, Upgraded)
    BY <1>3 DEF RequestWrites
  <2> HIDE DEF chosen
  <2>3. DOMAIN shown = {chosen}
    OBVIOUS
  <2> HIDE DEF shown
  <2>4. task.open
    BY DEF RequestWrites
  <2>5. DOMAIN RequestWrites = DOMAIN shown \union DOMAIN Upgraded
    BY <2>2, <2>4, MergeDomain, ZenonT(30)
  <2>6. k \in Shown
    BY <1>1, <1>2, <2>1, <2>3, <2>5
  <2> QED  BY <1>1, <2>6
<1>4. CASE ~ (Shown \ DOMAIN Upgraded # {} \/ Generic # {})
  <2>1. mine \notin DOMAIN items /\ RequestWrites = [j \in {mine} |-> NewItem(TRUE, TRUE)]
    BY <1>4 DEF RequestWrites
  <2> QED  BY <2>1
<1> QED  BY <1>3, <1>4

LEMMA CompanionNextKeeps ==
  ASSUME EndsWhatWasOpen, [CompanionNext]_companionVars
  PROVE  EndsWhatWasOpen'
<1>1. CASE open' \subseteq open
  BY <1>1 DEF EndsWhatWasOpen
<1>2. ASSUME NEW by, NEW writes, \A k \in DOMAIN writes \cap DOMAIN items : items[k].state \in OpenStates,
             open' = open \union {[by |-> by, read |-> items, writes |-> writes]}
      PROVE  EndsWhatWasOpen'
  BY <1>2 DEF EndsWhatWasOpen
<1>3. ASSUME NEW a, BeginEvent(a)
      PROVE  EndsWhatWasOpen'
  <2>1. open' = open \union {[by |-> a, read |-> items, writes |-> EventWrites(a)]}
    BY <1>3 DEF BeginEvent
  <2> QED  BY <1>2, <2>1, EventEndsOpenItems
<1>4. CASE BeginRequest
  <2>1. open' = open \union {[by |-> "request", read |-> items, writes |-> RequestWrites]}
    BY <1>4 DEF BeginRequest
  <2> QED  BY <1>2, <2>1, RequestEndsOpenItems
<1>5. \/ open' \subseteq open
      \/ BeginRequest
      \/ \E a \in {"cycle", "task"} : BeginEvent(a)
  BY DEF CompanionNext, companionVars, CycleAdvances, TaskChanges, Evaluate, CommitItems,
         AbortItems, OpenItem, DismissItem, PreparationEnds, Moves
<1> QED  BY <1>1, <1>3, <1>4, <1>5

\* Only a move of the employee or of a run brings an item back.
LEMMA ItemsPutAwayStay ==
  ASSUME EndsWhatWasOpen, CompanionNext, NEW k \in DOMAIN items,
         items[k].state \in {"dismissed", "resolved"}, items'[k].state # items[k].state
  PROVE  moves' = moves + 1
<1>1. ASSUME NEW x \in open, CommitItems(x)
      PROVE  FALSE
  <2> DEFINE merged == Merge(items, x.writes)
  <2>1. k \in DOMAIN x.writes => k \notin DOMAIN x.read
    BY <1>1 DEF CommitItems, Conflicts, EndsWhatWasOpen, OpenStates
  <2>2. k \notin DOMAIN x.writes
    BY <1>1, <2>1 DEF CommitItems, Conflicts
  <2>3. k \in DOMAIN merged /\ merged[k] = items[k]
    BY <2>2 DEF Merge
  <2> HIDE DEF merged
  <2>4. items' = Delivered(x, merged)
    BY <1>1 DEF CommitItems, merged
  <2>5. items'[k] = items[k]
    BY <2>3, <2>4 DEF Delivered
  <2> QED  BY <2>5
<1> QED
  BY <1>1 DEF CompanionNext, CycleAdvances, TaskChanges, Evaluate, BeginEvent, BeginRequest,
              AbortItems, OpenItem, DismissItem, PreparationEnds, Moves

\* The inductive invariant of overlapping transactions about items.
THEOREM CompanionInvariant == CompanionSpec => []EndsWhatWasOpen
<1>1. CompanionInit => EndsWhatWasOpen
  BY DEF CompanionInit, EndsWhatWasOpen
<1>2. EndsWhatWasOpen /\ [CompanionNext]_companionVars => EndsWhatWasOpen'
  BY CompanionNextKeeps
<1> QED  BY <1>1, <1>2, PTL DEF CompanionSpec

\* What the employee has dismissed, and what has ended, comes back by a move of
\* the employee or of a run only: never by an event or a request that had read
\* the item before.
THEOREM PutAwayStays == CompanionSpec => PutAwayIsKept
<1>1. EndsWhatWasOpen /\ [CompanionNext]_companionVars =>
        [\A k \in DOMAIN items :
           items[k].state \in {"dismissed", "resolved"} /\ items'[k].state # items[k].state
             => moves' = moves + 1]_companionVars
  BY ItemsPutAwayStay
<1> QED  BY <1>1, CompanionInvariant, PTL DEF CompanionSpec, PutAwayIsKept

-----------------------------------------------------------------------------
(***************************************************************************)
(* Workspace.  Requests under one key, for any number of sends, bodies and *)
(* overlapping requests, with processes that end between two steps.        *)
(*                                                                         *)
(* Whoever works holds the record (WorkersHold), so a second request       *)
(* cannot reserve it, and an answer of work that was done is the record's  *)
(* (AnswersAreKept), which is never replaced after that.                   *)
(***************************************************************************)

RecordShape == record = NoRecord \/ record.status \in {"processing", "completed"}

WorkersHold ==
  \A s \in Sends : sends[s].at \in {"working", "worked"} => record.status = "processing" /\ record.by = s

AnswersAreKept ==
  \A s \in Sends :
    sends[s].at = "answered" /\ sends[s].answer[1] \in {"ok", "refused"}
      => record.status = "completed" /\ record.answer = sends[s].answer

SendShape ==
  /\ DOMAIN sends = Sends
  /\ \A s \in Sends : sends[s] = Unsent \/ DOMAIN sends[s] = {"at", "body", "answer"}

KeyInv == SendShape /\ RecordShape /\ WorkersHold /\ AnswersAreKept

\* What Put leaves of the other sends, and writes of its own.
LEMMA PutWrites ==
  ASSUME SendShape, NEW s \in Sends, NEW at, NEW form, Put(s, at, form)
  PROVE  /\ SendShape'
         /\ \A t \in Sends : t # s => sends'[t] = sends[t]
         /\ sends'[s].at = at
         /\ sends'[s].body = form.body
         /\ sends'[s].answer = form.answer
<1>1. sends' = [sends EXCEPT ![s] = [at |-> at, body |-> form.body, answer |-> form.answer]]
  BY DEF Put
<1> QED  BY <1>1 DEF SendShape

\* A send moves on to where it holds nothing and is not answered for its work.
LEMMA PutKeeps ==
  ASSUME KeyInv, NEW s \in Sends, NEW at, NEW form, Put(s, at, form), UNCHANGED record,
         at \in {"working", "worked"} => record.status = "processing" /\ record.by = s,
         at = "answered" /\ form.answer[1] \in {"ok", "refused"}
           => record.status = "completed" /\ record.answer = form.answer
  PROVE  KeyInv'
<1>1. /\ SendShape'
      /\ \A t \in Sends : t # s => sends'[t] = sends[t]
      /\ sends'[s].at = at
      /\ sends'[s].answer = form.answer
  BY PutWrites DEF KeyInv
<1> QED  BY <1>1 DEF KeyInv, RecordShape, WorkersHold, AnswersAreKept

LEMMA ArriveKeeps ==
  ASSUME KeyInv, NEW s \in Sends, NEW body, Arrive(s, body)
  PROVE  KeyInv'
<1>1. UNCHANGED record
  BY DEF Arrive
<1>2. CASE record.status = "none"
  BY <1>1, <1>2, PutKeeps DEF Arrive
<1>3. CASE record.status # "none" /\ record.body # body
  BY <1>1, <1>3, PutKeeps DEF Arrive
<1>4. CASE record.status = "completed" /\ record.body = body
  BY <1>1, <1>4, PutKeeps DEF Arrive
<1>5. CASE record.status # "none" /\ record.body = body /\ record.status # "completed"
  BY <1>1, <1>5, PutKeeps DEF Arrive
<1> QED  BY <1>2, <1>3, <1>4, <1>5

LEMMA ReserveKeeps ==
  ASSUME KeyInv, NEW s \in Sends, Reserve(s)
  PROVE  KeyInv'
<1>1. CASE Vacant
  <2>1. /\ record = NoRecord
        /\ record' = [status |-> "processing", body |-> sends[s].body, by |-> s]
        /\ Put(s, "working", sends[s])
    BY <1>1 DEF Reserve, Vacant
  <2>2. record.status = "none" /\ record'.status = "processing" /\ record'.by = s
    BY <2>1 DEF NoRecord
  <2>3. /\ SendShape'
        /\ \A t \in Sends : t # s => sends'[t] = sends[t]
        /\ sends'[s].at = "working"
    BY <2>1, PutWrites DEF KeyInv
  <2> QED  BY <2>2, <2>3 DEF KeyInv, RecordShape, WorkersHold, AnswersAreKept
<1>2. CASE ~ Vacant
  <2> DEFINE form == [sends[s] EXCEPT !.answer = <<"busy">>]
  <2>1. Put(s, "answered", form) /\ UNCHANGED record
    BY <1>2 DEF Reserve
  <2>2. form.answer[1] \notin {"ok", "refused"}
    BY DEF Reserve, KeyInv, SendShape, Unsent
  <2> QED  BY <2>1, <2>2, PutKeeps
<1> QED  BY <1>1, <1>2

LEMMA HandleKeeps ==
  ASSUME KeyInv, NEW s \in Sends, NEW answer, NEW committed, Handle(s, answer, committed)
  PROVE  KeyInv'
BY PutKeeps DEF Handle, KeyInv, WorkersHold

\* What is kept is the answer, and no other answer was kept before it.
LEMMA SettleKeeps ==
  ASSUME KeyInv, NEW s \in Sends, Settle(s)
  PROVE  KeyInv'
<1>1. /\ record.status = "processing" /\ record.by = s
      /\ \A t \in Sends : t # s => sends[t].at \notin {"working", "worked"}
      /\ \A t \in Sends : sends[t].at = "answered" => sends[t].answer[1] \notin {"ok", "refused"}
  BY DEF Settle, KeyInv, WorkersHold, AnswersAreKept
<1>2. Put(s, "answered", sends[s])
  BY DEF Settle
<1>3. /\ SendShape'
      /\ \A t \in Sends : t # s => sends'[t] = sends[t]
      /\ sends'[s].at = "answered"
      /\ sends'[s].answer = sends[s].answer
  BY <1>2, PutWrites DEF KeyInv
<1>4. CASE sends[s].answer[1] = "error"
  <2>1. record' = NoRecord
    BY <1>1, <1>4 DEF Settle
  <2> QED  BY <1>1, <1>3, <1>4, <2>1 DEF KeyInv, RecordShape, WorkersHold, AnswersAreKept
<1>5. CASE sends[s].answer[1] # "error"
  <2>1. record' = [status |-> "completed", body |-> sends[s].body, by |-> s, answer |-> sends[s].answer]
    BY <1>1, <1>5 DEF Settle
  <2>2. record'.status = "completed" /\ record'.answer = sends[s].answer
    BY <2>1
  <2> QED  BY <1>1, <1>3, <2>2 DEF KeyInv, RecordShape, WorkersHold, AnswersAreKept
<1> QED  BY <1>4, <1>5

LEMMA KeyKeeps ==
  ASSUME KeyInv, [WorkspaceNext]_workspaceVars
  PROVE  KeyInv'
<1>1. CASE UNCHANGED requestVars
  BY <1>1 DEF requestVars, KeyInv, SendShape, RecordShape, WorkersHold, AnswersAreKept
<1>2. ASSUME NEW s \in Sends, Vanish(s)
      PROVE  KeyInv'
  BY <1>2, PutKeeps DEF Vanish
<1>3. CASE RequestNext
  BY <1>2, <1>3, ArriveKeeps, ReserveKeeps, HandleKeeps, SettleKeeps DEF RequestNext
<1>4. CASE InvitationNext
  BY <1>1, <1>4
     DEF InvitationNext, StartInvite, StartResend, StartRevoke, StartAccept, Take, Finish, Fail
<1> QED  BY <1>1, <1>3, <1>4 DEF WorkspaceNext, workspaceVars

\* The inductive invariant of the requests under one key.
THEOREM KeyInvariant == WorkspaceSpec => []KeyInv
<1>1. WorkspaceInit => KeyInv
  BY DEF WorkspaceInit, KeyInv, SendShape, RecordShape, WorkersHold, AnswersAreKept, Unsent
<1>2. KeyInv /\ [WorkspaceNext]_workspaceVars => KeyInv'
  BY KeyKeeps
<1> QED  BY <1>1, <1>2, PTL DEF WorkspaceSpec

\* Whoever repeats a request gets the answer of the one that did the work
\* (begin_idempotent and its middleware), whatever ends in between.
THEOREM RepeatsAreAnsweredAlike == WorkspaceSpec => []SameAnswer
<1>1. KeyInv => SameAnswer
  BY DEF KeyInv, AnswersAreKept, SameAnswer
<1> QED  BY <1>1, KeyInvariant, PTL

-----------------------------------------------------------------------------
(***************************************************************************)
(* SpecialistRuns.  A run its owner has cancelled prepares nothing, for    *)
(* any number of runs, workers, deliveries and crashes.                    *)
(*                                                                         *)
(* The argument: a worker that holds a run of a cancelled row has either   *)
(* seen the flag when it took the run, and leaves, or holds an old version *)
(* of the row, and its commit fails (CancelIsNoticed).                     *)
(***************************************************************************)

RunStates == {"none", "queued", "running", "cancelled", "completed", "failed"}

RunRow ==
  [state : RunStates, cancel : {"no", "owner", "stop"},
   shown : {"none", "acted", "opened", "ready", "failed"}]

AttemptStates == {"running", "cancelled", "completed", "failed"}

Started == [phase : {"started"}, run : Runs, attempt : Nat, cancelled : BOOLEAN, stale : BOOLEAN]

Executing ==
  [phase : {"executing"}, run : Runs, attempt : Nat, stale : BOOLEAN, version : Nat, creates : BOOLEAN]

SpecialistTypes ==
  /\ runs \in [Runs -> RunRow]
  /\ attempts \in [Runs -> Seq(AttemptStates)]
  /\ workers \in [Workers -> {Free} \union Started \union Executing]
  /\ cycle \in Nat

\* The flag was seen, or the row has changed since it was read.
Noticed(x) == x.stale \/ (x.phase = "started" /\ x.cancelled)

CancelIsNoticed ==
  \A w \in Workers :
    workers[w].phase # "free" /\ runs[workers[w].run].cancel = "owner" => Noticed(workers[w])

SpecialistInv == SpecialistTypes /\ CancelIsNoticed

\* What a worker that lost its row is after that.
Behind(x) == IF x.phase # "free" THEN [x EXCEPT !.stale = TRUE] ELSE x

LEMMA BehindIsWorker ==
  ASSUME NEW x \in {Free} \union Started \union Executing
  PROVE  /\ Behind(x) \in {Free} \union Started \union Executing
         /\ Behind(x).phase = x.phase
         /\ x.phase # "free" => Behind(x).run = x.run /\ x.run \in Runs /\ Behind(x).stale
<1>1. CASE x = Free
  BY <1>1 DEF Behind, Free
<1>2. CASE x \in Started
  BY <1>2 DEF Behind, Started
<1>3. CASE x \in Executing
  BY <1>3 DEF Behind, Executing
<1> QED  BY <1>1, <1>2, <1>3

LEMMA OutdatedWorkers ==
  ASSUME SpecialistTypes, NEW r, NEW w
  PROVE  /\ Outdated(r, w) \in [Workers -> {Free} \union Started \union Executing]
         /\ \A v \in Workers :
              \/ Outdated(r, w)[v] = workers[v] /\ (v = w \/ workers[v].phase = "free" \/ workers[v].run # r)
              \/ Outdated(r, w)[v] = Behind(workers[v]) /\ workers[v].phase # "free"
<1>1. \A v \in Workers : Behind(workers[v]) \in {Free} \union Started \union Executing
  BY BehindIsWorker DEF SpecialistTypes
<1> QED  BY <1>1 DEF Outdated, Behind, SpecialistTypes

\* The step of one worker: others keep what they hold, or lose it.
Others(w) ==
  \A v \in Workers \ {w} : workers'[v] = workers[v] \/ workers'[v] = Behind(workers[v])

\* A step keeps the invariant when it marks no run as cancelled by its owner,
\* and its worker holds nothing or holds it rightly.
LEMMA WorkerStepKeeps ==
  ASSUME SpecialistInv, SpecialistTypes', NEW w, Others(w),
         \A r \in Runs : runs'[r].cancel = "owner" => runs[r].cancel = "owner",
         w \in Workers /\ workers'[w].phase # "free" /\ runs'[workers'[w].run].cancel = "owner"
           => Noticed(workers'[w])
  PROVE  SpecialistInv'
<1> SUFFICES ASSUME NEW v \in Workers, v # w,
                    workers'[v].phase # "free", runs'[workers'[v].run].cancel = "owner"
             PROVE  Noticed(workers'[v])
  BY DEF SpecialistInv, CancelIsNoticed
<1>1. CASE workers'[v] = workers[v]
  <2>1. workers[v] \in {Free} \union Started \union Executing
    BY DEF SpecialistInv, SpecialistTypes
  <2>2. workers[v].run \in Runs
    BY <1>1, <2>1 DEF Free, Started, Executing
  <2> QED  BY <1>1, <2>2 DEF SpecialistInv, CancelIsNoticed
<1>2. CASE workers'[v] = Behind(workers[v])
  BY <1>2, BehindIsWorker, ZenonT(30) DEF Noticed, SpecialistInv, SpecialistTypes
<1> QED  BY <1>1, <1>2 DEF Others

\* A row is written, and its flag is left as it is.
LEMMA RunRowWritten ==
  ASSUME SpecialistTypes, NEW r \in Runs, NEW row \in RunRow,
         row.cancel = runs[r].cancel, runs' = [runs EXCEPT ![r] = row]
  PROVE  runs' \in [Runs -> RunRow] /\ \A q \in Runs : runs'[q].cancel = runs[q].cancel
BY DEF SpecialistTypes

LEMMA RunRowIsRecord ==
  ASSUME SpecialistTypes, NEW r \in Runs, NEW state \in RunStates
  PROVE  /\ [runs[r] EXCEPT !.state = state] \in RunRow
         /\ [runs[r] EXCEPT !.state = state].cancel = runs[r].cancel
<1>1. runs[r] \in RunRow
  BY DEF SpecialistTypes
<1> QED  BY <1>1 DEF RunRow

LEMMA BeginRunKeeps ==
  ASSUME SpecialistInv, NEW w \in Workers, NEW r \in Runs, BeginRun(w, r)
  PROVE  SpecialistInv'
<1> DEFINE taken == [phase |-> "started", run |-> r, attempt |-> Len(attempts'[r]),
                     cancelled |-> runs[r].cancel # "no", stale |-> FALSE]
           before == IF runs[r].state = "running" THEN workers ELSE Outdated(r, w)
<1>1. attempts' \in [Runs -> Seq(AttemptStates)] /\ cycle' \in Nat
  <2>1. attempts[r] \in Seq(AttemptStates) /\ "running" \in AttemptStates
    BY DEF SpecialistInv, SpecialistTypes, AttemptStates
  <2>2. Append(attempts[r], "running") \in Seq(AttemptStates)
    BY <2>1
  <2> QED  BY <2>2 DEF BeginRun, SpecialistInv, SpecialistTypes
<1>2. runs' \in [Runs -> RunRow] /\ \A q \in Runs : runs'[q].cancel = runs[q].cancel
  <2> DEFINE row == [runs[r] EXCEPT !.state = "running"]
  <2>1. runs' = [runs EXCEPT ![r] = row]
    BY DEF BeginRun, SpecialistInv, SpecialistTypes
  <2>2. row \in RunRow /\ row.cancel = runs[r].cancel
    BY RunRowIsRecord DEF RunStates, SpecialistInv
  <2> HIDE DEF row
  <2> QED  BY <2>1, <2>2, RunRowWritten DEF SpecialistInv
<1>3. taken \in Started /\ taken.run = r /\ taken.cancelled = (runs[r].cancel # "no")
      /\ taken.phase = "started"
  <2>1. Len(attempts'[r]) \in Nat
    BY <1>1
  <2> QED  BY <2>1 DEF Started
<1>4. workers' = [before EXCEPT ![w] = taken]
  BY DEF BeginRun
<1>5. /\ before \in [Workers -> {Free} \union Started \union Executing]
      /\ \A v \in Workers : before[v] = workers[v] \/ before[v] = Behind(workers[v])
  BY OutdatedWorkers DEF SpecialistInv, SpecialistTypes
<1> HIDE DEF taken, before
<1>6. /\ workers' \in [Workers -> {Free} \union Started \union Executing]
      /\ workers'[w] = taken
      /\ Others(w)
  BY <1>3, <1>4, <1>5 DEF Others
<1>7. SpecialistTypes'
  BY <1>1, <1>2, <1>6 DEF SpecialistTypes
<1>8. runs'[workers'[w].run].cancel = "owner" => Noticed(workers'[w])
  BY <1>2, <1>3, <1>6 DEF Noticed
<1> QED  BY <1>2, <1>6, <1>7, <1>8, WorkerStepKeeps

\* A worker is done with its run, and the others may have lost the row.
LEMMA LeavingKeeps ==
  ASSUME SpecialistInv, NEW w \in Workers, NEW r,
         \/ workers' = [Outdated(r, w) EXCEPT ![w] = Free]
         \/ workers' = [workers EXCEPT ![w] = Free],
         attempts' \in [Runs -> Seq(AttemptStates)], cycle' = cycle,
         runs' \in [Runs -> RunRow],
         \A q \in Runs : runs'[q].cancel = runs[q].cancel
  PROVE  SpecialistInv'
<1>1. /\ workers' \in [Workers -> {Free} \union Started \union Executing]
      /\ workers'[w] = Free
      /\ Others(w)
  <2> DEFINE before == IF workers' = [workers EXCEPT ![w] = Free] THEN workers ELSE Outdated(r, w)
  <2>1. /\ before \in [Workers -> {Free} \union Started \union Executing]
        /\ \A v \in Workers : before[v] = workers[v] \/ before[v] = Behind(workers[v])
    BY OutdatedWorkers DEF SpecialistInv, SpecialistTypes
  <2>2. workers' = [before EXCEPT ![w] = Free]
    OBVIOUS
  <2> HIDE DEF before
  <2> QED  BY <2>1, <2>2 DEF Others
<1>2. SpecialistTypes'
  BY <1>1 DEF SpecialistInv, SpecialistTypes
<1>3. workers'[w].phase = "free"
  BY <1>1 DEF Free
<1> QED  BY <1>1, <1>2, <1>3, WorkerStepKeeps

LEMMA SeqRowWritten ==
  ASSUME NEW S, NEW s \in Seq(S), NEW n, NEW e \in S
  PROVE  [s EXCEPT ![n] = e] \in Seq(S)
<1>1. CASE n \in DOMAIN s
  BY <1>1
<1>2. CASE n \notin DOMAIN s
  <2>1. [s EXCEPT ![n] = e] = s
    BY <1>2
  <2> QED  BY <2>1
<1> QED  BY <1>1, <1>2

LEMMA ClosesTyped ==
  ASSUME SpecialistTypes, NEW w \in Workers, workers[w].phase # "free",
         NEW how \in AttemptStates, Closes(w, how)
  PROVE  attempts' \in [Runs -> Seq(AttemptStates)]
<1>1. workers[w] \in Started \union Executing
  BY DEF SpecialistTypes, Free
<1>2. workers[w].run \in Runs /\ attempts[workers[w].run] \in Seq(AttemptStates)
  BY <1>1 DEF SpecialistTypes, Started, Executing
<1>3. [attempts[workers[w].run] EXCEPT ![workers[w].attempt] = how] \in Seq(AttemptStates)
  BY <1>2, SeqRowWritten
<1>4. attempts' = [attempts EXCEPT ![workers[w].run] =
                     [attempts[workers[w].run] EXCEPT ![workers[w].attempt] = how]]
  BY DEF Closes, SpecialistTypes
<1> QED  BY <1>2, <1>3, <1>4 DEF SpecialistTypes

LEMMA WorkerRun ==
  ASSUME SpecialistTypes, NEW w \in Workers, workers[w].phase # "free"
  PROVE  workers[w].run \in Runs
BY DEF SpecialistTypes, Free, Started, Executing

LEMMA LeaveKeeps ==
  ASSUME SpecialistInv, NEW w \in Workers, LeaveCancelled(w)
  PROVE  SpecialistInv'
<1> DEFINE r == workers[w].run
<1>1. SpecialistTypes /\ workers[w].phase # "free" /\ r \in Runs
  BY WorkerRun DEF LeaveCancelled, SpecialistInv
<1>2. CASE workers[w].stale
  BY <1>1, <1>2, LeavingKeeps DEF LeaveCancelled, SpecialistInv, SpecialistTypes
<1>3. CASE ~ workers[w].stale
  <2>1. /\ runs' = [runs EXCEPT ![r].state = "cancelled"]
        /\ Closes(w, "cancelled")
        /\ workers' = [Outdated(r, w) EXCEPT ![w] = Free]
        /\ cycle' = cycle
    BY <1>3 DEF LeaveCancelled
  <2>2. runs' \in [Runs -> RunRow] /\ \A q \in Runs : runs'[q].cancel = runs[q].cancel
    <3> DEFINE row == [runs[r] EXCEPT !.state = "cancelled"]
    <3>1. runs' = [runs EXCEPT ![r] = row]
      BY <1>1, <2>1 DEF SpecialistTypes
    <3>2. row \in RunRow /\ row.cancel = runs[r].cancel
      BY <1>1, RunRowIsRecord DEF RunStates
    <3> HIDE DEF row, r
    <3> QED  BY <1>1, <3>1, <3>2, RunRowWritten
  <2>3. attempts' \in [Runs -> Seq(AttemptStates)]
    BY <1>1, <2>1, ClosesTyped DEF AttemptStates
  <2> QED  BY <2>1, <2>2, <2>3, LeavingKeeps
<1> QED  BY <1>2, <1>3

LEMMA EndingKeeps ==
  ASSUME SpecialistInv, NEW w \in Workers, CompleteSpecialist(w) \/ FailSpecialist(w)
  PROVE  SpecialistInv'
<1> DEFINE r == workers[w].run
<1>1. SpecialistTypes /\ workers[w].phase # "free" /\ r \in Runs
  BY WorkerRun DEF CompleteSpecialist, FailSpecialist, SpecialistInv
<1>2. /\ workers' = [Outdated(r, w) EXCEPT ![w] = Free]
      /\ cycle' = cycle
      /\ Closes(w, "completed") \/ Closes(w, "failed")
  BY DEF CompleteSpecialist, FailSpecialist
<1>3. PICK state \in {"completed", "failed"}, shown \in {"none", "ready", "failed"} :
        runs' = [runs EXCEPT ![r].state = state,
                             ![r].shown = IF @ = "none" THEN @ ELSE shown]
  BY DEF CompleteSpecialist, FailSpecialist
<1> DEFINE row == [runs[r] EXCEPT !.state = state, !.shown = IF @ = "none" THEN @ ELSE shown]
<1>4. runs' = [runs EXCEPT ![r] = row]
  BY <1>1, <1>3 DEF SpecialistTypes
<1>5. runs' \in [Runs -> RunRow] /\ \A q \in Runs : runs'[q].cancel = runs[q].cancel
  <2>1. runs[r] \in RunRow
    BY <1>1 DEF SpecialistTypes
  <2>2. row \in RunRow /\ row.cancel = runs[r].cancel
    BY <2>1 DEF RunRow, RunStates
  <2> HIDE DEF row, r
  <2> QED  BY <1>1, <1>4, <2>2, RunRowWritten
<1>6. attempts' \in [Runs -> Seq(AttemptStates)]
  BY <1>1, <1>2, ClosesTyped DEF AttemptStates
<1> QED  BY <1>2, <1>5, <1>6, LeavingKeeps

LEMMA AnalyzeKeeps ==
  ASSUME SpecialistInv, NEW w \in Workers, Analyze(w)
  PROVE  SpecialistInv'
<1> DEFINE next == [phase |-> "executing", run |-> workers[w].run, attempt |-> workers[w].attempt,
                    stale |-> workers[w].stale, version |-> cycle,
                    creates |-> \A p \in prepared : p.version # cycle]
<1>1. workers' = [workers EXCEPT ![w] = next] /\ UNCHANGED <<runs, attempts, cycle>>
  BY DEF Analyze, SpecialistInv, SpecialistTypes
<1>2. workers[w] \in Started
  BY DEF Analyze, SpecialistInv, SpecialistTypes, Free, Executing
<1>3. cycle \in Nat
  BY DEF SpecialistInv, SpecialistTypes
<1>4. next \in Executing /\ next.run = workers[w].run /\ next.stale = workers[w].stale
  BY <1>2, <1>3 DEF Started, Executing
<1>5. workers[w].phase = "started" /\ ~ workers[w].cancelled
  BY DEF Analyze
<1> HIDE DEF next
<1>6. /\ workers' \in [Workers -> {Free} \union Started \union Executing]
      /\ workers'[w] = next
      /\ Others(w)
  BY <1>1, <1>4 DEF Others, SpecialistInv, SpecialistTypes
<1>7. SpecialistTypes'
  BY <1>1, <1>6 DEF SpecialistInv, SpecialistTypes
<1>8. runs'[workers'[w].run].cancel = "owner" => Noticed(workers'[w])
  BY <1>1, <1>4, <1>5, <1>6 DEF SpecialistInv, CancelIsNoticed, Noticed
<1> QED  BY <1>1, <1>6, <1>7, <1>8, WorkerStepKeeps

\* Every worker that has the row loses it.
LEMMA CancelKeeps ==
  ASSUME SpecialistInv, NEW r \in Runs, NEW item \in BOOLEAN, CancelSpecialist(r, item)
  PROVE  SpecialistInv'
<1>1. workers' = Outdated(r, Nobody) /\ UNCHANGED <<attempts, cycle>>
  BY DEF CancelSpecialist
<1> DEFINE row == [runs[r] EXCEPT
                     !.cancel = "owner",
                     !.state = IF @ \in {"queued", "running"} THEN "cancelled" ELSE @,
                     !.shown = IF item /\ @ # "none" THEN "opened" ELSE @]
<1>2. runs' = [runs EXCEPT ![r] = row]
  BY DEF CancelSpecialist, SpecialistInv, SpecialistTypes
<1>3. row \in RunRow
  <2>1. runs[r] \in RunRow
    BY DEF SpecialistInv, SpecialistTypes
  <2> QED  BY <2>1 DEF RunRow, RunStates
<1> HIDE DEF row
<1>4. runs' \in [Runs -> RunRow] /\ \A q \in Runs : q # r => runs'[q] = runs[q]
  BY <1>2, <1>3 DEF SpecialistInv, SpecialistTypes
<1>5. SpecialistTypes'
  BY <1>1, <1>4, OutdatedWorkers DEF SpecialistInv, SpecialistTypes
<1>6. ASSUME NEW v \in Workers, workers'[v].phase # "free", runs'[workers'[v].run].cancel = "owner"
      PROVE  Noticed(workers'[v])
  <2>1. workers[v] \in {Free} \union Started \union Executing
    BY DEF SpecialistInv, SpecialistTypes
  <2>2. CASE workers'[v] = Behind(workers[v]) /\ workers[v].phase # "free"
    BY <2>1, <2>2, BehindIsWorker DEF Noticed
  <2>3. CASE workers'[v] = workers[v] /\ workers[v].run # r
    <3>1. workers[v].run \in Runs
      BY <1>6, <2>3, WorkerRun DEF SpecialistInv
    <3> QED  BY <1>4, <1>6, <2>3, <3>1 DEF SpecialistInv, CancelIsNoticed
  <2> QED
    BY <1>1, <1>6, <2>2, <2>3, OutdatedWorkers, SpecialistRunsAssumption DEF SpecialistInv
<1> QED  BY <1>5, <1>6 DEF SpecialistInv, CancelIsNoticed

\* Steps that leave the workers alone.
LEMMA ElsewhereKeeps ==
  ASSUME SpecialistInv, workers' = workers, attempts' = attempts, cycle' \in Nat,
         runs' \in [Runs -> RunRow],
         \A q \in Runs : runs'[q].cancel = "owner" => runs[q].cancel = "owner"
  PROVE  SpecialistInv'
<1>1. SpecialistTypes'
  BY DEF SpecialistInv, SpecialistTypes
<1> QED  BY <1>1, WorkerStepKeeps, SpecialistRunsAssumption DEF Others

LEMMA SpecialistKeeps ==
  ASSUME SpecialistInv, [SpecialistNext]_specialistVars
  PROVE  SpecialistInv'
<1>1. runs \in [Runs -> RunRow] /\ attempts \in [Runs -> Seq(AttemptStates)] /\ cycle \in Nat
  BY DEF SpecialistInv, SpecialistTypes
<1>2. CASE UNCHANGED specialistVars
  BY <1>1, <1>2, ElsewhereKeeps DEF specialistVars
<1>3. ASSUME NEW r \in Runs, SendRun(r)
      PROVE  SpecialistInv'
  BY <1>1, <1>3, ElsewhereKeeps DEF SendRun
<1>4. ASSUME NEW r \in Runs, DeleteThread(r)
      PROVE  SpecialistInv'
  <2> DEFINE row == [runs[r] EXCEPT !.cancel = IF @ = "no" THEN "stop" ELSE @]
  <2>1. runs' = [runs EXCEPT ![r] = row]
    BY <1>1, <1>4 DEF DeleteThread
  <2>2. row \in RunRow /\ (row.cancel = "owner" => runs[r].cancel = "owner")
    <3>1. runs[r] \in RunRow
      BY <1>1
    <3> QED  BY <3>1 DEF RunRow
  <2> HIDE DEF row
  <2>3. /\ runs' \in [Runs -> RunRow]
        /\ \A q \in Runs : runs'[q].cancel = "owner" => runs[q].cancel = "owner"
    BY <1>1, <2>1, <2>2
  <2> QED  BY <1>1, <1>4, <2>3, ElsewhereKeeps DEF DeleteThread
<1>5. ASSUME NEW r \in Runs, NEW item \in BOOLEAN, StartSpecialist(r, item)
      PROVE  SpecialistInv'
  <2> DEFINE row == [runs[r] EXCEPT !.state = "queued", !.shown = IF item THEN "acted" ELSE "none"]
  <2>1. runs' = [runs EXCEPT ![r] = row]
    BY <1>1, <1>5 DEF StartSpecialist
  <2>2. row \in RunRow /\ row.cancel = runs[r].cancel
    <3>1. runs[r] \in RunRow
      BY <1>1
    <3> QED  BY <3>1 DEF RunRow, RunStates
  <2> HIDE DEF row
  <2>3. runs' \in [Runs -> RunRow] /\ \A q \in Runs : runs'[q].cancel = runs[q].cancel
    BY <2>1, <2>2, RunRowWritten DEF SpecialistInv
  <2> QED  BY <1>1, <1>5, <2>3, ElsewhereKeeps DEF StartSpecialist
<1>6. CASE StopAgents
  <2>1. runs' = [r \in Runs |->
                   IF runs[r].state \notin {"queued", "running"} THEN runs[r]
                   ELSE [runs[r] EXCEPT !.state = "cancelled", !.cancel = "stop"]]
    BY <1>6 DEF StopAgents
  <2>2. ASSUME NEW r \in Runs
        PROVE  runs'[r] \in RunRow /\ (runs'[r].cancel = "owner" => runs[r].cancel = "owner")
    <3>1. runs[r] \in RunRow
      BY <1>1
    <3>2. /\ [runs[r] EXCEPT !.state = "cancelled", !.cancel = "stop"] \in RunRow
          /\ [runs[r] EXCEPT !.state = "cancelled", !.cancel = "stop"].cancel = "stop"
      BY <3>1 DEF RunRow, RunStates
    <3> QED  BY <2>1, <3>1, <3>2
  <2>3. runs' \in [Runs -> RunRow]
    BY <2>1, <2>2
  <2> QED  BY <1>1, <1>6, <2>2, <2>3, ElsewhereKeeps DEF StopAgents
<1>7. CASE CycleMoves
  BY <1>1, <1>7, ElsewhereKeeps DEF CycleMoves
<1>8. ASSUME NEW w \in Workers, NEW again \in BOOLEAN, CrashSpecialist(w, again)
      PROVE  SpecialistInv'
  BY <1>1, <1>8, LeavingKeeps DEF CrashSpecialist
<1> QED
  BY <1>2, <1>3, <1>4, <1>5, <1>6, <1>7, <1>8, BeginRunKeeps, LeaveKeeps, EndingKeeps,
     AnalyzeKeeps, CancelKeeps
     DEF SpecialistNext

\* The inductive invariant of the runs of a specialist.
THEOREM SpecialistInvariant == SpecialistSpec => []SpecialistInv
<1>1. SpecialistInit => SpecialistInv
  <2> SUFFICES ASSUME SpecialistInit
               PROVE  SpecialistInv
    OBVIOUS
  <2>1. runs \in [Runs -> RunRow]
    BY DEF SpecialistInit, RunRow, RunStates
  <2>2. attempts \in [Runs -> Seq(AttemptStates)] /\ cycle \in Nat
    BY DEF SpecialistInit
  <2>3. \A w \in Workers : workers[w] = Free /\ workers[w].phase = "free"
    BY DEF SpecialistInit, Free
  <2>4. workers \in [Workers -> {Free} \union Started \union Executing]
    BY DEF SpecialistInit
  <2> QED  BY <2>1, <2>2, <2>3, <2>4 DEF SpecialistInv, SpecialistTypes, CancelIsNoticed
<1>2. SpecialistInv /\ [SpecialistNext]_specialistVars => SpecialistInv'
  BY SpecialistKeeps
<1> QED  BY <1>1, <1>2, PTL DEF SpecialistSpec

\* What a run prepares is not prepared after its owner has cancelled it
\* (cancel_action and cancel_run), whatever the workers were doing then.
THEOREM CancelledRunsPrepareNothing == SpecialistSpec => CancelledPreparesNothing
<1>1. ASSUME SpecialistInv, [SpecialistNext]_specialistVars
      PROVE  \A p \in prepared' \ prepared : runs[p.run].cancel # "owner"
  <2> SUFFICES ASSUME NEW p \in prepared' \ prepared
               PROVE  runs[p.run].cancel # "owner"
    OBVIOUS
  <2>1. PICK w \in Workers : CompleteSpecialist(w)
    BY <1>1
       DEF SpecialistNext, specialistVars, SendRun, DeleteThread, StartSpecialist, CancelSpecialist,
           BeginRun, LeaveCancelled, Analyze, FailSpecialist, CrashSpecialist, StopAgents, CycleMoves
  <2>2. p.run = workers[w].run
    BY <2>1 DEF CompleteSpecialist
  <2>3. workers[w].phase = "executing" /\ ~ workers[w].stale
    BY <2>1 DEF CompleteSpecialist, CompletionCommits
  <2> QED  BY <1>1, <2>2, <2>3 DEF SpecialistInv, CancelIsNoticed, Noticed
<1> QED  BY <1>1, SpecialistInvariant, PTL DEF SpecialistSpec, CancelledPreparesNothing

-----------------------------------------------------------------------------
(***************************************************************************)
(* Extraction.  Nothing of a flawed file, or of a document that speaks to  *)
(* the model, reaches a model, for any provider, budget and sequence of    *)
(* documents.                                                              *)
(*                                                                         *)
(* The argument: until the text has been searched nothing was asked        *)
(* (AskedLater), and what a model is asked about is the whole text of a    *)
(* document, in which no section was found to instruct it (AskedWhole).    *)
(***************************************************************************)

BeforeSearch == {"idle", "validate", "hosted", "local", "search"}

TextIsWhole == (text = {} /\ evidence = {}) \/ text = Sections(file)

AskedLater == stage \in BeforeSearch \union {"refused", "stopped"} => asked = {}

Parsed == stage \in {"hosted", "local", "search"} => ~ file.flawed

Safe == ~ file.flawed /\ file.orders \intersect Sections(file) = {}

AskedWhole == stage \in Requesting \/ asked # {} => Safe

Unparsed == stage \in {"idle", "validate", "hosted", "local"} => text = {} /\ evidence = {}

ExtractionInv == TextIsWhole /\ Unparsed /\ AskedLater /\ Parsed /\ AskedWhole

\* A search that lets the text through has seen all of it.
LEMMA SearchKeeps ==
  ASSUME ExtractionInv, SearchText
  PROVE  ExtractionInv'
<1>1. /\ stage = "search" /\ stage' \in {"done", "model", "stopped"}
      /\ UNCHANGED <<file, text, evidence, asked>>
  BY DEF SearchText
<1>2. asked = {} /\ ~ file.flawed
  BY <1>1 DEF ExtractionInv, AskedLater, Parsed, BeforeSearch
<1>3. stage' = "model" => ~ Instructed /\ ModelText # {}
  BY DEF SearchText
<1>4. stage' = "model" => text = Sections(file)
  BY <1>3 DEF ExtractionInv, TextIsWhole, ModelText
<1>5. stage' \in Requesting => Safe
  BY <1>1, <1>2, <1>3, <1>4 DEF Requesting, Instructed, Safe
<1> QED
  BY <1>1, <1>2, <1>5
     DEF ExtractionInv, TextIsWhole, Unparsed, AskedLater, Parsed, AskedWhole, Safe, BeforeSearch, Sections

LEMMA AskKeeps ==
  ASSUME ExtractionInv, Ask
  PROVE  ExtractionInv'
<1>1. stage \in Requesting /\ Safe /\ UNCHANGED <<file, text, evidence>>
  BY DEF Ask, ExtractionInv, AskedWhole
<1>2. stage' \in Requesting \union {"done"}
  BY <1>1 DEF Ask, AskGroq, AskGemini, AfterFailure, Requesting
<1> QED
  BY <1>1, <1>2
     DEF ExtractionInv, TextIsWhole, Unparsed, AskedLater, Parsed, AskedWhole, Safe, BeforeSearch,
         Requesting, Sections

LEMMA ExtractionKeeps ==
  ASSUME ExtractionInv, [ExtractionNext]_extractionVars
  PROVE  ExtractionInv'
<1> USE DEF ExtractionInv, TextIsWhole, Unparsed, AskedLater, Parsed, AskedWhole, Safe, BeforeSearch,
            Requesting, Sections
<1>1. ASSUME NEW f \in FileKinds, BeginFile(f)
      PROVE  ExtractionInv'
  BY <1>1 DEF BeginFile
<1>2. CASE Validate
  BY <1>2 DEF Validate
<1>3. CASE HostedParse
  BY <1>3 DEF HostedParse
<1>4. CASE LocalParse
  BY <1>4 DEF LocalParse
<1>5. ASSUME NEW models, ChangeOffer(models)
      PROVE  ExtractionInv'
  BY <1>5 DEF ChangeOffer
<1>6. CASE UNCHANGED extractionVars
  BY <1>6 DEF extractionVars
<1> QED
  BY <1>1, <1>2, <1>3, <1>4, <1>5, <1>6, SearchKeeps, AskKeeps DEF ExtractionNext

\* The inductive invariant of the reading of documents.
THEOREM ExtractionInvariant == ExtractionSpec => []ExtractionInv
<1>1. ExtractionInit => ExtractionInv
  BY DEF ExtractionInit, ExtractionInv, TextIsWhole, Unparsed, AskedLater, Parsed, AskedWhole,
         BeforeSearch, Requesting
<1>2. ExtractionInv /\ [ExtractionNext]_extractionVars => ExtractionInv'
  BY ExtractionKeeps
<1> QED  BY <1>1, <1>2, PTL DEF ExtractionSpec

\* No section of an unsafe document is sent to a model (process_document and
\* the parsers under it).
THEOREM UnsafeStaysInside == ExtractionSpec => []NothingUnsafeIsAsked
<1>1. ExtractionInv => NothingUnsafeIsAsked
  BY DEF ExtractionInv, AskedWhole, Safe, NothingUnsafeIsAsked
<1> QED  BY <1>1, ExtractionInvariant, PTL

-----------------------------------------------------------------------------
(***************************************************************************)
(* QuotationBatch.  A document has one quotation at most, for any number   *)
(* of documents, tasks, messages and resolutions that overlap.             *)
(*                                                                         *)
(* The argument: a transaction makes quotations of documents that had none *)
(* when it read them; the row of a document whose quotation is made gets a *)
(* new stamp, and a commit with an old stamp fails (SeenUnquoted).         *)
(***************************************************************************)

DocumentRow ==
  [status : {"quarantined", "validated_needs_review", "quarantined_rejected", "needs_manual_entry"},
   extraction : {"none", "named", "unnamed"}, quotes : Nat, stamp : Nat]

Quoting == {s \in sessions : s.kind \in {"message", "resolving"}}

SeenUnquoted ==
  \A s \in Quoting : \A d \in s.new :
    /\ d \in Documents /\ s.seen[d] \in Nat /\ s.seen[d] <= documents[d].stamp
    /\ s.seen[d] = documents[d].stamp => documents[d].quotes = 0

BatchInv ==
  /\ documents \in [Documents -> DocumentRow]
  /\ SeenUnquoted
  /\ OneQuotePerDocument

\* How a row of a document changes: its quotations only with its stamp.
Moved(d) ==
  \/ documents'[d] = documents[d]
  \/ /\ documents'[d].stamp = documents[d].stamp + 1
     /\ \/ documents'[d].quotes = documents[d].quotes
        \/ documents[d].quotes = 0 /\ documents'[d].quotes = 1

LEMMA MovedKeeps ==
  ASSUME BatchInv, documents' \in [Documents -> DocumentRow], \A d \in Documents : Moved(d),
         \A s \in Quoting' \ Quoting : \A d \in s.new :
            d \in Documents /\ documents[d].quotes = 0 /\ s.seen[d] = documents[d].stamp /\ documents' = documents
  PROVE  BatchInv'
<1>1. \A d \in Documents : documents[d].stamp \in Nat /\ documents[d].quotes \in Nat
  BY DEF BatchInv, DocumentRow
<1>2. OneQuotePerDocument'
  BY <1>1 DEF BatchInv, OneQuotePerDocument, Moved
<1>3. ASSUME NEW s \in Quoting', NEW d \in s.new
      PROVE  /\ d \in Documents /\ s.seen[d] \in Nat /\ s.seen[d] <= documents'[d].stamp
             /\ s.seen[d] = documents'[d].stamp => documents'[d].quotes = 0
  <2>1. CASE s \in Quoting
    BY <1>1, <1>3, <2>1 DEF BatchInv, SeenUnquoted, Moved
  <2>2. CASE s \notin Quoting
    BY <1>1, <1>3, <2>2
  <2> QED  BY <2>1, <2>2
<1> QED  BY <1>2, <1>3 DEF BatchInv, SeenUnquoted

LEMMA DocumentRows ==
  ASSUME NEW row \in DocumentRow, NEW e \in {"named", "unnamed"},
         NEW status \in {"validated_needs_review", "quarantined_rejected", "needs_manual_entry"}
  PROVE  /\ LET to == [row EXCEPT !.quotes = @ + 1, !.stamp = @ + 1]
            IN to \in DocumentRow /\ to.stamp = row.stamp + 1 /\ to.quotes = row.quotes + 1
         /\ LET to == [row EXCEPT !.status = status, !.stamp = @ + 1]
            IN to \in DocumentRow /\ to.stamp = row.stamp + 1 /\ to.quotes = row.quotes
         /\ LET to == [row EXCEPT !.status = status, !.extraction = e, !.stamp = @ + 1]
            IN to \in DocumentRow /\ to.stamp = row.stamp + 1 /\ to.quotes = row.quotes
<1>1. row.stamp \in Nat /\ row.quotes \in Nat
  BY DEF DocumentRow
<1>2. row.stamp + 1 \in Nat /\ row.quotes + 1 \in Nat
  BY <1>1
<1> DEFINE stamp == row.stamp + 1
           quotes == row.quotes + 1
<1>3. stamp \in Nat /\ quotes \in Nat
  BY <1>2
<1> HIDE DEF stamp, quotes
<1>4. LET to == [row EXCEPT !.quotes = quotes, !.stamp = stamp]
      IN to \in DocumentRow /\ to.stamp = stamp /\ to.quotes = quotes
  BY <1>3 DEF DocumentRow
<1>5. LET to == [row EXCEPT !.status = status, !.stamp = stamp]
      IN to \in DocumentRow /\ to.stamp = stamp /\ to.quotes = row.quotes
  BY <1>3 DEF DocumentRow
<1>6. LET to == [row EXCEPT !.status = status, !.extraction = e, !.stamp = stamp]
      IN to \in DocumentRow /\ to.stamp = stamp /\ to.quotes = row.quotes
  BY <1>3 DEF DocumentRow
<1> QED  BY <1>4, <1>5, <1>6 DEF stamp, quotes

\* The row of a document after its quotation was made.
LEMMA QuoteMoves ==
  ASSUME BatchInv, NEW new, Quote(new), \A d \in new : d \in Documents => documents[d].quotes = 0
  PROVE  documents' \in [Documents -> DocumentRow] /\ \A d \in Documents : Moved(d)
<1>1. ASSUME NEW d \in Documents
      PROVE  documents'[d] \in DocumentRow /\ Moved(d)
  <2>1. documents[d] \in DocumentRow
    BY DEF BatchInv
  <2>2. /\ [documents[d] EXCEPT !.quotes = @ + 1, !.stamp = @ + 1] \in DocumentRow
        /\ [documents[d] EXCEPT !.quotes = @ + 1, !.stamp = @ + 1].quotes = documents[d].quotes + 1
        /\ [documents[d] EXCEPT !.quotes = @ + 1, !.stamp = @ + 1].stamp = documents[d].stamp + 1
    BY <2>1, DocumentRows
  <2>3. documents'[d] = IF d \in new THEN [documents[d] EXCEPT !.quotes = @ + 1, !.stamp = @ + 1]
                        ELSE documents[d]
    BY DEF Quote
  <2> QED  BY <2>1, <2>2, <2>3 DEF Moved
<1>2. documents' = [d \in Documents |-> documents'[d]]
  BY DEF Quote
<1> QED  BY <1>1, <1>2

LEMMA CommitsQuote ==
  ASSUME BatchInv, NEW s \in Quoting, NEW new, new = s.new \/ new = {}, NEW written,
         Fresh(written, s.was, new, s.seen), Quote(new), sessions' \subseteq sessions
  PROVE  BatchInv'
<1>1. \A d \in new : d \in Documents => documents[d].quotes = 0
  BY DEF Fresh, BatchInv, SeenUnquoted
<1>2. Quoting' \subseteq Quoting
  BY DEF Quoting
<1> QED  BY <1>1, <1>2, QuoteMoves, MovedKeeps

LEMMA ContinueKeeps ==
  ASSUME BatchInv, ContinueBatch, sessions' \subseteq sessions
  PROVE  BatchInv'
<1> DEFINE new == Unquoted(Links(attachments, {}))
<1>1. Quote(new)
  BY DEF ContinueBatch
<1>2. \A d \in new : d \in Documents => documents[d].quotes = 0
  BY DEF Unquoted
<1>3. Quoting' \subseteq Quoting
  BY DEF Quoting
<1> HIDE DEF new
<1> QED  BY <1>1, <1>2, <1>3, QuoteMoves, MovedKeeps

\* A worker writes a row, and no quotation.
LEMMA ReadingKeeps ==
  ASSUME BatchInv, NEW s \in sessions,
         \/ \E e \in {"named", "unnamed"} : Read(s, e)
         \/ RejectDocument(s) \/ TimeOut(s)
  PROVE  BatchInv'
<1> DEFINE d == s.document
<1>1. Quoting' \subseteq Quoting
  BY DEF Read, RejectDocument, TimeOut, ThenResume, Quoting
<1>2. PICK row : /\ documents' = [documents EXCEPT ![d] = row]
                 /\ d \in Documents => row \in DocumentRow
                 /\ d \in Documents => row.stamp = documents[d].stamp + 1 /\ row.quotes = documents[d].quotes
  <2>1. d \in Documents => documents[d] \in DocumentRow
    BY DEF BatchInv
  <2>2. ASSUME NEW e \in {"named", "unnamed"}, Read(s, e)
        PROVE  documents' = [documents EXCEPT ![d] =
                 [documents[d] EXCEPT !.status = "validated_needs_review", !.extraction = e, !.stamp = @ + 1]]
    BY <2>2 DEF Read, BatchInv
  <2>3. ASSUME RejectDocument(s)
        PROVE  documents' = [documents EXCEPT ![d] =
                 [documents[d] EXCEPT !.status = "quarantined_rejected", !.stamp = @ + 1]]
    BY <2>3 DEF RejectDocument, BatchInv
  <2>4. ASSUME TimeOut(s)
        PROVE  documents' = [documents EXCEPT ![d] =
                 [documents[d] EXCEPT !.status = "needs_manual_entry", !.stamp = @ + 1]]
    BY <2>4 DEF TimeOut, BatchInv
  <2> HIDE DEF d
  <2>5. ASSUME NEW e \in {"named", "unnamed"}, d \in Documents
        PROVE  LET row == [documents[d] EXCEPT !.status = "validated_needs_review", !.extraction = e,
                                               !.stamp = @ + 1]
               IN row \in DocumentRow /\ row.stamp = documents[d].stamp + 1 /\ row.quotes = documents[d].quotes
    BY <2>1, <2>5, DocumentRows
  <2>6. ASSUME NEW status \in {"quarantined_rejected", "needs_manual_entry"}, d \in Documents
        PROVE  LET row == [documents[d] EXCEPT !.status = status, !.stamp = @ + 1]
               IN row \in DocumentRow /\ row.stamp = documents[d].stamp + 1 /\ row.quotes = documents[d].quotes
    BY <2>1, <2>6, DocumentRows, ZenonT(30)
  <2> QED  BY <2>2, <2>3, <2>4, <2>5, <2>6
<1> HIDE DEF d
<1>3. documents' \in [Documents -> DocumentRow] /\ \A e \in Documents : Moved(e)
  BY <1>2 DEF BatchInv, Moved
<1> QED  BY <1>1, <1>3, MovedKeeps

\* A transaction begins, and has seen what it is going to quote.
LEMMA BeginKeepsBatch ==
  ASSUME BatchInv, NEW s, s.seen = DocumentStamps, NEW ds, s.new = Unquoted(ds), ds \subseteq Documents,
         sessions' = sessions \union {s}, UNCHANGED documents
  PROVE  BatchInv'
<1>1. Quoting' \subseteq Quoting \union {s}
  BY DEF Quoting
<1>2. \A d \in s.new : d \in Documents /\ documents[d].quotes = 0 /\ s.seen[d] = documents[d].stamp
  BY DEF Unquoted, DocumentStamps
<1>3. documents' \in [Documents -> DocumentRow] /\ \A d \in Documents : Moved(d)
  BY DEF BatchInv, Moved
<1> QED  BY <1>1, <1>2, <1>3, MovedKeeps

LEMMA BatchKeeps ==
  ASSUME BatchInv, [BatchNext]_batchVars
  PROVE  BatchInv'
<1>1. ASSUME UNCHANGED documents, Quoting' \subseteq Quoting
      PROVE  BatchInv'
  BY <1>1, MovedKeeps DEF BatchInv, Moved
<1>2. ASSUME NEW n \in SUBSET Documents, BeginMessage(n)
      PROVE  BatchInv'
  <2> DEFINE rows == IF thread.stamp = 0 THEN Attached ELSE attachments
             s == [kind |-> "message", rows |-> Tooled(rows, n), thread |-> thread.stamp,
                   new |-> Unquoted(Links(rows, n)), seen |-> DocumentStamps, was |-> rows]
  <2>1. sessions' = sessions \union {s} /\ UNCHANGED documents
    BY <1>2 DEF BeginMessage
  <2>2. s.seen = DocumentStamps /\ s.new = Unquoted(Links(rows, n))
    OBVIOUS
  <2>3. Links(rows, n) \subseteq Documents
    BY DEF Links
  <2> HIDE DEF rows, s
  <2> QED  BY <2>1, <2>2, <2>3, BeginKeepsBatch
<1>3. ASSUME NEW d \in Documents, BeginResolve(d)
      PROVE  BatchInv'
  <2> DEFINE s == [kind |-> "resolving", document |-> d, was |-> attachments,
                   new |-> Unquoted({d}), seen |-> DocumentStamps]
  <2>1. sessions' = sessions \union {s} /\ UNCHANGED documents
    BY <1>3 DEF BeginResolve
  <2>2. s.seen = DocumentStamps /\ s.new = Unquoted({d}) /\ {d} \subseteq Documents
    OBVIOUS
  <2> HIDE DEF s
  <2> QED  BY <2>1, <2>2, BeginKeepsBatch
<1>4. ASSUME NEW s \in sessions, CommitMessage(s)
      PROVE  BatchInv'
  <2>1. s \in Quoting /\ Quote(s.new) /\ sessions' \subseteq sessions
    BY <1>4 DEF CommitMessage, Quoting
  <2>2. \E written : Fresh(written, s.was, s.new, s.seen)
    BY <1>4 DEF CommitMessage
  <2> QED  BY <2>1, <2>2, CommitsQuote
<1>5. ASSUME NEW s \in sessions, NEW l \in BOOLEAN, CommitResolve(s, l)
      PROVE  BatchInv'
  <2> DEFINE new == IF l THEN s.new ELSE {}
  <2>1. /\ s \in Quoting /\ Quote(new) /\ sessions' \subseteq sessions
        /\ Fresh({s.document}, s.was, new, s.seen)
    BY <1>5 DEF CommitResolve, Quoting
  <2>2. new = s.new \/ new = {}
    OBVIOUS
  <2> HIDE DEF new
  <2> QED  BY <2>1, <2>2, CommitsQuote
<1>6. ASSUME NEW s \in sessions, Resume(s)
      PROVE  BatchInv'
  <2>1. sessions' \subseteq sessions
    BY <1>6 DEF Resume
  <2>2. CASE BatchReady(s.document)
    BY <1>6, <2>1, <2>2, ContinueKeeps DEF Resume
  <2>3. CASE ~ BatchReady(s.document)
    BY <1>1, <1>6, <2>1, <2>3 DEF Resume, Quoting
  <2> QED  BY <2>2, <2>3
<1>7. ASSUME NEW d \in Documents, ResumeReady(d)
      PROVE  BatchInv'
  BY <1>7, ContinueKeeps DEF ResumeReady
<1>8. ASSUME NEW s \in sessions, FailReading(s) \/ Abort(s)
      PROVE  BatchInv'
  BY <1>1, <1>8 DEF FailReading, Abort, ThenResume, Quoting
<1>9. ASSUME NEW d \in Documents, BeginReading(d) \/ Recover(d) \/ Retry(d)
      PROVE  BatchInv'
  BY <1>1, <1>9 DEF BeginReading, Recover, Retry, Quoting
<1>10. CASE UNCHANGED batchVars
  BY <1>1, <1>10 DEF batchVars, Quoting
<1> QED
  BY <1>2, <1>3, <1>4, <1>5, <1>6, <1>7, <1>8, <1>9, <1>10, ReadingKeeps DEF BatchNext

\* The inductive invariant of the documents of a batch.
THEOREM BatchInvariant == BatchSpec => []BatchInv
<1>1. BatchInit => BatchInv
  BY DEF BatchInit, UploadInit, BatchInv, DocumentRow, SeenUnquoted, Quoting, OneQuotePerDocument
<1>2. BatchInv /\ [BatchNext]_batchVars => BatchInv'
  BY BatchKeeps
<1> QED  BY <1>1, <1>2, PTL DEF BatchSpec

\* One document is one quotation (attach_uploaded_quote_documents), whoever
\* links it and however often.
THEOREM DocumentsAreQuotedOnce == BatchSpec => []OneQuotePerDocument
<1>1. BatchInv => OneQuotePerDocument
  BY DEF BatchInv
<1> QED  BY <1>1, BatchInvariant, PTL

-----------------------------------------------------------------------------
(***************************************************************************)
(* AgentTurn.  One message makes one business record with a receipt or one *)
(* proposal, whatever tools the model asks for and for any budgets.        *)
(*                                                                         *)
(* The argument: while the loop goes on nothing that counts was made, or   *)
(* what was made has told the loop to choose no more tools (NothingYet).   *)
(***************************************************************************)

TurnFields ==
  {"phase", "live", "yes", "own", "tool", "reason", "decisions", "reads", "mutations",
   "proposals", "observed", "receipt", "effects"}

TurnShape ==
  /\ turn.phase \in {"idle", "deciding", "executing", "ending"}
  /\ turn.phase # "idle" =>
       /\ DOMAIN turn = TurnFields
       /\ turn.effects \in [Effects -> Nat]
       /\ turn.decisions \in Nat
       /\ turn.receipt \in BOOLEAN
  /\ turn.phase = "executing" => turn.tool \in Tools

Counts(effects) == effects["change"] + effects["requirement"] + effects["proposal"]

NothingYet ==
  /\ turn.phase = "executing" => turn.decisions > 0 /\ Counts(turn.effects) = 0
  /\ turn.phase = "deciding" =>
       \/ Counts(turn.effects) = 0
       \/ turn.decisions > 0 /\ turn.receipt /\ Counts(turn.effects) = 1
  /\ turn.phase = "ending" => Counts(turn.effects) <= 1

TurnInv ==
  /\ TurnShape /\ NothingYet
  /\ saved.effects \in [Effects -> Nat]
  /\ OneChangePerTurn

Outcomes ==
  [effect : Effects \union {"none"},
   block : {"record", "receipt", "clarification", "confirmation", "progress", "warning"}]

\* Which tools make what counts: a requirement comes with a receipt, a record
\* from a tool that changes records, a proposal from a tool that proposes.
LEMMA AdapterMakes ==
  ASSUME NEW tool \in Tools, NEW own, NEW yes, NEW out \in Adapter(tool, own, yes)
  PROVE  /\ out.effect = "requirement" => out.block = "receipt"
         /\ out.effect = "change" => Category(tool) = "mutation"
         /\ out.effect = "proposal" => Category(tool) = "proposal"
<1> USE DEF Told, Asked, Refused, Made, Proposed
<1>1. ASSUME tool = "reads"
      PROVE  out.effect = "none"
  BY <1>1 DEF Adapter, ContextReads, SupplierReads, ReviewExcelImport, ManagementReads, WorkReads,
              ReviewQuoteExtraction
<1>2. ASSUME tool = "search_approved_material"
      PROVE  out.effect = "none"
  BY <1>2 DEF Adapter, SearchApprovedMaterial
<1>3. ASSUME tool = "request_task_update"
      PROVE  out.effect \in {"none", "update"}
  BY <1>3 DEF Adapter, RequestTaskUpdate
<1>4. ASSUME tool = "records"
      PROVE  out.effect \in {"none", "change"}
  BY <1>4 DEF Adapter, PreviewExcelImport, PreparePoChange, OpenSupplierCorrectiveAction,
              ExportExcelExchange, ExchangeRates, PrepareInvoiceFromAttachment, MatchSupplierInvoice,
              PrepareRfqDraft, PrepareSupplierComparison, PrepareSupplierReturn, DelegateTask
<1>5. ASSUME tool = "upload_supplier_quotes"
      PROVE  out.effect \in {"none", "change"}
  BY <1>5 DEF Adapter, UploadSupplierQuotes, FindRequest
<1>6. ASSUME tool = "create_purchase_requirement"
      PROVE  out.effect = "none" \/ (out.effect = "requirement" /\ out.block = "receipt")
  BY <1>6 DEF Adapter, CreatePurchaseRequirement, ExecuteProcurementDelegation
<1>7. ASSUME tool = "create_material_master_request"
      PROVE  out.effect \in {"none", "request"}
  BY <1>7 DEF Adapter, CreateMaterialMasterRequest
<1>8. ASSUME tool = "proposals"
      PROVE  out.effect \in {"none", "proposal"}
  BY <1>8 DEF Adapter, ApproveExcelImportProposal, PrepareFinanceHandoffProposal,
              VerifyQuoteFieldsProposal, ComparisonProposals, RecordComparisonDecisionProposal,
              PrepareNegotiationProposal, RecordProposals, PrepareSupplierFollowup, InboundProposals,
              ReplacementProposals
<1> QED
  BY <1>1, <1>2, <1>3, <1>4, <1>5, <1>6, <1>7, <1>8
     DEF Tools, ReadTools, ProposalTools, MutationTools, Category

\* What a tool does to the counts, and whether the loop goes on after it.
LEMMA ToolKeeps ==
  ASSUME TurnInv, NEW out \in Outcomes, ExecutesTool(out)
  PROVE  TurnInv'
<1> DEFINE effects == IF out.effect = "none" THEN turn.effects
                      ELSE [turn.effects EXCEPT ![out.effect] = @ + 1]
           status == Status(out, effects)
           why == Termination(status)
<1>1. /\ turn.phase = "executing" /\ turn.tool \in Tools /\ DOMAIN turn = TurnFields
      /\ turn.effects \in [Effects -> Nat] /\ turn.decisions \in Nat /\ turn.decisions > 0
      /\ turn.receipt \in BOOLEAN
      /\ Counts(turn.effects) = 0 /\ UNCHANGED saved
  BY DEF ExecutesTool, TurnInv, TurnShape, NothingYet
<1>2. /\ turn.effects["change"] = 0 /\ turn.effects["requirement"] = 0 /\ turn.effects["proposal"] = 0
      /\ \A e \in Effects : turn.effects[e] \in Nat
  BY <1>1 DEF Counts, Effects
<1>3. out.effect \in Effects \union {"none"}
  BY DEF Outcomes
<1>4. /\ effects \in [Effects -> Nat]
      /\ effects["change"] = IF out.effect = "change" THEN 1 ELSE 0
      /\ effects["requirement"] = IF out.effect = "requirement" THEN 1 ELSE 0
      /\ effects["proposal"] = IF out.effect = "proposal" THEN 1 ELSE 0
  BY <1>1, <1>2, <1>3 DEF Effects
<1>5. /\ turn'.phase = IF why = "none" THEN "deciding" ELSE "ending"
      /\ turn'.effects = effects
      /\ turn'.receipt = (turn.receipt \/ out.block = "receipt")
      /\ turn'.decisions = turn.decisions
      /\ DOMAIN turn' = TurnFields
  <2>1. DOMAIN turn = TurnFields
    BY <1>1
  <2> HIDE DEF effects, status, why
  <2> QED  BY <2>1 DEF ExecutesTool, TurnFields, effects, status, why
<1>6. /\ out.effect = "requirement" => out.block = "receipt"
      /\ out.effect = "change" => Category(turn.tool) = "mutation"
      /\ out.effect = "proposal" => Category(turn.tool) = "proposal"
  BY <1>1, AdapterMakes DEF ExecutesTool
<1> HIDE DEF effects
<1>7. out.effect = "change" => why = "mutation_completed"
  BY <1>4, <1>6 DEF Status, Termination
<1>8. out.effect = "proposal" => why = "proposal_created"
  BY <1>4, <1>6 DEF Status, Termination
<1> HIDE DEF status, why
<1>9. Counts(effects) = 0 \/ (Counts(effects) = 1 /\ (why # "none" \/ out.block = "receipt"))
  BY <1>3, <1>4, <1>6, <1>7, <1>8 DEF Counts, Effects
<1>10. TurnShape'
  BY <1>1, <1>4, <1>5 DEF TurnShape
<1>11. NothingYet'
  <2>1. Counts(turn'.effects) = Counts(effects) /\ (out.block = "receipt" => turn'.receipt)
    BY <1>5
  <2> QED  BY <1>1, <1>5, <1>9, <2>1 DEF NothingYet
<1> QED  BY <1>1, <1>10, <1>11 DEF TurnInv, OneChangePerTurn

LEMMA DecideKeeps ==
  ASSUME TurnInv, NEW tool \in Tools, DecidesTool(tool)
  PROVE  TurnInv'
<1>1. /\ turn.phase = "deciding" /\ DOMAIN turn = TurnFields
      /\ turn.effects \in [Effects -> Nat] /\ turn.decisions \in Nat /\ turn.receipt \in BOOLEAN
      /\ turn.decisions > 0 => ~ turn.receipt
      /\ UNCHANGED saved
  BY DEF DecidesTool, TurnInv, TurnShape
<1>2. Counts(turn.effects) = 0
  BY <1>1 DEF TurnInv, NothingYet
<1>3. /\ turn'.phase = "executing" /\ turn'.tool = tool /\ DOMAIN turn' = TurnFields
      /\ turn'.effects = turn.effects /\ turn'.decisions = turn.decisions + 1
      /\ turn'.receipt = turn.receipt
  BY <1>1 DEF DecidesTool, Chooses, Counted, TurnFields
<1> QED  BY <1>1, <1>2, <1>3 DEF TurnInv, TurnShape, NothingYet, OneChangePerTurn

LEMMA EndKeeps ==
  ASSUME TurnInv, DecidesFinal \/ StopsBeforeTool
  PROVE  TurnInv'
<1>1. /\ turn.phase \in {"deciding", "executing"} /\ DOMAIN turn = TurnFields
      /\ turn.effects \in [Effects -> Nat] /\ turn.decisions \in Nat /\ turn.receipt \in BOOLEAN
      /\ UNCHANGED saved
  BY DEF DecidesFinal, StopsBeforeTool, TurnInv, TurnShape
<1>2. Counts(turn.effects) <= 1
  BY <1>1 DEF TurnInv, NothingYet
<1>3. PICK why : Ends(why)
  BY DEF DecidesFinal, StopsBeforeTool
<1>4. /\ turn'.phase = "ending" /\ turn'.tool = turn.tool /\ DOMAIN turn' = TurnFields
      /\ turn'.effects = turn.effects /\ turn'.decisions = turn.decisions
      /\ turn'.receipt = turn.receipt
  BY <1>1, <1>3 DEF Ends, TurnFields
<1> QED  BY <1>1, <1>2, <1>4 DEF TurnInv, TurnShape, NothingYet, OneChangePerTurn

LEMMA SaveKeeps ==
  ASSUME TurnInv, FinishTurn \/ PauseTurn
  PROVE  TurnInv'
<1>1. turn' = Idle /\ saved'.effects = turn.effects
  BY DEF FinishTurn, PauseTurn, Saves
<1>2. turn.phase \in {"deciding", "executing", "ending"}
  BY DEF FinishTurn, PauseTurn
<1>3. turn.effects \in [Effects -> Nat] /\ Counts(turn.effects) <= 1
  BY <1>2 DEF TurnInv, TurnShape, NothingYet
<1>4. turn'.phase = "idle"
  BY <1>1 DEF Idle
<1> QED  BY <1>1, <1>3, <1>4 DEF TurnInv, TurnShape, NothingYet, OneChangePerTurn, Counts

LEMMA TurnKeeps ==
  ASSUME TurnInv, [TurnNext]_turnVars
  PROVE  TurnInv'
<1>1. ASSUME NEW l \in BOOLEAN, NEW y \in BOOLEAN, StartTurn(l, y)
      PROVE  TurnInv'
  <2>1. /\ turn'.phase = "deciding" /\ DOMAIN turn' = TurnFields
        /\ turn'.effects = Nothing /\ turn'.decisions = 0 /\ turn'.receipt \in BOOLEAN
        /\ UNCHANGED saved
    BY <1>1 DEF StartTurn, TurnFields
  <2>2. Nothing \in [Effects -> Nat] /\ Counts(Nothing) = 0
    BY DEF Nothing, Effects, Counts
  <2>3. turn'.effects \in [Effects -> Nat] /\ Counts(turn'.effects) = 0
    BY <2>1, <2>2
  <2>4. NothingYet'
    BY <2>1, <2>3 DEF NothingYet
  <2>5. TurnShape'
    BY <2>1, <2>3 DEF TurnShape
  <2> QED  BY <2>1, <2>4, <2>5 DEF TurnInv, OneChangePerTurn
<1>2. CASE FailTurn
  <2>1. turn'.phase = "idle" /\ UNCHANGED saved
    BY <1>2 DEF FailTurn, Idle
  <2> QED  BY <2>1 DEF TurnInv, TurnShape, NothingYet, OneChangePerTurn
<1>3. ASSUME NEW e \in Effects \union {"none"},
             NEW b \in {"record", "receipt", "clarification", "confirmation", "progress", "warning"},
             ExecutesTool([effect |-> e, block |-> b])
      PROVE  TurnInv'
  <2>1. [effect |-> e, block |-> b] \in Outcomes
    BY DEF Outcomes
  <2> QED  BY <1>3, <2>1, ToolKeeps
<1>4. CASE UNCHANGED turnVars \/ \E d \in {"approved", "rejected"} : DecideMaterialRequest(d)
  BY <1>4 DEF turnVars, DecideMaterialRequest, TurnInv, TurnShape, NothingYet, OneChangePerTurn
<1> QED
  BY <1>1, <1>2, <1>3, <1>4, DecideKeeps, EndKeeps, SaveKeeps DEF TurnNext, TurnStep

\* The inductive invariant of the tool loop.
THEOREM TurnInvariant == TurnSpec => []TurnInv
<1>1. TurnInit => TurnInv
  <2> SUFFICES ASSUME TurnInit
               PROVE  TurnInv
    OBVIOUS
  <2>1. turn.phase = "idle" /\ saved.effects = Nothing
    BY DEF TurnInit, Idle
  <2>2. Nothing \in [Effects -> Nat] /\ Counts(Nothing) = 0
    BY DEF Nothing, Effects, Counts
  <2> QED  BY <2>1, <2>2 DEF TurnInv, TurnShape, NothingYet, OneChangePerTurn, Counts
<1>2. TurnInv /\ [TurnNext]_turnVars => TurnInv'
  BY TurnKeeps
<1> QED  BY <1>1, <1>2, PTL DEF TurnSpec

\* A message makes one record with a receipt or one proposal
\* (run_bounded_tool_loop), also when the provider fails in the middle.
THEOREM OneChangeIsSaved == TurnSpec => []OneChangePerTurn
<1>1. TurnInv => OneChangePerTurn
  BY DEF TurnInv
<1> QED  BY <1>1, TurnInvariant, PTL

-----------------------------------------------------------------------------
(***************************************************************************)
(* SupplierMail.  A document becomes one extraction and one invoice, for   *)
(* any number of documents, letters and requests that overlap.             *)
(*                                                                         *)
(* The argument: a document with an extraction has the link of an invoice  *)
(* from then on or a version no request under way has read, so the next    *)
(* extraction of it fails (PaperHands); an extraction is verified with its *)
(* version, and one that is behind an invoice is verified (WorkInHand).    *)
(***************************************************************************)

PaperStatuses ==
  {"none", "quarantined", "quarantined_rejected", "available", "validated_needs_review"}

Validated == {"available", "validated_needs_review"}

InvoiceLinks == {InvoiceOf(o) : o \in Orders}

PaperLinks == {<<"none">>, <<"delivery">>, <<"captured">>} \union InvoiceLinks

PaperRow == [status : PaperStatuses, link : PaperLinks, version : Nat]

ExtractionRow == [paper : Papers, order : Orders, verified : BOOLEAN, version : Nat]

PrepareWork ==
  [doing : {"prepare"}, paper : Papers, order : Orders, read : PaperRow, letter : Letters \union {"none"}]

NoticeWork == [doing : {"notice"}, paper : Papers, read : PaperRow, letter : Letters]

VerifyWork ==
  [doing : {"verify"}, paper : Papers, of : Nat, number : Numbers, read : PaperRow, version : Nat]

Works == PrepareWork \union NoticeWork \union VerifyWork

MailTypes ==
  /\ papers \in [Papers -> PaperRow]
  /\ extractions \in Seq(ExtractionRow)
  /\ captured \in Seq([paper : Papers \union {"none"}, number : Numbers])
  /\ clerks \in [Clerks -> {NoWork} \union Works]

\* A document has one extraction, none before it was validated, and one if its
\* link says that it is an invoice.
ExtractedOnce ==
  /\ \A x, y \in DOMAIN extractions : extractions[x].paper = extractions[y].paper => x = y
  /\ \A x \in DOMAIN extractions : papers[extractions[x].paper].status \in Validated \union {"quarantined_rejected"}
  /\ \A p \in Papers :
       papers[p].status \in Validated /\ papers[p].link \in InvoiceLinks => ExtractionsOf(p) # {}

\* An invoice of a document stands behind its verified extraction.
CapturedOnce ==
  /\ \A m, n \in DOMAIN captured : captured[m].paper = captured[n].paper /\ captured[m].paper \in Papers => m = n
  /\ \A n \in DOMAIN captured : captured[n].paper \in Papers =>
       \E x \in ExtractionsOf(captured[n].paper) : extractions[x].verified

\* What a request has read is no newer than the rows, and as they are if their
\* version is the same.
WorkInHand(w) ==
  /\ papers[w.paper].status \in Validated \union {"quarantined_rejected"}
  /\ w.read.version <= papers[w.paper].version
  /\ w.doing = "prepare" =>
       /\ papers[w.paper].status \in Validated
       /\ w.read.link \notin InvoiceLinks
       /\ w.read.version = papers[w.paper].version => ExtractionsOf(w.paper) = {}
  /\ w.doing = "verify" =>
       /\ w.of \in DOMAIN extractions /\ extractions[w.of].paper = w.paper
       /\ w.version <= extractions[w.of].version
       /\ w.version = extractions[w.of].version => ~ extractions[w.of].verified

PaperHands == \A c \in Clerks : clerks[c] # NoWork => WorkInHand(clerks[c])

MailInv == MailTypes /\ ExtractedOnce /\ CapturedOnce /\ PaperHands

LEMMA LinksDiffer ==
  /\ <<"none">> \notin InvoiceLinks /\ <<"delivery">> \notin InvoiceLinks
  /\ <<"captured">> \notin InvoiceLinks
  /\ \A o \in Orders : InvoiceOf(o) \in InvoiceLinks /\ InvoiceOf(o)[2] = o
BY DEF InvoiceLinks, InvoiceOf

LEMMA WorkShapes ==
  ASSUME MailTypes, NEW c \in Clerks
  PROVE  /\ clerks[c] # NoWork => clerks[c] \in Works
         /\ clerks[c].doing = "prepare" => clerks[c] \in PrepareWork
         /\ clerks[c].doing = "notice" => clerks[c] \in NoticeWork
         /\ clerks[c].doing = "verify" => clerks[c] \in VerifyWork
         /\ clerks[c] \in Works => /\ clerks[c].paper \in Papers /\ clerks[c].read \in PaperRow
                                   /\ clerks[c].read.version \in Nat
BY DEF MailTypes, NoWork, Works, PrepareWork, NoticeWork, VerifyWork, PaperRow

LEMMA ExtractionFields ==
  ASSUME MailTypes, NEW x \in DOMAIN extractions
  PROVE  /\ extractions[x] \in ExtractionRow
         /\ extractions[x].paper \in Papers /\ extractions[x].version \in Nat
<1>1. extractions[x] \in ExtractionRow
  BY DEF MailTypes
<1> QED  BY <1>1 DEF ExtractionRow

\* What changes when a document is linked: its link and its version.
LEMMA LinkedPapers ==
  ASSUME MailTypes, NEW w, w.paper \in Papers, NEW link \in PaperLinks
  PROVE  /\ PaperLinked(w, link) \in [Papers -> PaperRow]
         /\ \A q \in Papers :
              /\ PaperLinked(w, link)[q].status = papers[q].status
              /\ papers[q].version <= PaperLinked(w, link)[q].version
              /\ PaperLinked(w, link)[q].link \in {papers[q].link, link}
         /\ w.read.link # link => PaperLinked(w, link)[w.paper].version = papers[w.paper].version + 1
<1> DEFINE row == [papers[w.paper] EXCEPT !.link = link, !.version = @ + 1]
<1>1. papers \in [Papers -> PaperRow] /\ papers[w.paper] \in PaperRow
  BY DEF MailTypes
<1>2. \A q \in Papers : papers[q].version \in Nat
  BY <1>1 DEF PaperRow
<1>3. /\ row \in PaperRow /\ row.link = link /\ row.status = papers[w.paper].status
      /\ row.version = papers[w.paper].version + 1
  <2> DEFINE version == papers[w.paper].version + 1
  <2>1. version \in Nat
    BY <1>2
  <2> HIDE DEF version
  <2>2. LET to == [papers[w.paper] EXCEPT !.link = link, !.version = version]
        IN to \in PaperRow /\ to.link = link /\ to.status = papers[w.paper].status /\ to.version = version
    BY <1>1, <2>1 DEF PaperRow
  <2> QED  BY <2>2 DEF version
<1>4. CASE w.read.link = link
  BY <1>1, <1>2, <1>4 DEF PaperLinked
<1>5. CASE w.read.link # link
  <2>1. PaperLinked(w, link) = [papers EXCEPT ![w.paper] = row]
    BY <1>1, <1>5 DEF PaperLinked
  <2> HIDE DEF row
  <2> QED  BY <1>1, <1>2, <1>3, <2>1
<1> QED  BY <1>4, <1>5

\* A new extraction is of its document only.
LEMMA ExtractedRow ==
  ASSUME MailTypes, NEW p \in Papers, NEW o \in Orders, Extracted(p, o)
  PROVE  /\ extractions' \in Seq(ExtractionRow)
         /\ DOMAIN extractions' = DOMAIN extractions \union {Len(extractions) + 1}
         /\ Len(extractions) + 1 \notin DOMAIN extractions
         /\ \A x \in DOMAIN extractions : extractions'[x] = extractions[x]
         /\ extractions'[Len(extractions) + 1].paper = p
<1> DEFINE row == [paper |-> p, order |-> o, verified |-> FALSE, version |-> 1]
<1>1. row \in ExtractionRow /\ row.paper = p
  BY DEF ExtractionRow
<1>2. extractions' = Append(extractions, row) /\ extractions \in Seq(ExtractionRow)
  BY DEF Extracted, MailTypes
<1> HIDE DEF row
<1> QED  BY <1>1, <1>2

\* Requests under way stay right when documents and extractions only move on.
LEMMA HandStays ==
  ASSUME MailInv,
         \A q \in Papers : papers[q].status \in Validated \union {"quarantined_rejected"} =>
           /\ papers'[q].status = papers[q].status
           /\ papers'[q].version \in Nat /\ papers[q].version <= papers'[q].version
           /\ ExtractionsOf(q) = {} /\ papers'[q].version = papers[q].version => ExtractionsOf(q)' = {},
         \A x \in DOMAIN extractions :
           /\ x \in DOMAIN extractions' /\ extractions'[x].paper = extractions[x].paper
           /\ \/ extractions'[x] = extractions[x]
              \/ extractions'[x].version = extractions[x].version + 1,
         NEW w \in Works, WorkInHand(w), w.paper \in Papers, w.read.version \in Nat,
         w.doing = "verify" => w.version \in Nat
  PROVE  WorkInHand(w)'
<1>1. papers[w.paper].version \in Nat
  BY DEF MailInv, MailTypes, PaperRow
<1>2. w.doing = "verify" => w.of \in DOMAIN extractions /\ extractions[w.of].version \in Nat
  BY ExtractionFields DEF WorkInHand, MailInv
<1>3. /\ papers'[w.paper].status \in Validated \union {"quarantined_rejected"}
      /\ w.read.version <= papers'[w.paper].version
  BY <1>1 DEF WorkInHand
<1>4. w.doing = "prepare" =>
        /\ papers'[w.paper].status \in Validated
        /\ w.read.link \notin InvoiceLinks
        /\ w.read.version = papers'[w.paper].version => ExtractionsOf(w.paper)' = {}
  BY <1>1 DEF WorkInHand
<1>5. w.doing = "verify" =>
        /\ w.of \in DOMAIN extractions' /\ extractions'[w.of].paper = w.paper
        /\ w.version <= extractions'[w.of].version
        /\ w.version = extractions'[w.of].version => ~ extractions'[w.of].verified
  BY <1>2 DEF WorkInHand
<1> QED  BY <1>3, <1>4, <1>5 DEF WorkInHand

LEMMA HandsStay ==
  ASSUME MailInv,
         \A q \in Papers : papers[q].status \in Validated \union {"quarantined_rejected"} =>
           /\ papers'[q].status = papers[q].status
           /\ papers'[q].version \in Nat /\ papers[q].version <= papers'[q].version
           /\ ExtractionsOf(q) = {} /\ papers'[q].version = papers[q].version => ExtractionsOf(q)' = {},
         \A x \in DOMAIN extractions :
           /\ x \in DOMAIN extractions' /\ extractions'[x].paper = extractions[x].paper
           /\ \/ extractions'[x] = extractions[x]
              \/ extractions'[x].version = extractions[x].version + 1,
         \A c \in Clerks : clerks'[c] \in {clerks[c], NoWork}
  PROVE  PaperHands'
<1> SUFFICES ASSUME NEW c \in Clerks, clerks'[c] # NoWork
             PROVE  WorkInHand(clerks[c])'
  BY Zenon DEF PaperHands
<1>1. PICK w : w = clerks[c] /\ w = clerks'[c]
  OBVIOUS
<1>2. w # NoWork /\ WorkInHand(w)
  BY <1>1 DEF MailInv, PaperHands
<1>3. w \in Works /\ w.paper \in Papers /\ w.read.version \in Nat /\ (w.doing = "verify" => w.version \in Nat)
  BY <1>1, <1>2, WorkShapes DEF MailInv, VerifyWork
<1>4. WorkInHand(w)'
  BY <1>2, <1>3, HandStays
<1> QED  BY <1>1, <1>4 DEF WorkInHand, ExtractionsOf

\* Invoices stay right when their extractions stay.
LEMMA InvoicesStay ==
  ASSUME MailInv, captured' = captured,
         \A x \in DOMAIN extractions : x \in DOMAIN extractions' /\ extractions'[x] = extractions[x]
  PROVE  CapturedOnce'
BY DEF MailInv, CapturedOnce, ExtractionsOf

\* A document that has no extraction gets one.
LEMMA ExtractKeeps ==
  ASSUME MailInv, NEW p \in Papers, NEW o \in Orders, Extracted(p, o), ExtractionsOf(p) = {},
         papers' \in [Papers -> PaperRow], clerks' \in [Clerks -> {NoWork} \union Works], UNCHANGED captured,
         papers'[p].status \in Validated,
         \A q \in Papers \ {p} : papers'[q] = papers[q],
         papers[p].status \in Validated \union {"quarantined_rejected"} =>
           papers'[p].status = papers[p].status /\ papers'[p].version = papers[p].version + 1,
         \A c \in Clerks : clerks'[c] \in {clerks[c], NoWork}
  PROVE  MailInv'
<1>1. /\ extractions' \in Seq(ExtractionRow)
      /\ DOMAIN extractions' = DOMAIN extractions \union {Len(extractions) + 1}
      /\ Len(extractions) + 1 \notin DOMAIN extractions
      /\ \A x \in DOMAIN extractions : extractions'[x] = extractions[x]
      /\ extractions'[Len(extractions) + 1].paper = p
  BY ExtractedRow DEF MailInv
<1>2. MailTypes'
  BY <1>1 DEF MailInv, MailTypes
<1>3. \A x \in DOMAIN extractions : extractions[x].paper # p /\ extractions[x].paper \in Papers
  BY ExtractionFields DEF ExtractionsOf, MailInv
<1>4. \A q \in Papers \ {p} : ExtractionsOf(q)' = ExtractionsOf(q)
  BY <1>1 DEF ExtractionsOf
<1>5. ExtractionsOf(p)' # {}
  BY <1>1 DEF ExtractionsOf
<1>6. ExtractedOnce'
  BY <1>1, <1>3, <1>4, <1>5 DEF ExtractedOnce, MailInv
<1>7. CapturedOnce'
  BY <1>1, InvoicesStay
<1>8. PaperHands'
  <2>1. \A q \in Papers : papers[q].version \in Nat /\ papers'[q].version \in Nat
    BY DEF MailInv, MailTypes, PaperRow
  <2> QED  BY <1>1, <1>4, <2>1, HandsStay
<1> QED  BY <1>2, <1>6, <1>7, <1>8 DEF MailInv

LEMMA PrepareKeeps ==
  ASSUME MailInv, NEW c \in Clerks, FinishPrepare(c)
  PROVE  MailInv'
<1> DEFINE w == clerks[c]
           link == InvoiceOf(w.order)
<1>1. w \in PrepareWork /\ w # NoWork /\ w.paper \in Papers /\ w.read.version \in Nat /\ w.order \in Orders
  BY WorkShapes DEF FinishPrepare, MailInv, NoWork, PrepareWork, Works
<1>2. link \in InvoiceLinks /\ link \in PaperLinks
  BY <1>1, LinksDiffer DEF PaperLinks
<1>3. WorkInHand(w) /\ w.doing = "prepare"
  BY <1>1 DEF MailInv, PaperHands, FinishPrepare
<1>4. w.read.link # link /\ w.read.version = papers[w.paper].version
  BY <1>2, <1>3 DEF FinishPrepare, Commits, WorkInHand
<1>5. ExtractionsOf(w.paper) = {} /\ papers[w.paper].status \in Validated
  BY <1>3, <1>4 DEF WorkInHand
<1>6. /\ papers' = PaperLinked(w, link)
      /\ Extracted(w.paper, w.order)
      /\ clerks' = [clerks EXCEPT ![c] = NoWork]
      /\ UNCHANGED captured
  BY DEF FinishPrepare
<1>7. \A q \in Papers \ {w.paper} : papers'[q] = papers[q]
  BY <1>6 DEF PaperLinked, MailInv, MailTypes
<1> HIDE DEF w, link
<1>8. /\ papers' \in [Papers -> PaperRow]
      /\ papers'[w.paper].status = papers[w.paper].status
      /\ papers'[w.paper].version = papers[w.paper].version + 1
  BY <1>1, <1>2, <1>4, <1>6, LinkedPapers DEF MailInv
<1>9. clerks' \in [Clerks -> {NoWork} \union Works] /\ \A d \in Clerks : clerks'[d] \in {clerks[d], NoWork}
  BY <1>6 DEF MailInv, MailTypes
<1> QED  BY <1>1, <1>5, <1>6, <1>7, <1>8, <1>9, ExtractKeeps

LEMMA ProcessKeeps ==
  ASSUME MailInv, NEW p \in Papers, NEW valid \in BOOLEAN, ProcessPaper(p, valid)
  PROVE  MailInv'
<1> DEFINE status == CASE ~ valid -> "quarantined_rejected"
                       [] valid /\ papers[p].link = <<"delivery">> -> "available"
                       [] OTHER -> "validated_needs_review"
           row == [papers[p] EXCEPT !.status = status, !.version = @ + 1]
<1>1. papers' = [papers EXCEPT ![p] = row] /\ UNCHANGED <<captured, clerks>>
  BY DEF ProcessPaper, MailInv, MailTypes
<1>2. papers[p].status = "quarantined" /\ papers[p] \in PaperRow
  BY DEF ProcessPaper, MailInv, MailTypes
<1>3. /\ status \in Validated \union {"quarantined_rejected"}
      /\ status \in Validated <=> valid
  BY DEF Validated
<1> HIDE DEF status
<1>4. row \in PaperRow /\ row.status = status /\ row.link = papers[p].link
  <2> DEFINE version == papers[p].version + 1
  <2>1. version \in Nat
    BY <1>2 DEF PaperRow
  <2> HIDE DEF version
  <2>2. LET to == [papers[p] EXCEPT !.status = status, !.version = version]
        IN to \in PaperRow /\ to.status = status /\ to.link = papers[p].link
    BY <1>2, <1>3, <2>1 DEF PaperRow, PaperStatuses, Validated
  <2> QED  BY <2>2 DEF version
<1> HIDE DEF row
<1>5. /\ papers' \in [Papers -> PaperRow] /\ papers'[p] = row
      /\ \A q \in Papers \ {p} : papers'[q] = papers[q]
      /\ clerks' \in [Clerks -> {NoWork} \union Works]
  BY <1>1, <1>4 DEF MailInv, MailTypes
<1>6. ExtractionsOf(p) = {}
  BY <1>2 DEF ExtractionsOf, MailInv, ExtractedOnce, Validated
<1>7. CASE valid /\ papers[p].link \in InvoiceLinks
  <2>1. PICK o \in Orders : papers[p].link = InvoiceOf(o)
    BY <1>7 DEF InvoiceLinks
  <2>2. Extracted(p, o)
    BY <1>7, <2>1, LinksDiffer DEF ProcessPaper
  <2> QED
    BY <1>1, <1>2, <1>3, <1>4, <1>5, <1>6, <1>7, <2>2, ExtractKeeps DEF Validated
<1>8. CASE ~ (valid /\ papers[p].link \in InvoiceLinks)
  <2>1. UNCHANGED extractions
    BY <1>8 DEF ProcessPaper, InvoiceLinks
  <2>2. MailTypes'
    BY <1>1, <1>5, <2>1 DEF MailInv, MailTypes
  <2>3. \A x \in DOMAIN extractions : extractions[x].paper \in Papers /\ extractions[x].paper # p
    BY <1>6, ExtractionFields DEF ExtractionsOf, MailInv
  <2>4. ExtractedOnce'
    BY <1>3, <1>4, <1>5, <1>8, <2>1, <2>3 DEF MailInv, ExtractedOnce, ExtractionsOf
  <2>5. CapturedOnce'
    BY <1>1, <2>1, InvoicesStay
  <2>6. PaperHands'
    <3>1. \A q \in Papers : papers[q].version \in Nat
      BY DEF MailInv, MailTypes, PaperRow
    <3> QED  BY <1>1, <1>2, <1>5, <2>1, <3>1, HandsStay DEF ExtractionsOf, Validated
  <2> QED  BY <2>2, <2>4, <2>5, <2>6 DEF MailInv
<1> QED  BY <1>7, <1>8

\* A document is linked, and no extraction is made.
LEMMA NoticeKeeps ==
  ASSUME MailInv, NEW c \in Clerks, FinishNotice(c)
  PROVE  MailInv'
<1> DEFINE w == clerks[c]
<1>1. w \in NoticeWork /\ w.paper \in Papers
  BY WorkShapes DEF FinishNotice, MailInv, NoWork, NoticeWork, Works
<1>2. <<"delivery">> \in PaperLinks /\ <<"delivery">> \notin InvoiceLinks
  BY LinksDiffer DEF PaperLinks
<1>3. /\ papers' = PaperLinked(w, <<"delivery">>)
      /\ clerks' = [clerks EXCEPT ![c] = NoWork]
      /\ UNCHANGED <<extractions, captured>>
  BY DEF FinishNotice
<1> HIDE DEF w
<1>4. /\ papers' \in [Papers -> PaperRow]
      /\ \A q \in Papers :
           /\ papers'[q].status = papers[q].status
           /\ papers[q].version <= papers'[q].version
           /\ papers'[q].link \in {papers[q].link, <<"delivery">>}
  BY <1>1, <1>2, <1>3, LinkedPapers DEF MailInv
<1>5. MailTypes'
  BY <1>3, <1>4 DEF MailInv, MailTypes
<1>6. ExtractedOnce'
  <2>1. \A x \in DOMAIN extractions : extractions[x].paper \in Papers
    BY ExtractionFields DEF MailInv
  <2> QED  BY <1>2, <1>3, <1>4, <2>1 DEF MailInv, ExtractedOnce, ExtractionsOf
<1>7. CapturedOnce'
  BY <1>3, InvoicesStay
<1>8. PaperHands'
  <2>1. \A q \in Papers : papers'[q].version \in Nat
    BY <1>4 DEF PaperRow
  <2>2. \A d \in Clerks : clerks'[d] \in {clerks[d], NoWork}
    BY <1>3 DEF MailInv, MailTypes
  <2> QED  BY <1>3, <1>4, <2>1, <2>2, HandsStay DEF ExtractionsOf
<1> QED  BY <1>5, <1>6, <1>7, <1>8 DEF MailInv

\* The invoice of a document that had none.
LEMMA VerifyKeeps ==
  ASSUME MailInv, NEW c \in Clerks, FinishVerify(c)
  PROVE  MailInv'
<1> DEFINE w == clerks[c]
           row == [extractions[w.of] EXCEPT !.verified = TRUE, !.version = @ + 1]
           invoice == [paper |-> w.paper, number |-> w.number]
<1>1. w \in VerifyWork /\ w # NoWork /\ w.paper \in Papers /\ w.number \in Numbers
  BY WorkShapes DEF FinishVerify, MailInv, NoWork, VerifyWork, Works
<1>2. <<"captured">> \in PaperLinks /\ <<"captured">> \notin InvoiceLinks
  BY LinksDiffer DEF PaperLinks
<1>3. WorkInHand(w) /\ w.doing = "verify" /\ extractions[w.of].version = w.version
  BY <1>1 DEF MailInv, PaperHands, FinishVerify
<1>4. /\ w.of \in DOMAIN extractions /\ extractions[w.of].paper = w.paper
      /\ ~ extractions[w.of].verified
  BY <1>3 DEF WorkInHand
<1>5. /\ papers' = PaperLinked(w, <<"captured">>)
      /\ clerks' = [clerks EXCEPT ![c] = NoWork]
      /\ extractions' = [extractions EXCEPT ![w.of] = row]
      /\ captured' = Append(captured, invoice)
  BY <1>4 DEF FinishVerify, MailInv, MailTypes
<1>6. /\ row \in ExtractionRow /\ row.paper = w.paper /\ row.verified
      /\ row.version = extractions[w.of].version + 1
  <2> DEFINE version == extractions[w.of].version + 1
  <2>1. extractions[w.of] \in ExtractionRow /\ version \in Nat
    BY <1>4, ExtractionFields DEF MailInv
  <2> HIDE DEF version
  <2>2. LET to == [extractions[w.of] EXCEPT !.verified = TRUE, !.version = version]
        IN to \in ExtractionRow /\ to.paper = extractions[w.of].paper /\ to.verified /\ to.version = version
    BY <2>1 DEF ExtractionRow
  <2> QED  BY <1>4, <2>2 DEF version
<1>7. /\ invoice \in [paper : Papers \union {"none"}, number : Numbers]
      /\ invoice.paper = w.paper
  BY <1>1
<1> HIDE DEF w, row, invoice
<1>8. /\ papers' \in [Papers -> PaperRow]
      /\ \A q \in Papers :
           /\ papers'[q].status = papers[q].status
           /\ papers[q].version <= papers'[q].version
           /\ papers'[q].link \in {papers[q].link, <<"captured">>}
  BY <1>1, <1>2, <1>5, LinkedPapers DEF MailInv
<1>9. /\ extractions' \in Seq(ExtractionRow) /\ DOMAIN extractions' = DOMAIN extractions
      /\ \A x \in DOMAIN extractions : extractions'[x].paper = extractions[x].paper
      /\ \A x \in DOMAIN extractions : x # w.of => extractions'[x] = extractions[x]
      /\ extractions'[w.of] = row
  <2>1. extractions \in Seq(ExtractionRow)
    BY DEF MailInv, MailTypes
  <2> QED  BY <1>4, <1>5, <1>6, <2>1
<1>10. /\ captured' \in Seq([paper : Papers \union {"none"}, number : Numbers])
       /\ DOMAIN captured' = DOMAIN captured \union {Len(captured) + 1}
       /\ Len(captured) + 1 \notin DOMAIN captured
       /\ \A n \in DOMAIN captured : captured'[n] = captured[n]
       /\ captured'[Len(captured) + 1] = invoice
  <2> DEFINE Invoices == [paper : Papers \union {"none"}, number : Numbers]
  <2>1. captured \in Seq(Invoices) /\ invoice \in Invoices
    BY <1>7 DEF MailInv, MailTypes
  <2> HIDE DEF Invoices
  <2>2. /\ captured' \in Seq(Invoices)
        /\ DOMAIN captured' = DOMAIN captured \union {Len(captured) + 1}
        /\ Len(captured) + 1 \notin DOMAIN captured
        /\ \A n \in DOMAIN captured : captured'[n] = captured[n]
        /\ captured'[Len(captured) + 1] = invoice
    BY <1>5, <2>1
  <2> QED  BY <2>2 DEF Invoices
<1>11. MailTypes'
  BY <1>5, <1>8, <1>9, <1>10 DEF MailInv, MailTypes
<1>12. ExtractedOnce'
  <2>1. \A x \in DOMAIN extractions : extractions[x].paper \in Papers
    BY ExtractionFields DEF MailInv
  <2>2. \A x, y \in DOMAIN extractions' :
          extractions'[x].paper = extractions'[y].paper => x = y
    BY <1>9 DEF MailInv, ExtractedOnce
  <2>3. \A x \in DOMAIN extractions' :
          papers'[extractions'[x].paper].status \in Validated \union {"quarantined_rejected"}
    BY <1>8, <1>9, <2>1 DEF MailInv, ExtractedOnce
  <2>4. \A q \in Papers : ExtractionsOf(q)' = ExtractionsOf(q)
    BY <1>9 DEF ExtractionsOf
  <2>5. ASSUME NEW q \in Papers, papers'[q].status \in Validated, papers'[q].link \in InvoiceLinks
        PROVE  ExtractionsOf(q)' # {}
    <3>1. papers[q].status \in Validated /\ papers[q].link \in InvoiceLinks
      BY <1>2, <1>8, <2>5
    <3> QED  BY <2>4, <3>1 DEF MailInv, ExtractedOnce
  <2> QED  BY <2>2, <2>3, <2>5 DEF ExtractedOnce
<1>13. \A n \in DOMAIN captured : captured[n].paper # w.paper
  BY <1>1, <1>4 DEF MailInv, CapturedOnce, ExtractedOnce, ExtractionsOf
<1>14. \A n \in DOMAIN captured' : captured'[n].paper \in Papers =>
         \E x \in DOMAIN extractions' : extractions'[x].paper = captured'[n].paper /\ extractions'[x].verified
  <2>1. ASSUME NEW n \in DOMAIN captured, captured[n].paper \in Papers
        PROVE  \E x \in DOMAIN extractions' : extractions'[x].paper = captured[n].paper /\ extractions'[x].verified
    BY <1>4, <1>6, <1>9, <2>1 DEF MailInv, CapturedOnce, ExtractionsOf
  <2>2. extractions'[w.of].paper = invoice.paper /\ extractions'[w.of].verified /\ w.of \in DOMAIN extractions'
    BY <1>4, <1>6, <1>7, <1>9
  <2> QED  BY <1>10, <2>1, <2>2
<1>15. CapturedOnce'
  <2>1. \A m, n \in DOMAIN captured' :
          captured'[m].paper = captured'[n].paper /\ captured'[m].paper \in Papers => m = n
    BY <1>7, <1>10, <1>13 DEF MailInv, CapturedOnce
  <2> QED  BY <1>14, <2>1 DEF CapturedOnce, ExtractionsOf
<1>16. PaperHands'
  <2>1. \A q \in Papers : papers'[q].version \in Nat
    BY <1>8 DEF PaperRow
  <2>2. \A d \in Clerks : clerks'[d] \in {clerks[d], NoWork}
    BY <1>5 DEF MailInv, MailTypes
  <2>3. \A q \in Papers : ExtractionsOf(q)' = ExtractionsOf(q)
    BY <1>9 DEF ExtractionsOf
  <2>4. \A x \in DOMAIN extractions :
          /\ x \in DOMAIN extractions' /\ extractions'[x].paper = extractions[x].paper
          /\ \/ extractions'[x] = extractions[x]
             \/ extractions'[x].version = extractions[x].version + 1
    BY <1>6, <1>9
  <2> QED  BY <1>8, <2>1, <2>2, <2>3, <2>4, HandsStay
<1> QED  BY <1>11, <1>12, <1>15, <1>16 DEF MailInv

\* A request has the rows in hand as they are now.
LEMMA TakeKeeps ==
  ASSUME MailInv, NEW c \in Clerks, NEW work \in Works, WorkInHand(work), TakeWork(c, work)
  PROVE  MailInv'
<1>1. clerks' = [clerks EXCEPT ![c] = work] /\ UNCHANGED <<papers, extractions, captured>>
  BY DEF TakeWork
<1>2. clerks' \in [Clerks -> {NoWork} \union Works]
  BY <1>1 DEF MailInv, MailTypes
<1>3. MailTypes' /\ ExtractedOnce' /\ CapturedOnce'
  BY <1>1, <1>2 DEF MailInv, MailTypes, ExtractedOnce, CapturedOnce, ExtractionsOf
<1>4. \A d \in Clerks : clerks'[d] \in {clerks[d], work}
  BY <1>1 DEF MailInv, MailTypes
<1>5. PaperHands'
  BY <1>1, <1>4 DEF MailInv, PaperHands, WorkInHand, ExtractionsOf
<1> QED  BY <1>3, <1>5 DEF MailInv

LEMMA StartKeeps ==
  ASSUME MailInv, NEW c \in Clerks, NEW p \in Papers,
         \/ \E o \in Orders : StartPrepare(c, p, o)
         \/ \E o \in Orders, letter \in Letters : StartInvoiceMail(c, letter, p, o)
         \/ \E letter \in Letters : StartNoticeMail(c, letter, p)
  PROVE  MailInv'
<1>1. papers[p] \in PaperRow /\ papers[p].version \in Nat /\ papers[p].status \in PaperStatuses
  BY DEF MailInv, MailTypes, PaperRow
<1>2. ASSUME NEW o \in Orders, NEW letter \in Letters \union {"none"},
             ExtractionsOf(p) = {}, papers[p].status \in Validated,
             TakeWork(c, [doing |-> "prepare", paper |-> p, order |-> o, read |-> papers[p], letter |-> letter])
      PROVE  MailInv'
  <2> DEFINE work == [doing |-> "prepare", paper |-> p, order |-> o, read |-> papers[p], letter |-> letter]
  <2>1. work \in Works
    BY <1>1 DEF Works, PrepareWork
  <2>2. work.paper = p /\ work.read = papers[p] /\ work.doing = "prepare"
    OBVIOUS
  <2> HIDE DEF work
  <2>3. WorkInHand(work)
    BY <1>1, <1>2, <2>2 DEF WorkInHand, MailInv, ExtractedOnce
  <2> QED  BY <1>2, <2>1, <2>3, TakeKeeps DEF work
<1>3. ASSUME NEW letter \in Letters, StartNoticeMail(c, letter, p)
      PROVE  MailInv'
  <2> DEFINE work == [doing |-> "notice", paper |-> p, read |-> papers[p], letter |-> letter]
  <2>1. work \in Works
    BY <1>1 DEF Works, NoticeWork
  <2>2. work.paper = p /\ work.read = papers[p] /\ work.doing = "notice"
    OBVIOUS
  <2>3. TakeWork(c, work) /\ papers[p].status \in Validated \union {"quarantined_rejected"}
    BY <1>1, <1>3 DEF StartNoticeMail, Blocked, PaperStatuses, Validated
  <2> HIDE DEF work
  <2>4. WorkInHand(work)
    BY <1>1, <2>2, <2>3 DEF WorkInHand
  <2> QED  BY <2>1, <2>3, <2>4, TakeKeeps
<1>4. ASSUME NEW o \in Orders, StartPrepare(c, p, o)
      PROVE  MailInv'
  BY <1>2, <1>4 DEF StartPrepare, Validated
<1>5. ASSUME NEW o \in Orders, NEW letter \in Letters, StartInvoiceMail(c, letter, p, o)
      PROVE  MailInv'
  BY <1>2, <1>5 DEF StartInvoiceMail, Validated
<1> QED  BY <1>3, <1>4, <1>5

LEMMA StartVerifyKeeps ==
  ASSUME MailInv, NEW c \in Clerks, NEW x \in DOMAIN extractions, NEW number \in Numbers,
         StartVerify(c, x, number)
  PROVE  MailInv'
<1> DEFINE p == extractions[x].paper
           work == [doing |-> "verify", paper |-> p, of |-> x, number |-> number,
                    read |-> papers[p], version |-> extractions[x].version]
<1>1. p \in Papers /\ extractions[x].version \in Nat /\ x \in Nat
  BY ExtractionFields DEF MailInv, MailTypes
<1>2. papers[p] \in PaperRow /\ papers[p].version \in Nat
  BY <1>1 DEF MailInv, MailTypes, PaperRow
<1>3. TakeWork(c, work) /\ ~ extractions[x].verified /\ papers[p].status \in Validated
  BY DEF StartVerify, Validated
<1>4. work \in Works
  BY <1>1, <1>2 DEF Works, VerifyWork
<1>5. /\ work.paper = p /\ work.read = papers[p] /\ work.doing = "verify" /\ work.of = x
      /\ work.version = extractions[x].version
  OBVIOUS
<1> HIDE DEF work
<1>6. WorkInHand(work)
  BY <1>1, <1>2, <1>3, <1>5 DEF WorkInHand
<1> QED  BY <1>3, <1>4, <1>6, TakeKeeps

LEMMA UploadKeeps ==
  ASSUME MailInv, NEW p \in Papers, NEW link \in PaperLinks, UploadPaper(p, link)
  PROVE  MailInv'
<1> DEFINE row == [status |-> "quarantined", link |-> link, version |-> 1]
<1>1. papers' = [papers EXCEPT ![p] = row] /\ UNCHANGED <<extractions, captured, clerks>>
  BY DEF UploadPaper
<1>2. papers[p].status = "none"
  BY DEF UploadPaper, NoPaper
<1>3. row \in PaperRow /\ row.status = "quarantined"
  BY DEF PaperRow, PaperStatuses
<1> HIDE DEF row
<1>4. /\ papers' \in [Papers -> PaperRow] /\ papers'[p] = row
      /\ \A q \in Papers \ {p} : papers'[q] = papers[q]
  BY <1>1, <1>3 DEF MailInv, MailTypes
<1>5. MailTypes' /\ CapturedOnce'
  BY <1>1, <1>4, InvoicesStay DEF MailInv, MailTypes
<1>6. \A x \in DOMAIN extractions : extractions[x].paper \in Papers /\ extractions[x].paper # p
  BY <1>2, ExtractionFields DEF MailInv, ExtractedOnce, Validated
<1>7. ExtractedOnce'
  BY <1>1, <1>3, <1>4, <1>6 DEF MailInv, ExtractedOnce, ExtractionsOf, Validated
<1>8. PaperHands'
  <2>1. \A q \in Papers : papers[q].version \in Nat
    BY DEF MailInv, MailTypes, PaperRow
  <2> QED  BY <1>1, <1>2, <1>4, <2>1, HandsStay DEF ExtractionsOf, Validated
<1> QED  BY <1>5, <1>7, <1>8 DEF MailInv

LEMMA TypeKeeps ==
  ASSUME MailInv, NEW number \in Numbers, TypeInvoice(number)
  PROVE  MailInv'
<1> DEFINE Invoices == [paper : Papers \union {"none"}, number : Numbers]
           invoice == [paper |-> "none", number |-> number]
<1>1. captured' = Append(captured, invoice) /\ UNCHANGED <<papers, extractions, clerks>>
  BY DEF TypeInvoice
<1>2. invoice \in Invoices /\ invoice.paper = "none"
  OBVIOUS
<1>3. captured \in Seq(Invoices)
  BY DEF MailInv, MailTypes
<1> HIDE DEF Invoices, invoice
<1>4. /\ captured' \in Seq(Invoices)
      /\ DOMAIN captured' = DOMAIN captured \union {Len(captured) + 1}
      /\ \A n \in DOMAIN captured : captured'[n] = captured[n]
      /\ captured'[Len(captured) + 1].paper = "none"
  BY <1>1, <1>2, <1>3
<1>5. MailTypes'
  BY <1>1, <1>4 DEF MailInv, MailTypes, Invoices
<1>6. CapturedOnce'
  BY <1>1, <1>4, SupplierMailAssumption DEF MailInv, CapturedOnce, ExtractionsOf
<1> QED  BY <1>1, <1>5, <1>6 DEF MailInv, ExtractedOnce, PaperHands, WorkInHand, ExtractionsOf

LEMMA EvidenceKeeps ==
  ASSUME MailInv, [SupplierMailNext]_supplierMailVars
  PROVE  MailInv'
<1>1. CASE UNCHANGED evidenceVars
  BY <1>1 DEF evidenceVars, MailInv, MailTypes, ExtractedOnce, CapturedOnce, PaperHands, WorkInHand,
              ExtractionsOf
<1>2. CASE MailNext
  BY <1>1, <1>2 DEF MailNext, Press, TakeMail, GiveMail, ConfirmMail, FailMail, LoseMail
<1>3. ASSUME NEW c \in Clerks, GiveUp(c)
      PROVE  MailInv'
  <2>1. /\ clerks' = [clerks EXCEPT ![c] = NoWork]
        /\ UNCHANGED <<papers, extractions, captured>>
    BY <1>3 DEF GiveUp
  <2>2. MailTypes' /\ ExtractedOnce' /\ CapturedOnce'
    BY <2>1 DEF MailInv, MailTypes, ExtractedOnce, CapturedOnce, ExtractionsOf
  <2>3. \A d \in Clerks : clerks'[d] \in {clerks[d], NoWork}
    BY <2>1 DEF MailInv, MailTypes
  <2>4. PaperHands'
    BY <2>1, <2>3 DEF MailInv, PaperHands, WorkInHand, ExtractionsOf
  <2> QED  BY <2>2, <2>4 DEF MailInv
<1>4. ASSUME NEW p \in Papers,
             NEW link \in {<<"none">>, <<"delivery">>} \union {InvoiceOf(o) : o \in Orders}, UploadPaper(p, link)
      PROVE  MailInv'
  <2>1. link \in PaperLinks
    BY DEF PaperLinks, InvoiceLinks
  <2> QED  BY <1>4, <2>1, UploadKeeps
<1>5. CASE EvidenceNext
  BY <1>3, <1>4, <1>5, ProcessKeeps, StartKeeps, StartVerifyKeeps, PrepareKeeps, NoticeKeeps,
     VerifyKeeps, TypeKeeps
     DEF EvidenceNext
<1> QED  BY <1>1, <1>2, <1>5 DEF SupplierMailNext, supplierMailVars

\* The inductive invariant of documents, extractions and invoices.
THEOREM MailInvariant == SupplierMailSpec => []MailInv
<1>1. SupplierMailInit => MailInv
  <2> SUFFICES ASSUME SupplierMailInit
               PROVE  MailInv
    OBVIOUS
  <2>1. NoPaper \in PaperRow /\ NoPaper.status = "none"
    BY DEF NoPaper, PaperRow, PaperStatuses, PaperLinks
  <2>2. MailTypes
    BY <2>1 DEF SupplierMailInit, MailTypes
  <2>3. \A p \in Papers : papers[p].status = "none"
    BY <2>1 DEF SupplierMailInit
  <2> QED  BY <2>2, <2>3 DEF SupplierMailInit, MailInv, ExtractedOnce, CapturedOnce, PaperHands, Validated
<1>2. MailInv /\ [SupplierMailNext]_supplierMailVars => MailInv'
  BY EvidenceKeeps
<1> QED  BY <1>1, <1>2, PTL DEF SupplierMailSpec

\* A document becomes one extraction and one invoice (invoice_service), though
\* the assistant, a letter and two buyers may have it in hand at once.
THEOREM PapersBecomeOneInvoice == SupplierMailSpec => []OneInvoicePerPaper
<1>1. ASSUME NEW S, \A x, y \in S : x = y
      PROVE  Cardinality(S) <= 1
  <2>1. CASE S = {}
    <3>1. Cardinality(S) = 0
      BY <2>1, FS_EmptySet, Zenon
    <3> QED  BY <3>1
  <2>2. CASE S # {}
    <3>1. PICK x : S = {x}
      BY <1>1, <2>2
    <3>2. Cardinality(S) = 1
      BY <3>1, FS_Singleton, Zenon
    <3> QED  BY <3>2
  <2> QED  BY <2>1, <2>2
<1>2. MailInv => OneInvoicePerPaper
  <2> SUFFICES ASSUME MailInv, NEW p \in Papers
               PROVE  /\ Cardinality(ExtractionsOf(p)) <= 1
                      /\ Cardinality({n \in DOMAIN captured : captured[n].paper = p}) <= 1
    BY DEF OneInvoicePerPaper
  <2>1. \A x, y \in ExtractionsOf(p) : x = y
    BY DEF ExtractionsOf, MailInv, ExtractedOnce
  <2>2. \A m, n \in {k \in DOMAIN captured : captured[k].paper = p} : m = n
    BY DEF MailInv, CapturedOnce
  <2> QED  BY <1>1, <2>1, <2>2
<1> QED  BY <1>2, MailInvariant, PTL
=============================================================================
