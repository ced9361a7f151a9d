------------------------- MODULE ActionIntentProofs -------------------------
(***************************************************************************)
(* Proofs about ActionIntent, for any number of intents and of overlapping *)
(* clients.                                                                *)
(*                                                                         *)
(* The invariants follow from RowInv, which relates the rows of one intent *)
(* to its status, and ClientInv, which says what a client still knows of   *)
(* the intent it has read: as long as the version is the one it saw, the   *)
(* status is what it checked.  That is what the version in the WHERE       *)
(* clause of an update buys: the guard of a commit gives back what was     *)
(* read.                                                                   *)
(***************************************************************************)
EXTENDS ActionIntent, TLAPS

Undecided == {"awaiting_approval", "blocked"}

Executed == {"executed", "executed_simulated", "executed_pending_verification",
             "execution_failed", "verified", "not_recovered"}

\* The rows of intent k, told by its status.
RowInv(k) ==
  /\ status[k] = "absent" => approval[k] = "none"
  /\ status[k] \in Undecided => approval[k] = "pending"
  /\ status[k] = "rejected" => approval[k] = "rejected"
  /\ status[k] \in Executed \union {"approved"} => approval[k] = "approved"
  /\ status[k] \notin Executed => executions[k] = 0
  /\ executions[k] <= 1
  /\ effects[k] > 0 => approval[k] = "approved"
  /\ outcome[k] = "verified_recovered" <=> status[k] = "verified"
  /\ caseStatus[k] = "resolved" <=> status[k] = "verified"

\* What client c may write at each step, and what it knows of the intent if
\* the version is still the one it has seen.
ClientInv(c) ==
  /\ pc[c] = "propose" => writes[c] \in Undecided
  /\ pc[c] \in {"load_approval", "decide"} => writes[c] \in {"approved", "rejected"}
  /\ pc[c] = "execute" =>
       writes[c] \in {"executed_simulated", "executed_pending_verification", "execution_failed"}
  /\ pc[c] \in {"find_prior", "perform"} => writes[c] = "executed_simulated"
  /\ pc[c] = "verify" => writes[c] \in {"verified", "not_recovered"}
  /\ pc[c] # "idle" => seen[c] <= version[intent[c]]
  /\ pc[c] \in {"find_prior", "perform", "execute"} => approval[intent[c]] = "approved"
  /\ pc[c] # "idle" /\ seen[c] = version[intent[c]] =>
       /\ pc[c] = "decide" => status[intent[c]] \in Undecided
       /\ pc[c] \in {"find_prior", "perform", "execute"} => status[intent[c]] = "approved"
       /\ pc[c] = "verify" => status[intent[c]] = "executed_pending_verification"

Inv ==
  /\ TypeOK
  /\ \A k \in Intents : RowInv(k)
  /\ \A c \in Clients : ClientInv(c)

-----------------------------------------------------------------------------
(* Typing.                                                                 *)

\* The end of a request leaves its variables well typed.
LEMMA EndsTyped ==
  ASSUME IntentAssumption, TypeOK, NEW c \in Clients, Ends(c)
  PROVE  /\ pc' \in [Clients -> {"idle", "propose", "load_approval", "decide", "find_prior",
                                 "perform", "execute", "verify"}]
         /\ intent' \in [Clients -> Intents \union {NoIntent}]
         /\ \A d \in Clients : pc'[d] # "idle" => intent'[d] \in Intents
         /\ seen' \in [Clients -> Nat]
         /\ writes' \in [Clients -> Statuses]
BY DEF IntentAssumption, TypeOK, Ends, Statuses

\* Every step keeps the types.
LEMMA TypeStep ==
  ASSUME IntentAssumption, Inv, Next
  PROVE  TypeOK'
<1> USE DEF Inv
<1>1. ASSUME NEW c \in Clients, NEW k \in Intents, NEW to \in {"propose", "load_approval", "find_prior", "verify"},
             NEW w \in Statuses, Read(c, k, to, w)
      PROVE  TypeOK'
  BY <1>1 DEF TypeOK, Read, db
<1>2. ASSUME NEW c \in Clients, NEW to \in {"decide", "perform", "execute"},
             pc[c] # "idle", Proceed(c, to)
      PROVE  TypeOK'
  BY <1>2 DEF TypeOK, Proceed, db
<1>3. ASSUME NEW c \in Clients, Start(c)
      PROVE  TypeOK'
  BY <1>1, <1>3 DEF Start, ProposeRead, DecideRead, ExecuteRead, VerifyRead, Statuses, Settled
<1>4. ASSUME NEW c \in Clients, Ends(c), UNCHANGED <<db, effects>>
      PROVE  TypeOK'
  BY <1>4, EndsTyped DEF TypeOK, db
<1>5. ASSUME NEW c \in Clients, Continue(c)
      PROVE  TypeOK'
  <2>1. CASE FindPending(c)
    BY <2>1, <1>2 DEF FindPending
  <2>2. CASE FindPrior(c)
    BY <2>2, <1>2, <1>4 DEF FindPrior
  <2>3. CASE CallConnector(c)
    <3>1. PICK result \in {"executed_pending_verification", "execution_failed"}, acted \in BOOLEAN :
            /\ writes' = [writes EXCEPT ![c] = result]
            /\ effects' = [effects EXCEPT ![intent[c]] = IF acted THEN @ + 1 ELSE @]
      BY <2>3 DEF CallConnector
    <3>2. intent[c] \in Intents
      BY <2>3 DEF TypeOK, CallConnector
    <3>3. effects' \in [Intents -> Nat]
      BY <3>1, <3>2 DEF TypeOK
    <3>4. writes' \in [Clients -> Statuses]
      BY <3>1 DEF TypeOK, Statuses, Settled
    <3> QED
      BY <2>3, <3>2, <3>3, <3>4 DEF TypeOK, CallConnector, db
  <2>4. CASE Simulate(c)
    BY <2>4, <1>2 DEF Simulate
  <2> QED
    BY <1>5, <2>1, <2>2, <2>3, <2>4 DEF Continue
<1>6. ASSUME NEW c \in Clients, Finish(c)
      PROVE  TypeOK'
  <2>1. CASE ProposeCommit(c)
    BY <2>1, EndsTyped DEF TypeOK, ProposeCommit
  <2>2. CASE InternalCommit(c)
    BY <2>2, EndsTyped DEF TypeOK, InternalCommit, Statuses, Settled
  <2>3. CASE DecideCommit(c)
    <3>1. writes[c] \in {"approved", "rejected"}
      BY <2>3 DEF DecideCommit, ClientInv
    <3> QED
      BY <2>3, <3>1, EndsTyped DEF TypeOK, DecideCommit, UpdateIntent
  <2>4. CASE ExecuteCommit(c)
    <3>1. OutcomeOf[writes[c]] \in {"none", "verified_simulation", "pending"}
      BY <2>4 DEF ExecuteCommit, ClientInv, OutcomeOf
    <3> QED
      BY <2>4, <3>1, EndsTyped DEF TypeOK, ExecuteCommit, UpdateIntent
  <2>5. CASE VerifyCommit(c)
    BY <2>5, EndsTyped DEF TypeOK, VerifyCommit, UpdateIntent
  <2>6. CASE Abort(c)
    BY <2>6, <1>4 DEF Abort
  <2> QED
    BY <1>6, <2>1, <2>2, <2>3, <2>4, <2>5, <2>6 DEF Finish
<1>7. CASE Done
  BY <1>7 DEF TypeOK, Done, vars, db, request
<1> QED
  BY <1>3, <1>5, <1>6, <1>7 DEF Next

-----------------------------------------------------------------------------
(* The rows.                                                               *)

\* What a step does to the row of an intent: its status changes only with its
\* version, which grows, and an approval is never taken back.
RowStep(k) ==
  /\ \/ version'[k] = version[k] /\ status'[k] = status[k]
     \/ version'[k] = version[k] + 1
  /\ approval[k] = "approved" => approval'[k] = "approved"

\* A step that commits nothing keeps the rows of every intent.
LEMMA RowsKept ==
  ASSUME Inv, UNCHANGED <<db, effects>>, NEW k \in Intents
  PROVE  RowInv(k)' /\ RowStep(k)
BY DEF Inv, RowInv, RowStep, db

\* Every step keeps RowInv, and steps the rows as RowStep allows.
LEMMA RowsCorrect ==
  ASSUME IntentAssumption, Inv, Next, NEW k \in Intents
  PROVE  RowInv(k)' /\ RowStep(k)
<1>1. ASSUME NEW c \in Clients, Start(c)
      PROVE  RowInv(k)' /\ RowStep(k)
  BY <1>1, RowsKept DEF Start, ProposeRead, DecideRead, ExecuteRead, VerifyRead, Read
<1>2. ASSUME NEW c \in Clients, Continue(c)
      PROVE  RowInv(k)' /\ RowStep(k)
  <2>1. CASE FindPending(c) \/ FindPrior(c) \/ Simulate(c)
    BY <2>1, RowsKept DEF FindPending, FindPrior, Simulate, Proceed
  <2>2. CASE CallConnector(c)
    <3>1. approval[intent[c]] = "approved"
      BY <2>2 DEF CallConnector, Inv, ClientInv
    <3>2. k # intent[c] => effects'[k] = effects[k]
      BY <2>2 DEF CallConnector, Inv, TypeOK
    <3> QED
      BY <2>2, <3>1, <3>2 DEF CallConnector, Inv, RowInv, RowStep, db
  <2> QED
    BY <1>2, <2>1, <2>2 DEF Continue
<1>3. ASSUME NEW c \in Clients, Finish(c)
      PROVE  RowInv(k)' /\ RowStep(k)
  <2> DEFINE i == intent[c]
  <2>1. CASE ProposeCommit(c)
    <3>1. i \in Intents /\ writes[c] \in Undecided /\ status[i] = "absent"
      BY <2>1 DEF ProposeCommit, Inv, TypeOK, ClientInv
    <3> QED
      BY <2>1, <3>1 DEF ProposeCommit, Inv, TypeOK, RowInv, RowStep, Undecided, Executed
  <2>2. CASE InternalCommit(c)
    BY <2>2 DEF InternalCommit, Inv, TypeOK, RowInv, RowStep, Undecided, Executed
  <2>3. CASE DecideCommit(c)
    <3>1. i \in Intents /\ writes[c] \in {"approved", "rejected"} /\ status[i] \in Undecided
      BY <2>3 DEF DecideCommit, UpdateIntent, Inv, TypeOK, ClientInv
    <3> QED
      BY <2>3, <3>1 DEF DecideCommit, UpdateIntent, Inv, TypeOK, RowInv, RowStep, Undecided, Executed
  <2>4. CASE ExecuteCommit(c)
    <3>1. /\ i \in Intents
          /\ writes[c] \in {"executed_simulated", "executed_pending_verification", "execution_failed"}
          /\ status[i] = "approved"
      BY <2>4 DEF ExecuteCommit, UpdateIntent, Inv, TypeOK, ClientInv
    <3>2. OutcomeOf[writes[c]] # "verified_recovered"
      BY <3>1 DEF OutcomeOf
    <3> QED
      BY <2>4, <3>1, <3>2 DEF ExecuteCommit, UpdateIntent, Inv, TypeOK, RowInv, RowStep, Undecided, Executed
  <2>5. CASE VerifyCommit(c)
    <3>1. /\ i \in Intents
          /\ writes[c] \in {"verified", "not_recovered"}
          /\ status[i] = "executed_pending_verification"
      BY <2>5 DEF VerifyCommit, UpdateIntent, Inv, TypeOK, ClientInv
    <3> QED
      BY <2>5, <3>1 DEF VerifyCommit, UpdateIntent, Inv, TypeOK, RowInv, RowStep, Undecided, Executed
  <2>6. CASE Abort(c)
    BY <2>6, RowsKept DEF Abort
  <2> QED
    BY <1>3, <2>1, <2>2, <2>3, <2>4, <2>5, <2>6 DEF Finish
<1>4. CASE Done
  BY <1>4, RowsKept DEF Done, vars
<1> QED
  BY <1>1, <1>2, <1>3, <1>4 DEF Next

-----------------------------------------------------------------------------
(* The clients.                                                            *)

\* A client whose own variables do not change keeps its invariant: either the
\* version it has seen is outdated now, or the status is still what it read.
LEMMA BystanderKept ==
  ASSUME Inv, NEW d \in Clients, \A k \in Intents : RowStep(k), TypeOK',
         pc'[d] = pc[d], intent'[d] = intent[d], seen'[d] = seen[d], writes'[d] = writes[d]
  PROVE  ClientInv(d)'
<1>1. CASE pc[d] = "idle"
  BY <1>1 DEF ClientInv
<1>2. CASE pc[d] # "idle"
  <2> DEFINE i == intent[d]
  <2>1. i \in Intents /\ seen[d] \in Nat /\ version[i] \in Nat /\ version'[i] \in Nat
    BY <1>2 DEF Inv, TypeOK
  <2>2. ClientInv(d) /\ RowStep(i)
    BY <2>1 DEF Inv
  <2>3. seen[d] = version'[i] => seen[d] = version[i] /\ status'[i] = status[i]
    BY <1>2, <2>1, <2>2 DEF ClientInv, RowStep
  <2>4. seen[d] <= version'[i]
    BY <1>2, <2>1, <2>2 DEF ClientInv, RowStep
  <2> QED
    BY <1>2, <2>1, <2>2, <2>3, <2>4 DEF ClientInv, RowStep
<1> QED
  BY <1>1, <1>2

\* A client that has just read the intent knows its status.
LEMMA ReaderKnows ==
  ASSUME IntentAssumption, Inv, NEW c \in Clients, Start(c)
  PROVE  ClientInv(c)'
<1>1. ASSUME NEW k \in Intents, ProposeRead(c, k)
      PROVE  ClientInv(c)'
  BY <1>1 DEF ProposeRead, Read, Inv, TypeOK, ClientInv, db, Undecided
<1>2. ASSUME NEW k \in Intents, NEW decision \in {"approved", "rejected"}, DecideRead(c, k, decision)
      PROVE  ClientInv(c)'
  BY <1>2 DEF DecideRead, Read, Inv, TypeOK, ClientInv, db
<1>3. ASSUME NEW k \in Intents, ExecuteRead(c, k)
      PROVE  ClientInv(c)'
  BY <1>3 DEF ExecuteRead, Read, Inv, TypeOK, ClientInv, RowInv, Executed, db
<1>4. ASSUME NEW k \in Intents, NEW verdict \in {"verified", "not_recovered"}, VerifyRead(c, k, verdict)
      PROVE  ClientInv(c)'
  BY <1>4 DEF VerifyRead, Read, Inv, TypeOK, ClientInv, db
<1> QED
  BY <1>1, <1>2, <1>3, <1>4 DEF Start

\* A client that has ended knows nothing.
LEMMA EndedKnows ==
  ASSUME Inv, NEW c \in Clients, Ends(c)
  PROVE  ClientInv(c)'
BY DEF Inv, TypeOK, Ends, ClientInv

\* A client that goes on keeps what it knows; one that has found the approval
\* pending knows that the intent is undecided.
LEMMA ContinuerKnows ==
  ASSUME IntentAssumption, Inv, NEW c \in Clients, Continue(c)
  PROVE  ClientInv(c)'
<1> DEFINE i == intent[c]
<1>1. CASE FindPending(c)
  <2>1. i \in Intents
    BY <1>1 DEF FindPending, Inv, TypeOK
  <2>2. status[i] \in Undecided
    BY <1>1, <2>1 DEF FindPending, Inv, TypeOK, RowInv, Undecided, Executed, Statuses, Settled
  <2> QED
    BY <1>1, <2>1, <2>2 DEF FindPending, Proceed, Inv, TypeOK, ClientInv, db
<1>2. CASE FindPrior(c)
  <2>1. CASE Ends(c)
    BY <2>1, EndedKnows
  <2>2. CASE Proceed(c, "perform")
    BY <1>2, <2>2 DEF FindPrior, Proceed, Inv, TypeOK, ClientInv, db
  <2> QED
    BY <1>2, <2>1, <2>2 DEF FindPrior
<1>3. CASE CallConnector(c)
  BY <1>3 DEF CallConnector, Inv, TypeOK, ClientInv, db
<1>4. CASE Simulate(c)
  BY <1>4 DEF Simulate, Proceed, Inv, TypeOK, ClientInv, db
<1> QED
  BY <1>1, <1>2, <1>3, <1>4 DEF Continue

\* A step of one client leaves the variables of the others alone.
LEMMA OthersUntouched ==
  ASSUME Inv, NEW c \in Clients, Start(c) \/ Continue(c) \/ Finish(c),
         NEW d \in Clients, d # c
  PROVE  pc'[d] = pc[d] /\ intent'[d] = intent[d] /\ seen'[d] = seen[d] /\ writes'[d] = writes[d]
<1>1. CASE Start(c)
  BY <1>1 DEF Start, ProposeRead, DecideRead, ExecuteRead, VerifyRead, Read, Inv, TypeOK
<1>2. CASE Continue(c)
  BY <1>2 DEF Continue, FindPending, FindPrior, CallConnector, Simulate, Proceed, Ends, Inv, TypeOK
<1>3. CASE Finish(c)
  BY <1>3 DEF Finish, ProposeCommit, InternalCommit, DecideCommit, ExecuteCommit, VerifyCommit,
              Abort, Ends, Inv, TypeOK
<1> QED
  BY <1>1, <1>2, <1>3

\* Every step keeps the invariant of every client.
LEMMA ClientsCorrect ==
  ASSUME IntentAssumption, Inv, Next, NEW d \in Clients
  PROVE  ClientInv(d)'
<1>1. TypeOK' /\ \A k \in Intents : RowStep(k)
  BY TypeStep, RowsCorrect
<1>2. ASSUME NEW c \in Clients, Start(c) \/ Continue(c) \/ Finish(c)
      PROVE  ClientInv(d)'
  <2>1. CASE d # c
    BY <1>1, <1>2, <2>1, OthersUntouched, BystanderKept
  <2>2. CASE d = c /\ Start(c)
    BY <2>2, ReaderKnows
  <2>3. CASE d = c /\ Continue(c)
    BY <2>3, ContinuerKnows
  <2>4. CASE d = c /\ Finish(c)
    BY <2>4, EndedKnows DEF Finish, ProposeCommit, InternalCommit, DecideCommit, ExecuteCommit,
                            VerifyCommit, Abort
  <2> QED
    BY <1>2, <2>1, <2>2, <2>3, <2>4
<1>3. CASE Done
  BY <1>1, <1>3, BystanderKept DEF Done, vars, request
<1> QED
  BY <1>2, <1>3 DEF Next

\* Nothing happened: the invariant holds again.
LEMMA Stutter ==
  ASSUME Inv, UNCHANGED vars
  PROVE  Inv'
BY DEF Inv, TypeOK, RowInv, ClientInv, vars, db, request

-----------------------------------------------------------------------------
(* The theorems.                                                           *)

\* The inductive invariant: rows and clients agree under every interleaving.
THEOREM IntentInvariant == Spec => []Inv
<1>1. Init => Inv
  BY IntentAssumption DEF Init, Inv, TypeOK, RowInv, ClientInv, Statuses, Settled, Executed, Undecided
<1>2. Inv /\ [Next]_vars => Inv'
  <2> SUFFICES ASSUME Inv, [Next]_vars
               PROVE  Inv'
    OBVIOUS
  <2>1. CASE Next
    BY <2>1, IntentAssumption, TypeStep, RowsCorrect, ClientsCorrect DEF Inv
  <2>2. CASE UNCHANGED vars
    BY <2>2, Stutter
  <2> QED
    BY <2>1, <2>2
<1> QED
  BY <1>1, <1>2, PTL DEF Spec

\* Every variable keeps its type.
THEOREM TypeCorrect == Spec => []TypeOK
<1>1. Inv => TypeOK
  BY DEF Inv
<1> QED
  BY <1>1, IntentInvariant, PTL

\* An intent is executed at most once, however many requests overlap.
THEOREM ExecutedOnce == Spec => []AtMostOneExecution
<1>1. Inv => AtMostOneExecution
  BY DEF Inv, RowInv, AtMostOneExecution
<1> QED
  BY <1>1, IntentInvariant, PTL

\* No execution and no connector call without an approval that stands.
THEOREM ApprovalComesFirst == Spec => []OnlyApprovedIsExecuted
<1>1. Inv => OnlyApprovedIsExecuted
  <2> SUFFICES ASSUME Inv, NEW k \in Intents, executions[k] + effects[k] > 0
               PROVE  approval[k] = "approved"
    BY DEF OnlyApprovedIsExecuted
  <2>1. executions[k] \in Nat /\ effects[k] \in Nat /\ RowInv(k)
    BY DEF Inv, TypeOK
  <2>2. CASE effects[k] > 0
    BY <2>1, <2>2 DEF RowInv
  <2>3. CASE executions[k] > 0
    BY <2>1, <2>3 DEF RowInv
  <2> QED
    BY <2>1, <2>2, <2>3
<1> QED
  BY <1>1, IntentInvariant, PTL

\* The approval, outcome and case rows never contradict the intent.
THEOREM RowsNeverDisagree == Spec => []RowsAgree
<1>1. Inv => RowsAgree
  <2> SUFFICES ASSUME Inv, NEW k \in Intents
               PROVE  /\ status[k] \in {"awaiting_approval", "blocked"} <=> approval[k] = "pending"
                      /\ status[k] = "rejected" <=> approval[k] = "rejected"
                      /\ caseStatus[k] = "resolved" <=> status[k] = "verified"
                      /\ outcome[k] = "verified_recovered" <=> status[k] = "verified"
    BY DEF RowsAgree
  <2>1. status[k] \in Statuses /\ RowInv(k)
    BY DEF Inv, TypeOK
  <2> QED
    BY <2>1 DEF RowInv, Statuses, Settled, Undecided, Executed
<1> QED
  BY <1>1, IntentInvariant, PTL

-----------------------------------------------------------------------------
(* Refinement.                                                             *)

\* The stage of every intent.
Stages == [k \in Intents |-> StageOfStatus[status[k]]]

\* Writing a status moves one intent from the stage of the old status to the
\* stage of the new one.
LEMMA StageMoves ==
  ASSUME TypeOK, NEW k \in Intents, NEW s \in Statuses, status' = [status EXCEPT ![k] = s]
  PROVE  /\ Stages[k] = StageOfStatus[status[k]]
         /\ Stages' = [Stages EXCEPT ![k] = StageOfStatus[s]]
BY DEF TypeOK, Stages

\* The stages of the statuses that a commit starts from or writes.
LEMMA StageValues ==
  /\ StageOfStatus["absent"] = "absent"
  /\ \A s \in Undecided : StageOfStatus[s] = "awaiting"
  /\ \A s \in {"approved", "rejected"} : StageOfStatus[s] = s
  /\ \A s \in {"executed", "executed_simulated", "executed_pending_verification"} :
       StageOfStatus[s] = "executed"
  /\ StageOfStatus["execution_failed"] = "failed"
  /\ StageOfStatus["verified"] = "recovered"
  /\ StageOfStatus["not_recovered"] = "not_recovered"
BY DEF StageOfStatus, Undecided

\* A commit is a step of the lifecycle.
LEMMA CommitMoves ==
  ASSUME IntentAssumption, Inv, NEW c \in Clients, Finish(c), ~ Abort(c)
  PROVE  Lifecycle!Next
<1>0. TypeOK /\ ClientInv(c) /\ writes[c] \in Statuses
  BY DEF Inv, TypeOK
<1>i. PICK i \in Intents : i = intent[c]
  BY DEF Inv, TypeOK, Finish, ProposeCommit, InternalCommit, DecideCommit, ExecuteCommit, VerifyCommit
<1>s. PICK s \in Statuses : s = writes[c]
  BY <1>0
<1>1. CASE ProposeCommit(c)
  <2>1. /\ status' = [status EXCEPT ![i] = s]
        /\ StageOfStatus[status[i]] \in {"absent"}
        /\ StageOfStatus[s] \in {"awaiting"}
    BY <1>0, <1>i, <1>s, <1>1, StageValues DEF ProposeCommit, ClientInv
  <2>2. Lifecycle!Propose(i)
    BY <1>0, <2>1, StageMoves DEF Lifecycle!Propose, Lifecycle!Move, Stages
  <2> QED
    BY <2>1, <2>2 DEF Lifecycle!Next
<1>2. CASE InternalCommit(c)
  <2>1. /\ "executed" \in Statuses
        /\ status' = [status EXCEPT ![i] = "executed"]
        /\ StageOfStatus[status[i]] \in {"absent"}
        /\ StageOfStatus["executed"] \in {"executed"}
    BY <1>0, <1>i, <1>s, <1>2, StageValues DEF InternalCommit, ClientInv, Statuses, Settled
  <2>2. Lifecycle!ExecuteInternally(i)
    BY <1>0, <2>1, StageMoves DEF Lifecycle!ExecuteInternally, Lifecycle!Move, Stages
  <2> QED
    BY <2>1, <2>2 DEF Lifecycle!Next
<1>3. CASE DecideCommit(c)
  <2>1. /\ status' = [status EXCEPT ![i] = s]
        /\ StageOfStatus[status[i]] \in {"awaiting"}
        /\ StageOfStatus[s] \in {"approved", "rejected"}
    BY <1>0, <1>i, <1>s, <1>3, StageValues DEF DecideCommit, UpdateIntent, ClientInv
  <2>2. Lifecycle!Decide(i)
    BY <1>0, <2>1, StageMoves DEF Lifecycle!Decide, Lifecycle!Move, Stages
  <2> QED
    BY <2>1, <2>2 DEF Lifecycle!Next
<1>4. CASE ExecuteCommit(c)
  <2>1. /\ status' = [status EXCEPT ![i] = s]
        /\ StageOfStatus[status[i]] \in {"approved"}
        /\ StageOfStatus[s] \in {"executed", "failed"}
    BY <1>0, <1>i, <1>s, <1>4, StageValues DEF ExecuteCommit, UpdateIntent, ClientInv
  <2>2. Lifecycle!Execute(i)
    BY <1>0, <2>1, StageMoves DEF Lifecycle!Execute, Lifecycle!Move, Stages
  <2> QED
    BY <2>1, <2>2 DEF Lifecycle!Next
<1>5. CASE VerifyCommit(c)
  <2>1. /\ status' = [status EXCEPT ![i] = s]
        /\ StageOfStatus[status[i]] \in {"executed"}
        /\ StageOfStatus[s] \in {"recovered", "not_recovered"}
    BY <1>0, <1>i, <1>s, <1>5, StageValues DEF VerifyCommit, UpdateIntent, ClientInv
  <2>2. Lifecycle!Verify(i)
    BY <1>0, <2>1, StageMoves DEF Lifecycle!Verify, Lifecycle!Move, Stages
  <2> QED
    BY <2>1, <2>2 DEF Lifecycle!Next
<1> QED
  BY <1>1, <1>2, <1>3, <1>4, <1>5 DEF Finish

\* Overlapping requests implement the lifecycle: each intent is decided once,
\* executed at most once after an approval, and verified after that.
THEOREM IntentImplementsLifecycle == Spec => ImplementsLifecycle
<1>1. Init => Lifecycle!Init
  BY DEF Init, Lifecycle!Init, StageOfStatus
<1>2. Inv /\ [Next]_vars => [Lifecycle!Next]_Stages
  <2> SUFFICES ASSUME Inv, [Next]_vars
               PROVE  [Lifecycle!Next]_Stages
    OBVIOUS
  <2>1. CASE UNCHANGED status
    BY <2>1 DEF Stages
  <2>2. ASSUME NEW c \in Clients, Finish(c), ~ Abort(c)
        PROVE  Lifecycle!Next
    BY <2>2, IntentAssumption, CommitMoves
  <2>3. ASSUME NEW c \in Clients, Start(c) \/ Continue(c) \/ Abort(c)
        PROVE  UNCHANGED status
    BY <2>3 DEF Start, ProposeRead, DecideRead, ExecuteRead, VerifyRead, Read,
                Continue, FindPending, FindPrior, CallConnector, Simulate, Proceed, Abort, db
  <2> QED
    BY <2>1, <2>2, <2>3 DEF Next, Done, vars, db
<1> QED
  BY <1>1, <1>2, IntentInvariant, PTL DEF Spec, ImplementsLifecycle, Lifecycle!Spec, Stages

=============================================================================
