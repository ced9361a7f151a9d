---------------------------- MODULE ActionIntent ----------------------------
(***************************************************************************)
(* The lifecycle of action intents: proposal, policy, manager decision,    *)
(* execution and verification of the outcome.                              *)
(*                                                                         *)
(* Every operation is one database transaction of an HTTP request or of an *)
(* event consumer.  It reads rows without locking them, decides, and       *)
(* writes when it commits.  Two things are checked at the commit: the      *)
(* unique constraint on the idempotency key, by which an intent is         *)
(* identified here, and the version column of every row it updates, which  *)
(* must be the one it read (ScopedMixin, version_id_col).  All updates of  *)
(* an intent's approval, outcome and case come with an update of the       *)
(* intent itself, so its version stands for all four rows.                 *)
(***************************************************************************)
EXTENDS Integers

CONSTANTS
  Intents,    \* idempotency keys
  Allowed,    \* those whose action_type the policy supports
  Clients,    \* request handlers and event consumers
  NoIntent,   \* what an idle client works on
  MaxCalls    \* bound: connector calls per intent

ASSUME IntentAssumption ==
  /\ Allowed \subseteq Intents
  /\ NoIntent \notin Intents
  /\ MaxCalls \in Nat

VARIABLES
  status,       \* platform_action_intents.status, "absent" without a row
  version,      \* platform_action_intents.version
  approval,     \* platform_action_approvals.decision, "none" without a row
  executions,   \* number of platform_action_executions rows
  outcome,      \* platform_action_outcomes.verification_status
  caseStatus,   \* status of the case the intent originates from
  effects,      \* calls of the connector that changed the external system
  pc,           \* how far a client has got
  intent,       \* the intent its request is about
  seen,         \* the version of the intent it has read
  writes        \* the status it is going to write

db == <<status, version, approval, executions, outcome, caseStatus>>
request == <<pc, intent, seen, writes>>
vars == <<db, effects, request>>

Settled == {"rejected", "executed", "executed_simulated", "execution_failed",
            "verified", "not_recovered"}

Statuses == {"absent", "awaiting_approval", "blocked", "approved",
             "executed_pending_verification"} \union Settled

Init ==
  /\ status = [k \in Intents |-> "absent"]
  /\ version = [k \in Intents |-> 0]
  /\ approval = [k \in Intents |-> "none"]
  /\ executions = [k \in Intents |-> 0]
  /\ outcome = [k \in Intents |-> "none"]
  /\ caseStatus = [k \in Intents |-> "open"]
  /\ effects = [k \in Intents |-> 0]
  /\ pc = [c \in Clients |-> "idle"]
  /\ intent = [c \in Clients |-> NoIntent]
  /\ seen = [c \in Clients |-> 0]
  /\ writes = [c \in Clients |-> "absent"]

\* Client c reads intent k and goes on to point to, to write w in the end.
Read(c, k, to, w) ==
  /\ pc[c] = "idle"
  /\ pc' = [pc EXCEPT ![c] = to]
  /\ intent' = [intent EXCEPT ![c] = k]
  /\ seen' = [seen EXCEPT ![c] = version[k]]
  /\ writes' = [writes EXCEPT ![c] = w]
  /\ UNCHANGED <<db, effects>>

\* A check went well.
Proceed(c, to) ==
  /\ pc' = [pc EXCEPT ![c] = to]
  /\ UNCHANGED <<db, effects, intent, seen, writes>>

\* The request is over.
Ends(c) ==
  /\ pc' = [pc EXCEPT ![c] = "idle"]
  /\ intent' = [intent EXCEPT ![c] = NoIntent]
  /\ seen' = [seen EXCEPT ![c] = 0]
  /\ writes' = [writes EXCEPT ![c] = "absent"]

\* Nothing is committed: a check failed, a version was stale, the database
\* refused or the process died.
Abort(c) == pc[c] # "idle" /\ Ends(c) /\ UNCHANGED <<db, effects>>

\* UPDATE ... SET status, version = seen + 1 WHERE version = seen.
UpdateIntent(c) ==
  /\ version[intent[c]] = seen[c]
  /\ version' = [version EXCEPT ![intent[c]] = @ + 1]
  /\ status' = [status EXCEPT ![intent[c]] = writes[c]]

-----------------------------------------------------------------------------
(* propose                                                                 *)

\* No intent with this key is visible (an existing one is simply returned).
ProposeRead(c, k) ==
  /\ status[k] = "absent"
  /\ Read(c, k, "propose", IF k \in Allowed THEN "awaiting_approval" ELSE "blocked")

\* The unique constraint turns the second of two inserts into an error.
\* The approval request is written for a blocked intent as well.
ProposeCommit(c) ==
  /\ pc[c] = "propose"
  /\ status[intent[c]] = "absent"
  /\ status' = [status EXCEPT ![intent[c]] = writes[c]]
  /\ version' = [version EXCEPT ![intent[c]] = @ + 1]
  /\ approval' = [approval EXCEPT ![intent[c]] = "pending"]
  /\ Ends(c)
  /\ UNCHANGED <<executions, outcome, caseStatus, effects>>

-----------------------------------------------------------------------------
(* decide                                                                  *)

\* Mutant: without the check that follows the read.
DecideReadUnchecked(c, k, decision) ==
  /\ status[k] # "absent"
  /\ Read(c, k, "decide", decision)

DecideRead(c, k, decision) ==
  /\ status[k] # "absent"
  /\ Read(c, k, "load_approval", decision)

\* Only the approval row is looked at, never the intent's status.
FindPending(c) ==
  /\ pc[c] = "load_approval"
  /\ approval[intent[c]] = "pending"
  /\ Proceed(c, "decide")

\* Mutant: the decision is not written to the approval row.
DecideCommitStatusOnly(c) ==
  /\ pc[c] = "decide"
  /\ UpdateIntent(c)
  /\ Ends(c)
  /\ UNCHANGED <<approval, executions, outcome, caseStatus, effects>>

DecideCommit(c) ==
  /\ pc[c] = "decide"
  /\ UpdateIntent(c)
  /\ approval' = [approval EXCEPT ![intent[c]] = writes[c]]
  /\ Ends(c)
  /\ UNCHANGED <<executions, outcome, caseStatus, effects>>

-----------------------------------------------------------------------------
(* execute_simulated and execute_external                                  *)

\* Mutant: any decided intent may be executed.
ExecuteReadDecided(c, k) ==
  /\ status[k] \in {"approved", "rejected"}
  /\ Read(c, k, "find_prior", "executed_simulated")

ExecuteRead(c, k) ==
  /\ status[k] = "approved"
  /\ Read(c, k, "find_prior", "executed_simulated")

\* A prior execution is returned as it is; otherwise the client performs one.
FindPrior(c) ==
  /\ pc[c] = "find_prior"
  /\ \/ executions[intent[c]] > 0 /\ Ends(c) /\ UNCHANGED <<db, effects>>
     \/ executions[intent[c]] = 0 /\ Proceed(c, "perform")

\* execute_external calls the connector inside the transaction, before its
\* commit.  A connector that raises may have acted or not.
CallConnector(c) ==
  /\ pc[c] = "perform"
  /\ effects[intent[c]] < MaxCalls
  /\ pc' = [pc EXCEPT ![c] = "execute"]
  /\ \E result \in {"executed_pending_verification", "execution_failed"}, acted \in BOOLEAN :
       /\ result = "executed_pending_verification" => acted
       /\ writes' = [writes EXCEPT ![c] = result]
       /\ effects' = [effects EXCEPT ![intent[c]] = IF acted THEN @ + 1 ELSE @]
  /\ UNCHANGED <<db, intent, seen>>

\* execute_simulated touches no external system.
Simulate(c) == pc[c] = "perform" /\ Proceed(c, "execute")

OutcomeOf ==
  [executed_simulated |-> "verified_simulation",
   executed_pending_verification |-> "pending",
   execution_failed |-> "none"]

\* The execution, its outcome (none after a failure) and the intent's status
\* are committed together.
ExecuteCommit(c) ==
  /\ pc[c] = "execute"
  /\ UpdateIntent(c)
  /\ executions' = [executions EXCEPT ![intent[c]] = @ + 1]
  /\ outcome' = [outcome EXCEPT ![intent[c]] = OutcomeOf[writes[c]]]
  /\ Ends(c)
  /\ UNCHANGED <<approval, caseStatus, effects>>

\* A recovery strategy is proposed, decided and recorded as executed in one
\* transaction (propose, decide, record_internal_execution).
InternalCommit(c) ==
  LET k == intent[c] IN
  /\ pc[c] = "propose"
  /\ k \in Allowed
  /\ status[k] = "absent"
  /\ status' = [status EXCEPT ![k] = "executed"]
  /\ version' = [version EXCEPT ![k] = @ + 1]
  /\ approval' = [approval EXCEPT ![k] = "approved"]
  /\ executions' = [executions EXCEPT ![k] = @ + 1]
  /\ outcome' = [outcome EXCEPT ![k] = "accepted_pending_outcome"]
  /\ Ends(c)
  /\ UNCHANGED <<caseStatus, effects>>

-----------------------------------------------------------------------------
(* verify_outcome, called by the consumer of scm.planning.completed        *)

VerifyRead(c, k, verdict) ==
  /\ status[k] = "executed_pending_verification"
  /\ Read(c, k, "verify", verdict)

VerifyCommit(c) ==
  LET recovered == writes[c] = "verified" IN
  /\ pc[c] = "verify"
  /\ outcome[intent[c]] # "none"
  /\ UpdateIntent(c)
  /\ outcome' = [outcome EXCEPT ![intent[c]] =
       IF recovered THEN "verified_recovered" ELSE "verification_failed"]
  /\ caseStatus' = [caseStatus EXCEPT ![intent[c]] =
       IF recovered THEN "resolved" ELSE "open"]
  /\ Ends(c)
  /\ UNCHANGED <<approval, executions, effects>>

-----------------------------------------------------------------------------

Start(c) == \E k \in Intents :
  \/ ProposeRead(c, k)
  \/ \E decision \in {"approved", "rejected"} : DecideRead(c, k, decision)
  \/ ExecuteRead(c, k)
  \/ \E verdict \in {"verified", "not_recovered"} : VerifyRead(c, k, verdict)

Continue(c) ==
  \/ FindPending(c)
  \/ FindPrior(c)
  \/ CallConnector(c)
  \/ Simulate(c)

Finish(c) ==
  \/ ProposeCommit(c)
  \/ InternalCommit(c)
  \/ DecideCommit(c)
  \/ ExecuteCommit(c)
  \/ VerifyCommit(c)
  \/ Abort(c)

\* Nothing is left to do for any intent.
Done ==
  /\ \A c \in Clients : pc[c] = "idle"
  /\ \A k \in Intents : status[k] \in Settled
  /\ UNCHANGED vars

Next == (\E c \in Clients : Start(c) \/ Continue(c) \/ Finish(c)) \/ Done

Spec == Init /\ [][Next]_vars

-----------------------------------------------------------------------------

TypeOK ==
  /\ status \in [Intents -> Statuses]
  /\ version \in [Intents -> Nat]
  /\ approval \in [Intents -> {"none", "pending", "approved", "rejected"}]
  /\ executions \in [Intents -> Nat]
  /\ outcome \in [Intents -> {"none", "verified_simulation", "pending",
       "accepted_pending_outcome", "verified_recovered", "verification_failed"}]
  /\ caseStatus \in [Intents -> {"open", "resolved"}]
  /\ effects \in [Intents -> Nat]
  /\ pc \in [Clients -> {"idle", "propose", "load_approval", "decide", "find_prior",
                         "perform", "execute", "verify"}]
  /\ intent \in [Clients -> Intents \union {NoIntent}]
  /\ \A c \in Clients : pc[c] # "idle" => intent[c] \in Intents
  /\ seen \in [Clients -> Nat]
  /\ writes \in [Clients -> Statuses]

\* An intent is executed at most once, however many requests found it
\* approved and found no prior execution at the same time: nothing but the
\* version of the intent stands between them (actions.py:77-85 and :107-114).
AtMostOneExecution == \A k \in Intents : executions[k] <= 1

\* Nothing is executed, and no connector is called, for an intent whose
\* approval is anything but approved, now or later: a decision is never
\* reversed by one that was read earlier (actions.py:52-64, :77, :107).
OnlyApprovedIsExecuted ==
  \A k \in Intents : executions[k] + effects[k] > 0 => approval[k] = "approved"

\* The four rows of an intent never contradict each other, although each
\* transaction reads them one by one: the approval row and the status tell the
\* same decision, and a case is resolved exactly when the intent was verified
\* and its outcome says recovered (actions.py:62-64, 154-162).
RowsAgree ==
  \A k \in Intents :
    /\ status[k] \in {"awaiting_approval", "blocked"} <=> approval[k] = "pending"
    /\ status[k] = "rejected" <=> approval[k] = "rejected"
    /\ caseStatus[k] = "resolved" <=> status[k] = "verified"
    /\ outcome[k] = "verified_recovered" <=> status[k] = "verified"

\* docs/runbooks/customer-pilot-acceptance.md:172: a repeated action has one
\* business effect.
OneBusinessEffect == \A k \in Intents : effects[k] <= 1

\* CORE_ARCHITECTURE_READINESS.md:142: the policy blocks a prohibited action.
BlockedNeverExecuted == \A k \in Intents \ Allowed : executions[k] = 0

-----------------------------------------------------------------------------

StageOfStatus ==
  [absent |-> "absent", awaiting_approval |-> "awaiting", blocked |-> "awaiting",
   approved |-> "approved", rejected |-> "rejected",
   executed |-> "executed", executed_simulated |-> "executed",
   executed_pending_verification |-> "executed", execution_failed |-> "failed",
   verified |-> "recovered", not_recovered |-> "not_recovered"]

Lifecycle == INSTANCE GovernedAction
  WITH stage <- [k \in Intents |-> StageOfStatus[status[k]]]

\* Overlapping requests implement the governed lifecycle of GovernedAction.
ImplementsLifecycle == Lifecycle!Spec

=============================================================================
