----------------------------- MODULE WorkItems ------------------------------
(***************************************************************************)
(* Tasks of employees, the delegations they come with, the commitments     *)
(* made on them, and the follow-ups that raise what is late.  A task is    *)
(* moved by its own routes, by the routes of the workbench, by a response  *)
(* to its delegation and by the procurement workflow; who may take a step  *)
(* is not told apart, for every role is held by somebody.                  *)
(***************************************************************************)
EXTENDS Integers, Sequences, FiniteSets

CONSTANTS
  SemanticKeys,    \* what create_task recognises a task by
  MaxTasks,        \* bound: tasks
  MaxDelegations,  \* bound: delegations
  MaxCommitments,  \* bound: commitments
  SweepLimit       \* rows that one follow-up looks at

ASSUME WorkItemsAssumption ==
  {MaxTasks, MaxDelegations, MaxCommitments, SweepLimit} \subseteq Nat

VARIABLES
  tasks,        \* in the order of their creation
  delegations,  \* each of a task, or of none (0)
  commitments,  \* each of a task
  missedEvents  \* commitments whose miss has been published

workVars == <<tasks, delegations, commitments, missedEvents>>

-----------------------------------------------------------------------------
ActiveTaskStates == {"open", "accepted", "in_progress", "blocked", "review", "pending_approval"}

Transitions ==
  [open |-> {"accepted", "in_progress", "cancelled"},
   accepted |-> {"in_progress", "blocked", "cancelled"},
   in_progress |-> {"blocked", "review", "completed", "cancelled"},
   blocked |-> {"in_progress", "cancelled"},
   review |-> {"in_progress", "completed", "cancelled"}]

NoKey == "none"

WorkInit ==
  /\ tasks = <<>>
  /\ delegations = <<>>
  /\ commitments = <<>>
  /\ missedEvents = {}

Active(t) == tasks[t].status \in ActiveTaskStates

\* The database refuses a second active task with the same key.
Unique(t) ==
  tasks[t].key = NoKey
    \/ ~ \E u \in DOMAIN tasks \ {t} : tasks[u].key = tasks[t].key /\ Active(u)

\* A write of the row: its notices about a blocker are for one version only.
SetTask(t, status, reason) ==
  tasks' = [tasks EXCEPT ![t].status = status, ![t].reason = reason,
                         ![t].told = @ \ {"blocker_owner"}]

NewTask(key, status) ==
  [key |-> key, status |-> status, due |-> "later", reason |-> FALSE, told |-> {}]

\* An active task with the same key is returned instead.
CreateTask(key) ==
  /\ Len(tasks) < MaxTasks
  /\ key # NoKey => ~ \E t \in DOMAIN tasks : tasks[t].key = key /\ Active(t)
  /\ tasks' = Append(tasks, NewTask(key, "open"))
  /\ UNCHANGED <<delegations, commitments, missedEvents>>

NewDelegation(t) == [task |-> t, status |-> "pending"]

\* The objective of a plant manager: its task has no key.
CreateObjective ==
  /\ Len(tasks) < MaxTasks /\ Len(delegations) < MaxDelegations
  /\ tasks' = Append(tasks, NewTask(NoKey, "open"))
  /\ delegations' = Append(delegations, NewDelegation(Len(tasks')))
  /\ UNCHANGED <<commitments, missedEvents>>

CreateDelegation(t) ==
  /\ Len(delegations) < MaxDelegations
  /\ delegations' = Append(delegations, NewDelegation(t))
  /\ UNCHANGED <<tasks, commitments, missedEvents>>

\* transition_task, the only route that looks at the lifecycle.
TransitionTask(t, to) ==
  /\ tasks[t].status \in DOMAIN Transitions /\ to \in Transitions[tasks[t].status]
  /\ SetTask(t, to, IF to = "blocked" THEN TRUE
                    ELSE IF to = "in_progress" THEN FALSE ELSE tasks[t].reason)
  /\ UNCHANGED <<delegations, commitments, missedEvents>>

AcceptTask(t) ==
  /\ Unique(t)
  /\ SetTask(t, "accepted", tasks[t].reason)
  /\ UNCHANGED <<delegations, commitments, missedEvents>>

SetBlocker(t, resolved) ==
  /\ Unique(t)
  /\ IF resolved THEN SetTask(t, "in_progress", FALSE) ELSE SetTask(t, "blocked", TRUE)
  /\ UNCHANGED <<delegations, commitments, missedEvents>>

\* The workflow completes what it has not seen anybody start.
CompleteForEntity(t) ==
  /\ tasks[t].status \in {"open", "pending_approval"}
  /\ SetTask(t, "completed", tasks[t].reason)
  /\ UNCHANGED <<delegations, commitments, missedEvents>>

\* It raises the escalation level, which nothing reads.
RequestUpdate(t) ==
  /\ Active(t)
  /\ SetTask(t, tasks[t].status, tasks[t].reason)
  /\ UNCHANGED <<delegations, commitments, missedEvents>>

-----------------------------------------------------------------------------
(* Commitments: "due" tells whether the promised time is ahead, has passed *)
(* with the task done ("kept"), or has passed without ("broken").          *)

ActiveOf(t) == {c \in DOMAIN commitments : commitments[c].task = t /\ commitments[c].status = "active"}

Latest(cs) == CHOOSE c \in cs : \A d \in cs : commitments[d].revision <= commitments[c].revision

Promise(t, revision, evaluated) ==
  [task |-> t, status |-> "active", due |-> "ahead", revision |-> revision, evaluated |-> evaluated]

CreateCommitment(t) ==
  /\ Len(commitments) < MaxCommitments
  /\ commitments' = Append(commitments, Promise(t, 1, FALSE))
  /\ UNCHANGED <<tasks, delegations, missedEvents>>

Revise(c, evaluated) ==
  Append([commitments EXCEPT ![c].status = "revised"],
         Promise(commitments[c].task, commitments[c].revision + 1, evaluated))

\* Of any commitment, whatever has become of it.
ReviseCommitment(c) ==
  LET t == commitments[c].task
  IN /\ Len(commitments) < MaxCommitments
     /\ commitments' = Revise(c, FALSE)
     /\ SetTask(t, tasks[t].status, tasks[t].reason)
     /\ UNCHANGED <<delegations, missedEvents>>

\* A promise about a case, with a task of its own, is evaluated when due.
CreateCaseCommitment ==
  /\ Len(commitments) < MaxCommitments /\ Len(tasks) < MaxTasks
  /\ tasks' = Append(tasks, NewTask(NoKey, "open"))
  /\ commitments' = Append(commitments, Promise(Len(tasks'), 1, TRUE))
  /\ UNCHANGED <<delegations, missedEvents>>

\* The recipient may answer again, whatever the delegation and the task say.
RespondToDelegation(d, status, promises) ==
  LET t == delegations[d].task
      live == ActiveOf(t)
  IN /\ delegations' = [delegations EXCEPT ![d].status = status]
     /\ IF t # 0 /\ status = "completed"
          THEN SetTask(t, "completed", tasks[t].reason)
          ELSE UNCHANGED tasks
     /\ IF t # 0 /\ promises
          THEN /\ Len(commitments) < MaxCommitments
               /\ commitments' = IF live = {} THEN Append(commitments, Promise(t, 1, FALSE))
                                 ELSE Revise(Latest(live), FALSE)
          ELSE UNCHANGED commitments
     /\ UNCHANGED missedEvents

-----------------------------------------------------------------------------
(* Time and the scheduled follow-ups.                                      *)

DueSoon(t) ==
  /\ tasks[t].due = "later"
  /\ tasks' = [tasks EXCEPT ![t].due = "soon"]
  /\ UNCHANGED <<delegations, commitments, missedEvents>>

Overdue(t) ==
  /\ tasks[t].due = "soon"
  /\ tasks' = [tasks EXCEPT ![t].due = "overdue"]
  /\ UNCHANGED <<delegations, commitments, missedEvents>>

PromisePasses(c) ==
  /\ commitments[c].due = "ahead"
  /\ commitments' = [commitments EXCEPT ![c].due =
       IF tasks[commitments[c].task].status = "completed" THEN "kept" ELSE "broken"]
  /\ UNCHANGED <<tasks, delegations, missedEvents>>

Past(c) ==
  /\ c \in DOMAIN commitments
  /\ commitments[c].status = "active" /\ commitments[c].due # "ahead"

Batch(rows) ==
  {b \in SUBSET rows : Cardinality(b) = IF Cardinality(rows) > SweepLimit THEN SweepLimit
                                        ELSE Cardinality(rows)}

\* Mutant: a task that has been announced as due soon is not raised again.
NoticeOnce(t) ==
  IF tasks[t].status = "blocked" /\ tasks[t].reason THEN {"blocker_owner"}
  ELSE IF tasks[t].told \cap {"task_due_soon", "task_overdue"} # {} THEN {}
  ELSE IF tasks[t].due = "overdue" THEN {"task_overdue"} ELSE {"task_due_soon"}

\* A blocked task is a matter of the owner of the blocker.
Notice(t) ==
  IF tasks[t].status = "blocked" /\ tasks[t].reason THEN {"blocker_owner"}
  ELSE IF tasks[t].due = "overdue" THEN {"task_overdue"} ELSE {"task_due_soon"}

\* A notice to the owner writes the next follow-up to the task as well.
Announced(t) ==
  IF Notice(t) \subseteq tasks[t].told THEN tasks[t]
  ELSE IF Notice(t) = {"blocker_owner"} THEN [tasks[t] EXCEPT !.told = @ \union Notice(t)]
  ELSE [tasks[t] EXCEPT !.told = (@ \ {"blocker_owner"}) \union Notice(t)]

\* run_internal_followups: promises on every day, tasks on working days.
FollowUp(weekend) ==
  \E missed \in Batch({c \in DOMAIN commitments : Past(c)}),
     late \in Batch({t \in DOMAIN tasks : Active(t) /\ tasks[t].due # "later"}) :
    /\ commitments' = [c \in DOMAIN commitments |->
         IF c \in missed THEN [commitments[c] EXCEPT !.status = "missed"] ELSE commitments[c]]
    /\ missedEvents' = missedEvents \union missed
    /\ tasks' = IF weekend THEN tasks
                ELSE [t \in DOMAIN tasks |-> IF t \in late THEN Announced(t) ELSE tasks[t]]
    /\ UNCHANGED delegations

\* evaluate_operational_commitments asks the task whether it was done.
EvaluateCommitments ==
  \E due \in Batch({c \in DOMAIN commitments : Past(c) /\ commitments[c].evaluated}) :
    /\ due # {}
    /\ commitments' = [c \in DOMAIN commitments |->
         IF c \notin due THEN commitments[c]
         ELSE [commitments[c] EXCEPT !.evaluated = FALSE,
                 !.status = IF tasks[commitments[c].task].status = "completed"
                            THEN "completed" ELSE "overdue"]]
    /\ UNCHANGED <<tasks, delegations, missedEvents>>

-----------------------------------------------------------------------------
\* What is accepted, in progress, escalated or unclear is the same for the task.
Responses == {"accepted", "completed", "declined"}

WorkNext ==
  \/ \E k \in SemanticKeys : CreateTask(k)
  \/ CreateObjective \/ CreateCaseCommitment
  \/ \E t \in DOMAIN tasks \union {0} : CreateDelegation(t)
  \/ \E t \in DOMAIN tasks :
       \/ \E to \in {"accepted", "in_progress", "blocked", "review", "completed", "cancelled"} :
            TransitionTask(t, to)
       \/ AcceptTask(t) \/ CompleteForEntity(t) \/ RequestUpdate(t)
       \/ \E r \in BOOLEAN : SetBlocker(t, r)
       \/ CreateCommitment(t) \/ DueSoon(t) \/ Overdue(t)
  \/ \E c \in DOMAIN commitments : ReviseCommitment(c) \/ PromisePasses(c)
  \/ \E d \in DOMAIN delegations, s \in Responses, p \in BOOLEAN : RespondToDelegation(d, s, p)
  \/ \E w \in BOOLEAN : FollowUp(w)
  \/ EvaluateCommitments

\* The scheduler runs the follow-ups every five minutes, the week has working days.
WorkFairness == WF_workVars(FollowUp(FALSE))

WorkSpec == WorkInit /\ [][WorkNext]_workVars /\ WorkFairness

-----------------------------------------------------------------------------
Unraised(t) ==
  /\ t \in DOMAIN tasks
  /\ tasks[t].due = "overdue" /\ Active(t) /\ tasks[t].status # "blocked"
  /\ "task_overdue" \notin tasks[t].told

(* run_internal_followups: a task that stays overdue is raised with its    *)
(* owner though it was announced as due soon before, and a promise whose   *)
(* time has passed does not stay active, however often tasks are blocked,  *)
(* moved and revised meanwhile.                                            *)
EveryDelayIsRaised ==
  /\ \A t \in 1..MaxTasks : Unraised(t) ~> ~ Unraised(t)
  /\ \A c \in 1..MaxCommitments : Past(c) ~> ~ Past(c)

\* A task that is completed or cancelled stays it, as the lifecycle of
\* runtime-guide.md has it.
FinishedIsFinal ==
  [][\A t \in DOMAIN tasks : tasks[t].status \in {"completed", "cancelled"} =>
       tasks'[t].status = tasks[t].status]_workVars

\* Two schedules look at the promise of a case, and one of them not at its task.
KeptIsNotMissed ==
  \A c \in DOMAIN commitments : commitments[c].due = "kept" => commitments[c].status # "missed"

=============================================================================
