----------------------------- MODULE Deviations -----------------------------
(***************************************************************************)
(* Operational deviations: detectors open one per recurrence key, with a   *)
(* task, an action and a recovery case, and move it on when the plant has  *)
(* recovered; people work on it and verify it.  Detectors run in workers   *)
(* and requests at the same time; a row they read must not have changed    *)
(* when they commit, and an index keeps a key from being active twice.     *)
(***************************************************************************)
EXTENDS Integers, Sequences, FiniteSets

CONSTANTS
  Keys,          \* recurrence keys
  KindOf,        \* what each key is about
  Seeded,        \* keys with a deviation that was not detected: no recovery case
  Detectors,     \* runs of detectors that may be under way together
  MaxDeviations, \* bound: deviations
  MaxVersion     \* bound: changes of one deviation

DeviationKinds == {"output", "machine", "material", "downtime", "quality"}

ASSUME DeviationAssumption ==
  /\ KindOf \in [Keys -> DeviationKinds] /\ Seeded \subseteq Keys
  /\ MaxDeviations \in Nat /\ MaxVersion \in Nat

VARIABLES
  deviations,  \* key, status, version; status of action and task; case; values
  detecting    \* what a detector has judged and the deviation it has read

deviationVars == <<deviations, detecting>>

-----------------------------------------------------------------------------
(* What the detectors conclude: "bad", "good" or neither.                  *)

\* The newest stretch of counts that does not fall: a counter that restarted
\* is never joined with its earlier run.
Segment(counts) ==
  LET n == Len(counts)
      starts == {i \in 1..n : \A k \in i..(n - 1) : counts[k] <= counts[k + 1]}
  IN SubSeq(counts, CHOOSE i \in starts : \A k \in starts : i <= k, n)

\* Rates are per interval and in twentieths, like the thresholds.
Rate(counts, standard) ==
  LET s == Segment(counts)
      measured == IF counts = <<>> \/ Len(s) < 2 THEN 20 * standard
                    ELSE (20 * (s[Len(s)] - s[1])) \div (Len(s) - 1)
  IN IF measured > 27 * standard THEN 27 * standard ELSE measured

Smaller(a, b) == IF a < b THEN a ELSE b
Larger(a, b) == IF a > b THEN a ELSE b

Forecast(o) ==
  LET actual == IF o.counts = <<>> THEN 0 ELSE 20 * o.counts[Len(o.counts)]
  IN Smaller(actual + Rate(o.counts, 1) * o.left, Larger(25 * o.target, actual))

\* Five percent behind, now or at the end of the shift.
OutputJudgement(o) ==
  LET actual == IF o.counts = <<>> THEN 0 ELSE o.counts[Len(o.counts)]
  IN IF 20 * (o.planned - actual) >= Larger(o.planned, 1) \/ 20 * o.target - Forecast(o) >= Larger(o.target, 1)
       THEN "bad" ELSE "good"

\* The sample that came in, and the three newest, which it need not be among.
SignalJudgement(s) ==
  LET all(level) == Len(s.recent) = 3 /\ \A i \in 1..3 : s.recent[i] = level
  IN IF s.sample = "alarm" \/ all("hot") THEN "bad" ELSE IF all("cool") THEN "good" ELSE "neither"

ReadinessState(m) ==
  IF ~ m.fresh THEN "UNKNOWN"
  ELSE IF m.usable + m.confirmed >= m.required THEN "READY"
  ELSE IF m.usable + m.confirmed + m.unconfirmed >= m.required THEN "WATCH"
  ELSE IF m.usable + m.confirmed + m.unconfirmed > 0 THEN "AT_RISK" ELSE "BLOCKED"

ReadinessJudgement(m) ==
  IF ReadinessState(m) = "READY" THEN "good" ELSE IF ReadinessState(m) = "WATCH" THEN "neither" ELSE "bad"

DowntimeJudgement(e) == IF e.planned \/ e.minutes < 2 THEN "neither" ELSE "bad"

\* A share of rejects, or a measurement outside the limits it came with.
QualityJudgement(e) ==
  IF e.rejected * 25 >= Larger(e.inspected, 1) \/ e.value < e.lower \/ e.value > e.upper THEN "bad" ELSE "neither"

\* The conclusions the data of a key of each kind can lead to.
Judgements ==
  [kind \in DeviationKinds |->
     CASE kind = "output" -> {OutputJudgement(o) : o \in
            [counts : UNION {[1..n -> 0..2] : n \in 0..3}, planned : 0..2, left : 0..1, target : {2}]}
       [] kind = "machine" -> {SignalJudgement(s) : s \in
            [sample : {"hot", "cool", "alarm"}, recent : UNION {[1..n -> {"hot", "cool"}] : n \in 1..3}]}
       [] kind = "material" -> {ReadinessJudgement(m) : m \in
            [usable : 0..2, confirmed : 0..1, unconfirmed : 0..1, required : {2}, fresh : BOOLEAN]}
       [] kind = "downtime" -> {DowntimeJudgement(e) : e \in [planned : BOOLEAN, minutes : 0..2]}
       [] kind = "quality" -> {QualityJudgement(e) : e \in
            [inspected : {50}, rejected : 0..2, value : 0..2, lower : {0}, upper : {1}]}]

-----------------------------------------------------------------------------
Active == {"detected", "contextualized", "assigned", "investigating", "action_required",
           "action_in_progress", "monitoring", "resolved"}

\* A deviation as it is opened, with its work and its recovery case.
Opened(key, case) ==
  [key |-> key, status |-> "detected", version |-> 0, action |-> "open", task |-> "open",
   blocked |-> FALSE, case |-> case, recovered |-> 0]

Idle == [key |-> "none"]

DeviationInit ==
  /\ \E keys \in {s \in SUBSET Seeded : Cardinality(s) <= 1} :
       deviations = IF keys = {} THEN <<>> ELSE <<Opened(CHOOSE k \in keys : TRUE, "none")>>
  /\ detecting = [d \in Detectors |-> Idle]

ActiveOf(rows, key) == {i \in DOMAIN rows : rows[i].key = key /\ rows[i].status \in Active}

\* Two active rows of one key cannot be committed.
IndexHolds(rows) == \A key \in Keys : Cardinality(ActiveOf(rows, key)) <= 1

\* Changes of rows; each takes a new version.
Change(rows, changed(_)) ==
  /\ \A i \in rows : deviations[i].version < MaxVersion
  /\ deviations' = [i \in DOMAIN deviations |->
       IF i \in rows THEN [changed(deviations[i]) EXCEPT !.version = @ + 1] ELSE deviations[i]]
  /\ IndexHolds(deviations')

Finished == {"completed", "cancelled"}

\* Work that the plant has made unnecessary is completed; its task is not.
ActionsDone(r) == IF r.action \in Finished THEN r ELSE [r EXCEPT !.action = "completed"]

-----------------------------------------------------------------------------
(* A detector: it reads the active deviation of its key, then writes.      *)

Detect(d, key, judged, sync) ==
  /\ detecting[d] = Idle
  /\ judged \in Judgements[KindOf[key]]
  /\ LET found == ActiveOf(deviations, key)
         row == IF found = {} THEN 0 ELSE CHOOSE i \in found : TRUE
     IN detecting' = [detecting EXCEPT ![d] =
          [key |-> key, judged |-> judged, sync |-> sync, row |-> row,
           version |-> IF row = 0 THEN 0 ELSE deviations[row].version]]
  /\ UNCHANGED deviations

\* What is read as "good" is over: verified at once for output, to be
\* monitored for a machine or a material.
Recover(kind, r) ==
  CASE kind = "output" -> [ActionsDone(r) EXCEPT !.status = "verified"]
    [] kind = "machine" -> [ActionsDone(r) EXCEPT !.status = "monitoring"]
    [] kind = "material" -> [r EXCEPT !.status = "monitoring"]
    [] OTHER -> r

\* Mutant: the synchronisation verifies what it finds monitored.
UnmanagedAlways(r) == TRUE

Unmanaged(r) == r.case = "none"

\* A count that a synchronisation brings verifies what is monitored and has
\* no recovery case.
Resumed(rows) ==
  [i \in DOMAIN rows |->
     IF rows[i].status = "monitoring" /\ Unmanaged(rows[i])
       THEN [rows[i] EXCEPT !.status = "verified", !.version = @ + 1] ELSE rows[i]]

\* The rows after a detector has written: a deviation that is active stays as
\* it is when the trouble is found again.
RowsAfter(t) ==
  IF t.judged = "bad" /\ t.row = 0 THEN Append(deviations, Opened(t.key, "open"))
  ELSE IF t.judged = "good" /\ t.row # 0
    THEN LET recovered == Recover(KindOf[t.key], deviations[t.row])
         IN [deviations EXCEPT ![t.row] = [recovered EXCEPT !.version = @ + 1]]
  ELSE IF t.judged = "bad" THEN [deviations EXCEPT ![t.row].version = @ + 1]
  ELSE deviations

CommitDetection(d) ==
  LET t == detecting[d]
      rows == IF t.sync THEN Resumed(RowsAfter(t)) ELSE RowsAfter(t)
  IN /\ t # Idle
     /\ t.row # 0 => deviations[t.row].version = t.version /\ t.version < MaxVersion
     /\ Len(rows) <= MaxDeviations
     /\ \A i \in DOMAIN rows : rows[i].version <= MaxVersion
     /\ IndexHolds(rows)
     /\ deviations' = rows
     /\ detecting' = [detecting EXCEPT ![d] = Idle]

\* The row has changed, or the key is active already: all of it is undone.
AbortDetection(d) ==
  /\ detecting[d] # Idle
  /\ detecting' = [detecting EXCEPT ![d] = Idle]
  /\ UNCHANGED deviations

\* A fault of the asset is cleared: its downtime is to be monitored.
AssetRecovered ==
  LET rows == {i \in DOMAIN deviations :
                 deviations[i].status \in Active /\ KindOf[deviations[i].key] \in {"machine", "downtime"}}
  IN /\ rows # {}
     /\ Change(rows, LAMBDA r : [ActionsDone(r) EXCEPT !.status = "monitoring"])
     /\ UNCHANGED detecting

\* The maintenance system reports that work waits for a spare, or is done.
SpareAwaited(i) ==
  /\ deviations[i].status \in Active
  /\ Change({i}, LAMBDA r : [r EXCEPT !.action = "waiting", !.blocked = TRUE])
  /\ UNCHANGED detecting

RepairReported(i) ==
  /\ deviations[i].status \in Active
  /\ Change({i}, LAMBDA r : [r EXCEPT !.action = "completed", !.task = "completed",
                                      !.blocked = FALSE, !.status = "monitoring"])
  /\ UNCHANGED detecting

-----------------------------------------------------------------------------
(* People.                                                                 *)

\* Whatever the status is.
Assign(i) == Change({i}, LAMBDA r : [r EXCEPT !.status = "assigned"]) /\ UNCHANGED detecting

Acknowledge(i) ==
  /\ deviations[i].status \in {"detected", "contextualized", "assigned"}
  /\ Change({i}, LAMBDA r : [r EXCEPT !.status = "investigating"])
  /\ UNCHANGED detecting

ResolveDeviation(i) ==
  /\ deviations[i].status \in {"action_in_progress", "monitoring", "action_required", "investigating"}
  /\ Change({i}, LAMBDA r : [r EXCEPT !.status = "resolved"])
  /\ UNCHANGED detecting

\* A value that was recovered may be claimed with it.
VerifyDeviation(i, claimed) ==
  /\ deviations[i].case \in {"none", "verified"}
  /\ deviations[i].status \in {"monitoring", "resolved"}
  /\ Change({i}, LAMBDA r : [r EXCEPT !.status = "verified", !.recovered = @ + claimed])
  /\ UNCHANGED detecting

Transitions(command) ==
  CASE command = "accept" -> [open |-> "accepted"]
    [] command = "start" -> [open |-> "in_progress", accepted |-> "in_progress", waiting |-> "in_progress"]
    [] command = "wait" -> [in_progress |-> "waiting"]
    [] command \in {"complete", "fail"} ->
         [s \in {"in_progress", "waiting"} |-> IF command = "complete" THEN "completed" ELSE "failed"]

\* The status the deviation takes with its action, whatever it was.
StatusWith(action, status) ==
  CASE action = "accepted" -> "assigned" [] action = "in_progress" -> "action_in_progress"
    [] action = "waiting" -> "action_required" [] action = "completed" -> "monitoring" [] OTHER -> status

TransitionAction(i, command) ==
  LET r == deviations[i]
  IN /\ command \in {"accept", "start"} => ~ r.blocked
     /\ r.action \in DOMAIN Transitions(command)
     /\ LET target == Transitions(command)[r.action]
        IN Change({i}, LAMBDA row : [row EXCEPT !.action = target, !.task = target,
                                                !.status = StatusWith(target, @)])
     /\ UNCHANGED detecting

\* Maintenance work on the deviation is completed.
CompleteMaintenance(i) ==
  /\ deviations[i].status # "verified"
  /\ Change({i}, LAMBDA r : [r EXCEPT !.status = "monitoring"])
  /\ UNCHANGED detecting

\* The recovery case ends: verified from observed state, or given up.
SettleCase(i, verified) ==
  /\ deviations[i].case = "open"
  /\ Change({i}, LAMBDA r : IF verified THEN [r EXCEPT !.case = "verified", !.status = "verified"]
                              ELSE [r EXCEPT !.case = "abandoned"])
  /\ UNCHANGED detecting

DeviationNext ==
  \/ \E d \in Detectors, key \in Keys, judged \in {"bad", "good", "neither"}, sync \in BOOLEAN :
       (sync => KindOf[key] = "output") /\ Detect(d, key, judged, sync)
  \/ \E d \in Detectors : CommitDetection(d) \/ AbortDetection(d)
  \/ AssetRecovered
  \/ \E i \in DOMAIN deviations :
       \/ SpareAwaited(i) \/ RepairReported(i) \/ CompleteMaintenance(i)
       \/ Assign(i) \/ Acknowledge(i) \/ ResolveDeviation(i)
       \/ \E claimed \in 0..1 : VerifyDeviation(i, claimed)
       \/ \E command \in {"accept", "start", "wait", "complete", "fail"} : TransitionAction(i, command)
       \/ \E verified \in BOOLEAN : SettleCase(i, verified)

DeviationSpec == DeviationInit /\ [][DeviationNext]_deviationVars

-----------------------------------------------------------------------------
Verified(i) == deviations[i].status # "verified" /\ deviations'[i].status = "verified"

\* A constraint with a recovery case is verified by its case only: by no
\* synchronisation, no detector and nobody before the case is.
VerifiedByItsCase ==
  [][\A i \in DOMAIN deviations :
       KindOf[deviations[i].key] # "output" /\ Verified(i) => deviations'[i].case \in {"none", "verified"}]_deviationVars

\* The same of output, which the code does not keep.
OutputVerifiedByItsCase ==
  [][\A i \in DOMAIN deviations : Verified(i) => deviations'[i].case \in {"none", "verified"}]_deviationVars

\* What has been verified stays so: a later assignment or action reopens it.
VerifiedStaysVerified ==
  [][\A i \in DOMAIN deviations : deviations[i].status = "verified" => deviations'[i].status = "verified"]_deviationVars

\* The task ends with the action: it does not when the plant completes it.
TaskEndsWithItsAction ==
  \A i \in DOMAIN deviations : deviations[i].action = "completed" => deviations[i].task = "completed"
=============================================================================
