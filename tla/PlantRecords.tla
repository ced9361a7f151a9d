---------------------------- MODULE PlantRecords ----------------------------
(***************************************************************************)
(* The records people of a plant keep: quality cases and their corrective  *)
(* actions, practices taken over from other plants, the plant's setup,     *)
(* maintenance work, and the handover of a shift.  Whoever saves a record  *)
(* works from a screen that may be old; most requests carry the version    *)
(* on the screen, some carry none.                                         *)
(***************************************************************************)
EXTENDS Integers, Sequences, FiniteSets

CONSTANTS
  People,       \* people at their screens
  Assets,       \* assets maintenance works on
  MaxCases,     \* bound: quality cases
  MaxWork,      \* bound: maintenance work records
  MaxRecordEdits      \* bound: versions of a record

ASSUME RecordsAssumption == MaxCases \in Nat /\ MaxWork \in Nat /\ MaxRecordEdits \in Nat

VARIABLES
  cases,      \* quality cases
  transfer,   \* a practice offered by another plant
  setup,      \* detector rule, profile, codes of areas and lines
  screens,    \* the record each person has opened
  handover,   \* the handover of the shift
  audits,     \* identifiers of the handover's audit entries
  work,       \* maintenance work records
  faults,     \* assets with a fault that is not cleared
  stops,      \* assets with a downtime that has not ended
  trouble     \* status of the deviation work may be about

qualityVars == <<cases, transfer, setup>>
handoverVars == <<handover, audits>>
maintenanceVars == <<work, faults, stops, trouble>>
recordVars == <<qualityVars, screens, handoverVars, maintenanceVars>>

Closed == [what |-> <<"nothing">>]

-----------------------------------------------------------------------------
\* The analysis a case holds: nothing, its cause and action, or its criteria too.
Analyses == {"none", "part", "whole"}

RecordsInit ==
  /\ cases = <<>>
  /\ transfer = [status |-> "proposed", version |-> 1, outcome |-> "none"]
  /\ setup = [rule |-> [version |-> 1, content |-> 0], profile |-> [content |-> 0, basis |-> 0],
              areas |-> <<>>, lines |-> <<>>]
  /\ screens = [p \in People |-> Closed]
  /\ handover = [status |-> "none", version |-> 0, content |-> 0, verified |-> 0, read |-> 0]
  /\ audits = {}
  /\ work = <<>> /\ faults = Assets /\ stops = Assets /\ trouble = "detected"

\* A person opens a record, as it is now.
Open(p, what, row) ==
  /\ screens' = [screens EXCEPT ![p] = [what |-> what, row |-> row]]
  /\ UNCHANGED <<qualityVars, handoverVars, maintenanceVars>>

ShowsRecord(p, what) == screens[p].what = what

\* Mutant: the version the person works from is not compared.
CurrentAlways(p, row) == TRUE

\* The version the person works from is the one in force.
Current(p, row) == screens[p].row.version = row.version

-----------------------------------------------------------------------------
(* Quality cases.                                                          *)

NewCase(type, parent) ==
  [type |-> type, parent |-> parent, status |-> "open", version |-> 1, analysis |-> "none", edit |-> 0, read |-> 0]

\* A corrective action belongs to a non-conformance.
CreateCase(type, parent) ==
  /\ Len(cases) < MaxCases
  /\ type = "capa" => parent # 0
  /\ parent # 0 => cases[parent].type = "ncr"
  /\ cases' = Append(cases, NewCase(type, parent))
  /\ UNCHANGED <<transfer, setup, screens, handoverVars, maintenanceVars>>

CaseStages ==
  [open |-> {"open", "investigating"}, investigating |-> {"investigating", "action_in_progress"},
   action_in_progress |-> {"action_in_progress", "effectiveness_review"},
   effectiveness_review |-> {"effectiveness_review"}]

\* A save that changes nothing leaves the version; an edit stands for any text.
UpdateCase(p, i, status, analysis, edited) ==
  LET c == cases[i]
      changes == [c EXCEPT !.status = status, !.analysis = analysis, !.edit = IF edited THEN @ + 1 ELSE @]
  IN /\ ShowsRecord(p, <<"case", i>>) /\ Current(p, c)
     /\ c.status \notin {"verified", "closed"}
     /\ status \in CaseStages[c.status]
     /\ changes # c => c.version < MaxRecordEdits
     /\ cases' = [cases EXCEPT ![i] =
          IF changes = c THEN c ELSE [changes EXCEPT !.version = @ + 1]]
     /\ UNCHANGED <<transfer, setup, screens, handoverVars, maintenanceVars>>

VerifyCase(p, i) ==
  LET c == cases[i]
  IN /\ ShowsRecord(p, <<"case", i>>) /\ Current(p, c)
     /\ c.status = "effectiveness_review" /\ c.analysis = "whole"
     /\ cases' = [cases EXCEPT ![i].status = "verified", ![i].version = @ + 1,
                               ![i].read = screens[p].row.edit]
     /\ UNCHANGED <<transfer, setup, screens, handoverVars, maintenanceVars>>

CloseCase(p, i) ==
  /\ ShowsRecord(p, <<"case", i>>) /\ Current(p, cases[i])
  /\ cases[i].status = "verified"
  /\ cases' = [cases EXCEPT ![i].status = "closed", ![i].version = @ + 1]
  /\ UNCHANGED <<transfer, setup, screens, handoverVars, maintenanceVars>>

-----------------------------------------------------------------------------
(* A practice of another plant, and the plant's setup.                     *)

TransferStages ==
  [proposed |-> {"accepted", "rejected"}, accepted |-> {"piloting", "rejected"},
   piloting |-> {"completed", "rejected"}, completed |-> {}, rejected |-> {}]

\* It is completed with a measured outcome; every request sets the outcome.
TransitionTransfer(p, status, outcome) ==
  /\ ShowsRecord(p, <<"transfer">>) /\ Current(p, transfer)
  /\ status \in TransferStages[transfer.status]
  /\ status = "completed" => outcome = "measured"
  /\ transfer' = [status |-> status, version |-> transfer.version + 1, outcome |-> outcome]
  /\ UNCHANGED <<cases, setup, screens, handoverVars, maintenanceVars>>

SaveRule(p, content) ==
  /\ ShowsRecord(p, <<"setup">>)
  /\ screens[p].row.rule.version = setup.rule.version
  /\ setup.rule.version < MaxRecordEdits
  /\ setup' = [setup EXCEPT !.rule =
       IF content = @.content THEN @ ELSE [version |-> @.version + 1, content |-> content]]
  /\ UNCHANGED <<cases, transfer, screens, handoverVars, maintenanceVars>>

\* No version is compared: "basis" is what the person saw.
SaveProfile(p, content) ==
  /\ ShowsRecord(p, <<"setup">>)
  /\ setup' = [setup EXCEPT !.profile = [content |-> content, basis |-> screens[p].row.profile.content]]
  /\ UNCHANGED <<cases, transfer, screens, handoverVars, maintenanceVars>>

Codes == {"c1", "c2"}

Taken(rows, code) == {i \in DOMAIN rows : rows[i].code = code}

\* Area 0 is a new one, and so is line 0; no two have one code.
SaveArea(i, code) ==
  /\ Taken(setup.areas, code) \subseteq {i}
  /\ IF i = 0 THEN /\ Len(setup.areas) < 2
                   /\ setup' = [setup EXCEPT !.areas = Append(@, [code |-> code])]
              ELSE setup' = [setup EXCEPT !.areas[i].code = code]
  /\ UNCHANGED <<cases, transfer, screens, handoverVars, maintenanceVars>>

SaveLine(i, code, area) ==
  /\ Taken(setup.lines, code) \subseteq {i}
  /\ IF i = 0 THEN /\ Len(setup.lines) < 2
                   /\ setup' = [setup EXCEPT !.lines = Append(@, [code |-> code, area |-> area])]
              ELSE setup' = [setup EXCEPT !.lines[i] = [code |-> code, area |-> area]]
  /\ UNCHANGED <<cases, transfer, screens, handoverVars, maintenanceVars>>

-----------------------------------------------------------------------------
(* The handover of the shift.                                              *)

\* Drawn up anew, whatever it was, from the state of the plant.
Generated == [status |-> "draft", version |-> handover.version + 1, content |-> handover.content + 1,
              verified |-> 0, read |-> 0]

GenerateHandover ==
  /\ handover.status # "published" /\ handover.version < MaxRecordEdits
  /\ handover' = Generated
  /\ audits' = audits \cup {<<"generated", handover'.version>>}
  /\ UNCHANGED <<qualityVars, screens, maintenanceVars>>

\* The job asks for no status.
GenerateByJob ==
  /\ handover.version < MaxRecordEdits
  /\ handover' = Generated
  /\ UNCHANGED <<qualityVars, screens, audits, maintenanceVars>>

\* An audit entry is named after what was done and the version before it.
Audited(action) ==
  /\ <<action, handover.version>> \notin audits
  /\ audits' = audits \cup {<<action, handover.version>>}

UpdateHandover(edited) ==
  /\ handover.status = "draft" /\ Audited("edited")
  /\ edited => handover.version < MaxRecordEdits
  /\ handover' = IF edited THEN [handover EXCEPT !.content = @ + 1, !.version = @ + 1] ELSE handover
  /\ UNCHANGED <<qualityVars, screens, maintenanceVars>>

\* No version is compared; "read" is the content on the screen.
VerifyHandover(p) ==
  /\ ShowsRecord(p, <<"handover">>)
  /\ handover.status = "draft" /\ handover.version < MaxRecordEdits /\ Audited("verified")
  /\ handover' = [handover EXCEPT !.status = "verified", !.verified = handover.content,
                                  !.read = screens[p].row.content, !.version = @ + 1]
  /\ UNCHANGED <<qualityVars, screens, maintenanceVars>>

PublishHandover ==
  /\ handover.status = "verified" /\ handover.version < MaxRecordEdits /\ Audited("published")
  /\ handover' = [handover EXCEPT !.status = "published", !.version = @ + 1]
  /\ UNCHANGED <<qualityVars, screens, maintenanceVars>>

-----------------------------------------------------------------------------
(* Maintenance work.                                                       *)

CreateWork(asset, fault, about) ==
  /\ Len(work) < MaxWork
  /\ work' = Append(work, [asset |-> asset, fault |-> fault, about |-> about, status |-> "open", version |-> 1])
  /\ UNCHANGED <<qualityVars, screens, handoverVars, faults, stops, trouble>>

WorkStages(command) ==
  CASE command = "start" -> {"open", "waiting"} [] command = "wait" -> {"open", "in_progress"}
    [] command = "complete" -> {"in_progress"}

StatusReviewed(command) ==
  CASE command = "start" -> "in_progress" [] command = "wait" -> "waiting" [] command = "complete" -> "completed"

\* Completion clears the fault the work is about and ends every downtime of
\* the asset; the deviation is to be monitored unless it is over.
TransitionWork(p, i, command) ==
  LET w == work[i]
      done == command = "complete"
  IN /\ ShowsRecord(p, <<"work", i>>) /\ Current(p, w)
     /\ w.status \in WorkStages(command) /\ w.version < MaxRecordEdits
     /\ work' = [work EXCEPT ![i].status = StatusReviewed(command), ![i].version = @ + 1]
     /\ faults' = IF done /\ w.fault THEN faults \ {w.asset} ELSE faults
     /\ stops' = IF done THEN stops \ {w.asset} ELSE stops
     /\ trouble' = IF done /\ w.about /\ trouble \notin {"verified", "closed"} THEN "monitoring" ELSE trouble
     /\ UNCHANGED <<qualityVars, screens, handoverVars>>

\* The plant: an asset stops, and somebody verifies the deviation.
Stop(asset) ==
  /\ stops' = stops \cup {asset}
  /\ UNCHANGED <<qualityVars, screens, handoverVars, work, faults, trouble>>

VerifyTrouble ==
  /\ trouble = "monitoring" /\ trouble' = "verified"
  /\ UNCHANGED <<qualityVars, screens, handoverVars, work, faults, stops>>

-----------------------------------------------------------------------------
QualityNext ==
  \/ \E p \in People : \E i \in DOMAIN cases : Open(p, <<"case", i>>, cases[i])
  \/ \E type \in {"ncr", "capa"}, parent \in 0..Len(cases) : CreateCase(type, parent)
  \/ \E p \in People, i \in DOMAIN cases :
       \/ \E status \in DOMAIN CaseStages, analysis \in Analyses, edited \in BOOLEAN :
            UpdateCase(p, i, status, analysis, edited)
       \/ VerifyCase(p, i) \/ CloseCase(p, i)

SetupNext ==
  \/ \E p \in People : Open(p, <<"setup">>, [rule |-> setup.rule, profile |-> setup.profile])
  \/ \E p \in People, content \in 0..1 : SaveRule(p, content) \/ SaveProfile(p, content)

PlantNext ==
  \/ \E p \in People : Open(p, <<"transfer">>, transfer)
  \/ \E p \in People, status \in DOMAIN TransferStages, outcome \in {"none", "measured"} :
       TransitionTransfer(p, status, outcome)
  \/ \E code \in Codes : \E i \in 0..Len(setup.areas) : SaveArea(i, code)
  \/ \E code \in Codes, area \in DOMAIN setup.areas : \E i \in 0..Len(setup.lines) : SaveLine(i, code, area)

HandoverNext ==
  \/ \E p \in People : handover.status # "none" /\ Open(p, <<"handover">>, handover)
  \/ GenerateHandover \/ GenerateByJob
  \/ \E edited \in BOOLEAN : UpdateHandover(edited)
  \/ \E p \in People : VerifyHandover(p)
  \/ PublishHandover

MaintenanceNext ==
  \/ \E p \in People : \E i \in DOMAIN work : Open(p, <<"work", i>>, work[i])
  \/ \E asset \in Assets, fault \in BOOLEAN, about \in BOOLEAN : CreateWork(asset, fault, about)
  \/ \E p \in People, i \in DOMAIN work, command \in {"start", "wait", "complete"} : TransitionWork(p, i, command)
  \/ \E asset \in Assets : Stop(asset)
  \/ VerifyTrouble

RecordsNext == QualityNext \/ SetupNext \/ PlantNext \/ HandoverNext \/ MaintenanceNext

RecordsSpec == RecordsInit /\ [][RecordsNext]_recordVars

-----------------------------------------------------------------------------
\* What is verified, and later closed, is what the verifier had on the screen,
\* though others edit the case meanwhile.
VerifiedAsRead ==
  \A i \in DOMAIN cases : cases[i].status \in {"verified", "closed"} => cases[i].read = cases[i].edit

\* The same reading of a handover, which the code does not ensure.
HandoverVerifiedAsRead == handover.status \in {"verified", "published"} => handover.read = handover.content

\* A published handover stays as it is: the job draws it up anew.
PublishedIsFinal == [][handover.status = "published" => handover' = handover]_recordVars

\* A draft can be saved: a save without a change takes the name of the next.
DraftsAreEditable == handover.status = "draft" => <<"edited", handover.version>> \notin audits

\* An asset with a fault, or other work under way, is not reported as running:
\* the first work that is completed ends its downtimes.
WorkedOnIsStopped ==
  [][\A i \in DOMAIN work : work[i].status = "in_progress" /\ work'[i].status = "in_progress"
       => work[i].asset \in stops' \/ work[i].asset \notin stops]_recordVars

\* Whoever saves the profile has seen the one it replaces: no version is compared.
ProfileSavesAreInformed == [][setup'.profile # setup.profile => setup'.profile.basis = setup.profile.content]_recordVars
=============================================================================
