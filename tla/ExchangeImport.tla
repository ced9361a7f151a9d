--------------------------- MODULE ExchangeImport ---------------------------
(***************************************************************************)
(* Records of other systems that come in as workbooks: the exchange file   *)
(* of a connection, the factory workbook with one part per domain, and the *)
(* exchange file that goes out again.  A workbook is compared with the     *)
(* records when it is previewed and applied when somebody approves it.     *)
(***************************************************************************)
EXTENDS Integers, Sequences, FiniteSets

CONSTANTS
  Workbooks,     \* contents: partial functions from Kinds to payloads, 0 unusable
  MaxBatches,    \* bound: previews
  MaxEdits,      \* bound: edits of records in the platform
  MaxExports     \* bound: exchange files that go out

\* An item has a code that every connection knows; an order is known by the
\* key of its connection; a requirement is a request that starts a purchase.
Kinds == {"item", "order", "requirement"}
Connections == {"exchange", "factory"}

ASSUME ImportAssumption ==
  /\ \A w \in Workbooks : DOMAIN w \subseteq Kinds /\ \A k \in DOMAIN w : w[k] \in Nat
  /\ {MaxBatches, MaxEdits, MaxExports} \subseteq Nat

VARIABLES
  records,   \* record -> payload it holds (0: edited), version, edit not yet overwritten
  known,     \* <<connection, kind>> -> payload and version at its last synchronisation
  batches,   \* previewed workbooks: their rows with the action proposed for each
  factory,   \* factory workbooks: contents, the batch of their part, status
  edits,     \* edits so far
  exports    \* exchange files: those being written, those finished

importVars == <<records, known, batches, factory, edits, exports>>

-----------------------------------------------------------------------------
ImportInit ==
  /\ records = <<>> /\ known = <<>>
  /\ batches = <<>> /\ factory = <<>>
  /\ edits = 0
  /\ exports = [writing |-> {}, done |-> <<>>]

(* preview_import.                                                         *)

\* Mutant: what a sheet says is taken over without looking at the version.
ClassifiedByHash(c, k, payload) ==
  IF payload = 0 THEN "error"
  ELSE IF <<c, k>> \notin DOMAIN known THEN "insert"
  ELSE IF known[<<c, k>>].payload = payload THEN "unchanged" ELSE "update"

Classified(c, k, payload) ==
  IF payload = 0 THEN "error"
  ELSE IF <<c, k>> \notin DOMAIN known THEN "insert"
  ELSE IF known[<<c, k>>].payload = payload THEN "unchanged"
  ELSE IF known[<<c, k>>].version = records[known[<<c, k>>].id].version THEN "update"
  ELSE "conflict"

Previewed(c, w) ==
  [connection |-> c, status |-> "previewed", edits |-> edits,
   rows |-> [k \in DOMAIN w |-> [payload |-> w[k], action |-> Classified(c, k, w[k])]]]

\* The exchange file is previewed anew however often it is sent.
Preview(w) ==
  /\ Len(batches) < MaxBatches
  /\ batches' = Append(batches, Previewed("exchange", w))
  /\ UNCHANGED <<records, known, factory, edits, exports>>

-----------------------------------------------------------------------------
(* commit_import: the rows to insert or update, referenced kinds first.    *)

\* The order's item is looked up by its key, the requirement's by its code.
RefersToKnown(s, c, k) ==
  CASE k = "item" -> TRUE
    [] k = "order" -> <<c, "item">> \in DOMAIN s.known
    [] k = "requirement" -> <<"item", "code">> \in DOMAIN s.records

\* A requirement is created by every row that is applied.
RecordOf(s, c, k) ==
  CASE k = "item" -> <<"item", "code">>
    [] k = "order" -> <<"order", c>>
    [] k = "requirement" -> <<"requirement", Cardinality({r \in DOMAIN s.records : r[1] = "requirement"})>>

WrittenRecord(s, r, payload) ==
  IF r \notin DOMAIN s.records THEN [payload |-> payload, version |-> 1, edit |-> 0]
  ELSE IF s.records[r].payload = payload THEN s.records[r]
  ELSE [payload |-> payload, version |-> s.records[r].version + 1, edit |-> 0]

\* The function that is new at x and f everywhere else.
Entered(f, x, new) == [y \in DOMAIN f \union {x} |-> IF y = x THEN new ELSE f[y]]

\* s: the records, what is known of them, and the rows of the batch.
Apply(s, c, k) ==
  IF k \notin DOMAIN s.rows \/ s.rows[k].action \notin {"insert", "update"} THEN s
  ELSE IF ~ RefersToKnown(s, c, k) THEN [s EXCEPT !.rows[k].action = "error"]
  ELSE LET r == RecordOf(s, c, k)
           new == WrittenRecord(s, r, s.rows[k].payload)
       IN [records |-> Entered(s.records, r, new),
           known |-> Entered(s.known, <<c, k>>,
                             [payload |-> s.rows[k].payload, id |-> r, version |-> new.version]),
           rows |-> [s.rows EXCEPT ![k].action = "committed"]]

Committed(b) ==
  LET c == b.connection
      start == [records |-> records, known |-> known, rows |-> b.rows]
  IN Apply(Apply(Apply(start, c, "item"), c, "order"), c, "requirement")

StatusOf(rows) ==
  IF \E k \in DOMAIN rows : rows[k].action \in {"error", "conflict"} THEN "completed_with_errors"
  ELSE "completed"

CommitTo(i, b) ==
  LET done == Committed(b)
  IN /\ records' = done.records /\ known' = done.known
     /\ batches' = [batches EXCEPT ![i] = [b EXCEPT !.rows = done.rows, !.status = StatusOf(done.rows)]]

\* Any batch of the plant can be approved by its id, a part of a factory workbook too.
Approve(i) ==
  /\ batches[i].status = "previewed"
  /\ CommitTo(i, batches[i])
  /\ UNCHANGED <<factory, edits, exports>>

-----------------------------------------------------------------------------
(* The factory workbook: its procurement part is a batch of its own.       *)

PreviewFactory(w) ==
  /\ ~ \E f \in DOMAIN factory : factory[f].contents = w
  /\ Len(batches) < MaxBatches
  /\ batches' = Append(batches, Previewed("factory", w))
  /\ factory' = Append(factory, [contents |-> w, part |-> Len(batches) + 1, status |-> "previewed",
                                 errors |-> StatusOf(Previewed("factory", w).rows) # "completed"])
  /\ UNCHANGED <<records, known, edits, exports>>

\* The parts of the other domains are applied, or fail and undo everything:
\* "others" says which.  A part committed before is left as it is.
CommitFactory(f, others) ==
  LET i == factory[f].part
  IN /\ factory[f].status = "previewed" /\ ~ factory[f].errors
     /\ others
     /\ IF batches[i].status = "completed" THEN UNCHANGED <<records, known, batches>>
        ELSE /\ batches[i].status = "previewed"
             /\ StatusOf(Committed(batches[i]).rows) = "completed"
             /\ CommitTo(i, batches[i])
     /\ factory' = [factory EXCEPT ![f].status = "completed"]
     /\ UNCHANGED <<edits, exports>>

\* The demonstration keeps the items it finds edited, then commits at once.
Preserved(rows) ==
  [k \in DOMAIN rows |-> IF k = "item" /\ rows[k].action = "conflict"
                           THEN [rows[k] EXCEPT !.action = "unchanged"] ELSE rows[k]]

LoadDemo(f) ==
  LET i == factory[f].part
      b == [batches[i] EXCEPT !.rows = Preserved(batches[i].rows)]
  IN /\ factory[f].status = "previewed" /\ factory[f].errors
     /\ StatusOf(b.rows) = "completed" /\ b.status = "previewed"
     /\ StatusOf(Committed(b).rows) = "completed"
     /\ CommitTo(i, b)
     /\ factory' = [factory EXCEPT ![f].status = "completed", ![f].errors = FALSE]
     /\ UNCHANGED <<edits, exports>>

-----------------------------------------------------------------------------
(* Everything else that writes the records, and the exchange file out.     *)

Edit(r) ==
  /\ edits < MaxEdits
  /\ edits' = edits + 1
  /\ records' = [records EXCEPT ![r] = [payload |-> 0, version |-> @.version + 1, edit |-> edits + 1]]
  /\ UNCHANGED <<known, batches, factory, exports>>

\* The number of a file is the number of files before it, plus one.
BeginExport ==
  /\ Len(exports.done) + Cardinality(exports.writing) < MaxExports
  /\ exports' = [exports EXCEPT !.writing = @ \union {[number |-> Len(exports.done) + 1, keys |-> DOMAIN known]}]
  /\ UNCHANGED <<records, known, batches, factory, edits>>

\* The file is read back and compared with the keys known by now.
FinishExport(x) ==
  /\ exports' = [writing |-> exports.writing \ {x},
                 done |-> Append(exports.done,
                            [number |-> x.number,
                             status |-> IF DOMAIN known \subseteq x.keys THEN "completed" ELSE "verification_failed"])]
  /\ UNCHANGED <<records, known, batches, factory, edits>>

ImportNext ==
  \/ \E w \in Workbooks : Preview(w) \/ PreviewFactory(w)
  \/ \E i \in DOMAIN batches : Approve(i)
  \/ \E f \in DOMAIN factory : LoadDemo(f) \/ \E others \in BOOLEAN : CommitFactory(f, others)
  \/ \E r \in DOMAIN records : Edit(r)
  \/ BeginExport
  \/ \E x \in exports.writing : FinishExport(x)

ImportSpec == ImportInit /\ [][ImportNext]_importVars

-----------------------------------------------------------------------------
CommittedNow(i) == batches[i].status = "previewed" /\ batches'[i].status # "previewed"

LostReviewed ==
  \A r \in DOMAIN records : records[r].edit # 0 /\ records'[r].edit = 0 =>
    \E i \in DOMAIN batches :
      /\ CommittedNow(i)
      /\ \/ batches[i].edits < records[r].edit
         \/ batches[i].rows[r[1]].action = "insert"

\* An edit made in the platform is overwritten only by a batch that was
\* previewed before it, or whose connection did not know the record then: in
\* every other case the row was shown as a conflict and is left out.
EditsAreReviewed == [][LostReviewed]_importVars

\* "Re-import creates zero duplicate business records."
ReimportsAddNothing ==
  Cardinality({r \in DOMAIN records : r[1] = "requirement"}) <= 1

\* "Stale local-version conflict protection": no edit is ever overwritten by
\* a workbook that was not shown to clash with it.
EditsAreProtected ==
  [][\A r \in DOMAIN records : records[r].edit # 0 => records'[r].edit # 0]_importVars
=============================================================================
