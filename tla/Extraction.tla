------------------------------ MODULE Extraction ------------------------------
(***************************************************************************)
(* How a worker reads a document: the file is validated, a hosted parser   *)
(* or the parsers of the worker turn it into text, the text is searched    *)
(* for instructions, and a model, asked again in smaller parts when it     *)
(* fails, turns the text into fields.                                      *)
(*                                                                         *)
(* The text of a document is a set of sections, "head" and, when it is     *)
(* longer than the 2000 characters an entry of the evidence keeps, "tail". *)
(* A worker's process reads one document after the other and remembers     *)
(* which Gemini model it found; the provider withdraws models in between.  *)
(***************************************************************************)
EXTENDS Integers, Sequences, FiniteSets

CONSTANTS
  Provider,       \* quotation_extraction_provider: "gemini" or "groq"
  Budgets,        \* how many token budgets Groq is given: 1 or 2
  GeminiModels,   \* the models of the provider that can read a document
  Configured,     \* the model of the settings
  MaxDocuments,   \* bound: documents read
  MaxPolls,       \* polls of the hosted parser before its deadline
  MaxWithdrawn    \* bound: changes of the models on offer

ASSUME ExtractionAssumption ==
  /\ Provider \in {"gemini", "groq"}
  /\ {Budgets, MaxDocuments, MaxPolls, MaxWithdrawn} \subseteq Nat
  /\ Configured \in GeminiModels

VARIABLES
  stage,      \* what the worker does with its document
  file,       \* the document
  text,       \* sections of the text
  evidence,   \* sections that stand in the evidence
  attempt,    \* calls made for the present request of the model
  fields,     \* the fields read, with where they come from
  asked,      \* sections that were sent to a model since the document was begun
  geminiModel,  \* the model remembered by the process, "none" at first
  offered,    \* the models the key can use
  counts      \* documents begun, polls of the present one, changes of the offer

extractionVars ==
  <<stage, file, text, evidence, attempt, fields, asked, geminiModel, offered, counts>>

Sections(f) == IF f.long THEN {"head", "tail"} ELSE {"head"}

\* A document: its type, what is wrong with the file, whether a PDF has a text
\* layer, and the sections in which it speaks to the model.
FileKinds ==
  {f \in [use : {"quotation", "invoice"}, type : {"pdf", "image", "sheet"}, flawed : BOOLEAN,
          layer : BOOLEAN, long : BOOLEAN, orders : SUBSET {"head", "tail"}] :
     /\ f.orders \subseteq Sections(f)
     /\ f.type # "pdf" => ~ f.layer}

NoFile == [use |-> "none"]

ExtractionInit ==
  /\ stage = "idle"
  /\ file = NoFile /\ text = {} /\ evidence = {} /\ attempt = 0 /\ fields = {} /\ asked = {}
  /\ geminiModel = "none"
  /\ offered = GeminiModels
  /\ counts = [documents |-> 0, polls |-> 0, changes |-> 0]

Requesting == {"model", "header", "lines"}

BeginFile(f) ==
  /\ stage \in {"idle", "done", "refused", "stopped"}
  /\ counts.documents < MaxDocuments
  /\ counts' = [counts EXCEPT !.documents = @ + 1, !.polls = 0]
  /\ file' = f
  /\ text' = {} /\ evidence' = {} /\ attempt' = 0 /\ fields' = {} /\ asked' = {}
  /\ stage' = "validate"
  /\ UNCHANGED <<geminiModel, offered>>

-----------------------------------------------------------------------------
(* From the file to text.                                                  *)

\* A file with a wrong signature or type, with active content, encrypted or
\* corrupt is refused before a parser sees it.
Validate ==
  /\ stage = "validate"
  /\ stage' = IF file.flawed THEN "refused" ELSE IF file.type = "pdf" THEN "hosted" ELSE "local"
  /\ UNCHANGED <<file, text, evidence, attempt, fields, asked, geminiModel, offered, counts>>

\* LlamaParse is polled until it has the text, fails, or the deadline is over.
\* Its evidence is one entry.
HostedParse ==
  /\ stage = "hosted"
  /\ \/ /\ counts.polls < MaxPolls
        /\ counts' = [counts EXCEPT !.polls = @ + 1]
        /\ UNCHANGED <<stage, text, evidence>>
     \/ /\ text' = Sections(file)
        /\ evidence' = {"head"}
        /\ stage' = "search"
        /\ UNCHANGED counts
     \/ /\ stage' = "local"
        /\ UNCHANGED <<text, evidence, counts>>
  /\ UNCHANGED <<file, attempt, fields, asked, geminiModel, offered>>

\* The evidence of the local parsers has an entry for each page or cell; that of
\* an image has one.  Character recognition may fail, and then there is no text.
LocalParse ==
  /\ stage = "local"
  /\ \/ /\ text' = Sections(file)
        /\ evidence' = IF file.type = "image" THEN {"head"} ELSE Sections(file)
     \/ /\ ~ file.layer /\ file.type # "sheet"
        /\ text' = {} /\ evidence' = {}
  /\ stage' = "search"
  /\ UNCHANGED <<file, attempt, fields, asked, geminiModel, offered, counts>>

-----------------------------------------------------------------------------
(* From text to fields.                                                    *)

\* Mutant: only what the evidence shows is searched for instructions.
InstructedByEvidence == file.orders \intersect evidence # {}

Instructed == file.orders \intersect text # {}

\* The text of an invoice is put together from the evidence.
ModelText == IF file.use = "invoice" THEN evidence ELSE text

\* Where the fields stand: the number of the document and its total.
Stands(field) == IF field = "number" \/ ~ file.long THEN "head" ELSE "tail"

\* Instructions keep the text from the model.  The fields of an invoice are
\* looked for by patterns first; an amount they find may be no number.
SearchText ==
  /\ stage = "search"
  /\ \/ /\ fields' = IF file.use = "quotation" THEN {}
                     ELSE {<<field, "pattern">> : field \in {n \in {"number", "total"} : Stands(n) \in evidence}}
        /\ stage' = IF Instructed \/ ModelText = {} THEN "done" ELSE "model"
     \/ /\ file.use = "invoice" /\ Stands("total") \in evidence
        /\ stage' = "stopped"
        /\ UNCHANGED fields
  /\ UNCHANGED <<file, text, evidence, attempt, asked, geminiModel, offered, counts>>

Known(field) == \E by \in {"pattern", "model"} : <<field, by>> \in fields

\* What the model adds to the fields from this text: the fields of a quotation
\* are its header and its lines, and a field that is known is kept.
Answered(found) ==
  fields \union {<<field, "model">> : field \in {n \in found : ~ Known(n)}}

FieldsOf(at) ==
  CASE at = "header" -> {"header"}
    [] at = "lines" -> {"lines"}
    [] at = "model" /\ file.use = "quotation" -> {"header", "lines"}
    [] OTHER -> {n \in {"number", "total"} : Stands(n) \in evidence}

\* The model the process asks for, and what a discovery makes of it.
GeminiModel == IF geminiModel = "none" THEN Configured ELSE geminiModel

Discovered ==
  IF geminiModel # "none" THEN {geminiModel}
  ELSE IF Configured \in offered THEN {Configured}
  ELSE offered

\* A call reaches a model on offer, at once or after a discovery, or no model.
Reached(m) ==
  \/ GeminiModel \in offered /\ m = GeminiModel /\ geminiModel' = geminiModel
  \/ GeminiModel \notin offered /\ m \in Discovered \intersect offered /\ geminiModel' = m

AskGroq(at) ==
  /\ Provider = "groq"
  /\ attempt' = attempt + 1
  /\ asked' = asked \union ModelText
  /\ \/ fields' = Answered(FieldsOf(at)) /\ stage' = "done"
     \/ /\ UNCHANGED fields
        /\ \/ stage' = "done"
           \/ attempt' < Budgets /\ stage' = at
  /\ UNCHANGED geminiModel

\* Where a Gemini request goes on when both of its calls have failed: a quotation
\* is asked for in parts, and keeps its header when the lines fail.
AfterFailure(at) == IF at = "model" /\ file.use = "quotation" THEN "header" ELSE "done"

AskGemini(at) ==
  /\ Provider = "gemini"
  /\ \/ /\ \E m \in GeminiModels : Reached(m)
        /\ asked' = asked \union ModelText
        /\ fields' = Answered(FieldsOf(at))
        /\ stage' = IF at = "header" THEN "lines" ELSE "done"
        /\ attempt' = 0
     \/ /\ \/ \E m \in GeminiModels : Reached(m)
           \/ UNCHANGED geminiModel
        /\ asked' = asked \union ModelText
        /\ UNCHANGED fields
        /\ IF attempt = 0
           THEN stage' = at /\ attempt' = 1
           ELSE stage' = AfterFailure(at) /\ attempt' = 0

Ask ==
  /\ stage \in Requesting
  /\ \/ AskGroq(stage)
     \/ AskGemini(stage)
  /\ UNCHANGED <<file, text, evidence, offered, counts>>

\* The provider changes the models on offer.
ChangeOffer(models) ==
  /\ counts.changes < MaxWithdrawn
  /\ models # offered
  /\ offered' = models
  /\ counts' = [counts EXCEPT !.changes = @ + 1]
  /\ UNCHANGED <<stage, file, text, evidence, attempt, fields, asked, geminiModel>>

ExtractionNext ==
  \/ \E f \in FileKinds : BeginFile(f)
  \/ Validate
  \/ HostedParse
  \/ LocalParse
  \/ SearchText
  \/ Ask
  \/ \E models \in SUBSET GeminiModels : ChangeOffer(models)

ExtractionSpec == ExtractionInit /\ [][ExtractionNext]_extractionVars

-----------------------------------------------------------------------------
(* Properties.                                                             *)

\* No file that failed validation, and no text of a document that speaks to the
\* model, leaves the worker for a model, whichever parser produced the text and
\* however much of it the evidence shows.
NothingUnsafeIsAsked ==
  asked # {} => ~ file.flawed /\ file.orders \intersect Sections(file) = {}

\* The total at the end of an invoice is read when the document has been turned
\* into text and the model answered ("totals/terms commonly found at the end",
\* documents.py:124).  The text of an invoice is put together from evidence that
\* keeps the first 2000 characters of a parsed document: false.
TotalIsRead ==
  stage = "done" /\ file.use = "invoice" /\ Known("number") /\ "tail" \in text => Known("total")

\* When the model in use has been withdrawn, a discovery comes to one that the key
\* can use ("Resolve a generateContent-capable Flash model visible to this API key",
\* documents.py:335).  It answers from the memory of the process first, so a model
\* found once is asked for until the worker is restarted: false.
DiscoveryFinds == offered # {} => Discovered \intersect offered # {}
=============================================================================
