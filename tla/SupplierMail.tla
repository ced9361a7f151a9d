----------------------------- MODULE SupplierMail -----------------------------
(***************************************************************************)
(* Mail to suppliers and from them.  An approved mail is sent by a task of *)
(* the workers, which is retried and can be started again by the buyer.    *)
(* Documents that come with mail, through the portal or from an employee   *)
(* become extractions of invoices, which the buyer turns into invoices.    *)
(*                                                                         *)
(* Rows are versioned: a request that overlaps another fails when a row it *)
(* changes is no longer the one it read.  The mode that only simulates the *)
(* mail server is left out.                                                *)
(***************************************************************************)
EXTENDS Integers, Sequences, FiniteSets, SequencesExt

CONSTANTS
  MailTasks,      \* tasks that can send the mail
  MaxMailRetries, \* retries of a task
  MaxPresses,     \* bound: times the buyer sends the mail
  Papers,         \* documents
  ContentOf,      \* their checksums
  Orders,         \* purchase orders
  Letters,        \* messages of the supplier
  Clerks,         \* requests under way
  Numbers,        \* invoice numbers
  MaxExtractions, \* bound
  MaxCaptured     \* bound: invoices

ASSUME SupplierMailAssumption ==
  /\ {MaxMailRetries, MaxPresses, MaxExtractions, MaxCaptured} \subseteq Nat
  /\ DOMAIN ContentOf = Papers
  /\ "none" \notin Papers

VARIABLES
  mail,        \* status, version, times it was given to the mail server
  mailTasks,   \* where each task is, the version it has seen, its retries
  papers,      \* status, link and version of each document
  extractions, \* of invoices: document, order, version, whether verified
  captured,    \* invoices: document, number
  received,    \* letters that were processed
  clerks       \* requests with what they have read

mailVars == <<mail, mailTasks>>
evidenceVars == <<papers, extractions, captured, received, clerks>>
supplierMailVars == <<mailVars, evidenceVars>>

NoTask == [at |-> "none", seen |-> 0, retries |-> 0]
NoWork == [doing |-> "nothing"]
NoPaper == [status |-> "none", link |-> <<"none">>, version |-> 0]

SupplierMailInit ==
  /\ mail = [status |-> "approved_pending_send", version |-> 1, given |-> 0, presses |-> 0]
  /\ mailTasks = [t \in MailTasks |-> NoTask]
  /\ papers = [p \in Papers |-> NoPaper]
  /\ extractions = <<>> /\ captured = <<>> /\ received = {}
  /\ clerks = [c \in Clerks |-> NoWork]

-----------------------------------------------------------------------------
(* A mail and the tasks that send it.                                      *)

Marks(status) == mail' = [mail EXCEPT !.status = status, !.version = @ + 1]

MoveTask(t, at) == mailTasks' = [mailTasks EXCEPT ![t].at = at]

\* The buyer sends an approved or failed mail; the broker may refuse the task.
Press(t) ==
  /\ mail.status \in {"approved_pending_send", "failed"}
  /\ mail.presses < MaxPresses
  /\ mail' = [mail EXCEPT !.status = "sending", !.version = @ + 1, !.presses = @ + 1]
  /\ \/ /\ mailTasks[t] = NoTask
        /\ mailTasks' = [mailTasks EXCEPT ![t].at = "queued"]
     \/ UNCHANGED mailTasks
  /\ UNCHANGED evidenceVars

\* A task takes the mail, also one that another task is sending.
TakeMail(t) ==
  /\ mailTasks[t].at = "queued"
  /\ IF mail.status = "sent"
     THEN MoveTask(t, "over") /\ UNCHANGED mail
     ELSE /\ Marks("sending")
          /\ mailTasks' = [mailTasks EXCEPT ![t].at = "sending", ![t].seen = mail'.version]
  /\ UNCHANGED evidenceVars

GiveMail(t) ==
  /\ mailTasks[t].at = "sending"
  /\ mail' = [mail EXCEPT !.given = @ + 1]
  /\ MoveTask(t, "given")
  /\ UNCHANGED evidenceVars

\* The mail is still as the task has left it: else its commit fails.
Unchanged(t) == mail.version = mailTasks[t].seen

ConfirmMail(t) ==
  /\ mailTasks[t].at = "given"
  /\ IF Unchanged(t) THEN Marks("sent") ELSE UNCHANGED mail
  /\ MoveTask(t, "over")
  /\ UNCHANGED evidenceVars

\* The connection to the mail server fails, perhaps after it took the mail: the
\* task is tried again.
FailMail(t) ==
  /\ mailTasks[t].at \in {"sending", "given"}
  /\ IF Unchanged(t)
     THEN /\ Marks("failed")
          /\ mailTasks' = [mailTasks EXCEPT
               ![t].at = IF mailTasks[t].retries < MaxMailRetries THEN "queued" ELSE "over",
               ![t].retries = @ + 1]
     ELSE MoveTask(t, "over") /\ UNCHANGED mail
  /\ UNCHANGED evidenceVars

\* An attachment is missing, the store of documents fails, or the worker dies.
LoseMail(t) ==
  /\ mailTasks[t].at \in {"sending", "given"}
  /\ MoveTask(t, "over")
  /\ UNCHANGED <<mail, evidenceVars>>

MailNext ==
  \E t \in MailTasks :
    Press(t) \/ TakeMail(t) \/ GiveMail(t) \/ ConfirmMail(t) \/ FailMail(t) \/ LoseMail(t)

-----------------------------------------------------------------------------
(* Documents and the invoices they become.                                 *)

InvoiceOf(o) == <<"invoice", o>>

ExtractionsOf(p) == {x \in DOMAIN extractions : extractions[x].paper = p}

Extracted(p, o) ==
  /\ Len(extractions) < MaxExtractions
  /\ extractions' = Append(extractions, [paper |-> p, order |-> o, verified |-> FALSE, version |-> 1])

\* A document comes without a link, with a delivery, or for an order.
UploadPaper(p, link) ==
  /\ papers[p] = NoPaper
  /\ papers' = [papers EXCEPT ![p] = [status |-> "quarantined", link |-> link, version |-> 1]]
  /\ UNCHANGED <<extractions, captured, received, clerks, mailVars>>

\* The worker: a document of a delivery is only validated, one that is uploaded
\* as an invoice has its extraction with it.
ProcessPaper(p, valid) ==
  /\ papers[p].status = "quarantined"
  /\ LET status == CASE ~ valid -> "quarantined_rejected"
                     [] valid /\ papers[p].link = <<"delivery">> -> "available"
                     [] OTHER -> "validated_needs_review"
     IN papers' = [papers EXCEPT ![p].status = status, ![p].version = @ + 1]
  /\ IF valid /\ \E o \in Orders : papers[p].link = InvoiceOf(o)
     THEN Extracted(p, papers[p].link[2])
     ELSE UNCHANGED extractions
  /\ UNCHANGED <<captured, received, clerks, mailVars>>

TakeWork(c, work) ==
  /\ clerks[c] = NoWork
  /\ clerks' = [clerks EXCEPT ![c] = work]
  /\ UNCHANGED <<papers, extractions, captured, received, mailVars>>

\* The assistant makes an attachment an invoice; one with an extraction has it.
StartPrepare(c, p, o) ==
  /\ papers[p].status = "validated_needs_review"
  /\ ExtractionsOf(p) = {}
  /\ TakeWork(c, [doing |-> "prepare", paper |-> p, order |-> o, read |-> papers[p], letter |-> "none"])

\* Statuses of a document that keep it out of a letter.
Blocked == {"quarantined", "rejected", "invalid"}

\* A letter with an invoice.
StartInvoiceMail(c, letter, p, o) ==
  /\ letter \notin received
  /\ papers[p].status \in {"available", "validated_needs_review"} \ Blocked
  /\ ExtractionsOf(p) = {}
  /\ TakeWork(c, [doing |-> "prepare", paper |-> p, order |-> o, read |-> papers[p], letter |-> letter])

\* A letter about a delivery, with a document that has no other link.
StartNoticeMail(c, letter, p) ==
  /\ letter \notin received
  /\ papers[p].status \notin Blocked \union {"none"}
  /\ papers[p].link = <<"none">>
  /\ TakeWork(c, [doing |-> "notice", paper |-> p, read |-> papers[p], letter |-> letter])

Receive(letter) ==
  /\ letter \notin received
  /\ received' = received \union ({letter} \ {"none"})

\* Mutant: a request commits whatever has become of the rows it read.
CommitsAlways(w, link) == TRUE

\* A request that changes the link of a document needs the row it has read; one
\* that read the link it wants writes nothing.
Commits(w, link) == w.read.link # link => papers[w.paper].version = w.read.version

PaperLinked(w, link) ==
  IF w.read.link = link THEN papers
  ELSE [papers EXCEPT ![w.paper].link = link, ![w.paper].version = @ + 1]

FinishPrepare(c) ==
  LET w == clerks[c]
  IN /\ w.doing = "prepare"
     /\ Commits(w, InvoiceOf(w.order))
     /\ Receive(w.letter)
     /\ papers' = PaperLinked(w, InvoiceOf(w.order))
     /\ Extracted(w.paper, w.order)
     /\ clerks' = [clerks EXCEPT ![c] = NoWork]
     /\ UNCHANGED <<captured, mailVars>>

FinishNotice(c) ==
  LET w == clerks[c]
  IN /\ w.doing = "notice"
     /\ Commits(w, <<"delivery">>)
     /\ Receive(w.letter)
     /\ papers' = PaperLinked(w, <<"delivery">>)
     /\ clerks' = [clerks EXCEPT ![c] = NoWork]
     /\ UNCHANGED <<extractions, captured, mailVars>>

\* The content of an invoice: a document, or what was typed in.
ContentsCaptured == {ContentOf[n.paper] : n \in {m \in Range(captured) : m.paper # "none"}}
NumbersCaptured == {n.number : n \in Range(captured)}

\* The buyer verifies an extraction under the number that was read or corrected.
StartVerify(c, x, number) ==
  LET p == extractions[x].paper
  IN /\ ~ extractions[x].verified
     /\ papers[p].status = "validated_needs_review"
     /\ number \notin NumbersCaptured /\ ContentOf[p] \notin ContentsCaptured
     /\ TakeWork(c, [doing |-> "verify", paper |-> p, of |-> x, number |-> number,
                     read |-> papers[p], version |-> extractions[x].version])

\* The numbers of a supplier's invoices are unique in the database, contents not.
FinishVerify(c) ==
  LET w == clerks[c]
  IN /\ w.doing = "verify"
     /\ Len(captured) < MaxCaptured
     /\ extractions[w.of].version = w.version
     /\ Commits(w, <<"captured">>)
     /\ w.number \notin NumbersCaptured
     /\ captured' = Append(captured, [paper |-> w.paper, number |-> w.number])
     /\ extractions' = [extractions EXCEPT ![w.of].verified = TRUE, ![w.of].version = @ + 1]
     /\ papers' = PaperLinked(w, <<"captured">>)
     /\ clerks' = [clerks EXCEPT ![c] = NoWork]
     /\ UNCHANGED <<received, mailVars>>

\* A request fails and changes nothing.
GiveUp(c) ==
  /\ clerks[c] # NoWork
  /\ clerks' = [clerks EXCEPT ![c] = NoWork]
  /\ UNCHANGED <<papers, extractions, captured, received, mailVars>>

\* An invoice that is typed in.
TypeInvoice(number) ==
  /\ Len(captured) < MaxCaptured
  /\ number \notin NumbersCaptured
  /\ captured' = Append(captured, [paper |-> "none", number |-> number])
  /\ UNCHANGED <<papers, extractions, received, clerks, mailVars>>

EvidenceNext ==
  \/ \E p \in Papers :
       \/ \E link \in {<<"none">>, <<"delivery">>} \union {InvoiceOf(o) : o \in Orders} : UploadPaper(p, link)
       \/ \E valid \in BOOLEAN : ProcessPaper(p, valid)
  \/ \E c \in Clerks, p \in Papers, o \in Orders :
       \/ StartPrepare(c, p, o)
       \/ \E letter \in Letters : StartInvoiceMail(c, letter, p, o)
  \/ \E c \in Clerks, letter \in Letters, p \in Papers : StartNoticeMail(c, letter, p)
  \/ \E c \in Clerks, x \in DOMAIN extractions, number \in Numbers : StartVerify(c, x, number)
  \/ \E c \in Clerks : FinishPrepare(c) \/ FinishNotice(c) \/ FinishVerify(c) \/ GiveUp(c)
  \/ \E number \in Numbers : TypeInvoice(number)

SupplierMailNext == MailNext \/ EvidenceNext

SupplierMailSpec == SupplierMailInit /\ [][SupplierMailNext]_supplierMailVars

-----------------------------------------------------------------------------
(* Properties.                                                             *)

\* A mail is given to the server once.  The retry of a task and the button of the
\* buyer send it at the same time, and a lost answer sends it again: false.
GivenOnce == mail.given <= 1

\* A mail that is being sent is in the hands of a task, which will settle it.  A
\* worker that dies, a broker that refuses the task or an attachment that is
\* missing leave it "sending", from where the buyer cannot send it: false.
SendingIsHeld ==
  mail.status = "sending" => \E t \in MailTasks : mailTasks[t].at \in {"queued", "sending", "given"}

\* A document becomes one extraction and one invoice, though the assistant, a
\* letter and two buyers may have it in hand at once.
OneInvoicePerPaper ==
  \A p \in Papers :
    /\ Cardinality(ExtractionsOf(p)) <= 1
    /\ Cardinality({n \in DOMAIN captured : captured[n].paper = p}) <= 1

\* An extraction that waits for the buyer can be verified ("Prepare validated
\* supplier-channel evidence for mandatory buyer review", invoice_service.py:234).
\* A document of a delivery is "available", which verification refuses: false.
PreparedIsVerifiable ==
  \A x \in DOMAIN extractions :
    ~ extractions[x].verified => papers[extractions[x].paper].status = "validated_needs_review"

\* A document that validation has refused becomes no evidence ("Email attachments
\* must pass document validation before processing", integrations.py:437).  The
\* status it has is not among those a letter is checked for: false.
RefusedIsNoEvidence ==
  [][\A p \in Papers :
       papers[p].status = "quarantined_rejected" => papers'[p].link = papers[p].link]_supplierMailVars
=============================================================================
