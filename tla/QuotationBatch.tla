--------------------------- MODULE QuotationBatch ---------------------------
(***************************************************************************)
(* Quotation documents that an employee attaches to a message: the workers *)
(* that read them, the recovery of their jobs, and the agent that links    *)
(* the batch to quotations, now or when the last document has been read.   *)
(*                                                                         *)
(* Every row is versioned.  A transaction that stays open for long, a      *)
(* reading, a message or a resolution, remembers the stamps it has seen,   *)
(* and its commit fails when a row it writes has another one.  The batch   *)
(* has one request for quotation; what an extraction writes into a         *)
(* quotation that exists already is left out.                              *)
(***************************************************************************)
EXTENDS Integers, FiniteSets, FiniteSetsExt

CONSTANTS
  Documents,
  MaxReadings,   \* bound: tasks sent to the workers
  MaxReplies,    \* bound: further messages of the employee
  MaxRetries     \* bound: changes of an attachment before it is resolved

ASSUME QuotationBatchAssumption ==
  /\ IsFiniteSet(Documents)
  /\ {MaxReadings, MaxReplies, MaxRetries} \subseteq Nat

VARIABLES
  documents,    \* status, last extraction, the quotations made of it, stamp
  jobs,         \* the last job of every document: status, number, stamp
  attachments,  \* status, whether the job is known, supplier, link, stamp
  thread,       \* how the batch continues, stamp
  tasks,        \* the tasks that wait for a worker, and how many were sent
  sessions      \* open transactions

batchVars == <<documents, jobs, attachments, thread, tasks, sessions>>

UploadInit ==
  /\ documents = [d \in Documents |->
       [status |-> "quarantined", extraction |-> "none", quotes |-> 0, stamp |-> 0]]
  /\ jobs = [d \in Documents |-> [status |-> "queued", number |-> 1, stamp |-> 0]]
  /\ tasks = [d \in Documents |-> [waiting |-> 1, sent |-> 1]]

BatchInit ==
  /\ UploadInit
  /\ attachments = [d \in Documents |->
       [status |-> "none", known |-> FALSE, supplier |-> FALSE, linked |-> FALSE, stamp |-> 0]]
  /\ thread = [continuation |-> "none", stamp |-> 0]
  /\ sessions = {}

\* Statuses of an attachment whose document is still being read.
Unread == {"uploading", "queued", "extracting", "retrying"}

-----------------------------------------------------------------------------
(* The quotation tool: what becomes of the batch with these attachments,   *)
(* when the employee names the suppliers of the documents "named".         *)

Links(rows, named) ==
  {d \in Documents : ~ rows[d].linked
     /\ (rows[d].supplier \/ d \in named \/ documents[d].extraction = "named")}

Marked(row, status) ==
  IF row.status = status THEN row ELSE [row EXCEPT !.status = status, !.stamp = @ + 1]

Tooled(rows, named) ==
  [d \in Documents |->
     IF rows[d].linked THEN rows[d]
     ELSE IF d \in Links(rows, named) THEN [Marked(rows[d], "linked") EXCEPT !.linked = TRUE]
     ELSE IF documents[d].extraction # "none" THEN Marked(rows[d], "needs_mapping")
     ELSE IF rows[d].status \in {"failed", "needs_review"} THEN rows[d]
     ELSE Marked(rows[d], "extracting")]

\* Mutant: an attachment that needs a mapping does not hold the batch up.
ContinuationUnmapped(rows) ==
  LET open == {rows[d].status : d \in {e \in Documents : ~ rows[e].linked}}
  IN IF open \intersect {"failed", "needs_review"} # {} THEN "failed"
     ELSE IF "extracting" \in open THEN "processing"
     ELSE "completed"

Continuation(rows) ==
  LET open == {rows[d].status : d \in {e \in Documents : ~ rows[e].linked}}
  IN IF open \intersect {"failed", "needs_review"} # {} THEN "failed"
     ELSE IF "needs_mapping" \in open THEN "needs_input"
     ELSE IF "extracting" \in open THEN "processing"
     ELSE "completed"

\* The documents among these that have no quotation yet.
Unquoted(linked) == {d \in linked : documents[d].quotes = 0}

\* Quotations are made of them.
Quote(new) ==
  documents' = [d \in Documents |->
    IF d \in new THEN [documents[d] EXCEPT !.quotes = @ + 1, !.stamp = @ + 1]
    ELSE documents[d]]

\* Mutant: rows have no version.
FreshAlways(written, was, new, seen) == TRUE

\* The rows that a transaction writes are as it has seen them.
Fresh(written, was, new, seen) ==
  /\ \A d \in written : attachments[d].stamp = was[d].stamp
  /\ \A d \in new : documents[d].stamp = seen[d]

DocumentStamps == [d \in Documents |-> documents[d].stamp]

-----------------------------------------------------------------------------
(* Messages.                                                               *)

\* The first message attaches the documents, with their status so far.
Attached ==
  [d \in Documents |->
     [status |-> CASE documents[d].status = "quarantined" -> "queued"
                   [] documents[d].status = "needs_manual_entry" -> "needs_review"
                   [] OTHER -> documents[d].status,
      known |-> TRUE, supplier |-> FALSE, linked |-> FALSE, stamp |-> 0]]

\* The transaction of a message stays open while the model works.
BeginMessage(named) ==
  LET rows == IF thread.stamp = 0 THEN Attached ELSE attachments
  IN /\ thread.stamp = 0 => named = {}
     /\ thread.stamp <= MaxReplies
     /\ ~ \E s \in sessions : s.kind = "message"
     /\ sessions' = sessions \union
          {[kind |-> "message", rows |-> Tooled(rows, named), thread |-> thread.stamp,
            new |-> Unquoted(Links(rows, named)), seen |-> DocumentStamps,
            was |-> rows]}
     /\ UNCHANGED <<documents, jobs, attachments, thread, tasks>>

\* Rows that the tool has left alone keep what was written meanwhile.
CommitMessage(s) ==
  LET written == {d \in Documents : s.thread = 0 \/ s.rows[d] # s.was[d]}
  IN /\ s.kind = "message"
     /\ sessions' = sessions \ {s}
     /\ Fresh(written, s.was, s.new, s.seen)
     /\ thread.stamp = s.thread
     /\ thread' = [continuation |-> Continuation(s.rows), stamp |-> s.thread + 1]
     /\ attachments' = [d \in Documents |-> IF d \in written THEN s.rows[d] ELSE attachments[d]]
     /\ Quote(s.new)
     /\ UNCHANGED <<jobs, tasks>>

\* A transaction that fails, or whose process stops, leaves nothing.
Abort(s) ==
  /\ sessions' = sessions \ {s}
  /\ UNCHANGED <<documents, jobs, attachments, thread, tasks>>

-----------------------------------------------------------------------------
(* Reading.                                                                *)

SetJob(d, status) == jobs' = [jobs EXCEPT ![d].status = status, ![d].stamp = @ + 1]

\* The bulk update of the attachments, by job, does not change their stamp.
SetAttachment(d, status) ==
  attachments' = IF attachments[d].known
                   THEN [attachments EXCEPT ![d].status = status] ELSE attachments

\* The status of the job is not looked at.
BeginReading(d) ==
  /\ tasks[d].waiting > 0
  /\ tasks' = [tasks EXCEPT ![d].waiting = @ - 1]
  /\ SetJob(d, "processing")
  /\ sessions' = sessions \union
       {[kind |-> "reading", document |-> d, number |-> jobs[d].number,
         job |-> jobs[d].stamp + 1, stamp |-> documents[d].stamp]}
  /\ UNCHANGED <<documents, attachments, thread>>

\* The worker resumes the batch of the document next.
ThenResume(s) ==
  sessions' = (sessions \ {s}) \union {[kind |-> "resuming", document |-> s.document]}

\* The commit of a reading that something has overtaken fails.
ReadsCurrent(s) == jobs[s.document].stamp = s.job /\ documents[s.document].stamp = s.stamp

Read(s, extraction) ==
  LET d == s.document
  IN /\ s.kind = "reading" /\ ReadsCurrent(s)
     /\ documents' = [documents EXCEPT ![d].status = "validated_needs_review",
                        ![d].extraction = extraction, ![d].stamp = @ + 1]
     /\ SetJob(d, "completed")
     /\ SetAttachment(d, "needs_review")
     /\ ThenResume(s)
     /\ UNCHANGED <<thread, tasks>>

RejectDocument(s) ==
  LET d == s.document
  IN /\ s.kind = "reading" /\ ReadsCurrent(s)
     /\ documents' = [documents EXCEPT ![d].status = "quarantined_rejected", ![d].stamp = @ + 1]
     /\ SetJob(d, "failed")
     /\ SetAttachment(d, "failed")
     /\ ThenResume(s)
     /\ UNCHANGED <<thread, tasks>>

TimeOut(s) ==
  LET d == s.document
  IN /\ s.kind = "reading" /\ s.number = jobs[d].number
     /\ documents' = [documents EXCEPT ![d].status = "needs_manual_entry", ![d].stamp = @ + 1]
     /\ SetJob(d, "needs_manual_entry")
     /\ SetAttachment(d, "needs_review")
     /\ ThenResume(s)
     /\ UNCHANGED <<thread, tasks>>

\* Any other error, the failed commit among them, fails the job, also one
\* that another worker has completed.
FailReading(s) ==
  LET d == s.document
  IN /\ s.kind = "reading" /\ s.number = jobs[d].number
     /\ SetJob(d, "failed")
     /\ SetAttachment(d, "failed")
     /\ ThenResume(s)
     /\ UNCHANGED <<documents, thread, tasks>>

\* Jobs that nothing has moved for two minutes are sent again.
Recover(d) ==
  /\ jobs[d].status \in {"queued", "processing"}
  /\ MapThenSumSet(LAMBDA e : tasks[e].sent, Documents) < MaxReadings
  /\ SetJob(d, "queued")
  /\ SetAttachment(d, "retrying")
  /\ tasks' = [tasks EXCEPT ![d] = [waiting |-> @.waiting + 1, sent |-> @.sent + 1]]
  /\ UNCHANGED <<documents, thread, sessions>>

\* The batch of a document is continued under the lock of its thread when
\* no document of it is being read any more.
BatchReady(d) ==
  /\ attachments[d].known
  /\ thread.continuation = "processing"
  /\ \A e \in Documents : attachments[e].status \notin Unread

ContinueBatch ==
  LET rows == Tooled(attachments, {})
  IN /\ thread' = [continuation |-> Continuation(rows), stamp |-> thread.stamp + 1]
     /\ attachments' = rows
     /\ Quote(Unquoted(Links(attachments, {})))

Resume(s) ==
  /\ s.kind = "resuming"
  /\ IF BatchReady(s.document) THEN ContinueBatch ELSE UNCHANGED <<documents, attachments, thread>>
  /\ sessions' = sessions \ {s}
  /\ UNCHANGED <<jobs, tasks>>

\* The schedule looks for batches whose worker has not come to it.
ResumeReady(d) ==
  /\ BatchReady(d) /\ ContinueBatch
  /\ UNCHANGED <<jobs, tasks, sessions>>

-----------------------------------------------------------------------------
(* What the employee does about an attachment.                             *)

\* The stamps of the attachment count the resolutions.
BeginResolve(d) ==
  /\ attachments[d].status # "none"
  /\ attachments[d].stamp <= MaxRetries
  /\ ~ \E s \in sessions : s.kind = "resolving"
  /\ sessions' = sessions \union
       {[kind |-> "resolving", document |-> d, was |-> attachments,
         new |-> Unquoted({d}), seen |-> DocumentStamps]}
  /\ UNCHANGED <<documents, jobs, attachments, thread, tasks>>

\* A supplier without the role to link leaves the attachment queued.
CommitResolve(s, links) ==
  LET d == s.document
  IN /\ s.kind = "resolving"
     /\ Fresh({d}, s.was, IF links THEN s.new ELSE {}, s.seen)
     /\ attachments' = [attachments EXCEPT
          ![d].status = IF links THEN "linked" ELSE "queued",
          ![d].linked = @ \/ links, ![d].supplier = @ \/ links, ![d].stamp = @ + 1]
     /\ Quote(IF links THEN s.new ELSE {})
     /\ sessions' = sessions \ {s}
     /\ UNCHANGED <<jobs, thread, tasks>>

\* The attachment is given the id of the new job before it has one.
Retry(d) ==
  /\ attachments[d].status # "none"
  /\ jobs[d].status \in {"failed", "needs_manual_entry"}
  /\ MapThenSumSet(LAMBDA e : tasks[e].sent, Documents) < MaxReadings
  /\ jobs' = [jobs EXCEPT ![d] = [status |-> "queued", number |-> @.number + 1, stamp |-> @.stamp + 1]]
  /\ attachments' = [attachments EXCEPT ![d].status = "retrying", ![d].known = FALSE, ![d].stamp = @ + 1]
  /\ tasks' = [tasks EXCEPT ![d] = [waiting |-> @.waiting + 1, sent |-> @.sent + 1]]
  /\ UNCHANGED <<documents, thread, sessions>>

-----------------------------------------------------------------------------
BatchNext ==
  \/ \E n \in SUBSET Documents : BeginMessage(n)
  \/ \E d \in Documents :
       \/ BeginReading(d) \/ Recover(d) \/ ResumeReady(d)
       \/ BeginResolve(d) \/ Retry(d)
  \/ \E s \in sessions :
       \/ CommitMessage(s) \/ Abort(s) \/ Resume(s)
       \/ \E e \in {"named", "unnamed"} : Read(s, e)
       \/ RejectDocument(s) \/ TimeOut(s) \/ FailReading(s)
       \/ \E l \in BOOLEAN : CommitResolve(s, l)

\* Workers, schedules and open transactions go on; the employee need not.
BatchFairness ==
  /\ \A d \in Documents : WF_batchVars(BeginReading(d)) /\ WF_batchVars(ResumeReady(d))
  /\ WF_batchVars(\E s \in sessions :
       \/ CommitMessage(s) \/ Abort(s) \/ Resume(s)
       \/ Read(s, "named") \/ TimeOut(s) \/ FailReading(s))

BatchSpec == BatchInit /\ [][BatchNext]_batchVars /\ BatchFairness

-----------------------------------------------------------------------------
(* attach_uploaded_quote_documents: "One document represents one supplier  *)
(* quotation/revision", whichever of the messages, the resolutions and the *)
(* continuations of overlapping workers links it, and however often.       *)
OneQuotePerDocument == \A d \in Documents : documents[d].quotes <= 1

\* A batch that is reported complete has a quotation behind every document.
CompletedIsLinked ==
  thread.continuation = "completed" =>
    \A d \in Documents : attachments[d].linked /\ documents[d].quotes > 0

-----------------------------------------------------------------------------
(* process_document: "Once the last file in that immutable batch finishes, *)
(* resume the canonical quotation tool without asking the employee to type *)
(* another message or upload the files again."                             *)
BatchIsResumed == thread.continuation = "processing" ~> thread.continuation # "processing"

=============================================================================
