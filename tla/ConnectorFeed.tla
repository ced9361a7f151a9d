---------------------------- MODULE ConnectorFeed ---------------------------
(***************************************************************************)
(* Records that come in from outside: synchronisation jobs that pull a     *)
(* stream behind a cursor, and messages that an edge gateway keeps until   *)
(* the platform has accepted them.                                         *)
(***************************************************************************)
EXTENDS Integers, Sequences, FiniteSets, FiniteSetsExt

CONSTANTS
  MaxStream,    \* bound: records of the stream
  MaxSyncs,     \* bound: jobs
  PullLimit,    \* records the source returns at once
  LookBack,     \* finished jobs among which the last cursor is looked for
  MaxAlarms     \* bound: messages of the gateway

ASSUME ConnectorAssumption ==
  /\ MaxStream \in Nat /\ MaxSyncs \in Nat /\ MaxAlarms \in Nat
  /\ PullLimit \in Nat \ {0} /\ LookBack \in Nat \ {0}

\* What a record of the stream is: it can be evaluated, its evaluation raises
\* an error, or it refers to an order that may not have come in yet.
RecordKinds == {"fine", "odd", "early"}

VARIABLES
  stream,      \* the records the source has, in order; the place is the key
  orderKnown,  \* the order that early records refer to exists
  connection,  \* mode of the connection: "live" or "disconnected"
  syncJobs,    \* jobs: dataset, status, cursor they ended at, keys reported as errors
  finished,    \* the jobs that finished, oldest first
  points,      \* keys of the records that were stored
  evaluated,   \* keys of the records the detectors have looked at
  spool,       \* messages the gateway keeps
  sentOut,     \* requests of the gateway on their way: copies of messages
  alarms,      \* messages the platform has acted on, in that order
  raised       \* messages the gateway has produced

feedState == <<stream, orderKnown, points, evaluated>>
edgeVars == <<spool, sentOut, alarms, raised>>
connectorVars == <<feedState, connection, syncJobs, finished, edgeVars>>

-----------------------------------------------------------------------------
Datasets == {"actuals", "other"}

ConnectorInit ==
  /\ stream = <<>> /\ orderKnown = FALSE /\ connection = "live"
  /\ syncJobs = <<>> /\ finished = <<>> /\ points = {} /\ evaluated = {}
  /\ spool = {} /\ sentOut = {} /\ alarms = <<>> /\ raised = 0

Produce(kind) ==
  /\ Len(stream) < MaxStream
  /\ stream' = Append(stream, kind)
  /\ UNCHANGED <<orderKnown, connection, syncJobs, finished, points, evaluated, edgeVars>>

OrderArrives ==
  /\ ~ orderKnown
  /\ orderKnown' = TRUE
  /\ UNCHANGED <<stream, connection, syncJobs, finished, points, evaluated, edgeVars>>

SetMode(mode) ==
  /\ connection # mode
  /\ connection' = mode
  /\ UNCHANGED <<feedState, syncJobs, finished, edgeVars>>

Queue(dataset) ==
  /\ Len(syncJobs) < MaxSyncs
  /\ syncJobs' = Append(syncJobs, [dataset |-> dataset, status |-> "queued", cursor |-> 0, errors |-> {}])
  /\ UNCHANGED <<feedState, connection, finished, edgeVars>>

\* Nobody queues again a job whose worker was lost.
SyncNow(dataset) == connection = "live" /\ Queue(dataset)

\* The schedule does not look at the mode of the connection.
ScheduleSync(dataset) == Queue(dataset)

-----------------------------------------------------------------------------
(* One job: it runs alone in its tenant, in one transaction.               *)

Counted(status) == status \in {"completed", "completed_with_errors"}

\* The places of the last jobs that count.
Recent ==
  LET counted == {i \in DOMAIN finished : Counted(syncJobs[finished[i]].status)}
  IN {i \in counted : Cardinality({k \in counted : k > i}) < LookBack}

\* The newest cursor for the dataset among them; without one the stream is
\* read from its start again.
PriorCursor(dataset) ==
  LET own == {i \in Recent : syncJobs[finished[i]].dataset = dataset}
  IN IF own = {} THEN 0 ELSE syncJobs[finished[Max(own)]].cursor

New(pulled) == pulled \ points

\* The records that can be stored.
Storable(new) == {key \in new : stream[key] = "early" => orderKnown}

Finish(j, status, cursor, errors) ==
  /\ syncJobs' = [syncJobs EXCEPT ![j] = [@ EXCEPT !.status = status, !.cursor = cursor, !.errors = errors]]
  /\ finished' = Append(finished, j)

\* The source is not reached, or the connection is disconnected.
FailSync(j) ==
  /\ syncJobs[j].status = "queued"
  /\ Finish(j, "failed", 0, {})
  /\ UNCHANGED <<feedState, connection, edgeVars>>

\* Records are stored one by one, an error costs one record.  They are then
\* evaluated in turn: an error there fails the job, and what was stored is
\* committed with it.
RunSync(j) ==
  LET dataset == syncJobs[j].dataset
      from == PriorCursor(dataset)
      upto == Min({from + PullLimit, Len(stream)})
      pulled == IF dataset = "actuals" THEN (from + 1)..upto ELSE {}
      stored == Storable(New(pulled))
      odd == {key \in stored : stream[key] = "odd"}
  IN /\ syncJobs[j].status = "queued" /\ connection = "live"
     /\ points' = points \union stored
     /\ IF odd = {}
          THEN /\ evaluated' = evaluated \union stored
               /\ Finish(j, IF New(pulled) = stored THEN "completed" ELSE "completed_with_errors",
                         IF dataset = "actuals" THEN upto ELSE 0, New(pulled) \ stored)
          ELSE /\ evaluated' = evaluated \union {key \in stored : key < Min(odd)}
               /\ Finish(j, "failed", 0, {})
     /\ UNCHANGED <<stream, orderKnown, connection, edgeVars>>

-----------------------------------------------------------------------------
(* The edge gateway: messages stay in its store until they are accepted.   *)

Raise ==
  /\ raised < MaxAlarms
  /\ raised' = raised + 1
  /\ spool' = spool \union {raised + 1}
  /\ UNCHANGED <<feedState, connection, syncJobs, finished, sentOut, alarms>>

\* A message is sent again although an earlier request may still be on its way.
Flush(m) ==
  /\ m \notin sentOut
  /\ sentOut' = sentOut \union {m}
  /\ UNCHANGED <<feedState, connection, syncJobs, finished, spool, alarms, raised>>

\* Mutant: the gateway forgets what has been answered, whatever the answer.
DoneAlways(accepted, heard) == heard

\* What the gateway may forget: the answer has come and says so.
Done(accepted, heard) == accepted /\ heard

\* The platform refuses a gateway it does not know, or an asset it does not
\* have; it acts on a message once, and accepts it again when it comes again.
Serve(m, accepted, heard) ==
  /\ sentOut' = sentOut \ {m}
  /\ alarms' = IF accepted /\ ~ \E i \in DOMAIN alarms : alarms[i] = m THEN Append(alarms, m) ELSE alarms
  /\ spool' = IF Done(accepted, heard) THEN spool \ {m} ELSE spool
  /\ UNCHANGED <<feedState, connection, syncJobs, finished, raised>>

StreamNext ==
  \/ \E kind \in RecordKinds : Produce(kind)
  \/ OrderArrives
  \/ \E mode \in {"live", "disconnected"} : SetMode(mode)
  \/ \E dataset \in Datasets : SyncNow(dataset) \/ ScheduleSync(dataset)
  \/ \E j \in DOMAIN syncJobs : RunSync(j) \/ FailSync(j)

EdgeNext ==
  \/ Raise
  \/ \E m \in spool : Flush(m)
  \/ \E m \in sentOut, accepted, heard \in BOOLEAN : Serve(m, accepted, heard)

ConnectorNext == StreamNext \/ EdgeNext

ConnectorSpec == ConnectorInit /\ [][ConnectorNext]_connectorVars

-----------------------------------------------------------------------------
\* A record the cursor has passed was stored, or a job reported it; a message
\* of the gateway is in its store until the platform has acted on it.
NothingIsLost ==
  /\ \A key \in 1..PriorCursor("actuals") :
       key \in points \/ \E j \in DOMAIN syncJobs : key \in syncJobs[j].errors
  /\ \A m \in 1..raised : m \in spool \/ \E i \in DOMAIN alarms : alarms[i] = m

\* What is stored is evaluated: it is not when its job fails in between, and
\* later jobs take it for a duplicate.
StoredIsEvaluated == points \subseteq evaluated

\* A record that came before its order is stored once the order is known: it
\* is not when the cursor has passed it.
EarlyIsRetried ==
  [][\A j \in DOMAIN syncJobs :
       syncJobs[j].status = "queued" /\ syncJobs'[j].status = "completed" /\ orderKnown =>
         1..PriorCursor("actuals")' \subseteq points']_connectorVars
=============================================================================
