------------------------------ MODULE Workspace ------------------------------
(***************************************************************************)
(* Two things every change of a workspace goes through.  A request that    *)
(* changes anything carries a key: it reserves a record under the key,     *)
(* does its work, and keeps its answer, which a repeated request is given. *)
(* And people join by invitations, which are sent, sent again, taken back  *)
(* and accepted in requests that overlap; the rows carry no version.       *)
(***************************************************************************)
EXTENDS Integers, Sequences, FiniteSets

CONSTANTS
  Sends,            \* requests sent under one key
  Bodies,           \* what they ask for
  People,           \* addresses that are invited
  Desks,            \* requests about invitations under way
  MaxInvitations,   \* bound: invitations
  MaxResends        \* bound: tokens of an invitation

ASSUME WorkspaceAssumption == MaxInvitations \in Nat /\ MaxResends \in Nat

VARIABLES
  record,       \* what is kept under the key
  sends,        \* the requests and their answers
  done,         \* requests whose work is committed
  invitations,  \* address, status and token of each invitation
  desks,        \* requests about invitations, with what they have read
  members,      \* the invitations by which people became members
  letters       \* letters queued: invitation and token

requestVars == <<record, sends, done>>
invitationVars == <<invitations, desks, members, letters>>
workspaceVars == <<requestVars, invitationVars>>

NoRecord == [status |-> "none"]
Unsent == [at |-> "unsent"]
FreeDesk == [doing |-> "nothing"]

WorkspaceInit ==
  /\ record = NoRecord
  /\ sends = [s \in Sends |-> Unsent]
  /\ done = {}
  /\ invitations = <<>> /\ desks = [d \in Desks |-> FreeDesk] /\ members = {} /\ letters = {}

-----------------------------------------------------------------------------
(* Requests under one key.                                                 *)

Put(s, at, fields) == sends' = [sends EXCEPT ![s] = [at |-> at, body |-> fields.body, answer |-> fields.answer]]

\* The record is looked up: another body is a conflict, an answer is given again.
Arrive(s, body) ==
  /\ sends[s] = Unsent
  /\ CASE record.status = "none" -> Put(s, "checked", [body |-> body, answer |-> <<"none">>])
       [] record.status # "none" /\ record.body # body -> Put(s, "answered", [body |-> body, answer |-> <<"conflict">>])
       [] record.status = "completed" /\ record.body = body -> Put(s, "answered", [body |-> body, answer |-> record.answer])
       [] OTHER -> Put(s, "answered", [body |-> body, answer |-> <<"busy">>])
  /\ UNCHANGED <<record, done, invitationVars>>

\* Mutant: two records can be kept under one key.
VacantAlways == TRUE

\* One record is kept under a key.
Vacant == record = NoRecord

Reserve(s) ==
  /\ sends[s].at = "checked"
  /\ IF Vacant
       THEN /\ record' = [status |-> "processing", body |-> sends[s].body, by |-> s]
            /\ Put(s, "working", sends[s])
       ELSE /\ Put(s, "answered", [sends[s] EXCEPT !.answer = <<"busy">>])
            /\ UNCHANGED record
  /\ UNCHANGED <<done, invitationVars>>

\* The work is committed or not, whatever the answer to it will be.
Handle(s, answer, committed) ==
  /\ sends[s].at = "working"
  /\ answer = "ok" => committed
  /\ answer = "refused" => ~ committed
  /\ Put(s, "worked", [sends[s] EXCEPT !.answer = <<answer, s>>])
  /\ done' = IF committed THEN done \cup {s} ELSE done
  /\ UNCHANGED <<record, invitationVars>>

\* The record goes after an error and keeps any other answer.
Settle(s) ==
  /\ sends[s].at = "worked"
  /\ record' = IF record.status = "none" \/ record.by # s THEN record
               ELSE IF sends[s].answer[1] = "error" THEN NoRecord
               ELSE [status |-> "completed", body |-> sends[s].body, by |-> s, answer |-> sends[s].answer]
  /\ Put(s, "answered", sends[s])
  /\ UNCHANGED <<done, invitationVars>>

\* The process ends, or the client goes: what has been reserved stays.
Vanish(s) ==
  /\ sends[s].at \in {"checked", "working", "worked"}
  /\ Put(s, "lost", sends[s])
  /\ UNCHANGED <<record, done, invitationVars>>

RequestNext ==
  \E s \in Sends :
    \/ \E body \in Bodies : Arrive(s, body)
    \/ Reserve(s) \/ Settle(s) \/ Vanish(s)
    \/ \E answer \in {"ok", "refused", "error"}, committed \in BOOLEAN : Handle(s, answer, committed)

-----------------------------------------------------------------------------
(* Invitations.                                                            *)

Pending == {i \in DOMAIN invitations : invitations[i].status = "pending"}

Take(d, doing, about) ==
  /\ desks[d] = FreeDesk
  /\ desks' = [desks EXCEPT ![d] = [doing |-> doing, about |-> about]]
  /\ UNCHANGED <<requestVars, invitations, members, letters>>

\* What a request has to find before it writes.
StartInvite(d, p) ==
  /\ \A i \in Pending : invitations[i].person # p
  /\ Take(d, "invite", p)

StartResend(d, i) == i \in Pending /\ Take(d, "resend", i)

StartRevoke(d, i) == i \in Pending /\ Take(d, "revoke", i)

\* With the token of a letter, while it is the one in force.
StartAccept(d, letter) ==
  /\ letter.of \in Pending /\ invitations[letter.of].token = letter.token
  /\ \A m \in members : invitations[m].person # invitations[letter.of].person
  /\ Take(d, "accept", letter.of)

Letter(i, token) == [of |-> i, token |-> token]

FinishInvite(d) ==
  /\ Len(invitations) < MaxInvitations
  /\ invitations' = Append(invitations, [person |-> desks[d].about, status |-> "pending", token |-> 1])
  /\ letters' = letters \cup {Letter(Len(invitations'), 1)}
  /\ UNCHANGED members

FinishResend(d) ==
  LET i == desks[d].about
  IN /\ invitations[i].token < MaxResends
     /\ invitations' = [invitations EXCEPT ![i].token = @ + 1]
     /\ letters' = letters \cup {Letter(i, invitations'[i].token)}
     /\ UNCHANGED members

FinishRevoke(d) ==
  /\ invitations' = [invitations EXCEPT ![desks[d].about].status = "revoked"]
  /\ UNCHANGED <<members, letters>>

\* An account is a member of a workspace once.
FinishAccept(d) ==
  LET i == desks[d].about
  IN /\ \A m \in members : invitations[m].person # invitations[i].person
     /\ invitations' = [invitations EXCEPT ![i].status = "accepted"]
     /\ members' = members \cup {i}
     /\ UNCHANGED letters

\* A request commits what it set out to do, or fails and changes nothing.
Finish(d) ==
  /\ CASE desks[d].doing = "invite" -> FinishInvite(d) [] desks[d].doing = "resend" -> FinishResend(d)
       [] desks[d].doing = "revoke" -> FinishRevoke(d) [] desks[d].doing = "accept" -> FinishAccept(d)
       [] OTHER -> FALSE
  /\ desks' = [desks EXCEPT ![d] = FreeDesk]
  /\ UNCHANGED requestVars

Fail(d) ==
  /\ desks[d] # FreeDesk
  /\ desks' = [desks EXCEPT ![d] = FreeDesk]
  /\ UNCHANGED <<requestVars, invitations, members, letters>>

InvitationNext ==
  \E d \in Desks :
    \/ \E p \in People : StartInvite(d, p)
    \/ \E i \in DOMAIN invitations : StartResend(d, i) \/ StartRevoke(d, i)
    \/ \E letter \in letters : StartAccept(d, letter)
    \/ Finish(d) \/ Fail(d)

WorkspaceNext == RequestNext \/ InvitationNext

WorkspaceSpec == WorkspaceInit /\ [][WorkspaceNext]_workspaceVars

-----------------------------------------------------------------------------
\* Whoever repeats a request gets the answer of the one that did the work: no
\* two requests under a key are answered as if each had done it.
SameAnswer ==
  \A s, t \in Sends :
    sends[s].at = "answered" /\ sends[t].at = "answered"
      /\ sends[s].answer[1] \in {"ok", "refused"} /\ sends[t].answer[1] \in {"ok", "refused"}
    => sends[s].answer = sends[t].answer

\* The work of a key is done once: not when an answer is an error after it.
DoneOnce == Cardinality(done) <= 1

\* A request whose record another has left behind can be answered: it never is,
\* for nothing removes the record.
ReservedIsHeld ==
  record.status = "processing" => sends[record.by].at \in {"working", "worked"}

\* An address is not invited twice at a time.
InvitedOnce == \A i, j \in Pending : invitations[i].person = invitations[j].person => i = j

\* An invitation that was taken back makes nobody a member, nor has made one.
RevokedAdmitsNobody == \A m \in members : invitations[m].status # "revoked"
=============================================================================
