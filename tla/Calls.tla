------------------------------- MODULE Calls --------------------------------
(***************************************************************************)
(* CallService: one call, created, connected and ended by requests of its  *)
(* participants, with its row in calls, its state in Redis and its         *)
(* call:ended events.  A time stamp is named after the request that took   *)
(* it; the five minutes after which Redis forgets a state do not pass.     *)
(*                                                                         *)
(* Participants and quality metrics are beside the call, and a service of  *)
(* their own here: they read that the call exists, and nothing else of it. *)
(***************************************************************************)
EXTENDS Handlers

VARIABLES
  creator,    \* the request that inserted the row, Nobody before
  connected,  \* calls.connected_at, Nobody for NULL
  ended,      \* calls.ended_at, Nobody for NULL
  duration,   \* calls.duration_seconds: the times it lies between
  state,      \* the status in Redis, "none" without a state
  row,        \* the times in the row as each request last read them
  length,     \* the duration each request read for its event
  endEvents,  \* the call:ended events: who ended the call, and the duration
  metric      \* the request whose row is in call_quality_metrics

calls == <<creator, connected, ended, duration, state, row, length, endEvents>>

(* NULL, and the zero that GetCallDuration makes of it or of an error.     *)
NoDuration == <<Nobody, Nobody>>

CallsInit ==
  /\ \/ creator = Nobody /\ state = "none"
     \/ creator = Earlier /\ state \in {"none", "RINGING"} /\ service = "calls"
  /\ connected = Nobody
  /\ ended = Nobody
  /\ duration = NoDuration
  /\ row = [r \in Requests |-> NoDuration]
  /\ length = [r \in Requests |-> NoDuration]
  /\ endEvents = {}
  /\ metric = Nobody

Reading(r) == row' = [row EXCEPT ![r] = <<connected, ended>>]

-----------------------------------------------------------------------------

(* Create: the INSERT.                                                     *)
CreateCall(r) ==
  /\ creator = Nobody
  /\ Arrive(r, "calls", "create", "setState")
  /\ creator' = r
  /\ UNCHANGED <<connected, ended, duration, state, row, length, endEvents>>

(* CreateCallState, whose error is dropped.                                *)
SetState(r) ==
  /\ pc[r] = "setState"
  /\ \/ state' = "RINGING" /\ Goto(r, "ok")
     \/ UNCHANGED state /\ FailsOnTo(r, "ok")
  /\ UNCHANGED <<creator, connected, ended, duration, row, length, endEvents>>

(* The handler reads the call, and tests neither of its times.             *)
MarkConnected(r) ==
  /\ creator # Nobody
  /\ Arrive(r, "calls", "connect", "connect")
  /\ Reading(r)
  /\ UNCHANGED <<creator, connected, ended, duration, state, length, endEvents>>

Connect(r) ==
  /\ pc[r] = "connect"
  /\ connected' = r
  /\ Goto(r, "getState")
  /\ UNCHANGED <<creator, ended, duration, state, row, length, endEvents>>

(* UpdateCallStatus: GET, an error without a state, and SET.               *)
GetState(r) ==
  /\ pc[r] = "getState"
  /\ Goto(r, IF state = "none" THEN "failed" ELSE "putState")
  /\ UNCHANGED calls

PutState(r) ==
  /\ pc[r] = "putState"
  /\ state' = "CONNECTED"
  /\ Goto(r, "ok")
  /\ UNCHANGED <<creator, connected, ended, duration, row, length, endEvents>>

EndCall(r) ==
  /\ creator # Nobody
  /\ Arrive(r, "calls", "end", "readCall")
  /\ Reading(r)
  /\ UNCHANGED <<creator, connected, ended, duration, state, length, endEvents>>

(* The transaction of the repository's EndCall: a SELECT without a lock,   *)
(* and an UPDATE.                                                          *)
ReadCall(r) ==
  /\ pc[r] = "readCall"
  /\ Reading(r)
  /\ Goto(r, "writeEnd")
  /\ UNCHANGED <<creator, connected, ended, duration, state, length, endEvents>>

(* Slip: a duration that is there is kept.                                 *)
WriteEndOnce(r) ==
  /\ pc[r] = "writeEnd"
  /\ ended' = r
  /\ duration' = IF row[r][1] = Nobody \/ duration # NoDuration THEN duration
                 ELSE <<row[r][1], r>>
  /\ Goto(r, "removeState")
  /\ UNCHANGED <<creator, connected, state, row, length, endEvents>>

WriteEnd(r) ==
  /\ pc[r] = "writeEnd"
  /\ ended' = r
  /\ duration' = IF row[r][1] = Nobody THEN duration ELSE <<row[r][1], r>>
  /\ Goto(r, "removeState")
  /\ UNCHANGED <<creator, connected, state, row, length, endEvents>>

(* Slip: the state of a call that nobody answered is left.                 *)
RemoveStateIfAnswered(r) ==
  /\ pc[r] = "removeState"
  /\ state' = IF state = "CONNECTED" THEN "none" ELSE state
  /\ Goto(r, "readDuration")
  /\ UNCHANGED <<creator, connected, ended, duration, row, length, endEvents>>

(* RemoveCallState, whose error is dropped.                                *)
RemoveState(r) ==
  /\ pc[r] = "removeState"
  /\ \/ state' = "none" /\ Goto(r, "readDuration")
     \/ UNCHANGED state /\ FailsOnTo(r, "readDuration")
  /\ UNCHANGED <<creator, connected, ended, duration, row, length, endEvents>>

(* GetCallDuration, whose error is dropped.                                *)
ReadDuration(r) ==
  /\ pc[r] = "readDuration"
  /\ \/ length' = [length EXCEPT ![r] = duration] /\ Goto(r, "publishEnded")
     \/ UNCHANGED length /\ FailsOnTo(r, "publishEnded")
  /\ UNCHANGED <<creator, connected, ended, duration, state, row, endEvents>>

(* Slip: the duration is that of the call as the request first read it.    *)
PublishEndedAsRead(r) ==
  /\ pc[r] = "publishEnded"
  /\ endEvents' = endEvents \union {[by |-> r, duration |-> row[r]]}
  /\ Goto(r, "ok")
  /\ UNCHANGED <<creator, connected, ended, duration, state, row, length>>

(* PublishCallEnded, in a transaction of its own.                          *)
PublishEnded(r) ==
  /\ pc[r] = "publishEnded"
  /\ endEvents' = endEvents \union {[by |-> r, duration |-> length[r]]}
  /\ Goto(r, "ok")
  /\ UNCHANGED <<creator, connected, ended, duration, state, row, length>>

CallsStep(r) ==
  \/ CreateCall(r) \/ SetState(r)
  \/ MarkConnected(r) \/ Connect(r) \/ GetState(r) \/ PutState(r)
  \/ EndCall(r) \/ ReadCall(r) \/ WriteEnd(r) \/ RemoveState(r)
  \/ ReadDuration(r) \/ PublishEnded(r)

-----------------------------------------------------------------------------
(* Beside the call.                                                        *)

BesideCall == {"metric", "addParticipant", "removeParticipant", "status", "mute"}

AskBesideCall(r) ==
  /\ \E o \in BesideCall : Arrive(r, "metrics", o, o)
  /\ UNCHANGED metric

(* The INSERT, of a metric whose id nobody sets.                           *)
RecordQualityMetric(r) ==
  /\ pc[r] = "metric"
  /\ metric' = IF metric = Nobody THEN r ELSE metric
  /\ Goto(r, IF metric = Nobody THEN "ok" ELSE "failed")

(* AddParticipant counts the participants with status 'JOINED', which is   *)
(* no participant_call_status, so that PostgreSQL refuses the SELECT; and  *)
(* without participants the UPDATEs of the others find no row.             *)
ChangeParticipant(r) ==
  /\ pc[r] \in BesideCall \ {"metric"}
  /\ Goto(r, "failed")
  /\ UNCHANGED metric

CallsNext ==
  \E r \in Requests :
    \/ CallsStep(r) /\ UNCHANGED metric
    \/ /\ AskBesideCall(r) \/ RecordQualityMetric(r) \/ ChangeParticipant(r)
       /\ UNCHANGED calls

-----------------------------------------------------------------------------
(* What calls promise.                                                     *)

CallsTypeOK ==
  LET Time == Requests \union {Nobody} IN
  /\ {connected, ended} \subseteq Time
  /\ creator \in Time \union {Earlier}
  /\ duration \in Time \X Time
  /\ state \in {"none", "RINGING", "CONNECTED"}
  /\ row \in [Requests -> Time \X Time]
  /\ length \in [Requests -> Time \X Time]
  /\ metric \in Time
  /\ endEvents \subseteq [by : Requests, duration : Time \X Time]

(* The times and the duration in the row of an ended call (PostgreSQL      *)
(* keeps the three apart) agree, unless the call was connected while a     *)
(* request ended it, or by one that had read that it was over.             *)
DurationMatchesTimes ==
  ended # Nobody /\ duration # (IF connected = Nobody THEN NoDuration ELSE <<connected, ended>>)
    => \E p \in Requests :
         /\ op[p] = "connect"
         /\ row[p][2] # Nobody \/ \E q \in met[p] : op[q] = "end"

(* The call:ended event of the request that ended the call for good tells  *)
(* the duration in the row; it is only missing, or wrong, when the request *)
(* has not got there or had a statement fail.                              *)
EndAnnounced ==
  ended # Nobody /\ ended \notin faulted /\ ~ Active(ended)
    => [by |-> ended, duration |-> duration] \in endEvents

(* The state in Redis is gone when the call is over, unless the end was    *)
(* stopped, failed on it, or was overlapped by a request that writes it.   *)
StateEndsWithCall ==
  state # "none" /\ ended # Nobody =>
    \E q \in Requests :
      /\ op[q] = "end"
      /\ Active(q) \/ q \in faulted \/ \E p \in met[q] : op[p] \in {"create", "connect"}
=============================================================================
