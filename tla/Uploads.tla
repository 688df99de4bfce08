-------------------------------- MODULE Uploads --------------------------------
(***************************************************************************)
(* UploadS3Service on one upload: its row in upload_sessions, from the     *)
(* presigned URL the client is given to the completion it reports.  The    *)
(* bytes go from the client to S3 and are not seen by the server; what a   *)
(* client reports of them is named after its request.                      *)
(***************************************************************************)
EXTENDS Handlers

VARIABLES
  session,  \* the row, NoSession without one
  held      \* the row each request has read

uploads == <<session, held>>

NoSession == [status |-> "none", name |-> Nobody, bytes |-> Nobody, url |-> FALSE, done |-> FALSE]

UploadsInit ==
  /\ session = NoSession
  /\ held = [r \in Requests |-> NoSession]

Asking(r, operation, first) ==
  /\ Arrive(r, "uploads", operation, first)
  /\ UNCHANGED uploads

(* An UPDATE or DELETE of the row by its id, and the rows it affected.     *)
Set(r, new) ==
  /\ session' = IF session = NoSession THEN NoSession ELSE new
  /\ Goto(r, IF session = NoSession THEN "failed" ELSE "ok")
  /\ UNCHANGED held

Read(r) ==
  /\ held' = [held EXCEPT ![r] = session]
  /\ UNCHANGED session

-----------------------------------------------------------------------------

AskCreate(r) ==
  /\ \A q \in Requests : op[q] # "createUpload"
  /\ Asking(r, "createUpload", "presign")

(* CreatePresignedUpload asks S3 for the URL before it inserts the row.    *)
Presign(r) ==
  /\ pc[r] = "presign"
  /\ Goto(r, "insertUpload")
  /\ UNCHANGED uploads

InsertUpload(r) ==
  /\ pc[r] = "insertUpload"
  /\ session' = [NoSession EXCEPT !.status = "IN_PROGRESS"]
  /\ Goto(r, "ok")
  /\ UNCHANGED held

AskRename(r) == Asking(r, "rename", "readUpload")

(* GetByID, of Update and of MarkCompletedWithS3; an upload that is        *)
(* completed already is answered as it is.                                 *)
ReadUpload(r) ==
  /\ pc[r] = "readUpload"
  /\ Read(r)
  /\ Goto(r, IF session = NoSession THEN "failed"
             ELSE IF op[r] = "complete" /\ session.status = "COMPLETED" THEN "ok"
             ELSE "saveUpload")

AskComplete(r) == Asking(r, "complete", "readUpload")

(* The struct that MarkCompletedWithS3 saves; the bytes stay as they are,  *)
(* and there is a URL only where the storage has a public one.             *)
CompletedStruct(r) ==
  {[held[r] EXCEPT !.status = "COMPLETED", !.done = TRUE, !.url = @ \/ u] : u \in BOOLEAN}

(* Update writes every column of the struct.                               *)
SaveUpload(r) ==
  /\ pc[r] = "saveUpload"
  /\ \E new \in IF op[r] = "complete" THEN CompletedStruct(r)
                ELSE {[held[r] EXCEPT !.name = r]} : Set(r, new)

AskProgress(r) == Asking(r, "progress", "setBytes")

UpdateProgress(r) ==
  /\ pc[r] = "setBytes"
  /\ Set(r, [session EXCEPT !.bytes = r])

AskFail(r) == Asking(r, "fail", "setFailed")

(* Whatever the status is.                                                 *)
MarkUploadFailed(r) ==
  /\ pc[r] = "setFailed"
  /\ Set(r, [session EXCEPT !.status = "FAILED"])

AskDeleteUpload(r) == Asking(r, "deleteUpload", "dropUpload")

DeleteUpload(r) ==
  /\ pc[r] = "dropUpload"
  /\ Set(r, NoSession)

AskStale(r) == Asking(r, "stale", "dropStale")

(* Slip: the clean-up does not look at the status.                         *)
DropStaleAny(r) ==
  /\ pc[r] = "dropStale"
  /\ session' = NoSession
  /\ Goto(r, "ok")
  /\ UNCHANGED held

(* The age is the caller's, zero if it gives none, so any upload in        *)
(* progress may be old enough.                                             *)
DeleteStaleUploads(r) ==
  /\ pc[r] = "dropStale"
  /\ session' \in {session} \union (IF session.status = "IN_PROGRESS" THEN {NoSession} ELSE {})
  /\ Goto(r, "ok")
  /\ UNCHANGED held

UploadsStep(r) ==
  \/ AskCreate(r) \/ Presign(r) \/ InsertUpload(r) \/ AskRename(r) \/ ReadUpload(r)
  \/ AskComplete(r) \/ SaveUpload(r) \/ AskProgress(r) \/ UpdateProgress(r)
  \/ AskFail(r) \/ MarkUploadFailed(r) \/ AskDeleteUpload(r) \/ DeleteUpload(r)
  \/ AskStale(r) \/ DeleteStaleUploads(r)

UploadsNext == \E r \in Requests : UploadsStep(r)

-----------------------------------------------------------------------------
(* What uploads promise.                                                   *)

UploadsTypeOK ==
  LET Session == [status : {"none", "IN_PROGRESS", "COMPLETED", "FAILED"},
                  name : Requests \union {Nobody}, bytes : Requests \union {Nobody},
                  url : BOOLEAN, done : BOOLEAN] IN
  /\ session \in Session
  /\ held \in [Requests -> Session]

(* A completion that was answered stays, with its time: no clean-up takes  *)
(* the upload and nothing makes it unfinished again, unless an Update that *)
(* overlapped the completion wrote back what it had read; otherwise the    *)
(* upload was deleted or reported as failed.                               *)
CompletionIsKept ==
  /\ session.status = "COMPLETED" => session.done
  /\ \A r \in Requests : op[r] = "complete" /\ pc[r] = "ok" =>
       \/ session.status = "COMPLETED"
       \/ \E q \in Requests : op[q] \in {"deleteUpload", "fail"} /\ pc[q] = "ok"
       \/ \E q \in met[r] : op[q] = "rename"
=============================================================================
