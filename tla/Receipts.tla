------------------------------ MODULE Receipts ------------------------------
(***************************************************************************)
(* The receipts of two messages for one user, marked by the user's         *)
(* devices: MarkAsRead and MarkAsDelivered of MessageService, which mark   *)
(* one message and record an event, BulkMarkAsRead and                     *)
(* BulkMarkAsDelivered, which mark a list in the order of the caller, and  *)
(* MarkAsPlayed.  A mark is an UPDATE, and an INSERT when there was        *)
(* nothing to update; all but the last kind are transactions.  A time      *)
(* stamp is named after the request that took it.                          *)
(***************************************************************************)
EXTENDS Handlers, Sequences

VARIABLES
  receipt,  \* the committed rows of message_receipts
  draft,    \* each row as the open transaction that wrote it sees it
  writer,   \* the request whose transaction wrote a row, Nobody if none
  todo,     \* the messages each request has still to mark
  marks     \* the committed message:read and message:delivered events

receipts == <<receipt, draft, writer, todo, marks>>

Marked == {1, 2}  \* the messages
NoReceipt == [status |-> "none", delivered |-> Nobody, read |-> Nobody, played |-> Nobody]

(* The column a request writes.                                            *)
Column(r) == IF op[r] \in {"read", "bulkRead"} THEN "read" ELSE "delivered"

Marks == {"delivered", "read", "bulkDelivered", "bulkRead"}
Lists == {<<1>>, <<1, 2>>, <<2, 1>>}

ReceiptsInit ==
  /\ receipt = [i \in Marked |-> NoReceipt]
  /\ draft = [i \in Marked |-> NoReceipt]
  /\ writer = [i \in Marked |-> Nobody]
  /\ todo = [r \in Requests |-> <<>>]
  /\ marks = {}

(* Row w as MarkAsDelivered or MarkAsRead writes it.                       *)
MarkRow(r, w) ==
  IF Column(r) = "delivered"
  THEN [w EXCEPT !.status = "DELIVERED", !.delivered = r]
  ELSE [w EXCEPT !.status = "READ", !.read = r]

(* Slip: each mark is committed at once.                                   *)
WriteMarkAlone(r) ==
  LET i == Head(todo[r]) IN
  /\ writer[i] \in {Nobody, r}
  /\ receipt' = [receipt EXCEPT ![i] = MarkRow(r, receipt[i])]
  /\ todo' = [todo EXCEPT ![r] = Tail(@)]
  /\ Goto(r, IF Len(todo[r]) > 1 THEN "update" ELSE "record")
  /\ UNCHANGED <<draft, writer, marks>>

(* The first message of todo[r] is marked, in the transaction of r.        *)
WriteMark(r) ==
  LET i == Head(todo[r]) IN
  /\ writer[i] \in {Nobody, r}
  /\ writer' = [writer EXCEPT ![i] = r]
  /\ draft' = [draft EXCEPT ![i] = MarkRow(r, receipt[i])]
  /\ todo' = [todo EXCEPT ![r] = Tail(@)]
  /\ Goto(r, IF Len(todo[r]) > 1 THEN "update" ELSE "record")
  /\ UNCHANGED <<receipt, marks>>

(* The rows of r, committed or undone, are free.                           *)
Release(r) ==
  /\ writer' = [i \in Marked |-> IF writer[i] = r THEN Nobody ELSE writer[i]]
  /\ draft' = [i \in Marked |-> IF writer[i] = r THEN NoReceipt ELSE draft[i]]

Rollback(r) ==
  /\ Release(r)
  /\ UNCHANGED <<receipt, todo, marks>>

-----------------------------------------------------------------------------

Mark(r) ==
  /\ \E operation \in Marks, list \in Lists :
       /\ operation \in {"delivered", "read"} => list = <<1>>
       /\ Arrive(r, "receipts", operation, "update")
       /\ todo' = [todo EXCEPT ![r] = list]
  /\ UNCHANGED <<receipt, draft, writer, marks>>

(* The UPDATE waits for the transaction that updated the row, and does not *)
(* see a row that is inserted and not committed.                           *)
UpdateReceipt(r) ==
  /\ pc[r] = "update"
  /\ \/ receipt[Head(todo[r])] = NoReceipt /\ Goto(r, "insert") /\ UNCHANGED receipts
     \/ receipt[Head(todo[r])] # NoReceipt /\ WriteMark(r)

(* The INSERT waits for a transaction that inserted the row; a row that is *)
(* committed violates the primary key, and the transaction is rolled back. *)
CreateReceipt(r) ==
  /\ pc[r] = "insert"
  /\ \/ receipt[Head(todo[r])] = NoReceipt /\ WriteMark(r)
     \/ receipt[Head(todo[r])] # NoReceipt /\ Goto(r, "failed") /\ Rollback(r)

WaitsFor(q, r) ==
  /\ pc[q] \in {"update", "insert"}
  /\ pc[q] = "update" => receipt[Head(todo[q])] # NoReceipt
  /\ writer[Head(todo[q])] = r

(* PostgreSQL ends one of two transactions that wait for each other.       *)
Deadlock(r) ==
  /\ \E q \in Requests \ {r} : WaitsFor(q, r) /\ WaitsFor(r, q)
  /\ Goto(r, "failed")
  /\ Rollback(r)

(* PublishMessageRead or PublishMessageDelivered after the mark of one     *)
(* message, and the COMMIT.                                                *)
CommitMark(r) ==
  /\ pc[r] = "record"
  /\ receipt' = [i \in Marked |-> IF writer[i] = r THEN draft[i] ELSE receipt[i]]
  /\ Release(r)
  /\ marks' = IF op[r] \in {"delivered", "read"} THEN marks \union {<<op[r], r>>} ELSE marks
  /\ Goto(r, "ok")
  /\ UNCHANGED todo

AskPlayed(r) ==
  /\ Arrive(r, "receipts", "played", "play")
  /\ UNCHANGED receipts

(* The UPDATE is a transaction of its own, and answered even if there is   *)
(* no receipt.                                                             *)
MarkAsPlayed(r) ==
  /\ pc[r] = "play"
  /\ receipt[1] # NoReceipt => writer[1] = Nobody
  /\ receipt' = IF receipt[1] = NoReceipt THEN receipt ELSE [receipt EXCEPT ![1].played = r]
  /\ Goto(r, "ok")
  /\ UNCHANGED <<draft, writer, todo, marks>>

ReceiptsStep(r) ==
  \/ Mark(r) \/ UpdateReceipt(r) \/ CreateReceipt(r) \/ Deadlock(r) \/ CommitMark(r)
  \/ AskPlayed(r) \/ MarkAsPlayed(r)

ReceiptsNext == \E r \in Requests : ReceiptsStep(r)

-----------------------------------------------------------------------------
(* What receipts promise.                                                  *)

ReceiptsTypeOK ==
  LET Times == Requests \union {Nobody}
      Row == [status : {"none", "DELIVERED", "READ"},
              delivered : Times, read : Times, played : Times] IN
  /\ receipt \in [Marked -> Row]
  /\ draft \in [Marked -> Row]
  /\ writer \in [Marked -> Times]
  /\ todo \in [Requests -> Lists \union {<<>>, <<2>>}]
  /\ marks \subseteq {"delivered", "read"} \X Requests

(* A request that was answered left its event and its marks, and whatever  *)
(* was committed later left a time in their column; one that was refused   *)
(* or stopped left nothing, on no message of its list.                     *)
MarksAllOrNothing ==
  \A r \in Requests : op[r] \in Marks =>
    /\ pc[r] = "ok" =>
         /\ op[r] \in {"delivered", "read"} => <<op[r], r>> \in marks
         /\ receipt[1][Column(r)] # Nobody
    /\ pc[r] = "failed" =>
         /\ <<op[r], r>> \notin marks
         /\ \A i \in Marked : receipt[i][Column(r)] # r /\ writer[i] # r

(* A request that did not stop is only refused when another one created a  *)
(* receipt, or waited for it, while it was under way.                      *)
MarkRefusedOnlyByRace ==
  \A r \in Requests : op[r] \in Marks /\ pc[r] = "failed" /\ r \notin faulted =>
    \E q \in met[r] : pc[q] = "ok" \/ op[q] \in {"bulkDelivered", "bulkRead"}

(* MarkAsRead, MarkAsDelivered and the bulk marks: what was answered is    *)
(* what is there, and refusals are races.                                  *)
MarksHold == MarksAllOrNothing /\ MarkRefusedOnlyByRace
=============================================================================
