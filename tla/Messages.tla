------------------------------- MODULE Messages -------------------------------
(***************************************************************************)
(* The messages of one conversation after they were sent: their deletion,  *)
(* the rows that hang on them, and a client that reads the history page by *)
(* page.  A message is named by a number; those of the beginning are       *)
(* numbered from 1, and their sequence numbers are the same.               *)
(*                                                                         *)
(* A send is one step here (MessageSend has its statements).  Its Update   *)
(* leaves seq_id NULL, which is 0 in an answer.  What hangs on a message   *)
(* and the history never meet, so a behaviour is of one of them (the       *)
(* services "hanging" and "messages").                                     *)
(***************************************************************************)
EXTENDS Handlers

CONSTANTS
  SeededCount,   \* bound: the messages of the conversation at the beginning
  MessageCount,  \* bound: those and the sends of a behaviour
  PageSize       \* limit: the messages a page of the history has at most

ASSUME MessagesAssumption ==
  /\ SeededCount \in Nat \ {0} /\ MessageCount \in Nat /\ SeededCount <= MessageCount
  /\ PageSize \in Nat \ {0}

VARIABLES
  rows,     \* messages
  hanging,  \* the tables with a row of one user on message 1
  target,   \* the message each request is about
  walk      \* how far each reader of the history has come

messages == <<rows, hanging, target, walk>>

Seeded == 1 .. SeededCount
Messages == 1 .. MessageCount
Numbers == 0 .. SeededCount  \* seq_id
NoMessage == [there |-> FALSE, seq |-> 0, deleted |-> FALSE]
NoWalk == [shown |-> {}, again |-> {}, before |-> 0, offered |-> {}]

MessagesInit ==
  /\ rows = [i \in Messages |->
               IF i \in Seeded THEN [there |-> TRUE, seq |-> i, deleted |-> FALSE] ELSE NoMessage]
  /\ hanging = {}
  /\ target = [r \in Requests |-> 1]
  /\ walk = [r \in Requests |-> NoWalk]

Deletions == {"softDelete", "hardDelete"}

AsksMessage(r, group, operation) ==
  /\ Arrive(r, group, operation, operation)
  /\ UNCHANGED messages

-----------------------------------------------------------------------------
(* Sending and deleting.                                                   *)

AskSend(r) == AsksMessage(r, "messages", "send")

Send(r) ==
  /\ pc[r] = "send"
  /\ \E i \in Messages \ Seeded :
       /\ ~rows[i].there
       /\ \A j \in Messages \ Seeded : j < i => rows[j].there
       /\ rows' = [rows EXCEPT ![i] = [NoMessage EXCEPT !.there = TRUE]]
  /\ Goto(r, "ok")
  /\ UNCHANGED <<hanging, target, walk>>

AskDeletion(r) ==
  /\ \E group \in {"messages", "hanging"}, operation \in {"softDelete", "hardDelete"} :
       Arrive(r, group, operation, operation)
  /\ \E i \in Seeded : target' = [target EXCEPT ![r] = i]
  /\ UNCHANGED <<rows, hanging, walk>>

(* Row i as a statement leaves it, if there is one.                        *)
WriteMessage(r, i, new) ==
  /\ rows' = IF rows[i].there THEN [rows EXCEPT ![i] = new] ELSE rows
  /\ Goto(r, IF rows[i].there THEN "ok" ELSE "failed")

SoftDelete(r) ==
  /\ pc[r] = "softDelete"
  /\ WriteMessage(r, target[r], [rows[target[r]] EXCEPT !.deleted = TRUE])
  /\ UNCHANGED <<hanging, target, walk>>

(* The rows that hang on the message go with it.                           *)
HardDelete(r) ==
  /\ pc[r] = "hardDelete"
  /\ WriteMessage(r, target[r], NoMessage)
  /\ hanging' = IF target[r] = 1 THEN {} ELSE hanging
  /\ UNCHANGED <<target, walk>>

-----------------------------------------------------------------------------
(* Reactions, stars, votes and mentions: one INSERT or DELETE each, under  *)
(* the key of its table.                                                   *)

InsertHanging(r, operation, table) ==
  LET good == rows[1].there /\ table \notin hanging IN
  /\ pc[r] = operation
  /\ hanging' = IF good THEN hanging \union {table} ELSE hanging
  /\ Goto(r, IF good THEN "ok" ELSE "failed")
  /\ UNCHANGED <<rows, target, walk>>

DeleteHanging(r, operation, table) ==
  /\ pc[r] = operation
  /\ hanging' = hanging \ {table}
  /\ Goto(r, IF table \in hanging THEN "ok" ELSE "failed")
  /\ UNCHANGED <<rows, target, walk>>

AskHanging(r) ==
  \E operation \in {"react", "unreact", "star", "unstar", "vote", "unvote", "mention"} :
    AsksMessage(r, "hanging", operation)

AddReaction(r) == InsertHanging(r, "react", "reaction")
RemoveReaction(r) == DeleteHanging(r, "unreact", "reaction")
StarMessage(r) == InsertHanging(r, "star", "star")
UnstarMessage(r) == DeleteHanging(r, "unstar", "star")
VotePoll(r) == InsertHanging(r, "vote", "vote")  \* neither closes_at nor allows_multiple is read
RemoveVote(r) == DeleteHanging(r, "unvote", "vote")
AddMention(r) == InsertHanging(r, "mention", "mention")

-----------------------------------------------------------------------------
(* The history.  A client asks for the newest page, then for the page      *)
(* before the last message it was given, until a page is not full.         *)

Listed(i) == rows[i].there /\ ~rows[i].deleted

(* NULL comes first in a descending order, and is smaller than nothing.    *)
Newer(i, j) == rows[i].seq = 0 \/ (rows[j].seq # 0 /\ rows[i].seq > rows[j].seq)

(* Slip: the message the client has already is listed again.               *)
CandidatesUpTo(before) == {i \in Messages : Listed(i) /\ (before > 0 => rows[i].seq \in 1 .. before)}

Candidates(before) == {i \in Messages : Listed(i) /\ (before > 0 => rows[i].seq \in 1 .. before - 1)}

Pages(before) ==
  {P \in SUBSET Candidates(before) :
     /\ Cardinality(P) <= PageSize
     /\ Cardinality(P) < PageSize => P = Candidates(before)
     /\ \A i \in P, j \in Candidates(before) \ P : Newer(i, j)}

AskHistory(r) ==
  /\ Arrive(r, "messages", "history", "page")
  /\ walk' = [walk EXCEPT ![r].offered = {i \in Messages : Listed(i) /\ rows[i].seq # 0}]
  /\ UNCHANGED <<rows, hanging, target>>

(* A page of messages without a number ends the walk: the client cannot    *)
(* name the page before it.                                                *)
GetConversationMessages(r) ==
  /\ pc[r] = "page"
  /\ \E P \in Pages(walk[r].before) :
       LET numbers == {rows[i].seq : i \in P} \ {0} IN
       /\ walk' = [walk EXCEPT ![r].shown = @ \union P,
                               ![r].again = @ \union (P \intersect walk[r].shown),
                               ![r].before = IF numbers = {} THEN 0
                                             ELSE CHOOSE n \in numbers : \A k \in numbers : n <= k]
       /\ Goto(r, IF Cardinality(P) < PageSize THEN "ok"
                  ELSE IF numbers = {} THEN "failed" ELSE "page")
  /\ UNCHANGED <<rows, hanging, target>>

MessagesStep(r) ==
  \/ AskSend(r) \/ Send(r) \/ AskDeletion(r) \/ SoftDelete(r) \/ HardDelete(r)
  \/ AskHanging(r) \/ AddReaction(r) \/ RemoveReaction(r) \/ StarMessage(r) \/ UnstarMessage(r)
  \/ VotePoll(r) \/ RemoveVote(r) \/ AddMention(r)
  \/ AskHistory(r) \/ GetConversationMessages(r)

MessagesNext == \E r \in Requests : MessagesStep(r)

-----------------------------------------------------------------------------
(* What messages promise.                                                  *)

MessagesTypeOK ==
  /\ rows \in [Messages -> [there : BOOLEAN, seq : Numbers, deleted : BOOLEAN]]
  /\ hanging \subseteq {"reaction", "star", "vote", "mention"}
  /\ target \in [Requests -> Seeded]
  /\ walk \in [Requests -> [shown : SUBSET Messages, again : SUBSET Messages,
                            before : Numbers, offered : SUBSET Messages]]

(* A client that reads the history to its end, while messages are sent and *)
(* deleted, is shown each message that had a number when it began and that *)
(* no request deletes, and none twice.                                     *)
HistoryComplete ==
  \A r \in Requests : op[r] = "history" /\ pc[r] = "ok" =>
    /\ walk[r].again = {}
    /\ \A i \in walk[r].offered \ walk[r].shown :
         \E q \in Requests : op[q] \in Deletions /\ target[q] = i

(* The clients of reactions, stars and votes are answered as if one spoke  *)
(* after the other: while the message is there, a row is there exactly if  *)
(* one more addition than removal was answered.                            *)
HangingAddsUp ==
  rows[1].there =>
    \A names \in {<<"react", "unreact", "reaction">>, <<"star", "unstar", "star">>,
                  <<"vote", "unvote", "vote">>} :
      LET Answered(o) == Cardinality({r \in Requests : op[r] = o /\ pc[r] = "ok"}) IN
      Answered(names[1]) = Answered(names[2]) + (IF names[3] \in hanging THEN 1 ELSE 0)

(* The history that GetConversationMessages pages through is complete, and *)
(* reactions, stars and votes are what their answers say.                  *)
MessagesHold == HistoryComplete /\ HangingAddsUp
=============================================================================
