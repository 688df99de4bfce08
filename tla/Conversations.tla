---------------------------- MODULE Conversations ----------------------------
(***************************************************************************)
(* ConversationService and its repository on one conversation of the seed: *)
(* its row, the participation of one of its users, and its row in          *)
(* conversation_sequences, written by requests of any number of clients,   *)
(* each statement autocommitted.  Creations, and what they do to requests  *)
(* that they overlap, are in ConversationCreate: here there are none.      *)
(*                                                                         *)
(* The value a request gives a column is named after the request.          *)
(***************************************************************************)
EXTENDS Handlers, Integers

VARIABLES
  present,       \* there is a row in conversations
  conversation,  \* its columns
  latest,        \* history: what each column was last given
  struct,        \* the row each Update is going to write
  member,        \* the row in participants
  sequence,      \* conversation_sequences.last_sequence, NoSequence without a row
  number         \* the number each request read, or was given

conversations == <<present, conversation, latest, struct, member, sequence, number>>

Columns == {"subject", "description", "invite_link"}
Unset   == [c \in Columns |-> Nobody]

Roles == {"OWNER", "ADMIN", "MEMBER"}
Flags == {"muted", "pinned", "archived"}
Gone  == [role |-> "none", flags |-> {}, read |-> 0]
Join(role) == [role |-> role, flags |-> {}, read |-> 0]

NoSequence == -1  \* no number that is given out

ConversationsInit ==
  /\ present = TRUE
  /\ conversation = Unset
  /\ latest = Unset
  /\ struct = [r \in Requests |-> Unset]
  /\ member = Join("MEMBER")
  /\ sequence \in {NoSequence, 0} /\ (service # "conversations" => sequence = 0)
  /\ number = [r \in Requests |-> 0]

(* A handler that has parsed its request and calls a method of one         *)
(* statement.                                                              *)
Asks(r, operation) ==
  /\ Arrive(r, "conversations", operation, operation)
  /\ UNCHANGED conversations

(* The statement of such a method, which is told the rows it affected.     *)
Affects(r, found) == Goto(r, IF found THEN "ok" ELSE "failed")

-----------------------------------------------------------------------------
(* The row in conversations.                                               *)

UpdateConversation(r) ==
  /\ \E c \in {"subject", "description"} : Arrive(r, "conversations", c, "read")
  /\ UNCHANGED conversations

(* GetByID, and the field of the request.                                  *)
ReadConversation(r) ==
  /\ pc[r] = "read"
  /\ struct' = [struct EXCEPT ![r] = [conversation EXCEPT ![op[r]] = r]]
  /\ Goto(r, IF present THEN "write" ELSE "failed")
  /\ UNCHANGED <<present, conversation, latest, member, sequence, number>>

(* Slip: the struct is built from the request, not from the row.           *)
WriteFieldsOfRequest(r) ==
  /\ pc[r] = "write"
  /\ conversation' = IF present THEN [Unset EXCEPT ![op[r]] = r] ELSE conversation
  /\ latest' = IF present THEN [latest EXCEPT ![op[r]] = r] ELSE latest
  /\ Affects(r, present)
  /\ UNCHANGED <<present, struct, member, sequence, number>>

(* Update writes every column of the struct.                               *)
WriteConversation(r) ==
  /\ pc[r] = "write"
  /\ conversation' = IF present THEN struct[r] ELSE conversation
  /\ latest' = IF present THEN [latest EXCEPT ![op[r]] = r] ELSE latest
  /\ Affects(r, present)
  /\ UNCHANGED <<present, struct, member, sequence, number>>

AskLink(r) == Asks(r, "invite_link")

RegenerateInviteLink(r) ==
  /\ pc[r] = "invite_link"
  /\ conversation' = IF present THEN [conversation EXCEPT !.invite_link = r] ELSE conversation
  /\ latest' = IF present THEN [latest EXCEPT !.invite_link = r] ELSE latest
  /\ Affects(r, present)
  /\ UNCHANGED <<present, struct, member, sequence, number>>

AskDelete(r) == Asks(r, "delete")

(* The participants and the sequence go with the conversation.             *)
Delete(r) ==
  /\ pc[r] = "delete"
  /\ present' = FALSE
  /\ member' = Gone
  /\ sequence' = NoSequence
  /\ Affects(r, present)
  /\ UNCHANGED <<conversation, latest, struct, number>>

-----------------------------------------------------------------------------
(* The row in participants.                                                *)

ChangeMember(r, m) ==
  /\ member' = IF member = Gone THEN Gone ELSE m
  /\ Affects(r, member # Gone)
  /\ UNCHANGED <<present, conversation, latest, struct, sequence, number>>

AskAdd(r) == Asks(r, "add")

(* The INSERT violates the primary key or the foreign key.                 *)
AddParticipant(r) ==
  /\ pc[r] = "add"
  /\ \E role \in Roles :
       member' = IF present /\ member = Gone THEN Join(role) ELSE member
  /\ Affects(r, present /\ member = Gone)
  /\ UNCHANGED <<present, conversation, latest, struct, sequence, number>>

AskRemove(r) == Asks(r, "remove")

RemoveParticipant(r) ==
  /\ pc[r] = "remove"
  /\ ChangeMember(r, Gone)

AskRole(r) == Asks(r, "role")

UpdateParticipantRole(r) ==
  /\ pc[r] = "role"
  /\ \E role \in Roles : ChangeMember(r, [member EXCEPT !.role = role])

AskFlag(r) == Asks(r, "flag")

(* Mute, Unmute, Pin, Unpin, Archive, Unarchive.                           *)
SetFlag(r) ==
  /\ pc[r] = "flag"
  /\ \E f \in Flags :
       \/ ChangeMember(r, [member EXCEPT !.flags = @ \union {f}])
       \/ ChangeMember(r, [member EXCEPT !.flags = @ \ {f}])

AskRead(r) == Asks(r, "readUpTo")

(* The position may go back: it is the one of the request.                 *)
UpdateLastReadSequence(r) ==
  /\ pc[r] = "readUpTo"
  /\ \E n \in 0 .. 1 : ChangeMember(r, [member EXCEPT !.read = n])

-----------------------------------------------------------------------------
(* The row in conversation_sequences.                                      *)

AskNumber(r) == Asks(r, "increment")

(* A transaction at READ COMMITTED: the SELECT takes no lock.              *)
SelectSequence(r) ==
  /\ pc[r] = "increment"
  /\ number' = [number EXCEPT ![r] = IF sequence = NoSequence THEN 1 ELSE sequence + 1]
  /\ Goto(r, IF sequence = NoSequence THEN "insertSequence" ELSE "updateSequence")
  /\ UNCHANGED <<present, conversation, latest, struct, member, sequence>>

(* The INSERT violates the primary key or the foreign key; the UPDATE      *)
(* writes the number computed before, and is not asked for the rows it     *)
(* affected.  Then the COMMIT.                                             *)
WriteSequence(r) ==
  /\ \/ /\ pc[r] = "insertSequence"
        /\ sequence' = IF present /\ sequence = NoSequence THEN 1 ELSE sequence
        /\ Affects(r, present /\ sequence = NoSequence)
     \/ /\ pc[r] = "updateSequence"
        /\ sequence' = IF sequence = NoSequence THEN sequence ELSE number[r]
        /\ Goto(r, "ok")
  /\ UNCHANGED <<present, conversation, latest, struct, member, number>>

(* A message is inserted: the trigger gives it the next number in its own  *)
(* transaction, holding the row.                                           *)
AssignMessageSequence(r) ==
  /\ present
  /\ Arrive(r, "conversations", "message", "ok")
  /\ LET next == IF sequence = NoSequence THEN 1 ELSE sequence + 1 IN
     /\ sequence' = next
     /\ number' = [number EXCEPT ![r] = next]
  /\ UNCHANGED <<present, conversation, latest, struct, member>>

-----------------------------------------------------------------------------

ConversationsStep(r) ==
  \/ UpdateConversation(r) \/ ReadConversation(r) \/ WriteConversation(r)
  \/ AskLink(r) \/ RegenerateInviteLink(r) \/ AskDelete(r) \/ Delete(r)
  \/ AskAdd(r) \/ AddParticipant(r) \/ AskRemove(r) \/ RemoveParticipant(r)
  \/ AskRole(r) \/ UpdateParticipantRole(r) \/ AskFlag(r) \/ SetFlag(r)
  \/ AskRead(r) \/ UpdateLastReadSequence(r)
  \/ AskNumber(r) \/ SelectSequence(r) \/ WriteSequence(r) \/ AssignMessageSequence(r)

ConversationsNext == \E r \in Requests : ConversationsStep(r)

-----------------------------------------------------------------------------
(* What conversations promise.                                             *)

ConversationsTypeOK ==
  LET Row == [Columns -> Requests \union {Nobody}] IN
  /\ present \in BOOLEAN
  /\ {conversation, latest} \subseteq Row
  /\ struct \in [Requests -> Row]
  /\ member \in [role : Roles \union {"none"}, flags : SUBSET Flags, read : 0 .. 1]
  /\ sequence \in Nat \union {NoSequence}
  /\ number \in [Requests -> Nat]

Answered(o) == {r \in Requests : op[r] = o /\ pc[r] = "ok"}

(* A subject, a description or an invite link that was given is lost only  *)
(* to an Update that was under way when it was given.                      *)
ColumnLostOnlyToOverlap ==
  \A c \in Columns : conversation[c] # latest[c] =>
    \E p \in Answered("subject") \union Answered("description") : latest[c] \in met[p]

(* One number is given out twice only when an increment overlapped one of  *)
(* the requests that have it.                                              *)
NumberTwiceOnlyByOverlap ==
  LET Given == Answered("increment") \union Answered("message") IN
  \A q, r \in Given : q # r /\ number[q] = number[r] =>
    \E p \in Answered("increment") : met[p] \intersect {q, r} # {}

(* The answers to additions, removals and deletions tell what became of    *)
(* the row: each success is one change.                                    *)
AnswersAddUp ==
  /\ present => Cardinality(Answered("add")) + 1 - Cardinality(Answered("remove"))
                  = IF member = Gone THEN 0 ELSE 1
  /\ Cardinality(Answered("delete")) = IF present THEN 0 ELSE 1

(* Update, AssignMessageSequence and the participants' statements: losses  *)
(* and double numbers need an overlap, answers never contradict the rows.  *)
ConversationsHold == ColumnLostOnlyToOverlap /\ NumberTwiceOnlyByOverlap /\ AnswersAddUp
=============================================================================
