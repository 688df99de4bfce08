------------------------- MODULE ConversationCreate -------------------------
(***************************************************************************)
(* ConversationService.Create in a service that all requests share: the    *)
(* creation binds the service's repository to its own transaction and      *)
(* gives it back at the end, so that meanwhile every other request runs    *)
(* its statements in that transaction.                                     *)
(*                                                                         *)
(* A creation inserts a conversation, its owner and one member; any other  *)
(* request is one statement that changes rows of its own (what the other   *)
(* requests do is module Conversations).  Nobody stands for the pool: a    *)
(* repository that no transaction binds.                                   *)
(***************************************************************************)
EXTENDS Handlers

CONSTANT MaxCreations  \* bound: the creations of a behaviour

VARIABLES
  repo,    \* ConversationService.repo: the transaction it is bound to
  saved,   \* prevRepo of each creation
  tx,      \* the state of the transaction of each creation
  written  \* what was written: by whom, what, and in which transaction

creation == <<repo, saved, tx, written>>

CreationInit ==
  /\ repo = Nobody
  /\ saved = [r \in Requests |-> Nobody]
  /\ tx = [r \in Requests |-> "none"]
  /\ written = {}

Usable(t) == t \in {Nobody} \union {q \in Requests : tx[q] = "open"}

Committed(t) == t \in {Nobody} \union {q \in Requests : tx[q] = "committed"}

(* What a creation writes: the participants are the creator, OWNER, and    *)
(* the others, MEMBER.                                                     *)
Whole == {"conversation", "OWNER", "MEMBER"}

Stored(r) == {w.what : w \in {x \in written : x.of = r /\ Committed(x.in)}}

(* The statements of the repository see its transaction and the committed  *)
(* rows.                                                                   *)
Sees(r, what) ==
  \E w \in written : w.of = r /\ w.what = what /\ (w.in = repo \/ Committed(w.in))

Insert(r, what, next) ==
  /\ Usable(repo)
  /\ written' = written \union {[of |-> r, what |-> what, in |-> repo]}
  /\ Goto(r, next)
  /\ UNCHANGED <<repo, saved, tx>>

(* A statement that fails aborts the transaction it runs in.               *)
Refused(r, next) ==
  /\ Goto(r, next)
  /\ tx' = IF Usable(repo) /\ repo # Nobody THEN [tx EXCEPT ![repo] = "aborted"] ELSE tx
  /\ UNCHANGED <<repo, saved, written>>

-----------------------------------------------------------------------------
(* A creation.                                                             *)

Creates(r) == op[r] = "createConversation"

CreateConversation(r) ==
  /\ Cardinality({q \in Requests : Creates(q)}) < MaxCreations
  /\ Arrive(r, "creation", "createConversation", "begin")
  /\ UNCHANGED creation

(* WithTx begins, which nobody sees, and the repository in use is noted.   *)
BeginCreate(r) ==
  /\ pc[r] = "begin"
  /\ tx' = [tx EXCEPT ![r] = "open"]
  /\ saved' = [saved EXCEPT ![r] = repo]
  /\ Goto(r, "swap")
  /\ UNCHANGED <<repo, written>>

SwapRepo(r) ==
  /\ pc[r] = "swap"
  /\ repo' = r
  /\ Goto(r, "insert")
  /\ UNCHANGED <<saved, tx, written>>

InsertConversation(r) ==
  /\ pc[r] = "insert"
  /\ Insert(r, "conversation", "owner") \/ Refused(r, "giveUp")

(* AddParticipant, whose error is dropped; it fails for a user that does   *)
(* not exist, and where the conversation is not visible.                   *)
AddParticipants(r) ==
  /\ pc[r] \in {"owner", "member"}
  /\ LET next == IF pc[r] = "owner" THEN "member" ELSE "restore" IN
     \/ /\ Sees(r, "conversation")
        /\ Insert(r, IF pc[r] = "owner" THEN "OWNER" ELSE "MEMBER", next)
     \/ Refused(r, next)

(* Slip: the repository is given back only when all went well.             *)
RestoreRepoIfGood(r) ==
  /\ pc[r] \in {"restore", "giveUp"}
  /\ repo' = IF pc[r] = "restore" THEN saved[r] ELSE repo
  /\ Goto(r, IF pc[r] = "restore" THEN "commit" ELSE "rollback")
  /\ UNCHANGED <<saved, tx, written>>

RestoreRepo(r) ==
  /\ pc[r] \in {"restore", "giveUp"}
  /\ repo' = saved[r]
  /\ saved' = [saved EXCEPT ![r] = Nobody]
  /\ Goto(r, IF pc[r] = "restore" THEN "commit" ELSE "rollback")
  /\ UNCHANGED <<tx, written>>

(* An aborted transaction is rolled back by its COMMIT, which says so.     *)
EndCreate(r) ==
  /\ pc[r] \in {"commit", "rollback"}
  /\ LET good == pc[r] = "commit" /\ tx[r] = "open" IN
     /\ tx' = [tx EXCEPT ![r] = IF good THEN "committed" ELSE "undone"]
     /\ Goto(r, IF good THEN "ok" ELSE "failed")
  /\ UNCHANGED <<repo, saved, written>>

(* The client is gone: the transaction of its request is rolled back, and  *)
(* the request goes on without it.                                         *)
Abandon(r) ==
  /\ tx[r] \in {"open", "aborted"}
  /\ tx' = [tx EXCEPT ![r] = "undone"]
  /\ UNCHANGED handling
  /\ UNCHANGED <<repo, saved, written>>

-----------------------------------------------------------------------------
(* Any other request.                                                      *)

OtherRequest(r) ==
  /\ Arrive(r, "creation", "other", "statement")
  /\ UNCHANGED creation

(* Slip: the error of the statement is dropped.                            *)
StatementUnchecked(r) ==
  /\ pc[r] = "statement"
  /\ Insert(r, "change", "ok") \/ Refused(r, "ok")

Statement(r) ==
  /\ pc[r] = "statement"
  /\ Insert(r, "change", "ok") \/ Refused(r, "failed")

CreationStep(r) ==
  \/ CreateConversation(r) \/ BeginCreate(r) \/ SwapRepo(r)
  \/ InsertConversation(r) \/ AddParticipants(r) \/ RestoreRepo(r) \/ EndCreate(r)
  \/ Abandon(r) \/ OtherRequest(r) \/ Statement(r)

CreationNext == \E r \in Requests : CreationStep(r)

-----------------------------------------------------------------------------
(* What creations promise.                                                 *)

CreationTypeOK ==
  /\ repo \in Requests \union {Nobody}
  /\ saved \in [Requests -> Requests \union {Nobody}]
  /\ tx \in [Requests -> {"none", "open", "aborted", "committed", "undone"}]
  /\ written \subseteq [of : Requests, what : Whole \union {"change"}, in : Requests \union {Nobody}]

MetNoCreation(r) == \A q \in met[r] : ~ Creates(q)

(* A creation that no other creation of its process overlaps is stored     *)
(* whole or not at all, and whole if it was answered, however creations    *)
(* before it left the repository.  While no two of them overlap, the       *)
(* repository is the pool's between them: the service outlives a creation  *)
(* that failed.                                                            *)
CreatedAsOne ==
  /\ \A r \in Requests : Creates(r) /\ MetNoCreation(r) =>
       Stored(r) \in {{}, Whole} /\ (pc[r] = "ok" => Stored(r) = Whole)
  /\ (\A r \in Requests : Creates(r) => MetNoCreation(r) /\ ~ Active(r)) => repo = Nobody

(* A change that was answered is stored, unless a creation was under way,  *)
(* in whose transaction it may have run.                                   *)
ChangeLostOnlyToCreation ==
  \A r \in Requests : op[r] = "other" /\ pc[r] = "ok" =>
    "change" \in Stored(r) \/ \E q \in met[r] : Creates(q)
=============================================================================
