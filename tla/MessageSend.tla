---------------------------- MODULE MessageSend ----------------------------
(***************************************************************************)
(* MessageService.SendMessage: the requests that store a message, its      *)
(* ciphertexts and its outbox event, on a PostgreSQL database that runs    *)
(* them at READ COMMITTED.                                                 *)
(*                                                                         *)
(* executeSendMessage puts a repository bound to its transaction into the  *)
(* field messageRepo of the service, which every request of the process    *)
(* shares, and takes it out again when it returns.  A repository is the    *)
(* transaction it is bound to, or Pool.  All messages of the model are of  *)
(* one conversation, whose sequence row the insert trigger locks.          *)
(***************************************************************************)
EXTENDS Naturals, FiniteSets

CONSTANTS
  Requests,     \* the SendMessage calls; also their transactions and messages
  Procs,        \* the API processes
  At,           \* the process that serves each request
  ClientMsg,    \* client_message_id of each request; a retry repeats it
  Pool,         \* the repository bound to *sql.DB
  NoTx,         \* "no row"
  NoDevice,     \* requests whose token may name no device
  BadDevice,    \* requests with a recipient device that does not exist
  EmptyJson,    \* TRUE: the database takes '' for messages.metadata, a JSONB
                \* column; PostgreSQL does not
  Failures,     \* TRUE: statements fail, clients disconnect, commits fail
  MaxCrashes    \* bound: how many times processes are killed

ASSUME MessageSendAssumption ==
  /\ At \in [Requests -> Procs]
  /\ Pool \notin Requests
  /\ NoTx \notin Requests
  /\ NoTx # Pool
  /\ NoDevice \subseteq Requests
  /\ BadDevice \subseteq Requests
  /\ EmptyJson \in BOOLEAN
  /\ Failures \in BOOLEAN
  /\ MaxCrashes \in Nat

VARIABLES
  repo,     \* MessageService.messageRepo of each process
  prev,     \* prevMsgRepo of each request
  pc,       \* what each request does next
  good,     \* the closure of each request has not failed
  tx,       \* the transaction of each request
  row,      \* where the messages row of each request was inserted
  cipher,   \* where its message_ciphertexts were inserted
  event,    \* its outbox row was inserted, in its own transaction
  met,      \* history: requests that were active together with another of
            \* their process
  crashes

vars == <<repo, prev, pc, good, tx, row, cipher, event, met, crashes>>

Repository == Requests \union {Pool}

Active(r) == pc[r] \notin {"new", "ok", "failed", "dead"}

Committed(t) == t = Pool \/ (t \in Requests /\ tx[t] = "committed")
RowVisible(r) == Committed(row[r])
CipherVisible(r) == Committed(cipher[r])
EventVisible(r) == event[r] /\ tx[r] = "committed"

(* What a statement that runs on repository t sees.                        *)
SeenBy(t, r) == RowVisible(r) \/ (row[r] = t /\ t \in Requests /\ tx[t] = "open")

Usable(t) == t \in Requests => tx[t] = "open"

Init ==
  /\ repo = [p \in Procs |-> Pool]
  /\ prev = [r \in Requests |-> Pool]
  /\ pc = [r \in Requests |-> "new"]
  /\ good = [r \in Requests |-> TRUE]
  /\ tx = [r \in Requests |-> "none"]
  /\ row = [r \in Requests |-> NoTx]
  /\ cipher = [r \in Requests |-> NoTx]
  /\ event = [r \in Requests |-> FALSE]
  /\ met = {}
  /\ crashes = 0

-----------------------------------------------------------------------------
(* Steps of executeSendMessage.                                            *)

Goto(r, l) == pc' = [pc EXCEPT ![r] = l]

(* A statement on repository t failed: PostgreSQL aborts the transaction,  *)
(* if it is still open, and the closure returns the error.                 *)
Fails(r, t) ==
  /\ tx' = IF t \in Requests /\ tx[t] = "open" THEN [tx EXCEPT ![t] = "aborted"] ELSE tx
  /\ good' = [good EXCEPT ![r] = FALSE]
  /\ Goto(r, "restore")
  /\ UNCHANGED <<row, cipher, event>>

(* The closure returns an error of its own.                                *)
GivesUp(r) ==
  /\ good' = [good EXCEPT ![r] = FALSE]
  /\ Goto(r, "restore")
  /\ UNCHANGED <<tx, row, cipher, event>>

(* The requests r finds at work in its process, itself included.           *)
Beside(r) == {q \in Requests : At[q] = At[r] /\ Active(q)} \union {r}

(* The checks of the input, then BeginTx.  The server starts a goroutine   *)
(* for every request, whoever is at work.                                  *)
Begin(r) ==
  /\ pc[r] = "new"
  /\ Goto(r, "save")
  /\ tx' = [tx EXCEPT ![r] = "open"]
  /\ met' = IF Beside(r) = {r} THEN met ELSE met \union Beside(r)
  /\ UNCHANGED <<repo, prev, good, row, cipher, event, crashes>>

(* prevMsgRepo := s.messageRepo                                            *)
SaveRepo(r) ==
  /\ pc[r] = "save"
  /\ prev' = [prev EXCEPT ![r] = repo[At[r]]]
  /\ Goto(r, "swap")
  /\ UNCHANGED <<repo, good, tx, row, cipher, event, met, crashes>>

(* s.messageRepo = msgRepo                                                 *)
SwapRepo(r) ==
  /\ pc[r] = "swap"
  /\ repo' = [repo EXCEPT ![At[r]] = r]
  /\ Goto(r, "create")
  /\ UNCHANGED <<prev, good, tx, row, cipher, event, met, crashes>>

Duplicate(r, t) == \E q \in Requests \ {r} : ClientMsg[q] = ClientMsg[r] /\ SeenBy(t, q)

(* The trigger's UPDATE of the sequence row waits for every other          *)
(* transaction that has inserted a message and not ended.                  *)
SequenceLocked(t) ==
  \E q \in Requests : row[q] \in Requests /\ row[q] # t /\ tx[row[q]] = "open"

(* messageRepo.Create, with the metadata still empty.                      *)
Create(r) ==
  LET t == repo[At[r]] IN
  /\ pc[r] = "create"
  /\ ~Usable(t) \/ ~SequenceLocked(t)
  /\ \/ /\ Usable(t) /\ EmptyJson /\ ~Duplicate(r, t)
        /\ row' = [row EXCEPT ![r] = t]
        /\ Goto(r, "update")
        /\ UNCHANGED <<tx, good, cipher, event>>
     \/ /\ Failures \/ ~Usable(t) \/ ~EmptyJson \/ Duplicate(r, t)
        /\ Fails(r, t)
  /\ UNCHANGED <<repo, prev, met, crashes>>

(* The device of the token, then messageRepo.Update of the whole row: the  *)
(* SeqID of the struct was never read back, so seq_id becomes NULL.        *)
Update(r) ==
  LET t == repo[At[r]] IN
  /\ pc[r] = "update"
  /\ \/ /\ Usable(t) /\ SeenBy(t, r)
        /\ Goto(r, "cipher")
        /\ UNCHANGED <<tx, good, row, cipher, event>>
     \/ /\ r \in NoDevice \/ (Usable(t) /\ ~SeenBy(t, r))
        /\ GivesUp(r)
     \/ /\ Failures \/ ~Usable(t)
        /\ Fails(r, t)
  /\ UNCHANGED <<repo, prev, met, crashes>>

(* Slip: an unknown recipient device is skipped and the rest abandoned.    *)
CreateCiphertextsSkipping(r) ==
  LET t == repo[At[r]] IN
  /\ pc[r] = "cipher"
  /\ \/ /\ Usable(t) /\ SeenBy(t, r)
        /\ cipher' = IF r \in BadDevice THEN cipher ELSE [cipher EXCEPT ![r] = t]
        /\ Goto(r, "publish")
        /\ UNCHANGED <<tx, good, row, event>>
     \/ /\ Failures \/ ~Usable(t) \/ ~SeenBy(t, r)
        /\ Fails(r, t)
  /\ UNCHANGED <<repo, prev, met, crashes>>

(* lookupUserIDByDevice on the pool and CreateCiphertext, for each device; *)
(* the foreign key needs a message row the statement can see.              *)
CreateCiphertexts(r) ==
  LET t == repo[At[r]] IN
  /\ pc[r] = "cipher"
  /\ \/ /\ r \notin BadDevice /\ Usable(t) /\ SeenBy(t, r)
        /\ cipher' = [cipher EXCEPT ![r] = t]
        /\ Goto(r, "publish")
        /\ UNCHANGED <<tx, good, row, event>>
     \/ r \in BadDevice /\ GivesUp(r)
     \/ /\ Failures \/ ~Usable(t) \/ ~SeenBy(t, r)
        /\ r \notin BadDevice
        /\ Fails(r, t)
  /\ UNCHANGED <<repo, prev, met, crashes>>

(* PublishMessageNew, on the transaction of the request itself.            *)
PublishMessageNew(r) ==
  /\ pc[r] = "publish"
  /\ \/ /\ tx[r] = "open"
        /\ event' = [event EXCEPT ![r] = TRUE]
        /\ Goto(r, "restore")
        /\ UNCHANGED <<tx, good, row, cipher>>
     \/ /\ Failures \/ tx[r] # "open"
        /\ Fails(r, r)
  /\ UNCHANGED <<repo, prev, met, crashes>>

(* The deferred s.messageRepo = prevMsgRepo.                               *)
RestoreRepo(r) ==
  /\ pc[r] = "restore"
  /\ repo' = [repo EXCEPT ![At[r]] = prev[r]]
  /\ Goto(r, "finish")
  /\ UNCHANGED <<prev, good, tx, row, cipher, event, met, crashes>>

(* Slip: the error of the commit is dropped.                               *)
FinishUnchecked(r) ==
  /\ pc[r] = "finish"
  /\ \/ /\ good[r] /\ tx[r] = "open"
        /\ tx' = [tx EXCEPT ![r] = "committed"]
     \/ /\ ~good[r] \/ tx[r] # "open" \/ Failures
        /\ tx' = [tx EXCEPT ![r] = "rolledback"]
  /\ Goto(r, IF good[r] THEN "ok" ELSE "failed")
  /\ UNCHANGED <<repo, prev, good, row, cipher, event, met, crashes>>

(* Slip: no rollback on the error path.                                    *)
FinishWithoutRollback(r) ==
  /\ pc[r] = "finish"
  /\ IF good[r] /\ tx[r] = "open"
       THEN tx' = [tx EXCEPT ![r] = "committed"] /\ Goto(r, "ok")
       ELSE UNCHANGED tx /\ Goto(r, "failed")
  /\ UNCHANGED <<repo, prev, good, row, cipher, event, met, crashes>>

(* WithTx: commit or rollback, and the answer to the client.  A commit     *)
(* whose answer is lost fails for the client and may have been made.       *)
Finish(r) ==
  /\ pc[r] = "finish"
  /\ \/ /\ good[r] /\ tx[r] = "open"
        /\ tx' = [tx EXCEPT ![r] = "committed"]
        /\ Goto(r, "ok")
     \/ /\ good[r] /\ tx[r] = "open" /\ Failures
        /\ \E outcome \in {"committed", "rolledback"} : tx' = [tx EXCEPT ![r] = outcome]
        /\ Goto(r, "failed")
     \/ /\ ~good[r] \/ tx[r] # "open"
        /\ tx' = [tx EXCEPT ![r] = "rolledback"]
        /\ Goto(r, "failed")
  /\ UNCHANGED <<repo, prev, good, row, cipher, event, met, crashes>>

(* The client disconnects: its context ends, and database/sql rolls the    *)
(* transaction back while the request goes on.                             *)
Cancel(r) ==
  /\ Failures
  /\ Active(r)
  /\ tx[r] = "open"
  /\ tx' = [tx EXCEPT ![r] = "rolledback"]
  /\ UNCHANGED <<repo, prev, pc, good, row, cipher, event, met, crashes>>

(* The process is killed and restarted.                                    *)
Crash(p) ==
  /\ crashes < MaxCrashes
  /\ crashes' = crashes + 1
  /\ repo' = [repo EXCEPT ![p] = Pool]
  /\ pc' = [r \in Requests |-> IF At[r] = p /\ Active(r) THEN "dead" ELSE pc[r]]
  /\ tx' = [r \in Requests |->
              IF At[r] = p /\ tx[r] \in {"open", "aborted"} THEN "rolledback" ELSE tx[r]]
  /\ UNCHANGED <<prev, good, row, cipher, event, met>>

-----------------------------------------------------------------------------

Step(r) ==
  \/ SaveRepo(r)
  \/ SwapRepo(r)
  \/ Create(r)
  \/ Update(r)
  \/ CreateCiphertexts(r)
  \/ PublishMessageNew(r)
  \/ RestoreRepo(r)
  \/ Finish(r)

Next ==
  \/ \E r \in Requests : Begin(r) \/ Step(r) \/ Cancel(r)
  \/ \E p \in Procs : Crash(p)

(* Request goroutines are scheduled; a lock that is released goes to one   *)
(* of the statements that wait for it, in their order of arrival.          *)
Fairness == \A r \in Requests : WF_vars(Step(r)) /\ SF_vars(Create(r))

Spec == Init /\ [][Next]_vars
FairSpec == Spec /\ Fairness

-----------------------------------------------------------------------------

(* Every variable has the type its declaration names.                      *)
TypeOK ==
  /\ repo \in [Procs -> Repository]
  /\ prev \in [Requests -> Repository]
  /\ pc \in [Requests -> {"new", "save", "swap", "create", "update", "cipher", "publish",
                          "restore", "finish", "ok", "failed", "dead"}]
  /\ good \in [Requests -> BOOLEAN]
  /\ tx \in [Requests -> {"none", "open", "aborted", "committed", "rolledback"}]
  /\ row \in [Requests -> Repository \union {NoTx}]
  /\ cipher \in [Requests -> Repository \union {NoTx}]
  /\ event \in [Requests -> BOOLEAN]
  /\ met \in SUBSET Requests
  /\ crashes \in Nat

(* A message, its ciphertexts and its event appear together or not at all, *)
(* whichever statement fails, client leaves or process dies.               *)
SentAtomically ==
  \A r \in Requests :
    /\ RowVisible(r) <=> EventVisible(r)
    /\ RowVisible(r) <=> CipherVisible(r)

(* The same of a send that was never active together with another of its   *)
(* process, and it is there when its client was told so, whatever fails    *)
(* and whichever sends overlap before it, after it and elsewhere.          *)
AloneIsWhole ==
  \A r \in Requests \ met :
    /\ RowVisible(r) <=> EventVisible(r)
    /\ RowVisible(r) <=> CipherVisible(r)
    /\ pc[r] = "ok" => RowVisible(r)

(* The event of every send that was answered with success is there, even   *)
(* where overlapping sends have put its message into a foreign transaction.*)
OkIsAnnounced == \A r \in Requests : pc[r] = "ok" => EventVisible(r)

(* A send and its retries, on any process, store at most one message,      *)
(* whichever of them overlap.                                              *)
StoredOnce ==
  \A q, r \in Requests :
    RowVisible(q) /\ RowVisible(r) /\ ClientMsg[q] = ClientMsg[r] => q = r

(* A process that sends nothing reads messages through the pool, not       *)
(* through a transaction that is over, unless sends of it have overlapped. *)
IdleUsesPool ==
  \A p \in Procs :
    (\A r \in Requests : At[r] = p => ~Active(r) /\ r \notin met) => repo[p] = Pool

(* What is left when sends are over: every answer is announced, no message *)
(* is there twice, and the service serves the next request from the pool.  *)
StoredAsAnswered == TypeOK /\ OkIsAnnounced /\ StoredOnce /\ IdleUsesPool

(* A transaction that has inserted a message and is open: it has the       *)
(* sequence row.                                                           *)
Holds(t) == t \in Requests /\ tx[t] = "open" /\ \E r \in Requests : row[r] = t

(* The sequence row is held by the request whose message was inserted, and *)
(* past the one statement that waits for it, if that request has met no    *)
(* other in its process: whoever waits for it waits for one who does not.  *)
HolderRuns ==
  \A t \in Requests \ met :
    Holds(t) => /\ pc[t] \in {"update", "cipher", "publish", "restore", "finish"}
                /\ \A r \in Requests : row[r] = t => r = t

(* The requests that were started are all answered in the end, unless      *)
(* their process dies: senders that wait for the sequence row do not wait  *)
(* for each other.  Sends that overlap may: then one waits, in a foreign   *)
(* transaction, for its own.                                               *)
EverySendAnswered == []<>((\A r \in Requests : ~Active(r)) \/ met # {})

(* A well-formed send that no failure hits is stored.                      *)
ValidSendStored ==
  \A r \in Requests \ (NoDevice \union BadDevice) :
    pc[r] = "failed" => \E q \in Requests : ClientMsg[q] = ClientMsg[r] /\ RowVisible(q)
=============================================================================
