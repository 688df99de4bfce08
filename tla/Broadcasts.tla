------------------------------ MODULE Broadcasts ------------------------------
(***************************************************************************)
(* BroadcastService on one list: the list, which an update reads and then  *)
(* writes as a whole, and its recipients, added and removed one by one or  *)
(* in bulk.  A list that a request creates has the nil id, so there is no  *)
(* more than one.  A bulk addition is one transaction: PostgreSQL aborts   *)
(* it at the first statement that fails, and then commits nothing.         *)
(***************************************************************************)
EXTENDS Handlers, Sequences

VARIABLES
  list,       \* the broadcast_lists row, NoList without one
  item,       \* the row as each update has read and changed it
  recipient,  \* the committed recipients, each with the request that added it
  adding,     \* the recipients the open transaction of each request added
  aborted,    \* the requests whose transaction had a statement fail
  queued      \* the recipients each bulk request has still to add

broadcasts == <<list, item, recipient, adding, aborted, queued>>
others     == <<list, item>>

NoList == [name |-> "none", description |-> "none"]
People == {"ann", "bob"}
Bulks  == {<<"ann">>, <<"ann", "bob">>, <<"bob", "ann">>, <<"ann", "ann">>}

BroadcastsInit ==
  /\ list = NoList
  /\ item = [r \in Requests |-> NoList]
  /\ recipient = [u \in People |-> Nobody]
  /\ adding = [r \in Requests |-> {}]
  /\ aborted = {}
  /\ queued = [r \in Requests |-> <<>>]

Demands(r, operation, first) ==
  /\ Arrive(r, "broadcasts", operation, first)
  /\ UNCHANGED broadcasts

UndoBulk(r) ==
  /\ adding' = [adding EXCEPT ![r] = {}]
  /\ aborted' = aborted \ {r}
  /\ UNCHANGED <<others, recipient, queued>>

-----------------------------------------------------------------------------
(* The list.                                                               *)

AskList(r) ==
  \/ Demands(r, "createList", "createList")
  \/ Demands(r, "updateList", "readList")
  \/ Demands(r, "deleteList", "deleteList")

(* The id is left to its zero value, so a second INSERT is a conflict.     *)
CreateList(r) ==
  /\ pc[r] = "createList"
  /\ list' = IF list = NoList THEN [name |-> "new", description |-> "new"] ELSE list
  /\ Goto(r, IF list = NoList THEN "ok" ELSE "failed")
  /\ UNCHANGED <<item, recipient, adding, aborted, queued>>

ReadList(r) ==
  /\ pc[r] = "readList"
  /\ \E c \in {"name", "description"} : item' = [item EXCEPT ![r] = [list EXCEPT ![c] = "changed"]]
  /\ Goto(r, IF list = NoList THEN "failed" ELSE "writeList")
  /\ UNCHANGED <<list, recipient, adding, aborted, queued>>

WriteList(r) ==
  /\ pc[r] = "writeList"
  /\ list' = IF list = NoList THEN list ELSE item[r]
  /\ Goto(r, IF list = NoList THEN "failed" ELSE "ok")
  /\ UNCHANGED <<item, recipient, adding, aborted, queued>>

(* The recipients go with the list; it waits for the transactions that     *)
(* added some, which hold a lock on the list's key.                        *)
DeleteList(r) ==
  /\ pc[r] = "deleteList"
  /\ \A q \in Requests : adding[q] = {}
  /\ list' = NoList
  /\ recipient' = [u \in People |-> Nobody]
  /\ Goto(r, IF list = NoList THEN "failed" ELSE "ok")
  /\ UNCHANGED <<item, adding, aborted, queued>>

-----------------------------------------------------------------------------
(* Its recipients.                                                         *)

AskRecipient(r) == \E o \in {"addOne", "removeOne", "removeBulk"} : Demands(r, o, o)

(* The INSERT of u waits for a transaction that has added u; it is refused *)
(* without the list and where u is a recipient.                            *)
Waits(r, u, q) == q # r /\ u \in adding[q]
Accepted(r, u) == list # NoList /\ recipient[u] = Nobody /\ u \notin adding[r]

AddRecipient(r) ==
  /\ pc[r] = "addOne"
  /\ \A q \in Requests : ~Waits(r, "ann", q)
  /\ recipient' = IF Accepted(r, "ann") THEN [recipient EXCEPT !["ann"] = r] ELSE recipient
  /\ Goto(r, IF Accepted(r, "ann") THEN "ok" ELSE "failed")
  /\ UNCHANGED <<others, adding, aborted, queued>>

RemoveRecipient(r) ==
  /\ pc[r] = "removeOne"
  /\ recipient' = [recipient EXCEPT !["ann"] = Nobody]
  /\ Goto(r, IF recipient["ann"] = Nobody THEN "failed" ELSE "ok")
  /\ UNCHANGED <<others, adding, aborted, queued>>

(* One DELETE, which may find nothing.                                     *)
BulkRemoveRecipients(r) ==
  /\ pc[r] = "removeBulk"
  /\ \E U \in SUBSET People : recipient' = [u \in People |-> IF u \in U THEN Nobody ELSE recipient[u]]
  /\ Goto(r, "ok")
  /\ UNCHANGED <<others, adding, aborted, queued>>

AskBulk(r) ==
  /\ Arrive(r, "broadcasts", "addBulk", "addBulk")
  /\ \E b \in Bulks : queued' = [queued EXCEPT ![r] = b]
  /\ UNCHANGED <<others, recipient, adding, aborted>>

(* Slip: the loop runs on the pool, not in the transaction.                *)
BulkInsertOnPool(r) ==
  /\ pc[r] = "addBulk" /\ queued[r] # <<>>
  /\ LET u == Head(queued[r]) IN
     /\ recipient' = IF Accepted(r, u) THEN [recipient EXCEPT ![u] = r] ELSE recipient
     /\ Goto(r, IF list = NoList THEN "failed" ELSE "addBulk")
  /\ queued' = [queued EXCEPT ![r] = Tail(@)]
  /\ UNCHANGED <<others, adding, aborted>>

(* One round of the loop.  A recipient that exists is passed over, but the *)
(* transaction is aborted, and every later statement in it fails.          *)
BulkInsert(r) ==
  /\ pc[r] = "addBulk" /\ queued[r] # <<>>
  /\ LET u == Head(queued[r]) IN
     \/ /\ r \in aborted \/ list = NoList
        /\ Goto(r, "failed")
        /\ UndoBulk(r)
     \/ /\ r \notin aborted /\ list # NoList
        /\ \A q \in Requests : ~Waits(r, u, q)
        /\ adding' = [adding EXCEPT ![r] = IF Accepted(r, u) THEN @ \union {u} ELSE {}]
        /\ aborted' = IF Accepted(r, u) THEN aborted ELSE aborted \union {r}
        /\ queued' = [queued EXCEPT ![r] = Tail(@)]
        /\ Goto(r, "addBulk")
        /\ UNCHANGED <<others, recipient>>

BulkDeadlock(r) ==
  /\ \E q \in Requests :
       /\ pc[q] = "addBulk" /\ queued[q] # <<>> /\ Waits(q, Head(queued[q]), r)
       /\ pc[r] = "addBulk" /\ queued[r] # <<>> /\ Waits(r, Head(queued[r]), q)
  /\ Goto(r, "failed")
  /\ UndoBulk(r)

(* The COMMIT; of an aborted transaction it is a rollback, and an error.   *)
BulkCommit(r) ==
  /\ pc[r] = "addBulk" /\ queued[r] = <<>>
  /\ recipient' = [u \in People |-> IF u \in adding[r] THEN r ELSE recipient[u]]
  /\ adding' = [adding EXCEPT ![r] = {}]
  /\ aborted' = aborted \ {r}
  /\ Goto(r, IF r \in aborted THEN "failed" ELSE "ok")
  /\ UNCHANGED <<others, queued>>

BroadcastsStep(r) ==
  \/ AskList(r) \/ CreateList(r) \/ ReadList(r) \/ WriteList(r) \/ DeleteList(r)
  \/ AskRecipient(r) \/ AddRecipient(r) \/ RemoveRecipient(r) \/ BulkRemoveRecipients(r)
  \/ AskBulk(r) \/ BulkInsert(r) \/ BulkDeadlock(r) \/ BulkCommit(r)

BroadcastsNext == \E r \in Requests : BroadcastsStep(r)

-----------------------------------------------------------------------------
(* What broadcast lists promise.                                           *)

BroadcastsTypeOK ==
  LET Row == [name : {"none", "new", "changed"}, description : {"none", "new", "changed"}] IN
  /\ list \in Row
  /\ item \in [Requests -> Row]
  /\ recipient \in [People -> Requests \union {Nobody}]
  /\ adding \in [Requests -> SUBSET People]
  /\ aborted \in SUBSET Requests
  /\ queued \in [Requests -> Bulks \union {<<>>, <<"bob">>}]

(* A bulk addition that is under way, was refused or stopped added nobody, *)
(* though its loop passes over recipients that exist; and no recipient is  *)
(* left without its list, whatever was deleted meanwhile.                  *)
BulkAddsAsOne ==
  /\ \A r \in Requests : op[r] = "addBulk" /\ pc[r] # "ok" => \A u \in People : recipient[u] # r
  /\ list = NoList => \A u \in People : recipient[u] = Nobody
=============================================================================
