----------------------------- MODULE SendProofs -----------------------------
(***************************************************************************)
(* Theorems about MessageSend, for any requests and processes, with or     *)
(* without failing statements and commits, clients that leave and          *)
(* processes that die.                                                     *)
(*                                                                         *)
(* The run send_overlap shows that sends which share their process at the  *)
(* same time are not atomic.  Proved is what such sends keep (one message  *)
(* for a send and its retries, an event for each answer), and that a send  *)
(* which met no other in its process is atomic and holds the sequence row  *)
(* for itself only, whatever the others do.                                *)
(***************************************************************************)
EXTENDS MessageSend, TLAPS

-----------------------------------------------------------------------------
(* Types.                                                                  *)

LEMMA FailsType ==
  ASSUME TypeOK, NEW r \in Requests, NEW t \in Repository, Fails(r, t)
  PROVE  /\ tx' \in [Requests -> {"none", "open", "aborted", "committed", "rolledback"}]
         /\ good' \in [Requests -> BOOLEAN]
         /\ pc' = [pc EXCEPT ![r] = "restore"]
         /\ UNCHANGED <<row, cipher, event>>
  BY DEF Fails, Goto, TypeOK

(* Every step keeps the types.                                             *)
LEMMA TypeStep == TypeOK /\ [Next]_vars => TypeOK'
  <1> SUFFICES ASSUME TypeOK, [Next]_vars PROVE TypeOK'
    OBVIOUS
  <1> USE MessageSendAssumption DEF TypeOK
  <1>1. ASSUME NEW r \in Requests, Begin(r) \/ SaveRepo(r) \/ SwapRepo(r) \/ RestoreRepo(r)
        PROVE  TypeOK'
    <2>1. repo[At[r]] \in Repository /\ r \in Repository /\ Beside(r) \subseteq Requests
      BY DEF Repository, Beside
    <2>2. QED
      BY <1>1, <2>1 DEF Begin, SaveRepo, SwapRepo, RestoreRepo, Goto
  <1>2. ASSUME NEW r \in Requests, Create(r) PROVE TypeOK'
    <2>1. PICK t \in Repository : t = repo[At[r]]
      OBVIOUS
    <2>2. UNCHANGED <<repo, prev, met, crashes>>
      BY <1>2 DEF Create
    <2>3. CASE Fails(r, t)
      BY <2>2, <2>3, FailsType
    <2>4. CASE /\ row' = [row EXCEPT ![r] = t]
               /\ Goto(r, "update")
               /\ UNCHANGED <<tx, good, cipher, event>>
      BY <2>1, <2>2, <2>4 DEF Goto
    <2>5. QED
      BY <1>2, <2>1, <2>3, <2>4 DEF Create
  <1>3. ASSUME NEW r \in Requests, Update(r) PROVE TypeOK'
    <2>1. PICK t \in Repository : t = repo[At[r]]
      OBVIOUS
    <2>2. UNCHANGED <<repo, prev, met, crashes>>
      BY <1>3 DEF Update
    <2>3. CASE Fails(r, t)
      BY <2>2, <2>3, FailsType
    <2>4. CASE GivesUp(r)
      BY <2>2, <2>4 DEF GivesUp, Goto
    <2>5. CASE /\ Goto(r, "cipher")
               /\ UNCHANGED <<tx, good, row, cipher, event>>
      BY <2>2, <2>5 DEF Goto
    <2>6. QED
      BY <1>3, <2>1, <2>3, <2>4, <2>5 DEF Update
  <1>4. ASSUME NEW r \in Requests, CreateCiphertexts(r) PROVE TypeOK'
    <2>1. PICK t \in Repository : t = repo[At[r]]
      OBVIOUS
    <2>2. UNCHANGED <<repo, prev, met, crashes>>
      BY <1>4 DEF CreateCiphertexts
    <2>3. CASE Fails(r, t)
      BY <2>2, <2>3, FailsType
    <2>4. CASE GivesUp(r)
      BY <2>2, <2>4 DEF GivesUp, Goto
    <2>5. CASE /\ cipher' = [cipher EXCEPT ![r] = t]
               /\ Goto(r, "publish")
               /\ UNCHANGED <<tx, good, row, event>>
      BY <2>1, <2>2, <2>5 DEF Goto
    <2>6. QED
      BY <1>4, <2>1, <2>3, <2>4, <2>5 DEF CreateCiphertexts
  <1>5. ASSUME NEW r \in Requests, PublishMessageNew(r) PROVE TypeOK'
    <2>1. UNCHANGED <<repo, prev, met, crashes>> /\ r \in Repository
      BY <1>5 DEF PublishMessageNew, Repository
    <2>2. CASE Fails(r, r)
      BY <2>1, <2>2, FailsType
    <2>3. CASE /\ event' = [event EXCEPT ![r] = TRUE]
               /\ Goto(r, "restore")
               /\ UNCHANGED <<tx, good, row, cipher>>
      BY <2>1, <2>3 DEF Goto
    <2>4. QED
      BY <1>5, <2>2, <2>3 DEF PublishMessageNew
  <1>6. ASSUME NEW r \in Requests, Finish(r) \/ Cancel(r) PROVE TypeOK'
    BY <1>6 DEF Finish, Cancel, Goto
  <1>7. ASSUME NEW p \in Procs, Crash(p) PROVE TypeOK'
    <2>1. repo' \in [Procs -> Repository]
      BY <1>7 DEF Crash, Repository
    <2>2. QED
      BY <1>7, <2>1 DEF Crash
  <1>8. CASE UNCHANGED vars
    BY <1>8 DEF vars
  <1>9. QED
    BY <1>1, <1>2, <1>3, <1>4, <1>5, <1>6, <1>7, <1>8 DEF Next, Step

(* Every variable has its type, whichever sends overlap.                   *)
THEOREM SendTypes == Spec => []TypeOK
  <1>1. Init => TypeOK
    BY MessageSendAssumption DEF Init, TypeOK, Repository
  <1>2. QED
    BY <1>1, TypeStep, PTL DEF Spec

-----------------------------------------------------------------------------
(* Sends that may overlap.                                                 *)

(* The event is inserted in the request's own transaction, so it is there  *)
(* when the request ends well.                                             *)
EventInv ==
  \A r \in Requests :
    /\ pc[r] \in {"restore", "finish"} /\ good[r] => event[r]
    /\ pc[r] = "ok" => event[r] /\ tx[r] = "committed"

LEMMA EventStep == TypeOK /\ EventInv /\ [Next]_vars => EventInv'
  <1> SUFFICES ASSUME TypeOK, EventInv, [Next]_vars PROVE EventInv'
    OBVIOUS
  <1> USE MessageSendAssumption DEF TypeOK, EventInv
  <1>1. ASSUME NEW r \in Requests, Begin(r) \/ SaveRepo(r) \/ SwapRepo(r) \/ RestoreRepo(r) PROVE EventInv'
    BY <1>1 DEF Begin, SaveRepo, SwapRepo, RestoreRepo, Goto
  <1>2. ASSUME NEW r \in Requests, NEW t \in Repository, Fails(r, t) PROVE EventInv'
    BY <1>2 DEF Fails, Goto
  <1>3. ASSUME NEW r \in Requests, GivesUp(r) PROVE EventInv'
    BY <1>3 DEF GivesUp, Goto
  <1>4. ASSUME NEW r \in Requests, NEW l \in {"update", "cipher", "publish"}, Goto(r, l),
               UNCHANGED <<tx, good, event>>
        PROVE  EventInv'
    BY <1>4 DEF Goto
  <1>5. ASSUME NEW r \in Requests, Create(r) \/ Update(r) \/ CreateCiphertexts(r) PROVE EventInv'
    <2>1. PICK t \in Repository : t = repo[At[r]]
      OBVIOUS
    <2>2. QED
      BY <1>2, <1>3, <1>4, <1>5, <2>1 DEF Create, Update, CreateCiphertexts
  <1>6. ASSUME NEW r \in Requests, PublishMessageNew(r) PROVE EventInv'
    BY <1>2, <1>6 DEF PublishMessageNew, Goto, Repository
  <1>7. ASSUME NEW r \in Requests, Finish(r) PROVE EventInv'
    BY <1>7 DEF Finish, Goto
  <1>8. ASSUME NEW r \in Requests, Cancel(r) PROVE EventInv'
    BY <1>8 DEF Cancel
  <1>9. ASSUME NEW p \in Procs, Crash(p) PROVE EventInv'
    BY <1>9 DEF Crash, Active
  <1>10. CASE UNCHANGED vars
    BY <1>10 DEF vars
  <1>11. QED
    BY <1>1, <1>5, <1>6, <1>7, <1>8, <1>9, <1>10 DEF Next, Step

(* The event of every send that was answered with success is in the        *)
(* outbox, even where overlapping sends have put its message into a        *)
(* foreign transaction: what they lose is the message, not its event.      *)
THEOREM AnsweredIsAnnounced == Spec => []OkIsAnnounced
  <1>1. Init => EventInv
    BY DEF Init, EventInv
  <1>2. Spec => []EventInv
    BY <1>1, SendTypes, EventStep, PTL DEF Spec
  <1>3. EventInv => OkIsAnnounced
    BY DEF EventInv, EventVisible, OkIsAnnounced
  <1>4. QED
    BY <1>2, <1>3, PTL

(* Repositories are bound to transactions that have begun.                 *)
BegunInv ==
  /\ \A r \in Requests : pc[r] = "new" <=> tx[r] = "none"
  /\ \A r \in Requests : row[r] \in Requests => tx[row[r]] # "none"
  /\ \A r \in Requests : prev[r] \in Requests => tx[prev[r]] # "none"
  /\ \A p \in Procs : repo[p] \in Requests => tx[repo[p]] # "none"

(* One transaction at most holds the sequence row.                         *)
OneHolder == \A s, t \in Requests : Holds(s) /\ Holds(t) => s = t

(* A message that is stored, or will be if the transaction it was inserted *)
(* in commits.                                                             *)
Live(r) == row[r] = Pool \/ (row[r] \in Requests /\ tx[row[r]] \in {"open", "committed"})

(* Of a send and its retries at most one has such a message.               *)
LiveOnce ==
  \A q, r \in Requests : Live(q) /\ Live(r) /\ ClientMsg[q] = ClientMsg[r] => q = r

OnceInv == BegunInv /\ OneHolder /\ LiveOnce

LEMMA BegunStep == TypeOK /\ BegunInv /\ [Next]_vars => BegunInv'
  <1> SUFFICES ASSUME TypeOK, BegunInv, [Next]_vars PROVE BegunInv'
    OBVIOUS
  <1> USE MessageSendAssumption DEF TypeOK, BegunInv
  <1>1. ASSUME NEW r \in Requests, Begin(r) PROVE BegunInv'
    BY <1>1 DEF Begin, Goto
  <1>2. ASSUME NEW r \in Requests, SaveRepo(r) \/ RestoreRepo(r) PROVE BegunInv'
    BY <1>2 DEF SaveRepo, RestoreRepo, Goto
  <1>3. ASSUME NEW r \in Requests, SwapRepo(r) PROVE BegunInv'
    BY <1>3 DEF SwapRepo, Goto
  <1>4. ASSUME NEW r \in Requests, NEW l \in {"update", "cipher", "publish", "restore"}, Goto(r, l), pc[r] # "new",
               UNCHANGED <<repo, prev>>,
               \A q \in Requests : tx'[q] = tx[q] \/ (tx[q] = "open" /\ tx'[q] = "aborted"),
               row' = row \/ (repo[At[r]] \in Repository /\ row' = [row EXCEPT ![r] = repo[At[r]]])
        PROVE  BegunInv'
    <2>1. /\ \A q \in Requests : tx'[q] = "none" <=> tx[q] = "none"
          /\ \A q \in Requests : pc'[q] = "new" <=> pc[q] = "new"
      BY <1>4 DEF Goto
    <2>2. \A q \in Requests : row'[q] \in Requests => tx[row'[q]] # "none"
      BY <1>4
    <2>3. QED
      BY <1>4, <2>1, <2>2
  <1>5. ASSUME NEW r \in Requests, NEW t \in Repository, Fails(r, t)
        PROVE  /\ Goto(r, "restore") /\ row' = row
               /\ \A q \in Requests : tx'[q] = tx[q] \/ (tx[q] = "open" /\ tx'[q] = "aborted")
    BY <1>5 DEF Fails
  <1>6. ASSUME NEW r \in Requests, Create(r) PROVE BegunInv'
    <2>1. PICK t \in Repository : t = repo[At[r]]
      OBVIOUS
    <2>2. pc[r] # "new" /\ UNCHANGED <<repo, prev>>
      BY <1>6 DEF Create
    <2>3. CASE Fails(r, t)
      BY <1>4, <1>5, <2>2, <2>3
    <2>4. CASE row' = [row EXCEPT ![r] = t] /\ Goto(r, "update") /\ UNCHANGED tx
      BY <1>4, <2>1, <2>2, <2>4
    <2>5. QED
      BY <1>6, <2>1, <2>3, <2>4 DEF Create
  <1>7. ASSUME NEW r \in Requests, Update(r) \/ CreateCiphertexts(r) \/ PublishMessageNew(r) PROVE BegunInv'
    <2>1. PICK t \in Repository : t = repo[At[r]]
      OBVIOUS
    <2>2. pc[r] # "new" /\ UNCHANGED <<repo, prev>> /\ r \in Repository
      BY <1>7 DEF Update, CreateCiphertexts, PublishMessageNew, Repository
    <2>3. CASE Fails(r, t) \/ Fails(r, r)
      BY <1>4, <1>5, <2>2, <2>3
    <2>4. CASE GivesUp(r)
      BY <1>4, <2>2, <2>4 DEF GivesUp
    <2>5. ASSUME NEW l \in {"cipher", "publish", "restore"}, Goto(r, l), UNCHANGED <<tx, row>> PROVE BegunInv'
      BY <1>4, <2>2, <2>5
    <2>6. QED
      BY <1>7, <2>1, <2>3, <2>4, <2>5 DEF Update, CreateCiphertexts, PublishMessageNew
  <1>8. ASSUME NEW r \in Requests, Finish(r) \/ Cancel(r) PROVE BegunInv'
    BY <1>8 DEF Finish, Cancel, Goto, Active
  <1>9. ASSUME NEW p \in Procs, Crash(p) PROVE BegunInv'
    BY <1>9 DEF Crash, Active
  <1>10. CASE UNCHANGED vars
    BY <1>10 DEF vars
  <1>11. QED
    BY <1>1, <1>2, <1>3, <1>6, <1>7, <1>8, <1>9, <1>10 DEF Next, Step

(* A step that inserts no message and opens no transaction that one was    *)
(* inserted in brings none to life.                                        *)
LEMMA NothingInserted ==
  ASSUME TypeOK, TypeOK', OneHolder, LiveOnce, UNCHANGED row,
         \A t \in Requests : \/ tx'[t] = tx[t]
                             \/ tx[t] = "open" \/ tx'[t] \notin {"open", "committed"}
                             \/ \A r \in Requests : row[r] # t,
         \A t \in Requests : tx'[t] = "open" => tx[t] = "open" \/ \A r \in Requests : row[r] # t
  PROVE  OneHolder' /\ LiveOnce'
  <1>1. \A t \in Requests : Holds(t)' => Holds(t)
    BY DEF Holds
  <1>2. \A r \in Requests : Live(r)' => Live(r)
    BY DEF Live
  <1>3. QED
    BY <1>1, <1>2 DEF OneHolder, LiveOnce

LEMMA OnceStep == TypeOK /\ TypeOK' /\ OnceInv /\ [Next]_vars => OnceInv'
  <1> SUFFICES ASSUME TypeOK, TypeOK', OnceInv, [Next]_vars PROVE OneHolder' /\ LiveOnce'
    BY BegunStep DEF OnceInv
  <1> USE MessageSendAssumption DEF OnceInv
  <1>1. ASSUME NEW r \in Requests, NEW t \in Repository, Fails(r, t) PROVE OneHolder' /\ LiveOnce'
    BY <1>1, NothingInserted DEF Fails, TypeOK
  <1>2. ASSUME UNCHANGED <<row, tx>> PROVE OneHolder' /\ LiveOnce'
    BY <1>2, NothingInserted
  <1>3. ASSUME NEW r \in Requests, Create(r) PROVE OneHolder' /\ LiveOnce'
    <2>1. PICK t \in Repository : t = repo[At[r]]
      BY DEF TypeOK
    <2>2. CASE Fails(r, t)
      BY <1>1, <2>2
    <2>3. CASE /\ Usable(t) /\ ~SequenceLocked(t) /\ ~Duplicate(r, t)
               /\ row' = [row EXCEPT ![r] = t]
               /\ UNCHANGED tx
      <3>1. \A q \in Requests : row'[q] = IF q = r THEN t ELSE row[q]
        BY <2>3 DEF TypeOK
      <3>2. \A s \in Requests : Holds(s)' => s = t
        <4>1. SUFFICES ASSUME NEW s \in Requests, Holds(s)', s # t PROVE FALSE
          OBVIOUS
        <4>2. tx[s] = "open"
          BY <2>3, <4>1 DEF Holds
        <4>3. PICK q \in Requests : row'[q] = s
          BY <4>1 DEF Holds
        <4>4. q # r /\ row[q] = s
          BY <3>1, <4>1, <4>3
        <4>5. QED
          BY <2>3, <4>1, <4>2, <4>4 DEF SequenceLocked
      <3>3. ASSUME NEW q \in Requests, q # r, ClientMsg[q] = ClientMsg[r] PROVE ~Live(q)
        <4>1. SUFFICES ASSUME Live(q) PROVE FALSE
          OBVIOUS
        <4>2. ~ RowVisible(q) /\ ~ (row[q] = t /\ t \in Requests /\ tx[t] = "open")
          BY <2>3, <3>3 DEF Duplicate, SeenBy
        <4>3. row[q] \in Requests /\ tx[row[q]] = "open" /\ row[q] # t
          BY <4>1, <4>2 DEF Live, RowVisible, Committed
        <4>4. QED
          BY <2>3, <4>3 DEF SequenceLocked
      <3>4. \A q \in Requests : q # r => (Live(q)' <=> Live(q))
        BY <2>3, <3>1 DEF Live
      <3>5. LiveOnce'
        BY <3>3, <3>4 DEF LiveOnce
      <3>6. QED
        BY <3>2, <3>5 DEF OneHolder
    <2>4. QED
      BY <1>3, <2>1, <2>2, <2>3 DEF Create
  <1>4. ASSUME NEW r \in Requests, Begin(r) PROVE OneHolder' /\ LiveOnce'
    <2>1. /\ row' = row
          /\ \A q \in Requests : tx'[q] = IF q = r THEN "open" ELSE tx[q]
      BY <1>4 DEF Begin, TypeOK
    <2>2. \A q \in Requests : row[q] # r
      BY <1>4 DEF Begin, BegunInv
    <2>3. QED
      BY <2>1, <2>2, NothingInserted
  <1>5. ASSUME NEW r \in Requests, SaveRepo(r) \/ SwapRepo(r) \/ RestoreRepo(r) PROVE OneHolder' /\ LiveOnce'
    BY <1>2, <1>5 DEF SaveRepo, SwapRepo, RestoreRepo
  <1>6. ASSUME NEW r \in Requests, Update(r) \/ CreateCiphertexts(r) \/ PublishMessageNew(r)
        PROVE  OneHolder' /\ LiveOnce'
    <2>1. PICK t \in Repository : t = repo[At[r]]
      BY DEF TypeOK
    <2>2. r \in Repository
      BY DEF Repository
    <2>3. QED
      BY <1>1, <1>2, <1>6, <2>1, <2>2 DEF Update, CreateCiphertexts, PublishMessageNew, GivesUp
  <1>7. ASSUME NEW r \in Requests, Finish(r) \/ Cancel(r) PROVE OneHolder' /\ LiveOnce'
    <2>1. /\ row' = row
          /\ \A q \in Requests \ {r} : tx'[q] = tx[q]
          /\ tx'[r] = "rolledback" \/ (tx[r] = "open" /\ tx'[r] = "committed")
      BY <1>7 DEF Finish, Cancel, TypeOK
    <2>2. QED
      BY <2>1, NothingInserted
  <1>8. ASSUME NEW p \in Procs, Crash(p) PROVE OneHolder' /\ LiveOnce'
    <2>1. row' = row /\ \A t \in Requests : tx'[t] = tx[t] \/ tx'[t] = "rolledback"
      BY <1>8 DEF Crash
    <2>2. QED
      BY <2>1, NothingInserted
  <1>9. CASE UNCHANGED vars
    BY <1>2, <1>9 DEF vars
  <1>10. QED
    BY <1>3, <1>4, <1>5, <1>6, <1>7, <1>8, <1>9 DEF Next, Step

(* A send and its retries store one message at most, on whatever processes *)
(* they run, whichever sends overlap and in whatever transactions their    *)
(* rows end up: an insert waits for the transaction that holds the         *)
(* sequence row, and then sees what it has stored.                         *)
THEOREM StoresOnce == Spec => []StoredOnce
  <1>1. Init => OnceInv
    BY MessageSendAssumption DEF Init, OnceInv, BegunInv, OneHolder, Holds, LiveOnce, Live
  <1>2. Spec => []OnceInv
    BY <1>1, SendTypes, OnceStep, PTL DEF Spec
  <1>3. OnceInv => StoredOnce
    BY DEF OnceInv, LiveOnce, StoredOnce, RowVisible, Committed, Live
  <1>4. QED
    BY <1>2, <1>3, PTL

-----------------------------------------------------------------------------
(* A send that meets no other in its process.                              *)

(* Where the repository of the process is bound to the request.            *)
Inside == {"create", "update", "cipher", "publish", "restore"}

(* A request inserts in its own transaction, row, ciphertexts and event in *)
(* this order, and commits only when all three are there.                  *)
OwnInv(r) ==
  /\ pc[r] \in Inside => repo[At[r]] = r
  /\ row[r] \in {NoTx, r} /\ cipher[r] \in {NoTx, r}
  /\ pc[r] \in {"new", "save", "swap", "create"} => row[r] = NoTx
  /\ pc[r] \in {"update", "cipher", "publish"} => row[r] = r
  /\ pc[r] = "publish" => cipher[r] = r
  /\ pc[r] \in {"restore", "finish"} /\ good[r] => row[r] = r /\ cipher[r] = r /\ event[r]
  /\ tx[r] = "open" => Active(r)
  /\ tx[r] = "committed" =>
       pc[r] \in {"ok", "failed"} /\ row[r] = r /\ cipher[r] = r /\ event[r]
  /\ pc[r] = "ok" => tx[r] = "committed"

(* Whoever was active with another of its process has met it.              *)
MetInv == \A q, r \in Requests : q # r /\ At[q] = At[r] /\ Active(q) /\ Active(r) => r \in met

LEMMA MetStep == TypeOK /\ MetInv /\ [Next]_vars => MetInv' /\ met \subseteq met'
  <1> SUFFICES ASSUME TypeOK, MetInv, [Next]_vars PROVE MetInv' /\ met \subseteq met'
    OBVIOUS
  <1> USE MessageSendAssumption DEF TypeOK, MetInv
  <1>1. ASSUME NEW r \in Requests, Begin(r) PROVE MetInv' /\ met \subseteq met'
    <2>1. \A q \in Requests : q # r => (Active(q)' <=> Active(q))
      BY <1>1 DEF Begin, Goto, Active
    <2>2. met \subseteq met'
      BY <1>1 DEF Begin
    <2>3. ASSUME NEW q \in Requests, q # r, At[q] = At[r], Active(q)
          PROVE  q \in met' /\ r \in met'
      BY <1>1, <2>3 DEF Begin, Beside
    <2>4. QED
      BY <2>1, <2>2, <2>3
  <1>2. ASSUME UNCHANGED met, \A r \in Requests : Active(r)' => Active(r)
        PROVE  MetInv' /\ met \subseteq met'
    BY <1>2
  <1>3. ASSUME NEW r \in Requests, Step(r) PROVE MetInv' /\ met \subseteq met'
    <2>1. Active(r) /\ UNCHANGED met
      BY <1>3 DEF Step, SaveRepo, SwapRepo, Create, Update, CreateCiphertexts, PublishMessageNew,
                  RestoreRepo, Finish, Active
    <2>2. \E l \in {"swap", "create", "update", "cipher", "publish", "restore", "finish", "ok", "failed"} :
            pc' = [pc EXCEPT ![r] = l]
      BY <1>3 DEF Step, SaveRepo, SwapRepo, Create, Update, CreateCiphertexts, PublishMessageNew,
                  RestoreRepo, Finish, Fails, GivesUp, Goto
    <2>3. QED
      BY <1>2, <2>1, <2>2 DEF Active
  <1>4. ASSUME NEW r \in Requests, Cancel(r) PROVE MetInv' /\ met \subseteq met'
    BY <1>2, <1>4 DEF Cancel, Active
  <1>5. ASSUME NEW p \in Procs, Crash(p) PROVE MetInv' /\ met \subseteq met'
    BY <1>2, <1>5 DEF Crash, Active
  <1>6. CASE UNCHANGED vars
    BY <1>2, <1>6 DEF vars, Active
  <1>7. QED
    BY <1>1, <1>3, <1>4, <1>5, <1>6 DEF Next

(* No other send of the process is active while r is.                      *)
SentAlone(r) == \A q \in Requests \ {r} : At[q] = At[r] => ~ (Active(q) /\ Active(r))

(* Request r moves: only here does its label change.                       *)
LEMMA OwnStep ==
  ASSUME NEW r \in Requests
  PROVE  TypeOK /\ SentAlone(r) /\ OwnInv(r) /\ [Next]_vars => OwnInv(r)'
  <1> SUFFICES ASSUME TypeOK, SentAlone(r), OwnInv(r), [Next]_vars PROVE OwnInv(r)'
    OBVIOUS
  <1> USE MessageSendAssumption DEF TypeOK, OwnInv, Active, Inside
  <1>1. CASE Begin(r)
    BY <1>1 DEF Begin, Goto
  <1>2. CASE SaveRepo(r) \/ SwapRepo(r) \/ RestoreRepo(r)
    BY <1>2 DEF SaveRepo, SwapRepo, RestoreRepo, Goto
  <1>3. CASE Create(r)
    BY <1>3 DEF Create, Fails, Goto
  <1>4. CASE Update(r)
    BY <1>4 DEF Update, Fails, GivesUp, Goto
  <1>5. CASE CreateCiphertexts(r)
    BY <1>5 DEF CreateCiphertexts, Fails, GivesUp, Goto
  <1>6. CASE PublishMessageNew(r)
    BY <1>6 DEF PublishMessageNew, Fails, Goto
  <1>7. CASE Finish(r)
    BY <1>7 DEF Finish, Goto
  <1>8. ASSUME NEW q \in Requests, Cancel(q) PROVE OwnInv(r)'
    BY <1>8 DEF Cancel
  <1>9. ASSUME NEW p \in Procs, Crash(p) PROVE OwnInv(r)'
    BY <1>9 DEF Crash
  <1>10. CASE UNCHANGED vars
    BY <1>10 DEF vars
  <1>11. ASSUME pc'[r] = pc[r], row'[r] = row[r], cipher'[r] = cipher[r], event'[r] = event[r], good'[r] = good[r],
                tx'[r] = tx[r] \/ (tx[r] = "open" /\ tx'[r] = "aborted"),
                pc[r] \in Inside => repo'[At[r]] = repo[At[r]]
         PROVE  OwnInv(r)'
    BY <1>11
  <1>12. ASSUME NEW q \in Requests \ {r}, Begin(q) PROVE OwnInv(r)'
    BY <1>11, <1>12 DEF Begin, Goto
  <1>13. ASSUME NEW q \in Requests \ {r}, Step(q) PROVE OwnInv(r)'
    <2>1. Active(q)
      BY <1>13 DEF Step, SaveRepo, SwapRepo, Create, Update, CreateCiphertexts, PublishMessageNew,
                   RestoreRepo, Finish
    <2>2. pc[r] \in Inside => At[q] # At[r]
      BY <2>1 DEF SentAlone
    <2>3. CASE SaveRepo(q) \/ SwapRepo(q) \/ RestoreRepo(q)
      BY <1>11, <2>2, <2>3 DEF SaveRepo, SwapRepo, RestoreRepo, Goto
    <2>4. PICK t \in Repository : t = repo[At[q]]
      OBVIOUS
    <2>5. CASE Create(q)
      BY <1>11, <2>4, <2>5 DEF Create, Fails, Goto
    <2>6. CASE Update(q)
      BY <1>11, <2>4, <2>6 DEF Update, Fails, GivesUp, Goto
    <2>7. CASE CreateCiphertexts(q)
      BY <1>11, <2>4, <2>7 DEF CreateCiphertexts, Fails, GivesUp, Goto
    <2>8. CASE PublishMessageNew(q)
      BY <1>11, <2>8 DEF PublishMessageNew, Fails, Goto
    <2>9. CASE Finish(q)
      BY <1>11, <2>9 DEF Finish, Goto
    <2>10. QED
      BY <1>13, <2>3, <2>5, <2>6, <2>7, <2>8, <2>9 DEF Step
  <1>14. ASSUME NEW q \in Requests, Begin(q) \/ Step(q) PROVE OwnInv(r)'
    <2>1. CASE q = r
      BY ONLY <1>14, <2>1, <1>1, <1>2, <1>3, <1>4, <1>5, <1>6, <1>7 DEF Step
    <2>2. CASE q # r
      BY ONLY <1>14, <2>2, <1>12, <1>13
    <2>3. QED
      BY ONLY <2>1, <2>2
  <1>15. QED
    BY ONLY <1>8, <1>9, <1>10, <1>14, [Next]_vars DEF Next

LEMMA OwnInitially ==
  ASSUME NEW r \in Requests
  PROVE  Init => OwnInv(r)
  BY MessageSendAssumption DEF Init, OwnInv, Inside, Active

(* Then a message is visible exactly when its request has committed.       *)
LEMMA VisibleIsCommitted ==
  ASSUME NEW r \in Requests, OwnInv(r)
  PROVE  /\ RowVisible(r) <=> tx[r] = "committed"
         /\ CipherVisible(r) <=> tx[r] = "committed"
         /\ EventVisible(r) <=> tx[r] = "committed"
  BY MessageSendAssumption
  DEF OwnInv, RowVisible, CipherVisible, EventVisible, Committed

AloneInv == MetInv /\ \A r \in Requests \ met : OwnInv(r)

LEMMA AloneInvariant == Spec => []AloneInv
  <1>1. Init => AloneInv
    BY OwnInitially DEF AloneInv, MetInv, Init, Active
  <1>2. ASSUME TypeOK, AloneInv, [Next]_vars PROVE AloneInv'
    <2>1. MetInv' /\ met \subseteq met'
      BY <1>2, MetStep DEF AloneInv
    <2>2. ASSUME NEW r \in Requests \ met PROVE OwnInv(r)'
      <3>1. SentAlone(r) /\ OwnInv(r)
        BY <1>2 DEF AloneInv, MetInv, SentAlone
      <3>2. QED
        BY <1>2, <3>1, OwnStep
    <2>3. QED
      BY <2>1, <2>2 DEF AloneInv
  <1>3. QED
    BY <1>1, <1>2, SendTypes, PTL DEF Spec

(* A send that was never active together with another of its process is    *)
(* atomic and its answer is true, whatever fails, whatever sends overlap   *)
(* before and after it and in other processes, and even if those have left *)
(* the shared field bound to a transaction that is over.                   *)
THEOREM WholeWhenAlone == Spec => []AloneIsWhole
  <1>1. AloneInv => AloneIsWhole
    BY VisibleIsCommitted DEF AloneInv, AloneIsWhole, OwnInv
  <1>2. QED
    BY <1>1, AloneInvariant, PTL

-----------------------------------------------------------------------------
(* The shared field and the sequence row.                                  *)

(* A process only gets its own transactions into its field.                *)
HomeInv ==
  /\ \A p \in Procs : repo[p] \in Requests => At[repo[p]] = p
  /\ \A r \in Requests : prev[r] \in Requests => At[prev[r]] = At[r]

(* The transaction of a send that met no other is in the field only while  *)
(* the send put it there; nobody else found it or inserted in it.          *)
BindInv(t) ==
  /\ \A p \in Procs : repo[p] = t => pc[t] \in Inside
  /\ \A r \in Requests : prev[r] # t
  /\ \A r \in Requests : row[r] = t => r = t

FieldInv == HomeInv /\ \A t \in Requests \ met : BindInv(t)

(* Statements leave the field alone, do not take the request out of the    *)
(* part of it where the field is its own, and insert its message where the *)
(* field is bound.                                                         *)
LEMMA StatementShape ==
  ASSUME TypeOK, NEW r \in Requests,
         Create(r) \/ Update(r) \/ CreateCiphertexts(r) \/ PublishMessageNew(r)
  PROVE  /\ pc[r] \in Inside
         /\ \E l \in Inside : pc' = [pc EXCEPT ![r] = l]
         /\ UNCHANGED <<repo, prev, met>>
         /\ row' = row \/ row' = [row EXCEPT ![r] = repo[At[r]]]
  BY DEF Create, Update, CreateCiphertexts, PublishMessageNew, Fails, GivesUp, Goto, Inside

LEMMA FieldStep == TypeOK /\ AloneInv /\ FieldInv /\ [Next]_vars => FieldInv'
  <1> SUFFICES ASSUME TypeOK, AloneInv, FieldInv, [Next]_vars PROVE FieldInv'
    OBVIOUS
  <1> USE MessageSendAssumption DEF TypeOK, FieldInv, HomeInv, BindInv
  <1>1. met \subseteq met'
    BY MetStep DEF AloneInv
  <1>2. ASSUME NEW r \in Requests, Begin(r) PROVE FieldInv'
    BY <1>1, <1>2 DEF Begin, Goto, Inside
  <1>3. ASSUME NEW r \in Requests, SaveRepo(r) PROVE FieldInv'
    <2>1. ASSUME NEW t \in Requests \ met PROVE repo[At[r]] # t
      <3>1. SUFFICES ASSUME repo[At[r]] = t PROVE FALSE
        OBVIOUS
      <3>2. At[t] = At[r] /\ pc[t] \in Inside /\ pc[r] = "save"
        BY <1>3, <3>1 DEF SaveRepo
      <3>3. QED
        BY <3>2 DEF AloneInv, MetInv, Active, Inside
    <2>2. QED
      BY <1>3, <2>1 DEF SaveRepo, Goto, Inside
  <1>4. ASSUME NEW r \in Requests, SwapRepo(r) PROVE FieldInv'
    BY <1>4 DEF SwapRepo, Goto, Inside
  <1>5. ASSUME NEW r \in Requests, RestoreRepo(r) PROVE FieldInv'
    <2>1. /\ repo' = [repo EXCEPT ![At[r]] = prev[r]]
          /\ pc' = [pc EXCEPT ![r] = "finish"]
          /\ UNCHANGED <<prev, row, met>>
      BY <1>5 DEF RestoreRepo, Goto
    <2>2. HomeInv'
      BY <2>1
    <2>3. ASSUME NEW t \in Requests \ met, NEW p \in Procs, repo'[p] = t PROVE pc'[t] \in Inside
      <3>1. p # At[r] /\ repo[p] = t
        BY <2>1, <2>3
      <3>2. t # r
        BY <3>1
      <3>3. QED
        BY <2>1, <3>1, <3>2
    <2>4. QED
      BY <2>1, <2>2, <2>3
  <1>6. ASSUME NEW r \in Requests,
               Create(r) \/ Update(r) \/ CreateCiphertexts(r) \/ PublishMessageNew(r)
        PROVE  FieldInv'
    <2>1. /\ pc[r] \in Inside
          /\ \E l \in Inside : pc' = [pc EXCEPT ![r] = l]
          /\ UNCHANGED <<repo, prev, met>>
          /\ row' = row \/ row' = [row EXCEPT ![r] = repo[At[r]]]
      BY <1>6, StatementShape
    <2>2. ASSUME NEW t \in Requests \ met, repo[At[r]] = t PROVE r = t
      <3>1. At[t] = At[r] /\ pc[t] \in Inside
        BY <2>2
      <3>2. QED
        BY <2>1, <3>1 DEF AloneInv, MetInv, Active, Inside
    <2>3. QED
      BY <2>1, <2>2
  <1>7. ASSUME NEW r \in Requests, Finish(r) PROVE FieldInv'
    BY <1>7 DEF Finish, Goto, Inside
  <1>8. ASSUME NEW r \in Requests, Cancel(r) PROVE FieldInv'
    BY <1>8 DEF Cancel
  <1>9. ASSUME NEW p \in Procs, Crash(p) PROVE FieldInv'
    BY <1>9 DEF Crash
  <1>10. CASE UNCHANGED vars
    BY <1>10 DEF vars
  <1>11. QED
    BY <1>2, <1>3, <1>4, <1>5, <1>6, <1>7, <1>8, <1>9, <1>10 DEF Next, Step

LEMMA FieldInvariant == Spec => []FieldInv
  <1>1. Init => FieldInv
    BY MessageSendAssumption DEF Init, FieldInv, HomeInv, BindInv
  <1>2. QED
    BY <1>1, FieldStep, SendTypes, AloneInvariant, PTL DEF Spec

(* Every success that was answered is announced, a send and its retries    *)
(* store one message, and the process is left on the pool as long as its   *)
(* sends do not overlap, on however many processes they run.               *)
THEOREM Answered == Spec => []StoredAsAnswered
  <1>1. TypeOK /\ FieldInv => IdleUsesPool
    <2> SUFFICES ASSUME TypeOK, FieldInv, NEW p \in Procs,
                        \A r \in Requests : At[r] = p => ~Active(r) /\ r \notin met,
                        repo[p] # Pool
                 PROVE  FALSE
      BY DEF IdleUsesPool
    <2>1. repo[p] \in Requests /\ At[repo[p]] = p
      BY DEF TypeOK, Repository, FieldInv, HomeInv
    <2>2. pc[repo[p]] \in Inside
      BY <2>1 DEF FieldInv, BindInv
    <2>3. QED
      BY <2>1, <2>2 DEF Active, Inside
  <1>2. TypeOK /\ OkIsAnnounced /\ StoredOnce /\ IdleUsesPool => StoredAsAnswered
    BY DEF StoredAsAnswered
  <1>3. QED
    BY <1>1, <1>2, SendTypes, FieldInvariant, AnsweredIsAnnounced, StoresOnce, PTL

(* Whoever waits for the sequence row because of a send that met no other  *)
(* waits for the request that inserted there, which is past its insert and *)
(* does not wait itself: rings are made by overlaps only, and only of      *)
(* those who overlapped.                                                   *)
THEOREM HoldersRun == Spec => []HolderRuns
  <1>1. TypeOK /\ AloneInv /\ FieldInv => HolderRuns
    <2> SUFFICES ASSUME TypeOK, AloneInv, FieldInv, NEW t \in Requests \ met, Holds(t)
                 PROVE  /\ pc[t] \in {"update", "cipher", "publish", "restore", "finish"}
                        /\ \A r \in Requests : row[r] = t => r = t
      BY DEF HolderRuns
    <2>1. \A r \in Requests : row[r] = t => r = t
      BY DEF FieldInv, BindInv
    <2>2. row[t] = t /\ tx[t] = "open"
      BY <2>1 DEF Holds
    <2>3. OwnInv(t) /\ t # NoTx
      BY MessageSendAssumption DEF AloneInv
    <2>4. pc[t] \in {"new", "save", "swap", "create", "update", "cipher", "publish",
                     "restore", "finish", "ok", "failed", "dead"}
      BY DEF TypeOK
    <2>5. QED
      BY <2>1, <2>2, <2>3, <2>4 DEF OwnInv, Active
  <1>2. QED
    BY <1>1, SendTypes, AloneInvariant, FieldInvariant, PTL
=============================================================================
