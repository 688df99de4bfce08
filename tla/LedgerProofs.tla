---------------------------- MODULE LedgerProofs ----------------------------
(***************************************************************************)
(* Theorems about the outbox of a single API process, for any events,      *)
(* batch size and retry limit, with crashes, failing statements and a      *)
(* failing bus: a settled row is final, and the outbox implements          *)
(* EventLedger.                                                            *)
(***************************************************************************)
EXTENDS OutboxLedger, OutboxProofs

(* No other worker touches what this one holds: the batch is waiting, the  *)
(* event in hand is claimed.  A row given up was never announced.          *)
HoldInv ==
  /\ \A e \in batch[Api] : status[e] = "PENDING"
  /\ cur[Api] \in Events => status[cur[Api]] = "PROCESSING"
  /\ \A e \in Events : status[e] = "FAILED" => sent[Api][e] = 0

SingleInv == IInv /\ HoldInv

-----------------------------------------------------------------------------

(* The worker takes only what waits, claims it before anything else and    *)
(* lets go of it when it settles.                                          *)
LEMMA HoldStep == IInv /\ HoldInv /\ [Next]_vars => HoldInv'
  <1> SUFFICES ASSUME TypeOK, WorkerInv, RowInv, ClaimInv, HoldInv, [Next]_vars
               PROVE  HoldInv'
    BY DEF IInv
  <1> USE OutboxAssumption, SingleProcess DEF TypeOK, HoldInv
  <1>1. ASSUME NEW x \in Events, CommitTx(x) PROVE HoldInv'
    <2>1. status[x] = "ABSENT" /\ status' = [status EXCEPT ![x] = "PENDING"]
      BY <1>1 DEF CommitTx, RowInv
    <2>2. UNCHANGED <<batch, cur, sent>>
      BY <1>1 DEF CommitTx, worker, history
    <2>3. QED
      BY <2>1, <2>2
  <1>2. ASSUME UNCHANGED <<status, sent>>,
               batch'[Api] = batch[Api] \/ batch'[Api] = {},
               cur'[Api] = cur[Api] \/ cur'[Api] = NoEvent
        PROVE  HoldInv'
    BY <1>2
  <1>3. ASSUME NEW x \in Events, ChangeFirst(x) \/ SaveToOutbox(x) \/ AbortTx(x)
        PROVE  HoldInv'
    BY <1>2, <1>3 DEF ChangeFirst, SaveToOutbox, AbortTx, table, worker, history
  <1>4. CASE Fetch(Api)
    <2>1. PICK B \in Pending : batch' = [batch EXCEPT ![Api] = B]
      BY <1>4 DEF Fetch
    <2>2. B \subseteq Waiting
      BY DEF Pending
    <2>3. UNCHANGED <<status, cur, sent>>
      BY <1>4 DEF Fetch, table, history
    <2>4. QED
      BY <2>1, <2>2, <2>3 DEF Waiting
  <1>5. CASE MarkProcessing(Api)
    <2>1. PICK x \in batch[Api] :
            /\ batch' = [batch EXCEPT ![Api] = @ \ {x}]
            /\ \/ status' = [status EXCEPT ![x] = "PROCESSING"] /\ cur' = [cur EXCEPT ![Api] = x]
               \/ status' = status /\ cur' = [cur EXCEPT ![Api] = NoEvent]
      BY <1>5 DEF MarkProcessing, NextEvent
    <2>2. sent' = sent
      BY <1>5 DEF MarkProcessing
    <2>3. x \in Events /\ status[x] = "PENDING" /\ cur[Api] = NoEvent
      BY <1>5, <2>1 DEF MarkProcessing, WorkerInv
    <2>4. QED
      BY <2>1, <2>2, <2>3
  <1>6. CASE Publish(Api)
    <2>1. cur[Api] \in Events /\ status[cur[Api]] = "PROCESSING"
      BY <1>6 DEF Publish, WorkerInv
    <2>2. /\ sent' = [sent EXCEPT ![Api][cur[Api]] = @ + 1]
          /\ UNCHANGED <<status, batch, cur>>
      BY <1>6 DEF Publish, table
    <2>3. \A e \in Events : e # cur[Api] => sent'[Api][e] = sent[Api][e]
      BY <2>2
    <2>4. QED
      BY <2>1, <2>2, <2>3
  <1>7. CASE MarkFailed(Api) \/ MarkCompleted(Api)
    <2>1. /\ cur[Api] \in Events /\ cur[Api] \notin batch[Api]
          /\ MarkFailed(Api) => sent[Api][cur[Api]] = 0
      BY <1>7 DEF MarkFailed, MarkCompleted, WorkerInv, ClaimInv
    <2>2. /\ \/ status' = status
             \/ status' = [status EXCEPT ![cur[Api]] = "COMPLETED"]
             \/ MarkFailed(Api) /\ status' = [status EXCEPT ![cur[Api]] = "FAILED"]
          /\ UNCHANGED <<batch, sent>>
          /\ cur'[Api] = NoEvent
      BY <1>7 DEF MarkFailed, MarkCompleted, WriteStatus, NextEvent
    <2>3. QED
      BY <2>1, <2>2
  <1>8. CASE PublishFails(Api) \/ IncrementRetry(Api) \/ WorkerExit(Api)
    BY <1>2, <1>8 DEF PublishFails, IncrementRetry, WorkerExit, NextEvent, table, history
  <1>9. CASE Process(Api)
    BY <1>2, <1>9 DEF Process, Start, Shutdown, StopBus, Crash, table, worker, history
  <1>10. CASE UNCHANGED vars
    BY <1>2, <1>10 DEF vars, table, worker, history
  <1>11. QED
    BY <1>1, <1>3, <1>4, <1>5, <1>6, <1>7, <1>8, <1>9, <1>10
    DEF Next, Request, WorkerStep

LEMMA SingleInvariance == Spec => []SingleInv
  <1>1. Init => HoldInv
    BY OutboxAssumption, SingleProcess DEF Init, HoldInv
  <1>2. QED
    BY <1>1, InitIInv, IInvStep, HoldStep, PTL DEF Spec, SingleInv

-----------------------------------------------------------------------------

(* A step writes a status column in three ways: a request commits a new    *)
(* row, the worker claims a waiting row, the worker settles its claim.     *)
LEMMA StatusWrites ==
  ASSUME SingleInv, [Next]_vars, NEW e \in Events, status'[e] # status[e]
  PROVE  \/ status[e] = "ABSENT" /\ status'[e] = "PENDING"
         \/ status[e] = "PENDING" /\ status'[e] = "PROCESSING"
         \/ status[e] = "PROCESSING" /\ status'[e] \in Settled
  <1> USE OutboxAssumption, SingleProcess DEF TypeOK, HoldInv, SingleInv, IInv
  <1> DEFINE Goal == \/ status[e] = "ABSENT" /\ status'[e] = "PENDING"
                     \/ status[e] = "PENDING" /\ status'[e] = "PROCESSING"
                     \/ status[e] = "PROCESSING" /\ status'[e] \in Settled
  <1>1. ASSUME NEW x \in Events, CommitTx(x) PROVE Goal
    BY <1>1 DEF CommitTx, RowInv
  <1>2. CASE MarkProcessing(Api)
    BY <1>2 DEF MarkProcessing
  <1>3. CASE MarkFailed(Api) \/ MarkCompleted(Api)
    BY <1>3 DEF MarkFailed, MarkCompleted, WriteStatus, WorkerInv, Settled
  <1>4. QED
    BY <1>1, <1>2, <1>3
    DEF Next, Request, ChangeFirst, SaveToOutbox, AbortTx, WorkerStep, Fetch, Publish,
        PublishFails, IncrementRetry, WorkerExit, Process, Start, Shutdown, StopBus, Crash,
        vars, table

(* With one process COMPLETED and FAILED are final: no statement of a      *)
(* later batch, of a retry or of a life after a crash rewrites the row.    *)
THEOREM SettledFinal == Spec => SettledIsFinal
  <1>1. SingleInv /\ [Next]_vars
          => [\A e \in Events : status[e] \in Settled => status'[e] = status[e]]_status
    BY StatusWrites DEF Settled
  <1>2. QED
    BY <1>1, SingleInvariance, PTL DEF Spec, SettledIsFinal

-----------------------------------------------------------------------------
(* The outbox implements EventLedger.                                      *)

LEMMA LedgerInit == Init => Ledger!Init
  BY OutboxAssumption, SingleProcess DEF Init, Ledger!Init, stageBar, Stage

(* Whatever leaves the transactions, the failed rows and the publications  *)
(* alone is a stuttering step of the ledger.                               *)
LEMMA LedgerStutter ==
  ASSUME sent' = sent,
         \A e \in Events : tx'[e] = "committed" <=> tx[e] = "committed",
         \A e \in Events : status'[e] = "FAILED" <=> status[e] = "FAILED"
  PROVE  UNCHANGED Ledger!vars
  <1>1. \A e \in Events : Stage(e)' = Stage(e)
    BY DEF Stage
  <1>2. stageBar' = stageBar
    BY <1>1 DEF stageBar
  <1>3. QED
    BY <1>2 DEF Ledger!vars

(* A commit records the event.                                             *)
LEMMA CommitRecords ==
  ASSUME SingleInv, NEW x \in Events, CommitTx(x)
  PROVE  Ledger!Record(x)
  <1> USE DEF SingleInv, IInv, TypeOK
  <1>1. tx[x] = "open" /\ status[x] = "ABSENT"
    BY DEF CommitTx, RowInv
  <1>2. /\ tx' = [tx EXCEPT ![x] = "committed"]
        /\ status' = [status EXCEPT ![x] = "PENDING"]
        /\ sent' = sent
    BY DEF CommitTx, history
  <1>3. Stage(x) = "none" /\ Stage(x)' = "recorded"
    BY <1>1, <1>2 DEF Stage
  <1>4. \A e \in Events : e # x => Stage(e)' = Stage(e)
    BY <1>2 DEF Stage
  <1>5. stageBar' = [stageBar EXCEPT ![x] = "recorded"] /\ stageBar[x] = "none"
    BY <1>3, <1>4 DEF stageBar
  <1>6. QED
    BY <1>2, <1>5 DEF Ledger!Record

(* Publish announces the event in hand.                                    *)
LEMMA PublishAnnounces ==
  ASSUME SingleInv, Publish(Api)
  PROVE  cur[Api] \in Events /\ Ledger!Announce(cur[Api])
  <1> USE SingleProcess, OutboxAssumption DEF SingleInv, IInv, TypeOK
  <1>1. cur[Api] \in Events /\ status[cur[Api]] = "PROCESSING"
    BY DEF Publish, WorkerInv, HoldInv
  <1>2. tx[cur[Api]] = "committed" /\ sent[Api][cur[Api]] = 0
    BY <1>1 DEF Publish, RowInv, ClaimInv
  <1>3. /\ sent' = [sent EXCEPT ![Api][cur[Api]] = @ + 1]
        /\ UNCHANGED <<tx, status>>
    BY DEF Publish, table, request
  <1>4. sent'[Api] = [sent[Api] EXCEPT ![cur[Api]] = 1]
    BY <1>1, <1>2, <1>3
  <1>5. stageBar' = stageBar /\ stageBar[cur[Api]] = "recorded"
    BY <1>1, <1>2, <1>3 DEF stageBar, Stage
  <1>6. QED
    BY <1>1, <1>2, <1>4, <1>5 DEF Ledger!Announce

(* MarkFailed gives the event in hand up, or leaves its row alone.         *)
LEMMA MarkFailedAbandons ==
  ASSUME SingleInv, MarkFailed(Api)
  PROVE  \/ cur[Api] \in Events /\ Ledger!Abandon(cur[Api])
         \/ UNCHANGED Ledger!vars
  <1> USE SingleProcess, OutboxAssumption DEF SingleInv, IInv, TypeOK
  <1>1. cur[Api] \in Events /\ status[cur[Api]] = "PROCESSING"
    BY DEF MarkFailed, WorkerInv, HoldInv
  <1>2. tx[cur[Api]] = "committed" /\ sent[Api][cur[Api]] = 0
    BY <1>1 DEF MarkFailed, RowInv, ClaimInv
  <1>3. UNCHANGED <<tx, sent>>
    BY DEF MarkFailed, request
  <1>4. CASE status' = status
    BY <1>3, <1>4, LedgerStutter
  <1>5. CASE status' = [status EXCEPT ![cur[Api]] = "FAILED"]
    <2>1. PICK x \in Events : x = cur[Api]
      BY <1>1
    <2>2. Stage(x) = "recorded" /\ Stage(x)' = "abandoned"
      BY <1>1, <1>2, <1>3, <1>5, <2>1 DEF Stage
    <2>3. \A e \in Events : e # x => Stage(e)' = Stage(e)
      BY <1>3, <1>5, <2>1 DEF Stage
    <2>4. stageBar' = [stageBar EXCEPT ![x] = "abandoned"] /\ stageBar[x] = "recorded"
      BY <2>2, <2>3 DEF stageBar
    <2>5. QED
      BY <1>2, <1>3, <2>1, <2>4 DEF Ledger!Abandon
  <1>6. QED
    BY <1>4, <1>5 DEF MarkFailed, WriteStatus

(* Every step of the outbox is a step of the ledger or a stuttering step.  *)
LEMMA LedgerStep == SingleInv /\ [Next]_vars => [Ledger!Next]_(Ledger!vars)
  <1> SUFFICES ASSUME SingleInv, [Next]_vars PROVE [Ledger!Next]_(Ledger!vars)
    OBVIOUS
  <1> USE SingleProcess, OutboxAssumption DEF SingleInv, IInv, TypeOK
  <1>1. ASSUME NEW x \in Events, CommitTx(x) PROVE Ledger!Next
    BY <1>1, CommitRecords DEF Ledger!Next
  <1>2. CASE Publish(Api)
    BY <1>2, PublishAnnounces DEF Ledger!Next
  <1>3. CASE MarkFailed(Api)
    BY <1>3, MarkFailedAbandons DEF Ledger!Next
  <1>4. ASSUME NEW x \in Events, ChangeFirst(x) \/ SaveToOutbox(x) \/ AbortTx(x)
        PROVE  UNCHANGED Ledger!vars
    <2>1. UNCHANGED <<status, sent>>
      BY <1>4 DEF ChangeFirst, SaveToOutbox, AbortTx, table, history
    <2>2. \A e \in Events : tx'[e] = "committed" <=> tx[e] = "committed"
      BY <1>4 DEF ChangeFirst, SaveToOutbox, AbortTx
    <2>3. QED
      BY <2>1, <2>2, LedgerStutter
  <1>5. CASE MarkProcessing(Api) \/ MarkCompleted(Api)
    <2>1. UNCHANGED <<tx, sent>>
      BY <1>5 DEF MarkProcessing, MarkCompleted, request
    <2>2. \A e \in Events : status'[e] = "FAILED" <=> status[e] = "FAILED"
      <3>1. CASE MarkProcessing(Api)
        BY <3>1 DEF MarkProcessing, HoldInv
      <3>2. CASE MarkCompleted(Api)
        BY <3>2 DEF MarkCompleted, WriteStatus, HoldInv, WorkerInv
      <3>3. QED
        BY <1>5, <3>1, <3>2
    <2>3. QED
      BY <2>1, <2>2, LedgerStutter
  <1>6. CASE \/ Fetch(Api) \/ PublishFails(Api) \/ IncrementRetry(Api) \/ WorkerExit(Api)
             \/ Process(Api) \/ UNCHANGED vars
    BY <1>6, LedgerStutter
    DEF Fetch, PublishFails, IncrementRetry, WorkerExit, Process, Start, Shutdown, StopBus,
        Crash, vars, table, request, history
  <1>7. QED
    BY <1>1, <1>2, <1>3, <1>4, <1>5, <1>6 DEF Next, Request, WorkerStep

(* The outbox of a single process keeps the promise of EventLedger: a      *)
(* recorded event is announced once or given up, never both and never      *)
(* twice, and nothing that was not recorded is announced.                  *)
THEOREM ImplementsLedger == Spec => LedgerSpec
  BY LedgerInit, LedgerStep, SingleInvariance, PTL DEF Spec, LedgerSpec, Ledger!Spec
=============================================================================
