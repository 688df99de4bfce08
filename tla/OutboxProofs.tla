---------------------------- MODULE OutboxProofs ----------------------------
(***************************************************************************)
(* Theorems about Outbox, for any events, processes, batch size and retry  *)
(* limit, with or without crashes, failing statements and failing buses.   *)
(***************************************************************************)
EXTENDS Outbox, TLAPS

(* A row that is not the claim of any worker yet.                          *)
Unclaimed == {"ABSENT", "PENDING"}

(* A worker outside its loop has an empty batch; inside processEvent it    *)
(* holds an event that is no longer in the batch.  A worker only runs in a *)
(* process that is up or draining, on a running bus.                       *)
WorkerInv ==
  \A p \in Procs :
    /\ pc[p] \in {"off", "idle"} => batch[p] = {}
    /\ pc[p] \in {"off", "idle", "mark"} <=> cur[p] = NoEvent
    /\ cur[p] \notin batch[p]
    /\ pc[p] # "off" => running[p] /\ phase[p] # "down"

(* Only rows of committed transactions are visible, and an unclaimed row   *)
(* was never published nor retried.                                        *)
RowInv ==
  \A e \in Events :
    /\ status[e] # "ABSENT" => tx[e] = "committed"
    /\ status[e] \in Unclaimed =>
         /\ retry[e] = 0
         /\ \A p \in Procs : sent[p][e] = 0

(* What a worker still has to publish it has not published before.         *)
ClaimInv ==
  \A p \in Procs :
    /\ \A e \in batch[p] : status[e] # "ABSENT" /\ sent[p][e] = 0
    /\ cur[p] \in Events => status[cur[p]] \notin Unclaimed
    /\ pc[p] \in {"publish", "retry", "fail"} => sent[p][cur[p]] = 0
    /\ pc[p] = "complete" => sent[p][cur[p]] > 0

IInv ==
  /\ TypeOK
  /\ WorkerInv
  /\ RowInv
  /\ ClaimInv
  /\ AtMostOncePerProcess
  /\ CompletedWasPublished

-----------------------------------------------------------------------------

LEMMA InitIInv == Init => IInv
  BY OutboxAssumption
  DEF Init, IInv, TypeOK, WorkerInv, RowInv, ClaimInv, AtMostOncePerProcess,
      CompletedWasPublished, Status, Unclaimed

(* Taking up an event, or going on to the next one, moves a worker within  *)
(* its loop.                                                               *)
LEMMA NextEventType ==
  ASSUME TypeOK, NEW p \in Procs, NEW left, NextEvent(p, left)
  PROVE  /\ cur' \in [Procs -> Events \union {NoEvent}]
         /\ pc' \in [Procs -> {"off", "idle", "mark", "publish", "retry", "fail", "complete"}]
  BY DEF NextEvent, TypeOK

LEMMA WriteStatusType ==
  ASSUME TypeOK, NEW e \in Events, NEW s \in Status, WriteStatus(e, s)
  PROVE  status' \in [Events -> Status] /\ faulted' \in SUBSET Events
  <1>1. CASE status' = [status EXCEPT ![e] = s] /\ UNCHANGED faulted
    BY <1>1 DEF TypeOK
  <1>2. CASE faulted' = faulted \union {e} /\ UNCHANGED status
    BY <1>2 DEF TypeOK
  <1>3. QED
    BY <1>1, <1>2 DEF WriteStatus

(* created_at is later than any the process has taken.                     *)
LEMMA TakesCreatedAt ==
  ASSUME TypeOK, NEW e \in Events, TakeCreatedAt(e)
  PROVE  /\ clock' \in [Procs -> Nat]
         /\ stamp' = [stamp EXCEPT ![e] = clock'[Home[e]]]
         /\ stamp' \in [Events -> Nat]
         /\ prior' = [prior EXCEPT ![e] = {c \in Committed : Home[c] = Home[e]}]
         /\ prior' \in [Events -> SUBSET Events]
         /\ \A p \in Procs : clock[p] <= clock'[p]
         /\ clock[Home[e]] < clock'[Home[e]]
  <1>1. PICK d \in Ticks : clock' = [clock EXCEPT ![Home[e]] = @ + d]
    BY DEF TakeCreatedAt
  <1>2. PICK h \in Procs : h = Home[e]
    BY OutboxAssumption
  <1>3. d \in Nat /\ d > 0 /\ clock[h] \in Nat
    BY OutboxAssumption DEF TypeOK
  <1>4. clock[h] + d \in Nat /\ clock[h] + d > clock[h]
    BY <1>3
  <1>5. \A p \in Procs : clock'[p] = IF p = h THEN clock[h] + d ELSE clock[p]
    BY <1>1, <1>2 DEF TypeOK
  <1>6. clock' \in [Procs -> Nat]
    BY <1>1, <1>2, <1>4 DEF TypeOK
  <1>7. ASSUME NEW p \in Procs PROVE clock[p] <= clock'[p]
    <2>1. clock[p] \in Nat
      BY DEF TypeOK
    <2>2. clock'[p] = clock[p] \/ (p = h /\ clock'[p] = clock[h] + d)
      BY <1>5
    <2>3. QED
      BY <1>3, <2>1, <2>2
  <1>8. clock[h] < clock'[h]
    BY <1>4, <1>5
  <1>9. stamp' = [stamp EXCEPT ![e] = clock'[h]] /\ clock'[h] \in Nat
    BY <1>2, <1>6 DEF TakeCreatedAt
  <1>10. stamp' \in [Events -> Nat]
    BY <1>9 DEF TypeOK
  <1>11. /\ prior' = [prior EXCEPT ![e] = {c \in Committed : Home[c] = Home[e]}]
         /\ prior' \in [Events -> SUBSET Events]
    BY DEF TakeCreatedAt, Committed, TypeOK
  <1>12. QED
    BY <1>2, <1>6, <1>7, <1>8, <1>9, <1>10, <1>11

(* Every step keeps the types.                                             *)
LEMMA TypeStep == TypeOK /\ WorkerInv /\ [Next]_vars => TypeOK'
  <1> SUFFICES ASSUME TypeOK, WorkerInv, [Next]_vars PROVE TypeOK'
    OBVIOUS
  <1> USE OutboxAssumption DEF TypeOK
  <1>1. ASSUME NEW e \in Events, Request(e) PROVE TypeOK'
    <2>1. CASE ChangeFirst(e)
      BY <2>1 DEF ChangeFirst, table, worker, history, life
    <2>2. CASE SaveToOutbox(e)
      <3>1. clock' \in [Procs -> Nat] /\ stamp' \in [Events -> Nat] /\ prior' \in [Events -> SUBSET Events]
        BY <2>2, TakesCreatedAt DEF SaveToOutbox
      <3>2. QED
        BY <2>2, <3>1 DEF SaveToOutbox, table, worker, history, life
    <2>3. CASE CommitTx(e)
      BY <2>3 DEF CommitTx, Status, worker, history, life
    <2>4. CASE AbortTx(e)
      BY <2>4 DEF AbortTx, table, worker, history, life
    <2>5. QED
      BY <1>1, <2>1, <2>2, <2>3, <2>4 DEF Request
  <1>2. ASSUME NEW p \in Procs, Fetch(p) PROVE TypeOK'
    BY <1>2 DEF Fetch, Pending, Waiting, table, request, history, life
  <1>3. ASSUME NEW p \in Procs, MarkProcessing(p) PROVE TypeOK'
    <2>1. PICK e \in batch[p] :
            /\ batch' = [batch EXCEPT ![p] = @ \ {e}]
            /\ \/ /\ status' = [status EXCEPT ![e] = "PROCESSING"]
                  /\ cur' = [cur EXCEPT ![p] = e]
                  /\ pc' = [pc EXCEPT ![p] = IF e \in Undecodable THEN "fail" ELSE "publish"]
                  /\ UNCHANGED faulted
               \/ /\ faulted' = faulted \union {e}
                  /\ UNCHANGED status
                  /\ NextEvent(p, batch[p] \ {e})
      BY <1>3 DEF MarkProcessing
    <2>2. e \in Events /\ batch' \in [Procs -> SUBSET Events]
      BY <2>1
    <2>3. status' \in [Events -> Status]
      BY <2>1, <2>2 DEF Status
    <2>4. \/ NextEvent(p, batch[p] \ {e})
          \/ /\ cur' = [cur EXCEPT ![p] = e]
             /\ pc' = [pc EXCEPT ![p] = IF e \in Undecodable THEN "fail" ELSE "publish"]
      BY <2>1
    <2>5. /\ cur' \in [Procs -> Events \union {NoEvent}]
          /\ pc' \in [Procs -> {"off", "idle", "mark", "publish", "retry", "fail", "complete"}]
      <3>1. CASE NextEvent(p, batch[p] \ {e})
        BY <3>1, NextEventType
      <3>2. CASE /\ cur' = [cur EXCEPT ![p] = e]
                 /\ pc' = [pc EXCEPT ![p] = IF e \in Undecodable THEN "fail" ELSE "publish"]
        <4>1. cur' \in [Procs -> Events \union {NoEvent}]
          BY <2>2, <3>2
        <4>2. pc' \in [Procs -> {"off", "idle", "mark", "publish", "retry", "fail", "complete"}]
          BY <3>2
        <4>3. QED
          BY <4>1, <4>2
      <3>3. QED
        BY <2>4, <3>1, <3>2
    <2>6. faulted' \in SUBSET Events
      BY <2>1, <2>2
    <2>7. QED
      BY <1>3, <2>2, <2>3, <2>5, <2>6 DEF MarkProcessing, request, life
  <1>4. ASSUME NEW p \in Procs, Publish(p) PROVE TypeOK'
    <2>1. cur[p] \in Events
      BY <1>4 DEF Publish, WorkerInv
    <2>2. sent' \in [Procs -> [Events -> Nat]]
      BY <1>4, <2>1 DEF Publish
    <2>3. QED
      BY <1>4, <2>1, <2>2 DEF Publish, table, request, life
  <1>5. ASSUME NEW p \in Procs, PublishFails(p) PROVE TypeOK'
    BY <1>5 DEF PublishFails, table, request, history, life
  <1>6. ASSUME NEW p \in Procs, IncrementRetry(p) PROVE TypeOK'
    <2>a. UNCHANGED <<status, request, batch, seen, sent, cut, life>>
      BY <1>6 DEF IncrementRetry
    <2>1. cur[p] \in Events
      BY <1>6 DEF IncrementRetry, WorkerInv
    <2>2. retry' \in [Events -> Nat]
      <3>1. retry' = [retry EXCEPT ![cur[p]] = @ + 1] \/ retry' = retry
        BY <1>6 DEF IncrementRetry
      <3>2. PICK e \in Events : e = cur[p]
        BY <2>1
      <3>3. retry[e] + 1 \in Nat
        OBVIOUS
      <3>4. [retry EXCEPT ![e] = retry[e] + 1] \in [Events -> Nat]
        BY <3>3
      <3>5. QED
        BY <3>1, <3>2, <3>4
    <2>3. \/ NextEvent(p, batch[p])
          \/ pc' = [pc EXCEPT ![p] = "fail"] /\ cur' = cur
      BY <1>6 DEF IncrementRetry
    <2>4. /\ cur' \in [Procs -> Events \union {NoEvent}]
          /\ pc' \in [Procs -> {"off", "idle", "mark", "publish", "retry", "fail", "complete"}]
      <3>1. CASE NextEvent(p, batch[p])
        BY <3>1, NextEventType
      <3>2. CASE pc' = [pc EXCEPT ![p] = "fail"] /\ cur' = cur
        BY <3>2
      <3>3. QED
        BY <2>3, <3>1, <3>2
    <2>5. faulted' \in SUBSET Events
      BY <1>6, <2>1 DEF IncrementRetry
    <2>6. QED
      BY <2>a, <2>2, <2>4, <2>5 DEF request, life
  <1>7. ASSUME NEW p \in Procs, MarkFailed(p) PROVE TypeOK'
    <2>1. cur[p] \in Events
      BY <1>7 DEF MarkFailed, WorkerInv
    <2>2. status' \in [Events -> Status] /\ faulted' \in SUBSET Events
      <3>1. "FAILED" \in Status /\ WriteStatus(cur[p], "FAILED")
        BY <1>7 DEF MarkFailed, Status
      <3>2. QED
        BY <2>1, <3>1, WriteStatusType
    <2>3. /\ cur' \in [Procs -> Events \union {NoEvent}]
          /\ pc' \in [Procs -> {"off", "idle", "mark", "publish", "retry", "fail", "complete"}]
      BY <1>7, NextEventType DEF MarkFailed
    <2>4. UNCHANGED <<retry, request, batch, seen, sent, cut, life>>
      BY <1>7 DEF MarkFailed
    <2>5. QED
      BY <2>2, <2>3, <2>4 DEF request, life
  <1>8. ASSUME NEW p \in Procs, MarkCompleted(p) PROVE TypeOK'
    <2>1. cur[p] \in Events
      BY <1>8 DEF MarkCompleted, WorkerInv
    <2>2. status' \in [Events -> Status] /\ faulted' \in SUBSET Events
      <3>1. "COMPLETED" \in Status /\ WriteStatus(cur[p], "COMPLETED")
        BY <1>8 DEF MarkCompleted, Status
      <3>2. QED
        BY <2>1, <3>1, WriteStatusType
    <2>3. /\ cur' \in [Procs -> Events \union {NoEvent}]
          /\ pc' \in [Procs -> {"off", "idle", "mark", "publish", "retry", "fail", "complete"}]
      BY <1>8, NextEventType DEF MarkCompleted
    <2>4. UNCHANGED <<retry, request, batch, seen, sent, cut, life>>
      BY <1>8 DEF MarkCompleted
    <2>5. QED
      BY <2>2, <2>3, <2>4 DEF request, life
  <1>9. ASSUME NEW p \in Procs, WorkerExit(p) PROVE TypeOK'
    BY <1>9 DEF WorkerExit, table, request, history, life
  <1>10. ASSUME NEW p \in Procs, Process(p) PROVE TypeOK'
    <2>1. CASE Start(p)
      BY <2>1 DEF Start, table, request, history
    <2>2. CASE Shutdown(p)
      BY <2>2 DEF Shutdown, table, request, worker, history
    <2>3. CASE StopBus(p)
      BY <2>3 DEF StopBus, table, request, worker, history
    <2>4. CASE Crash(p)
      BY <2>4 DEF Crash, table, request, history
    <2>5. QED
      BY <1>10, <2>1, <2>2, <2>3, <2>4 DEF Process
  <1>11. CASE UNCHANGED vars
    BY <1>11 DEF vars, table, request, worker, history, life
  <1>12. QED
    BY <1>1, <1>2, <1>3, <1>4, <1>5, <1>6, <1>7, <1>8, <1>9, <1>10, <1>11
    DEF Next, WorkerStep

-----------------------------------------------------------------------------

(* The bookkeeping of a worker follows its position in the loop.           *)
LEMMA WorkerStepInv == TypeOK /\ WorkerInv /\ [Next]_vars => WorkerInv'
  <1> SUFFICES ASSUME TypeOK, WorkerInv, [Next]_vars PROVE WorkerInv'
    OBVIOUS
  <1> USE OutboxAssumption DEF TypeOK, WorkerInv
  <1>1. ASSUME NEW e \in Events, Request(e) PROVE WorkerInv'
    BY <1>1 DEF Request, ChangeFirst, SaveToOutbox, CommitTx, AbortTx, worker, life
  <1>2. ASSUME NEW p \in Procs, Fetch(p) PROVE WorkerInv'
    BY <1>2 DEF Fetch, life, Pending, Waiting
  <1>3. ASSUME NEW p \in Procs, MarkProcessing(p) PROVE WorkerInv'
    BY <1>3 DEF MarkProcessing, NextEvent, life
  <1>4. ASSUME NEW p \in Procs, Publish(p) PROVE WorkerInv'
    BY <1>4 DEF Publish, life
  <1>5. ASSUME NEW p \in Procs, PublishFails(p) PROVE WorkerInv'
    BY <1>5 DEF PublishFails, life
  <1>6. ASSUME NEW p \in Procs, IncrementRetry(p) PROVE WorkerInv'
    BY <1>6 DEF IncrementRetry, NextEvent, life
  <1>7. ASSUME NEW p \in Procs, MarkFailed(p) PROVE WorkerInv'
    BY <1>7 DEF MarkFailed, WriteStatus, NextEvent, life
  <1>8. ASSUME NEW p \in Procs, MarkCompleted(p) PROVE WorkerInv'
    BY <1>8 DEF MarkCompleted, WriteStatus, NextEvent, life
  <1>9. ASSUME NEW p \in Procs, WorkerExit(p) PROVE WorkerInv'
    BY <1>9 DEF WorkerExit, life
  <1>10. ASSUME NEW p \in Procs, Start(p) PROVE WorkerInv'
    BY <1>10 DEF Start
  <1>11. ASSUME NEW p \in Procs, Shutdown(p) PROVE WorkerInv'
    BY <1>11 DEF Shutdown, worker
  <1>12. ASSUME NEW p \in Procs, StopBus(p) PROVE WorkerInv'
    BY <1>12 DEF StopBus, worker
  <1>13. ASSUME NEW p \in Procs, Crash(p) PROVE WorkerInv'
    BY <1>13 DEF Crash
  <1>14. CASE UNCHANGED vars
    BY <1>14 DEF vars, worker, life
  <1>15. QED
    BY <1>1, <1>2, <1>3, <1>4, <1>5, <1>6, <1>7, <1>8, <1>9, <1>10, <1>11, <1>12, <1>13, <1>14
    DEF Next, WorkerStep, Process

(* No step brings a row back to the unclaimed.                             *)
LEMMA RowStep == TypeOK /\ WorkerInv /\ RowInv /\ ClaimInv /\ [Next]_vars => RowInv'
  <1> SUFFICES ASSUME TypeOK, WorkerInv, RowInv, ClaimInv, [Next]_vars PROVE RowInv'
    OBVIOUS
  <1> USE OutboxAssumption DEF TypeOK, WorkerInv, RowInv, ClaimInv, Unclaimed
  <1>1. ASSUME NEW x \in Events, ChangeFirst(x) PROVE RowInv'
    BY <1>1 DEF ChangeFirst, table, worker, history, life
  <1>2. ASSUME NEW x \in Events, SaveToOutbox(x) PROVE RowInv'
    BY <1>2 DEF SaveToOutbox, table, worker, history, life
  <1>3. ASSUME NEW x \in Events, CommitTx(x) PROVE RowInv'
    BY <1>3 DEF CommitTx, worker, history, life
  <1>4. ASSUME NEW x \in Events, AbortTx(x) PROVE RowInv'
    BY <1>4 DEF AbortTx, table, worker, history, life
  <1>5. ASSUME NEW p \in Procs, Fetch(p) PROVE RowInv'
    BY <1>5 DEF Fetch, table, request, history, life, Pending, Waiting
  <1>6. ASSUME NEW p \in Procs, MarkProcessing(p) PROVE RowInv'
    BY <1>6 DEF MarkProcessing, NextEvent, request, history, life
  <1>7. ASSUME NEW p \in Procs, Publish(p) PROVE RowInv'
    BY <1>7 DEF Publish, table, request, life
  <1>8. ASSUME NEW p \in Procs, PublishFails(p) PROVE RowInv'
    BY <1>8 DEF PublishFails, table, request, history, life
  <1>9. ASSUME NEW p \in Procs, IncrementRetry(p) PROVE RowInv'
    BY <1>9 DEF IncrementRetry, NextEvent, request, history, life
  <1>10. ASSUME NEW p \in Procs, MarkFailed(p) PROVE RowInv'
    BY <1>10 DEF MarkFailed, WriteStatus, NextEvent, request, history, life
  <1>11. ASSUME NEW p \in Procs, MarkCompleted(p) PROVE RowInv'
    BY <1>11 DEF MarkCompleted, WriteStatus, NextEvent, request, history, life
  <1>12. ASSUME NEW p \in Procs, WorkerExit(p) PROVE RowInv'
    BY <1>12 DEF WorkerExit, table, request, history, life
  <1>13. ASSUME NEW p \in Procs, Start(p) PROVE RowInv'
    BY <1>13 DEF Start, table, request, history
  <1>14. ASSUME NEW p \in Procs, Shutdown(p) PROVE RowInv'
    BY <1>14 DEF Shutdown, table, request, worker, history
  <1>15. ASSUME NEW p \in Procs, StopBus(p) PROVE RowInv'
    BY <1>15 DEF StopBus, table, request, worker, history
  <1>16. ASSUME NEW p \in Procs, Crash(p) PROVE RowInv'
    BY <1>16 DEF Crash, table, request, history
  <1>17. CASE UNCHANGED vars
    BY <1>17 DEF vars, table, request, worker, history, life
  <1>18. QED
    BY <1>1, <1>2, <1>3, <1>4, <1>5, <1>6, <1>7, <1>8, <1>9, <1>10, <1>11, <1>12, <1>13, <1>14, <1>15, <1>16, <1>17
    DEF Next, WorkerStep, Process, Request

(* What a worker holds stays claimed, and is published by it once.         *)
LEMMA ClaimStep == TypeOK /\ WorkerInv /\ RowInv /\ ClaimInv /\ [Next]_vars => ClaimInv'
  <1> SUFFICES ASSUME TypeOK, WorkerInv, RowInv, ClaimInv, [Next]_vars PROVE ClaimInv'
    OBVIOUS
  <1> USE OutboxAssumption DEF TypeOK, WorkerInv, RowInv, ClaimInv, Unclaimed
  <1>1. ASSUME NEW x \in Events, ChangeFirst(x) PROVE ClaimInv'
    BY <1>1 DEF ChangeFirst, table, worker, history, life
  <1>2. ASSUME NEW x \in Events, SaveToOutbox(x) PROVE ClaimInv'
    BY <1>2 DEF SaveToOutbox, table, worker, history, life
  <1>3. ASSUME NEW x \in Events, CommitTx(x) PROVE ClaimInv'
    BY <1>3 DEF CommitTx, worker, history, life
  <1>4. ASSUME NEW x \in Events, AbortTx(x) PROVE ClaimInv'
    BY <1>4 DEF AbortTx, table, worker, history, life
  <1>5. ASSUME NEW p \in Procs, Fetch(p) PROVE ClaimInv'
    BY <1>5 DEF Fetch, table, request, history, life, Pending, Waiting
  <1>6. ASSUME NEW p \in Procs, MarkProcessing(p) PROVE ClaimInv'
    BY <1>6 DEF MarkProcessing, NextEvent, request, history, life
  <1>7. ASSUME NEW p \in Procs, Publish(p) PROVE ClaimInv'
    <2>1. cur[p] \in Events /\ cur[p] \notin batch[p]
      BY <1>7 DEF Publish
    <2>2. \A q \in Procs, e \in Events :
            sent'[q][e] = IF q = p /\ e = cur[p] THEN sent[q][e] + 1 ELSE sent[q][e]
      BY <1>7, <2>1 DEF Publish
    <2>3. pc' = [pc EXCEPT ![p] = "complete"] /\ UNCHANGED <<status, batch, cur>>
      BY <1>7 DEF Publish, table
    <2>4. sent[p][cur[p]] \in Nat /\ sent'[p][cur[p]] = sent[p][cur[p]] + 1
      BY <2>1, <2>2
    <2>5. ASSUME NEW q \in Procs, q # p
          PROVE  \A e \in Events : sent'[q][e] = sent[q][e]
      BY <2>2, <2>5
    <2>6. \A e \in batch[p] : sent'[p][e] = sent[p][e]
      BY <2>1, <2>2
    <2>7. sent'[p][cur[p]] > 0
      BY <2>4
    <2>8. ASSUME NEW q \in Procs, q # p
          PROVE  /\ \A e \in batch'[q] : status'[e] # "ABSENT" /\ sent'[q][e] = 0
                 /\ pc'[q] \in {"publish", "retry", "fail"} => sent'[q][cur'[q]] = 0
                 /\ pc'[q] = "complete" => sent'[q][cur'[q]] > 0
      <3>1. pc'[q] = pc[q] /\ batch'[q] = batch[q] /\ cur'[q] = cur[q] /\ status' = status
        BY <2>3, <2>8
      <3>2. batch[q] \in SUBSET Events
        OBVIOUS
      <3>3. \A e \in batch'[q] : status'[e] # "ABSENT" /\ sent'[q][e] = 0
        BY <2>5, <2>8, <3>1, <3>2
      <3>4. pc[q] \in {"publish", "retry", "fail", "complete"} => sent'[q][cur'[q]] = sent[q][cur[q]]
        <4>1. SUFFICES ASSUME pc[q] \in {"publish", "retry", "fail", "complete"}
                       PROVE  sent'[q][cur[q]] = sent[q][cur[q]]
          BY <3>1
        <4>2. cur[q] # NoEvent /\ cur[q] \in Events \union {NoEvent}
          BY <4>1
        <4>3. QED
          BY <2>5, <2>8, <4>2
      <3>5. /\ pc[q] \in {"publish", "retry", "fail"} => sent'[q][cur'[q]] = 0
            /\ pc[q] = "complete" => sent'[q][cur'[q]] > 0
        BY <3>4
      <3>6. QED
        BY <3>1, <3>3, <3>5
    <2>9. /\ \A e \in batch'[p] : status'[e] # "ABSENT" /\ sent'[p][e] = 0
          /\ pc'[p] = "complete" /\ sent'[p][cur'[p]] > 0
      BY <2>3, <2>6, <2>7
    <2>10. \A q \in Procs : cur'[q] \in Events => status'[cur'[q]] \notin Unclaimed
      BY <2>3
    <2>11. QED
      BY <2>8, <2>9, <2>10
  <1>8. ASSUME NEW p \in Procs, PublishFails(p) PROVE ClaimInv'
    BY <1>8 DEF PublishFails, table, request, history, life
  <1>9. ASSUME NEW p \in Procs, IncrementRetry(p) PROVE ClaimInv'
    BY <1>9 DEF IncrementRetry, NextEvent, request, history, life
  <1>10. ASSUME NEW p \in Procs, MarkFailed(p) PROVE ClaimInv'
    BY <1>10 DEF MarkFailed, WriteStatus, NextEvent, request, history, life
  <1>11. ASSUME NEW p \in Procs, MarkCompleted(p) PROVE ClaimInv'
    BY <1>11 DEF MarkCompleted, WriteStatus, NextEvent, request, history, life
  <1>12. ASSUME NEW p \in Procs, WorkerExit(p) PROVE ClaimInv'
    BY <1>12 DEF WorkerExit, table, request, history, life
  <1>13. ASSUME NEW p \in Procs, Start(p) PROVE ClaimInv'
    BY <1>13 DEF Start, table, request, history
  <1>14. ASSUME NEW p \in Procs, Shutdown(p) PROVE ClaimInv'
    BY <1>14 DEF Shutdown, table, request, worker, history
  <1>15. ASSUME NEW p \in Procs, StopBus(p) PROVE ClaimInv'
    BY <1>15 DEF StopBus, table, request, worker, history
  <1>16. ASSUME NEW p \in Procs, Crash(p) PROVE ClaimInv'
    BY <1>16 DEF Crash, table, request, history
  <1>17. CASE UNCHANGED vars
    BY <1>17 DEF vars, table, request, worker, history, life
  <1>18. QED
    BY <1>1, <1>2, <1>3, <1>4, <1>5, <1>6, <1>7, <1>8, <1>9, <1>10, <1>11, <1>12, <1>13, <1>14, <1>15, <1>16, <1>17
    DEF Next, WorkerStep, Process, Request

(* A worker publishes an event only while it has not published it before,  *)
(* and writes COMPLETED only afterwards.                                   *)
LEMMA PublishStep ==
  IInv /\ [Next]_vars => AtMostOncePerProcess' /\ CompletedWasPublished'
  <1> SUFFICES ASSUME IInv, [Next]_vars
               PROVE  AtMostOncePerProcess' /\ CompletedWasPublished'
    OBVIOUS
  <1> USE DEF IInv, TypeOK, AtMostOncePerProcess, CompletedWasPublished
  <1>1. ASSUME NEW p \in Procs, Publish(p)
        PROVE  AtMostOncePerProcess' /\ CompletedWasPublished'
    <2>1. cur[p] \in Events /\ sent[p][cur[p]] = 0
      BY <1>1 DEF Publish, WorkerInv, ClaimInv
    <2>2. \A q \in Procs, e \in Events :
            sent'[q][e] = IF q = p /\ e = cur[p] THEN 1 ELSE sent[q][e]
      BY <1>1, <2>1 DEF Publish
    <2>3. status' = status
      BY <1>1 DEF Publish, table
    <2>4. AtMostOncePerProcess'
      <3>1. ASSUME NEW q \in Procs, NEW e \in Events PROVE sent'[q][e] <= 1
        <4>1. sent[q][e] <= 1
          OBVIOUS
        <4>2. sent'[q][e] \in {1, sent[q][e]}
          BY <2>2
        <4>3. QED
          BY <4>1, <4>2
      <3>2. QED
        BY <3>1
    <2>5. ASSUME NEW e \in Events, status'[e] = "COMPLETED"
          PROVE  \E q \in Procs : sent'[q][e] > 0
      <3>1. PICK q \in Procs : sent[q][e] > 0
        BY <2>3, <2>5
      <3>2. CASE q = p /\ e = cur[p]
        <4>1. sent'[q][e] = 1
          BY <2>2, <3>2
        <4>2. QED
          BY <4>1
      <3>3. CASE ~(q = p /\ e = cur[p])
        BY <2>2, <3>1, <3>3
      <3>4. QED
        BY <3>2, <3>3
    <2>6. QED
      BY <2>4, <2>5
  <1>2. ASSUME NEW p \in Procs, MarkCompleted(p)
        PROVE  AtMostOncePerProcess' /\ CompletedWasPublished'
    <2>1. cur[p] \in Events /\ sent[p][cur[p]] > 0 /\ sent' = sent
      BY <1>2 DEF MarkCompleted, WorkerInv, ClaimInv, history
    <2>2. \A e \in Events : status'[e] = status[e] \/ e = cur[p]
      BY <1>2, <2>1 DEF MarkCompleted, WriteStatus
    <2>3. QED
      BY <2>1, <2>2
  <1>3. ASSUME sent' = sent,
               \A e \in Events : status'[e] = "COMPLETED" => status[e] = "COMPLETED"
        PROVE  AtMostOncePerProcess' /\ CompletedWasPublished'
    BY <1>3
  <1>4. ASSUME NEW x \in Events, Request(x)
        PROVE  AtMostOncePerProcess' /\ CompletedWasPublished'
    BY <1>3, <1>4 DEF Request, ChangeFirst, SaveToOutbox, CommitTx, AbortTx, table, history
  <1>5. ASSUME NEW p \in Procs,
               \/ Fetch(p) \/ PublishFails(p) \/ IncrementRetry(p) \/ WorkerExit(p)
               \/ Process(p)
        PROVE  AtMostOncePerProcess' /\ CompletedWasPublished'
    BY <1>3, <1>5
    DEF Fetch, PublishFails, IncrementRetry, WorkerExit, Process, Start, Shutdown, StopBus,
        Crash, table, history
  <1>6. ASSUME NEW p \in Procs, MarkProcessing(p) \/ MarkFailed(p)
        PROVE  AtMostOncePerProcess' /\ CompletedWasPublished'
    <2>1. CASE MarkProcessing(p)
      BY <1>3, <2>1 DEF MarkProcessing, WriteStatus, history
    <2>2. CASE MarkFailed(p)
      BY <1>3, <2>2 DEF MarkFailed, WriteStatus, history
    <2>3. QED
      BY <1>6, <2>1, <2>2
  <1>7. CASE UNCHANGED vars
    BY <1>3, <1>7 DEF vars, table, history
  <1>8. QED
    BY <1>1, <1>2, <1>4, <1>5, <1>6, <1>7 DEF Next, WorkerStep

(* A worker lets go of an event only when it has settled it, counted the   *)
(* failed publication, or seen a statement fail.                           *)
LEMMA OrphanStep == TypeOK /\ WorkerInv /\ OrphanHasCause /\ [Next]_vars => OrphanHasCause'
  <1> SUFFICES ASSUME TypeOK, WorkerInv, OrphanHasCause, [Next]_vars,
                      NEW x \in Events, Orphan(x)'
               PROVE  x \in cut' \/ retry'[x] > 0 \/ x \in faulted'
    BY DEF OrphanHasCause
  <1> USE OutboxAssumption DEF TypeOK, Orphan
  <1>1. ASSUME Orphan(x), retry'[x] >= retry[x], faulted \subseteq faulted', cut \subseteq cut'
        PROVE  x \in cut' \/ retry'[x] > 0 \/ x \in faulted'
    <2>1. retry'[x] \in Nat
      BY TypeStep
    <2>2. QED
      BY <1>1, <2>1 DEF OrphanHasCause
  <1>2. ASSUME NEW e \in Events, Request(e)
        PROVE  x \in cut' \/ retry'[x] > 0 \/ x \in faulted'
    BY <1>1, <1>2
    DEF Request, ChangeFirst, SaveToOutbox, CommitTx, AbortTx, table, worker, history, life
  <1>3. ASSUME NEW p \in Procs, MarkProcessing(p)
        PROVE  x \in cut' \/ retry'[x] > 0 \/ x \in faulted'
    <2>1. cur[p] = NoEvent
      BY <1>3 DEF MarkProcessing, WorkerInv
    <2>2. \A q \in Procs : q # p => cur'[q] = cur[q]
      BY <1>3 DEF MarkProcessing, NextEvent
    <2>3. \A q \in Procs : cur[q] # x
      BY <2>1, <2>2
    <2>4. status[x] = "PROCESSING"
      BY <1>3 DEF MarkProcessing
    <2>5. retry' = retry /\ cut' = cut /\ faulted \subseteq faulted'
      BY <1>3 DEF MarkProcessing, life
    <2>6. QED
      BY <1>1, <2>3, <2>4, <2>5
  <1>4. ASSUME NEW p \in Procs, IncrementRetry(p)
        PROVE  x \in cut' \/ retry'[x] > 0 \/ x \in faulted'
    <2>1. cur[p] \in Events /\ status' = status /\ cut' = cut
      BY <1>4 DEF IncrementRetry, WorkerInv, life
    <2>2. CASE x = cur[p]
      BY <1>4, <2>1, <2>2 DEF IncrementRetry
    <2>3. CASE x # cur[p]
      <3>1. retry'[x] = retry[x] /\ faulted \subseteq faulted'
        BY <1>4, <2>1, <2>3 DEF IncrementRetry
      <3>2. \A q \in Procs : q # p => cur'[q] = cur[q]
        BY <1>4 DEF IncrementRetry, NextEvent
      <3>3. status[x] = "PROCESSING" /\ \A q \in Procs : cur[q] # x
        BY <2>1, <2>3, <3>1, <3>2
      <3>4. QED
        BY <1>1, <2>1, <3>1, <3>3
    <2>4. QED
      BY <2>2, <2>3
  <1>5. ASSUME NEW p \in Procs, MarkFailed(p) \/ MarkCompleted(p)
        PROVE  x \in cut' \/ retry'[x] > 0 \/ x \in faulted'
    <2>1. cur[p] \in Events /\ retry' = retry /\ cut' = cut
      BY <1>5 DEF MarkFailed, MarkCompleted, WorkerInv, life
    <2>2. CASE x = cur[p]
      BY <1>5, <2>1, <2>2 DEF MarkFailed, MarkCompleted, WriteStatus
    <2>3. CASE x # cur[p]
      <3>1. status'[x] = status[x] /\ faulted \subseteq faulted'
        BY <1>5, <2>1, <2>3 DEF MarkFailed, MarkCompleted, WriteStatus
      <3>2. \A q \in Procs : q # p => cur'[q] = cur[q]
        BY <1>5 DEF MarkFailed, MarkCompleted, NextEvent
      <3>3. status[x] = "PROCESSING" /\ \A q \in Procs : cur[q] # x
        BY <2>1, <2>3, <3>1, <3>2
      <3>4. QED
        BY <1>1, <2>1, <3>1, <3>3
    <2>4. QED
      BY <2>2, <2>3
  <1>6. ASSUME NEW p \in Procs, Crash(p)
        PROVE  x \in cut' \/ retry'[x] > 0 \/ x \in faulted'
    <2>1. CASE x = cur[p]
      BY <1>6, <2>1 DEF Crash
    <2>2. CASE x # cur[p]
      <3>1. \A q \in Procs : q # p => cur'[q] = cur[q]
        BY <1>6 DEF Crash
      <3>2. Orphan(x) /\ UNCHANGED <<retry, faulted>> /\ cut \subseteq cut'
        BY <1>6, <2>2, <3>1 DEF Crash, table
      <3>3. QED
        BY <1>1, <3>2
    <2>3. QED
      BY <2>1, <2>2
  <1>7. ASSUME NEW p \in Procs,
               \/ Fetch(p) \/ Publish(p) \/ PublishFails(p) \/ WorkerExit(p)
               \/ Start(p) \/ Shutdown(p) \/ StopBus(p)
        PROVE  x \in cut' \/ retry'[x] > 0 \/ x \in faulted'
    BY <1>1, <1>7
    DEF Fetch, Publish, PublishFails, WorkerExit, Start, Shutdown, StopBus, table, worker,
        history, life
  <1>8. CASE UNCHANGED vars
    BY <1>1, <1>8 DEF vars, table, worker, history, life
  <1>9. QED
    BY <1>2, <1>3, <1>4, <1>5, <1>6, <1>7, <1>8 DEF Next, WorkerStep, Process

-----------------------------------------------------------------------------
(* Causal order.                                                           *)

(* What an event could know of was committed by its process, whose clock   *)
(* had not gone further than what it shows now.                            *)
PriorInv ==
  \A f \in Events :
    /\ stamp[f] <= clock[Home[f]]
    /\ tx[f] = "committed" => status[f] # "ABSENT"
    /\ \A e \in prior[f] : tx[e] = "committed" /\ stamp[e] < stamp[f]

(* Nobody needs to wait for e: it was claimed, or a statement failed on it.*)
Passed(e) == status[e] # "PENDING" \/ e \in faulted

(* What an event of a batch depends on is passed or precedes it in the     *)
(* batch; what the event in hand depends on is passed.                     *)
BatchInv ==
  \A p \in Procs :
    /\ \A f \in batch[p] : \A e \in prior[f] : Passed(e) \/ e \in batch[p]
    /\ \A f \in Events : cur[p] = f => \A e \in prior[f] : Passed(e)

OrderInv == PriorInv /\ BatchInv /\ CausalOrder

LEMMA PriorStep == TypeOK /\ WorkerInv /\ PriorInv /\ [Next]_vars => PriorInv'
  <1> SUFFICES ASSUME TypeOK, WorkerInv, PriorInv, [Next]_vars PROVE PriorInv'
    OBVIOUS
  <1> USE DEF TypeOK, PriorInv
  <1>1. ASSUME NEW x \in Events, SaveToOutbox(x) PROVE PriorInv'
    <2>1. /\ x \notin Committed
          /\ tx' = [tx EXCEPT ![x] = "open"]
          /\ status' = status
      BY <1>1 DEF SaveToOutbox, Committed, table
    <2>2. PICK h \in Procs : h = Home[x]
      BY OutboxAssumption
    <2>3. /\ clock' \in [Procs -> Nat]
          /\ \A p \in Procs : clock[p] <= clock'[p]
          /\ clock[h] < clock'[h]
          /\ stamp' = [stamp EXCEPT ![x] = clock'[h]]
          /\ prior' = [prior EXCEPT ![x] = {c \in Committed : Home[c] = h}]
      BY <1>1, <2>2, TakesCreatedAt DEF SaveToOutbox
    <2>4. /\ stamp'[x] = clock'[h]
          /\ \A f \in Events \ {x} : stamp'[f] = stamp[f]
          /\ prior'[x] = {c \in Committed : Home[c] = h}
          /\ \A f \in Events \ {x} : prior'[f] = prior[f]
      BY <2>3
    <2>5. ASSUME NEW f \in Events
          PROVE  /\ stamp'[f] <= clock'[Home[f]]
                 /\ tx'[f] = "committed" => status'[f] # "ABSENT"
      <3>1. tx'[f] = "committed" => status'[f] # "ABSENT"
        BY <2>1
      <3>2. CASE f = x
        <4>1. clock'[h] \in Nat
          BY <2>3
        <4>2. stamp'[f] <= clock'[Home[f]]
          BY <2>2, <2>4, <3>2, <4>1
        <4>3. QED
          BY <3>1, <4>2
      <3>3. CASE f # x
        <4>1. PICK g \in Procs : g = Home[f]
          BY OutboxAssumption
        <4>2. stamp[f] \in Nat /\ clock[g] \in Nat /\ clock'[g] \in Nat
          BY <2>3
        <4>3. stamp'[f] = stamp[f] /\ stamp[f] <= clock[g] /\ clock[g] <= clock'[g]
          BY <2>3, <2>4, <3>3, <4>1
        <4>4. stamp'[f] <= clock'[g]
          BY <4>2, <4>3
        <4>5. QED
          BY <3>1, <4>1, <4>4
      <3>4. QED
        BY <3>2, <3>3
    <2>6. ASSUME NEW f \in Events, NEW e \in prior'[f]
          PROVE  tx'[e] = "committed" /\ stamp'[e] < stamp'[f]
      <3>1. CASE f = x
        <4>1. e \in Committed /\ Home[e] = h
          BY <2>4, <2>6, <3>1
        <4>2. e \in Events /\ e # x /\ tx[e] = "committed"
          BY <2>1, <4>1 DEF Committed
        <4>3. stamp'[e] = stamp[e] /\ stamp[e] <= clock[h]
          BY <2>4, <4>1, <4>2
        <4>4. stamp[e] \in Nat /\ clock[h] \in Nat /\ clock'[h] \in Nat
          BY <2>3, <4>2
        <4>5. stamp'[e] < clock'[h]
          BY <2>3, <4>3, <4>4
        <4>6. QED
          BY <2>1, <2>4, <3>1, <4>2, <4>5
      <3>2. CASE f # x
        <4>1. e \in prior[f]
          BY <2>4, <2>6, <3>2
        <4>2. e \in Events /\ tx[e] = "committed" /\ stamp[e] < stamp[f]
          BY <4>1
        <4>3. e # x
          BY <2>1, <4>2 DEF Committed
        <4>4. QED
          BY <2>1, <2>4, <3>2, <4>2, <4>3
      <3>3. QED
        BY <3>1, <3>2
    <2>7. QED
      BY <2>5, <2>6
  <1>2. ASSUME NEW x \in Events, CommitTx(x) PROVE PriorInv'
    BY <1>2 DEF CommitTx
  <1>3. ASSUME NEW x \in Events, ChangeFirst(x) \/ AbortTx(x) PROVE PriorInv'
    BY <1>3 DEF ChangeFirst, AbortTx, table
  <1>4. ASSUME UNCHANGED request,
               \A e \in Events : status'[e] = "ABSENT" => status[e] = "ABSENT"
        PROVE  PriorInv'
    BY <1>4 DEF request
  <1>5. ASSUME NEW p \in Procs, WorkerStep(p) PROVE PriorInv'
    <2>1. UNCHANGED request
      BY <1>5
      DEF WorkerStep, Fetch, MarkProcessing, Publish, PublishFails, IncrementRetry,
          MarkFailed, MarkCompleted, WorkerExit
    <2>2. \A e \in Events : status'[e] = "ABSENT" => status[e] = "ABSENT"
      BY <1>5
      DEF WorkerStep, Fetch, MarkProcessing, Publish, PublishFails, IncrementRetry,
          MarkFailed, MarkCompleted, WorkerExit, WriteStatus, table
    <2>3. QED
      BY <1>4, <2>1, <2>2
  <1>6. ASSUME NEW p \in Procs, Process(p) PROVE PriorInv'
    BY <1>4, <1>6 DEF Process, Start, Shutdown, StopBus, Crash, table
  <1>7. CASE UNCHANGED vars
    BY <1>4, <1>7 DEF vars, table
  <1>8. QED
    BY <1>1, <1>2, <1>3, <1>5, <1>6, <1>7 DEF Next, Request

(* A batch holds every waiting event that one of its own depends on, as    *)
(* those are older.                                                        *)
LEMMA FetchedWithCauses ==
  ASSUME TypeOK, RowInv, PriorInv, NEW B \in Pending, NEW f \in B, NEW e \in prior[f]
  PROVE  Passed(e) \/ e \in B
  <1>1. f \in Events /\ e \in Events
    BY DEF Pending, Waiting, TypeOK
  <1>2. SUFFICES ASSUME status[e] = "PENDING", e \notin B PROVE FALSE
    BY DEF Passed
  <1>3. e \in Waiting
    BY <1>1, <1>2, OutboxAssumption DEF RowInv, Unclaimed, Waiting
  <1>4. stamp[f] <= stamp[e]
    BY <1>2, <1>3 DEF Pending
  <1>5. stamp[e] < stamp[f]
    BY <1>1 DEF PriorInv
  <1>6. QED
    BY <1>1, <1>4, <1>5 DEF TypeOK

(* An event of a committed transaction that is passed stays so: nothing    *)
(* makes its row PENDING again.                                            *)
LEMMA PassedStays ==
  ASSUME TypeOK, WorkerInv, [Next]_vars, NEW e \in Events, tx[e] = "committed", Passed(e)
  PROVE  Passed(e)'
  <1> USE DEF TypeOK, Passed
  <1>1. faulted \subseteq faulted'
    BY DEF Next, Request, ChangeFirst, SaveToOutbox, CommitTx, AbortTx,
           WorkerStep, Fetch, MarkProcessing, Publish, PublishFails, IncrementRetry,
           MarkFailed, MarkCompleted, WorkerExit, WriteStatus, Process, Start, Shutdown,
           StopBus, Crash, vars, history
  <1>2. status'[e] = "PENDING" => status[e] = "PENDING"
    <2>1. ASSUME NEW x \in Events, Request(x)
          PROVE  status'[e] = "PENDING" => status[e] = "PENDING"
      BY <2>1 DEF Request, ChangeFirst, SaveToOutbox, CommitTx, AbortTx, table
    <2>2. ASSUME NEW p \in Procs, WorkerStep(p)
          PROVE  status'[e] = "PENDING" => status[e] = "PENDING"
      BY <2>2
      DEF WorkerStep, Fetch, MarkProcessing, Publish, PublishFails, IncrementRetry,
          MarkFailed, MarkCompleted, WorkerExit, WriteStatus, table
    <2>3. ASSUME NEW p \in Procs, Process(p)
          PROVE  status'[e] = "PENDING" => status[e] = "PENDING"
      BY <2>3 DEF Process, Start, Shutdown, StopBus, Crash, table
    <2>4. QED
      BY <2>1, <2>2, <2>3 DEF Next, vars, table
  <1>3. QED
    BY <1>1, <1>2

(* What an event depends on is fixed once the event is visible.            *)
LEMMA PriorFixed ==
  ASSUME TypeOK, RowInv, [Next]_vars, NEW f \in Events, status[f] # "ABSENT"
  PROVE  prior'[f] = prior[f]
  <1>1. tx[f] = "committed"
    BY DEF RowInv
  <1>2. ASSUME NEW x \in Events, Request(x) PROVE prior'[f] = prior[f]
    <2>1. CASE SaveToOutbox(x)
      <3>1. x # f
        BY <1>1, <2>1 DEF SaveToOutbox
      <3>2. prior' = [prior EXCEPT ![x] = {c \in Committed : Home[c] = Home[x]}]
        BY <2>1 DEF SaveToOutbox, TakeCreatedAt
      <3>3. QED
        BY <3>1, <3>2 DEF TypeOK
    <2>2. CASE ChangeFirst(x) \/ CommitTx(x) \/ AbortTx(x)
      BY <2>2 DEF ChangeFirst, CommitTx, AbortTx
    <2>3. QED
      BY <1>2, <2>1, <2>2 DEF Request
  <1>3. ASSUME UNCHANGED request PROVE prior'[f] = prior[f]
    BY <1>3 DEF request
  <1>4. QED
    BY <1>2, <1>3
    DEF Next, WorkerStep, Fetch, MarkProcessing, Publish, PublishFails, IncrementRetry,
        MarkFailed, MarkCompleted, WorkerExit, Process, Start, Shutdown, StopBus, Crash, vars

(* The loop of processBatch takes the events of a batch from the oldest to *)
(* the youngest.                                                           *)
LEMMA BatchStep ==
  TypeOK /\ WorkerInv /\ RowInv /\ ClaimInv /\ PriorInv /\ BatchInv /\ [Next]_vars => BatchInv'
  <1> SUFFICES ASSUME TypeOK, WorkerInv, RowInv, ClaimInv, PriorInv, BatchInv, [Next]_vars,
                      NEW q \in Procs
               PROVE  /\ \A f \in batch'[q] : \A e \in prior'[f] : Passed(e)' \/ e \in batch'[q]
                      /\ \A f \in Events : cur'[q] = f => \A e \in prior'[f] : Passed(e)'
    BY DEF BatchInv
  <1> DEFINE Goal == /\ \A f \in batch'[q] : \A e \in prior'[f] : Passed(e)' \/ e \in batch'[q]
                     /\ \A f \in Events : cur'[q] = f => \A e \in prior'[f] : Passed(e)'
  <1>a. \A f \in batch[q] \union ({cur[q]} \intersect Events) :
          f \in Events /\ status[f] # "ABSENT" /\ prior'[f] = prior[f]
    BY PriorFixed DEF TypeOK, ClaimInv, Unclaimed
  <1>b. \A f \in Events : \A e \in prior[f] : Passed(e) => Passed(e)'
    BY PassedStays DEF PriorInv, TypeOK
  (* Whatever leaves batch and cur of q alone, or empties them.            *)
  <1>1. ASSUME batch'[q] = batch[q] \/ batch'[q] = {}, cur'[q] = cur[q] \/ cur'[q] = NoEvent
        PROVE  Goal
    BY <1>1, <1>a, <1>b, OutboxAssumption DEF BatchInv
  <1>2. ASSUME NEW x \in Events, Request(x) PROVE Goal
    BY <1>1, <1>2 DEF Request, ChangeFirst, SaveToOutbox, CommitTx, AbortTx, worker
  <1>3. ASSUME NEW p \in Procs, Fetch(p) PROVE Goal
    <2>1. CASE q # p
      BY <1>1, <1>3, <2>1 DEF Fetch, TypeOK
    <2>2. CASE q = p
      <3>1. PICK B \in Pending : batch' = [batch EXCEPT ![q] = B]
        BY <1>3, <2>2 DEF Fetch
      <3>2. batch'[q] = B /\ cur'[q] = NoEvent
        BY <1>3, <2>2, <3>1 DEF Fetch, TypeOK, WorkerInv
      <3>3. /\ prior' = prior /\ status' = status /\ faulted' = faulted
            /\ B \subseteq Events
        BY <1>3 DEF Fetch, table, request, history, Pending, Waiting
      <3>4. \A f \in B : \A e \in prior[f] : Passed(e) \/ e \in B
        BY FetchedWithCauses
      <3>5. QED
        BY <3>2, <3>3, <3>4, OutboxAssumption DEF Passed
    <2>3. QED
      BY <2>1, <2>2
  <1>4. ASSUME NEW p \in Procs, MarkProcessing(p) PROVE Goal
    <2>1. CASE q # p
      BY <1>1, <1>4, <2>1 DEF MarkProcessing, NextEvent, TypeOK
    <2>2. CASE q = p
      <3>1. PICK x \in batch[q] :
              /\ \A f \in batch[q] : stamp[x] <= stamp[f]
              /\ batch' = [batch EXCEPT ![q] = @ \ {x}]
              /\ \/ status' = [status EXCEPT ![x] = "PROCESSING"] /\ cur' = [cur EXCEPT ![q] = x]
                 \/ faulted' = faulted \union {x} /\ cur' = [cur EXCEPT ![q] = NoEvent]
        BY <1>4, <2>2 DEF MarkProcessing, NextEvent
      <3>2. x \in Events /\ batch'[q] = batch[q] \ {x} /\ cur'[q] \in {x, NoEvent}
        BY <3>1 DEF TypeOK
      <3>3. Passed(x)'
        BY <3>1, <3>2 DEF Passed, TypeOK
      <3>4. \A e \in prior[x] : e \notin batch[q]
        BY <3>1, <3>2 DEF PriorInv, TypeOK
      <3>5. \A e \in prior[x] : Passed(e)'
        BY <1>b, <3>2, <3>4 DEF BatchInv
      <3>6. \A f \in batch[q] : \A e \in prior[f] : Passed(e)' \/ e \in batch[q] \ {x}
        BY <1>a, <1>b, <3>3 DEF BatchInv
      <3>7. QED
        BY <1>a, <3>2, <3>5, <3>6, OutboxAssumption
    <2>3. QED
      BY <2>1, <2>2
  <1>5. ASSUME NEW p \in Procs,
               \/ Publish(p) \/ PublishFails(p) \/ IncrementRetry(p) \/ MarkFailed(p)
               \/ MarkCompleted(p) \/ WorkerExit(p)
        PROVE  Goal
    BY <1>1, <1>5
    DEF Publish, PublishFails, IncrementRetry, MarkFailed, MarkCompleted, WorkerExit, NextEvent, TypeOK
  <1>6. ASSUME NEW p \in Procs, Process(p) PROVE Goal
    BY <1>1, <1>6 DEF Process, Start, Shutdown, StopBus, Crash, worker, TypeOK
  <1>7. CASE UNCHANGED vars
    BY <1>1, <1>7 DEF vars, worker
  <1>8. QED
    BY <1>2, <1>3, <1>4, <1>5, <1>6, <1>7 DEF Next, WorkerStep

(* The event a worker publishes has nothing left to wait for.              *)
LEMMA CausalStep ==
  TypeOK /\ WorkerInv /\ RowInv /\ ClaimInv /\ OrderInv /\ [Next]_vars => CausalOrder'
  <1> SUFFICES ASSUME TypeOK, WorkerInv, RowInv, ClaimInv, PriorInv, BatchInv, CausalOrder, [Next]_vars,
                      NEW q \in Procs, NEW f \in Events, sent'[q][f] > 0,
                      NEW e \in prior'[f]
               PROVE  Passed(e)'
    BY DEF OrderInv, CausalOrder, Passed
  <1>1. sent[q][f] > 0 \/ f = cur[q]
    <2>1. ASSUME NEW p \in Procs, Publish(p) PROVE sent[q][f] > 0 \/ f = cur[q]
      BY <2>1 DEF Publish, TypeOK
    <2>2. CASE sent' = sent
      BY <2>2
    <2>3. QED
      BY <2>1, <2>2
      DEF Next, Request, ChangeFirst, SaveToOutbox, CommitTx, AbortTx, WorkerStep, Fetch,
          MarkProcessing, PublishFails, IncrementRetry, MarkFailed, MarkCompleted, WorkerExit,
          Process, Start, Shutdown, StopBus, Crash, vars, history
  <1>2. status[f] # "ABSENT"
    BY <1>1 DEF RowInv, ClaimInv, Unclaimed, TypeOK
  <1>3. e \in prior[f] /\ e \in Events /\ tx[e] = "committed"
    BY <1>2, PriorFixed DEF TypeOK, PriorInv
  <1>4. Passed(e)
    BY <1>1, <1>3 DEF CausalOrder, BatchInv, Passed
  <1>5. QED
    BY <1>3, <1>4, PassedStays

LEMMA IInvStep == IInv /\ [Next]_vars => IInv'
  BY TypeStep, WorkerStepInv, RowStep, ClaimStep, PublishStep DEF IInv

LEMMA Invariance == Spec => []IInv
  BY InitIInv, IInvStep, PTL DEF Spec

(* Every variable keeps its type.                                          *)
THEOREM TypeCorrect == Spec => []TypeOK
  BY Invariance, PTL DEF IInv

(* MarkProcessing is a claim a crash does not undo: whatever the number of *)
(* processes, restarts and failed statements, no process calls Publish     *)
(* with success twice for the same event.                                  *)
THEOREM AtMostOnce == Spec => []AtMostOncePerProcess
  BY Invariance, PTL DEF IInv

(* A COMPLETED row was handed to the bus by some process.                  *)
THEOREM Completed == Spec => []CompletedWasPublished
  BY Invariance, PTL DEF IInv

(* Only events of committed transactions are published.                    *)
THEOREM OnlyCommitted == Spec => []PublishedOnlyCommitted
  <1>1. IInv => PublishedOnlyCommitted
    BY DEF IInv, TypeOK, RowInv, Unclaimed, PublishedOnlyCommitted
  <1>2. QED
    BY <1>1, Invariance, PTL

(* The deferred calls of main stop the bus after the worker: the worker    *)
(* never publishes on a stopped bus.                                       *)
THEOREM BusOutlives == Spec => []BusOutlivesWorker
  <1>1. IInv => BusOutlivesWorker
    BY DEF IInv, WorkerInv, BusOutlivesWorker
  <1>2. QED
    BY <1>1, Invariance, PTL

(* No path through processEvent forgets an event: one that is left in      *)
(* PROCESSING was in hand of a process that was killed, or a publication   *)
(* or a statement failed on it.                                            *)
THEOREM OrphansHaveCause == Spec => []OrphanHasCause
  <1>1. Init => OrphanHasCause
    BY DEF Init, OrphanHasCause, Orphan
  <1>2. IInv => TypeOK /\ WorkerInv
    BY DEF IInv
  <1>3. QED
    BY <1>1, <1>2, OrphanStep, Invariance, PTL DEF Spec

(* No event is published before one its process had committed when it was  *)
(* created has been claimed, as GetPending answers by created_at and       *)
(* processBatch keeps that order, whatever the batch size, the number of   *)
(* processes and workers, and their clocks, none of which needs to agree   *)
(* with another; each must not go back.                                    *)
THEOREM Causal == Spec => []CausalOrder
  <1>1. Init => OrderInv
    BY OutboxAssumption DEF Init, OrderInv, PriorInv, BatchInv, CausalOrder, Passed
  <1>2. IInv /\ OrderInv /\ [Next]_vars => OrderInv'
    BY PriorStep, BatchStep, CausalStep DEF IInv, OrderInv
  <1>3. OrderInv => CausalOrder
    BY DEF OrderInv
  <1>4. QED
    BY <1>1, <1>2, <1>3, Invariance, PTL DEF Spec
=============================================================================
