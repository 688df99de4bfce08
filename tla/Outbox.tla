------------------------------- MODULE Outbox -------------------------------
(***************************************************************************)
(* The transactional outbox of sentinal-chat: the rows of the              *)
(* outbox_events table, the requests that insert them, and the outbox      *)
(* worker of each API process that publishes them on the event bus.        *)
(*                                                                         *)
(* Every UPDATE of the worker is its own autocommitted statement, so the   *)
(* model has one atomic step per SQL statement and per bus call.  API      *)
(* processes share the table; cmd/api/main.go starts one worker in each.   *)
(***************************************************************************)
EXTENDS Naturals, FiniteSets

CONSTANTS
  Events,       \* the events requests may record, one outbox row each
  NoEvent,      \* "the worker holds no event"
  Procs,        \* the API processes that share the database
  Home,         \* the process whose request records each event
  Ticks,        \* how far the clock of a process goes from one created_at
                \* to the next
  SplitTx,      \* events whose producer commits its own change before it
                \* opens the outbox transaction (call_service.go)
  Undecodable,  \* rows whose event_type the worker of this build cannot
                \* unmarshal (written by another version of the service)
  BatchSize,    \* OutboxWorker.batchSize, 100 in the code
  MaxRetry,     \* the retry limit, 10 in the code
  BusMayFail,   \* TRUE: any EventBus, whose Publish may return an error;
                \* FALSE: RedisEventBus, which fails only when stopped
  DbErrors,     \* TRUE: a statement of the worker may fail
  MaxCrashes    \* bound: how many times processes are killed

ASSUME OutboxAssumption ==
  /\ NoEvent \notin Events
  /\ Home \in [Events -> Procs]
  /\ Ticks \subseteq Nat \ {0}
  /\ SplitTx \subseteq Events
  /\ Undecodable \subseteq Events
  /\ BatchSize \in Nat \ {0}
  /\ MaxRetry \in Nat \ {0}
  /\ MaxCrashes \in Nat
  /\ BusMayFail \in BOOLEAN
  /\ DbErrors \in BOOLEAN

VARIABLES
  tx,       \* the request of each event
  status,   \* outbox_events.status, "ABSENT" before the row is committed
  retry,    \* outbox_events.retry_count
  clock,    \* the clock of each process, at the last created_at it took;
            \* nothing ties the clocks of two processes together
  stamp,    \* outbox_events.created_at, 0 before it is taken
  phase,    \* the life of each API process
  running,  \* RedisEventBus.running of each process
  pc,       \* the next statement of each worker
  batch,    \* events of the fetched batch the worker has not reached yet
  cur,      \* the event the worker is processing
  seen,     \* RetryCount as the worker read it when it fetched the batch
  sent,     \* history: Publish calls that returned nil, per process and event
  faulted,  \* history: events for which a statement of a worker failed
  cut,      \* history: events in hand of a worker when its process was killed
  prior,    \* history: events its process had committed when this one was
            \* created
  crashes   \* processes killed so far

table   == <<status, retry>>
request == <<tx, clock, stamp, prior>>
worker  == <<pc, batch, cur, seen>>
history == <<sent, faulted, cut>>
life    == <<phase, running, crashes>>
vars    == <<table, request, worker, history, life>>

Status == {"ABSENT", "PENDING", "PROCESSING", "COMPLETED", "FAILED"}
Settled == {"COMPLETED", "FAILED"}

Init ==
  /\ tx = [e \in Events |-> "none"]
  /\ status = [e \in Events |-> "ABSENT"]
  /\ retry = [e \in Events |-> 0]
  /\ clock = [p \in Procs |-> 0]
  /\ stamp = [e \in Events |-> 0]
  /\ phase = [p \in Procs |-> "down"]
  /\ running = [p \in Procs |-> FALSE]
  /\ pc = [p \in Procs |-> "off"]
  /\ batch = [p \in Procs |-> {}]
  /\ cur = [p \in Procs |-> NoEvent]
  /\ seen = [p \in Procs |-> [e \in Events |-> 0]]
  /\ sent = [p \in Procs |-> [e \in Events |-> 0]]
  /\ faulted = {}
  /\ cut = {}
  /\ prior = [e \in Events |-> {}]
  /\ crashes = 0

-----------------------------------------------------------------------------
(* Requests.                                                               *)

Committed == {e \in Events : tx[e] = "committed"}

(* CallService changes the call first, in a transaction of its own         *)
(* (repo.EndCall) or in Redis (SendOffer, SendAnswer, SendICECandidate).   *)
ChangeFirst(e) ==
  /\ e \in SplitTx
  /\ tx[e] = "none"
  /\ tx' = [tx EXCEPT ![e] = "changed"]
  /\ UNCHANGED <<table, clock, stamp, prior, worker, history, life>>

(* created_at is time.Now() of the process that serves the request.        *)
TakeCreatedAt(e) ==
  /\ \E d \in Ticks : clock' = [clock EXCEPT ![Home[e]] = @ + d]
  /\ stamp' = [stamp EXCEPT ![e] = clock'[Home[e]]]
  /\ prior' = [prior EXCEPT ![e] = {c \in Committed : Home[c] = Home[e]}]

(* Slip: Create is handed a nil tx, so the row is inserted on the pool.    *)
SaveOutsideTx(e) ==
  /\ tx[e] = IF e \in SplitTx THEN "changed" ELSE "none"
  /\ tx' = [tx EXCEPT ![e] = "open"]
  /\ status' = [status EXCEPT ![e] = "PENDING"]
  /\ TakeCreatedAt(e)
  /\ UNCHANGED <<retry, worker, history, life>>

(* saveToOutbox inside an open transaction: created_at is taken at this    *)
(* moment, not at the commit.                                              *)
SaveToOutbox(e) ==
  /\ tx[e] = IF e \in SplitTx THEN "changed" ELSE "none"
  /\ tx' = [tx EXCEPT ![e] = "open"]
  /\ TakeCreatedAt(e)
  /\ UNCHANGED <<table, worker, history, life>>

CommitTx(e) ==
  /\ tx[e] = "open"
  /\ tx' = [tx EXCEPT ![e] = "committed"]
  /\ status' = [status EXCEPT ![e] = "PENDING"]
  /\ UNCHANGED <<retry, clock, stamp, prior, worker, history, life>>

(* WithTx rolls back, the commit fails, or the process dies meanwhile.  A  *)
(* change committed beforehand stays.                                      *)
AbortTx(e) ==
  /\ tx[e] \in {"changed", "open"}
  /\ tx' = [tx EXCEPT ![e] = "aborted"]
  /\ UNCHANGED <<table, clock, stamp, prior, worker, history, life>>

-----------------------------------------------------------------------------
(* The worker.                                                             *)

(* Slip: the query filters on retry_count only.                            *)
WaitingAnyStatus == {e \in Events : status[e] # "ABSENT" /\ retry[e] < MaxRetry}

Waiting == {e \in Events : status[e] = "PENDING" /\ retry[e] < MaxRetry}

(* Slip: no ORDER BY.                                                      *)
PendingUnordered ==
  {B \in SUBSET Waiting :
     /\ Cardinality(B) <= BatchSize
     /\ B = Waiting \/ Cardinality(B) = BatchSize}

(* The answers of GetPending: at most BatchSize waiting rows, the oldest   *)
(* ones.                                                                   *)
Pending ==
  {B \in SUBSET Waiting :
     /\ Cardinality(B) <= BatchSize
     /\ B = Waiting \/ Cardinality(B) = BatchSize
     /\ \A x \in B, y \in Waiting \ B : stamp[x] <= stamp[y]}

(* One UPDATE of the table column "status"; its error is ignored.          *)
WriteStatus(e, s) ==
  \/ status' = [status EXCEPT ![e] = s] /\ UNCHANGED faulted
  \/ DbErrors /\ faulted' = faulted \union {e} /\ UNCHANGED status

(* processEvent returned: the loop takes the next event or the worker goes *)
(* back to waiting for the ticker.                                         *)
NextEvent(p, left) ==
  /\ pc' = [pc EXCEPT ![p] = IF left = {} THEN "idle" ELSE "mark"]
  /\ cur' = [cur EXCEPT ![p] = NoEvent]

(* processBatch: GetPending.  An empty answer, or an error, changes        *)
(* nothing.                                                                *)
Fetch(p) ==
  /\ pc[p] = "idle"
  /\ \E B \in Pending \ {{}} : batch' = [batch EXCEPT ![p] = B]
  /\ seen' = [seen EXCEPT ![p] = retry]
  /\ pc' = [pc EXCEPT ![p] = "mark"]
  /\ UNCHANGED <<table, request, cur, history, life>>

(* Slip: the claim is kept in memory only.                                 *)
MarkProcessingUnclaimed(p) ==
  /\ pc[p] = "mark"
  /\ \E e \in batch[p] :
       /\ \A f \in batch[p] : stamp[e] <= stamp[f]
       /\ batch' = [batch EXCEPT ![p] = @ \ {e}]
       /\ cur' = [cur EXCEPT ![p] = e]
       /\ pc' = [pc EXCEPT ![p] = IF e \in Undecodable THEN "fail" ELSE "publish"]
  /\ UNCHANGED <<table, request, seen, history, life>>

(* processEvent: MarkProcessing, an UPDATE by id whatever the status is    *)
(* now.  When it fails the event is skipped.                               *)
MarkProcessing(p) ==
  /\ pc[p] = "mark"
  /\ \E e \in batch[p] :
       /\ \A f \in batch[p] : stamp[e] <= stamp[f]
       /\ batch' = [batch EXCEPT ![p] = @ \ {e}]
       /\ \/ /\ status' = [status EXCEPT ![e] = "PROCESSING"]
             /\ cur' = [cur EXCEPT ![p] = e]
             /\ pc' = [pc EXCEPT ![p] = IF e \in Undecodable THEN "fail" ELSE "publish"]
             /\ UNCHANGED faulted
          \/ /\ DbErrors
             /\ faulted' = faulted \union {e}
             /\ UNCHANGED status
             /\ NextEvent(p, batch[p] \ {e})
  /\ UNCHANGED <<retry, request, seen, sent, cut, life>>

(* RedisEventBus.Publish on a running bus: nil whether or not the Redis    *)
(* PUBLISH went through, as its errors are only printed.                   *)
Publish(p) ==
  /\ pc[p] = "publish"
  /\ running[p]
  /\ sent' = [sent EXCEPT ![p][cur[p]] = @ + 1]
  /\ pc' = [pc EXCEPT ![p] = "complete"]
  /\ UNCHANGED <<table, request, batch, cur, seen, faulted, cut, life>>

(* Slip: the error of Publish is dropped.                                  *)
PublishErrorIgnored(p) ==
  /\ pc[p] = "publish"
  /\ BusMayFail \/ ~running[p]
  /\ pc' = [pc EXCEPT ![p] = "complete"]
  /\ UNCHANGED <<table, request, batch, cur, seen, history, life>>

PublishFails(p) ==
  /\ pc[p] = "publish"
  /\ BusMayFail \/ ~running[p]
  /\ pc' = [pc EXCEPT ![p] = "retry"]
  /\ UNCHANGED <<table, request, batch, cur, seen, history, life>>

(* The test on the RetryCount that was read with the batch.                *)
RetriesExhausted(p) == seen[p][cur[p]] >= MaxRetry - 1

(* Slip: a failed publication ends the goroutine, not the iteration.       *)
IncrementRetryReturning(p) ==
  /\ pc[p] = "retry"
  /\ retry' = [retry EXCEPT ![cur[p]] = @ + 1]
  /\ IF RetriesExhausted(p)
       THEN pc' = [pc EXCEPT ![p] = "fail"] /\ UNCHANGED <<cur, batch>>
       ELSE /\ pc' = [pc EXCEPT ![p] = "off"]
            /\ cur' = [cur EXCEPT ![p] = NoEvent]
            /\ batch' = [batch EXCEPT ![p] = {}]
  /\ UNCHANGED <<status, request, seen, history, life>>

IncrementRetry(p) ==
  /\ pc[p] = "retry"
  /\ \/ retry' = [retry EXCEPT ![cur[p]] = @ + 1] /\ UNCHANGED faulted
     \/ DbErrors /\ faulted' = faulted \union {cur[p]} /\ UNCHANGED retry
  /\ IF RetriesExhausted(p)
       THEN pc' = [pc EXCEPT ![p] = "fail"] /\ UNCHANGED cur
       ELSE NextEvent(p, batch[p])
  /\ UNCHANGED <<status, request, batch, seen, sent, cut, life>>

(* Slip: a status the enum outbox_status does not have.                    *)
MarkFailedAsError(p) ==
  /\ pc[p] = "fail"
  /\ WriteStatus(cur[p], "ERROR")
  /\ NextEvent(p, batch[p])
  /\ UNCHANGED <<retry, request, batch, seen, sent, cut, life>>

(* Slip: processEvent returns without MarkFailed.                          *)
MarkFailedForgotten(p) ==
  /\ pc[p] = "fail"
  /\ NextEvent(p, batch[p])
  /\ UNCHANGED <<table, request, batch, seen, history, life>>

MarkFailed(p) ==
  /\ pc[p] = "fail"
  /\ WriteStatus(cur[p], "FAILED")
  /\ NextEvent(p, batch[p])
  /\ UNCHANGED <<retry, request, batch, seen, sent, cut, life>>

MarkCompleted(p) ==
  /\ pc[p] = "complete"
  /\ WriteStatus(cur[p], "COMPLETED")
  /\ NextEvent(p, batch[p])
  /\ UNCHANGED <<retry, request, batch, seen, sent, cut, life>>

(* run: select takes stopChan, only between two batches.                   *)
WorkerExit(p) ==
  /\ phase[p] = "draining"
  /\ pc[p] = "idle"
  /\ pc' = [pc EXCEPT ![p] = "off"]
  /\ UNCHANGED <<table, request, batch, cur, seen, history, life>>

WorkerStep(p) ==
  \/ Fetch(p)
  \/ MarkProcessing(p)
  \/ Publish(p)
  \/ PublishFails(p)
  \/ IncrementRetry(p)
  \/ MarkFailed(p)
  \/ MarkCompleted(p)
  \/ WorkerExit(p)

-----------------------------------------------------------------------------
(* API processes.                                                          *)

(* main: eventBus.Start, then outboxWorker.Start.                          *)
Start(p) ==
  /\ phase[p] = "down"
  /\ phase' = [phase EXCEPT ![p] = "up"]
  /\ running' = [running EXCEPT ![p] = TRUE]
  /\ pc' = [pc EXCEPT ![p] = "idle"]
  /\ UNCHANGED <<table, request, batch, cur, seen, history, crashes>>

(* The server returned: outboxWorker.Stop closes stopChan and waits.       *)
Shutdown(p) ==
  /\ phase[p] = "up"
  /\ phase' = [phase EXCEPT ![p] = "draining"]
  /\ UNCHANGED <<table, request, worker, history, running, crashes>>

(* Slip: the bus is stopped before the worker has returned.                *)
StopBusEarly(p) ==
  /\ phase[p] = "draining"
  /\ running' = [running EXCEPT ![p] = FALSE]
  /\ phase' = [phase EXCEPT ![p] = IF pc[p] = "off" THEN "down" ELSE "draining"]
  /\ UNCHANGED <<table, request, worker, history, crashes>>

(* wg.Wait returned, so eventBus.Stop runs and the process ends.           *)
StopBus(p) ==
  /\ phase[p] = "draining"
  /\ pc[p] = "off"
  /\ phase' = [phase EXCEPT ![p] = "down"]
  /\ running' = [running EXCEPT ![p] = FALSE]
  /\ UNCHANGED <<table, request, worker, history, crashes>>

(* The process is killed, or Start's error ends it in log.Fatalf, which    *)
(* skips the deferred shutdown.                                            *)
Crash(p) ==
  /\ crashes < MaxCrashes
  /\ phase[p] # "down"
  /\ crashes' = crashes + 1
  /\ phase' = [phase EXCEPT ![p] = "down"]
  /\ running' = [running EXCEPT ![p] = FALSE]
  /\ pc' = [pc EXCEPT ![p] = "off"]
  /\ batch' = [batch EXCEPT ![p] = {}]
  /\ cur' = [cur EXCEPT ![p] = NoEvent]
  /\ cut' = cut \union ({cur[p]} \ {NoEvent})
  /\ UNCHANGED <<table, request, seen, sent, faulted>>

-----------------------------------------------------------------------------

Request(e) == ChangeFirst(e) \/ SaveToOutbox(e) \/ CommitTx(e) \/ AbortTx(e)
Process(p) == Start(p) \/ Shutdown(p) \/ StopBus(p) \/ Crash(p)

Next ==
  \/ \E e \in Events : Request(e)
  \/ \E p \in Procs : WorkerStep(p) \/ Process(p)

(* The runtime keeps scheduling the worker goroutine and its ticker keeps  *)
(* firing; a stopping process runs its deferred calls.                     *)
Fairness == \A p \in Procs : WF_vars(WorkerStep(p)) /\ WF_vars(StopBus(p))

Spec == Init /\ [][Next]_vars
FairSpec == Spec /\ Fairness

-----------------------------------------------------------------------------
(* What the outbox promises.                                               *)

(* Every variable has the type its declaration names.                      *)
TypeOK ==
  /\ tx \in [Events -> {"none", "changed", "open", "committed", "aborted"}]
  /\ status \in [Events -> Status]
  /\ retry \in [Events -> Nat]
  /\ clock \in [Procs -> Nat]
  /\ stamp \in [Events -> Nat]
  /\ phase \in [Procs -> {"down", "up", "draining"}]
  /\ running \in [Procs -> BOOLEAN]
  /\ pc \in [Procs -> {"off", "idle", "mark", "publish", "retry", "fail", "complete"}]
  /\ batch \in [Procs -> SUBSET Events]
  /\ cur \in [Procs -> Events \union {NoEvent}]
  /\ seen \in [Procs -> [Events -> Nat]]
  /\ sent \in [Procs -> [Events -> Nat]]
  /\ faulted \in SUBSET Events
  /\ cut \in SUBSET Events
  /\ prior \in [Events -> SUBSET Events]
  /\ crashes \in Nat

(* One process publishes an event at most once in all its lives: the claim *)
(* of MarkProcessing survives a crash, and nothing ever takes it back      *)
(* (outbox_worker.go, "Prevent duplicate processing").                     *)
AtMostOncePerProcess == \A p \in Procs, e \in Events : sent[p][e] <= 1

(* No event is published twice, by the same process or by two of them.     *)
NoDuplicatePublish ==
  \A e \in Events, p, q \in Procs :
    sent[p][e] > 0 /\ sent[q][e] > 0 => p = q /\ sent[p][e] = 1

(* An event is published only when the transaction that recorded it, and   *)
(* with it the change it announces, has committed.                         *)
PublishedOnlyCommitted ==
  \A p \in Procs, e \in Events : sent[p][e] > 0 => tx[e] = "committed"

(* COMPLETED is only ever written after a Publish of that event returned   *)
(* nil, in whatever order processes interleave and fail.                   *)
CompletedWasPublished ==
  \A e \in Events : status[e] = "COMPLETED" => \E p \in Procs : sent[p][e] > 0

(* The bus of a process is up whenever its worker is about to publish, so  *)
(* the order of the deferred calls in main never costs a retry.            *)
BusOutlivesWorker == \A p \in Procs : pc[p] = "publish" => running[p]

(* No event overtakes one that its process had committed before it was     *)
(* even created: when an event is published, by whichever worker, those    *)
(* have been claimed, unless a statement failed on them (the ORDER BY of   *)
(* GetPending, the loop of processBatch).  Events of different processes   *)
(* are ordered by clocks that need not agree.                              *)
CausalOrder ==
  \A p \in Procs, f \in Events :
    sent[p][f] > 0 => \A e \in prior[f] : status[e] # "PENDING" \/ e \in faulted

(* An event no worker will look at again.                                  *)
Orphan(e) == status[e] = "PROCESSING" /\ \A p \in Procs : cur[p] # e

(* An event is orphaned only by a kill of the process that had it in hand, *)
(* a failed publication or a failed statement of its own: no path through  *)
(* processEvent forgets one, and a kill costs no other event of the batch. *)
OrphanHasCause ==
  \A e \in Events : Orphan(e) => e \in cut \/ retry[e] > 0 \/ e \in faulted

(* With a single worker COMPLETED and FAILED are final: no later statement *)
(* of any batch, life or retry rewrites a settled row.                     *)
SettledIsFinal ==
  [][\A e \in Events : status[e] \in Settled => status'[e] = status[e]]_status

(* If some API process is eventually left running, its worker reaches      *)
(* every recorded event: none waits in the table for ever behind younger   *)
(* ones, restarts or failed publications, as long as the worker's          *)
(* statements succeed.                                                     *)
NoEventStarves ==
  (\E p \in Procs : <>[](phase[p] = "up"))
    => \A e \in Events :
         status[e] = "PENDING" ~> status[e] \in Settled \/ Orphan(e) \/ faulted # {}

(* If some API process is eventually left running, every recorded event    *)
(* ends up COMPLETED or FAILED: none is forgotten in the table.            *)
EventuallySettled ==
  (\E p \in Procs : <>[](phase[p] = "up"))
    => \A e \in Events : status[e] = "PENDING" ~> status[e] \in Settled
=============================================================================
