---------------------------- MODULE OutboxLedger ----------------------------
(***************************************************************************)
(* One API process, as cmd/api/main.go runs it: its outbox implements      *)
(* EventLedger.  With two processes on one database it does not.           *)
(***************************************************************************)
EXTENDS Outbox

CONSTANT Api   \* the only API process

ASSUME SingleProcess == Procs = {Api}

(* A TLC value of Home: the requests run in that process too.              *)
AllAtApi == [e \in Events |-> Api]

(* An event is recorded once its transaction has committed, and given up   *)
(* once its row is FAILED.                                                 *)
Stage(e) ==
  IF status[e] = "FAILED" THEN "abandoned"
  ELSE IF tx[e] = "committed" THEN "recorded"
  ELSE "none"

stageBar == [e \in Events |-> Stage(e)]

Ledger == INSTANCE EventLedger WITH stage <- stageBar, copies <- sent[Api]

(* The outbox of a single process keeps the promise of EventLedger through *)
(* crashes, restarts, failed statements and failed publications.           *)
LedgerSpec == Ledger!Spec
=============================================================================
