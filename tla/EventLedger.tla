----------------------------- MODULE EventLedger -----------------------------
(***************************************************************************)
(* What the outbox promises, without table, worker or bus: a recorded      *)
(* event is announced once or given up, never both and never twice, and    *)
(* nothing that was not recorded is announced.                             *)
(***************************************************************************)
EXTENDS Naturals

CONSTANT Events

VARIABLES
  stage,   \* "none", "recorded" or "abandoned"
  copies   \* how many times the event was announced

vars == <<stage, copies>>

Init ==
  /\ stage = [e \in Events |-> "none"]
  /\ copies = [e \in Events |-> 0]

Record(e) ==
  /\ stage[e] = "none"
  /\ stage' = [stage EXCEPT ![e] = "recorded"]
  /\ UNCHANGED copies

Announce(e) ==
  /\ stage[e] = "recorded"
  /\ copies[e] = 0
  /\ copies' = [copies EXCEPT ![e] = 1]
  /\ UNCHANGED stage

Abandon(e) ==
  /\ stage[e] = "recorded"
  /\ copies[e] = 0
  /\ stage' = [stage EXCEPT ![e] = "abandoned"]
  /\ UNCHANGED copies

Next == \E e \in Events : Record(e) \/ Announce(e) \/ Abandon(e)

Spec == Init /\ [][Next]_vars
=============================================================================
