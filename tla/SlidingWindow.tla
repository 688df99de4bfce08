---------------------------- MODULE SlidingWindow ----------------------------
(***************************************************************************)
(* What a sliding window limit promises: a request is accepted exactly     *)
(* when fewer than Limit were accepted in the Window ticks that end now.   *)
(***************************************************************************)
EXTENDS Naturals, Sequences, FiniteSets

CONSTANTS Limit, Window

VARIABLES
  now,       \* the clock
  accepted,  \* the times at which requests were accepted, in order
  answer     \* the answer to the last request

Recent == {i \in DOMAIN accepted : accepted[i] + Window > now}

Init == now = 0 /\ accepted = <<>> /\ answer = "none"

Accept ==
  /\ Cardinality(Recent) < Limit
  /\ accepted' = Append(accepted, now)
  /\ answer' = "yes"
  /\ UNCHANGED now

Refuse ==
  /\ Cardinality(Recent) >= Limit
  /\ answer' = "no"
  /\ UNCHANGED <<now, accepted>>

Tick ==
  /\ now' = now + 1
  /\ UNCHANGED <<accepted, answer>>

Next == Accept \/ Refuse \/ Tick

Spec == Init /\ [][Next]_<<now, accepted, answer>>
=============================================================================
