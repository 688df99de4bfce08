------------------------------ MODULE Handlers ------------------------------
(***************************************************************************)
(* What the HTTP handlers of all services have in common: a request runs   *)
(* one statement after the other, requests of one or several API processes *)
(* interleave between statements, and a request may stop at any of them    *)
(* (the statement fails, the client is gone, the process is killed).       *)
(*                                                                         *)
(* A request is used once; a value it generates (a session, a token, a     *)
(* key) is named after it.  A behaviour is of one service.                 *)
(***************************************************************************)
EXTENDS Naturals, FiniteSets

CONSTANTS
  Requests,      \* bound: the requests of a behaviour
  Nobody,        \* no request: NULL, no row, or a value older than the behaviour
  UsedServices   \* the services of which there are behaviours

Earlier == "earlier"  \* a request that ended before the behaviour

ASSUME HandlersAssumption == {Nobody, Earlier} \intersect Requests = {} /\ Nobody # Earlier

VARIABLES
  service,  \* the service that all requests of the behaviour are for
  op,       \* what each request asks for
  pc,       \* the next statement of each request
  met,      \* history: the requests active together with each request
  faulted   \* history: requests that stopped or had a statement fail

handling == <<service, op, pc, met, faulted>>

Active(r) == pc[r] \notin {"new", "ok", "failed"}

HandlersInit ==
  /\ service \in UsedServices
  /\ op = [r \in Requests |-> "none"]
  /\ pc = [r \in Requests |-> "new"]
  /\ met = [r \in Requests |-> {}]
  /\ faulted = {}

(* Request r arrives and has reached statement first.                      *)
Arrive(r, s, operation, first) ==
  /\ pc[r] = "new"
  /\ service = s
  /\ op' = [op EXCEPT ![r] = operation]
  /\ pc' = [pc EXCEPT ![r] = first]
  /\ met' = [q \in Requests |->
               IF q = r THEN {a \in Requests : Active(a)}
               ELSE IF Active(q) THEN met[q] \union {r}
               ELSE met[q]]
  /\ UNCHANGED <<service, faulted>>

Goto(r, l) ==
  /\ pc' = [pc EXCEPT ![r] = l]
  /\ UNCHANGED <<service, op, met, faulted>>

(* A statement of request r fails, and it goes on to statement l.          *)
FailsOnTo(r, l) ==
  /\ pc' = [pc EXCEPT ![r] = l]
  /\ faulted' = faulted \union {r}
  /\ UNCHANGED <<service, op, met>>

Stops(r) == Active(r) /\ FailsOnTo(r, "failed")

(* Operations and statements are named by strings.                         *)
HandlersTypeOK ==
  /\ DOMAIN op = Requests
  /\ DOMAIN pc = Requests
  /\ met \in [Requests -> SUBSET Requests]
  /\ faulted \in SUBSET Requests
=============================================================================
