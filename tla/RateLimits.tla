----------------------------- MODULE RateLimits -----------------------------
(***************************************************************************)
(* The two limiters of the service, on one clock.                          *)
(*                                                                         *)
(* WebSocketRateLimiter of hub.go keeps the connection times of a user,    *)
(* which AllowConnection reads and extends and the limiter's own cleanup   *)
(* goroutine trims.                                                        *)
(*                                                                         *)
(* checkLimit of redis/ratelimit.go is one Lua script that tests,          *)
(* increments and arms a counter key; Redis runs a script as one step.     *)
(*                                                                         *)
(* Users and keys do not share state, so one of each is enough.  Time      *)
(* counts half seconds, because TTL answers in whole seconds, rounded.     *)
(***************************************************************************)
EXTENDS Integers, Sequences, FiniteSets

CONSTANTS
  ConnLimit,  \* connections a minute, 10 in the code
  Keep,       \* the age at which cleanup drops a time, 10 minutes in the code
  Limit,      \* MessageLimit, CallLimit or AuthLimit
  Seconds,    \* both windows in seconds, 60 in the code
  MaxClock    \* bound of the clock

Window == 2 * Seconds

ASSUME RateLimitsAssumption ==
  /\ ConnLimit \in Nat \ {0}
  /\ Limit \in Nat \ {0}
  /\ Seconds \in Nat \ {0}
  /\ MaxClock \in Nat
  /\ Keep \in Nat
  /\ Keep >= Window

VARIABLES
  now,
  times,     \* connectionsPerUser of the user; <<>> stands for no entry too
  admitted,  \* history: the times of all accepted connections
  answer,    \* history: what AllowConnection returned last
  current,   \* the value of the Redis key, 0 when it does not exist
  expires,   \* when Redis deletes the key, -1 for never
  accepted   \* history: the times of all requests checkLimit allowed

connection == <<times, admitted, answer>>
counter    == <<current, expires, accepted>>
vars       == <<now, connection, counter>>

Init ==
  /\ now = 0
  /\ times = <<>>
  /\ admitted = <<>>
  /\ answer = "none"
  /\ current = 0
  /\ expires = -1
  /\ accepted = <<>>

-----------------------------------------------------------------------------
(* Connections.                                                            *)

(* The times in s younger than age, in their order.                        *)
YoungerThan(s, age) ==
  LET young == {i \in DOMAIN s : s[i] + age > now}
      Nth(n) == CHOOSE i \in young : Cardinality({j \in young : j <= i}) = n
  IN  [n \in 1 .. Cardinality(young) |-> s[Nth(n)]]

(* A refusal does not store the trimmed slice.                             *)
AllowConnection ==
  LET valid == YoungerThan(times, Window) IN
  /\ IF Len(valid) >= ConnLimit
       THEN answer' = "no" /\ UNCHANGED <<times, admitted>>
       ELSE /\ answer' = "yes"
            /\ times' = Append(valid, now)
            /\ admitted' = Append(admitted, now)
  /\ UNCHANGED <<now, counter>>

(* Slip: cleanup deletes the entry of the user.                            *)
CleanupAll ==
  /\ times' = <<>>
  /\ UNCHANGED <<now, admitted, answer, counter>>

(* Every five minutes; the model lets it run at any time.                  *)
Cleanup ==
  /\ times' = YoungerThan(times, Keep)
  /\ UNCHANGED <<now, admitted, answer, counter>>

-----------------------------------------------------------------------------
(* Messages, calls and logins.                                             *)

(* Redis: -2 without a key, -1 without an expiry, else rounded to seconds. *)
TTL ==
  IF current = 0 THEN -2
  ELSE IF expires = -1 THEN -1
  ELSE (expires - now + 1) \div 2

(* A key whose TTL reads as the whole window is armed, again if need be.   *)
ArmedAt(ttl) == IF ttl = Seconds THEN now + Window ELSE expires

Allowed(arm) ==
  /\ current' = current + 1
  /\ expires' = arm
  /\ accepted' = Append(accepted, now)
  /\ UNCHANGED <<now, connection>>

(* Slip: the window is armed again by every request.                       *)
ScriptRearming == current < Limit /\ Allowed(now + Window)

(* A refused request changes nothing.                                      *)
Script == current < Limit /\ Allowed(ArmedAt(IF TTL < 0 THEN Seconds ELSE TTL))

(* Time passes; a key whose time has come is gone.                         *)
Tick ==
  /\ now < MaxClock
  /\ now' = now + 1
  /\ IF expires = now'
       THEN current' = 0 /\ expires' = -1
       ELSE UNCHANGED <<current, expires>>
  /\ UNCHANGED <<accepted, connection>>

Next == AllowConnection \/ Cleanup \/ Script \/ Tick

Spec == Init /\ [][Next]_vars

-----------------------------------------------------------------------------

(* Every variable has the type its declaration names.                      *)
TypeOK ==
  /\ now \in 0 .. MaxClock
  /\ times \in Seq(Nat)
  /\ admitted \in Seq(Nat)
  /\ answer \in {"none", "yes", "no"}
  /\ current \in 0 .. Limit
  /\ expires \in Int
  /\ accepted \in Seq(Nat)

(* AllowConnection is an exact sliding window limit, whenever cleanup runs.*)
Exact == INSTANCE SlidingWindow WITH Limit <- ConnLimit, accepted <- admitted

ExactSpec == Exact!Spec

(* In any window at most twice the limit, less one, is let through: the    *)
(* end of one counter and the beginning of the next.                       *)
AtMostTwiceTheLimit ==
  \A i \in DOMAIN accepted :
    i + 2 * Limit - 1 \in DOMAIN accepted =>
      accepted[i + 2 * Limit - 1] >= accepted[i] + Window

(* A counter always has an expiry, so nobody is refused for ever (the      *)
(* ttl < 0 case of the script).  Each request can prolong its life by the  *)
(* half second in which TTL still rounds up to the window, and by no more: *)
(* a refusal ends at most that long after the window the counter was       *)
(* created for.                                                            *)
CounterEndsInTime ==
  current > 0 =>
    /\ now < expires
    /\ expires <= accepted[Len(accepted) - current + 1] + Window + current - 1

(* checkLimit keeps its counters bounded in value and in time.             *)
CountersHold == TypeOK /\ AtMostTwiceTheLimit /\ CounterEndsInTime
=============================================================================
