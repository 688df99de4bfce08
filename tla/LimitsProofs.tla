---------------------------- MODULE LimitsProofs ----------------------------
(***************************************************************************)
(* Theorems about RateLimits, for any limits, windows and clock: the Redis *)
(* counter is bounded in value and in time, and the connection limiter     *)
(* implements SlidingWindow.                                               *)
(***************************************************************************)
EXTENDS RateLimits, FiniteSetTheorems, SequenceTheorems, WellFoundedInduction, TLAPS

(* Times are stored in the order in which the clock produced them.         *)
Ordered(s) ==
  /\ \A i, j \in 1 .. Len(s) : i <= j => s[i] <= s[j]
  /\ \A i \in 1 .. Len(s) : s[i] <= now

-----------------------------------------------------------------------------
(* Sequences of times.                                                     *)

LEMMA LeastElement ==
  ASSUME NEW T \in SUBSET Nat, T # {}
  PROVE  \E x \in T : \A y \in T : x <= y
  <1>1. PICK x \in T : \A y \in T : ~ (<<y, x>> \in OpToRel(<, Nat))
    BY NatLessThanWellFounded, WFMin
  <1>2. \A y \in T : ~ (y < x)
    BY <1>1 DEF OpToRel
  <1>3. QED
    BY <1>2

(* A set of positions that goes down to the first is an interval.          *)
LEMMA InitialSegment ==
  ASSUME NEW n \in Nat, NEW O \in SUBSET (1 .. n),
         \A i, j \in 1 .. n : j \in O /\ i <= j => i \in O
  PROVE  \E m \in 0 .. n : O = 1 .. m
  <1> DEFINE T == {k \in Nat : k >= 1 /\ k \notin O}
  <1>1. n + 1 \in T
    OBVIOUS
  <1>2. PICK x \in T : \A y \in T : x <= y
    BY <1>1, LeastElement
  <1>3. PICK m \in 0 .. n : m = x - 1
    BY <1>1, <1>2
  <1>4. \A i \in 1 .. n : i \in O <=> i <= m
    BY <1>2, <1>3
  <1>5. O \subseteq 1 .. m
    BY <1>3, <1>4
  <1>6. 1 .. m \subseteq O
    BY <1>3, <1>4
  <1>7. QED
    BY <1>5, <1>6

LEMMA IntervalSize ==
  ASSUME NEW a \in Nat, NEW b \in Nat, a <= b
  PROVE  Cardinality((a + 1) .. b) = b - a
  <1>1. PICK c \in Int : c = a + 1
    OBVIOUS
  <1>2. b \in Int
    OBVIOUS
  <1>3. Cardinality(c .. b) = IF c > b THEN 0 ELSE b - c + 1
    BY <1>2, FS_Interval
  <1>4. QED
    BY <1>1, <1>3

LEMMA FunctionIsSeq ==
  ASSUME NEW n \in Nat, NEW f \in [1 .. n -> Nat]
  PROVE  f \in Seq(Nat) /\ Len(f) = n
  <1>1. f \in Seq(Nat)
    BY SeqDef
  <1>2. Len(f) \in Nat /\ 1 .. Len(f) = 1 .. n
    BY <1>1, LenProperties
  <1>3. QED
    BY <1>1, <1>2

(* Of a sequence in the order of the clock YoungerThan keeps an end.       *)
LEMMA YoungerIsSuffix ==
  ASSUME NEW s \in Seq(Nat), NEW age \in Nat, now \in Nat, Ordered(s)
  PROVE  \E m \in 0 .. Len(s) :
           /\ \A i \in 1 .. Len(s) : s[i] + age <= now <=> i <= m
           /\ YoungerThan(s, age) \in Seq(Nat)
           /\ Len(YoungerThan(s, age)) = Len(s) - m
           /\ \A i \in 1 .. (Len(s) - m) : YoungerThan(s, age)[i] = s[i + m]
  <1>1. PICK n \in Nat : n = Len(s)
    BY LenProperties
  <1>2. DOMAIN s = 1 .. n /\ \A i \in 1 .. n : s[i] \in Nat
    BY <1>1, LenProperties, ElementOfSeq
  <1> DEFINE old == {i \in 1 .. n : s[i] + age <= now}
             young == {i \in DOMAIN s : s[i] + age > now}
             Nth(k) == CHOOSE i \in young : Cardinality({j \in young : j <= i}) = k
  <1>3. PICK m \in 0 .. n : old = 1 .. m
    <2>1. \A i, j \in 1 .. n : j \in old /\ i <= j => i \in old
      BY <1>1, <1>2 DEF Ordered
    <2>2. QED
      BY <2>1, InitialSegment
  <1>4. \A i \in 1 .. n : s[i] + age <= now <=> i <= m
    BY <1>2, <1>3
  <1>5. young = (m + 1) .. n
    <2>1. ASSUME NEW i \in 1 .. n PROVE s[i] + age > now <=> i > m
      <3>1. PICK x \in Nat : x = s[i]
        BY <1>2
      <3>2. x + age > now <=> ~ (x + age <= now)
        OBVIOUS
      <3>3. QED
        BY <1>4, <3>1, <3>2
    <2>2. young = {i \in 1 .. n : i > m}
      BY <1>2, <2>1
    <2>3. QED
      BY <2>2
  <1>6. Cardinality(young) = n - m
    <2>1. m \in Nat /\ m <= n
      OBVIOUS
    <2>2. Cardinality((m + 1) .. n) = n - m
      BY <2>1, IntervalSize
    <2>3. QED
      BY <1>5, <2>2
  <1>7. \A i \in young : Cardinality({j \in young : j <= i}) = i - m
    <2>1. TAKE i \in young
    <2>2. {j \in young : j <= i} = (m + 1) .. i
      BY <1>5
    <2>3. i \in Nat /\ m \in Nat /\ m <= i
      BY <1>5
    <2>4. QED
      BY <2>2, <2>3, IntervalSize
  <1>8. \A k \in 1 .. (n - m) : Nth(k) = k + m
    <2>1. TAKE k \in 1 .. (n - m)
    <2>2. k + m \in young /\ (k + m) - m = k
      BY <1>5
    <2>3. \E i \in young : Cardinality({j \in young : j <= i}) = k
      BY <1>7, <2>2
    <2>4. PICK i \in young : i = Nth(k) /\ Cardinality({j \in young : j <= i}) = k
      BY <2>3
    <2>5. i - m = k
      BY <1>7, <2>4
    <2>6. i \in Nat
      BY <1>5
    <2>7. i = k + m
      BY <2>5, <2>6
    <2>8. QED
      BY <2>4, <2>7
  <1>9. YoungerThan(s, age) = [k \in 1 .. (n - m) |-> s[Nth(k)]]
    BY <1>6 DEF YoungerThan
  <1> HIDE DEF Nth, young, old
  <1>10. YoungerThan(s, age) = [k \in 1 .. (n - m) |-> s[k + m]]
    BY <1>8, <1>9
  <1>11. YoungerThan(s, age) \in [1 .. (n - m) -> Nat]
    BY <1>2, <1>10
  <1>12. YoungerThan(s, age) \in Seq(Nat) /\ Len(YoungerThan(s, age)) = n - m
    <2>1. PICK l \in Nat : l = n - m
      OBVIOUS
    <2>2. YoungerThan(s, age) \in [1 .. l -> Nat]
      BY <1>11, <2>1
    <2>3. QED
      BY <2>1, <2>2, FunctionIsSeq
  <1>13. QED
    BY <1>1, <1>4, <1>10, <1>12
-----------------------------------------------------------------------------
(* The connection limiter is a sliding window.                             *)

(* The stored times are the newest of all accepted ones, and what was      *)
(* dropped is older than the window.                                       *)
WindowInv ==
  /\ now \in Nat /\ times \in Seq(Nat) /\ admitted \in Seq(Nat)
  /\ answer \in {"none", "yes", "no"}
  /\ Ordered(times) /\ Ordered(admitted)
  /\ \E k \in Nat :
       /\ Len(admitted) = Len(times) + k
       /\ \A i \in 1 .. Len(times) : times[i] = admitted[i + k]
       /\ \A i \in 1 .. k : admitted[i] + Window <= now

(* A time appended now keeps the order.                                    *)
LEMMA OrderedAppend ==
  ASSUME NEW s \in Seq(Nat), now \in Nat, Ordered(s)
  PROVE  /\ Append(s, now) \in Seq(Nat) /\ Ordered(Append(s, now))
         /\ Len(Append(s, now)) = Len(s) + 1
         /\ \A i \in 1 .. Len(s) : Append(s, now)[i] = s[i]
         /\ Append(s, now)[Len(s) + 1] = now
  <1>1. PICK n \in Nat : n = Len(s)
    BY LenProperties
  <1>2. PICK t \in Seq(Nat) : t = Append(s, now)
    BY AppendProperties
  <1>3. Len(t) = n + 1 /\ (\A i \in 1 .. n : t[i] = s[i]) /\ t[n + 1] = now
    BY <1>1, <1>2, AppendProperties
  <1>4. \A i \in 1 .. n : s[i] \in Nat
    BY <1>1, ElementOfSeq
  <1>5. ASSUME NEW i \in 1 .. (n + 1) PROVE t[i] <= now
    <2>1. CASE i = n + 1
      BY <1>3, <2>1
    <2>2. CASE i \in 1 .. n
      BY <1>1, <1>3, <2>2 DEF Ordered
    <2>3. QED
      BY <2>1, <2>2
  <1>6. ASSUME NEW i \in 1 .. (n + 1), NEW j \in 1 .. (n + 1), i <= j PROVE t[i] <= t[j]
    <2>1. CASE j = n + 1
      BY <1>3, <1>5, <2>1
    <2>2. CASE j \in 1 .. n
      <3>1. i \in 1 .. n
        BY <1>6, <2>2
      <3>2. QED
        BY <1>1, <1>3, <1>6, <2>2, <3>1 DEF Ordered
    <2>3. QED
      BY <2>1, <2>2
  <1>7. Ordered(t)
    BY <1>3, <1>5, <1>6 DEF Ordered
  <1>8. QED
    BY <1>1, <1>2, <1>3, <1>7

(* What YoungerThan keeps is again the end of what was admitted, when it   *)
(* drops nothing of the window.                                            *)
LEMMA TrimmedWindow ==
  ASSUME WindowInv, NEW age \in Nat, age >= Window
  PROVE  LET valid == YoungerThan(times, age) IN
         /\ valid \in Seq(Nat) /\ Ordered(valid)
         /\ \E k \in Nat :
              /\ Len(admitted) = Len(valid) + k
              /\ \A i \in 1 .. Len(valid) : valid[i] = admitted[i + k]
              /\ \A i \in 1 .. k : admitted[i] + Window <= now
              /\ age = Window => \A i \in 1 .. Len(valid) : valid[i] + Window > now
  <1> DEFINE valid == YoungerThan(times, age)
  <1>1. PICK n \in Nat : n = Len(times)
    BY LenProperties DEF WindowInv
  <1>2. PICK m \in 0 .. n :
          /\ \A i \in 1 .. n : times[i] + age <= now <=> i <= m
          /\ valid \in Seq(Nat)
          /\ Len(valid) = n - m
          /\ \A i \in 1 .. (n - m) : valid[i] = times[i + m]
    BY <1>1, YoungerIsSuffix DEF WindowInv
  <1>3. PICK k \in Nat :
          /\ Len(admitted) = n + k
          /\ \A i \in 1 .. n : times[i] = admitted[i + k]
          /\ \A i \in 1 .. k : admitted[i] + Window <= now
    BY <1>1 DEF WindowInv
  <1> HIDE DEF valid
  <1>4. /\ now \in Nat /\ Window \in Nat
        /\ \A i \in 1 .. n : times[i] \in Nat
        /\ \A i \in 1 .. (n + k) : admitted[i] \in Nat
    <2>1. now \in Nat /\ Window \in Nat
      BY RateLimitsAssumption DEF WindowInv, Window
    <2>2. \A i \in 1 .. n : times[i] \in Nat
      BY <1>1, ElementOfSeq DEF WindowInv
    <2>3. \A i \in 1 .. Len(admitted) : admitted[i] \in Nat
      BY ElementOfSeq DEF WindowInv
    <2>4. QED
      BY <1>3, <2>1, <2>2, <2>3
  <1>5. Ordered(valid)
    <2>1. /\ \A i, j \in 1 .. n : i <= j => times[i] <= times[j]
          /\ \A i \in 1 .. n : times[i] <= now
      BY <1>1 DEF Ordered, WindowInv
    <2>2. \A i \in 1 .. (n - m) : i + m \in 1 .. n
      OBVIOUS
    <2>3. \A i, j \in 1 .. (n - m) : i <= j => i + m <= j + m
      OBVIOUS
    <2>4. \A i, j \in 1 .. (n - m) : i <= j => valid[i] <= valid[j]
      BY <1>2, <2>1, <2>2, <2>3
    <2>5. \A i \in 1 .. (n - m) : valid[i] <= now
      BY <1>2, <2>1, <2>2
    <2>6. QED
      BY <1>2, <2>4, <2>5 DEF Ordered
  <1>6. PICK l \in Nat : l = m + k
    OBVIOUS
  <1>7. Len(admitted) = Len(valid) + l
    BY <1>2, <1>3, <1>6
  <1>8. \A i \in 1 .. (n - m) : valid[i] = admitted[i + l]
    <2>1. TAKE i \in 1 .. (n - m)
    <2>2. PICK j \in 1 .. n : j = i + m
      OBVIOUS
    <2>3. valid[i] = admitted[j + k] /\ j + k = i + l
      BY <1>2, <1>3, <1>6, <2>2
    <2>4. QED
      BY <2>3
  <1>9. \A i \in 1 .. l : admitted[i] + Window <= now
    <2>1. TAKE i \in 1 .. l
    <2>2. CASE i <= k
      BY <1>3, <2>2
    <2>3. CASE i > k
      <3>1. PICK j \in 1 .. n : j = i - k /\ j <= m
        BY <1>6, <2>3
      <3>2. times[j] = admitted[i]
        BY <1>3, <3>1
      <3>3. times[j] + age <= now
        BY <1>2, <3>1
      <3>4. QED
        BY <1>4, <3>2, <3>3
    <2>4. QED
      BY <2>2, <2>3
  <1>10. ASSUME age = Window PROVE \A i \in 1 .. (n - m) : valid[i] + Window > now
    <2>1. TAKE i \in 1 .. (n - m)
    <2>2. PICK j \in 1 .. n : j = i + m /\ ~ (j <= m)
      OBVIOUS
    <2>3. ~ (times[j] + age <= now)
      BY <1>2, <2>2
    <2>4. QED
      BY <1>2, <1>4, <1>10, <2>2, <2>3
  <1>11. QED
    BY <1>2, <1>5, <1>7, <1>8, <1>9, <1>10 DEF valid

LEMMA WindowInit == Init => WindowInv
  <1> SUFFICES ASSUME Init PROVE WindowInv
    OBVIOUS
  <1>1. now = 0 /\ times = <<>> /\ admitted = <<>> /\ answer = "none"
    BY DEF Init
  <1>2. <<>> \in Seq(Nat) /\ Len(<<>>) = 0
    BY EmptySeq
  <1>3. Ordered(<<>>)
    BY <1>2 DEF Ordered
  <1>4. \E k \in Nat :
          /\ Len(admitted) = Len(times) + k
          /\ \A i \in 1 .. Len(times) : times[i] = admitted[i + k]
          /\ \A i \in 1 .. k : admitted[i] + Window <= now
    <2> WITNESS 0 \in Nat
    <2> QED
      BY <1>1, <1>2
  <1>5. QED
    BY <1>1, <1>2, <1>3, <1>4 DEF WindowInv

(* AllowConnection drops what is older than the window and appends the     *)
(* time, Cleanup drops what is older still, and time makes nothing younger.*)
LEMMA WindowStep == WindowInv /\ [Next]_vars => WindowInv'
  <1> SUFFICES ASSUME WindowInv, [Next]_vars PROVE WindowInv'
    OBVIOUS
  <1> USE DEF WindowInv
  <1>1. Window \in Nat /\ Keep \in Nat /\ Keep >= Window /\ Window >= Window
    BY RateLimitsAssumption DEF Window
  <1>2. CASE AllowConnection
    <2>1. PICK valid : valid = YoungerThan(times, Window)
      OBVIOUS
    <2>2. now' = now
      BY <1>2 DEF AllowConnection
    <2>3. CASE answer' = "no" /\ UNCHANGED <<times, admitted>>
      BY <2>2, <2>3 DEF Ordered
    <2>4. CASE answer' = "yes" /\ times' = Append(valid, now) /\ admitted' = Append(admitted, now)
      <3>1. PICK k \in Nat :
              /\ valid \in Seq(Nat) /\ Ordered(valid)
              /\ Len(admitted) = Len(valid) + k
              /\ \A i \in 1 .. Len(valid) : valid[i] = admitted[i + k]
              /\ \A i \in 1 .. k : admitted[i] + Window <= now
        BY <1>1, <2>1, TrimmedWindow
      <3>2. PICK n \in Nat : n = Len(valid)
        BY <3>1, LenProperties
      <3>3. /\ times' \in Seq(Nat) /\ Ordered(times') /\ Len(times') = n + 1
            /\ \A i \in 1 .. n : times'[i] = valid[i]
            /\ times'[n + 1] = now
        BY <2>4, <3>1, <3>2, OrderedAppend
      <3>4. /\ admitted' \in Seq(Nat) /\ Ordered(admitted') /\ Len(admitted') = (n + k) + 1
            /\ \A i \in 1 .. (n + k) : admitted'[i] = admitted[i]
            /\ admitted'[(n + k) + 1] = now
        BY <2>4, <3>1, <3>2, OrderedAppend
      <3>5. Ordered(times)' /\ Ordered(admitted)'
        BY <2>2, <3>3, <3>4 DEF Ordered
      <3>6. Len(admitted') = Len(times') + k
        BY <3>3, <3>4
      <3>7. \A i \in 1 .. (n + 1) : times'[i] = admitted'[i + k]
        <4>1. TAKE i \in 1 .. (n + 1)
        <4>2. CASE i = n + 1
          <5>1. i + k = (n + k) + 1
            BY <4>2
          <5>2. QED
            BY <3>3, <3>4, <4>2, <5>1
        <4>3. CASE i # n + 1
          <5>1. i \in 1 .. n /\ i + k \in 1 .. (n + k)
            BY <4>3
          <5>2. QED
            BY <3>1, <3>2, <3>3, <3>4, <5>1
        <4>4. QED
          BY <4>2, <4>3
      <3>8. \A i \in 1 .. k : admitted'[i] + Window <= now
        <4>1. \A i \in 1 .. k : i \in 1 .. (n + k)
          OBVIOUS
        <4>2. QED
          BY <3>1, <3>4, <4>1
      <3>9. QED
        BY <2>2, <2>4, <3>3, <3>4, <3>5, <3>6, <3>7, <3>8
    <2>5. QED
      BY <1>2, <2>1, <2>3, <2>4 DEF AllowConnection
  <1>3. CASE Cleanup
    <2>1. PICK valid : valid = YoungerThan(times, Keep)
      OBVIOUS
    <2>2. times' = valid /\ UNCHANGED <<now, admitted, answer>>
      BY <1>3, <2>1 DEF Cleanup
    <2>3. /\ valid \in Seq(Nat) /\ Ordered(valid)
          /\ \E k \in Nat :
               /\ Len(admitted) = Len(valid) + k
               /\ \A i \in 1 .. Len(valid) : valid[i] = admitted[i + k]
               /\ \A i \in 1 .. k : admitted[i] + Window <= now
      BY <1>1, <2>1, TrimmedWindow
    <2>4. QED
      BY <2>2, <2>3 DEF Ordered
  <1>4. CASE Tick
    <2>1. now' = now + 1 /\ UNCHANGED <<times, admitted, answer>>
      BY <1>4 DEF Tick, connection
    <2>2. \A i \in 1 .. Len(times) : times[i] \in Nat
      BY ElementOfSeq
    <2>3. \A i \in 1 .. Len(admitted) : admitted[i] \in Nat
      BY ElementOfSeq
    <2>4. Ordered(times)' /\ Ordered(admitted)'
      BY <2>1, <2>2, <2>3 DEF Ordered
    <2>5. PICK k \in Nat :
            /\ Len(admitted) = Len(times) + k
            /\ \A i \in 1 .. Len(times) : times[i] = admitted[i + k]
            /\ \A i \in 1 .. k : admitted[i] + Window <= now
      OBVIOUS
    <2>6. \A i \in 1 .. k : i \in 1 .. Len(admitted)
      BY <2>5, LenProperties
    <2>7. \A i \in 1 .. k : admitted[i] + Window <= now'
      BY <1>1, <2>1, <2>3, <2>5, <2>6
    <2>8. now' \in Nat
      BY <2>1
    <2>9. QED
      BY <2>1, <2>4, <2>5, <2>7, <2>8
  <1>5. ASSUME UNCHANGED <<now, times, admitted, answer>> PROVE WindowInv'
    BY <1>5 DEF Ordered
  <1>6. QED
    BY <1>2, <1>3, <1>4, <1>5 DEF Next, Script, Allowed, vars, connection

(* What AllowConnection counts are the accepted connections of the window. *)
LEMMA RecentIsYounger ==
  ASSUME WindowInv
  PROVE  Cardinality(Exact!Recent) = Len(YoungerThan(times, Window))
  <1> DEFINE valid == YoungerThan(times, Window)
  <1>1. PICK k \in Nat :
          /\ valid \in Seq(Nat)
          /\ Len(admitted) = Len(valid) + k
          /\ \A i \in 1 .. Len(valid) : valid[i] = admitted[i + k]
          /\ \A i \in 1 .. k : admitted[i] + Window <= now
          /\ \A i \in 1 .. Len(valid) : valid[i] + Window > now
    <2>1. Window \in Nat /\ Window >= Window
      BY RateLimitsAssumption DEF Window
    <2>2. QED
      BY <2>1, TrimmedWindow
  <1> HIDE DEF valid
  <1>2. PICK n \in Nat : n = Len(valid)
    BY <1>1, LenProperties
  <1>3. DOMAIN admitted = 1 .. (n + k)
    BY <1>1, <1>2, LenProperties DEF WindowInv
  <1>4. /\ now \in Nat /\ Window \in Nat
        /\ \A i \in 1 .. (n + k) : admitted[i] \in Nat
    BY <1>1, <1>2, RateLimitsAssumption, ElementOfSeq DEF WindowInv, Window
  <1>5. \A i \in 1 .. (n + k) : admitted[i] + Window > now <=> i \in (k + 1) .. (n + k)
    <2>1. TAKE i \in 1 .. (n + k)
    <2>2. CASE i <= k
      BY <1>1, <1>4, <2>2
    <2>3. CASE i > k
      <3>1. PICK j \in 1 .. n : j = i - k
        BY <2>3
      <3>2. admitted[i] = valid[j] /\ valid[j] + Window > now
        BY <1>1, <1>2, <3>1
      <3>3. QED
        BY <2>3, <3>2
    <2>4. QED
      BY <2>2, <2>3
  <1>6. Exact!Recent = (k + 1) .. (n + k)
    BY <1>3, <1>5 DEF Exact!Recent
  <1>7. Cardinality((k + 1) .. (n + k)) = n
    <2>1. PICK l \in Nat : l = n + k
      OBVIOUS
    <2>2. QED
      BY <2>1, IntervalSize
  <1>8. QED
    BY <1>2, <1>6, <1>7 DEF valid

LEMMA SameCardinality == \A S : Exact!Cardinality(S) = Cardinality(S)
  BY DEF Cardinality, Exact!Cardinality

(* AllowConnection accepts a connection exactly when fewer than the limit  *)
(* were accepted in the minute that ends now, whenever cleanup runs.       *)
THEOREM ImplementsWindow == Spec => ExactSpec
  <1>1. Init => Exact!Init
    BY DEF Init, Exact!Init
  <1>2. WindowInv /\ [Next]_vars => [Exact!Next]_<<now, admitted, answer>>
    <2> SUFFICES ASSUME WindowInv, [Next]_vars PROVE [Exact!Next]_<<now, admitted, answer>>
      OBVIOUS
    <2>1. CASE AllowConnection
      <3>1. PICK n : n = Len(YoungerThan(times, Window))
        OBVIOUS
      <3>2. n \in Nat
        <4>1. Window \in Nat /\ Window >= Window
          BY RateLimitsAssumption DEF Window
        <4>2. QED
          BY <3>1, <4>1, TrimmedWindow, LenProperties
      <3>3. Exact!Cardinality(Exact!Recent) = n
        BY <3>1, RecentIsYounger, SameCardinality
      <3>4. ConnLimit \in Nat
        BY RateLimitsAssumption
      <3>5. CASE n >= ConnLimit
        BY <2>1, <3>1, <3>3, <3>5 DEF AllowConnection, Exact!Next, Exact!Refuse
      <3>6. CASE n < ConnLimit
        BY <2>1, <3>1, <3>2, <3>3, <3>4, <3>6 DEF AllowConnection, Exact!Next, Exact!Accept
      <3>7. QED
        BY <3>2, <3>4, <3>5, <3>6
    <2>2. CASE Tick
      BY <2>2 DEF Tick, connection, Exact!Next, Exact!Tick
    <2>3. CASE Cleanup \/ Script \/ UNCHANGED vars
      BY <2>3 DEF Cleanup, Script, Allowed, vars, connection
    <2>4. QED
      BY <2>1, <2>2, <2>3 DEF Next
  <1>3. QED
    BY <1>1, <1>2, WindowInit, WindowStep, PTL DEF Spec, ExactSpec, Exact!Spec
-----------------------------------------------------------------------------
(* The Redis counter.                                                      *)

(* The first of the requests that the counter counts.                      *)
First == Len(accepted) - current + 1

(* A counter lives for the window from its first request on, and for a     *)
(* tick more per further request at most.  The counter before it had ended *)
(* when this one began, so what precedes it by Limit requests is a window  *)
(* older than its first request, or than now while there is no counter.    *)
CounterInv ==
  /\ now \in 0 .. MaxClock
  /\ accepted \in Seq(Nat) /\ Ordered(accepted)
  /\ current \in 0 .. Limit /\ current <= Len(accepted)
  /\ current = 0 => expires = -1
  /\ current > 0 => /\ expires \in Nat /\ now < expires
                    /\ accepted[First] + Window <= expires
                    /\ expires <= accepted[First] + Window + current - 1
  /\ \A i \in 1 .. Len(accepted) :
       i + Limit <= First => accepted[i] + Window <= IF current = 0 THEN now ELSE accepted[First]

LEMMA CounterInit == Init => CounterInv /\ AtMostTwiceTheLimit
  <1> SUFFICES ASSUME Init PROVE CounterInv /\ AtMostTwiceTheLimit
    OBVIOUS
  <1>1. <<>> \in Seq(Nat) /\ Len(<<>>) = 0 /\ DOMAIN <<>> = {}
    BY EmptySeq
  <1>2. QED
    BY <1>1, RateLimitsAssumption DEF Init, CounterInv, Ordered, AtMostTwiceTheLimit

(* The script arms a new counter for a window, and an old one again only   *)
(* in the tick in which its TTL still reads as the window.                 *)
LEMMA ArmedInTime ==
  ASSUME CounterInv, Script
  PROVE  /\ current < Limit
         /\ current' = current + 1 /\ accepted' = Append(accepted, now) /\ now' = now
         /\ expires' \in Nat
         /\ current = 0 => expires' = now + Window
         /\ current > 0 => expires <= expires' /\ expires' <= expires + 1
  <1>1. /\ Seconds \in Nat \ {0} /\ now \in Nat /\ current \in Nat
        /\ current > 0 => expires \in Nat /\ now < expires
    BY RateLimitsAssumption DEF CounterInv
  <1>2. /\ current < Limit /\ current' = current + 1 /\ accepted' = Append(accepted, now)
        /\ now' = now
        /\ expires' = ArmedAt(IF TTL < 0 THEN Seconds ELSE TTL)
    BY DEF Script, Allowed
  <1>3. CASE current = 0
    BY <1>1, <1>2, <1>3 DEF TTL, ArmedAt, Window
  <1>4. CASE current > 0
    <2>1. TTL = (expires - now + 1) \div 2
      BY <1>1, <1>4 DEF TTL
    <2>2. PICK d \in Nat : d = expires - now /\ d > 0
      BY <1>1, <1>4
    <2>3. TTL = (d + 1) \div 2
      BY <2>1, <2>2
    <2>4. TTL \in Nat /\ (TTL = Seconds => d \in {2 * Seconds - 1, 2 * Seconds})
      BY <1>1, <2>2, <2>3
    <2>5. expires' = IF TTL = Seconds THEN now + 2 * Seconds ELSE expires
      BY <1>2, <2>4 DEF ArmedAt, Window
    <2>6. QED
      BY <1>1, <1>2, <1>4, <2>2, <2>4, <2>5
  <1>5. QED
    BY <1>1, <1>3, <1>4, <1>2

(* A step of the counter keeps it, and the window between a request and    *)
(* the one that is 2 * Limit - 1 after it.                                 *)
LEMMA CounterStep ==
  CounterInv /\ AtMostTwiceTheLimit /\ [Next]_vars => CounterInv' /\ AtMostTwiceTheLimit'
  <1> SUFFICES ASSUME CounterInv, AtMostTwiceTheLimit, [Next]_vars
               PROVE  CounterInv' /\ AtMostTwiceTheLimit'
    OBVIOUS
  <1>1. /\ Window \in Nat /\ Limit \in Nat \ {0} /\ MaxClock \in Nat
        /\ now \in Nat /\ current \in Nat
    BY RateLimitsAssumption DEF Window, CounterInv
  <1>2. PICK n \in Nat : n = Len(accepted)
    BY LenProperties DEF CounterInv
  <1>3. PICK L \in Nat : L = Limit /\ L > 0
    BY <1>1
  <1>4. PICK W \in Nat : W = Window
    BY <1>1
  <1>5. \A i \in 1 .. n : accepted[i] \in Nat
    BY <1>2, ElementOfSeq DEF CounterInv
  <1>6. CASE Script
    <2>1. PICK s \in Seq(Nat) : s = accepted
      BY DEF CounterInv
    <2>2. PICK t : t = Append(s, now)
      OBVIOUS
    <2>3. /\ t \in Seq(Nat) /\ Len(t) = n + 1
          /\ \A i \in 1 .. n : t[i] = s[i]
          /\ t[n + 1] = now
          /\ Ordered(t)
      BY <1>1, <1>2, <2>1, <2>2, OrderedAppend DEF CounterInv
    <2>4. /\ current < L /\ current' = current + 1 /\ accepted' = t /\ now' = now
          /\ expires' \in Nat
          /\ current = 0 => expires' = now + W
          /\ current > 0 => expires <= expires' /\ expires' <= expires + 1
      BY <1>3, <1>4, <1>6, <2>1, <2>2, ArmedInTime
    <2>5. PICK c \in Nat : c = current /\ c <= n
      BY <1>1, <1>2 DEF CounterInv
    <2>6. First = n - c + 1 /\ First' = n - c + 1
      <3>1. Len(accepted') = n + 1
        BY <2>3, <2>4
      <3>2. First' = (n + 1) - (c + 1) + 1
        BY <2>4, <2>5, <3>1 DEF First
      <3>3. QED
        BY <1>2, <2>5, <3>2 DEF First
    <2>7. PICK f \in 1 .. (n + 1) : f = n - c + 1
      BY <2>5
    <2>8. t[f] \in Nat /\ t[f] <= now /\ t[f] = IF c = 0 THEN now ELSE s[f]
      BY <1>1, <1>5, <2>1, <2>3, <2>5, <2>7 DEF Ordered
    <2>9. \A i \in 1 .. (n + 1) : i + L <= f => t[i] + W <= t[f]
      <3>1. \A i \in 1 .. n : i + L <= f => s[i] + W <= IF c = 0 THEN now ELSE s[f]
        BY <1>2, <1>3, <1>4, <2>1, <2>5, <2>6, <2>7 DEF CounterInv
      <3>2. \A i \in 1 .. (n + 1) : i + L <= f => i \in 1 .. n
        BY <1>3
      <3>3. QED
        BY <2>3, <2>8, <3>1, <3>2
    <2>10. CounterInv'
      <3>1. /\ current > 0 => /\ expires \in Nat /\ now < expires
                              /\ s[f] + W <= expires
                              /\ expires <= s[f] + W + c - 1
        BY <1>4, <2>1, <2>5, <2>6, <2>7 DEF CounterInv
      <3>2. /\ now < expires' /\ t[f] + W <= expires'
            /\ expires' <= t[f] + W + (c + 1) - 1
        <4>1. W > 0
          BY <1>4, RateLimitsAssumption DEF Window
        <4>2. PICK x \in Nat : x = t[f]
          BY <2>8
        <4>3. PICK d \in Nat, y \in Nat : d = now /\ y = expires'
          BY <1>1, <2>4
        <4>4. CASE c = 0
          <5>1. x = d /\ y = d + W
            BY <2>4, <2>5, <2>8, <4>2, <4>3, <4>4
          <5>2. d < y /\ x + W <= y /\ y <= x + W + (c + 1) - 1
            BY <4>1, <4>4, <5>1
          <5>3. QED
            BY <4>2, <4>3, <5>2
        <4>5. CASE c > 0
          <5>1. x = s[f] /\ current > 0
            BY <2>5, <2>8, <4>2, <4>5
          <5>2. PICK e \in Nat : e = expires
            BY <3>1, <5>1
          <5>3. /\ d < e /\ x + W <= e /\ e <= x + W + c - 1
                /\ e <= y /\ y <= e + 1
            BY <2>4, <2>5, <3>1, <4>3, <5>1, <5>2
          <5>4. d < y /\ x + W <= y /\ y <= x + W + (c + 1) - 1
            BY <5>3
          <5>5. QED
            BY <4>2, <4>3, <5>4
        <4>6. QED
          BY <4>4, <4>5
      <3>3. now' \in 0 .. MaxClock /\ current' \in 0 .. Limit /\ current' <= n + 1 /\ current' # 0
        BY <1>3, <2>4, <2>5 DEF CounterInv
      <3>4. Ordered(accepted)'
        BY <2>3, <2>4 DEF Ordered
      <3>5. /\ First' = f /\ accepted' = t /\ Len(accepted') = n + 1
            /\ now' = now /\ current' = c + 1
        BY <2>3, <2>4, <2>5, <2>6, <2>7
      <3>6. QED
        BY <1>3, <1>4, <2>3, <2>4, <2>9, <3>2, <3>3, <3>4, <3>5 DEF CounterInv, Window
    <2>11. AtMostTwiceTheLimit'
      <3>1. ASSUME NEW i \in 1 .. (n + 1), i + 2 * L - 1 \in 1 .. (n + 1)
            PROVE  t[i + 2 * L - 1] >= t[i] + W
        <4>1. PICK j \in 1 .. (n + 1) : j = i + 2 * L - 1 /\ i < j
          BY <1>3, <3>1
        <4>2. CASE j <= n
          <5>1. DOMAIN accepted = 1 .. n
            BY <1>2, LenProperties DEF CounterInv
          <5>2. accepted[j] >= accepted[i] + W
            BY <1>3, <1>4, <4>1, <4>2, <5>1 DEF AtMostTwiceTheLimit
          <5>3. QED
            BY <2>1, <2>3, <4>1, <4>2, <5>2
        <4>3. CASE j = n + 1
          <5>1. i + L <= f
            BY <1>3, <2>4, <2>5, <2>7, <4>1, <4>3
          <5>2. t[i] + W <= t[f] /\ t[i] \in Nat
            BY <1>5, <2>1, <2>3, <2>9, <4>1, <4>3, <5>1
          <5>3. t[i] + W <= now
            BY <1>1, <2>8, <5>2
          <5>4. t[i + 2 * L - 1] = now
            BY <2>3, <4>1, <4>3
          <5>5. QED
            BY <1>1, <5>2, <5>3, <5>4
        <4>4. QED
          BY <4>1, <4>2, <4>3
      <3>2. DOMAIN accepted' = 1 .. (n + 1)
        BY <2>3, <2>4, LenProperties
      <3>3. QED
        BY <1>3, <1>4, <2>4, <3>1, <3>2 DEF AtMostTwiceTheLimit, Window
    <2>12. QED
      BY <2>10, <2>11
  <1>7. CASE Tick
    <2>1. /\ now' = now + 1 /\ now < MaxClock /\ accepted' = accepted
          /\ \/ expires = now' /\ current' = 0 /\ expires' = -1
             \/ expires # now' /\ current' = current /\ expires' = expires
      BY <1>7 DEF Tick
    <2>2. AtMostTwiceTheLimit'
      BY <2>1 DEF AtMostTwiceTheLimit, Window
    <2>3. Ordered(accepted)'
      BY <1>1, <1>2, <1>5, <2>1 DEF Ordered, CounterInv
    <2>4. now' \in 0 .. MaxClock
      BY <1>1, <2>1 DEF CounterInv
    <2>5. PICK c \in Nat : c = current /\ c <= n
      BY <1>1, <1>2 DEF CounterInv
    <2>6. First = n - c + 1
      BY <1>2, <2>5 DEF First
    <2>7. CASE expires = now' /\ current' = 0 /\ expires' = -1
      <3>1. First' = n + 1
        BY <1>2, <2>1, <2>7 DEF First
      <3>2. c > 0
        BY <1>1, <2>1, <2>5, <2>7 DEF CounterInv
      <3>3. PICK f \in 1 .. n : f = n - c + 1
        BY <2>5, <3>2
      <3>4. accepted[f] + W <= now + 1
        BY <1>4, <2>1, <2>5, <2>6, <2>7, <3>2, <3>3 DEF CounterInv
      <3>5. ASSUME NEW i \in 1 .. n, i + L <= n + 1 PROVE accepted[i] + W <= now + 1
        <4>1. c <= L
          BY <1>3, <2>5 DEF CounterInv
        <4>2. i <= f
          BY <3>3, <3>5, <4>1
        <4>3. accepted[i] <= accepted[f]
          BY <1>2, <3>3, <4>2 DEF CounterInv, Ordered
        <4>4. QED
          BY <1>1, <1>5, <3>4, <4>3
      <3>6. QED
        BY <1>1, <1>2, <1>3, <1>4, <2>1, <2>2, <2>3, <2>4, <2>7, <3>1, <3>5
        DEF CounterInv, Window
    <2>8. CASE expires # now' /\ current' = current /\ expires' = expires
      <3>1. First' = First
        BY <2>1, <2>8 DEF First
      <3>2. current > 0 => now' < expires
        BY <1>1, <2>1, <2>8 DEF CounterInv
      <3>3. \A i \in 1 .. n : i + L <= First => accepted[i] + W <= IF current = 0 THEN now ELSE accepted[First]
        BY <1>2, <1>3, <1>4 DEF CounterInv
      <3>4. \A i \in 1 .. n : i + L <= First => accepted[i] + W <= IF current = 0 THEN now + 1 ELSE accepted[First]
        BY <1>1, <1>5, <3>3
      <3>5. QED
        BY <1>2, <1>3, <1>4, <2>1, <2>2, <2>3, <2>4, <2>8, <3>1, <3>2, <3>4
        DEF CounterInv, Window
    <2>9. QED
      BY <2>1, <2>7, <2>8
  <1>8. CASE AllowConnection \/ Cleanup \/ UNCHANGED vars
    <2>1. UNCHANGED <<now, current, expires, accepted>>
      BY <1>8 DEF AllowConnection, Cleanup, counter, vars
    <2>2. First' = First
      BY <2>1 DEF First
    <2>3. Ordered(accepted)'
      BY <2>1 DEF Ordered, CounterInv
    <2>4. QED
      BY <2>1, <2>2, <2>3 DEF CounterInv, AtMostTwiceTheLimit, Window
  <1>9. QED
    BY <1>6, <1>7, <1>8 DEF Next

(* The counters that checkLimit keeps in Redis are bounded: at most        *)
(* 2 * Limit - 1 requests are let through in any window, and a counter     *)
(* ends at most current - 1 ticks after the window of its first request.   *)
THEOREM CountersBounded == Spec => []CountersHold
  <1>1. WindowInv /\ CounterInv /\ AtMostTwiceTheLimit => CountersHold
    <2> SUFFICES ASSUME WindowInv, CounterInv, AtMostTwiceTheLimit PROVE CountersHold
      OBVIOUS
    <2>1. current \in Nat
      BY RateLimitsAssumption DEF CounterInv
    <2>2. expires \in Int
      BY <2>1 DEF CounterInv
    <2>3. TypeOK
      BY <2>2 DEF WindowInv, CounterInv, TypeOK
    <2>4. CounterEndsInTime
      BY DEF CounterInv, CounterEndsInTime, First
    <2>5. QED
      BY <2>3, <2>4 DEF CountersHold
  <1>2. QED
    BY <1>1, WindowInit, WindowStep, CounterInit, CounterStep, PTL DEF Spec
=============================================================================
