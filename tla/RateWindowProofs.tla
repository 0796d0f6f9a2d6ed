--------------------------- MODULE RateWindowProofs ---------------------------
(***************************************************************************)
(* Theorems about RateWindow, for every window length, clock and number of *)
(* events and any lag of the readings.                                     *)
(*                                                                         *)
(* RingMatchesHistory is made inductive by what it leaves out: before the  *)
(* first event the ring is empty, and no event is newer than the anchor.   *)
(*                                                                         *)
(* The other properties are about what a loop computes over the buckets.   *)
(* A recursive definition says little of itself: that the function it      *)
(* describes exists, and each fact about its values, is an induction over  *)
(* the index, done on the set of indices the fact holds for.               *)
(***************************************************************************)
EXTENDS RateWindow, WellFoundedInduction, TLAPS

NothingAfterAnchor == \A t \in Seconds : t > anchor => hist[t] = 0

RingInd ==
    /\ RingTypeOK
    /\ anchor <= clock
    /\ anchor = 0 => buckets = Zeroes
    /\ anchor = 0 <=> seen = 0
    /\ NothingAfterAnchor
    /\ ExactRing

RateInd == ~lagged => RingInd /\ rate = exact

LEMMA InitInd == Init => RateInd
  <1> USE RateAssumption
      DEF RateAssumption, Init, Slots, Seconds, Zeroes
  <1>1. Init => RingTypeOK
        BY DEF RingTypeOK
  <1>2. Init => anchor <= clock /\ (anchor = 0 => buckets = Zeroes)
                /\ (anchor = 0 <=> seen = 0) /\ NothingAfterAnchor
        BY DEF NothingAfterAnchor
  <1>3. Init => ExactRing
        BY DEF ExactRing
  <1> QED
      BY <1>1, <1>2, <1>3 DEF RingInd, RateInd, Init

\* Ageing an up-to-date ring by the seconds that passed brings it up to date.
LEMMA AgedIsTrailing ==
    ASSUME RingInd, anchor # 0, NEW now \in Seconds, now >= anchor
    PROVE  Aged(buckets, now - anchor) = Trailing(now)
  <1> USE RateAssumption DEF RateAssumption, Slots, Seconds
  <1> SUFFICES ASSUME NEW i \in Slots
               PROVE  (IF i + (now - anchor) \in Slots
                       THEN buckets[i + (now - anchor)] ELSE 0)
                      = HistAt(now - (W - 1) + i)
      BY DEF Aged, Trailing
  <1> DEFINE j == i + (now - anchor)
  <1>1. anchor \in Int /\ now \in Int /\ j \in Int /\ j >= 0
        BY DEF RingInd, RingTypeOK
  <1>2. anchor - (W - 1) + j = now - (W - 1) + i
        BY <1>1
  <1>3. CASE j \in Slots
    <2>1. buckets[j] = HistAt(anchor - (W - 1) + j)
          BY <1>3 DEF RingInd, ExactRing, Trailing
    <2> QED
        BY <2>1, <1>2, <1>3
  <1>4. CASE j \notin Slots
    <2>1. now - (W - 1) + i > anchor
          BY <1>1, <1>4
    <2> QED
        BY <2>1, <1>4 DEF HistAt, RingInd, NothingAfterAnchor
  <1> QED
      BY <1>3, <1>4

LEMMA StepInd ==
    ASSUME ~lagged', RingInd, rate = exact, [Next]_vars
    PROVE  RingInd' /\ rate' = exact'
  <1> USE RateAssumption DEF RateAssumption, Slots, Seconds
  <1>1. CASE Tick
        BY <1>1 DEF Tick, RingInd, RingTypeOK, NothingAfterAnchor, ExactRing,
           Trailing, HistAt
  <1>2. CASE UNCHANGED vars
        BY <1>2 DEF vars, RingInd, RingTypeOK, NothingAfterAnchor, ExactRing,
           Trailing, HistAt
  <1>3. ASSUME NEW now \in Readings, bumpRate(now)
        PROVE  RingInd' /\ rate' = exact'
    <2>0. now = clock
          BY <1>3, Zenon DEF bumpRate, Late
    <2>1. now = clock /\ now \in Seconds /\ now # 0 /\ now \in Int /\ anchor <= now
          BY <1>3, <2>0 DEF Readings, RingInd, RingTypeOK
    <2>2. BumpAged(now) = Trailing(now)
      <3>1. CASE anchor = 0
        <4>1. BumpAged(now) = Aged(Zeroes, 0)
              BY <3>1 DEF BumpAged, Since, RingInd
        <4>2. ASSUME NEW i \in Slots PROVE HistAt(now - (W - 1) + i) = 0
              BY <2>1, <3>1 DEF HistAt, RingInd, NothingAfterAnchor
        <4> QED
            BY <4>1, <4>2 DEF Aged, Zeroes, Trailing
      <3>2. CASE anchor # 0
            BY <2>1, <3>2, AgedIsTrailing DEF BumpAged, Since, RingInd, RingTypeOK
      <3> QED
          BY <3>1, <3>2
    <2>3. buckets' \in [Slots -> Nat] /\ hist' \in [Seconds -> Nat]
      <3>1. Trailing(now) \in [Slots -> Nat]
            BY DEF Trailing, HistAt, RingInd, RingTypeOK
      <3>2. [Trailing(now) EXCEPT ![W - 1] = @ + 1] \in [Slots -> Nat]
            BY <3>1
      <3> QED
          BY <1>3, <2>1, <2>2, <3>2, SMTT(20) DEF bumpRate, RingInd, RingTypeOK
    <2>4. RingTypeOK'
          BY <1>3, <2>1, <2>3 DEF bumpRate, RingInd, RingTypeOK
    <2>5. anchor' = now /\ clock' = clock /\ seen' = seen + 1 /\ seen \in Nat
          BY <1>3 DEF bumpRate, RingInd, RingTypeOK
    <2>6. NothingAfterAnchor'
      <3> SUFFICES ASSUME NEW t \in Seconds, t > now PROVE hist'[t] = 0
          BY <1>3 DEF NothingAfterAnchor, bumpRate
      <3>1. hist'[t] = hist[t]
            BY <1>3, <2>1 DEF bumpRate, RingInd, RingTypeOK
      <3> QED
          BY <3>1, <2>1 DEF RingInd, RingTypeOK, NothingAfterAnchor
    <2>7. ExactRing'
      <3> SUFFICES ASSUME NEW i \in Slots
                   PROVE  buckets'[i] = (HistAt(now - (W - 1) + i))'
          BY <1>3 DEF ExactRing, Trailing, bumpRate
      <3>1. CASE i = W - 1
            BY <1>3, <2>1, <2>2, <3>1 DEF bumpRate, Trailing, HistAt, RingInd, RingTypeOK
      <3>2. CASE i # W - 1
            BY <1>3, <2>1, <2>2, <3>2 DEF bumpRate, Trailing, HistAt, RingInd, RingTypeOK
      <3> QED
          BY <3>1, <3>2
    <2> QED
        BY <1>3, <2>1, <2>4, <2>5, <2>6, <2>7 DEF RingInd, bumpRate
  <1>4. ASSUME NEW now \in Readings, rateSnapshot(now)
        PROVE  RingInd' /\ rate' = exact'
    <2>0. now = clock
          BY <1>4, Zenon DEF rateSnapshot, Late
    <2>1. now = clock /\ now \in Seconds /\ now \in Int /\ anchor <= now
          BY <1>4, <2>0 DEF Readings, RingInd, RingTypeOK
    <2>2. CASE anchor = 0
          BY <1>4, <2>2 DEF rateSnapshot, WindowCount, RingInd, RingTypeOK,
             NothingAfterAnchor, ExactRing
    <2>3. CASE anchor # 0
      <3>1. SnapshotAged(now) = Trailing(now)
        <4>1. CASE now = anchor
              BY <4>1, <2>1, <2>3 DEF SnapshotAged, RingInd, ExactRing,
                 Trailing, RingTypeOK
        <4>2. CASE now # anchor
              BY <4>2, <2>1, <2>3, AgedIsTrailing DEF SnapshotAged, RingInd, RingTypeOK
        <4> QED
            BY <4>1, <4>2
      <3>2. buckets' = Trailing(now) /\ anchor' = now /\ UNCHANGED <<hist, seen>>
            BY <1>4, <2>3, <3>1 DEF rateSnapshot
      <3>3. rate' = exact'
            BY <1>4, <2>1, <2>3, <3>2 DEF rateSnapshot, WindowCount, RingInd
      <3>4. buckets' \in [Slots -> Nat]
            BY <3>2 DEF Trailing, HistAt, RingInd, RingTypeOK
      <3>6. RingTypeOK'
            BY <1>4, <2>1, <3>2, <3>4 DEF rateSnapshot, RingInd, RingTypeOK
      <3>7. NothingAfterAnchor' /\ ExactRing'
            BY <2>1, <3>2 DEF NothingAfterAnchor, ExactRing, Trailing,
               HistAt, RingInd, RingTypeOK
      <3> QED
          BY <1>4, <2>1, <2>3, <3>2, <3>3, <3>6, <3>7 DEF RingInd, rateSnapshot
    <2> QED
        BY <2>2, <2>3
  <1> QED
      BY <1>1, <1>2, <1>3, <1>4 DEF Next

LEMMA RingInvariant == Spec => []RateInd
  <1>1. RateInd /\ [Next]_vars => RateInd'
    <2>1. [Next]_vars /\ lagged => lagged'
          BY DEF Next, Tick, bumpRate, rateSnapshot, Late, vars
    <2> QED
        BY <2>1, StepInd DEF RateInd
  <1> QED
      BY <1>1, InitInd, PTL DEF Spec

\* Slot i of the ring holds the events of the second it stands for.
THEOREM RingIsExact == Spec => []RingMatchesHistory
  <1>1. RateInd => RingMatchesHistory
        BY DEF RingInd, RateInd, RingMatchesHistory
  <1> QED
      BY <1>1, RingInvariant, PTL

\* The rate reported is the number of events of the trailing window.
THEOREM RateIsExact == Spec => []RateIsTrailing
  <1>1. RateInd => RateIsTrailing
        BY DEF RateInd, RateIsTrailing
  <1> QED
      BY <1>1, RingInvariant, PTL

-----------------------------------------------------------------------------
(* The sum of the buckets, by induction over the number of them.           *)

\* Every non-empty set of numbers has a least member: the order is well-founded.
LEMMA LeastNat ==
    ASSUME NEW T \in SUBSET Nat, T # {}
    PROVE  \E n \in T : \A m \in T : n <= m
  <1> DEFINE R == OpToRel(<, Nat)
  <1>1. IsWellFoundedOn(R, Nat)
        BY NatLessThanWellFounded
  <1>2. \A x \in Nat, y \in Nat : x < y => <<x, y>> \in R
        BY DEF OpToRel
  <1> HIDE DEF R
  <1>3. PICK n \in T : \A y \in T : <<y, n>> \notin R
        BY <1>1, WFMin, Zenon
  <1>4. ASSUME NEW m \in T PROVE n <= m
    <2>1. m \in Nat /\ n \in Nat
          OBVIOUS
    <2>2. ~ (m < n)
          BY <1>2, <1>3, <2>1, Zenon
    <2> QED
        BY <2>1, <2>2
  <1> QED
      BY <1>4

\* Induction, over a set instead of a predicate.
LEMMA NatInduct ==
    ASSUME NEW T \in SUBSET Nat, 0 \in T, \A n \in Nat : n \in T => n + 1 \in T
    PROVE  T = Nat
  <1> SUFFICES ASSUME Nat \ T # {} PROVE FALSE
      OBVIOUS
  <1>1. PICK n \in Nat \ T : \A m \in Nat \ T : n <= m
        BY LeastNat
  <1>2. n # 0 /\ n - 1 \in Nat
        BY <1>1
  <1>3. n - 1 \in T
        BY <1>1, <1>2
  <1> QED
      BY <1>1, <1>2, <1>3

\* f holds the sums of the first buckets of b: f[m] is the sum of the first m.
PrefixSum(b, n, f) ==
    f = [m \in 0 .. n |-> IF m = 0 THEN 0 ELSE f[m - 1] + b[m - 1]]

\* The function that the definition of sum in Total describes exists, one entry
\* after the other.
LEMMA PrefixSumExists ==
    ASSUME NEW b, NEW n \in Nat
    PROVE  \E f : PrefixSum(b, n, f)
  <1> DEFINE T == {k \in Nat : \E f : PrefixSum(b, k, f)}
  <1>1. PrefixSum(b, 0, [m \in 0 .. 0 |-> 0])
        BY DEF PrefixSum
  <1>2. ASSUME NEW k \in Nat, k \in T PROVE k + 1 \in T
    <2>1. PICK f : PrefixSum(b, k, f)
          BY <1>2
    <2> DEFINE g == [m \in 0 .. k + 1 |->
                        IF m = k + 1 THEN f[k] + b[k] ELSE f[m]]
    <2>2. ASSUME NEW m \in 0 .. k + 1
          PROVE  g[m] = IF m = 0 THEN 0 ELSE g[m - 1] + b[m - 1]
      <3>1. CASE m = k + 1
        <4>1. m - 1 = k /\ k \in 0 .. k + 1 /\ k # k + 1 /\ m # 0
              BY <3>1
        <4> QED
            BY <3>1, <4>1
      <3>2. CASE m # k + 1
        <4>1. m \in 0 .. k /\ (m # 0 => m - 1 \in 0 .. k + 1 /\ m - 1 # k + 1)
              BY <3>2
        <4>2. f[m] = IF m = 0 THEN 0 ELSE f[m - 1] + b[m - 1]
              BY <2>1, <4>1 DEF PrefixSum
        <4> QED
            BY <3>2, <4>1, <4>2
      <3> QED
          BY <3>1, <3>2
    <2>3. g = [m \in 0 .. k + 1 |-> IF m = 0 THEN 0 ELSE g[m - 1] + b[m - 1]]
      <3>1. g = [m \in 0 .. k + 1 |-> g[m]]
            OBVIOUS
      <3> HIDE DEF g
      <3> QED
          BY <2>2, <3>1
    <2>4. PrefixSum(b, k + 1, g)
          BY <2>3 DEF PrefixSum
    <2> QED
        BY <2>4
  <1>3. T = Nat
    <2>1. T \in SUBSET Nat /\ 0 \in T
          BY <1>1
    <2> HIDE DEF T
    <2> QED
        BY <1>2, <2>1, NatInduct
  <1> QED
      BY <1>3

\* Total(b) is the last entry of the prefix sums.
LEMMA TotalIsPrefixSum ==
    ASSUME NEW b
    PROVE  \E f : PrefixSum(b, W, f) /\ Total(b) = f[W]
  <1> DEFINE P(f) == f = [m \in 0 .. W |-> IF m = 0 THEN 0 ELSE f[m - 1] + b[m - 1]]
  <1> DEFINE s == CHOOSE f : P(f)
  <1>1. \E f : P(f)
        BY PrefixSumExists, RateAssumption DEF PrefixSum, RateAssumption
  <1>2. P(s)
    <2> HIDE DEF P
    <2> QED
        BY <1>1, Zenon
  <1>3. Total(b) = s[W]
        BY DEF Total
  <1> QED
      BY <1>2, <1>3 DEF PrefixSum

Counts == [Slots -> Nat]

\* What the loop of rateSnapshot does in each round.
LEMMA PrefixStep ==
    ASSUME NEW b, NEW f, PrefixSum(b, W, f)
    PROVE  /\ f[0] = 0
           /\ \A n \in 1 .. W : f[n] = f[n - 1] + b[n - 1]
  <1> USE RateAssumption DEF RateAssumption
  <1> DEFINE e(m) == IF m = 0 THEN 0 ELSE f[m - 1] + b[m - 1]
  <1>1. f = [m \in 0 .. W |-> e(m)]
        BY DEF PrefixSum
  <1>2. \A n \in 0 .. W : f[n] = e(n)
    <2> HIDE DEF e
    <2> QED
        BY <1>1
  <1> QED
      BY <1>2

\* The prefix sums of counts are counts.
LEMMA PrefixNat ==
    ASSUME NEW b \in Counts, NEW f, PrefixSum(b, W, f)
    PROVE  \A n \in 0 .. W : f[n] \in Nat
  <1> USE RateAssumption DEF RateAssumption
  <1> DEFINE T == {n \in Nat : n <= W => f[n] \in Nat}
  <1>1. 0 \in T
        BY PrefixStep
  <1>2. ASSUME NEW n \in Nat, n \in T PROVE n + 1 \in T
    <2> SUFFICES ASSUME n + 1 <= W PROVE f[n + 1] \in Nat
        OBVIOUS
    <2>1. f[n] \in Nat /\ b[n] \in Nat
          BY <1>2 DEF Counts, Slots
    <2>2. f[n + 1] = f[n] + b[n]
          BY PrefixStep
    <2> QED
        BY <2>1, <2>2
  <1>3. T = Nat
    <2>1. T \in SUBSET Nat
          OBVIOUS
    <2> HIDE DEF T
    <2> QED
        BY <1>1, <1>2, <2>1, NatInduct
  <1> QED
      BY <1>3

\* A sum of counts is a count.
LEMMA TotalNat ==
    ASSUME NEW b \in Counts
    PROVE  Total(b) \in Nat
  BY TotalIsPrefixSum, PrefixNat, RateAssumption DEF RateAssumption

\* An empty ring sums to nothing.
LEMMA TotalZeroes == Total(Zeroes) = 0
  <1> USE RateAssumption DEF RateAssumption
  <1>1. PICK f : PrefixSum(Zeroes, W, f) /\ Total(Zeroes) = f[W]
        BY TotalIsPrefixSum
  <1> DEFINE T == {n \in Nat : n <= W => f[n] = 0}
  <1>2. 0 \in T
        BY <1>1, PrefixStep
  <1>3. ASSUME NEW n \in Nat, n \in T PROVE n + 1 \in T
    <2> SUFFICES ASSUME n + 1 <= W PROVE f[n + 1] = 0
        OBVIOUS
    <2>1. f[n] = 0 /\ Zeroes[n] = 0
          BY <1>3 DEF Zeroes, Slots
    <2>2. f[n + 1] = f[n] + Zeroes[n]
          BY <1>1, PrefixStep
    <2> QED
        BY <2>1, <2>2
  <1>4. T = Nat
    <2>1. T \in SUBSET Nat
          OBVIOUS
    <2> HIDE DEF T
    <2> QED
        BY <1>2, <1>3, <2>1, NatInduct
  <1> QED
      BY <1>1, <1>4

\* An event recorded in the newest bucket counts once.
LEMMA TotalBumped ==
    ASSUME NEW b \in Counts
    PROVE  Total([b EXCEPT ![W - 1] = @ + 1]) = Total(b) + 1
  <1> USE RateAssumption DEF RateAssumption
  <1> DEFINE c == [b EXCEPT ![W - 1] = @ + 1]
  <1>1. PICK f : PrefixSum(b, W, f) /\ Total(b) = f[W]
        BY TotalIsPrefixSum
  <1>2. PICK g : PrefixSum(c, W, g) /\ Total(c) = g[W]
        BY TotalIsPrefixSum
  <1>3. /\ c[W - 1] = b[W - 1] + 1
        /\ \A i \in Slots : i # W - 1 => c[i] = b[i]
        BY DEF Counts, Slots
  <1> HIDE DEF c
  <1> DEFINE T == {n \in Nat : n <= W - 1 => g[n] = f[n]}
  <1>4. 0 \in T
        BY <1>1, <1>2, PrefixStep
  <1>5. ASSUME NEW n \in Nat, n \in T PROVE n + 1 \in T
    <2> SUFFICES ASSUME n + 1 <= W - 1 PROVE g[n + 1] = f[n + 1]
        OBVIOUS
    <2>1. g[n] = f[n] /\ c[n] = b[n]
          BY <1>3, <1>5 DEF Slots
    <2>2. f[n + 1] = f[n] + b[n] /\ g[n + 1] = g[n] + c[n]
          BY <1>1, <1>2, PrefixStep
    <2> QED
        BY <2>1, <2>2
  <1>6. T = Nat
    <2>1. T \in SUBSET Nat
          OBVIOUS
    <2> HIDE DEF T
    <2> QED
        BY <1>4, <1>5, <2>1, NatInduct
  <1>7. g[W - 1] = f[W - 1]
        BY <1>6
  <1>8. f[W] = f[W - 1] + b[W - 1] /\ g[W] = g[W - 1] + c[W - 1]
        BY <1>1, <1>2, PrefixStep
  <1>9. f[W - 1] \in Nat /\ b[W - 1] \in Nat
        BY <1>1, PrefixNat DEF Counts, Slots
  <1>10. Total(c) = Total(b) + 1
         BY <1>1, <1>2, <1>3, <1>7, <1>8, <1>9
  <1> QED
      BY <1>10 DEF c

\* Ageing only drops buckets.
LEMMA TotalAged ==
    ASSUME NEW b \in Counts, NEW d \in Nat
    PROVE  Aged(b, d) \in Counts /\ Total(Aged(b, d)) <= Total(b)
  <1> USE RateAssumption DEF RateAssumption
  <1> DEFINE c == Aged(b, d)
  <1>0. c \in Counts
        BY DEF Counts, Aged
  <1>1. PICK f : PrefixSum(b, W, f) /\ Total(b) = f[W]
        BY TotalIsPrefixSum
  <1>2. PICK g : PrefixSum(c, W, g) /\ Total(c) = g[W]
        BY TotalIsPrefixSum
  <1>3. /\ \A i \in Slots : i + d < W => c[i] = b[i + d]
        /\ \A i \in Slots : i + d >= W => c[i] = 0
        BY DEF Aged, Slots
  <1> HIDE DEF c
  <1>4. /\ \A n \in 0 .. W : f[n] \in Nat
        /\ \A n \in 0 .. W : g[n] \in Nat
        BY <1>0, <1>1, <1>2, PrefixNat
  <1> DEFINE T == {n \in Nat : n <= W =>
                     /\ n + d <= W => g[n] <= f[n + d]
                     /\ n + d >= W => g[n] <= f[W]}
  <1>5. 0 \in T
    <2>1. g[0] = 0
          BY <1>2, PrefixStep
    <2> QED
        BY <2>1, <1>4
  <1>6. ASSUME NEW n \in Nat, n \in T PROVE n + 1 \in T
    <2> SUFFICES ASSUME n + 1 <= W
                 PROVE  /\ n + 1 + d <= W => g[n + 1] <= f[n + 1 + d]
                        /\ n + 1 + d >= W => g[n + 1] <= f[W]
        OBVIOUS
    <2>1. g[n + 1] = g[n] + c[n] /\ g[n] \in Nat
          BY <1>2, <1>4, PrefixStep
    <2>2. CASE n + d < W
      <3>1. c[n] = b[n + d] /\ b[n + d] \in Nat
            BY <1>3, <2>2 DEF Counts, Slots
      <3>2. f[n + 1 + d] = f[n + d] + b[n + d]
        <4> DEFINE k == n + 1 + d
        <4>1. k \in 1 .. W /\ k - 1 = n + d
              BY <2>2
        <4>2. f[k] = f[k - 1] + b[k - 1]
              BY <1>1, <4>1, PrefixStep
        <4> QED
            BY <4>1, <4>2
      <3>3. g[n] <= f[n + d] /\ f[n + d] \in Nat
            BY <1>4, <1>6, <2>2
      <3>4. g[n + 1] <= f[n + 1 + d]
            BY <2>1, <3>1, <3>2, <3>3
      <3> QED
          BY <2>2, <3>4
    <2>3. CASE n + d >= W
      <3>1. c[n] = 0
            BY <1>3, <2>3 DEF Slots
      <3>2. g[n] <= f[W]
            BY <1>6, <2>3
      <3> QED
          BY <2>1, <2>3, <3>1, <3>2
    <2> QED
        BY <2>2, <2>3
  <1>7. T = Nat
    <2>1. T \in SUBSET Nat
          OBVIOUS
    <2> HIDE DEF T
    <2> QED
        BY <1>5, <1>6, <2>1, NatInduct
  <1>8. Total(c) <= Total(b)
        BY <1>1, <1>2, <1>7
  <1> QED
      BY <1>0, <1>8 DEF c

-----------------------------------------------------------------------------
(* Types, and what the ring holds at most.                                 *)

\* Type correctness and what the ring may hold at most, whatever the lag.
TypeInd == RingTypeOK /\ rate \in Nat /\ exact \in Nat /\ Total(buckets) <= seen

\* What the window held is a count.
LEMMA TrailingCounts ==
    ASSUME RingTypeOK, NEW now \in Seconds
    PROVE  WindowCount(now) \in Nat
  <1>1. Trailing(now) \in Counts
        BY DEF Counts, Trailing, HistAt, RingTypeOK
  <1> QED
      BY <1>1, TotalNat DEF WindowCount

LEMMA InitTypeInd == Init => TypeInd
  <1> USE RateAssumption DEF RateAssumption
  <1>1. Init => RingTypeOK
        BY DEF Init, RingTypeOK, Slots, Seconds, Zeroes
  <1> QED
      BY <1>1, TotalZeroes DEF Init, TypeInd

LEMMA StepTypeInd ==
    ASSUME TypeInd, [Next]_vars
    PROVE  TypeInd'
  <1> USE RateAssumption DEF RateAssumption
  <1>1. CASE Tick
        BY <1>1 DEF Tick, TypeInd, RingTypeOK, Total, Seconds
  <1>2. CASE UNCHANGED vars
        BY <1>2 DEF vars, TypeInd, RingTypeOK, Total
  <1>3. ASSUME NEW now \in Readings, bumpRate(now)
        PROVE  TypeInd'
    <2>1. now \in Seconds /\ now <= clock /\ buckets \in Counts /\ seen \in Nat
          BY <1>3 DEF Readings, TypeInd, RingTypeOK, Counts
    <2>2. BumpAged(now) \in Counts /\ Total(BumpAged(now)) <= Total(buckets)
      <3>1. CASE Since(now) < 0
            BY <2>1, <3>1, TotalNat DEF BumpAged
      <3>2. CASE ~ (Since(now) < 0)
        <4>1. Since(now) \in Nat
              BY <2>1, <3>2 DEF Since, TypeInd, RingTypeOK, Seconds
        <4> QED
            BY <2>1, <3>2, <4>1, TotalAged DEF BumpAged
      <3> QED
          BY <3>1, <3>2
    <2> DEFINE aged == BumpAged(now)
    <2>3. buckets' = [aged EXCEPT ![W - 1] = @ + 1]
          BY <1>3 DEF bumpRate
    <2>4. aged \in Counts /\ Total(aged) <= Total(buckets)
          BY <2>2
    <2> HIDE DEF aged
    <2>5. Total([aged EXCEPT ![W - 1] = @ + 1]) = Total(aged) + 1
          BY <2>4, TotalBumped
    <2>6. (Total(buckets))' = Total([aged EXCEPT ![W - 1] = @ + 1])
          BY <2>3 DEF Total
    <2>7. Total(aged) \in Nat /\ Total(buckets) \in Nat
          BY <2>1, <2>4, TotalNat
    <2>8. (Total(buckets) <= seen)'
          BY <1>3, <2>1, <2>4, <2>5, <2>6, <2>7 DEF bumpRate, TypeInd
    <2>9. RingTypeOK'
      <3>1. buckets' \in [Slots -> Nat]
        <4>2. [aged EXCEPT ![W - 1] = @ + 1] \in [Slots -> Nat]
              BY <2>4 DEF Counts, Slots
        <4> QED
            BY <2>3, <4>2
      <3>2. hist' \in [Seconds -> Nat]
            BY <1>3, <2>1 DEF bumpRate, TypeInd, RingTypeOK
      <3> QED
          BY <1>3, <2>1, <3>1, <3>2 DEF bumpRate, TypeInd, RingTypeOK, Seconds
    <2> QED
        BY <1>3, <2>8, <2>9 DEF bumpRate, TypeInd
  <1>4. ASSUME NEW now \in Readings, rateSnapshot(now)
        PROVE  TypeInd'
    <2>1. now \in Seconds /\ now <= clock /\ buckets \in Counts /\ seen \in Nat
          BY <1>4 DEF Readings, TypeInd, RingTypeOK, Counts
    <2>2. exact' \in Nat
          BY <1>4, <2>1, TrailingCounts DEF rateSnapshot, TypeInd
    <2>3. CASE anchor = 0
      <3>1. rate' = 0 /\ UNCHANGED <<clock, buckets, anchor, bumped, seen, hist>>
            BY <1>4, <2>3 DEF rateSnapshot
      <3> QED
          BY <2>2, <3>1 DEF TypeInd, RingTypeOK, Total
    <2>4. CASE anchor # 0
      <3> DEFINE aged == SnapshotAged(now)
      <3>1. aged \in Counts /\ Total(aged) <= Total(buckets)
        <4>1. CASE now - anchor <= 0
              BY <2>1, <4>1, TotalNat DEF SnapshotAged
        <4>2. CASE ~ (now - anchor <= 0)
          <5>1. now - anchor \in Nat
                BY <2>1, <4>2 DEF TypeInd, RingTypeOK, Seconds
          <5> QED
              BY <2>1, <4>2, <5>1, TotalAged DEF SnapshotAged
        <4> QED
            BY <4>1, <4>2
      <3>2. /\ buckets' = aged
            /\ anchor' = now
            /\ rate' = Total(buckets')
            /\ UNCHANGED <<clock, bumped, seen, hist>>
            BY <1>4, <2>4 DEF rateSnapshot
      <3> HIDE DEF aged
      <3>3. Total(aged) \in Nat /\ Total(buckets) \in Nat
            BY <2>1, <3>1, TotalNat
      <3>4. rate' = Total(aged) /\ (Total(buckets))' = Total(aged)
            BY <3>2 DEF Total
      <3>5. RingTypeOK'
            BY <2>1, <3>1, <3>2 DEF TypeInd, RingTypeOK, Counts, Seconds
      <3>6. (Total(buckets) <= seen)'
            BY <2>1, <3>1, <3>2, <3>3, <3>4 DEF TypeInd
      <3> QED
          BY <2>2, <3>3, <3>4, <3>5, <3>6 DEF TypeInd
    <2> QED
        BY <2>3, <2>4
  <1> QED
      BY <1>1, <1>2, <1>3, <1>4 DEF Next

LEMMA TypeInvariant == Spec => []TypeInd
  BY InitTypeInd, StepTypeInd, PTL DEF Spec

\* The variables keep their types: the rate is a count, the anchor a second.
THEOREM RateTypes == Spec => []TypeOK
  <1>1. TypeInd => TypeOK
        BY DEF TypeInd, TypeOK
  <1> QED
      BY <1>1, TypeInvariant, PTL

\* However late the readings are, bumpRate and rateSnapshot keep no more in the
\* ring than the events that came.
THEOREM NoEventCountedTwice == Spec => []NeverOverCounts
  <1>1. TypeInd => NeverOverCounts
        BY DEF TypeInd, NeverOverCounts
  <1> QED
      BY <1>1, TypeInvariant, PTL

\* One more round of the loop is ageing by one second more.
LEMMA AgeOnce ==
    ASSUME NEW b, NEW n \in Nat
    PROVE  Age(Aged(b, n)) = Aged(b, n + 1)
  <1> USE RateAssumption DEF RateAssumption, Slots
  <1> SUFFICES ASSUME NEW i \in Slots
               PROVE  (IF i = W - 1 THEN 0 ELSE Aged(b, n)[i + 1])
                      = (IF i + (n + 1) \in Slots THEN b[i + (n + 1)] ELSE 0)
      BY DEF Age, Aged
  <1>1. CASE i = W - 1
        BY <1>1
  <1>2. CASE i # W - 1
    <2>1. i + 1 \in Slots /\ (i + 1) + n = i + (n + 1)
          BY <1>2
    <2>2. Aged(b, n)[i + 1] = IF (i + 1) + n \in Slots THEN b[(i + 1) + n] ELSE 0
          BY <2>1 DEF Aged
    <2> QED
        BY <1>2, <2>1, <2>2
  <1> QED
      BY <1>1, <1>2

\* So the loop "for i := 0; i < delta" of both functions leaves Aged(b, d).
LEMMA LoopIsAged ==
    ASSUME NEW b \in Counts, NEW d \in Nat
    PROVE  LET loop[n \in 0 .. d] == IF n = 0 THEN b ELSE Age(loop[n - 1])
           IN  loop[d] = Aged(b, d)
  <1> DEFINE P(f) == f = [n \in 0 .. d |-> IF n = 0 THEN b ELSE Age(f[n - 1])]
  <1> DEFINE s == CHOOSE f : P(f)
  <1>0. Aged(b, 0) = b
        BY RateAssumption DEF RateAssumption, Aged, Counts, Slots
  <1>1. \E f : P(f)
    <2> DEFINE g == [n \in 0 .. d |-> Aged(b, n)]
    <2>1. ASSUME NEW n \in 0 .. d
          PROVE  Aged(b, n) = IF n = 0 THEN b ELSE Age(g[n - 1])
      <3>1. CASE n = 0
            BY <1>0, <3>1
      <3>2. CASE n # 0
        <4>1. n - 1 \in Nat /\ n - 1 \in 0 .. d /\ (n - 1) + 1 = n
              BY <3>2
        <4>2. g[n - 1] = Aged(b, n - 1)
              BY <4>1
        <4>3. Age(Aged(b, n - 1)) = Aged(b, (n - 1) + 1)
              BY <4>1, AgeOnce
        <4> HIDE DEF g
        <4> QED
            BY <3>2, <4>1, <4>2, <4>3
      <3> QED
          BY <3>1, <3>2
    <2>2. P(g)
          BY <2>1
    <2> QED
        BY <2>2
  <1>2. P(s)
    <2> HIDE DEF P
    <2> QED
        BY <1>1, Zenon
  <1>3. /\ s[0] = b
        /\ \A n \in 1 .. d : s[n] = Age(s[n - 1])
    <2> DEFINE e(n) == IF n = 0 THEN b ELSE Age(s[n - 1])
    <2>1. s = [n \in 0 .. d |-> e(n)]
          BY <1>2
    <2> HIDE DEF s
    <2>2. \A n \in 0 .. d : s[n] = e(n)
      <3> HIDE DEF e
      <3> QED
          BY <2>1
    <2> QED
        BY <2>2
  <1> HIDE DEF s
  <1> DEFINE T == {n \in Nat : n <= d => s[n] = Aged(b, n)}
  <1>4. 0 \in T
        BY <1>0, <1>3
  <1>5. ASSUME NEW n \in Nat, n \in T PROVE n + 1 \in T
        BY <1>3, <1>5, AgeOnce
  <1>6. T = Nat
    <2>1. T \in SUBSET Nat
          OBVIOUS
    <2> HIDE DEF T
    <2> QED
        BY <1>4, <1>5, <2>1, NatInduct
  <1>7. s[d] = Aged(b, d)
        BY <1>6
  <1> QED
      BY <1>7 DEF s

\* Ageing bucket by bucket and ageing at once agree in every state.
THEOREM AgeingAtOnce == Spec => []AgedIsIteratedAge
  <1>1. TypeInd => AgedIsIteratedAge
    <2> SUFFICES ASSUME TypeInd, NEW d \in 0 .. W
                 PROVE  LET loop[n \in 0 .. d] ==
                              IF n = 0 THEN buckets ELSE Age(loop[n - 1])
                        IN  loop[d] = Aged(buckets, d)
        BY DEF AgedIsIteratedAge
    <2>1. buckets \in Counts /\ d \in Nat
          BY RateAssumption DEF RateAssumption, TypeInd, RingTypeOK, Counts
    <2> QED
        BY <2>1, LoopIsAged
  <1> QED
      BY <1>1, TypeInvariant, PTL
=============================================================================
