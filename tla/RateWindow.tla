------------------------------ MODULE RateWindow ------------------------------
(***************************************************************************)
(* The events-per-second ring of the broker (web/broker/broker.go:48-50,   *)
(* 160-211): W buckets of one second, the last of which belongs to the     *)
(* second rateAnchor.  Events bump it and stats snapshots advance it, both *)
(* under rateMu, at times read from the wall clock before the lock is      *)
(* taken, so a call can come with a time slightly behind the anchor.       *)
(***************************************************************************)
EXTENDS Integers

CONSTANTS
    W,          \* rateWindowSeconds
    LastSecond, \* the clock stops here
    MaxEvents,  \* events recorded
    MaxLag      \* how far a clock reading may lag behind the clock when used

ASSUME RateAssumption ==
    /\ W \in Nat \ {0}
    /\ LastSecond \in Nat \ {0}
    /\ MaxEvents \in Nat
    /\ MaxLag \in Nat

VARIABLES
    clock,    \* time.Now().Unix(), never 0
    buckets,  \* rateBuckets, oldest first
    anchor,   \* rateAnchor, 0 when unset
    bumped,   \* the reading of the last bump (one goroutine bumps)
    seen,     \* events recorded so far
    rate,     \* what the last rateSnapshot returned
    exact,    \* history: what the window held then
    hist,     \* history: hist[t] is the number of events recorded for second t
    lagged    \* history: some call used a reading that was behind the clock

vars == <<clock, buckets, anchor, bumped, seen, rate, exact, hist, lagged>>

Slots == 0 .. W - 1

Seconds == 1 .. LastSecond

Zeroes == [i \in Slots |-> 0]

Init ==
    /\ clock = 1
    /\ buckets = Zeroes
    /\ anchor = 0
    /\ bumped = 0
    /\ seen = 0
    /\ rate = 0
    /\ exact = 0
    /\ hist = [t \in Seconds |-> 0]
    /\ lagged = FALSE

-----------------------------------------------------------------------------
\* Broken: the newest bucket is not reset.
AgeKeepsLast(b) == [i \in Slots |-> IF i = W - 1 THEN b[i] ELSE b[i + 1]]

\* One round of the ageing loop: copy(b, b[1:]); b[W-1] = 0.
Age(b) == [i \in Slots |-> IF i = W - 1 THEN 0 ELSE b[i + 1]]

\* Broken: one second too many.
AgedTooFar(b, d) ==
    IF d = 0 THEN b ELSE [i \in Slots |-> IF i + d + 1 \in Slots THEN b[i + d + 1] ELSE 0]

\* Broken: buckets shifted out at the bottom stay at the top.
AgedKeepsTail(b, d) == [i \in Slots |-> IF i + d \in Slots THEN b[i + d] ELSE b[i]]

\* d rounds of it; from W rounds on nothing is left, which is what the code's
\* "delta >= rateWindowSeconds" branch writes.
Aged(b, d) == [i \in Slots |-> IF i + d \in Slots THEN b[i + d] ELSE 0]

\* An unset anchor becomes now.
Since(now) == IF anchor = 0 THEN 0 ELSE now - anchor

Late(now) == lagged' = (lagged \/ now # clock)

\* bumpRate: a time behind the anchor ages nothing (delta = 0).
BumpAged(now) ==
    IF Since(now) < 0 THEN buckets ELSE Aged(buckets, Since(now))

\* Broken: the anchor is set to the second after the event's.
bumpRateAhead(now) ==
    /\ seen < MaxEvents
    /\ now >= bumped
    /\ bumped' = now
    /\ seen' = seen + 1
    /\ buckets' = [BumpAged(now) EXCEPT ![W - 1] = @ + 1]
    /\ anchor' = now + 1
    /\ hist' = [hist EXCEPT ![now] = @ + 1]
    /\ Late(now)
    /\ UNCHANGED <<clock, rate, exact>>

bumpRate(now) ==
    /\ seen < MaxEvents
    /\ now >= bumped
    /\ bumped' = now
    /\ seen' = seen + 1
    /\ buckets' = [BumpAged(now) EXCEPT ![W - 1] = @ + 1]
    /\ anchor' = now
    /\ hist' = [hist EXCEPT ![now] = @ + 1]
    /\ Late(now)
    /\ UNCHANGED <<clock, rate, exact>>

\* The sum of the buckets, as the loop at the end of rateSnapshot computes it.
Total(b) ==
    LET sum[n \in 0 .. W] == IF n = 0 THEN 0 ELSE sum[n - 1] + b[n - 1]
    IN  sum[W]

\* The events of the W seconds that end with now, oldest first.
HistAt(t) == IF t \in Seconds THEN hist[t] ELSE 0
Trailing(now) == [i \in Slots |-> HistAt(now - (W - 1) + i)]

\* How many they are; none before the first event.
WindowCount(now) == IF seen = 0 THEN 0 ELSE Total(Trailing(now))

\* Broken: an idle window is not aged before it is summed.
SnapshotUnaged(now) == buckets

SnapshotAged(now) ==
    IF now - anchor <= 0 THEN buckets ELSE Aged(buckets, now - anchor)

rateSnapshot(now) ==
    /\ IF anchor = 0
       THEN rate' = 0 /\ UNCHANGED <<buckets, anchor>>
       ELSE /\ buckets' = SnapshotAged(now)
            /\ anchor' = now
            /\ rate' = Total(buckets')
    /\ exact' = WindowCount(now)
    /\ Late(now)
    /\ UNCHANGED <<clock, bumped, seen, hist>>

Tick ==
    /\ clock < LastSecond
    /\ clock' = clock + 1
    /\ UNCHANGED <<buckets, anchor, bumped, seen, rate, exact, hist, lagged>>

\* A caller uses the time it read before it got the lock.
Readings == {t \in Seconds : t <= clock /\ clock - t <= MaxLag}

Next ==
    \/ Tick
    \/ \E now \in Readings : bumpRate(now) \/ rateSnapshot(now)

Spec == Init /\ [][Next]_vars

-----------------------------------------------------------------------------
(* Properties.                                                             *)

\* The variables have the types the Go declarations give them.
RingTypeOK ==
    /\ clock \in Seconds
    /\ buckets \in [Slots -> Nat]
    /\ anchor \in 0 .. LastSecond
    /\ bumped \in 0 .. clock
    /\ seen \in Nat
    /\ hist \in [Seconds -> Nat]

TypeOK == RingTypeOK /\ rate \in Nat /\ exact \in Nat

\* Slot i holds exactly the events of the second it stands for: no event is
\* aged out early, kept late, or counted in a neighbour's second.
ExactRing == \A i \in Slots : anchor # 0 => buckets[i] = Trailing(anchor)[i]

\* It does as long as every call came with a current reading: a single late one
\* moves the anchor back, and the next call ages every bucket once too often.
RingMatchesHistory == ~lagged => ExactRing

\* What rateSnapshot returns is the number of "events received in the trailing
\* rateWindowSeconds" (broker.go:186), under the same condition.
RateIsTrailing == ~lagged => rate = exact

\* Late readings lose events, or shift them into earlier seconds, but the ring
\* never counts an event twice nor one that never came.
NeverOverCounts == Total(buckets) <= seen

\* Ageing by the loop and ageing at once are the same thing.
AgedIsIteratedAge ==
    \A d \in 0 .. W :
        LET loop[n \in 0 .. d] == IF n = 0 THEN buckets ELSE Age(loop[n - 1])
        IN  loop[d] = Aged(buckets, d)
=============================================================================
