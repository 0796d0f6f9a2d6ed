------------------------------ MODULE BrokerProofs ------------------------------
(* The slots of HandleSSE, the gap between a tab's first stats frame and its  *)
(* stream, and the sums of the stats frames, for any number of requests,      *)
(* slots, event types, events and frames.                                     *)
EXTENDS Broker, FiniteSetTheorems, TLAPS

-----------------------------------------------------------------------------
(* Slots.  The limit bounds the requests between Admit and Leave, a set that *)
(* Streaming is part of; a refused request holds a slot for a while, too.    *)

Seated == {t \in Tabs : tab[t] \in {"admitted", "snapshot", "serving"}}

SlotInv ==
    /\ tab \in [Tabs -> TabStages]
    /\ clients = {t \in Tabs : tab[t] \in {"snapshot", "serving", "leaving"}}
    /\ IsFiniteSet(Holding)
    /\ NoSlotLeak
    /\ Cardinality(Seated) <= MaxClients

\* The seated hold their slots.
LEMMA SeatedHold ==
    ASSUME SlotInv
    PROVE  /\ Seated \subseteq Holding
           /\ IsFiniteSet(Seated)
           /\ Cardinality(Seated) \in Nat
           /\ Cardinality(Holding) \in Nat
           /\ Cardinality(Seated) <= Cardinality(Holding)
  <1>1. Seated \subseteq Holding
        BY DEF Seated, Holding
  <1>2. IsFiniteSet(Holding)
        BY DEF SlotInv
  <1> QED
      BY <1>1, <1>2, FS_Subset, FS_CardinalityType

\* A request that takes a seat, keeps it, or gives one up.
LEMMA SlotsUnmoved ==
    ASSUME SlotInv, NEW t \in Tabs, NEW s \in {"snapshot", "serving"},
           tab[t] \in {"admitted", "snapshot", "serving"},
           tab' = [tab EXCEPT ![t] = s]
    PROVE  Holding' = Holding /\ Seated' = Seated
  BY DEF SlotInv, Holding, Seated

LEMMA InitSlots == Init => SlotInv
  <1> SUFFICES ASSUME Init PROVE SlotInv
      OBVIOUS
  <1>1. Holding = {} /\ Seated = {}
        BY DEF Init, Holding, Seated
  <1>2. IsFiniteSet({}) /\ Cardinality({}) = 0
        BY FS_EmptySet
  <1> QED
      BY <1>1, <1>2, BrokerAssumption
      DEF BrokerAssumption, Init, SlotInv, NoSlotLeak, TabStages

LEMMA SlotStep == SlotInv /\ [Next]_vars => SlotInv'
  <1> SUFFICES ASSUME SlotInv, [Next]_vars PROVE SlotInv'
      OBVIOUS
  <1> USE BrokerAssumption DEF BrokerAssumption, TabStages, Goto, vars, tabVars
  <1>a. /\ Seated \subseteq Holding
        /\ IsFiniteSet(Seated)
        /\ Cardinality(Seated) \in Nat /\ Cardinality(Holding) \in Nat
        /\ Cardinality(Seated) <= Cardinality(Holding)
        BY SeatedHold
  <1>0. ASSUME UNCHANGED <<sseCount, tab, clients>> PROVE SlotInv'
        BY <1>0 DEF SlotInv, Holding, Seated, NoSlotLeak
  <1>1. ASSUME NEW t \in Tabs, Admit(t) PROVE SlotInv'
    <2>1. t \notin Holding /\ t \notin Seated
          BY <1>1 DEF Admit, Holding, Seated
    <2>2. Holding' = Holding \cup {t}
          BY <1>1 DEF Admit, Holding, SlotInv
    <2>3. IsFiniteSet(Holding') /\ Cardinality(Holding') = Cardinality(Holding) + 1
          BY <2>1, <2>2, FS_AddElement DEF SlotInv
    <2>4. CASE sseCount' > MaxClients
      <3>1. Seated' = Seated
            BY <1>1, <2>4 DEF Admit, Seated, SlotInv
      <3> QED
          BY <1>1, <2>3, <2>4, <3>1 DEF Admit, SlotInv, NoSlotLeak
    <2>5. CASE ~(sseCount' > MaxClients)
      <3>1. Seated' = Seated \cup {t}
            BY <1>1, <2>5 DEF Admit, Seated, SlotInv
      <3>2. Cardinality(Seated') = Cardinality(Seated) + 1
            BY <1>a, <2>1, <3>1, FS_AddElement
      <3>3. sseCount' = Cardinality(Holding) + 1 /\ sseCount' <= MaxClients
            BY <1>1, <2>5 DEF Admit, SlotInv, NoSlotLeak
      <3> QED
          BY <1>1, <1>a, <2>3, <2>5, <3>2, <3>3 DEF Admit, SlotInv, NoSlotLeak
    <2> QED
        BY <2>4, <2>5
  <1>2. ASSUME NEW t \in Tabs, Refuse(t) \/ Leave(t) PROVE SlotInv'
    <2>1. t \in Holding /\ sseCount' = sseCount - 1 /\ clients' = clients
          BY <1>2 DEF Refuse, Leave, Holding
    <2>2. Holding' = Holding \ {t} /\ Seated' = Seated \ {t}
          BY <1>2 DEF Refuse, Leave, Holding, Seated, SlotInv
    <2>3. IsFiniteSet(Holding') /\ Cardinality(Holding') = Cardinality(Holding) - 1
          BY <2>1, <2>2, FS_RemoveElement DEF SlotInv
    <2>4. Cardinality(Seated') <= MaxClients
          BY <1>a, <2>2, FS_RemoveElement DEF SlotInv
    <2> QED
        BY <1>2, <2>1, <2>3, <2>4 DEF Refuse, Leave, SlotInv, NoSlotLeak
  <1>3. ASSUME NEW t \in Tabs, Register(t) \/ FirstFrame(t) PROVE SlotInv'
    <2>1. Holding' = Holding /\ Seated' = Seated
      <3>1. CASE Register(t)
            BY <1>3, <3>1, SlotsUnmoved DEF Register
      <3>2. CASE FirstFrame(t)
            BY <1>3, <3>2, SlotsUnmoved DEF FirstFrame
      <3> QED
          BY <1>3, <3>1, <3>2
    <2> QED
        BY <1>3, <2>1 DEF Register, FirstFrame, SlotInv, NoSlotLeak
  <1>4. ASSUME NEW t \in Tabs, Unregister(t) PROVE SlotInv'
    <2>1. Holding' = Holding /\ Seated' = Seated
          BY <1>4 DEF Unregister, Holding, Seated, SlotInv
    <2> QED
        BY <1>4, <2>1 DEF Unregister, SlotInv, NoSlotLeak
  <1>5. ASSUME NEW t \in Tabs, Serve(t) PROVE SlotInv'
        BY <1>0, <1>5 DEF Serve
  <1>6. ASSUME NEW a, ReadCount(a) \/ ReadTotal(a) PROVE SlotInv'
        BY <1>0, <1>6 DEF ReadCount, ReadTotal
  <1>7. CASE CountTotal \/ CountKind \/ BroadcastEvent \/ Flip
        BY <1>0, <1>7 DEF CountTotal, CountKind, BroadcastEvent, Flip
  <1>8. CASE Probe \/ PushStats
        BY <1>0, <1>8 DEF Probe, PushStats
  <1> QED
      BY <1>0, <1>1, <1>2, <1>3, <1>4, <1>5, <1>6, <1>7, <1>8 DEF Next, TabStep, LoopStep

LEMMA SlotInvariant == SafetySpec => []SlotInv
  BY InitSlots, SlotStep, PTL DEF SafetySpec

\* Every path out of HandleSSE gives its slot back exactly once (broker.go:64-96),
\* for any number of requests, finite or not.
THEOREM SlotsComeBack == SafetySpec => []NoSlotLeak
  <1>1. SlotInv => NoSlotLeak
        BY DEF SlotInv
  <1> QED
      BY <1>1, SlotInvariant, PTL

\* At most maxClients requests stream, however many come and go (broker.go:65).
THEOREM CapacityIsHeld == SafetySpec => []CapacityHeld
  <1>1. ASSUME SlotInv PROVE CapacityHeld
    <2>1. Streaming \subseteq Seated
          BY DEF Streaming, Seated
    <2>2. IsFiniteSet(Seated) /\ Cardinality(Seated) <= MaxClients
          BY <1>1, SeatedHold DEF SlotInv
    <2>3. Cardinality(Streaming) <= Cardinality(Seated)
          BY <2>1, <2>2, FS_Subset
    <2>4. /\ IsFiniteSet(Streaming)
          /\ Cardinality(Streaming) \in Nat /\ Cardinality(Seated) \in Nat
          BY <2>1, <2>2, FS_Subset, FS_CardinalityType
    <2>5. clients \ Streaming \subseteq {t \in Tabs : tab[t] = "leaving"}
          BY <1>1 DEF SlotInv, Streaming
    <2> QED
        BY <2>2, <2>3, <2>4, <2>5, BrokerAssumption DEF CapacityHeld, BrokerAssumption
  <1> QED
      BY <1>1, SlotInvariant, PTL

-----------------------------------------------------------------------------
(* Data.  What the counters, the snapshots and the channels contain.         *)

DataInv ==
    /\ frames \in [Tabs -> Seq(Frames)]
    /\ \A t \in Tabs : Len(frames[t]) <= Capacity
    /\ total \in 0 .. MaxEvents
    /\ proc \in {"idle", "counting", "broadcasting"}
    /\ proc # "idle" => total > 0
    /\ loop \in {"idle", "snapshot"}
    /\ up \in BOOLEAN
    /\ count \in [Kinds -> Nat]
    /\ unread \in [Actors -> SUBSET Kinds]
    /\ snap \in [Actors -> [sum : Nat, total : 0 .. total, up : BOOLEAN, done : BOOLEAN]]
    /\ base \in [Tabs -> 0 .. total]
    /\ got \in [Tabs -> SUBSET Nat] /\ dropped \in [Tabs -> SUBSET Nat]

\* A broadcast appends to the channels with room and leaves the others alone.
LEMMA BroadcastKeepsFrames ==
    ASSUME DataInv, NEW f \in Frames, broadcast(f)
    PROVE  /\ frames' \in [Tabs -> Seq(Frames)]
           /\ \A t \in Tabs : Len(frames'[t]) <= Capacity
           /\ \A t \in Tabs : Room(t) => frames'[t] = Append(frames[t], f)
           /\ \A t \in Tabs : ~Room(t) => frames'[t] = frames[t]
  <1> USE BrokerAssumption DEF BrokerAssumption, DataInv, broadcast
  <1>1. ASSUME NEW t \in Tabs
        PROVE  /\ frames'[t] = IF Room(t) THEN Append(frames[t], f) ELSE frames[t]
               /\ frames'[t] \in Seq(Frames)
               /\ Len(frames'[t]) <= Capacity
    <2>1. CASE Room(t)
          BY <2>1 DEF Room
    <2>2. CASE ~Room(t)
          BY <2>2
    <2> QED
        BY <2>1, <2>2
  <1> QED
      BY <1>1

LEMMA InitData == Init => DataInv
  <1> SUFFICES ASSUME Init PROVE DataInv
      OBVIOUS
  <1>1. \A t \in Tabs : frames[t] = <<>> /\ frames[t] \in Seq(Frames) /\ Len(frames[t]) = 0
        BY DEF Init
  <1>2. frames \in [Tabs -> Seq(Frames)]
        BY <1>1 DEF Init
  <1> QED
      BY <1>1, <1>2, BrokerAssumption DEF BrokerAssumption, Init, DataInv, Actors, EmptySnap

LEMMA DataStep == SlotInv /\ DataInv /\ [Next]_vars => DataInv'
  <1> SUFFICES ASSUME SlotInv, DataInv, [Next]_vars PROVE DataInv'
      OBVIOUS
  <1> USE BrokerAssumption
      DEF BrokerAssumption, Goto, Rest, Actors, procVars, loopVars, tabVars, snapVars, vars
  <1>1. ASSUME NEW t \in Tabs, Admit(t) \/ Refuse(t) \/ Leave(t) \/ Unregister(t)
        PROVE  DataInv'
        BY <1>1 DEF DataInv, Admit, Refuse, Leave, Unregister
  <1>2. ASSUME NEW t \in Tabs, Register(t) PROVE DataInv'
        BY <1>2 DEF DataInv, Register
  <1>3. ASSUME NEW t \in Tabs, FirstFrame(t) PROVE DataInv'
        BY <1>3 DEF DataInv, FirstFrame, EmptySnap
  <1>4. ASSUME NEW t \in Tabs, Serve(t) PROVE DataInv'
    <2>1. /\ frames[t] \in Seq(Frames) /\ frames[t] # <<>>
          /\ Head(frames[t]) \in Frames
          /\ Tail(frames[t]) \in Seq(Frames)
          /\ Len(Tail(frames[t])) <= Capacity
          BY <1>4 DEF DataInv, Serve
    <2>2. got' \in [Tabs -> SUBSET Nat]
      <3>1. CASE Head(frames[t]).kind = "event"
        <4>1. Head(frames[t]).n \in Nat
              BY <2>1, <3>1 DEF Frames
        <4>2. got' = [got EXCEPT ![t] = @ \cup {Head(frames[t]).n}]
              BY <1>4, <3>1 DEF Serve
        <4> QED
            BY <4>1, <4>2 DEF DataInv
      <3>2. CASE Head(frames[t]).kind # "event"
            BY <1>4, <3>2 DEF DataInv, Serve
      <3> QED
          BY <3>1, <3>2
    <2>3. frames' \in [Tabs -> Seq(Frames)] /\ \A u \in Tabs : Len(frames'[u]) <= Capacity
          BY <1>4, <2>1 DEF DataInv, Serve
    <2>4. /\ total' = total /\ proc' = proc /\ loop' = loop /\ up' = up
          /\ count' = count /\ unread' = unread /\ snap' = snap /\ base' = base
          /\ dropped' = dropped
          BY <1>4 DEF Serve
    <2> QED
        BY <2>2, <2>3, <2>4 DEF DataInv
  <1>5. ASSUME NEW a \in Actors, ReadCount(a) PROVE DataInv'
    <2>1. PICK k \in unread[a] :
            /\ unread' = [unread EXCEPT ![a] = @ \ {k}]
            /\ snap' = [snap EXCEPT ![a].sum = @ + count[k]]
          BY <1>5 DEF ReadCount
    <2>2. k \in Kinds /\ count[k] \in Nat
          BY DEF DataInv
    <2>3. snap' \in [Actors -> [sum : Nat, total : 0 .. total, up : BOOLEAN, done : BOOLEAN]]
      <3>1. snap[a].sum + count[k] \in Nat
            BY <2>2 DEF DataInv
      <3>2. snap' = [snap EXCEPT ![a] = [@ EXCEPT !.sum = snap[a].sum + count[k]]]
            BY <2>1
      <3> QED
          BY <3>1, <3>2, ZenonT(60) DEF DataInv
    <2>4. unread' \in [Actors -> SUBSET Kinds]
          BY <2>1 DEF DataInv
    <2> QED
        BY <1>5, <2>3, <2>4 DEF DataInv, ReadCount
  <1>6. ASSUME NEW a \in Actors, ReadTotal(a) PROVE DataInv'
        BY <1>6 DEF DataInv, ReadTotal
  <1>7. CASE CountTotal
        BY <1>7 DEF DataInv, CountTotal
  <1>8. CASE CountKind
        BY <1>8 DEF DataInv, CountKind
  <1>9. CASE BroadcastEvent
    <2>1. [kind |-> "event", n |-> total] \in Frames
          BY <1>9 DEF DataInv, BroadcastEvent, Frames
    <2>2. frames' \in [Tabs -> Seq(Frames)] /\ \A t \in Tabs : Len(frames'[t]) <= Capacity
          BY <1>9, <2>1, BroadcastKeepsFrames DEF BroadcastEvent
    <2>3. dropped' \in [Tabs -> SUBSET Nat]
          BY <1>9 DEF DataInv, BroadcastEvent
    <2> QED
        BY <1>9, <2>2, <2>3 DEF DataInv, BroadcastEvent
  <1>10. CASE Probe
        BY <1>10 DEF DataInv, Probe
  <1>11. CASE PushStats
    <2>1. [kind |-> "stats", up |-> snap[StatsLoop].up] \in Frames
          BY DEF DataInv, Frames
    <2>2. frames' \in [Tabs -> Seq(Frames)] /\ \A t \in Tabs : Len(frames'[t]) <= Capacity
          BY <1>11, <2>1, BroadcastKeepsFrames DEF PushStats
    <2> QED
        BY <1>11, <2>2 DEF DataInv, PushStats, EmptySnap
  <1>12. CASE Flip
        BY <1>12 DEF DataInv, Flip
  <1>13. CASE UNCHANGED vars
        BY <1>13 DEF DataInv
  <1> QED
      BY <1>1, <1>2, <1>3, <1>4, <1>5, <1>6, <1>7, <1>8, <1>9, <1>10, <1>11, <1>12, <1>13
      DEF Next, TabStep, LoopStep

LEMMA DataInvariant == SafetySpec => [](SlotInv /\ DataInv)
  BY InitSlots, SlotStep, InitData, DataStep, PTL DEF SafetySpec

\* The broker keeps its types, and no channel holds more than it has room for,
\* for any number of requests, events and flips.
THEOREM BrokerTypeCorrect == SafetySpec => []TypeOK
  <1>1. ASSUME SlotInv, DataInv PROVE TypeOK
    <2>1. sseCount \in Nat
          BY <1>1, SeatedHold DEF SlotInv, NoSlotLeak
    <2>2. clients \subseteq Tabs
          BY <1>1 DEF SlotInv
    <2> QED
        BY <1>1, <2>1, <2>2 DEF TypeOK, SlotInv, DataInv
  <1> QED
      BY <1>1, DataInvariant, PTL

-----------------------------------------------------------------------------
(* The gap.  From the moment a snapshot has read total, every later event    *)
(* must be on its way, received or refused: the promise begins with the      *)
(* total of the snapshot and is handed over to the total of the first frame. *)

Queued(t, n) == \E i \in DOMAIN frames[t] : frames[t][i] = [kind |-> "event", n |-> n]

Covered(t, n) ==
    \/ n = total /\ proc # "idle"
    \/ n \in got[t] \cup dropped[t]
    \/ Queued(t, n)

CoveredAfter(t, b) == \A n \in b + 1 .. total : Covered(t, n)

GapInv ==
    \A t \in Tabs :
        /\ snap[t].done => tab[t] = "snapshot" /\ CoveredAfter(t, snap[t].total)
        /\ tab[t] = "serving" => CoveredAfter(t, base[t])

\* While a tab is in the map, events on their way to it stay so, and events
\* that begin their way are.
LEMMA CoverKept ==
    ASSUME SlotInv, DataInv, [Next]_vars,
           NEW t \in Tabs, tab[t] \in {"snapshot", "serving"},
           NEW n \in 1 .. total', n > total \/ Covered(t, n)
    PROVE  Covered(t, n)'
  <1> USE BrokerAssumption
      DEF BrokerAssumption, Goto, Rest, procVars, loopVars, tabVars, snapVars, vars
  <1>a. total \in Nat /\ total' \in Nat /\ frames[t] \in Seq(Frames)
        BY DataStep DEF DataInv
  <1>0. ASSUME total' = total, proc' = proc, got'[t] = got[t], dropped'[t] = dropped[t],
               Queued(t, n) => Queued(t, n)'
        PROVE  Covered(t, n)'
        BY <1>a, <1>0 DEF Covered
  <1>1. ASSUME NEW u \in Tabs,
               Admit(u) \/ Refuse(u) \/ Leave(u) \/ Unregister(u) \/ Register(u) \/ FirstFrame(u)
        PROVE  Covered(t, n)'
        BY <1>0, <1>1
        DEF Admit, Refuse, Leave, Unregister, Register, FirstFrame, Queued
  <1>2. ASSUME NEW u \in Tabs, Serve(u) PROVE Covered(t, n)'
    <2>1. CASE u # t
          BY <1>0, <1>2, <2>1 DEF DataInv, Serve, Queued
    <2>2. CASE u = t
      <3>1. /\ frames'[t] = Tail(frames[t]) /\ frames[t] # <<>>
            /\ UNCHANGED <<total, proc, dropped>>
            /\ got[t] \subseteq got'[t]
            BY <1>2, <2>2 DEF DataInv, Serve
      <3>2. CASE Queued(t, n)
        <4>1. PICK i \in DOMAIN frames[t] : frames[t][i] = [kind |-> "event", n |-> n]
              BY <3>2 DEF Queued
        <4>2. CASE i = 1
          <5>1. Head(frames[t]).kind = "event" /\ Head(frames[t]).n = n
                BY <1>a, <3>1, <4>1, <4>2
          <5>2. got'[t] = got[t] \cup {n}
                BY <1>2, <2>2, <5>1 DEF DataInv, Serve
          <5> QED
              BY <5>2 DEF Covered
        <4>3. CASE i # 1
          <5>1. i - 1 \in DOMAIN frames'[t] /\ frames'[t][i - 1] = frames[t][i]
                BY <1>a, <3>1, <4>3, SMTT(20)
          <5> QED
              BY <4>1, <5>1 DEF Covered, Queued
        <4> QED
            BY <4>2, <4>3
      <3>3. CASE ~Queued(t, n)
            BY <1>a, <3>1, <3>3 DEF Covered
      <3> QED
          BY <3>2, <3>3
    <2> QED
        BY <2>1, <2>2
  <1>3. ASSUME NEW a, ReadCount(a) \/ ReadTotal(a) PROVE Covered(t, n)'
        BY <1>0, <1>3 DEF ReadCount, ReadTotal, Queued
  <1>4. CASE CountTotal
    <2>1. /\ proc = "idle" /\ proc' = "counting" /\ total' = total + 1
          /\ UNCHANGED <<got, dropped, frames>>
          BY <1>4 DEF CountTotal
    <2> QED
        BY <1>a, <2>1 DEF Covered, Queued
  <1>5. CASE CountKind
    <2>1. proc' # "idle" /\ proc # "idle" /\ UNCHANGED <<total, got, dropped, frames>>
          BY <1>5 DEF CountKind
    <2> QED
        BY <1>a, <2>1 DEF Covered, Queued
  <1>6. ASSUME NEW f \in Frames, broadcast(f), Queued(t, n) PROVE Queued(t, n)'
    <2>1. PICK i \in DOMAIN frames[t] : frames[t][i] = [kind |-> "event", n |-> n]
          BY <1>6 DEF Queued
    <2>2. i \in DOMAIN frames'[t] /\ frames'[t][i] = frames[t][i]
      <3>1. frames'[t] = frames[t] \/ frames'[t] = Append(frames[t], f)
            BY <1>6, BroadcastKeepsFrames
      <3>2. i \in 1 .. Len(frames[t])
            BY <1>a, <2>1
      <3> QED
          BY <1>a, <3>1, <3>2
    <2> QED
        BY <2>1, <2>2 DEF Queued
  <1>7. CASE BroadcastEvent
    <2> DEFINE f == [kind |-> "event", n |-> total]
    <2>1. /\ f \in Frames /\ broadcast(f)
          /\ UNCHANGED <<total, got>>
          BY <1>7 DEF DataInv, BroadcastEvent, Frames
    <2>2. dropped'[t] = IF t \in clients /\ ~Room(t)
                        THEN dropped[t] \cup {total} ELSE dropped[t]
          BY <1>7 DEF BroadcastEvent
    <2>3. CASE n = total
      <3>1. t \in clients
            BY DEF SlotInv
      <3>2. CASE Room(t)
        <4>1. frames'[t] = Append(frames[t], f)
              BY <2>1, <3>2, BroadcastKeepsFrames
        <4>2. /\ Len(frames[t]) + 1 \in DOMAIN frames'[t]
              /\ frames'[t][Len(frames[t]) + 1] = f
              BY <1>a, <4>1
        <4> QED
            BY <2>3, <4>2 DEF Covered, Queued
      <3>3. CASE ~Room(t)
            BY <2>2, <2>3, <3>1, <3>3 DEF Covered
      <3> QED
          BY <3>2, <3>3
    <2>4. CASE n # total
      <3>1. n \in got[t] \cup dropped[t] \/ Queued(t, n)
            BY <1>a, <2>1, <2>4 DEF Covered
      <3> QED
          BY <1>6, <2>1, <2>2, <3>1 DEF Covered
    <2> QED
        BY <2>3, <2>4
  <1>8. CASE Probe \/ Flip
        BY <1>0, <1>8 DEF Probe, Flip, Queued
  <1>9. CASE PushStats
    <2>1. /\ [kind |-> "stats", up |-> snap[StatsLoop].up] \in Frames
          /\ broadcast([kind |-> "stats", up |-> snap[StatsLoop].up])
          BY <1>9 DEF DataInv, PushStats, Frames, Actors
    <2> QED
        BY <1>0, <1>6, <1>9, <2>1 DEF PushStats
  <1>10. CASE UNCHANGED vars
        BY <1>0, <1>10 DEF Queued
  <1> QED
      BY <1>1, <1>2, <1>3, <1>4, <1>5, <1>7, <1>8, <1>9, <1>10 DEF Next, TabStep, LoopStep

\* Where a promise comes from: it begins with the reading of total, and passes
\* from the snapshot to the first frame.
LEMMA PromiseMoves ==
    ASSUME SlotInv, DataInv, GapInv, [Next]_vars, NEW t \in Tabs
    PROVE  /\ snap'[t].done =>
                 /\ tab'[t] = "snapshot"
                 /\ \/ snap'[t].total = total'
                    \/ /\ snap[t].done /\ tab[t] = "snapshot"
                       /\ snap'[t].total = snap[t].total
           /\ tab'[t] = "serving" =>
                 \/ tab[t] = "serving" /\ base'[t] = base[t]
                 \/ snap[t].done /\ tab[t] = "snapshot" /\ base'[t] = snap[t].total
  <1> USE BrokerAssumption
      DEF BrokerAssumption, SlotInv, DataInv, GapInv, Goto, Rest, Actors, procVars, loopVars,
          tabVars, snapVars, vars
  <1>1. ASSUME NEW u \in Tabs, Admit(u) \/ Refuse(u) \/ Leave(u) \/ Unregister(u) \/ Register(u)
        PROVE  /\ snap' = snap /\ base' = base
               /\ snap[t].done => tab'[t] = "snapshot"
               /\ tab'[t] = "serving" => tab[t] = "serving"
        BY <1>1 DEF Admit, Refuse, Leave, Unregister, Register
  <1>2. ASSUME NEW u \in Tabs, FirstFrame(u)
        PROVE  /\ u # t => snap'[t] = snap[t] /\ base'[t] = base[t] /\ tab'[t] = tab[t]
               /\ u = t => ~snap'[t].done /\ snap[t].done /\ base'[t] = snap[t].total
               /\ tab[u] = "snapshot"
        BY <1>2 DEF FirstFrame, EmptySnap
  <1>3. ASSUME NEW u \in Tabs, Serve(u) PROVE UNCHANGED <<snap, base, tab, total>>
        BY <1>3 DEF Serve
  <1>4. ASSUME NEW a \in Actors, ReadCount(a)
        PROVE  /\ UNCHANGED <<base, tab, total>>
               /\ snap'[t].done = snap[t].done /\ snap'[t].total = snap[t].total
        BY <1>4, SMTT(20) DEF ReadCount
  <1>5. ASSUME NEW a \in Actors, ReadTotal(a)
        PROVE  /\ UNCHANGED <<base, tab, total>>
               /\ a # t => snap'[t] = snap[t]
               /\ a = t => snap'[t].total = total /\ tab[t] = "snapshot"
        BY <1>5 DEF ReadTotal, Snapshotting
  <1>6. CASE CountTotal \/ CountKind \/ BroadcastEvent \/ Probe \/ Flip \/ UNCHANGED vars
    <2>1. UNCHANGED <<snap, base, tab>>
          BY <1>6 DEF CountTotal, CountKind, BroadcastEvent, Probe, Flip
    <2> QED
        BY <2>1
  <1>7. CASE PushStats
    <2>1. UNCHANGED <<base, tab>> /\ snap'[t] = snap[t]
          BY <1>7 DEF PushStats
    <2> QED
        BY <2>1
  <1> QED
      BY <1>1, <1>2, <1>3, <1>4, <1>5, <1>6, <1>7 DEF Next, TabStep, LoopStep

LEMMA GapStep == SlotInv /\ DataInv /\ GapInv /\ [Next]_vars => GapInv'
  <1> SUFFICES ASSUME SlotInv, DataInv, GapInv, [Next]_vars, NEW t \in Tabs
               PROVE  /\ (snap[t].done)' => /\ (tab[t] = "snapshot")'
                                            /\ CoveredAfter(t, snap[t].total)'
                      /\ (tab[t] = "serving")' => CoveredAfter(t, base[t])'
      BY DEF GapInv
  <1>a. /\ total \in Nat /\ total' \in Nat
        /\ snap[t].total \in Nat /\ base[t] \in Nat
        BY DataStep DEF DataInv, Actors
  <1>b. \A m \in Nat : m + 1 .. m = {}
        OBVIOUS
  <1>1. ASSUME NEW b \in Nat, CoveredAfter(t, b), tab[t] \in {"snapshot", "serving"}
        PROVE  \A n \in b + 1 .. total' : Covered(t, n)'
    <2> SUFFICES ASSUME NEW n \in b + 1 .. total' PROVE Covered(t, n)'
        OBVIOUS
    <2>1. n \in 1 .. total' /\ (n > total \/ n \in b + 1 .. total)
          BY <1>a
    <2> QED
        BY <1>1, <2>1, CoverKept DEF CoveredAfter
  <1>2. ASSUME snap'[t].done
        PROVE  tab'[t] = "snapshot" /\ CoveredAfter(t, snap[t].total)'
    <2>1. CASE snap'[t].total = total'
      <3>1. tab'[t] = "snapshot"
            BY <1>2, PromiseMoves
      <3>2. CoveredAfter(t, snap[t].total)'
        <4>1. total' + 1 .. total' = {}
              BY <1>a, <1>b
        <4>2. \A n \in snap'[t].total + 1 .. total' : Covered(t, n)'
              BY <2>1, <4>1
        <4> QED
            BY <4>2 DEF CoveredAfter
      <3> QED
          BY <3>1, <3>2
    <2>2. CASE snap[t].done /\ tab[t] = "snapshot" /\ snap'[t].total = snap[t].total
      <3>1. \A n \in snap[t].total + 1 .. total' : Covered(t, n)'
            BY <1>1, <1>a, <2>2 DEF GapInv
      <3>2. CoveredAfter(t, snap[t].total)'
            BY <2>2, <3>1 DEF CoveredAfter
      <3>3. tab'[t] = "snapshot"
            BY <1>2, PromiseMoves
      <3> QED
          BY <3>2, <3>3
    <2> QED
        BY <1>2, <2>1, <2>2, PromiseMoves
  <1>3. ASSUME tab'[t] = "serving" PROVE CoveredAfter(t, base[t])'
    <2>1. CASE tab[t] = "serving" /\ base'[t] = base[t]
          BY <1>1, <1>a, <2>1 DEF CoveredAfter, GapInv
    <2>2. CASE snap[t].done /\ tab[t] = "snapshot" /\ base'[t] = snap[t].total
          BY <1>1, <1>a, <2>2 DEF CoveredAfter, GapInv
    <2> QED
        BY <1>3, <2>1, <2>2, PromiseMoves
  <1> QED
      BY <1>2, <1>3

\* A tab misses no event between its first stats frame and its stream
\* (broker.go:86-102): what the total it was shown leaves out reaches its
\* channel, or finds it full, for any number of tabs and events.
THEOREM NothingIsMissed == SafetySpec => []NoGap
  <1>1. Init => GapInv
        BY DEF Init, GapInv, EmptySnap, Actors
  <1>2. GapInv => NoGap
        BY DEF GapInv, NoGap, CoveredAfter, Covered, Queued
  <1> QED
      BY <1>1, <1>2, GapStep, DataInvariant, PTL DEF SafetySpec

-----------------------------------------------------------------------------
(* The counters.  A snapshot reads them one by one while events arrive, so   *)
(* its sum belongs to no single moment.  It is the size of a set of events   *)
(* all the same: the counters stand for sets of events that do not overlap,  *)
(* and what the snapshot has summed up is part of their union.               *)

\* A snapshot begins empty, and its total is the last counter it reads.
StageInv ==
    \A a \in Actors :
        /\ ~Snapshotting(a) => unread[a] = {} /\ snap[a] = EmptySnap
        /\ snap[a].done => unread[a] = {}

\* E[k] holds the numbers of the events that the counter of k stands for.
Counted(E) ==
    /\ \A k \in Kinds : Cardinality(E[k]) = count[k]
    /\ \A k, l \in Kinds : k # l => E[k] \cap E[l] = {}
    /\ proc = "counting" => \A k \in Kinds : total \notin E[k]

\* R holds those that the snapshot of a has summed up.
Summed(E, a, R) ==
    /\ Cardinality(R) = snap[a].sum
    /\ \A n \in R : \E k \in Kinds : n \in E[k]
    /\ \A k \in unread[a] : R \cap E[k] = {}
    /\ snap[a].done => R \subseteq 1 .. snap[a].total

CountInv ==
    \E E \in [Kinds -> SUBSET (1 .. total)] :
        /\ Counted(E)
        /\ \A a \in Actors : \E R \in SUBSET (1 .. total) : Summed(E, a, R)

LEMMA StageStep == SlotInv /\ DataInv /\ StageInv /\ [Next]_vars => StageInv'
  <1> SUFFICES ASSUME SlotInv, DataInv, StageInv, [Next]_vars, NEW a \in Actors
               PROVE  /\ (~Snapshotting(a))' => unread'[a] = {} /\ snap'[a] = EmptySnap
                      /\ snap'[a].done => unread'[a] = {}
      BY DEF StageInv
  <1> USE BrokerAssumption
      DEF BrokerAssumption, SlotInv, DataInv, StageInv, Snapshotting, EmptySnap,
          TabStages, Goto, Rest, Actors, procVars, loopVars, tabVars, snapVars, vars
  <1>1. ASSUME NEW t \in Tabs, Admit(t) \/ Refuse(t) \/ Leave(t) \/ Unregister(t)
        PROVE  /\ (~Snapshotting(a))' => unread'[a] = {} /\ snap'[a] = EmptySnap
               /\ snap'[a].done => unread'[a] = {}
    <2>1. UNCHANGED <<loop, unread, snap>> /\ tab[t] # "snapshot"
          BY <1>1 DEF Admit, Refuse, Leave, Unregister
    <2>2. \A u \in Tabs : tab'[u] = "snapshot" <=> tab[u] = "snapshot"
          BY <1>1, SMTT(20) DEF Admit, Refuse, Leave, Unregister
    <2> QED
        BY <2>1, <2>2
  <1>8. ASSUME NEW t \in Tabs, Register(t)
        PROVE  /\ (~Snapshotting(a))' => unread'[a] = {} /\ snap'[a] = EmptySnap
               /\ snap'[a].done => unread'[a] = {}
    <2>1. /\ tab[t] = "admitted" /\ tab'[t] = "snapshot"
          /\ snap' = snap /\ loop' = loop
          /\ \A u \in Tabs : u # t => tab'[u] = tab[u]
          /\ \A b \in Actors : b # t => unread'[b] = unread[b]
          BY <1>8 DEF Register
    <2>2. snap[t] = EmptySnap
          BY <2>1
    <2>3. CASE a = t
      <3>1. (Snapshotting(a))' /\ snap'[a] = EmptySnap
            BY <2>1, <2>2, <2>3
      <3> QED
          BY <3>1
    <2>4. CASE a # t
          BY <2>1, <2>4
    <2> QED
        BY <2>3, <2>4
  <1>2. ASSUME NEW t \in Tabs, FirstFrame(t) \/ Serve(t)
        PROVE  /\ (~Snapshotting(a))' => unread'[a] = {} /\ snap'[a] = EmptySnap
               /\ snap'[a].done => unread'[a] = {}
    <2>1. CASE FirstFrame(t)
          BY <2>1 DEF FirstFrame
    <2>2. CASE Serve(t)
          BY <2>2 DEF Serve
    <2> QED
        BY <1>2, <2>1, <2>2
  <1>3. ASSUME NEW b \in Actors, ReadCount(b)
        PROVE  /\ (~Snapshotting(a))' => unread'[a] = {} /\ snap'[a] = EmptySnap
               /\ snap'[a].done => unread'[a] = {}
    <2>1. PICK k \in unread[b] :
            /\ unread' = [unread EXCEPT ![b] = @ \ {k}]
            /\ snap' = [snap EXCEPT ![b].sum = @ + count[k]]
          BY <1>3 DEF ReadCount
    <2>2. Snapshotting(b) /\ ~snap[b].done
          BY <2>1
    <2>3. UNCHANGED <<tab, loop>>
          BY <1>3 DEF ReadCount
    <2>4. CASE a = b
      <3>1. (Snapshotting(a))' /\ snap'[a].done = snap[a].done
            BY <2>1, <2>2, <2>3, <2>4
      <3> QED
          BY <2>2, <2>4, <3>1
    <2>5. CASE a # b
      <3>1. snap'[a] = snap[a] /\ unread'[a] = unread[a]
            BY <2>1, <2>5
      <3> QED
          BY <2>3, <3>1
    <2> QED
        BY <2>4, <2>5
  <1>4. ASSUME NEW b \in Actors, ReadTotal(b)
        PROVE  /\ (~Snapshotting(a))' => unread'[a] = {} /\ snap'[a] = EmptySnap
               /\ snap'[a].done => unread'[a] = {}
        BY <1>4 DEF ReadTotal
  <1>5. CASE CountTotal \/ CountKind \/ BroadcastEvent \/ Flip \/ UNCHANGED vars
        BY <1>5 DEF CountTotal, CountKind, BroadcastEvent, Flip
  <1>6. CASE Probe
    <2>1. snap' = snap /\ tab' = tab /\ loop = "idle"
          BY <1>6 DEF Probe
    <2>2. CASE loop' = loop /\ unread' = unread
          BY <2>1, <2>2
    <2>3. CASE loop' = "snapshot" /\ unread' = [unread EXCEPT ![StatsLoop] = Kinds]
      <3>1. \A b \in Actors : b # StatsLoop => unread'[b] = unread[b]
            BY <2>3
      <3>2. snap[StatsLoop] = EmptySnap
            BY <2>1
      <3> QED
          BY <2>1, <2>3, <3>1, <3>2
    <2> QED
        BY <1>6, <2>1, <2>2, <2>3 DEF Probe
  <1>7. CASE PushStats
        BY <1>7 DEF PushStats
  <1> QED
      BY <1>1, <1>2, <1>3, <1>4, <1>5, <1>6, <1>7, <1>8 DEF Next, TabStep, LoopStep

\* What the snapshot of a has summed up stays so while nobody touches it.
LEMMA SummedKept ==
    ASSUME NEW E, NEW a, NEW R, Summed(E, a, R),
           snap'[a] = snap[a], unread'[a] = unread[a]
    PROVE  Summed(E, a, R)'
  BY DEF Summed

\* A snapshot that starts has summed up nothing.
LEMMA NothingSummed ==
    ASSUME NEW E, NEW a, snap'[a] = EmptySnap
    PROVE  Summed(E, a, {})'
  BY FS_EmptySet DEF Summed, EmptySnap

\* A set of events is finite.
LEMMA EventsFinite ==
    ASSUME DataInv, NEW S \in SUBSET (1 .. total)
    PROVE  IsFiniteSet(S) /\ Cardinality(S) \in Nat /\ Cardinality(S) <= total
  <1>1. total \in Nat
        BY BrokerAssumption DEF BrokerAssumption, DataInv
  <1>2. IsFiniteSet(1 .. total) /\ Cardinality(1 .. total) = total
        BY <1>1, FS_Interval
  <1>3. IsFiniteSet(S) /\ Cardinality(S) <= Cardinality(1 .. total)
        BY <1>2, FS_Subset
  <1> QED
      BY <1>2, <1>3, FS_CardinalityType

LEMMA CountStep == SlotInv /\ DataInv /\ StageInv /\ CountInv /\ [Next]_vars => CountInv'
  <1> SUFFICES ASSUME SlotInv, DataInv, StageInv, CountInv, [Next]_vars PROVE CountInv'
      OBVIOUS
  <1>a. total \in Nat /\ total' \in Nat
        BY DataStep, BrokerAssumption DEF BrokerAssumption, DataInv
  <1>b. PICK E \in [Kinds -> SUBSET (1 .. total)] :
          /\ Counted(E)
          /\ \A a \in Actors : \E R \in SUBSET (1 .. total) : Summed(E, a, R)
        BY DEF CountInv
  \* The counters are left alone: only the snapshots have to be looked at.
  <1>c. ASSUME UNCHANGED <<total, count>>, proc' = proc,
               \A a \in Actors : \E R \in SUBSET (1 .. total) : Summed(E, a, R)'
        PROVE  CountInv'
    <2>1. Counted(E)'
          BY <1>b, <1>c DEF Counted
    <2> QED
        BY <1>c, <2>1 DEF CountInv
  \* So are the snapshots, or some become empty.
  <1>d. ASSUME UNCHANGED <<total, count>>, proc' = proc,
               \A a \in Actors : \/ snap'[a] = EmptySnap
                                 \/ snap'[a] = snap[a] /\ unread'[a] = unread[a]
        PROVE  CountInv'
    <2> SUFFICES ASSUME NEW a \in Actors
                 PROVE  \E R \in SUBSET (1 .. total) : Summed(E, a, R)'
        BY <1>c, <1>d
    <2>1. CASE snap'[a] = EmptySnap
          BY <2>1, NothingSummed
    <2>2. CASE snap'[a] = snap[a] /\ unread'[a] = unread[a]
          BY <1>b, <2>2, SummedKept
    <2> QED
        BY <1>d, <2>1, <2>2
  <1> USE BrokerAssumption
      DEF BrokerAssumption, Goto, Rest, Actors, procVars, loopVars, tabVars, snapVars, vars
  <1>1. ASSUME NEW t \in Tabs, Admit(t) \/ Refuse(t) \/ Leave(t) \/ Unregister(t) \/ Serve(t)
        PROVE  CountInv'
        BY <1>d, <1>1 DEF Admit, Refuse, Leave, Unregister, Serve
  <1>2. ASSUME NEW t \in Tabs, Register(t) PROVE CountInv'
    <2>1. snap' = snap /\ snap[t] = EmptySnap
          BY <1>2 DEF Register, StageInv, Snapshotting
    <2>2. \A a \in Actors : a # t => unread'[a] = unread[a]
          BY <1>2 DEF Register, DataInv
    <2> QED
        BY <1>2, <1>d, <2>1, <2>2 DEF Register
  <1>3. ASSUME NEW t \in Tabs, FirstFrame(t) PROVE CountInv'
    <2>1. \A a \in Actors : snap'[a] = IF a = t THEN EmptySnap ELSE snap[a]
          BY <1>3 DEF FirstFrame, DataInv
    <2> QED
        BY <1>3, <1>d, <2>1 DEF FirstFrame
  <1>4. ASSUME NEW b \in Actors, ReadCount(b) PROVE CountInv'
    <2>1. PICK k \in unread[b] :
            /\ unread' = [unread EXCEPT ![b] = @ \ {k}]
            /\ snap' = [snap EXCEPT ![b].sum = @ + count[k]]
          BY <1>4 DEF ReadCount
    <2>2. k \in Kinds /\ unread[b] \subseteq Kinds /\ ~snap[b].done
          BY <2>1 DEF DataInv, StageInv
    <2>3. UNCHANGED <<total, count>> /\ proc' = proc
          BY <1>4 DEF ReadCount
    <2>4. ASSUME NEW a \in Actors
          PROVE  \E R \in SUBSET (1 .. total) : Summed(E, a, R)'
      <3>1. PICK R \in SUBSET (1 .. total) : Summed(E, a, R)
            BY <1>b
      <3>2. CASE a # b
        <4>1. snap'[a] = snap[a] /\ unread'[a] = unread[a]
              BY <2>1, <3>2 DEF DataInv
        <4> QED
            BY <3>1, <4>1, SummedKept
      <3>3. CASE a = b
        <4>1. /\ snap'[a].sum = snap[a].sum + count[k]
              /\ ~snap'[a].done
              /\ unread'[a] = unread[a] \ {k}
              BY <2>1, <2>2, <3>3 DEF DataInv
        <4>2. E[k] \in SUBSET (1 .. total) /\ Cardinality(E[k]) = count[k]
              BY <1>b, <2>2 DEF Counted
        <4>3. R \cap E[k] = {} /\ Cardinality(R) = snap[a].sum
              BY <2>1, <3>1, <3>3 DEF Summed
        <4>4. Cardinality(R \cup E[k]) = snap[a].sum + count[k]
          <5>1. IsFiniteSet(R) /\ IsFiniteSet(E[k])
                BY <4>2, EventsFinite
          <5>2. Cardinality(R \cup E[k])
                = Cardinality(R) + Cardinality(E[k]) - Cardinality(R \cap E[k])
                BY <5>1, FS_Union
          <5>3. Cardinality(R) \in Nat /\ Cardinality(E[k]) \in Nat
                BY <4>2, EventsFinite
          <5>4. Cardinality(R \cap E[k]) = 0
                BY <4>3, FS_EmptySet
          <5> QED
              BY <4>2, <4>3, <5>2, <5>3, <5>4
        <4>5. \A n \in R \cup E[k] : \E l \in Kinds : n \in E[l]
              BY <2>2, <3>1 DEF Summed
        <4>6. ASSUME NEW l \in unread'[a] PROVE (R \cup E[k]) \cap E[l] = {}
          <5>1. l \in unread[a] /\ l # k /\ l \in Kinds
                BY <2>2, <3>3, <4>1
          <5>2. R \cap E[l] = {}
                BY <3>1, <5>1 DEF Summed
          <5>3. E[k] \cap E[l] = {}
                BY <1>b, <2>2, <5>1 DEF Counted
          <5> QED
              BY <5>2, <5>3
        <4>7. Summed(E, a, R \cup E[k])'
              BY <4>1, <4>4, <4>5, <4>6 DEF Summed
        <4> QED
            BY <4>2, <4>7
      <3> QED
          BY <3>2, <3>3
    <2> QED
        BY <1>c, <2>3, <2>4
  <1>5. ASSUME NEW b \in Actors, ReadTotal(b) PROVE CountInv'
    <2>1. UNCHANGED <<total, count, unread>> /\ proc' = proc
          BY <1>5 DEF ReadTotal
    <2>2. ASSUME NEW a \in Actors
          PROVE  \E R \in SUBSET (1 .. total) : Summed(E, a, R)'
      <3>1. PICK R \in SUBSET (1 .. total) : Summed(E, a, R)
            BY <1>b
      <3>2. CASE a # b
        <4>1. snap'[a] = snap[a]
              BY <1>5, <3>2 DEF ReadTotal, DataInv
        <4> QED
            BY <2>1, <3>1, <4>1, SummedKept
      <3>3. CASE a = b
        <4>1. snap'[a].sum = snap[a].sum /\ snap'[a].total = total
              BY <1>5, <3>3 DEF ReadTotal, DataInv
        <4>2. Summed(E, a, R)'
              BY <2>1, <3>1, <4>1 DEF Summed
        <4> QED
            BY <4>2
      <3> QED
          BY <3>2, <3>3
    <2> QED
        BY <1>c, <2>1, <2>2
  \* The event is in total before any counter stands for it.
  <1>6. CASE CountTotal
    <2>1. total' = total + 1 /\ UNCHANGED <<count, snap, unread>>
          BY <1>6 DEF CountTotal
    <2>2. 1 .. total \subseteq 1 .. total' /\ total' \notin 1 .. total
          BY <1>a, <2>1
    <2>3. E \in [Kinds -> SUBSET (1 .. total')]
          BY <2>2
    <2>4. Counted(E)'
          BY <1>b, <2>1, <2>2 DEF Counted
    <2>5. ASSUME NEW a \in Actors
          PROVE  \E R \in SUBSET (1 .. total') : Summed(E, a, R)'
      <3>1. PICK R \in SUBSET (1 .. total) : Summed(E, a, R)
            BY <1>b
      <3> QED
          BY <2>1, <2>2, <3>1, SummedKept
    <2> QED
        BY <2>3, <2>4, <2>5 DEF CountInv
  \* Its number joins the counter of its type, and no snapshot has it yet.
  <1>7. CASE CountKind
    <2>1. /\ proc = "counting" /\ proc' = "broadcasting"
          /\ UNCHANGED <<total, snap, unread>>
          /\ count' = [k \in Kinds |-> IF k = kind THEN count[k] + 1 ELSE count[k]]
          BY <1>7 DEF CountKind
    <2>2. total \in 1 .. total /\ \A k \in Kinds : total \notin E[k]
          BY <1>a, <1>b, <2>1 DEF Counted, DataInv
    <2>3. [k \in Kinds |-> IF k = kind THEN E[k] \cup {total} ELSE E[k]]
            \in [Kinds -> SUBSET (1 .. total)]
          BY <2>2
    <2>4. PICK F \in [Kinds -> SUBSET (1 .. total)] :
            \A k \in Kinds : F[k] = IF k = kind THEN E[k] \cup {total} ELSE E[k]
          BY <2>3
    <2>5. ASSUME NEW k \in Kinds PROVE Cardinality(F[k]) = count'[k]
      <3>1. E[k] \in SUBSET (1 .. total) /\ Cardinality(E[k]) = count[k]
            BY <1>b DEF Counted
      <3>2. IsFiniteSet(E[k])
            BY <3>1, EventsFinite
      <3>3. Cardinality(E[k] \cup {total}) = count[k] + 1
            BY <2>2, <3>1, <3>2, FS_AddElement
      <3> QED
          BY <2>1, <2>4, <3>1, <3>3
    <2>6. ASSUME NEW k \in Kinds, NEW l \in Kinds, k # l PROVE F[k] \cap F[l] = {}
      <3>1. E[k] \cap E[l] = {}
            BY <1>b, <2>6 DEF Counted
      <3> QED
          BY <2>2, <2>4, <2>6, <3>1
    <2>7. Counted(F)'
          BY <2>1, <2>5, <2>6 DEF Counted
    <2>8. ASSUME NEW a \in Actors
          PROVE  \E R \in SUBSET (1 .. total) : Summed(F, a, R)'
      <3>1. PICK R \in SUBSET (1 .. total) : Summed(E, a, R)
            BY <1>b
      <3>2. total \notin R
            BY <2>2, <3>1 DEF Summed
      <3>3. \A n \in R : \E k \in Kinds : n \in F[k]
            BY <2>4, <3>1 DEF Summed
      <3>4. ASSUME NEW k \in unread[a] PROVE R \cap F[k] = {}
        <4>1. k \in Kinds /\ R \cap E[k] = {}
              BY <3>1 DEF Summed, DataInv
        <4> QED
            BY <2>4, <3>2, <4>1
      <3>5. Summed(F, a, R)'
            BY <2>1, <3>1, <3>3, <3>4 DEF Summed
      <3> QED
          BY <3>5
    <2> QED
        BY <2>1, <2>7, <2>8 DEF CountInv
  <1>8. CASE BroadcastEvent
    <2>1. /\ UNCHANGED <<total, count, snap, unread>>
          /\ proc' = "idle"
          BY <1>8 DEF BroadcastEvent
    <2>2. Counted(E)'
          BY <1>b, <2>1 DEF Counted
    <2>3. \A a \in Actors : \E R \in SUBSET (1 .. total) : Summed(E, a, R)'
          BY <1>b, <2>1, SummedKept
    <2> QED
        BY <2>1, <2>2, <2>3 DEF CountInv
  <1>9. CASE Probe
    <2>1. CASE UNCHANGED snapVars
          BY <1>9, <1>d, <2>1 DEF Probe
    <2>2. CASE unread' = [unread EXCEPT ![StatsLoop] = Kinds] /\ snap' = snap
      <3>1. snap[StatsLoop] = EmptySnap
            BY <1>9 DEF Probe, StageInv, Snapshotting
      <3>2. \A a \in Actors : a # StatsLoop => unread'[a] = unread[a]
            BY <2>2 DEF DataInv
      <3> QED
          BY <1>9, <1>d, <2>2, <3>1, <3>2 DEF Probe
    <2> QED
        BY <1>9, <2>1, <2>2 DEF Probe
  <1>10. CASE PushStats
    <2>1. \A a \in Actors : snap'[a] = IF a = StatsLoop THEN EmptySnap ELSE snap[a]
          BY <1>10 DEF PushStats, DataInv
    <2> QED
        BY <1>10, <1>d, <2>1 DEF PushStats
  <1>11. CASE Flip \/ UNCHANGED vars
         BY <1>11, <1>d DEF Flip
  <1> QED
      BY <1>1, <1>2, <1>3, <1>4, <1>5, <1>6, <1>7, <1>8, <1>9, <1>10, <1>11
      DEF Next, TabStep, LoopStep

LEMMA InitCounts == Init => StageInv /\ CountInv
  <1> SUFFICES ASSUME Init PROVE StageInv /\ CountInv
      OBVIOUS
  <1>1. StageInv
        BY DEF Init, StageInv, EmptySnap, Actors
  <1> DEFINE E == [k \in Kinds |-> {}]
  <1>2. E \in [Kinds -> SUBSET (1 .. total)] /\ Counted(E)
        BY FS_EmptySet DEF Init, Counted
  <1>3. ASSUME NEW a \in Actors
        PROVE  \E R \in SUBSET (1 .. total) : Summed(E, a, R)
    <2>1. Summed(E, a, {})
          BY FS_EmptySet DEF Init, Summed, EmptySnap
    <2> QED
        BY <2>1
  <1> QED
      BY <1>1, <1>2, <1>3 DEF CountInv

\* No stats frame shows more events per type than in all (broker.go:106-146),
\* however reading the counters and counting events interleave: total goes up
\* before the counter of the type and is read after it.
THEOREM StatsAddUp == SafetySpec => []StatsConsistent
  <1>1. ASSUME DataInv, CountInv PROVE StatsConsistent
    <2> SUFFICES ASSUME NEW a \in Actors, snap[a].done
                 PROVE  snap[a].sum <= snap[a].total
        BY DEF StatsConsistent
    <2>1. PICK R \in SUBSET (1 .. total) : \E E : Summed(E, a, R)
          BY <1>1 DEF CountInv
    <2>2. Cardinality(R) = snap[a].sum /\ R \subseteq 1 .. snap[a].total
          BY <2>1 DEF Summed
    <2>3. snap[a].total \in Nat
          BY <1>1, BrokerAssumption DEF BrokerAssumption, DataInv
    <2>4. ASSUME NEW n \in Nat PROVE IsFiniteSet(1 .. n) /\ Cardinality(1 .. n) = n
          BY FS_Interval
    <2> DEFINE seen == 1 .. snap[a].total
    <2>5. IsFiniteSet(seen) /\ Cardinality(seen) = snap[a].total
          BY <2>3, <2>4
    <2>6. Cardinality(R) <= Cardinality(seen)
      <3>1. R \in SUBSET seen
            BY <2>2
      <3> HIDE DEF seen
      <3> QED
          BY <2>5, <3>1, FS_Subset
    <2> QED
        BY <2>2, <2>5, <2>6
  <1>2. Init => StageInv /\ CountInv
        BY InitCounts
  <1> QED
      BY <1>1, <1>2, StageStep, CountStep, DataInvariant, PTL DEF SafetySpec
=============================================================================
