-------------------------------- MODULE Broker --------------------------------
(***************************************************************************)
(* The SSE broker of the dashboard (web/broker/broker.go, stats.go): the   *)
(* admission of SSE clients (tabs), their registration and first stats     *)
(* frame, ProcessEvents (count an event, then broadcast it) and            *)
(* StartStatsLoop (probe the upstream connection, broadcast stats).        *)
(*                                                                         *)
(* Counters are atomics read and written one at a time.  A broadcast runs  *)
(* under the read lock of clientsMu and registration under the write lock, *)
(* so a broadcast is one step here: what a tab gets does not depend on     *)
(* when the other tabs get it.                                             *)
(***************************************************************************)
EXTENDS Naturals, Sequences, FiniteSets

CONSTANTS
    Tabs,       \* SSE requests
    Kinds,      \* event types that have a counter in the stats
    StatsLoop,  \* the goroutine of StartStatsLoop (a model value)
    MaxClients, \* maxClients
    Capacity,   \* of a client's frame channel (256)
    MaxEvents,  \* events from upstream
    MaxFlips,   \* changes of the upstream connection state
    Heartbeat   \* probes between two heartbeats (4)

ASSUME BrokerAssumption ==
    /\ MaxClients \in Nat \ {0} /\ Capacity \in Nat \ {0}
    /\ MaxEvents \in Nat /\ MaxFlips \in Nat /\ Heartbeat \in Nat \ {0}
    /\ StatsLoop \notin Tabs
    /\ "other" \notin Kinds

VARIABLES
    sseCount,  \* b.sseCount
    tab,       \* where HandleSSE is for each request
    clients,   \* the registered clients
    frames,    \* frames[t]: the client's channel
    total,     \* b.total
    count,     \* the per-type counters
    proc,      \* ProcessEvents: "idle", "counting" or "broadcasting"
    kind,      \* the type of its current event, "other" for those without a counter
    up,        \* isConnected()
    flips,
    loop,      \* StatsLoop: "idle" or "snapshot"
    probed,    \* what this probe read of the connection
    last,      \* lastConnected
    age,       \* probes since lastPush, counted up to Heartbeat
    unread,    \* unread[a]: counters the snapshot of a has still to read
    snap,      \* snap[a]: that snapshot so far
    got,       \* history: events t received
    dropped,   \* history: events t's full channel refused
    base,      \* history: total in t's first stats frame
    shown      \* the connection state t displays

procVars == <<total, count, proc, kind>>
loopVars == <<loop, probed, last, age>>
tabVars == <<sseCount, tab, clients, base>>
snapVars == <<unread, snap>>
vars == <<procVars, loopVars, tabVars, snapVars, frames, up, flips, got, dropped, shown>>

Actors == Tabs \cup {StatsLoop}
EmptySnap == [sum |-> 0, total |-> 0, up |-> FALSE, done |-> FALSE]

Init ==
    /\ sseCount = 0
    /\ tab = [t \in Tabs |-> "new"]
    /\ clients = {}
    /\ frames = [t \in Tabs |-> <<>>]
    /\ total = 0
    /\ count = [k \in Kinds |-> 0]
    /\ proc = "idle"
    /\ kind = "other"
    /\ up \in BOOLEAN
    /\ flips = 0
    /\ loop = "idle"
    /\ probed = up
    /\ last = up
    /\ age = Heartbeat               \* lastPush is the zero time
    /\ unread = [a \in Actors |-> {}]
    /\ snap = [a \in Actors |-> EmptySnap]
    /\ got = [t \in Tabs |-> {}]
    /\ dropped = [t \in Tabs |-> {}]
    /\ base = [t \in Tabs |-> 0]
    /\ shown = [t \in Tabs |-> FALSE]

-----------------------------------------------------------------------------
(* HandleSSE.                                                              *)

Goto(t, s) == tab' = [tab EXCEPT ![t] = s]

Rest == <<procVars, loopVars, frames, up, flips, got, dropped, shown>>

\* Broken: the count before this request is compared with the limit.
AdmitOneMore(t) ==
    /\ tab[t] = "new"
    /\ sseCount' = sseCount + 1
    /\ Goto(t, IF sseCount > MaxClients THEN "reject" ELSE "admitted")
    /\ UNCHANGED <<Rest, snapVars, clients, base>>

\* sseCount.Add(1), compared with the limit in the same expression.
Admit(t) ==
    /\ tab[t] = "new"
    /\ sseCount' = sseCount + 1
    /\ Goto(t, IF sseCount' > MaxClients THEN "reject" ELSE "admitted")
    /\ UNCHANGED <<Rest, snapVars, clients, base>>

\* Broken: a refused request keeps its slot.
RefuseKeepsSlot(t) ==
    /\ tab[t] \in {"reject", "admitted"}
    /\ Goto(t, "gone")
    /\ UNCHANGED <<Rest, snapVars, sseCount, clients, base>>

\* Over the limit, or a ResponseWriter that cannot flush: give the slot back.
Refuse(t) ==
    /\ tab[t] \in {"reject", "admitted"}
    /\ sseCount' = sseCount - 1
    /\ Goto(t, "gone")
    /\ UNCHANGED <<Rest, snapVars, clients, base>>

Register(t) ==
    /\ tab[t] = "admitted"
    /\ clients' = clients \cup {t}
    /\ Goto(t, "snapshot")
    /\ unread' = [unread EXCEPT ![t] = Kinds]
    /\ UNCHANGED <<Rest, snap, sseCount, base>>

\* Broken: what was queued while the first frame was built is thrown away.
FirstFrameFlushes(t) ==
    /\ tab[t] = "snapshot"
    /\ snap[t].done
    /\ Goto(t, "serving")
    /\ base' = [base EXCEPT ![t] = snap[t].total]
    /\ shown' = [shown EXCEPT ![t] = snap[t].up]
    /\ snap' = [snap EXCEPT ![t] = EmptySnap]
    /\ frames' = [frames EXCEPT ![t] = <<>>]
    /\ UNCHANGED <<procVars, loopVars, unread, sseCount, clients, up, flips, got,
                   dropped>>

\* The first stats frame is written before the channel is looked at.
FirstFrame(t) ==
    /\ tab[t] = "snapshot"
    /\ snap[t].done
    /\ Goto(t, "serving")
    /\ base' = [base EXCEPT ![t] = snap[t].total]
    /\ shown' = [shown EXCEPT ![t] = snap[t].up]
    /\ snap' = [snap EXCEPT ![t] = EmptySnap]
    /\ UNCHANGED <<procVars, loopVars, unread, sseCount, clients, frames, up,
                   flips, got, dropped>>

Serve(t) ==
    /\ tab[t] = "serving"
    /\ frames[t] # <<>>
    /\ LET f == Head(frames[t]) IN
         IF f.kind = "event"
         THEN got' = [got EXCEPT ![t] = @ \cup {f.n}] /\ UNCHANGED shown
         ELSE shown' = [shown EXCEPT ![t] = f.up] /\ UNCHANGED got
    /\ frames' = [frames EXCEPT ![t] = Tail(@)]
    /\ UNCHANGED <<procVars, loopVars, tabVars, snapVars, up, flips, dropped>>

\* The request's context ends; the deferred function frees the slot first.
Leave(t) ==
    /\ tab[t] = "serving"
    /\ sseCount' = sseCount - 1
    /\ Goto(t, "leaving")
    /\ UNCHANGED <<Rest, snapVars, clients, base>>

Unregister(t) ==
    /\ tab[t] = "leaving"
    /\ clients' = clients \ {t}
    /\ Goto(t, "gone")
    /\ UNCHANGED <<Rest, snapVars, sseCount, base>>

-----------------------------------------------------------------------------
(* snapshot: the type counters one by one, then isConnected and total (two *)
(* reads that nothing relates, one step here).                             *)

ReadCount(a) ==
    /\ \E k \in unread[a] :
          /\ unread' = [unread EXCEPT ![a] = @ \ {k}]
          /\ snap' = [snap EXCEPT ![a].sum = @ + count[k]]
    /\ UNCHANGED <<Rest, tabVars>>

Snapshotting(a) == IF a = StatsLoop THEN loop = "snapshot" ELSE tab[a] = "snapshot"

\* Broken: total is read while type counters are still to be read.
ReadTotalEarly(a) ==
    /\ Snapshotting(a) /\ ~snap[a].done
    /\ snap' = [snap EXCEPT ![a].total = total, ![a].up = up, ![a].done = TRUE]
    /\ UNCHANGED <<Rest, tabVars, unread>>

ReadTotal(a) ==
    /\ Snapshotting(a) /\ unread[a] = {} /\ ~snap[a].done
    /\ snap' = [snap EXCEPT ![a].total = total, ![a].up = up, ![a].done = TRUE]
    /\ UNCHANGED <<Rest, tabVars, unread>>

-----------------------------------------------------------------------------
(* Broadcasting goroutines.                                                *)

\* Broken: a channel takes one frame more than it has room for.
RoomForOneMore(t) == t \in clients /\ Len(frames[t]) <= Capacity

Room(t) == t \in clients /\ Len(frames[t]) < Capacity

broadcast(f) ==
    frames' = [t \in Tabs |-> IF Room(t) THEN Append(frames[t], f) ELSE frames[t]]

\* recordEvent: total first ...
CountTotal ==
    /\ proc = "idle"
    /\ total < MaxEvents
    /\ total' = total + 1
    /\ kind' \in Kinds \cup {"other"}
    /\ proc' = "counting"
    /\ UNCHANGED <<loopVars, tabVars, snapVars, frames, up, flips, got, dropped,
                   shown, count>>

\* ... then the counter of its type (otherCount is in no stats frame).
CountKind ==
    /\ proc = "counting"
    /\ count' = [k \in Kinds |-> IF k = kind THEN count[k] + 1 ELSE count[k]]
    /\ proc' = "broadcasting"
    /\ UNCHANGED <<loopVars, tabVars, snapVars, frames, up, flips, got, dropped,
                   shown, total, kind>>

\* json.Marshal of a decoded event (broker.go:134-137) does not fail: its fields are
\* strings and JSON that was parsed.
BroadcastEvent ==
    /\ proc = "broadcasting"
    /\ proc' = "idle"
    /\ broadcast([kind |-> "event", n |-> total])
    /\ dropped' = [t \in Tabs |-> IF t \in clients /\ ~Room(t)
                                  THEN dropped[t] \cup {total} ELSE dropped[t]]
    /\ UNCHANGED <<loopVars, tabVars, snapVars, up, flips, got, shown, total,
                   count, kind>>

\* Broken: stats are pushed on a change of connection only.
NoHeartbeat == FALSE

HeartbeatDue == age >= Heartbeat

\* A tick of the probe timer: nothing to say, or a snapshot is taken.
Probe ==
    /\ loop = "idle"
    /\ probed' = up
    /\ IF up = last /\ ~HeartbeatDue
       THEN age' = (IF age < Heartbeat THEN age + 1 ELSE age) /\ UNCHANGED <<loop, snapVars>>
       ELSE /\ loop' = "snapshot"
            /\ unread' = [unread EXCEPT ![StatsLoop] = Kinds]
            /\ UNCHANGED <<age, snap>>
    /\ UNCHANGED <<procVars, tabVars, frames, up, flips, got, dropped, shown, last>>

PushStats ==
    /\ loop = "snapshot"
    /\ snap[StatsLoop].done
    /\ broadcast([kind |-> "stats", up |-> snap[StatsLoop].up])
    /\ loop' = "idle"
    /\ last' = probed
    /\ age' = 1                      \* the next tick is one probe later
    /\ snap' = [snap EXCEPT ![StatsLoop] = EmptySnap]
    /\ UNCHANGED <<procVars, tabVars, unread, up, flips, got, dropped, shown, probed>>

Flip ==
    /\ flips < MaxFlips
    /\ flips' = flips + 1
    /\ up' = ~up
    /\ UNCHANGED <<procVars, loopVars, tabVars, snapVars, frames, got, dropped, shown>>

-----------------------------------------------------------------------------
LoopStep == Probe \/ ReadCount(StatsLoop) \/ ReadTotal(StatsLoop) \/ PushStats

TabStep(t) == Register(t) \/ ReadCount(t) \/ ReadTotal(t) \/ FirstFrame(t) \/ Serve(t)

Next ==
    \/ \E t \in Tabs : Admit(t) \/ Refuse(t) \/ TabStep(t) \/ Leave(t) \/ Unregister(t)
    \/ CountTotal \/ CountKind \/ BroadcastEvent
    \/ LoopStep
    \/ Flip

SafetySpec == Init /\ [][Next]_vars

\* The probe timer keeps ticking and a tab that is served keeps reading.
Spec == SafetySpec /\ WF_vars(LoopStep) /\ \A t \in Tabs : WF_vars(TabStep(t))

-----------------------------------------------------------------------------
(* Properties.                                                             *)

Frames == [kind : {"event"}, n : 1 .. MaxEvents] \cup [kind : {"stats"}, up : BOOLEAN]

TabStages == {"new", "reject", "admitted", "snapshot", "serving", "leaving", "gone"}

\* The variables have the types the Go declarations give them.
TypeOK ==
    /\ sseCount \in Nat
    /\ tab \in [Tabs -> TabStages]
    /\ clients \subseteq Tabs
    /\ frames \in [Tabs -> Seq(Frames)]
    /\ \A t \in Tabs : Len(frames[t]) <= Capacity
    /\ total \in 0 .. MaxEvents
    /\ proc \in {"idle", "counting", "broadcasting"}
    /\ loop \in {"idle", "snapshot"}
    /\ up \in BOOLEAN
    /\ \A a \in Actors : snap[a].total \in 0 .. total /\ snap[a].up \in BOOLEAN
    /\ base \in [Tabs -> 0 .. total]

Holding == {t \in Tabs : tab[t] \in {"reject", "admitted", "snapshot", "serving"}}
Streaming == {t \in Tabs : tab[t] \in {"snapshot", "serving"}}

\* However admissions, refusals and departures interleave, at most maxClients
\* requests stream, and a client still registered beyond that is leaving.
CapacityHeld ==
    /\ Cardinality(Streaming) <= MaxClients
    /\ clients \ Streaming \subseteq {t \in Tabs : tab[t] = "leaving"}

\* Every path out of HandleSSE gives its slot back exactly once.
NoSlotLeak == sseCount = Cardinality(Holding)

\* A tab misses no event between its first stats frame and its live stream:
\* an event that the total it was shown does not include reaches its channel
\* (or finds it full) once ProcessEvents is done with it.
NoGap ==
    \A t \in Tabs : tab[t] = "serving" =>
        \A n \in base[t] + 1 .. total :
            \/ n = total /\ proc # "idle"
            \/ n \in got[t] \cup dropped[t]
            \/ \E i \in DOMAIN frames[t] : frames[t][i] = [kind |-> "event", n |-> n]

\* No stats frame shows more events per type than in all: total is counted
\* before the type and read after it.
StatsConsistent ==
    \A a \in Actors : snap[a].done => snap[a].sum <= snap[a].total

\* When the upstream stops flapping every served tab comes to show its state,
\* even if a full channel dropped the frame that announced the last flip.
ConnectionShown == <>[](\A t \in Tabs : tab[t] = "serving" => shown[t] = up)
=============================================================================
