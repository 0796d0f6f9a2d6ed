---------------------------- MODULE DashboardProofs ----------------------------
(***************************************************************************)
(* A dashboard tab that could have missed nothing shows the current set    *)
(* once all is quiet: for any number of tabs, of requests, of values and   *)
(* of frames a channel holds.                                              *)
(*                                                                         *)
(* SerialTabsInSync speaks of quiet states only.  What carries it there    *)
(* through a change, a broadcast, an answer and a load is TabInv: a change *)
(* has at most one handler at work, which has told the tab of the current  *)
(* set or is still to do so, and the answers of clean GETs are current.    *)
(***************************************************************************)
EXTENDS Dashboard, TLAPS

-----------------------------------------------------------------------------
(* Types.                                                                  *)

Stages == {"new", "types", "addrs", "lock", "broadcast", "echo types", "echo addrs",
           "answer", "done"}
Loads == {"new", "types", "addrs", "answered", "done"}

\* Types, and who can be offered a frame: only tabs that listen, which are open
\* and keep listening while a broadcast runs.
DataInv ==
    /\ want \in Sets
    /\ stage \in [Calls -> Stages]
    /\ caller \in [Calls -> Tabs \cup {NoTab}]
    /\ arg \in [Calls -> Sets]
    /\ read \in [Calls -> Sets]
    /\ todo \in [Calls -> SUBSET listening]
    /\ \A c \in Calls : stage[c] # "broadcast" => todo[c] = {}
    /\ opened \subseteq Tabs
    /\ getter \in [Gets -> Tabs \cup {NoTab}]
    /\ load \in [Gets -> Loads]
    /\ loaded \in [Gets -> Sets]
    /\ \A g \in Gets : load[g] \notin {"new", "done"} => getter[g] \in opened
    /\ clean \subseteq {g \in Gets : load[g] \notin {"new", "done"}}
    /\ listening \subseteq opened
    /\ frames \in [Tabs -> Seq(Sets)]
    /\ \A t \in Tabs : Len(frames[t]) <= Capacity
    /\ \A t \in Tabs : t \notin listening => frames[t] = <<>>
    /\ view \in [Tabs -> Sets]
    /\ overlap \in [Tabs -> SUBSET {"changes", "opening"}]
    /\ lost \in [Tabs -> BOOLEAN]
    /\ drops \in 0 .. MaxDrops

LEMMA InitData == Init => DataInv
  <1> SUFFICES ASSUME Init PROVE DataInv
      OBVIOUS
  <1>1. InitialSet \in Sets
        BY DashboardAssumption DEF DashboardAssumption, InitialSet, Sets
  <1>2. frames \in [Tabs -> Seq(Sets)] /\ \A t \in Tabs : Len(frames[t]) = 0
        BY DEF Init
  <1> QED
      BY <1>1, <1>2, DashboardAssumption
      DEF DashboardAssumption, Init, DataInv, Stages, Loads

LEMMA DataStep == DataInv /\ [Next]_vars => DataInv'
  <1> SUFFICES ASSUME DataInv, [Next]_vars PROVE DataInv'
      OBVIOUS
  <1> USE DashboardAssumption
      DEF DashboardAssumption, Stages, Loads, Goto, callVars, getVars, tabVars, histVars,
          vars
  <1>1. ASSUME NEW c \in Calls, Apply(c) PROVE DataInv'
    <2>1. want' \in Sets
          BY <1>1 DEF Apply
    <2>2. arg' \in [Calls -> Sets]
      <3>1. arg' = arg \/ arg' = [arg EXCEPT ![c] = want']
            BY <1>1 DEF Apply
      <3> QED
          BY <2>1, <3>1 DEF DataInv
    <2>3. overlap' \in [Tabs -> SUBSET {"changes", "opening"}]
          BY <1>1 DEF DataInv, Apply
    <2>4. caller' \in [Calls -> Tabs \cup {NoTab}]
      <3>1. PICK t \in opened \cup {NoTab} : caller' = [caller EXCEPT ![c] = t]
            BY <1>1 DEF Apply
      <3> QED
          BY <3>1 DEF DataInv
    <2>5. /\ stage' = [stage EXCEPT ![c] = "types"] /\ stage[c] = "new" /\ clean' = {}
          /\ UNCHANGED <<read, todo, getVars, tabVars, frames, lost, drops>>
          BY <1>1 DEF Apply
    <2> QED
        BY <2>1, <2>2, <2>3, <2>4, <2>5 DEF DataInv
  <1>2. ASSUME NEW c \in Calls, Fail(c) PROVE DataInv'
        BY <1>2 DEF DataInv, Fail
  <1>3. ASSUME NEW c \in Calls, ReadTypes(c) \/ ReadAddrs(c) PROVE DataInv'
    <2>1. PICK v \in Sets : read' = [read EXCEPT ![c] = v]
      <3>1. CASE ReadTypes(c)
        <4>1. read' = [read EXCEPT ![c] = [@ EXCEPT !.types = want.types]]
              BY <3>1 DEF ReadTypes
        <4>2. [read[c] EXCEPT !.types = want.types] \in Sets
              BY DEF DataInv, Sets
        <4> QED
            BY <4>1, <4>2
      <3>2. CASE ReadAddrs(c)
        <4>1. read' = [read EXCEPT ![c] = [@ EXCEPT !.addrs = want.addrs]]
              BY <3>2 DEF ReadAddrs
        <4>2. [read[c] EXCEPT !.addrs = want.addrs] \in Sets
              BY DEF DataInv, Sets
        <4> QED
            BY <4>1, <4>2
      <3> QED
          BY <1>3, <3>1, <3>2
    <2>2. PICK s \in Stages : stage' = [stage EXCEPT ![c] = s]
      <3>1. CASE ReadTypes(c)
            BY <3>1, Zenon DEF ReadTypes
      <3>2. CASE ReadAddrs(c)
            BY <3>2, Zenon DEF ReadAddrs
      <3> QED
          BY <1>3, <3>1, <3>2
    <2>3. /\ stage[c] # "broadcast"
          /\ UNCHANGED <<want, caller, dynamic, arg, todo, getVars, tabVars, frames, histVars>>
          BY <1>3 DEF ReadTypes, ReadAddrs
    <2> QED
        BY <2>1, <2>2, <2>3 DEF DataInv
  <1>4. ASSUME NEW c \in Calls, Broadcast(c) PROVE DataInv'
        BY <1>4 DEF DataInv, Broadcast
  <1>5. ASSUME NEW c \in Calls, NEW t \in Tabs, Offer(c, t) PROVE DataInv'
    <2>1. /\ stage[c] = "broadcast" /\ t \in todo[c]
          /\ todo' = [todo EXCEPT ![c] = @ \ {t}]
          /\ UNCHANGED <<want, stage, caller, arg, read, getVars, tabVars, clean, overlap,
                         drops>>
          BY <1>5 DEF Offer
    <2>2. todo' \in [Calls -> SUBSET listening]
          /\ \A b \in Calls : stage[b] # "broadcast" => todo'[b] = {}
          BY <2>1 DEF DataInv
    <2>3. /\ frames' \in [Tabs -> Seq(Sets)] /\ lost' \in [Tabs -> BOOLEAN]
          /\ \A u \in Tabs : Len(frames'[u]) <= Capacity
          /\ \A u \in Tabs : u \notin listening => frames'[u] = <<>>
      <3>1. CASE Len(frames[t]) < Capacity
        <4>1. frames' = [frames EXCEPT ![t] = Append(@, read[c])] /\ lost' = lost
              BY <1>5, <3>1 DEF Offer
        <4>2. /\ Append(frames[t], read[c]) \in Seq(Sets)
              /\ Len(Append(frames[t], read[c])) <= Capacity
          <5>1. frames[t] \in Seq(Sets) /\ read[c] \in Sets
                BY DEF DataInv
          <5> QED
              BY <3>1, <5>1
        <4>3. t \in listening
              BY <2>1 DEF DataInv
        <4> QED
            BY <4>1, <4>2, <4>3 DEF DataInv
      <3>2. CASE ~(Len(frames[t]) < Capacity)
            BY <1>5, <3>2 DEF DataInv, Offer
      <3> QED
          BY <3>1, <3>2
    <2> QED
        BY <2>1, <2>2, <2>3 DEF DataInv
  <1>6. ASSUME NEW c \in Calls, Offered(c) PROVE DataInv'
    <2>1. /\ stage[c] = "broadcast" /\ todo[c] = {}
          /\ \/ stage' = [stage EXCEPT ![c] = "echo types"] /\ read' = read
             \/ stage' = [stage EXCEPT ![c] = "answer"] /\ read' = [read EXCEPT ![c] = arg[c]]
          /\ UNCHANGED <<want, caller, dynamic, arg, todo, getVars, tabVars, frames, histVars>>
          BY <1>6 DEF Offered
    <2>2. stage' \in [Calls -> Stages] /\ read' \in [Calls -> Sets]
      <3>1. /\ stage \in [Calls -> Stages] /\ "echo types" \in Stages /\ "answer" \in Stages
            /\ read \in [Calls -> Sets] /\ arg[c] \in Sets
            BY DEF DataInv, Stages
      <3> QED
          BY <2>1, <3>1
    <2>3. \A d \in Calls : stage'[d] # "broadcast" => todo'[d] = {}
          BY <2>1 DEF DataInv
    <2> QED
        BY <2>1, <2>2, <2>3, ZenonT(60) DEF DataInv
  <1>7. ASSUME NEW c \in Calls, ApplyAnswer(c) PROVE DataInv'
    <2>1. InitialSet \in Sets
          BY DEF InitialSet, Sets
    <2>2. view' \in [Tabs -> Sets]
      <3>1. \/ view' = view
            \/ caller[c] # NoTab /\ view' = [view EXCEPT ![caller[c]] = read[c]]
            BY <1>7 DEF ApplyAnswer
      <3> QED
          BY <3>1, ZenonT(60) DEF DataInv
    <2>3. /\ stage' = [stage EXCEPT ![c] = "done"] /\ stage[c] = "answer"
          /\ caller' = [caller EXCEPT ![c] = NoTab]
          /\ arg' = [arg EXCEPT ![c] = InitialSet]
          /\ read' = [read EXCEPT ![c] = InitialSet]
          /\ UNCHANGED <<want, todo, getVars, opened, listening, frames, histVars>>
          BY <1>7 DEF ApplyAnswer
    <2> QED
        BY <2>1, <2>2, <2>3 DEF DataInv
  <1>8. ASSUME NEW t \in Tabs, NEW g \in Gets, Open(t, g) \/ Refresh(t, g) PROVE DataInv'
    <2>1. /\ load' = [load EXCEPT ![g] = "types"]
          /\ getter' = [getter EXCEPT ![g] = t]
          /\ clean' = clean \/ clean' = clean \cup {g}
          /\ UNCHANGED <<want, callVars, loaded, listening, view, frames, lost, drops>>
          BY <1>8 DEF Open, Refresh, StartLoad
    <2>2. opened' = opened \cup {t}
          BY <1>8 DEF Open, Refresh
    <2>3. overlap' \in [Tabs -> SUBSET {"changes", "opening"}]
      <3>1. overlap' = [overlap EXCEPT ![t] = IF Busy = {} THEN @ ELSE @ \cup {"opening"}]
            BY <1>8 DEF Open, Refresh, StartLoad
      <3>2. CASE Busy = {}
            BY <3>1, <3>2 DEF DataInv
      <3>3. CASE Busy # {}
            BY <3>1, <3>3 DEF DataInv
      <3> QED
          BY <3>2, <3>3
    <2>4. /\ getter' \in [Gets -> Tabs \cup {NoTab}] /\ load' \in [Gets -> Loads]
          /\ \A h \in Gets : load'[h] \notin {"new", "done"} => getter'[h] \in opened'
          /\ clean' \subseteq {h \in Gets : load'[h] \notin {"new", "done"}}
      <3>1. /\ load' \in [Gets -> Loads] /\ getter' \in [Gets -> Tabs \cup {NoTab}]
            /\ load'[g] = "types" /\ getter'[g] = t
            /\ \A h \in Gets : h # g => load'[h] = load[h] /\ getter'[h] = getter[h]
            BY <2>1 DEF DataInv
      <3> QED
          BY <2>1, <2>2, <3>1 DEF DataInv
    <2>5. opened' \subseteq Tabs /\ listening' \subseteq opened'
          BY <2>1, <2>2 DEF DataInv
    <2> QED
        BY <2>1, <2>3, <2>4, <2>5 DEF DataInv
  <1>9. ASSUME NEW g \in Gets, LoadTypes(g) \/ LoadAddrs(g) PROVE DataInv'
    <2>1. loaded' \in [Gets -> Sets]
      <3>1. CASE LoadTypes(g)
        <4>1. loaded' = [loaded EXCEPT ![g] = [@ EXCEPT !.types = want.types]]
              BY <3>1 DEF LoadTypes
        <4>2. [loaded[g] EXCEPT !.types = want.types] \in Sets
              BY DEF DataInv, Sets
        <4> QED
            BY <4>1, <4>2 DEF DataInv
      <3>2. CASE LoadAddrs(g)
        <4>1. loaded' = [loaded EXCEPT ![g] = [@ EXCEPT !.addrs = want.addrs]]
              BY <3>2 DEF LoadAddrs
        <4>2. [loaded[g] EXCEPT !.addrs = want.addrs] \in Sets
              BY DEF DataInv, Sets
        <4> QED
            BY <4>1, <4>2 DEF DataInv
      <3> QED
          BY <1>9, <3>1, <3>2
    <2> QED
        BY <1>9, <2>1, ZenonT(60) DEF DataInv, LoadTypes, LoadAddrs
  <1>10. ASSUME NEW g \in Gets, ApplyLoad(g) \/ LoadFails(g) PROVE DataInv'
    <2>1. InitialSet \in Sets
          BY DEF InitialSet, Sets
    <2>2. /\ load[g] = "answered" /\ load' = [load EXCEPT ![g] = "done"]
          /\ getter' = [getter EXCEPT ![g] = NoTab]
          /\ loaded' = [loaded EXCEPT ![g] = InitialSet]
          /\ clean' = clean \ {g}
          /\ UNCHANGED <<want, callVars, opened, listening, frames, drops>>
          BY <1>10 DEF ApplyLoad, LoadFails, EndLoad
    <2>3. getter[g] \in Tabs /\ loaded[g] \in Sets
          BY <2>2 DEF DataInv
    <2>4. /\ view' \in [Tabs -> Sets]
          /\ overlap' \in [Tabs -> SUBSET {"changes", "opening"}]
          /\ lost' \in [Tabs -> BOOLEAN]
      <3>1. view' = view \/ view' = [view EXCEPT ![getter[g]] = loaded[g]]
            BY <1>10 DEF ApplyLoad, LoadFails
      <3>2. \/ overlap' = overlap /\ lost' = lost
            \/ /\ overlap' = [overlap EXCEPT ![getter[g]] = {}]
               /\ lost' = [lost EXCEPT ![getter[g]] = FALSE]
            BY <1>10 DEF ApplyLoad, LoadFails
      <3> QED
          BY <2>3, <3>1, <3>2, ZenonT(60) DEF DataInv
    <2> QED
        BY <2>1, <2>2, <2>4 DEF DataInv
  <1>11. ASSUME NEW t \in Tabs, Listen(t) PROVE DataInv'
         BY <1>11 DEF DataInv, Listen
  <1>12. ASSUME NEW t \in Tabs, StreamDrops(t) PROVE DataInv'
    <2>1. \A c \in Calls : todo[c] = {}
          BY <1>12 DEF DataInv, StreamDrops
    <2>2. /\ frames' \in [Tabs -> Seq(Sets)]
          /\ \A u \in Tabs : Len(frames'[u]) <= Capacity
          /\ \A u \in Tabs : u \notin listening' => frames'[u] = <<>>
      <3>1. frames' = [frames EXCEPT ![t] = <<>>] /\ listening' = listening \ {t}
            BY <1>12 DEF StreamDrops
      <3>2. <<>> \in Seq(Sets) /\ Len(<<>>) = 0
            OBVIOUS
      <3>3. /\ frames \in [Tabs -> Seq(Sets)]
            /\ \A u \in Tabs : Len(frames[u]) <= Capacity
            /\ \A u \in Tabs : u \notin listening => frames[u] = <<>>
            BY DEF DataInv
      <3>4. \A u \in Tabs : frames'[u] = IF u = t THEN <<>> ELSE frames[u]
            BY <3>1, <3>3
      <3>5. frames' \in [Tabs -> Seq(Sets)]
            BY <3>1, <3>2, <3>3
      <3>6. \A u \in Tabs : Len(frames'[u]) <= Capacity
            BY <3>2, <3>3, <3>4
      <3> QED
          BY <3>1, <3>3, <3>4, <3>5, <3>6
    <2>3. PICK o \in SUBSET {"changes", "opening"} : overlap' = [overlap EXCEPT ![t] = o]
      <3>1. CASE Busy = {}
            BY <1>12, <3>1 DEF DataInv, StreamDrops
      <3>2. CASE Busy # {}
            BY <1>12, <3>2 DEF DataInv, StreamDrops
      <3> QED
          BY <3>1, <3>2
    <2>4. lost' \in [Tabs -> BOOLEAN]
          BY <1>12 DEF DataInv, StreamDrops
    <2>5. /\ drops < MaxDrops /\ drops' = drops + 1
          /\ listening' = listening \ {t}
          /\ UNCHANGED <<want, callVars, getVars, opened, view, clean>>
          BY <1>12 DEF StreamDrops
    <2>6. todo' \in [Calls -> SUBSET listening']
          BY <2>1, <2>5 DEF DataInv
    <2>7. drops' \in 0 .. MaxDrops
      <3>1. drops \in 0 .. MaxDrops
            BY DEF DataInv
      <3> QED
          BY <2>5, <3>1
    <2>8. listening' \subseteq opened'
          BY <2>5 DEF DataInv
    <2>9. overlap' \in [Tabs -> SUBSET {"changes", "opening"}]
          BY <2>3 DEF DataInv
    <2> QED
        BY <2>1, <2>2, <2>4, <2>5, <2>6, <2>7, <2>8, <2>9 DEF DataInv
  <1>13. ASSUME NEW t \in Tabs, ApplyFrame(t) PROVE DataInv'
    <2>1. /\ frames[t] \in Seq(Sets) /\ frames[t] # <<>> /\ Len(frames[t]) <= Capacity
          /\ t \in listening
          BY <1>13 DEF DataInv, ApplyFrame
    <2>2. /\ Head(frames[t]) \in Sets
          /\ Tail(frames[t]) \in Seq(Sets)
          /\ Len(Tail(frames[t])) <= Capacity
          BY <2>1
    <2> QED
        BY <1>13, <2>1, <2>2 DEF DataInv, ApplyFrame
  <1>14. CASE UNCHANGED vars
         BY <1>14 DEF DataInv
  <1> QED
      BY <1>1, <1>2, <1>3, <1>4, <1>5, <1>6, <1>7, <1>8, <1>9, <1>10, <1>11, <1>12,
         <1>13, <1>14 DEF Next

LEMMA DataInvariant == Spec => []DataInv
  BY InitData, DataStep, PTL DEF Spec

\* The variables keep their types, and a frame is only ever offered to a tab
\* that is registered (broker.go:213-241).
THEOREM DashboardTypes == Spec => []TypeOK
  <1>1. DataInv => TypeOK
        BY DEF DataInv, TypeOK
  <1> QED
      BY <1>1, DataInvariant, PTL

-----------------------------------------------------------------------------
(* Staying in sync.                                                        *)

\* No change the tab could have missed since it last applied a clean GET.
Clean(t) == overlap[t] = {} /\ ~lost[t]

\* What t shows once its queue is empty is the current set.
Told(t) ==
    /\ frames[t] = <<>> => view[t] = want
    /\ frames[t] # <<>> => frames[t][Len(frames[t])] = want

\* What GET g has read so far is current.
Current(g) ==
    /\ load[g] = "addrs" => loaded[g].types = want.types
    /\ load[g] = "answered" => loaded[g] = want

AllCurrent(t) == \A g \in Out(t) : Current(g)

\* What the handler of c has read is current, and it has told t or will.
Telling(c, t) ==
    /\ c \in dynamic \/ arg[c] = want
    /\ stage[c] = "addrs" => read[c].types = want.types
    /\ stage[c] \notin {"types", "addrs"} => read[c] = want
    /\ stage[c] = "broadcast" => t \in todo[c] \/ Told(t)
    /\ stage[c] \in {"echo types", "echo addrs", "answer"} => Told(t)

OneBusy == \A c, d \in Busy : c = d

\* A tab that could have missed nothing: at most one handler is at work, which
\* tells it of the current set; when none is, it has been told, and GETs under way
\* repeat it.
Follows(t) ==
    /\ t \in opened
    /\ \A c \in Busy : Settled(t) /\ Telling(c, t)
    /\ Busy = {} => Told(t) /\ AllCurrent(t)

\* A tab with a clean GET under way: whichever of its GETs answers last, the answer
\* is current.
Repairs(t) ==
    /\ Busy = {}
    /\ frames[t] = <<>>
    /\ Out(t) \subseteq clean
    /\ AllCurrent(t)

TabInv(t) ==
    /\ "changes" \notin overlap[t] => OneBusy
    /\ Clean(t) => Follows(t)
    /\ Out(t) \cap clean # {} => Repairs(t)

\* The handler at work takes a step that is not its last.
LEMMA HandlerStep ==
    ASSUME DataInv, NEW t \in Tabs, NEW c \in Busy, TabInv(t),
           Busy' = Busy, UNCHANGED <<getVars, opened, listening, overlap, clean>>,
           lost[t] => lost'[t],
           Telling(c, t) /\ ~lost'[t] => Telling(c, t)'
    PROVE  TabInv(t)'
  <1>1. OneBusy' <=> OneBusy
        BY DEF OneBusy
  <1>2. Out(t)' = Out(t) /\ Out(t) \cap clean = {}
        BY DEF Out, getVars, TabInv, Repairs
  <1>3. ASSUME Clean(t)' PROVE Follows(t)'
    <2>1. Clean(t) /\ ~lost'[t]
          BY <1>3 DEF Clean
    <2>2. Follows(t)
          BY <2>1 DEF TabInv
    <2>3. ASSUME NEW b \in Busy PROVE (Settled(t))' /\ Telling(b, t)'
      <3>1. b = c
            BY <2>1 DEF TabInv, Clean, OneBusy
      <3>2. Settled(t) /\ Telling(c, t)
            BY <2>2 DEF Follows
      <3> QED
          BY <1>2, <2>1, <3>1, <3>2 DEF Settled
    <2> QED
        BY <2>2, <2>3 DEF Follows
  <1> QED
      BY <1>1, <1>2, <1>3 DEF TabInv

\* Nothing that TabInv(t) speaks of changes.
LEMMA TabKept ==
    ASSUME NEW t \in Tabs, TabInv(t), UNCHANGED <<want, callVars, listening>>,
           Out(t)' = Out(t), clean' \cap Out(t) = clean \cap Out(t),
           t \in opened => t \in opened',
           \A g \in Out(t) : load'[g] = load[g] /\ loaded'[g] = loaded[g],
           frames'[t] = frames[t], view'[t] = view[t],
           overlap'[t] = overlap[t], lost'[t] = lost[t]
    PROVE  TabInv(t)'
  <1>1. Busy' = Busy
        BY DEF Busy, callVars
  <1>2. Told(t)' <=> Told(t)
        BY DEF Told
  <1>3. \A c \in Busy : Telling(c, t)' <=> Telling(c, t)
        BY <1>2 DEF Telling, callVars
  <1>4. AllCurrent(t)' <=> AllCurrent(t)
        BY DEF AllCurrent, Current
  <1>5. (Settled(t))' = Settled(t) /\ Clean(t)' = Clean(t)
        BY DEF Settled, Clean
  <1>6. Follows(t) => Follows(t)'
        BY <1>1, <1>2, <1>3, <1>4, <1>5 DEF Follows
  <1>7. Repairs(t) => Repairs(t)'
        BY <1>1, <1>4 DEF Repairs
  <1> QED
      BY <1>1, <1>5, <1>6, <1>7 DEF TabInv, OneBusy

\* Appending the current set tells the tab of it.
LEMMA AppendTells ==
    ASSUME DataInv, NEW t \in Tabs, NEW s \in Sets,
           s = want', frames'[t] = Append(frames[t], s)
    PROVE  Told(t)'
  <1>1. frames[t] \in Seq(Sets)
        BY DEF DataInv
  <1>2. /\ Append(frames[t], s) # <<>>
        /\ Append(frames[t], s)[Len(Append(frames[t], s))] = s
        BY <1>1
  <1> QED
      BY <1>2 DEF Told

\* The last frame stays the last until it is taken.
LEMMA LastOfTail ==
    ASSUME NEW S, NEW q \in Seq(S), q # <<>>
    PROVE  /\ Tail(q) = <<>> => Head(q) = q[Len(q)]
           /\ Tail(q) # <<>> => Tail(q)[Len(Tail(q))] = q[Len(q)]
  <1>1. /\ Len(q) \in Nat \ {0} /\ Head(q) = q[1]
        /\ Tail(q) \in Seq(S) /\ Len(Tail(q)) = Len(q) - 1
        /\ \A i \in 1 .. Len(q) - 1 : Tail(q)[i] = q[i + 1]
        OBVIOUS
  <1>2. ASSUME Tail(q) = <<>> PROVE Head(q) = q[Len(q)]
    <2>1. ASSUME NEW s \in Seq(S) PROVE s = <<>> <=> Len(s) = 0
          OBVIOUS
    <2>2. Len(q) - 1 = 0 /\ Len(q) \in Nat
          BY <1>1, <1>2, <2>1, Zenon
    <2>3. Len(q) = 1
          BY <2>2
    <2> QED
        BY <1>1, <2>3
  <1>3. ASSUME Tail(q) # <<>> PROVE Tail(q)[Len(Tail(q))] = q[Len(q)]
        BY <1>1, <1>3
  <1> QED
      BY <1>2, <1>3

\* The tab takes its next frame: the last one wins.
LEMMA TakingTells ==
    ASSUME DataInv, NEW t \in Tabs, Told(t), frames[t] # <<>>, want' = want,
           view'[t] = Head(frames[t]), frames'[t] = Tail(frames[t])
    PROVE  Told(t)'
  <1> DEFINE q == frames[t]
  <1>1. q \in Seq(Sets) /\ q # <<>> /\ q[Len(q)] = want
        BY DEF DataInv, Told
  <1> HIDE DEF q
  <1>2. CASE Tail(q) = <<>>
        BY <1>1, <1>2, LastOfTail DEF Told, q
  <1>3. CASE Tail(q) # <<>>
        BY <1>1, <1>3, LastOfTail DEF Told, q
  <1> QED
      BY <1>2, <1>3

\* A GET that starts has read nothing yet; one that starts while a handler is at
\* work marks the tab.
LEMMA LoadStep ==
    ASSUME DataInv, NEW t \in Tabs, NEW g \in Gets, TabInv(t), StartLoad(t, g),
           opened \subseteq opened'
    PROVE  TabInv(t)'
  <1>1. /\ Busy' = Busy /\ load[g] = "new" /\ load'[g] = "types"
        /\ UNCHANGED <<want, loaded, listening, frames, view, lost>>
        /\ Out(t)' = Out(t) \cup {g} /\ g \notin Out(t)
        BY DEF StartLoad, DataInv, Busy, Out, callVars
  <1>2. Told(t)' <=> Told(t)
        BY <1>1 DEF Told
  <1>3. OneBusy' <=> OneBusy
        BY <1>1 DEF OneBusy
  <1>4. AllCurrent(t) => AllCurrent(t)'
    <2> SUFFICES ASSUME AllCurrent(t), NEW h \in Out(t)' PROVE Current(h)'
        BY DEF AllCurrent
    <2>1. CASE h = g
          BY <1>1, <2>1 DEF Current
    <2>2. CASE h # g
      <3>1. Current(h) /\ load'[h] = load[h]
            BY <1>1, <2>2 DEF AllCurrent, StartLoad, DataInv, Out
      <3> QED
          BY <1>1, <3>1 DEF Current
    <2> QED
        BY <2>1, <2>2
  <1>5. ASSUME Clean(t)' PROVE Follows(t)'
    <2>1. overlap'[t] = IF Busy = {} THEN overlap[t] ELSE overlap[t] \cup {"opening"}
          BY DEF StartLoad, DataInv
    <2>2. Busy = {} /\ Clean(t)
          BY <1>1, <1>5, <2>1 DEF Clean
    <2> QED
        BY <1>1, <1>2, <1>4, <2>2 DEF TabInv, Follows
  <1>6. ASSUME Out(t)' \cap clean' # {} PROVE Repairs(t)'
    <2>1. CASE Busy = {} /\ frames[t] = <<>> /\ Out(t) \subseteq clean
      <3>1. clean' = clean \cup {g}
            BY <2>1 DEF StartLoad
      <3>2. AllCurrent(t)
        <4>1. CASE Out(t) = {}
              BY <4>1 DEF AllCurrent
        <4>2. CASE Out(t) # {}
              BY <2>1, <4>2 DEF TabInv, Repairs
        <4> QED
            BY <4>1, <4>2
      <3> QED
          BY <1>1, <1>4, <2>1, <3>1, <3>2 DEF Repairs
    <2>2. CASE ~(Busy = {} /\ frames[t] = <<>> /\ Out(t) \subseteq clean)
      <3>1. clean' = clean
            BY <2>2 DEF StartLoad
      <3>2. Out(t) \cap clean = {}
            BY <2>2 DEF TabInv, Repairs
      <3>3. g \notin clean
            BY <1>1 DEF DataInv
      <3> QED
          BY <1>1, <1>6, <3>1, <3>2, <3>3
    <2> QED
        BY <2>1, <2>2
  <1>7. "changes" \notin overlap'[t] => "changes" \notin overlap[t]
        BY DEF StartLoad, DataInv
  <1> QED
      BY <1>3, <1>5, <1>6, <1>7 DEF TabInv

LEMMA SyncStep ==
    ASSUME DataInv, NEW t \in Tabs, TabInv(t), [Next]_vars
    PROVE  TabInv(t)'
  <1> USE DashboardAssumption
      DEF DashboardAssumption, Stages, Loads, Goto, callVars, getVars, tabVars, histVars,
          vars
  <1>a. DataInv'
        BY DataStep
  \* A change starts a handler; a tab that may have missed something is marked.
  <1>1. ASSUME NEW c \in Calls, Apply(c) PROVE TabInv(t)'
    <2>1. /\ Busy' = Busy \cup {c} /\ stage'[c] = "types" /\ clean' = {}
          /\ UNCHANGED <<getVars, opened, listening, lost>>
      <3>1. stage \in [Calls -> Stages] /\ stage[c] = "new"
            BY <1>1 DEF Apply, DataInv
      <3>2. \A b \in Calls : stage'[b] = IF b = c THEN "types" ELSE stage[b]
            BY <1>1, <3>1 DEF Apply
      <3>3. clean' = {} /\ UNCHANGED <<getVars, opened, listening, lost>>
            BY <1>1 DEF Apply
      <3> QED
          BY <3>1, <3>2, <3>3 DEF Busy
    <2>2. /\ Busy # {} => "changes" \in overlap'[t]
          /\ t \in Opening => "opening" \in overlap'[t]
          /\ overlap[t] \subseteq overlap'[t]
          BY <1>1 DEF Apply
    <2>3. c \in dynamic' \/ arg'[c] = want'
          BY <1>1 DEF Apply, DataInv
    <2>4. ASSUME "changes" \notin overlap'[t] PROVE Busy' = {c}
          BY <2>1, <2>2, <2>4
    <2>5. ASSUME Clean(t)' PROVE Follows(t)'
      <3>1. Clean(t) /\ t \notin Opening /\ Busy' = {c}
            BY <2>1, <2>2, <2>4, <2>5 DEF Clean
      <3>2. t \in opened /\ Settled(t)
            BY <3>1 DEF TabInv, Follows, Opening
      <3>3. Out(t)' = Out(t)
            BY <2>1 DEF Out
      <3>4. (Settled(t))' /\ t \in opened'
            BY <2>1, <3>2, <3>3 DEF Settled
      <3>5. Telling(c, t)'
            BY <2>1, <2>3 DEF Telling
      <3> QED
          BY <3>1, <3>4, <3>5 DEF Follows
    <2>6. "changes" \notin overlap'[t] => OneBusy'
          BY <2>4 DEF OneBusy
    <2> QED
        BY <2>1, <2>5, <2>6 DEF TabInv
  <1>2. ASSUME NEW c \in Calls, Fail(c) PROVE TabInv(t)'
    <2>1. /\ Busy' = Busy /\ \A b \in Busy : stage'[b] = stage[b]
          /\ UNCHANGED <<want, caller, dynamic, arg, read, todo, getVars, tabVars, frames,
                         histVars>>
          BY <1>2 DEF Fail, Busy, DataInv
    <2>2. (Told(t)' <=> Told(t)) /\ Out(t)' = Out(t)
          BY <2>1 DEF Told, Out
    <2>3. \A b \in Busy : Telling(b, t)' <=> Telling(b, t)
          BY <2>1, <2>2 DEF Telling
    <2>4. (Settled(t))' = Settled(t) /\ Clean(t)' = Clean(t)
          BY <2>1, <2>2 DEF Settled, Clean
    <2>5. AllCurrent(t)' <=> AllCurrent(t)
          BY <2>1, <2>2 DEF AllCurrent, Current
    <2>6. (Follows(t) => Follows(t)') /\ (Repairs(t) => Repairs(t)')
          BY <2>1, <2>2, <2>3, <2>4, <2>5 DEF Follows, Repairs
    <2> QED
        BY <2>1, <2>2, <2>4, <2>6 DEF TabInv, OneBusy
  \* What it reads is what it, or nobody since, has made current.
  <1>3. ASSUME NEW c \in Calls, ReadTypes(c) PROVE TabInv(t)'
    <2>1. /\ c \in Busy /\ Busy' = Busy
          /\ UNCHANGED <<want, dynamic, arg, todo, getVars, tabVars, frames, histVars>>
          BY <1>3 DEF ReadTypes, Busy, DataInv
    <2>2. Told(t)' <=> Told(t)
          BY <2>1 DEF Told
    <2>3. read'[c] = [read[c] EXCEPT !.types = want.types] /\ read[c] \in Sets /\ want \in Sets
          BY <1>3 DEF ReadTypes, DataInv
    <2>4. ASSUME Telling(c, t) PROVE Telling(c, t)'
      <3>1. CASE stage[c] = "types"
        <4>1. stage'[c] = "addrs"
              BY <1>3, <3>1 DEF ReadTypes, DataInv
        <4>2. read'[c].types = want.types
              BY <2>3 DEF Sets
        <4> QED
            BY <2>1, <2>4, <4>1, <4>2 DEF Telling
      <3>2. CASE stage[c] = "echo types"
        <4>1. stage'[c] = "echo addrs"
              BY <1>3, <3>2 DEF ReadTypes, DataInv
        <4>2. read[c] = want /\ Told(t)
              BY <2>4, <3>2 DEF Telling
        <4>3. read'[c] = want
              BY <2>3, <4>2 DEF Sets
        <4> QED
            BY <2>1, <2>2, <2>4, <4>1, <4>2, <4>3 DEF Telling
      <3> QED
          BY <1>3, <3>1, <3>2 DEF ReadTypes
    <2> QED
        BY <2>1, <2>4, HandlerStep
  <1>4. ASSUME NEW c \in Calls, ReadAddrs(c) PROVE TabInv(t)'
    <2>1. /\ c \in Busy /\ Busy' = Busy
          /\ UNCHANGED <<want, dynamic, arg, todo, getVars, tabVars, frames, histVars>>
          BY <1>4 DEF ReadAddrs, Busy, DataInv
    <2>2. Told(t)' <=> Told(t)
          BY <2>1 DEF Told
    <2>3. read'[c] = [read[c] EXCEPT !.addrs = want.addrs] /\ read[c] \in Sets /\ want \in Sets
          BY <1>4 DEF ReadAddrs, DataInv
    <2>4. ASSUME Telling(c, t) PROVE Telling(c, t)'
      <3>1. CASE stage[c] = "addrs"
        <4>1. stage'[c] = "lock"
              BY <1>4, <3>1 DEF ReadAddrs, DataInv
        <4>2. read[c].types = want.types
              BY <2>4, <3>1 DEF Telling
        <4>3. read'[c] = want
              BY <2>3, <4>2 DEF Sets
        <4> QED
            BY <2>1, <2>4, <4>1, <4>3 DEF Telling
      <3>2. CASE stage[c] = "echo addrs"
        <4>1. stage'[c] = "answer"
              BY <1>4, <3>2 DEF ReadAddrs, DataInv
        <4>2. read[c] = want /\ Told(t)
              BY <2>4, <3>2 DEF Telling
        <4>3. read'[c] = want
              BY <2>3, <4>2 DEF Sets
        <4> QED
            BY <2>1, <2>2, <2>4, <4>1, <4>2, <4>3 DEF Telling
      <3> QED
          BY <1>4, <3>1, <3>2 DEF ReadAddrs
    <2> QED
        BY <2>1, <2>4, HandlerStep
  <1>5. ASSUME NEW c \in Calls, Broadcast(c) PROVE TabInv(t)'
    <2>1. /\ c \in Busy /\ Busy' = Busy
          /\ stage[c] = "lock" /\ stage'[c] = "broadcast" /\ todo'[c] = listening
          /\ UNCHANGED <<want, dynamic, arg, read, getVars, tabVars, frames, histVars>>
          BY <1>5 DEF Broadcast, Busy, DataInv
    <2>2. CASE t \in listening
      <3>1. Telling(c, t) => Telling(c, t)'
            BY <2>1, <2>2 DEF Telling
      <3> QED
          BY <2>1, <3>1, HandlerStep
    <2>3. CASE t \notin listening
      <3>1. ~Clean(t) /\ Out(t) \cap clean = {}
            BY <2>1, <2>3 DEF TabInv, Follows, Repairs, Settled
      <3>2. Out(t)' = Out(t) /\ ~Clean(t)'
            BY <2>1, <3>1 DEF Out, Clean
      <3> QED
          BY <2>1, <3>1, <3>2 DEF TabInv, OneBusy
    <2> QED
        BY <2>2, <2>3
  \* t is told, another tab is, or t is marked.
  <1>6. ASSUME NEW c \in Calls, NEW u \in Tabs, Offer(c, u) PROVE TabInv(t)'
    <2>1. /\ c \in Busy /\ Busy' = Busy
          /\ stage[c] = "broadcast" /\ stage' = stage /\ todo'[c] = todo[c] \ {u}
          /\ UNCHANGED <<want, dynamic, arg, read, getVars, tabVars, overlap, clean>>
          BY <1>6 DEF Offer, Busy, DataInv
    <2>2. lost[t] => lost'[t]
          BY <1>6 DEF Offer, DataInv
    <2>3. ASSUME Telling(c, t), ~lost'[t] PROVE Telling(c, t)'
      <3>1. CASE u = t
        <4>1. frames'[t] = Append(frames[t], read[c])
              BY <1>6, <2>3, <3>1 DEF Offer, DataInv
        <4>2. read[c] = want' /\ read[c] \in Sets
              BY <2>1, <2>3 DEF Telling, DataInv
        <4>3. Told(t)'
              BY <4>1, <4>2, AppendTells
        <4> QED
            BY <2>1, <2>3, <4>3 DEF Telling
      <3>2. CASE u # t
        <4>1. frames'[t] = frames[t]
              BY <1>6, <3>2 DEF Offer, DataInv
        <4>2. Told(t)' <=> Told(t)
              BY <2>1, <4>1 DEF Told
        <4> QED
            BY <2>1, <2>3, <3>2, <4>2 DEF Telling
      <3> QED
          BY <3>1, <3>2
    <2> QED
        BY <2>1, <2>2, <2>3, HandlerStep
  <1>7. ASSUME NEW c \in Calls, Offered(c) PROVE TabInv(t)'
    <2>1. /\ c \in Busy /\ Busy' = Busy
          /\ stage[c] = "broadcast" /\ stage'[c] \in {"echo types", "answer"}
          /\ todo[c] = {} /\ (read'[c] = read[c] \/ (c \notin dynamic /\ read'[c] = arg[c]))
          /\ UNCHANGED <<want, dynamic, arg, todo, getVars, tabVars, frames, histVars>>
          BY <1>7, ZenonT(60) DEF Offered, Busy, DataInv
    <2>2. Told(t)' <=> Told(t)
          BY <2>1 DEF Told
    <2>3. Telling(c, t) => Telling(c, t)'
          BY <2>1, <2>2 DEF Telling
    <2> QED
        BY <2>1, <2>3, HandlerStep
  \* The handler is done: what it has told, its own answer repeats.
  <1>8. ASSUME NEW c \in Calls, ApplyAnswer(c) PROVE TabInv(t)'
    <2>1. /\ c \in Busy /\ Busy' = Busy \ {c} /\ stage[c] = "answer"
          /\ UNCHANGED <<want, getVars, opened, listening, frames, overlap, lost, clean>>
          BY <1>8 DEF ApplyAnswer, Busy, DataInv
    <2>2. view'[t] = view[t] \/ view'[t] = read[c]
      <3>1. \/ view' = view
            \/ caller[c] # NoTab /\ view' = [view EXCEPT ![caller[c]] = read[c]]
            BY <1>8 DEF ApplyAnswer
      <3> QED
          BY <3>1 DEF DataInv
    <2>3. Out(t)' = Out(t) /\ Out(t) \cap clean = {}
          BY <2>1 DEF Out, TabInv, Repairs
    <2>4. ASSUME Clean(t)' PROVE Follows(t)'
      <3>1. Follows(t) /\ Busy' = {}
            BY <2>1, <2>4 DEF TabInv, Clean, OneBusy
      <3>2. t \in opened /\ Settled(t) /\ Telling(c, t)
            BY <2>1, <3>1 DEF Follows
      <3>3. Told(t) /\ read[c] = want
            BY <2>1, <3>2 DEF Telling
      <3>4. Told(t)'
            BY <2>1, <2>2, <3>3 DEF Told
      <3>5. AllCurrent(t)'
            BY <2>3, <3>2 DEF AllCurrent, Settled
      <3> QED
          BY <2>1, <3>1, <3>2, <3>4, <3>5 DEF Follows
    <2>5. "changes" \notin overlap'[t] => OneBusy'
          BY <2>1 DEF TabInv, OneBusy
    <2> QED
        BY <2>1, <2>3, <2>4, <2>5 DEF TabInv
  <1>9. ASSUME NEW u \in Tabs, NEW g \in Gets, Open(u, g) \/ Refresh(u, g) PROVE TabInv(t)'
    <2>1. StartLoad(u, g) /\ opened \subseteq opened'
          BY <1>9 DEF Open, Refresh
    <2>2. CASE u = t
          BY <2>1, <2>2, LoadStep
    <2>3. CASE u # t
      <3>1. /\ UNCHANGED <<want, callVars, listening, loaded, frames, view>>
            /\ overlap'[t] = overlap[t] /\ lost' = lost
            BY <2>1, <2>3 DEF StartLoad, DataInv
      <3>2. \A h \in Gets : h # g => load'[h] = load[h] /\ getter'[h] = getter[h]
            BY <2>1 DEF StartLoad, DataInv
      <3>3. load[g] = "new" /\ getter'[g] = u
            BY <2>1 DEF StartLoad, DataInv
      <3>4. Out(t)' = Out(t) /\ g \notin Out(t)
            BY <2>3, <3>2, <3>3 DEF Out
      <3>5. clean' \cap Out(t) = clean \cap Out(t)
        <4>1. clean' = clean \/ clean' = clean \cup {g}
              BY <2>1 DEF StartLoad
        <4> QED
            BY <3>4, <4>1
      <3>6. \A h \in Out(t) : load'[h] = load[h] /\ loaded'[h] = loaded[h]
            BY <3>1, <3>2, <3>4 DEF Out
      <3> QED
          BY <2>1, <3>1, <3>4, <3>5, <3>6, TabKept
    <2> QED
        BY <2>2, <2>3
  \* While no handler is at work, what is read stays current.
  <1>10. ASSUME NEW g \in Gets, LoadTypes(g) \/ LoadAddrs(g) PROVE TabInv(t)'
    <2>1. /\ UNCHANGED <<want, callVars, getter, tabVars, frames, histVars>>
          /\ load[g] \in {"types", "addrs"} /\ load'[g] \in {"addrs", "answered"}
          /\ \A h \in Gets : h # g => load'[h] = load[h] /\ loaded'[h] = loaded[h]
      <3>1. loaded \in [Gets -> Sets] /\ load \in [Gets -> Loads]
            BY DEF DataInv
      <3>2. CASE LoadTypes(g)
            BY <3>1, <3>2 DEF LoadTypes
      <3>3. CASE LoadAddrs(g)
            BY <3>1, <3>3 DEF LoadAddrs
      <3> QED
          BY <1>10, <3>2, <3>3
    <2>2. Out(t)' = Out(t)
          BY <2>1 DEF Out
    <2>3. Current(g) => Current(g)'
      <3>1. loaded[g] \in Sets /\ want \in Sets
            BY DEF DataInv
      <3>2. CASE LoadTypes(g)
        <4>1. /\ load'[g] = "addrs" /\ want' = want
              /\ loaded'[g] = [loaded[g] EXCEPT !.types = want.types]
              BY <3>2 DEF LoadTypes, DataInv
        <4>2. loaded'[g].types = want.types
              BY <3>1, <4>1 DEF Sets
        <4> QED
            BY <4>1, <4>2 DEF Current
      <3>3. CASE LoadAddrs(g)
        <4>1. /\ load[g] = "addrs" /\ load'[g] = "answered" /\ want' = want
              /\ loaded'[g] = [loaded[g] EXCEPT !.addrs = want.addrs]
              BY <3>3 DEF LoadAddrs, DataInv
        <4>2. ASSUME loaded[g].types = want.types PROVE loaded'[g] = want
              BY <3>1, <4>1, <4>2 DEF Sets
        <4> QED
            BY <4>1, <4>2 DEF Current
      <3> QED
          BY <1>10, <3>2, <3>3
    <2>4. AllCurrent(t) => AllCurrent(t)'
      <3> SUFFICES ASSUME AllCurrent(t), NEW h \in Out(t) PROVE Current(h)'
          BY <2>2 DEF AllCurrent
      <3>1. Current(h)
            BY DEF AllCurrent
      <3>2. CASE h = g
            BY <2>3, <3>1, <3>2
      <3>3. CASE h # g
            BY <2>1, <3>1, <3>3 DEF Current, Out
      <3> QED
          BY <3>2, <3>3
    <2>5. Busy' = Busy /\ (Told(t)' <=> Told(t))
          BY <2>1 DEF Busy, Told
    <2>6. \A c \in Busy : Telling(c, t)' <=> Telling(c, t)
          BY <2>1, <2>5 DEF Telling
    <2>7. (Settled(t))' = Settled(t) /\ Clean(t)' = Clean(t)
          BY <2>1, <2>2 DEF Settled, Clean
    <2>8. (Follows(t) => Follows(t)') /\ (Repairs(t) => Repairs(t)')
          BY <2>1, <2>2, <2>4, <2>5, <2>6, <2>7 DEF Follows, Repairs
    <2> QED
        BY <2>1, <2>2, <2>5, <2>7, <2>8 DEF TabInv, OneBusy
  \* The answer of a clean GET is current, and so are those that are still to come.
  <1>11. ASSUME NEW g \in Gets, ApplyLoad(g) \/ LoadFails(g) PROVE TabInv(t)'
    <2>1. /\ UNCHANGED <<want, callVars, opened, listening, frames>>
          /\ load[g] = "answered" /\ load'[g] = "done" /\ clean' = clean \ {g}
          /\ \A h \in Gets : h # g => /\ load'[h] = load[h] /\ loaded'[h] = loaded[h]
                                      /\ getter'[h] = getter[h]
          /\ getter[g] \in Tabs
          BY <1>11 DEF ApplyLoad, LoadFails, EndLoad, DataInv
    <2>2. Out(t)' = Out(t) \ {g}
          BY <2>1 DEF Out
    <2>3. AllCurrent(t) => AllCurrent(t)'
          BY <2>1, <2>2 DEF AllCurrent, Current, Out
    <2>4. Busy' = Busy
          BY <2>1 DEF Busy
    <2>5. CASE getter[g] # t
      <3>1. g \notin Out(t)
            BY <2>5 DEF Out
      <3>2. view'[t] = view[t] /\ overlap'[t] = overlap[t] /\ lost'[t] = lost[t]
        <4>1. CASE ApplyLoad(g)
              BY <2>1, <2>5, <4>1 DEF ApplyLoad, DataInv
        <4>2. CASE LoadFails(g)
              BY <4>2 DEF LoadFails
        <4> QED
            BY <1>11, <4>1, <4>2
      <3>3. \A h \in Out(t) : load'[h] = load[h] /\ loaded'[h] = loaded[h]
            BY <2>1, <3>1 DEF Out
      <3> QED
          BY <2>1, <2>2, <3>1, <3>2, <3>3, TabKept
    <2>6. CASE getter[g] = t
      <3>1. g \in Out(t)
            BY <2>1, <2>6 DEF Out
      <3>2. view'[t] = view[t] \/ view'[t] = loaded[g]
            BY <1>11, <2>1, <2>6 DEF ApplyLoad, LoadFails, DataInv
      <3>3. ASSUME Follows(t) PROVE Follows(t)'
        <4>1. Busy = {}
              BY <3>1, <3>3 DEF Follows, Settled
        <4>2. Told(t) /\ AllCurrent(t) /\ t \in opened
              BY <3>3, <4>1 DEF Follows
        <4>3. loaded[g] = want
              BY <2>1, <3>1, <4>2 DEF AllCurrent, Current
        <4>4. Told(t)'
              BY <2>1, <3>2, <4>2, <4>3 DEF Told
        <4> QED
            BY <2>1, <2>3, <2>4, <4>1, <4>2, <4>4 DEF Follows
      <3>4. ASSUME g \in clean, ApplyLoad(g) PROVE Follows(t)' /\ OneBusy'
        <4>1. Repairs(t)
              BY <3>1, <3>4 DEF TabInv
        <4>2. loaded[g] = want /\ Busy = {} /\ frames[t] = <<>> /\ AllCurrent(t)
              BY <2>1, <3>1, <4>1 DEF Repairs, AllCurrent, Current
        <4>3. view'[t] = loaded[g]
              BY <2>6, <2>1, <3>4 DEF ApplyLoad, DataInv
        <4>4. Told(t)'
              BY <2>1, <4>2, <4>3 DEF Told
        <4>5. t \in opened
              BY <2>1, <2>6 DEF DataInv
        <4> QED
            BY <2>1, <2>3, <2>4, <4>2, <4>4, <4>5 DEF Follows, OneBusy
      <3>5. ASSUME ~(g \in clean /\ ApplyLoad(g)) PROVE UNCHANGED <<overlap, lost>>
            BY <1>11, <3>5 DEF ApplyLoad, LoadFails
      <3>6. (Clean(t)' => Follows(t)') /\ ("changes" \notin overlap'[t] => OneBusy')
        <4>1. CASE g \in clean /\ ApplyLoad(g)
              BY <3>4, <4>1
        <4>2. CASE ~(g \in clean /\ ApplyLoad(g))
              BY <2>4, <3>3, <3>5, <4>2 DEF TabInv, Clean, OneBusy
        <4> QED
            BY <4>1, <4>2
      <3>7. ASSUME Out(t)' \cap clean' # {} PROVE Repairs(t)'
        <4>1. Repairs(t)
              BY <2>1, <2>2, <3>7 DEF TabInv
        <4> QED
            BY <2>1, <2>2, <2>3, <2>4, <4>1 DEF Repairs
      <3> QED
          BY <3>6, <3>7 DEF TabInv
    <2> QED
        BY <2>5, <2>6
  <1>12. ASSUME NEW u \in Tabs, Listen(u) PROVE TabInv(t)'
    <2>1. /\ UNCHANGED <<want, callVars, getVars, opened, view, frames, histVars>>
          /\ listening \subseteq listening'
          BY <1>12 DEF Listen
    <2>2. Busy' = Busy /\ (Told(t)' <=> Told(t)) /\ Out(t)' = Out(t)
          BY <2>1 DEF Busy, Told, Out
    <2>3. \A c \in Busy : Telling(c, t)' <=> Telling(c, t)
          BY <2>1, <2>2 DEF Telling
    <2>4. (Settled(t) => (Settled(t))') /\ Clean(t)' = Clean(t)
          BY <2>1, <2>2 DEF Settled, Clean
    <2>5. AllCurrent(t)' <=> AllCurrent(t)
          BY <2>1, <2>2 DEF AllCurrent, Current
    <2>6. (Follows(t) => Follows(t)') /\ (Repairs(t) => Repairs(t)')
          BY <2>1, <2>2, <2>3, <2>4, <2>5 DEF Follows, Repairs
    <2> QED
        BY <2>1, <2>2, <2>4, <2>6 DEF TabInv, OneBusy
  \* Frames that go down with the stream mark the tab, and so does a change
  \* under way.
  <1>13. ASSUME NEW u \in Tabs, StreamDrops(u) PROVE TabInv(t)'
    <2>1. /\ UNCHANGED <<want, callVars, getVars, opened, view, clean>> /\ Busy' = Busy
          /\ listening' = listening \ {u}
          BY <1>13 DEF StreamDrops, Busy
    <2>2. (OneBusy' <=> OneBusy) /\ Out(t)' = Out(t)
          BY <2>1 DEF OneBusy, Out
    <2>3. AllCurrent(t)' <=> AllCurrent(t)
          BY <2>1, <2>2 DEF AllCurrent, Current
    <2>4. CASE u = t
      <3>1. /\ frames'[t] = <<>>
            /\ frames[t] # <<>> => lost'[t]
            /\ lost[t] => lost'[t]
            /\ Busy = {} => overlap'[t] = overlap[t]
            /\ Busy # {} => overlap'[t] = overlap[t] \cup {"opening"}
            BY <1>13, <2>4 DEF StreamDrops, DataInv
      <3>2. ASSUME Clean(t)' PROVE Follows(t)'
        <4>1. Busy = {} /\ Clean(t) /\ frames[t] = <<>>
              BY <3>1, <3>2 DEF Clean
        <4>2. Told(t) /\ AllCurrent(t) /\ t \in opened
              BY <4>1 DEF TabInv, Follows
        <4>3. Told(t)'
              BY <2>1, <3>1, <4>1, <4>2 DEF Told
        <4> QED
            BY <2>1, <2>3, <4>1, <4>2, <4>3 DEF Follows
      <3>3. "changes" \notin overlap'[t] => OneBusy
            BY <3>1 DEF TabInv
      <3>4. Repairs(t) => Repairs(t)'
            BY <2>1, <2>2, <2>3, <3>1 DEF Repairs
      <3> QED
          BY <2>1, <2>2, <3>2, <3>3, <3>4 DEF TabInv
    <2>5. CASE u # t
      <3>1. /\ frames'[t] = frames[t] /\ lost'[t] = lost[t] /\ overlap'[t] = overlap[t]
            /\ t \in listening' <=> t \in listening
            BY <1>13, <2>1, <2>5 DEF StreamDrops, DataInv
      <3>2. Told(t)' <=> Told(t)
            BY <2>1, <3>1 DEF Told
      <3>3. \A c \in Busy : Telling(c, t)' <=> Telling(c, t)
            BY <2>1, <3>2 DEF Telling
      <3>4. (Settled(t))' = Settled(t) /\ Clean(t)' = Clean(t)
            BY <2>2, <3>1 DEF Settled, Clean
      <3>5. (Follows(t) => Follows(t)') /\ (Repairs(t) => Repairs(t)')
            BY <2>1, <2>2, <2>3, <3>1, <3>2, <3>3, <3>4 DEF Follows, Repairs
      <3> QED
          BY <2>1, <2>2, <3>1, <3>4, <3>5 DEF TabInv
    <2> QED
        BY <2>4, <2>5
  <1>14. ASSUME NEW u \in Tabs, ApplyFrame(u) PROVE TabInv(t)'
    <2>1. UNCHANGED <<want, callVars, getVars, opened, listening, histVars>>
          BY <1>14 DEF ApplyFrame
    <2>2. Out(t)' = Out(t) /\ (AllCurrent(t)' <=> AllCurrent(t))
          BY <2>1 DEF AllCurrent, Current, Out
    <2>3. CASE u # t
      <3>1. frames'[t] = frames[t] /\ view'[t] = view[t]
            BY <1>14, <2>3 DEF ApplyFrame, DataInv
      <3> QED
          BY <2>1, <2>2, <3>1, TabKept
    <2>4. CASE u = t
      <3>1. /\ frames[t] # <<>> /\ view'[t] = Head(frames[t])
            /\ frames'[t] = Tail(frames[t])
            BY <1>14, <2>4, ZenonT(60) DEF ApplyFrame, DataInv
      <3>2. Told(t) => Told(t)'
            BY <2>1, <3>1, TakingTells
      <3>3. Busy' = Busy /\ (OneBusy' <=> OneBusy)
            BY <2>1 DEF Busy, OneBusy
      <3>4. \A c \in Busy : Telling(c, t) => Telling(c, t)'
            BY <2>1, <3>2 DEF Telling
      <3>5. (Settled(t))' = Settled(t) /\ Clean(t)' = Clean(t)
            BY <2>1, <2>2 DEF Settled, Clean
      <3>6. Follows(t) => Follows(t)'
            BY <2>1, <2>2, <3>2, <3>3, <3>4, <3>5 DEF Follows
      <3>7. Out(t) \cap clean = {}
            BY <3>1 DEF TabInv, Repairs
      <3> QED
          BY <2>1, <2>2, <3>3, <3>5, <3>6, <3>7 DEF TabInv
    <2> QED
        BY <2>3, <2>4
  <1>15. CASE UNCHANGED vars
    <2>1. Out(t)' = Out(t)
          BY <1>15 DEF Out
    <2> QED
        BY <1>15, <2>1, TabKept
  <1> QED
      BY <1>1, <1>2, <1>3, <1>4, <1>5, <1>6, <1>7, <1>8, <1>9, <1>10, <1>11, <1>12,
         <1>13, <1>14, <1>15, ZenonT(60) DEF Next

\* When nothing is under way, a tab shows the current set, if since it last applied
\* a clean GET no change was made while another one, or a time when the tab did not
\* follow the set, was under way, and none of its frames was lost.  GETs may overlap
\* and answer in any order (app.js:146-231, subscription.go:65-150).
THEOREM SerialTabsStayInSync == Spec => []SerialTabsInSync
  <1> DEFINE SyncInv == \A t \in Tabs : TabInv(t)
  <1>1. Init => SyncInv
        BY DEF Init, TabInv, Clean, OneBusy, Busy, Out
  <1>2. DataInv /\ SyncInv /\ [Next]_vars => SyncInv'
        BY SyncStep
  <1>3. SyncInv => SerialTabsInSync
        BY DEF TabInv, SerialTabsInSync, Quiet, Clean, Follows, Told
  <1> HIDE DEF SyncInv
  <1> QED
      BY <1>1, <1>2, <1>3, DataInvariant, PTL DEF Spec
================================================================================
