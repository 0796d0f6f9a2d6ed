------------------------------- MODULE Dashboard -------------------------------
(***************************************************************************)
(* The subscription set as dashboard tabs see it.  A tab loads it with a   *)
(* GET, then follows "subscription" SSE frames and applies the answers to  *)
(* its own POSTs (web/static/app.js:146-227, 469-503).  A POST handler     *)
(* changes the set, reads it back in two reads, broadcasts what it read    *)
(* and answers its caller (web/handler/subscription.go:65-150,             *)
(* web/server.go:46-48, web/broker/broker.go:213-241).                     *)
(*                                                                         *)
(* A set is a pair of opaque values; the change itself, which runs under   *)
(* reconfigureMu, is module Subscriptions and one step here.  The refresh  *)
(* button asks again at any time, so a tab may have several GETs under     *)
(* way, whose answers arrive in any order.                                 *)
(***************************************************************************)
EXTENDS Naturals, Sequences

CONSTANTS
    Tabs,       \* dashboard tabs
    Gets,       \* GET requests, each from a tab
    Calls,      \* POST requests, each from a tab or from another API consumer
    NoTab,      \* such a consumer
    Values,     \* values of either dimension
    Initial,    \* the value of both at the start
    Asked,      \* the sets that requests make current
    Capacity,   \* of a tab's frame channel (256)
    MaxDrops    \* SSE connections that drop

Sets == [types : Values, addrs : Values]

ASSUME DashboardAssumption ==
    /\ NoTab \notin Tabs
    /\ Asked \subseteq Sets
    /\ Initial \in Values
    /\ Capacity \in Nat \ {0}
    /\ MaxDrops \in Nat

VARIABLES
    want,     \* s.types and s.addresses
    stage,    \* stage[c]: where the handler of c is
    caller,   \* caller[c]
    dynamic,  \* c came through /subscription/subscribe or /unsubscribe
    arg,      \* arg[c]: the set that a c not dynamic asked for and made current
    read,     \* read[c]: what the handler of c has read back
    todo,     \* todo[c]: tabs its broadcast has still to offer the frame
    opened,   \* tabs that are open
    getter,   \* getter[g]: the tab that sent GET g
    load,     \* load[g]: where g is
    loaded,   \* loaded[g]: what g has read
    listening, \* tabs registered for SSE
    frames,   \* frames[t]: subscription frames queued for t
    view,     \* view[t]: serverTypes and serverAddresses
    clean,    \* history: GETs under way, sent when nothing else was that could
              \* disturb them, and no change made since
    overlap,  \* history: overlap[t]: since t last applied a clean GET, a change
              \* overlapped other "changes", or a time when t did not follow the
              \* set (it had a GET under way or was cut off: "opening")
    lost,     \* history: lost[t]: a frame for t was lost since then
    drops

callVars == <<stage, caller, dynamic, arg, read, todo>>
getVars == <<getter, load, loaded>>
tabVars == <<opened, listening, view>>
histVars == <<clean, overlap, lost, drops>>
vars == <<want, callVars, getVars, tabVars, frames, histVars>>

InitialSet == [types |-> Initial, addrs |-> Initial]

Init ==
    /\ want = InitialSet
    /\ stage = [c \in Calls |-> "new"]
    /\ caller = [c \in Calls |-> NoTab]
    /\ dynamic = {}
    /\ arg = [c \in Calls |-> InitialSet]
    /\ read = [c \in Calls |-> InitialSet]
    /\ todo = [c \in Calls |-> {}]
    /\ opened = {}
    /\ getter = [g \in Gets |-> NoTab]
    /\ load = [g \in Gets |-> "new"]
    /\ loaded = [g \in Gets |-> InitialSet]
    /\ listening = {}
    /\ frames = [t \in Tabs |-> <<>>]
    /\ view = [t \in Tabs |-> InitialSet]
    /\ clean = {}
    /\ overlap = [t \in Tabs |-> {"opening"}]
    /\ lost = [t \in Tabs |-> FALSE]
    /\ drops = 0

Busy == {c \in Calls : stage[c] \notin {"new", "done"}}

\* The GETs of t that are under way.
Out(t) == {g \in Gets : load[g] \notin {"new", "done"} /\ getter[g] = t}

Settled(t) == t \in listening /\ Out(t) = {}
Opening == {t \in opened : ~Settled(t)}

-----------------------------------------------------------------------------
(* A POST handler.                                                         *)

Goto(c, s) == stage' = [stage EXCEPT ![c] = s]

\* Reconfigure, AddSubscriptions or RemoveSubscriptions returned.
Apply(c) ==
    /\ stage[c] = "new"
    /\ caller' \in {[caller EXCEPT ![c] = t] : t \in opened \cup {NoTab}}
    /\ dynamic' \in {dynamic, dynamic \cup {c}}
    /\ want' \in Asked
    /\ arg' = IF c \in dynamic' THEN arg ELSE [arg EXCEPT ![c] = want']
    /\ Goto(c, "types")
    /\ overlap' = [t \in Tabs |->
                     overlap[t] \cup (IF Busy # {} THEN {"changes"} ELSE {})
                                \cup (IF t \in Opening THEN {"opening"} ELSE {})]
    /\ clean' = {}
    /\ UNCHANGED <<read, todo, getVars, tabVars, frames, lost, drops>>

\* AddSubscriptions or RemoveSubscriptions returned an error: 502, no frame, and
\* the tab that asked keeps what it shows.
Fail(c) ==
    /\ stage[c] = "new"
    /\ Goto(c, "done")
    /\ UNCHANGED <<want, caller, dynamic, arg, read, todo, getVars, tabVars, frames, histVars>>

\* Types(), then Addresses(): for the frame, and again for a dynamic answer.
ReadTypes(c) ==
    /\ stage[c] \in {"types", "echo types"}
    /\ read' = [read EXCEPT ![c].types = want.types]
    /\ Goto(c, IF stage[c] = "types" THEN "addrs" ELSE "echo addrs")
    /\ UNCHANGED <<want, caller, dynamic, arg, todo, getVars, tabVars, frames, histVars>>

\* Broken: the frame repeats the addresses the handler had before.
ReadOldAddrs(c) ==
    /\ stage[c] \in {"addrs", "echo addrs"}
    /\ Goto(c, IF stage[c] = "addrs" THEN "lock" ELSE "answer")
    /\ UNCHANGED <<want, caller, dynamic, arg, read, todo, getVars, tabVars, frames, histVars>>

ReadAddrs(c) ==
    /\ stage[c] \in {"addrs", "echo addrs"}
    /\ read' = [read EXCEPT ![c].addrs = want.addrs]
    /\ Goto(c, IF stage[c] = "addrs" THEN "lock" ELSE "answer")
    /\ UNCHANGED <<want, caller, dynamic, arg, todo, getVars, tabVars, frames, histVars>>

\* broadcast under the read lock of clientsMu: tab by tab, in any order.
Broadcast(c) ==
    /\ stage[c] = "lock"
    /\ todo' = [todo EXCEPT ![c] = listening]
    /\ Goto(c, "broadcast")
    /\ UNCHANGED <<want, caller, dynamic, arg, read, getVars, tabVars, frames, histVars>>

Offer(c, t) ==
    /\ stage[c] = "broadcast"
    /\ t \in todo[c]
    /\ todo' = [todo EXCEPT ![c] = @ \ {t}]
    /\ IF Len(frames[t]) < Capacity
       THEN frames' = [frames EXCEPT ![t] = Append(@, read[c])] /\ UNCHANGED lost
       ELSE lost' = [lost EXCEPT ![t] = TRUE] /\ UNCHANGED frames
    /\ UNCHANGED <<want, stage, caller, dynamic, arg, read, getVars, tabVars, clean,
                   overlap, drops>>

\* The answer: a second reading, or the request itself.
Offered(c) ==
    /\ stage[c] = "broadcast"
    /\ todo[c] = {}
    /\ IF c \in dynamic
       THEN Goto(c, "echo types") /\ UNCHANGED read
       ELSE Goto(c, "answer") /\ read' = [read EXCEPT ![c] = arg[c]]
    /\ UNCHANGED <<want, caller, dynamic, arg, todo, getVars, tabVars, frames, histVars>>

\* The answer reaches the tab that asked, or is lost on the way.  The variables of
\* the request go with it.
ApplyAnswer(c) ==
    /\ stage[c] = "answer"
    /\ \/ view' = view
       \/ caller[c] # NoTab /\ view' = [view EXCEPT ![caller[c]] = read[c]]
    /\ Goto(c, "done")
    /\ caller' = [caller EXCEPT ![c] = NoTab]
    /\ dynamic' = dynamic \ {c}
    /\ arg' = [arg EXCEPT ![c] = InitialSet]
    /\ read' = [read EXCEPT ![c] = InitialSet]
    /\ UNCHANGED <<want, todo, getVars, opened, listening, frames, histVars>>

-----------------------------------------------------------------------------
(* A tab: loadSubscription() and connectSSE() are both started at once.    *)

\* loadSubscription() sends a GET.  It is clean when no change is under way, no
\* frame of an earlier one is queued, and every other GET of the tab is clean.
StartLoad(t, g) ==
    /\ load[g] = "new"
    /\ load' = [load EXCEPT ![g] = "types"]
    /\ getter' = [getter EXCEPT ![g] = t]
    /\ clean' = IF Busy = {} /\ frames[t] = <<>> /\ Out(t) \subseteq clean
                THEN clean \cup {g} ELSE clean
    /\ overlap' = [overlap EXCEPT ![t] = IF Busy = {} THEN @ ELSE @ \cup {"opening"}]
    /\ UNCHANGED <<want, callVars, loaded, listening, view, frames, lost, drops>>

Open(t, g) == t \notin opened /\ opened' = opened \cup {t} /\ StartLoad(t, g)

\* The refresh button, whatever is under way.
Refresh(t, g) == t \in opened /\ StartLoad(t, g) /\ UNCHANGED opened

\* The GET handler reads Types(), then Addresses().
LoadTypes(g) ==
    /\ load[g] = "types"
    /\ loaded' = [loaded EXCEPT ![g].types = want.types]
    /\ load' = [load EXCEPT ![g] = "addrs"]
    /\ UNCHANGED <<want, callVars, getter, tabVars, frames, histVars>>

LoadAddrs(g) ==
    /\ load[g] = "addrs"
    /\ loaded' = [loaded EXCEPT ![g].addrs = want.addrs]
    /\ load' = [load EXCEPT ![g] = "answered"]
    /\ UNCHANGED <<want, callVars, getter, tabVars, frames, histVars>>

\* GET g is over, and its variables with it.
EndLoad(g) ==
    /\ load[g] = "answered"
    /\ load' = [load EXCEPT ![g] = "done"]
    /\ getter' = [getter EXCEPT ![g] = NoTab]
    /\ loaded' = [loaded EXCEPT ![g] = InitialSet]
    /\ clean' = clean \ {g}
    /\ UNCHANGED <<want, callVars, opened, listening, frames, drops>>

\* The answer is shown, however late it comes.  That of a clean GET brings the tab
\* up to date whatever it missed before.
ApplyLoad(g) ==
    /\ EndLoad(g)
    /\ view' = [view EXCEPT ![getter[g]] = loaded[g]]
    /\ IF g \in clean
       THEN /\ overlap' = [overlap EXCEPT ![getter[g]] = {}]
            /\ lost' = [lost EXCEPT ![getter[g]] = FALSE]
       ELSE UNCHANGED <<overlap, lost>>

\* The fetch fails, wherever it was: its empty catch ignores it.
LoadFails(g) == EndLoad(g) /\ UNCHANGED <<view, overlap, lost>>

\* HandleSSE registers the tab, under the write lock.
Listen(t) ==
    /\ t \in opened \ listening
    /\ \A c \in Calls : stage[c] # "broadcast"
    /\ listening' = listening \cup {t}
    /\ UNCHANGED <<want, callVars, getVars, opened, view, frames, histVars>>

\* Broken: the channel of a tab is taken away while a broadcast offers it a frame.
DropsUnlocked(t) ==
    /\ t \in listening
    /\ drops < MaxDrops
    /\ drops' = drops + 1
    /\ listening' = listening \ {t}
    /\ frames' = [frames EXCEPT ![t] = <<>>]
    /\ lost' = [lost EXCEPT ![t] = @ \/ frames[t] # <<>>]
    /\ overlap' = [overlap EXCEPT ![t] = IF Busy = {} THEN @ ELSE @ \cup {"opening"}]
    /\ UNCHANGED <<want, callVars, getVars, opened, view, clean>>

\* The SSE connection drops: HandleSSE removes the client and its channel.  The
\* EventSource connects again by itself (Listen); the set is not loaded again.
StreamDrops(t) ==
    /\ t \in listening
    /\ \A c \in Calls : stage[c] # "broadcast"
    /\ drops < MaxDrops
    /\ drops' = drops + 1
    /\ listening' = listening \ {t}
    /\ frames' = [frames EXCEPT ![t] = <<>>]
    /\ lost' = [lost EXCEPT ![t] = @ \/ frames[t] # <<>>]
    /\ overlap' = [overlap EXCEPT ![t] = IF Busy = {} THEN @ ELSE @ \cup {"opening"}]
    /\ UNCHANGED <<want, callVars, getVars, opened, view, clean>>

ApplyFrame(t) ==
    /\ frames[t] # <<>>
    /\ view' = [view EXCEPT ![t] = Head(frames[t])]
    /\ frames' = [frames EXCEPT ![t] = Tail(@)]
    /\ UNCHANGED <<want, callVars, getVars, opened, listening, histVars>>

Next ==
    \/ \E c \in Calls :
          \/ Apply(c) \/ Fail(c) \/ ReadTypes(c) \/ ReadAddrs(c) \/ Broadcast(c)
          \/ \E t \in Tabs : Offer(c, t)
          \/ Offered(c) \/ ApplyAnswer(c)
    \/ \E t \in Tabs :
          \/ \E g \in Gets : Open(t, g) \/ Refresh(t, g)
          \/ Listen(t) \/ StreamDrops(t) \/ ApplyFrame(t)
    \/ \E g \in Gets : LoadTypes(g) \/ LoadAddrs(g) \/ ApplyLoad(g) \/ LoadFails(g)

Spec == Init /\ [][Next]_vars

-----------------------------------------------------------------------------
(* Properties.                                                             *)

\* The variables have the types the Go and JavaScript declarations give them.
TypeOK ==
    /\ want \in Sets
    /\ view \in [Tabs -> Sets]
    /\ listening \subseteq opened
    /\ \A g \in Gets : load[g] \notin {"new", "done"} => getter[g] \in opened
    /\ \A t \in Tabs : Len(frames[t]) <= Capacity
    /\ \A c \in Calls : todo[c] \subseteq listening
    /\ overlap \in [Tabs -> SUBSET {"changes", "opening"}]
    /\ drops \in 0 .. MaxDrops

\* Every handler and every GET has answered, every open tab is listening, and
\* every frame was applied.
Quiet ==
    /\ Busy = {}
    /\ Opening = {}
    /\ \A t \in Tabs : frames[t] = <<>>

\* "Every open dashboard tab stays in sync" (broker.go:213-216): when nothing
\* is under way, a tab shows the current set, if it followed it from before the
\* changes began and its channel was never full.
TabsInSync ==
    Quiet => \A t \in Tabs : ~lost[t] /\ "opening" \notin overlap[t] => view[t] = want

\* It does, as long as changes do not overlap each other or a time when the tab
\* did not follow them, and no frame was lost: frames of earlier changes, late
\* answers to the tab's own requests and GETs never win over the last change.
\* And whatever went wrong before, a GET that no change disturbs repairs it,
\* unless an older GET that was disturbed is still under way, whose answer may
\* come last (app.js:213-231).
SerialTabsInSync ==
    Quiet => \A t \in Tabs : ~lost[t] /\ overlap[t] = {} => view[t] = want
=============================================================================
