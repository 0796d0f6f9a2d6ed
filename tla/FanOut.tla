-------------------------------- MODULE FanOut --------------------------------
(***************************************************************************)
(* Delivery of events to the Subscriptions of one Subscriber               *)
(* (subscriber/subscriber.go:72-76, 133-151, 181-199).  Reader goroutines  *)
(* fan events out under the read lock of s.mu, consumer by consumer, with  *)
(* a send that drops the event when the channel is full; Subscribe,        *)
(* Subscription.Close and the closeSubscribers of Start change the list    *)
(* under the write lock.  Two readers run at once when a reader outlives   *)
(* its connection (module Connection).                                     *)
(*                                                                         *)
(* An event is <<r, n>>, the n-th frame of reader r.                       *)
(***************************************************************************)
EXTENDS Naturals, SequencesExt

CONSTANTS
    Consumers,  \* goroutines that subscribe, read C() and call Close
    Readers,    \* reader goroutines
    Capacity,   \* of a subscription's channel (256)
    MaxFrames   \* frames each reader receives

ASSUME FanOutAssumption ==
    /\ Capacity \in Nat \ {0}
    /\ MaxFrames \in Nat

VARIABLES
    list,      \* s.subscribers
    chan,      \* chan[c]: content of c's channel
    closes,    \* closes[c]: how often c's channel was closed
    consumer,  \* "new", "reading", or "ended" (its range loop is over)
    closer,    \* c has called Close
    frames,    \* frames[r]: frames r has received
    next,      \* next[r]: 0, or the index in list r sends to next
    stopped,   \* closeSubscribers has run
    got,       \* history: what c has received
    dropped,   \* history: events c's full channel refused
    owed       \* history: events whose fan-out began while c was in list

vars == <<list, chan, closes, consumer, closer, frames, next, stopped, got,
          dropped, owed>>

Event(r) == <<r, frames[r]>>

Listed == {list[i] : i \in DOMAIN list}

\* Broken: the list is changed without the write lock.
NoLock == TRUE

\* s.mu: a reader holds it shared from the first to the last send.
NoReadLock == \A r \in Readers : next[r] = 0

Init ==
    /\ list = <<>>
    /\ chan = [c \in Consumers |-> <<>>]
    /\ closes = [c \in Consumers |-> 0]
    /\ consumer = [c \in Consumers |-> "new"]
    /\ closer = {}
    /\ frames = [r \in Readers |-> 0]
    /\ next = [r \in Readers |-> 0]
    /\ stopped = FALSE
    /\ got = [c \in Consumers |-> <<>>]
    /\ dropped = [c \in Consumers |-> {}]
    /\ owed = [c \in Consumers |-> {}]

-----------------------------------------------------------------------------
Subscribe(c) ==
    /\ NoReadLock
    /\ consumer[c] = "new"
    /\ consumer' = [consumer EXCEPT ![c] = "reading"]
    /\ list' = Append(list, c)
    /\ UNCHANGED <<chan, closes, closer, frames, next, stopped, got, dropped, owed>>

Unlist(c) == \E i \in DOMAIN list : list[i] = c /\ list' = RemoveAt(list, i)

\* Broken: the channel leaves the list open.
removeUnclosed(c) ==
    /\ IF c \in Listed THEN Unlist(c) ELSE UNCHANGED list
    /\ UNCHANGED closes

\* Only a listed channel is closed.
removeSub(c) ==
    IF c \in Listed
    THEN Unlist(c) /\ closes' = [closes EXCEPT ![c] = @ + 1]
    ELSE UNCHANGED <<list, closes>>

\* Subscription.Close; its sync.Once lets the first call through.
Close(c) ==
    /\ NoReadLock
    /\ consumer[c] # "new"
    /\ c \notin closer
    /\ closer' = closer \cup {c}
    /\ removeSub(c)
    /\ UNCHANGED <<chan, consumer, frames, next, stopped, got, dropped, owed>>

\* Broken: the closed channels stay listed.
closeKeepingList ==
    /\ NoReadLock
    /\ ~stopped
    /\ stopped' = TRUE
    /\ closes' = [c \in Consumers |-> IF c \in Listed THEN closes[c] + 1 ELSE closes[c]]
    /\ UNCHANGED <<list, chan, consumer, closer, frames, next, got, dropped, owed>>

\* Start returns: every listed channel is closed and the list forgotten.
closeSubscribers ==
    /\ NoReadLock
    /\ ~stopped
    /\ stopped' = TRUE
    /\ closes' = [c \in Consumers |-> IF c \in Listed THEN closes[c] + 1 ELSE closes[c]]
    /\ list' = <<>>
    /\ UNCHANGED <<chan, consumer, closer, frames, next, got, dropped, owed>>

\* fanOut takes the read lock.
FanOutBegin(r) ==
    /\ next[r] = 0
    /\ frames[r] < MaxFrames
    /\ frames' = [frames EXCEPT ![r] = @ + 1]
    /\ next' = [next EXCEPT ![r] = 1]
    /\ owed' = [c \in Consumers |-> IF c \in Listed THEN owed[c] \cup {<<r, frames'[r]>>}
                                    ELSE owed[c]]
    /\ UNCHANGED <<list, chan, closes, consumer, closer, stopped, got, dropped>>

\* Broken: a channel takes one event more than it has room for.
TrySendOver(c, e) ==
    IF Len(chan[c]) <= Capacity
    THEN chan' = [chan EXCEPT ![c] = Append(@, e)] /\ UNCHANGED dropped
    ELSE dropped' = [dropped EXCEPT ![c] = @ \cup {e}] /\ UNCHANGED chan

\* select { case ch <- evt: default: }
TrySend(c, e) ==
    IF Len(chan[c]) < Capacity
    THEN chan' = [chan EXCEPT ![c] = Append(@, e)] /\ UNCHANGED dropped
    ELSE dropped' = [dropped EXCEPT ![c] = @ \cup {e}] /\ UNCHANGED chan

\* Broken: a consumer may be sent the event again before the next one's turn.
FanOutResend(r) ==
    /\ next[r] \in DOMAIN list
    /\ TrySend(list[next[r]], Event(r))
    /\ \E n \in {next[r], next[r] + 1} : next' = [next EXCEPT ![r] = n]
    /\ UNCHANGED <<list, closes, consumer, closer, frames, stopped, got, owed>>

FanOutSend(r) ==
    /\ next[r] \in DOMAIN list
    /\ TrySend(list[next[r]], Event(r))
    /\ next' = [next EXCEPT ![r] = @ + 1]
    /\ UNCHANGED <<list, closes, consumer, closer, frames, stopped, got, owed>>

\* The loop is over: the read lock is released.
FanOutEnd(r) ==
    /\ next[r] > Len(list)
    /\ next' = [next EXCEPT ![r] = 0]
    /\ UNCHANGED <<list, chan, closes, consumer, closer, frames, stopped, got,
                   dropped, owed>>

\* A closed channel is drained before its range loop ends.
Receive(c) ==
    /\ consumer[c] = "reading"
    /\ \/ /\ chan[c] # <<>>
          /\ got' = [got EXCEPT ![c] = Append(@, Head(chan[c]))]
          /\ chan' = [chan EXCEPT ![c] = Tail(@)]
          /\ UNCHANGED consumer
       \/ /\ chan[c] = <<>> /\ closes[c] > 0
          /\ consumer' = [consumer EXCEPT ![c] = "ended"]
          /\ UNCHANGED <<chan, got>>
    /\ UNCHANGED <<list, closes, closer, frames, next, stopped, dropped, owed>>

FanOutStep(r) == FanOutSend(r) \/ FanOutEnd(r)

Next ==
    \/ \E c \in Consumers : Subscribe(c) \/ Close(c) \/ Receive(c)
    \/ \E r \in Readers : FanOutBegin(r) \/ FanOutStep(r)
    \/ closeSubscribers

\* A fan-out runs to its end, and a consumer keeps ranging over its channel.
Fairness ==
    /\ \A r \in Readers : WF_vars(FanOutStep(r))
    /\ \A c \in Consumers : WF_vars(Receive(c))

SafetySpec == Init /\ [][Next]_vars

Spec == SafetySpec /\ Fairness

-----------------------------------------------------------------------------
(* Properties.                                                             *)

Events == Readers \X (1 .. MaxFrames)

\* The variables have the types the Go declarations give them, and channels
\* their capacity.
TypeOK ==
    /\ list \in Seq(Consumers)
    /\ chan \in [Consumers -> Seq(Events)]
    /\ \A c \in Consumers : Len(chan[c]) <= Capacity
    /\ closes \in [Consumers -> Nat]
    /\ consumer \in [Consumers -> {"new", "reading", "ended"}]
    /\ closer \subseteq Consumers
    /\ frames \in [Readers -> 0 .. MaxFrames]
    /\ next \in [Readers -> 0 .. Len(list) + 1]
    /\ stopped \in BOOLEAN
    /\ got \in [Consumers -> Seq(Events)]
    /\ dropped \in [Consumers -> SUBSET Events]
    /\ owed \in [Consumers -> SUBSET Events]

\* No panic: a channel is closed at most once (Close against Close, Close
\* against the shutdown of Start), and no reader is about to send on a closed
\* channel.
NoChannelPanic ==
    \A c \in Consumers :
        /\ closes[c] <= 1
        /\ c \in Listed => closes[c] = 0

\* A consumer that is subscribed when a fan-out begins is not passed over by
\* it, whoever subscribes or closes meanwhile: it gets the event, or its own
\* channel was full.  Slow consumers cost nobody else an event.
Received(c) == {got[c][i] : i \in DOMAIN got[c]}
Buffered(c) == {chan[c][i] : i \in DOMAIN chan[c]}

NobodySkipped ==
    \A c \in Consumers : \A e \in owed[c] :
        \/ e \in Received(c) \cup Buffered(c) \cup dropped[c]
        \/ next[e[1]] # 0 /\ e = Event(e[1])

\* What a consumer receives of one reader comes in order and once.
InOrder ==
    \A c \in Consumers :
        LET s == got[c] \o chan[c]
        IN  \A i, j \in DOMAIN s :
                i < j /\ s[i][1] = s[j][1] => s[i][2] < s[j][2]

\* A consumer whose subscription is gone from the list, through its own Close
\* or through the end of Start, leaves its range loop: no path drops a channel
\* without closing it.  (A subscription made after Start returned stays listed
\* and its consumer waits until it calls Close.)
ConsumersEnd ==
    \A c \in Consumers :
        (consumer[c] = "reading" /\ c \notin Listed) ~> consumer[c] = "ended"
=============================================================================
