------------------------------ MODULE FanOutProofs ------------------------------
(* The delivery of events, for any number of consumers, readers and frames    *)
(* and any capacity: no channel is closed twice or sent on after its close,   *)
(* nobody is skipped, order is kept.                                          *)
EXTENDS FanOut, TLAPS

\* What c received, or will when it drains its channel.
Stream(c) == got[c] \o chan[c]

-----------------------------------------------------------------------------
(* Sequences.                                                                *)

LEMMA ConcatReads ==
    ASSUME NEW S, NEW s \in Seq(S), NEW u \in Seq(S)
    PROVE  /\ s \o u \in Seq(S)
           /\ Len(s \o u) = Len(s) + Len(u)
           /\ \A i \in 1 .. Len(s) + Len(u) :
                  (s \o u)[i] = IF i <= Len(s) THEN s[i] ELSE u[i - Len(s)]
  OBVIOUS

LEMMA RemoveAtShifts ==
    ASSUME NEW S, NEW s \in Seq(S), NEW i \in 1 .. Len(s)
    PROVE  /\ RemoveAt(s, i) \in Seq(S)
           /\ Len(RemoveAt(s, i)) = Len(s) - 1
           /\ \A j \in 1 .. Len(s) - 1 : RemoveAt(s, i)[j] = IF j < i THEN s[j] ELSE s[j + 1]
  <1> DEFINE a == SubSeq(s, 1, i - 1)
             b == SubSeq(s, i + 1, Len(s))
  <1>1. a \in Seq(S) /\ Len(a) = i - 1 /\ \A j \in 1 .. i - 1 : a[j] = s[j]
        OBVIOUS
  <1>2. /\ b \in Seq(S) /\ Len(b) = Len(s) - i
        /\ \A j \in 1 .. Len(s) - i : b[j] = s[i + j]
        OBVIOUS
  <1>3. RemoveAt(s, i) = a \o b
        BY DEF RemoveAt
  <1> HIDE DEF a, b
  <1>4. /\ a \o b \in Seq(S) /\ Len(a \o b) = Len(s) - 1
        /\ \A j \in 1 .. Len(s) - 1 : (a \o b)[j] = IF j <= i - 1 THEN a[j] ELSE b[j - (i - 1)]
    <2>1. Len(a) + Len(b) = Len(s) - 1
          BY <1>1, <1>2
    <2>2. /\ a \o b \in Seq(S) /\ Len(a \o b) = Len(a) + Len(b)
          /\ \A j \in 1 .. Len(a) + Len(b) :
                 (a \o b)[j] = IF j <= Len(a) THEN a[j] ELSE b[j - Len(a)]
          BY <1>1, <1>2, ConcatReads
    <2> QED
        BY <1>1, <2>1, <2>2
  <1>5. ASSUME NEW j \in 1 .. Len(s) - 1
        PROVE  (a \o b)[j] = IF j < i THEN s[j] ELSE s[j + 1]
    <2>1. CASE j < i
          BY <1>1, <1>4, <2>1
    <2>2. CASE ~(j < i)
      <3>1. j - (i - 1) \in 1 .. Len(s) - i /\ i + (j - (i - 1)) = j + 1
            BY <2>2
      <3> QED
          BY <1>2, <1>4, <2>2, <3>1
    <2> QED
        BY <2>1, <2>2
  <1> QED
      BY <1>3, <1>4, <1>5

\* Taking the head of a channel does not change what came in all, and sending
\* appends to it.
LEMMA ReceiveKeepsStream ==
    ASSUME NEW S, NEW s \in Seq(S), NEW u \in Seq(S), u # <<>>
    PROVE  Append(s, Head(u)) \o Tail(u) = s \o u
  <1> DEFINE v == Append(s, Head(u))
  <1>1. /\ Head(u) \in S /\ v \in Seq(S) /\ Tail(u) \in Seq(S)
        /\ Len(v) = Len(s) + 1 /\ Len(Tail(u)) = Len(u) - 1 /\ Len(u) \in Nat \ {0}
        OBVIOUS
  <1>2. \A i \in 1 .. Len(s) + Len(u) : (v \o Tail(u))[i] = (s \o u)[i]
        OBVIOUS
  <1>3. v \o Tail(u) \in Seq(S) /\ s \o u \in Seq(S)
        BY <1>1
  <1>4. Len(v \o Tail(u)) = Len(s) + Len(u) /\ Len(s \o u) = Len(s) + Len(u)
        BY <1>1
  <1> QED
      BY <1>2, <1>3, <1>4

LEMMA SendExtendsStream ==
    ASSUME NEW S, NEW s \in Seq(S), NEW u \in Seq(S), NEW e \in S
    PROVE  s \o Append(u, e) = Append(s \o u, e)
  OBVIOUS

-----------------------------------------------------------------------------
(* The list.  A channel is listed once, from its Subscribe to its close.     *)

Once == \A i, j \in DOMAIN list : list[i] = list[j] => i = j

ListInv ==
    /\ TypeOK
    /\ Once
    /\ \A c \in Consumers : consumer[c] = "new" => c \notin Listed /\ closes[c] = 0
    /\ NoChannelPanic
    /\ \A r \in Readers : next[r] # 0 => frames[r] # 0

LEMMA UnlistRemoves ==
    ASSUME list \in Seq(Consumers), Once, NEW c \in Consumers, Unlist(c)
    PROVE  /\ list' \in Seq(Consumers)
           /\ Once'
           /\ Listed' = Listed \ {c}
  <1>1. PICK i \in DOMAIN list : list[i] = c /\ list' = RemoveAt(list, i)
        BY DEF Unlist
  <1>2. /\ list' \in Seq(Consumers) /\ Len(list') = Len(list) - 1
        /\ \A j \in 1 .. Len(list) - 1 : list'[j] = IF j < i THEN list[j] ELSE list[j + 1]
    <2> DEFINE t == RemoveAt(list, i)
    <2>1. i \in 1 .. Len(list)
          BY <1>1
    <2>2. /\ t \in Seq(Consumers) /\ Len(t) = Len(list) - 1
          /\ \A j \in 1 .. Len(list) - 1 : t[j] = IF j < i THEN list[j] ELSE list[j + 1]
          BY <2>1, RemoveAtShifts
    <2>3. list' = t
          BY <1>1
    <2> HIDE DEF t
    <2> QED
        BY <2>2, <2>3
  <1>3. Once'
    <2>1. DOMAIN list' = 1 .. Len(list) - 1 /\ DOMAIN list = 1 .. Len(list)
          BY <1>2
    <2>2. SUFFICES ASSUME NEW j \in 1 .. Len(list) - 1, NEW k \in 1 .. Len(list) - 1,
                          list'[j] = list'[k]
                   PROVE  j = k
          BY <2>1 DEF Once
    <2> DEFINE at(m) == IF m < i THEN m ELSE m + 1
    <2>3. /\ at(j) \in DOMAIN list /\ at(k) \in DOMAIN list
          /\ list'[j] = list[at(j)] /\ list'[k] = list[at(k)]
          BY <1>1, <1>2, <2>1
    <2>4. at(j) = at(k)
          BY <2>2, <2>3 DEF Once
    <2> QED
        BY <1>1, <2>1, <2>4
  <1>4. \A d \in Listed' : d \in Listed \ {c}
    <2> SUFFICES ASSUME NEW j \in DOMAIN list' PROVE list'[j] \in Listed \ {c}
        BY DEF Listed
    <2>1. /\ j \in 1 .. Len(list) - 1 /\ i \in 1 .. Len(list) /\ DOMAIN list = 1 .. Len(list)
          /\ Len(list) \in Nat
          BY <1>1, <1>2
    <2>2. PICK k \in DOMAIN list : k # i /\ list'[j] = list[k]
      <3>1. CASE j < i
            BY <1>2, <2>1, <3>1
      <3>2. CASE ~(j < i)
        <4>1. j + 1 \in DOMAIN list /\ j + 1 # i /\ list'[j] = list[j + 1]
              BY <1>2, <2>1, <3>2
        <4> QED
            BY <4>1
      <3> QED
          BY <3>1, <3>2
    <2> QED
        BY <1>1, <2>2 DEF Once, Listed
  <1>5. ASSUME NEW j \in DOMAIN list, j # i PROVE list[j] \in Listed'
    <2>1. CASE j < i
          BY <1>2, <2>1 DEF Listed
    <2>2. CASE j > i
      <3>1. j - 1 \in DOMAIN list' /\ list'[j - 1] = list[j]
            BY <1>2, <2>2
      <3> QED
          BY <3>1 DEF Listed
    <2> QED
        BY <1>5, <2>1, <2>2
  <1>6. ASSUME NEW d \in Listed, d # c PROVE d \in Listed'
    <2>1. PICK j \in DOMAIN list : list[j] = d
          BY <1>6 DEF Listed
    <2> QED
        BY <1>1, <1>5, <1>6, <2>1
  <1>7. Listed' = Listed \ {c}
        BY <1>4, <1>6
  <1> QED
      BY <1>2, <1>3, <1>7

LEMMA InitList == Init => ListInv
  <1> SUFFICES ASSUME Init PROVE ListInv
      OBVIOUS
  <1>1. Listed = {} /\ list \in Seq(Consumers) /\ Len(list) = 0
        BY DEF Init, Listed
  <1>2. \A c \in Consumers : chan[c] \in Seq(Events) /\ Len(chan[c]) = 0 /\ got[c] \in Seq(Events)
        BY DEF Init
  <1>3. chan \in [Consumers -> Seq(Events)] /\ got \in [Consumers -> Seq(Events)]
        BY <1>2 DEF Init
  <1>4. TypeOK
    <2>1. next \in [Readers -> 0 .. Len(list) + 1] /\ frames \in [Readers -> 0 .. MaxFrames]
          BY <1>1, FanOutAssumption DEF FanOutAssumption, Init
    <2>2. \A c \in Consumers : Len(chan[c]) <= Capacity
          BY <1>2, FanOutAssumption DEF FanOutAssumption
    <2>3. dropped \in [Consumers -> SUBSET Events] /\ owed \in [Consumers -> SUBSET Events]
          BY DEF Init
    <2> QED
        BY <1>1, <1>3, <2>1, <2>2, <2>3 DEF Init, TypeOK
  <1>5. Once /\ NoChannelPanic
        BY <1>1 DEF Init, Once, NoChannelPanic
  <1> QED
      BY <1>1, <1>4, <1>5 DEF Init, ListInv

\* What a send leaves in the channels.
LEMMA SendKeepsType ==
    ASSUME TypeOK, NEW c \in Consumers, NEW e \in Events, TrySend(c, e)
    PROVE  /\ chan' \in [Consumers -> Seq(Events)]
           /\ \A d \in Consumers : Len(chan'[d]) <= Capacity
           /\ dropped' \in [Consumers -> SUBSET Events]
  <1> USE FanOutAssumption DEF FanOutAssumption, TypeOK, TrySend
  <1>1. CASE Len(chan[c]) < Capacity
    <2>1. chan' = [chan EXCEPT ![c] = Append(@, e)] /\ dropped' = dropped
          BY <1>1
    <2>2. Append(chan[c], e) \in Seq(Events) /\ Len(Append(chan[c], e)) <= Capacity
          BY <1>1
    <2> QED
        BY <2>1, <2>2
  <1>2. CASE ~(Len(chan[c]) < Capacity)
    <2>1. chan' = chan /\ dropped' = [dropped EXCEPT ![c] = @ \cup {e}]
          BY <1>2
    <2> QED
        BY <2>1
  <1> QED
      BY <1>1, <1>2

LEMMA ListStep == ListInv /\ [Next]_vars => ListInv'
  <1> SUFFICES ASSUME ListInv, [Next]_vars PROVE ListInv'
      OBVIOUS
  <1> USE FanOutAssumption DEF FanOutAssumption
  <1>1. ASSUME NEW c \in Consumers, Subscribe(c) PROVE ListInv'
    <2>1. list \in Seq(Consumers) /\ list' = Append(list, c) /\ c \notin Listed /\ closes[c] = 0
          BY <1>1 DEF ListInv, TypeOK, Subscribe
    <2>2. /\ list' \in Seq(Consumers) /\ Len(list') = Len(list) + 1
          /\ \A i \in 1 .. Len(list) : list'[i] = list[i]
          /\ list'[Len(list) + 1] = c
          BY <2>1
    <2>3. Listed' = Listed \cup {c}
          BY <2>1, <2>2 DEF Listed
    <2>4. Once'
          BY <2>1, <2>2 DEF ListInv, Once, Listed
    <2>5. next' \in [Readers -> 0 .. Len(list') + 1]
          BY <1>1, <2>2 DEF ListInv, TypeOK, Subscribe
    <2>6. TypeOK'
          BY <1>1, <2>2, <2>5 DEF ListInv, TypeOK, Subscribe
    <2>7. NoChannelPanic'
          BY <1>1, <2>1, <2>3 DEF ListInv, NoChannelPanic, Subscribe
    <2>8. \A d \in Consumers : consumer'[d] = "new" => d \notin Listed' /\ closes'[d] = 0
          BY <1>1, <2>3 DEF ListInv, TypeOK, Subscribe
    <2> QED
        BY <1>1, <2>4, <2>6, <2>7, <2>8 DEF ListInv, Subscribe
  <1>2. ASSUME NEW c \in Consumers, Close(c) PROVE ListInv'
    <2>1. /\ list' \in Seq(Consumers) /\ Once' /\ Listed' = Listed \ {c}
          /\ closes' = IF c \in Listed THEN [closes EXCEPT ![c] = @ + 1] ELSE closes
      <3>1. CASE c \in Listed
            BY <1>2, <3>1, UnlistRemoves DEF ListInv, TypeOK, Close, removeSub
      <3>2. CASE c \notin Listed
            BY <1>2, <3>2 DEF ListInv, TypeOK, Close, removeSub, Once, Listed
      <3> QED
          BY <3>1, <3>2
    <2>2. next' \in [Readers -> 0 .. Len(list') + 1]
          BY <1>2, <2>1 DEF ListInv, TypeOK, Close, NoReadLock
    <2>3. TypeOK'
          BY <1>2, <2>1, <2>2 DEF ListInv, TypeOK, Close
    <2>4. NoChannelPanic'
          BY <2>1 DEF ListInv, TypeOK, NoChannelPanic
    <2>5. \A d \in Consumers : consumer'[d] = "new" => d \notin Listed' /\ closes'[d] = 0
          BY <1>2, <2>1 DEF ListInv, TypeOK, Close
    <2> QED
        BY <1>2, <2>1, <2>3, <2>4, <2>5 DEF ListInv, Close
  <1>3. ASSUME NEW c \in Consumers, Receive(c) PROVE ListInv'
    <2>1. CASE chan[c] # <<>>
      <3>1. /\ chan[c] \in Seq(Events) /\ got[c] \in Seq(Events)
            /\ Tail(chan[c]) \in Seq(Events) /\ Len(Tail(chan[c])) <= Capacity
            /\ Append(got[c], Head(chan[c])) \in Seq(Events)
            BY <2>1 DEF ListInv, TypeOK
      <3>2. /\ chan' = [chan EXCEPT ![c] = Tail(@)]
            /\ got' = [got EXCEPT ![c] = Append(@, Head(chan[c]))]
            /\ UNCHANGED consumer
            BY <1>3, <2>1 DEF Receive
      <3>3. /\ chan' \in [Consumers -> Seq(Events)] /\ got' \in [Consumers -> Seq(Events)]
            /\ \A d \in Consumers : Len(chan'[d]) <= Capacity
            BY <3>1, <3>2 DEF ListInv, TypeOK
      <3>4. TypeOK'
            BY <1>3, <3>2, <3>3 DEF ListInv, TypeOK, Receive
      <3> QED
          BY <1>3, <3>2, <3>4 DEF ListInv, Once, NoChannelPanic, Listed, Receive
    <2>2. CASE chan[c] = <<>>
      <3>1. consumer' = [consumer EXCEPT ![c] = "ended"] /\ UNCHANGED <<chan, got>>
            BY <1>3, <2>2 DEF Receive
      <3>2. TypeOK'
            BY <1>3, <3>1 DEF ListInv, TypeOK, Receive
      <3>3. \A d \in Consumers : consumer'[d] = "new" => consumer[d] = "new"
            BY <3>1 DEF ListInv, TypeOK
      <3> QED
          BY <1>3, <3>2, <3>3 DEF ListInv, Once, NoChannelPanic, Listed, Receive
    <2> QED
        BY <2>1, <2>2
  <1>4. ASSUME NEW r \in Readers, FanOutBegin(r) PROVE ListInv'
    <2>1. /\ frames' = [frames EXCEPT ![r] = @ + 1] /\ frames[r] \in 0 .. MaxFrames
          /\ frames[r] < MaxFrames /\ frames'[r] = frames[r] + 1
          BY <1>4 DEF ListInv, TypeOK, FanOutBegin
    <2>2. frames' \in [Readers -> 0 .. MaxFrames] /\ <<r, frames'[r]>> \in Events
          BY <2>1 DEF ListInv, TypeOK, Events
    <2>3. next' \in [Readers -> 0 .. Len(list') + 1]
          BY <1>4 DEF ListInv, TypeOK, FanOutBegin
    <2>4. owed' \in [Consumers -> SUBSET Events]
          BY <1>4, <2>2 DEF ListInv, TypeOK, FanOutBegin
    <2>5. TypeOK'
          BY <1>4, <2>2, <2>3, <2>4 DEF ListInv, TypeOK, FanOutBegin
    <2>6. \A q \in Readers : next'[q] # 0 => frames'[q] # 0
          BY <1>4, <2>1 DEF ListInv, TypeOK, FanOutBegin
    <2> QED
        BY <1>4, <2>5, <2>6 DEF ListInv, Once, NoChannelPanic, Listed, FanOutBegin
  <1>5. ASSUME NEW r \in Readers, FanOutSend(r) PROVE ListInv'
    <2>1. list[next[r]] \in Consumers /\ next[r] \in 1 .. Len(list)
          BY <1>5, SMTT(20) DEF ListInv, TypeOK, FanOutSend
    <2>2. Event(r) \in Events
          BY <2>1 DEF ListInv, TypeOK, Event, Events
    <2>3. /\ chan' \in [Consumers -> Seq(Events)]
          /\ \A d \in Consumers : Len(chan'[d]) <= Capacity
          /\ dropped' \in [Consumers -> SUBSET Events]
          BY <1>5, <2>1, <2>2, SendKeepsType DEF ListInv, FanOutSend
    <2>4. next' \in [Readers -> 0 .. Len(list') + 1]
      <3>1. list' = list /\ next' = [next EXCEPT ![r] = @ + 1]
            BY <1>5 DEF FanOutSend
      <3>2. next \in [Readers -> 0 .. Len(list) + 1] /\ Len(list) \in Nat
            BY DEF ListInv, TypeOK
      <3>3. next[r] + 1 \in 0 .. Len(list) + 1
            BY <2>1, <3>2
      <3> QED
          BY <3>1, <3>2, <3>3
    <2>5. TypeOK'
          BY <1>5, <2>3, <2>4 DEF ListInv, TypeOK, FanOutSend
    <2>6. \A q \in Readers : next'[q] # 0 => frames'[q] # 0
          BY <1>5, <2>1 DEF ListInv, TypeOK, FanOutSend
    <2> QED
        BY <1>5, <2>5, <2>6 DEF ListInv, Once, NoChannelPanic, Listed, FanOutSend
  <1>6. ASSUME NEW r \in Readers, FanOutEnd(r) PROVE ListInv'
    <2>1. next' \in [Readers -> 0 .. Len(list') + 1]
          BY <1>6 DEF ListInv, TypeOK, FanOutEnd
    <2>2. TypeOK'
          BY <1>6, <2>1 DEF ListInv, TypeOK, FanOutEnd
    <2>3. \A q \in Readers : next'[q] # 0 => frames'[q] # 0
          BY <1>6 DEF ListInv, TypeOK, FanOutEnd
    <2> QED
        BY <1>6, <2>2, <2>3 DEF ListInv, Once, NoChannelPanic, Listed, FanOutEnd
  <1>7. CASE closeSubscribers
    <2>1. /\ list' = <<>> /\ list' \in Seq(Consumers) /\ Listed' = {} /\ Len(list') = 0
          BY <1>7 DEF closeSubscribers, Listed
    <2>2. next' \in [Readers -> 0 .. Len(list') + 1]
          BY <1>7, <2>1 DEF ListInv, TypeOK, closeSubscribers, NoReadLock
    <2>3. closes' \in [Consumers -> Nat]
          BY <1>7 DEF ListInv, TypeOK, closeSubscribers
    <2>4. TypeOK'
          BY <1>7, <2>1, <2>2, <2>3 DEF ListInv, TypeOK, closeSubscribers
    <2>5. NoChannelPanic'
          BY <1>7, <2>1 DEF ListInv, TypeOK, NoChannelPanic, closeSubscribers
    <2>6. \A d \in Consumers : consumer'[d] = "new" => closes'[d] = 0
          BY <1>7 DEF ListInv, closeSubscribers
    <2> QED
        BY <1>7, <2>1, <2>4, <2>5, <2>6 DEF ListInv, Once, closeSubscribers
  <1>8. CASE UNCHANGED vars
        BY <1>8 DEF ListInv, TypeOK, Once, NoChannelPanic, Listed, vars
  <1> QED
      BY <1>1, <1>2, <1>3, <1>4, <1>5, <1>6, <1>7, <1>8 DEF Next, FanOutStep

LEMMA ListInvariant == SafetySpec => []ListInv
  BY InitList, ListStep, PTL DEF SafetySpec

\* Types and capacities hold for any number of consumers, readers and frames.
THEOREM FanOutTypeCorrect == SafetySpec => []TypeOK
  <1>1. ListInv => TypeOK
        BY DEF ListInv
  <1> QED
      BY <1>1, ListInvariant, PTL

\* No channel is closed twice and no reader sends on a closed one
\* (subscriber.go:72-76, 141-151, 181-199), however Close, the end of Start and
\* the fan-outs interleave.
THEOREM NoPanic == SafetySpec => []NoChannelPanic
  <1>1. ListInv => NoChannelPanic
        BY DEF ListInv
  <1> QED
      BY <1>1, ListInvariant, PTL

-----------------------------------------------------------------------------
(* Streams.  A step gives a consumer nothing new, or the event of a fan-out  *)
(* whose turn it is.                                                         *)

\* r is at c's place in the list.
AtTurn(r, c) == next[r] \in DOMAIN list /\ list[next[r]] = c

LEMMA StreamMoves ==
    ASSUME ListInv, [Next]_vars, NEW c \in Consumers
    PROVE  \/ Stream(c)' = Stream(c)
           \/ \E r \in Readers :
                 /\ FanOutSend(r) /\ AtTurn(r, c) /\ Event(r) \in Events
                 /\ Stream(c)' = Append(Stream(c), Event(r))
  <1> USE DEF ListInv, TypeOK
  <1>1. ASSUME UNCHANGED <<chan, got>> PROVE Stream(c)' = Stream(c)
        BY <1>1 DEF Stream
  <1>2. ASSUME NEW d \in Consumers, Receive(d) PROVE Stream(c)' = Stream(c)
    <2>1. CASE d = c /\ chan[c] # <<>>
      <3>1. got'[c] = Append(got[c], Head(chan[c])) /\ chan'[c] = Tail(chan[c])
            BY <1>2, <2>1 DEF Receive
      <3>2. Append(got[c], Head(chan[c])) \o Tail(chan[c]) = got[c] \o chan[c]
            BY <2>1, ReceiveKeepsStream
      <3> QED
          BY <3>1, <3>2 DEF Stream
    <2>2. CASE ~(d = c /\ chan[c] # <<>>)
          BY <1>2, <2>2 DEF Receive, Stream
    <2> QED
        BY <2>1, <2>2
  <1>3. ASSUME NEW r \in Readers, FanOutSend(r)
        PROVE  \/ Stream(c)' = Stream(c)
               \/ /\ AtTurn(r, c) /\ Event(r) \in Events
                  /\ Stream(c)' = Append(Stream(c), Event(r))
    <2>1. Event(r) \in Events
      <3>1. next[r] # 0
            BY <1>3 DEF FanOutSend
      <3> QED
          BY <3>1 DEF Event, Events
    <2>2. CASE list[next[r]] = c /\ Len(chan[c]) < Capacity
      <3>1. chan'[c] = Append(chan[c], Event(r)) /\ got' = got
            BY <1>3, <2>2 DEF FanOutSend, TrySend
      <3>2. got[c] \o Append(chan[c], Event(r)) = Append(got[c] \o chan[c], Event(r))
            BY <2>1, SendExtendsStream, SMTT(20)
      <3> QED
          BY <1>3, <2>1, <2>2, <3>1, <3>2 DEF FanOutSend, AtTurn, Stream
    <2>3. CASE ~(list[next[r]] = c /\ Len(chan[c]) < Capacity)
          BY <1>3, <2>3 DEF FanOutSend, TrySend, Stream
    <2> QED
        BY <2>2, <2>3
  <1>4. ASSUME NEW d \in Consumers, Subscribe(d) \/ Close(d) PROVE Stream(c)' = Stream(c)
        BY <1>1, <1>4 DEF Subscribe, Close
  <1>5. ASSUME NEW r \in Readers, FanOutBegin(r) \/ FanOutEnd(r) PROVE Stream(c)' = Stream(c)
        BY <1>1, <1>5 DEF FanOutBegin, FanOutEnd
  <1>6. CASE closeSubscribers \/ UNCHANGED vars
        BY <1>1, <1>6 DEF closeSubscribers, vars
  <1> QED
      BY <1>2, <1>3, <1>4, <1>5, <1>6 DEF Next, FanOutStep

\* What is in a stream is in the got or in the channel, and conversely.
LEMMA StreamContents ==
    ASSUME ListInv, NEW c \in Consumers
    PROVE  /\ Stream(c) \in Seq(Events)
           /\ \A e : (e \in Received(c) \cup Buffered(c)) <=> \E i \in DOMAIN Stream(c) : Stream(c)[i] = e
  <1> DEFINE s == got[c]
             u == chan[c]
  <1>1. s \in Seq(Events) /\ u \in Seq(Events)
        BY DEF ListInv, TypeOK
  <1> HIDE DEF s, u
  <1>2. /\ s \o u \in Seq(Events) /\ Len(s \o u) = Len(s) + Len(u)
        /\ \A i \in 1 .. Len(s) + Len(u) :
               (s \o u)[i] = IF i <= Len(s) THEN s[i] ELSE u[i - Len(s)]
        BY <1>1, ConcatReads
  <1>3. ASSUME NEW i \in DOMAIN (s \o u)
        PROVE  \/ \E j \in DOMAIN s : s[j] = (s \o u)[i]
               \/ \E j \in DOMAIN u : u[j] = (s \o u)[i]
    <2>1. CASE i <= Len(s)
          BY <1>1, <1>2, <2>1
    <2>2. CASE ~(i <= Len(s))
      <3>1. i - Len(s) \in DOMAIN u /\ u[i - Len(s)] = (s \o u)[i]
            BY <1>1, <1>2, <2>2
      <3> QED
          BY <3>1
    <2> QED
        BY <2>1, <2>2
  <1>4. ASSUME NEW j \in DOMAIN s PROVE \E i \in DOMAIN (s \o u) : (s \o u)[i] = s[j]
    <2>1. j \in DOMAIN (s \o u) /\ (s \o u)[j] = s[j]
          BY <1>1, <1>2
    <2> QED
        BY <2>1
  <1>5. ASSUME NEW j \in DOMAIN u PROVE \E i \in DOMAIN (s \o u) : (s \o u)[i] = u[j]
    <2>1. Len(s) + j \in DOMAIN (s \o u) /\ (s \o u)[Len(s) + j] = u[j]
          BY <1>1, <1>2
    <2> QED
        BY <2>1
  <1>6. /\ Stream(c) = s \o u
        /\ Received(c) = {s[i] : i \in DOMAIN s} /\ Buffered(c) = {u[i] : i \in DOMAIN u}
        BY DEF Stream, Received, Buffered, s, u
  <1>7. ASSUME NEW e
        PROVE  (e \in Received(c) \cup Buffered(c))
                 <=> \E i \in DOMAIN (s \o u) : (s \o u)[i] = e
    <2>1. ASSUME e \in Received(c) PROVE \E i \in DOMAIN (s \o u) : (s \o u)[i] = e
          BY <1>4, <1>6, <2>1
    <2>2. ASSUME e \in Buffered(c) PROVE \E i \in DOMAIN (s \o u) : (s \o u)[i] = e
          BY <1>5, <1>6, <2>2
    <2>3. ASSUME NEW i \in DOMAIN (s \o u), (s \o u)[i] = e
          PROVE  e \in Received(c) \cup Buffered(c)
          BY <1>3, <1>6, <2>3
    <2> QED
        BY <2>1, <2>2, <2>3
  <1> QED
      BY <1>2, <1>6, <1>7

-----------------------------------------------------------------------------
(* Order.  An event in a stream is no newer than its reader's last, and that *)
(* one is there only if c's turn is over.                                    *)

TurnOver(r, c) == next[r] # 0 => \A k \in DOMAIN list : list[k] = c => k < next[r]

Behind(c) ==
    \A i \in DOMAIN Stream(c) : \A r \in Readers :
        Stream(c)[i][1] = r =>
            /\ Stream(c)[i][2] <= frames[r]
            /\ Stream(c)[i][2] = frames[r] => TurnOver(r, c)

\* Turns that are over stay over until the next frame.
LEMMA TurnsStayOver ==
    ASSUME ListInv, [Next]_vars, NEW c \in Consumers, NEW r \in Readers, TurnOver(r, c)
    PROVE  \/ frames'[r] = frames[r] /\ TurnOver(r, c)'
           \/ frames'[r] = frames[r] + 1
  <1> USE DEF ListInv, TypeOK, TurnOver
  <1>1. ASSUME NEW d \in Consumers, Subscribe(d) \/ Close(d)
        PROVE  frames'[r] = frames[r] /\ TurnOver(r, c)'
        BY <1>1 DEF Subscribe, Close, NoReadLock
  <1>2. ASSUME NEW d \in Consumers, Receive(d)
        PROVE  frames'[r] = frames[r] /\ TurnOver(r, c)'
        BY <1>2 DEF Receive
  <1>3. ASSUME NEW q \in Readers, FanOutBegin(q)
        PROVE  \/ frames'[r] = frames[r] /\ TurnOver(r, c)'
               \/ frames'[r] = frames[r] + 1
        BY <1>3 DEF FanOutBegin
  <1>4. ASSUME NEW q \in Readers, FanOutSend(q) \/ FanOutEnd(q)
        PROVE  frames'[r] = frames[r] /\ TurnOver(r, c)'
    <2>1. /\ UNCHANGED <<list, frames>>
          /\ next'[r] \in {next[r], 0} \/ (next[r] # 0 /\ next'[r] = next[r] + 1)
      <3>1. CASE FanOutSend(q)
        <4>1. UNCHANGED <<list, frames>> /\ next' = [next EXCEPT ![q] = @ + 1]
              BY <3>1 DEF FanOutSend
        <4>2. next[q] # 0
              BY <3>1 DEF FanOutSend
        <4>3. next'[r] = IF r = q THEN next[q] + 1 ELSE next[r]
              BY <4>1
        <4> QED
            BY <4>1, <4>2, <4>3
      <3>2. CASE FanOutEnd(q)
        <4>1. UNCHANGED <<list, frames>> /\ next' = [next EXCEPT ![q] = 0]
              BY <3>2 DEF FanOutEnd
        <4> QED
            BY <4>1
      <3> QED
          BY <1>4, <3>1, <3>2
    <2>2. next[r] \in Nat /\ \A k \in DOMAIN list : k \in Nat
          BY SMTT(20)
    <2> QED
        BY <2>1, <2>2, SMTT(20)
  <1>5. CASE closeSubscribers \/ UNCHANGED vars
        BY <1>5 DEF closeSubscribers, NoReadLock, vars
  <1> QED
      BY <1>1, <1>2, <1>3, <1>4, <1>5 DEF Next, FanOutStep

LEMMA FramesGrow ==
    ASSUME ListInv, [Next]_vars, NEW r \in Readers
    PROVE  /\ frames[r] \in Nat
           /\ frames'[r] \in {frames[r], frames[r] + 1}
  <1> USE DEF ListInv, TypeOK
  <1>1. ASSUME NEW q \in Readers, FanOutBegin(q) PROVE frames'[r] \in {frames[r], frames[r] + 1}
        BY <1>1 DEF FanOutBegin
  <1>2. ASSUME NEW q \in Readers, FanOutSend(q) \/ FanOutEnd(q) PROVE frames' = frames
        BY <1>2 DEF FanOutSend, FanOutEnd
  <1>3. ASSUME NEW c \in Consumers, Subscribe(c) \/ Close(c) \/ Receive(c) PROVE frames' = frames
        BY <1>3 DEF Subscribe, Close, Receive
  <1>4. CASE closeSubscribers \/ UNCHANGED vars
        BY <1>4 DEF closeSubscribers, vars
  <1>5. frames'[r] \in {frames[r], frames[r] + 1}
        BY <1>1, <1>2, <1>3, <1>4 DEF Next, FanOutStep
  <1> QED
      BY <1>5

\* An event that was behind its reader stays so.
LEMMA OldStayBehind ==
    ASSUME ListInv, [Next]_vars, NEW c \in Consumers, NEW r \in Readers, NEW n \in Nat,
           n <= frames[r], n = frames[r] => TurnOver(r, c)
    PROVE  /\ n <= frames'[r]
           /\ n = frames'[r] => TurnOver(r, c)'
  <1>1. frames[r] \in Nat /\ frames'[r] \in {frames[r], frames[r] + 1}
        BY FramesGrow
  <1>2. CASE n = frames[r]
        BY <1>1, <1>2, TurnsStayOver
  <1>3. CASE n # frames[r]
        BY <1>1, <1>3
  <1> QED
      BY <1>2, <1>3

Ordered(c) ==
    \A i, j \in DOMAIN Stream(c) :
        i < j /\ Stream(c)[i][1] = Stream(c)[j][1] => Stream(c)[i][2] < Stream(c)[j][2]

LEMMA OrderStep ==
    ASSUME ListInv, [Next]_vars, NEW c \in Consumers, Behind(c), Ordered(c)
    PROVE  Behind(c)' /\ Ordered(c)'
  <1>1. Stream(c) \in Seq(Events)
        BY StreamContents
  <1>2. ASSUME NEW i \in DOMAIN Stream(c), NEW r \in Readers, Stream(c)[i][1] = r
        PROVE  /\ Stream(c)[i][2] <= frames'[r]
               /\ Stream(c)[i][2] = frames'[r] => TurnOver(r, c)'
    <2>1. Stream(c)[i] \in Events
          BY <1>1
    <2>2. Stream(c)[i][2] \in Nat
          BY <2>1 DEF Events
    <2> QED
        BY <1>2, <2>2, OldStayBehind DEF Behind
  <1>3. CASE Stream(c)' = Stream(c)
        BY <1>2, <1>3 DEF Behind, Ordered
  <1>4. ASSUME NEW r \in Readers, FanOutSend(r), AtTurn(r, c), Event(r) \in Events,
               Stream(c)' = Append(Stream(c), Event(r))
        PROVE  Behind(c)' /\ Ordered(c)'
    <2> DEFINE s == Stream(c)
               n == Len(s) + 1
    <2>1. /\ DOMAIN Stream(c)' = 1 .. n /\ DOMAIN s = 1 .. Len(s) /\ Len(s) \in Nat
          /\ Stream(c)'[n] = Event(r)
          /\ \A i \in DOMAIN s : Stream(c)'[i] = s[i]
          BY <1>1, <1>4
    <2>2. /\ Event(r)[1] = r /\ Event(r)[2] = frames[r] /\ frames' = frames
          BY <1>4 DEF Event, FanOutSend
    <2>3. TurnOver(r, c)'
      <3>1. list' = list /\ next'[r] = next[r] + 1
            BY <1>4 DEF ListInv, TypeOK, FanOutSend
      <3>2. \A k \in DOMAIN list : list[k] = c => k = next[r]
            BY <1>4 DEF ListInv, Once, AtTurn
      <3> QED
          BY <1>4, <3>1, <3>2 DEF ListInv, TypeOK, TurnOver, AtTurn
    <2>4. ASSUME NEW i \in DOMAIN s, s[i][1] = r PROVE s[i][2] < frames[r]
      <3>0. next[r] \in 1 .. Len(list) /\ ~TurnOver(r, c)
            BY <1>4 DEF ListInv, TypeOK, AtTurn, TurnOver
      <3>1. s[i][2] <= frames[r] /\ s[i][2] # frames[r]
            BY <2>4, <3>0 DEF Behind
      <3>2. s[i][2] \in Nat /\ frames[r] \in Nat
            BY <1>1, FramesGrow DEF Events
      <3> QED
          BY <3>1, <3>2
    <2>5. Behind(c)'
      <3>1. SUFFICES ASSUME NEW i \in 1 .. n, NEW q \in Readers, Stream(c)'[i][1] = q
                     PROVE  /\ Stream(c)'[i][2] <= frames'[q]
                            /\ Stream(c)'[i][2] = frames'[q] => TurnOver(q, c)'
            BY <2>1 DEF Behind
      <3>2. CASE i = n
        <4>1. q = r /\ Stream(c)'[i][2] = frames[r] /\ frames'[q] = frames[r] /\ frames[r] \in Nat
              BY <2>1, <2>2, <3>1, <3>2, FramesGrow
        <4> QED
            BY <2>3, <4>1
      <3>3. CASE i # n
        <4>1. i \in DOMAIN s /\ Stream(c)'[i] = s[i]
              BY <2>1, <3>3
        <4> QED
            BY <1>2, <3>1, <4>1
      <3> QED
          BY <3>2, <3>3
    <2>6. Ordered(c)'
      <3>1. SUFFICES ASSUME NEW i \in 1 .. n, NEW j \in 1 .. n, i < j,
                            Stream(c)'[i][1] = Stream(c)'[j][1]
                     PROVE  Stream(c)'[i][2] < Stream(c)'[j][2]
            BY <2>1 DEF Ordered
      <3>2. i \in DOMAIN s /\ Stream(c)'[i] = s[i]
            BY <2>1, <3>1
      <3>3. CASE j = n
            BY <2>1, <2>2, <2>4, <3>1, <3>2, <3>3
      <3>4. CASE j # n
        <4>1. j \in DOMAIN s /\ Stream(c)'[j] = s[j]
              BY <2>1, <3>4
        <4> QED
            BY <3>1, <3>2, <4>1 DEF Ordered
      <3> QED
          BY <3>3, <3>4
    <2> QED
        BY <2>5, <2>6
  <1> QED
      BY <1>3, <1>4, StreamMoves

OrderedInv == \A c \in Consumers : Behind(c) /\ Ordered(c)

\* What a consumer receives of one reader comes in order and once
\* (subscriber.go:190-199), for any number of readers at work.
THEOREM OrderIsKept == SafetySpec => []InOrder
  <1>1. Init => OrderedInv
    <2> SUFFICES ASSUME Init, NEW c \in Consumers PROVE DOMAIN Stream(c) = {}
        BY DEF OrderedInv, Behind, Ordered
    <2> QED
        BY DEF Init, Stream
  <1>2. ListInv /\ OrderedInv /\ [Next]_vars => OrderedInv'
        BY OrderStep DEF OrderedInv
  <1>3. OrderedInv => InOrder
        BY DEF OrderedInv, Ordered, InOrder, Stream
  <1> QED
      BY <1>1, <1>2, <1>3, ListInvariant, PTL DEF SafetySpec

-----------------------------------------------------------------------------
(* Debts.  An event is owed to whom the list named when its fan-out began;   *)
(* until it is delivered or refused, the fan-out is on and c's turn is still *)
(* to come.                                                                  *)

Delivered(c, e) == (\E i \in DOMAIN Stream(c) : Stream(c)[i] = e) \/ e \in dropped[c]

Due(c, e) ==
    \E r \in Readers :
        /\ e = Event(r) /\ next[r] # 0
        /\ \E k \in DOMAIN list : list[k] = c /\ next[r] <= k

DebtInv == \A c \in Consumers : \A e \in owed[c] : Delivered(c, e) \/ Due(c, e)

LEMMA DeliveredStays ==
    ASSUME ListInv, [Next]_vars, NEW c \in Consumers, NEW e, Delivered(c, e)
    PROVE  Delivered(c, e)'
  <1>1. dropped[c] \subseteq dropped'[c]
    <2> USE DEF ListInv, TypeOK
    <2>1. ASSUME NEW d \in Consumers, Subscribe(d) \/ Close(d) \/ Receive(d)
          PROVE  dropped' = dropped
          BY <2>1 DEF Subscribe, Close, Receive
    <2>2. ASSUME NEW r \in Readers, FanOutBegin(r) \/ FanOutEnd(r) PROVE dropped' = dropped
          BY <2>2 DEF FanOutBegin, FanOutEnd
    <2>3. ASSUME NEW r \in Readers, FanOutSend(r) PROVE dropped[c] \subseteq dropped'[c]
          BY <2>3, ZenonT(60) DEF FanOutSend, TrySend
    <2>4. CASE closeSubscribers \/ UNCHANGED vars
          BY <2>4 DEF closeSubscribers, vars
    <2> QED
        BY <2>1, <2>2, <2>3, <2>4 DEF Next, FanOutStep
  <1>2. ASSUME NEW i \in DOMAIN Stream(c), Stream(c)[i] = e
        PROVE  \E j \in DOMAIN Stream(c)' : Stream(c)'[j] = e
    <2>1. Stream(c) \in Seq(Events)
          BY StreamContents
    <2>2. CASE Stream(c)' = Stream(c)
          BY <1>2, <2>2
    <2>3. ASSUME NEW r \in Readers, Event(r) \in Events,
                 Stream(c)' = Append(Stream(c), Event(r))
          PROVE  i \in DOMAIN Stream(c)' /\ Stream(c)'[i] = e
          BY <1>2, <2>1, <2>3
    <2> QED
        BY <2>2, <2>3, StreamMoves
  <1> QED
      BY <1>1, <1>2 DEF Delivered

LEMMA SentIsDelivered ==
    ASSUME ListInv, NEW c \in Consumers, NEW e \in Events,
           chan'[c] = Append(chan[c], e), got'[c] = got[c]
    PROVE  Delivered(c, e)'
  <1>1. got[c] \in Seq(Events) /\ chan[c] \in Seq(Events)
        BY DEF ListInv, TypeOK
  <1>2. \A s, u \in Seq(Events) : s \o Append(u, e) = Append(s \o u, e)
        BY SendExtendsStream
  <1>3. Stream(c)' = Append(Stream(c), e)
        BY <1>1, <1>2 DEF Stream
  <1>4. Stream(c) \in Seq(Events)
        BY StreamContents
  <1>5. /\ Len(Stream(c)) + 1 \in DOMAIN Append(Stream(c), e)
        /\ Append(Stream(c), e)[Len(Stream(c)) + 1] = e
        BY <1>4
  <1> QED
      BY <1>3, <1>5 DEF Delivered

\* A turn that is due comes before the loop ends, and the list waits for it.
LEMMA DueComes ==
    ASSUME ListInv, [Next]_vars, NEW c \in Consumers, NEW e, Due(c, e)
    PROVE  Delivered(c, e)' \/ Due(c, e)'
  <1>1. PICK r \in Readers, k \in DOMAIN list :
            e = Event(r) /\ next[r] # 0 /\ list[k] = c /\ next[r] <= k
        BY DEF Due
  <1> USE DEF ListInv, TypeOK
  <1>2. ASSUME list' = list, next'[r] = next[r], frames'[r] = frames[r] PROVE Due(c, e)'
        BY <1>1, <1>2 DEF Due, Event
  <1>3. ASSUME NEW d \in Consumers, Subscribe(d) \/ Close(d) PROVE FALSE
        BY <1>1, <1>3 DEF Subscribe, Close, NoReadLock
  <1>4. ASSUME NEW d \in Consumers, Receive(d) PROVE Due(c, e)'
        BY <1>2, <1>4 DEF Receive
  <1>5. ASSUME NEW q \in Readers, FanOutBegin(q) PROVE Due(c, e)'
        BY <1>1, <1>2, <1>5 DEF FanOutBegin
  <1>6. ASSUME NEW q \in Readers, FanOutEnd(q) PROVE Due(c, e)'
    <2>1. q # r
          BY <1>1, <1>6 DEF FanOutEnd
    <2> QED
        BY <1>2, <1>6, <2>1 DEF FanOutEnd
  <1>7. ASSUME NEW q \in Readers, FanOutSend(q) PROVE Delivered(c, e)' \/ Due(c, e)'
    <2>1. CASE q # r
          BY <1>2, <1>7, <2>1 DEF FanOutSend
    <2>2. CASE q = r /\ next[r] = k
      <3>1. e \in Events
            BY <1>1 DEF Event, Events
      <3>2. TrySend(c, e)
            BY <1>1, <1>7, <2>2 DEF FanOutSend
      <3>3. CASE Len(chan[c]) < Capacity
        <4>1. chan'[c] = Append(chan[c], e) /\ got'[c] = got[c]
              BY <1>7, <3>2, <3>3 DEF FanOutSend, TrySend
        <4> QED
            BY <3>1, <4>1, SentIsDelivered
      <3>4. CASE ~(Len(chan[c]) < Capacity)
            BY <3>2, <3>4 DEF TrySend, Delivered
      <3> QED
          BY <3>3, <3>4
    <2>3. CASE q = r /\ next[r] # k
      <3>1. /\ next'[r] = next[r] + 1 /\ next'[r] # 0 /\ next'[r] <= k
            /\ list' = list /\ frames' = frames
        <4>1. next[r] \in Nat /\ k \in Nat /\ next[r] < k
              BY <1>1, <2>3
        <4>2. next'[r] = next[r] + 1 /\ list' = list /\ frames' = frames
              BY <1>7, <2>3 DEF FanOutSend
        <4>3. \A m, l \in Nat : m < l => m + 1 # 0 /\ m + 1 <= l
              OBVIOUS
        <4> QED
            BY <4>1, <4>2, <4>3
      <3> QED
          BY <1>1, <3>1 DEF Due, Event
    <2> QED
        BY <2>1, <2>2, <2>3
  <1>8. CASE closeSubscribers
        BY <1>1, <1>8 DEF closeSubscribers, NoReadLock
  <1>9. CASE UNCHANGED vars
        BY <1>2, <1>9 DEF vars
  <1> QED
      BY <1>3, <1>4, <1>5, <1>6, <1>7, <1>8, <1>9 DEF Next, FanOutStep

\* A new debt is due.
LEMMA NewDebtIsDue ==
    ASSUME ListInv, [Next]_vars, NEW c \in Consumers, NEW e \in owed'[c], e \notin owed[c]
    PROVE  Due(c, e)'
  <1> USE DEF ListInv, TypeOK
  <1>1. PICK r \in Readers : FanOutBegin(r)
        BY DEF Next, FanOutStep, Subscribe, Close, Receive, FanOutSend, FanOutEnd,
               closeSubscribers, vars
  <1>2. c \in Listed /\ e = <<r, frames'[r]>>
        BY <1>1 DEF FanOutBegin
  <1>3. PICK k \in DOMAIN list : list[k] = c
        BY <1>2 DEF Listed
  <1>4. next'[r] = 1 /\ list' = list /\ 1 <= k
        BY <1>1 DEF FanOutBegin
  <1> QED
      BY <1>2, <1>3, <1>4, SMTT(20) DEF Due, Event

\* A consumer that is subscribed when a fan-out begins gets the event, or its
\* own channel was full (subscriber.go:190-199), whoever comes and goes.
THEOREM NobodyIsSkipped == SafetySpec => []NobodySkipped
  <1>1. Init => DebtInv
        BY DEF Init, DebtInv
  <1>2. ListInv /\ DebtInv /\ [Next]_vars => DebtInv'
        BY DeliveredStays, DueComes, NewDebtIsDue DEF DebtInv
  <1>3. ASSUME ListInv, DebtInv PROVE NobodySkipped
    <2> SUFFICES ASSUME NEW c \in Consumers, NEW e \in owed[c]
                 PROVE  \/ e \in Received(c) \cup Buffered(c) \cup dropped[c]
                        \/ next[e[1]] # 0 /\ e = Event(e[1])
        BY DEF NobodySkipped
    <2>1. CASE Delivered(c, e)
          BY <1>3, <2>1, StreamContents DEF Delivered
    <2>2. CASE Due(c, e)
          BY <2>2 DEF Due, Event
    <2> QED
        BY <1>3, <2>1, <2>2 DEF DebtInv
  <1> QED
      BY <1>1, <1>2, <1>3, ListInvariant, PTL DEF SafetySpec

-----------------------------------------------------------------------------
(* The end of a subscription.                                                *)

\* A channel that was subscribed is listed or closed, never neither: no path
\* drops a channel without closing it.
NoOrphan == \A c \in Consumers : consumer[c] # "new" => (c \in Listed <=> closes[c] = 0)

LEMMA OrphanStep == ListInv /\ NoOrphan /\ [Next]_vars => NoOrphan'
  <1> SUFFICES ASSUME ListInv, NoOrphan, [Next]_vars PROVE NoOrphan'
      OBVIOUS
  <1>1. ASSUME NEW c \in Consumers, Subscribe(c) PROVE NoOrphan'
    <2>1. list \in Seq(Consumers) /\ list' = Append(list, c) /\ closes[c] = 0
          BY <1>1 DEF ListInv, TypeOK, Subscribe
    <2>2. /\ DOMAIN list' = 1 .. Len(list) + 1 /\ DOMAIN list = 1 .. Len(list)
          /\ \A i \in 1 .. Len(list) : list'[i] = list[i]
          /\ list'[Len(list) + 1] = c /\ Len(list) \in Nat
          BY <2>1
    <2>3. Listed' = Listed \cup {c}
          BY <2>2 DEF Listed
    <2> QED
        BY <1>1, <2>1, <2>3 DEF ListInv, TypeOK, NoOrphan, Subscribe
  <1>2. ASSUME NEW c \in Consumers, Close(c) PROVE NoOrphan'
    <2>1. CASE c \in Listed
      <3>1. Listed' = Listed \ {c} /\ closes' = [closes EXCEPT ![c] = @ + 1]
            BY <1>2, <2>1, UnlistRemoves DEF ListInv, TypeOK, Close, removeSub
      <3>2. closes[c] \in Nat /\ closes \in [Consumers -> Nat] /\ consumer' = consumer
            BY <1>2 DEF ListInv, TypeOK, Close
      <3> QED
          BY <3>1, <3>2 DEF NoOrphan
    <2>2. CASE c \notin Listed
          BY <1>2, <2>2 DEF NoOrphan, Listed, Close, removeSub
    <2> QED
        BY <2>1, <2>2
  <1>3. CASE closeSubscribers
    <2>1. Listed' = {} /\ consumer' = consumer
          BY <1>3 DEF closeSubscribers, Listed
    <2>2. \A c \in Consumers : consumer[c] # "new" => closes'[c] # 0
          BY <1>3 DEF ListInv, TypeOK, NoOrphan, closeSubscribers
    <2> QED
        BY <2>1, <2>2 DEF NoOrphan
  <1>4. ASSUME NEW c \in Consumers, Receive(c) PROVE NoOrphan'
    <2>1. \A d \in Consumers : consumer'[d] # "new" => consumer[d] # "new"
          BY <1>4 DEF ListInv, TypeOK, Receive
    <2> QED
        BY <1>4, <2>1 DEF NoOrphan, Listed, Receive
  <1>5. ASSUME NEW r \in Readers, FanOutBegin(r) \/ FanOutStep(r) PROVE NoOrphan'
        BY <1>5 DEF NoOrphan, Listed, FanOutBegin, FanOutStep, FanOutSend, FanOutEnd
  <1>6. CASE UNCHANGED vars
        BY <1>6 DEF NoOrphan, Listed, vars
  <1> QED
      BY <1>1, <1>2, <1>3, <1>4, <1>5, <1>6 DEF Next

\* A subscription that left the list stays out of it, and its channel only
\* drains: nobody adds to it, and its consumer finds it closed when it is empty.
\* With a consumer that keeps reading this is why its range loop ends.
OnlyDrains ==
    [][\A c \in Consumers : consumer[c] # "new" /\ c \notin Listed =>
          /\ c \notin Listed'
          /\ closes[c] > 0
          /\ chan'[c] = chan[c] \/ (chan[c] # <<>> /\ chan'[c] = Tail(chan[c]))]_vars

\* Whoever closes the channel (subscriber.go:141-151, 181-199), a consumer that
\* ranges over it is not left waiting: its channel is closed and will be empty.
THEOREM ClosedChannelsDrain == SafetySpec => []NoOrphan /\ OnlyDrains
  <1> DEFINE Drains ==
        \A c \in Consumers : consumer[c] # "new" /\ c \notin Listed =>
            /\ c \notin Listed'
            /\ closes[c] > 0
            /\ chan'[c] = chan[c] \/ (chan[c] # <<>> /\ chan'[c] = Tail(chan[c]))
  <1>1. Init => NoOrphan
        BY DEF Init, NoOrphan
  <1>2. ListInv /\ NoOrphan /\ [Next]_vars => [Drains]_vars
    <2> SUFFICES ASSUME ListInv, NoOrphan, Next, NEW c \in Consumers,
                        consumer[c] # "new", c \notin Listed
                 PROVE  /\ c \notin Listed'
                        /\ closes[c] > 0
                        /\ chan'[c] = chan[c] \/ (chan[c] # <<>> /\ chan'[c] = Tail(chan[c]))
        OBVIOUS
    <2>1. closes[c] > 0
          BY DEF ListInv, TypeOK, NoOrphan
    <2>2. ASSUME NEW d \in Consumers, Subscribe(d) PROVE c \notin Listed' /\ chan' = chan
      <3>1. d # c /\ list \in Seq(Consumers) /\ list' = Append(list, d) /\ chan' = chan
            BY <2>2 DEF ListInv, TypeOK, Subscribe
      <3>2. \A i \in DOMAIN list' : list'[i] = d \/ (i \in DOMAIN list /\ list'[i] = list[i])
            BY <3>1
      <3> QED
          BY <3>1, <3>2 DEF Listed
    <2>3. ASSUME NEW d \in Consumers, Close(d) PROVE c \notin Listed' /\ chan' = chan
      <3>1. CASE d \in Listed
            BY <2>3, <3>1, UnlistRemoves DEF ListInv, TypeOK, Close, removeSub
      <3>2. CASE d \notin Listed
            BY <2>3, <3>2 DEF Close, removeSub, Listed
      <3> QED
          BY <3>1, <3>2
    <2>4. ASSUME NEW d \in Consumers, Receive(d)
          PROVE  /\ c \notin Listed'
                 /\ chan'[c] = chan[c] \/ (chan[c] # <<>> /\ chan'[c] = Tail(chan[c]))
          BY <2>4 DEF ListInv, TypeOK, Listed, Receive
    <2>5. ASSUME NEW r \in Readers, FanOutBegin(r) \/ FanOutEnd(r)
          PROVE  c \notin Listed' /\ chan' = chan
          BY <2>5 DEF Listed, FanOutBegin, FanOutEnd
    <2>6. ASSUME NEW r \in Readers, FanOutSend(r) PROVE c \notin Listed' /\ chan'[c] = chan[c]
      <3>1. list[next[r]] # c /\ list' = list /\ TrySend(list[next[r]], Event(r))
            BY <2>6 DEF Listed, FanOutSend
      <3>2. chan'[c] = chan[c]
            BY <3>1 DEF ListInv, TypeOK, TrySend
      <3> QED
          BY <3>1, <3>2 DEF Listed
    <2>7. ASSUME closeSubscribers PROVE c \notin Listed' /\ chan' = chan
          BY <2>7 DEF closeSubscribers, Listed
    <2> QED
        BY <2>1, <2>2, <2>3, <2>4, <2>5, <2>6, <2>7 DEF Next, FanOutStep
  <1> QED
      BY <1>1, <1>2, OrphanStep, ListInvariant, PTL DEF SafetySpec, OnlyDrains
=============================================================================
