---------------------------- MODULE KeepaliveProofs ----------------------------
(* A peer that answers its pings is never given up, for every ping interval,  *)
(* pong delay and duration of OnConnect that KeepaliveAssumption allows.      *)
EXTENDS Keepalive, TLAPS

\* Between two pings the deadline is as old as the ticker, give or take what
\* OnConnect took before the ticker was started ...
BetweenPings == flight = {} => idle <= since + MaxCallback

\* ... and while a pong is awaited, one interval older.
AwaitingPong ==
    \A a \in flight : a = since /\ idle <= PingInterval + MaxCallback + since

\* Nothing is written to the peer of a connection whose reader does not run yet.
BeforeStream == idle <= MaxCallback /\ reader = "none" /\ flight = {} /\ ~pinging

\* With the peer alive, the reader has time left, and as long as connect
\* streams, the pings say how much.
TimeLeft ==
    /\ idle < readTimeout
    /\ phase \in {"stream", "closing", "drain", "cleanup"}
    /\ phase = "stream" => pinging /\ BetweenPings /\ AwaitingPong

\* What holds until the peer is gone for the first time.
LiveInv ==
    ~wasGone =>
        /\ peer # "gone"
        /\ holder = "none"
        /\ ~timedOut
        /\ phase \in {"handshake", "callback"} => BeforeStream
        /\ phase = "handshake" => idle = 0
        /\ reader = "running" /\ peer = "alive" => TimeLeft
KeepaliveInd == TypeOK /\ LiveInv

LEMMA InitInd == Init => KeepaliveInd
  <1> USE KeepaliveAssumption DEF KeepaliveAssumption, Init
  <1>1. Init => TypeOK
    <2> SUFFICES ASSUME Init PROVE TypeOK
        OBVIOUS
    <2>1. idle \in 0 .. readTimeout /\ since \in 0 .. PingInterval /\ room \in 0 .. Buffer
          BY DEF readTimeout
    <2> QED
        BY <2>1 DEF TypeOK, Phases
  <1>2. Init => LiveInv
        BY DEF LiveInv, BeforeStream
  <1> QED
      BY <1>1, <1>2 DEF KeepaliveInd

\* No step leaves the types.
LEMMA TypeStep == TypeOK /\ [Next]_vars => TypeOK'
  <1> SUFFICES ASSUME TypeOK, [Next]_vars PROVE TypeOK'
      OBVIOUS
  <1> USE KeepaliveAssumption
      DEF KeepaliveAssumption, TypeOK, Phases, Writers, readTimeout, peerVars, pingVars,
          readVars, writeVars
  <1>1. CASE ConnectStep
    <2>1. CASE Handshake
          BY <2>1 DEF Handshake, WriteOk, WriteBlocks, WriteFails
    <2>2. CASE CallbackReturns
          BY <2>2 DEF CallbackReturns
    <2>3. CASE StreamDone
          BY <2>3 DEF StreamDone
    <2>4. CASE StreamCancel
          BY <2>4 DEF StreamCancel
    <2>5. CASE CloseFrame
          BY <2>5 DEF CloseFrame, WriteOk, WriteBlocks, WriteFails
    <2>6. CASE Drain
          BY <2>6 DEF Drain
    <2>7. CASE Cleanup
          BY <2>7 DEF Cleanup
    <2> QED
        BY <1>1, <2>1, <2>2, <2>3, <2>4, <2>5, <2>6, <2>7 DEF ConnectStep
  <1>2. CASE Unblock
    <2>1. phase' \in Phases /\ pinging' \in BOOLEAN
          BY <1>2 DEF Unblock
    <2>2. flight' \in SUBSET (0 .. MaxDelay)
          BY <1>2 DEF Unblock
    <2> QED
        BY <1>2, <2>1, <2>2 DEF Unblock
  <1>3. CASE Ping
    <2>1. flight' \in SUBSET (0 .. MaxDelay) /\ since' \in 0 .. PingInterval
          BY <1>3 DEF Ping
    <2>2. room' \in 0 .. Buffer /\ holder' \in Writers \cup {"none"}
          BY <1>3 DEF Ping, WriteOk, WriteBlocks, WriteFails
    <2>3. pinging' \in BOOLEAN
          BY <1>3 DEF Ping
    <2> QED
        BY <1>3, <2>1, <2>2, <2>3 DEF Ping
  <1>4. CASE Pong
        BY <1>4 DEF Pong
  <1>5. CASE Frame
        BY <1>5 DEF Frame
  <1>6. CASE ReadFails
        BY <1>6 DEF ReadFails
  <1>7. CASE RequestWrite
        BY <1>7 DEF RequestWrite, WriteOk, WriteBlocks
  <1>8. CASE Cancel
        BY <1>8 DEF Cancel
  <1>9. CASE PeerGone
        BY <1>9 DEF PeerGone
  <1>10. CASE PeerReturns
        BY <1>10 DEF PeerReturns
  <1>11. CASE PeerCloses
        BY <1>11 DEF PeerCloses
  <1>12. CASE Tick
    <2>1. flight' \in SUBSET (0 .. MaxDelay)
          BY <1>12 DEF Tick
    <2> QED
        BY <1>12, <2>1 DEF Tick
  <1>13. CASE UNCHANGED vars
        BY <1>13 DEF vars
  <1> QED
      BY <1>1, <1>2, <1>3, <1>4, <1>5, <1>6, <1>7, <1>8, <1>9, <1>10, <1>11, <1>12, <1>13
      DEF Next

\* A connection whose peer has not been gone keeps its time budget.
LEMMA LiveStep == KeepaliveInd /\ [Next]_vars => LiveInv'
  <1> SUFFICES ASSUME TypeOK, LiveInv, [Next]_vars, ~wasGone'
               PROVE  LiveInv'
      BY DEF KeepaliveInd, LiveInv
  <1>0. ~wasGone
        BY DEF Next, vars, ConnectStep, Handshake, CallbackReturns, StreamDone, StreamCancel,
               CloseFrame, Drain, Cleanup, Unblock, Ping, Pong, Frame, ReadFails, RequestWrite,
               Cancel, PeerGone, PeerReturns, PeerCloses, Tick, peerVars
  <1> USE <1>0, KeepaliveAssumption
      DEF KeepaliveAssumption, TypeOK, LiveInv, BeforeStream, TimeLeft, BetweenPings,
          AwaitingPong, Phases, readTimeout, peerVars, pingVars, readVars, writeVars
  <1>1. CASE ConnectStep
    <2>1. CASE Handshake
          BY <2>1 DEF Handshake, WriteOk, WriteBlocks, WriteFails
    <2>2. CASE CallbackReturns
          BY <2>2 DEF CallbackReturns
    <2>3. CASE StreamDone
          BY <2>3 DEF StreamDone
    <2>4. CASE StreamCancel
          BY <2>4 DEF StreamCancel
    <2>5. CASE CloseFrame
          BY <2>5 DEF CloseFrame, WriteOk, WriteBlocks, WriteFails
    <2>6. CASE Drain
          BY <2>6 DEF Drain
    <2>7. CASE Cleanup
          BY <2>7 DEF Cleanup
    <2> QED
        BY <1>1, <2>1, <2>2, <2>3, <2>4, <2>5, <2>6, <2>7 DEF ConnectStep
  <1>2. CASE Unblock
        BY <1>2 DEF Unblock
  <1>3. CASE Ping
    <2>1. reader = "running" /\ peer = "alive" /\ phase = "stream" => flight = {}
      <3> SUFFICES ASSUME reader = "running", peer = "alive", phase = "stream",
                          NEW a \in flight
                   PROVE  FALSE
          OBVIOUS
      <3> QED
          BY <1>3 DEF Ping, PingDue
    <2>2. holder' = "none" /\ (peer = "alive" => pinging')
          BY <1>3 DEF Ping, PingDue, WriteOk, WriteBlocks, WriteFails
    <2>3. phase = "stream" /\ peer = "alive" /\ reader = "running" =>
              /\ idle <= PingInterval + MaxCallback
              /\ flight' = {0} /\ since' = 0
          BY <1>3, <2>1 DEF Ping, PingDue
    <2>4. phase = "stream" /\ peer = "alive" /\ reader = "running" =>
              BetweenPings' /\ AwaitingPong'
          BY <1>3, <2>3 DEF Ping
    <2>5. phase \notin {"handshake", "callback"}
          BY <1>3 DEF Ping, PingDue
    <2>6. reader = "running" /\ peer = "alive" => TimeLeft'
          BY <1>3, <2>2, <2>4 DEF Ping
    <2> QED
        BY <1>3, <2>2, <2>5, <2>6 DEF Ping
  <1>4. CASE Pong
        BY <1>4 DEF Pong
  <1>5. CASE Frame
        BY <1>5 DEF Frame
  <1>6. CASE ReadFails
        BY <1>6 DEF ReadFails
  <1>7. CASE RequestWrite
        BY <1>7 DEF RequestWrite
  <1>8. CASE Cancel
        BY <1>8 DEF Cancel
  <1>9. CASE PeerGone
        BY <1>9 DEF PeerGone
  <1>10. CASE PeerReturns
        BY <1>10 DEF PeerReturns
  <1>11. CASE PeerCloses
        BY <1>11 DEF PeerCloses
  <1>12. CASE Tick
    <2>1. reader = "running" /\ peer = "alive" => phase = "stream"
          BY <1>12 DEF Tick, Busy
    <2>2. reader = "running" /\ peer = "alive" => since < PingInterval /\ since' = since + 1
          BY <1>12, <2>1 DEF Tick, PingDue
    <2>3. idle' \in Nat /\ idle' <= idle + 1
          BY <1>12 DEF Tick
    <2>4. CASE flight = {}
          BY <1>12, <2>1, <2>2, <2>3, <2>4 DEF Tick, Busy
    <2>5. ASSUME NEW a \in flight
          PROVE  LiveInv'
      <3>1. a < MaxDelay
            BY <1>12 DEF Tick
      <3>2. reader = "running" /\ peer = "alive" =>
                a = since /\ idle' <= PingInterval + MaxCallback + since + 1
            BY <2>1, <2>3
      <3>3. reader = "running" /\ peer = "alive" =>
                \A b \in flight' : b = since + 1
            BY <1>12, <2>1 DEF Tick
      <3>4. flight' # {}
            BY <1>12 DEF Tick
      <3> QED
          BY <1>12, <2>1, <2>2, <3>1, <3>2, <3>3, <3>4 DEF Tick, Busy
    <2> QED
        BY <2>4, <2>5
  <1>13. CASE UNCHANGED vars
        BY <1>13 DEF vars
  <1> QED
      BY <1>1, <1>2, <1>3, <1>4, <1>5, <1>6, <1>7, <1>8, <1>9, <1>10, <1>11, <1>12, <1>13
      DEF Next

\* KeepaliveInd holds in every reachable state.
THEOREM KeepaliveInvariant == SafetySpec => []KeepaliveInd
  <1>1. KeepaliveInd /\ [Next]_vars => KeepaliveInd'
        BY TypeStep, LiveStep DEF KeepaliveInd
  <1> QED
      BY InitInd, <1>1, PTL DEF SafetySpec

\* The variables of Keepalive keep their types: in particular no deadline is
\* missed by the reader and no pong takes longer than MaxDelay.
THEOREM KeepaliveTypeCorrect == SafetySpec => []TypeOK
  <1>1. KeepaliveInd => TypeOK
        BY DEF KeepaliveInd
  <1> QED
      BY KeepaliveInvariant, <1>1, PTL

\* Two ping intervals are enough: the reader of a connection whose peer answers
\* its pings never meets its deadline (connection.go:101-111).
THEOREM LivePeersAreKept == SafetySpec => []LivePeerKept
  <1>1. KeepaliveInd => LivePeerKept
        BY DEF KeepaliveInd, LiveInv, LivePeerKept
  <1> QED
      BY KeepaliveInvariant, <1>1, PTL

-----------------------------------------------------------------------------
(* A silent peer.                                                          *)

\* No pong is under way from a peer that is not there.
NothingComes == peer # "alive" => flight = {}

LEMMA NothingComesStep == NothingComes /\ [Next]_vars => NothingComes'
  <1> SUFFICES ASSUME NothingComes, [Next]_vars PROVE NothingComes'
      OBVIOUS
  <1> USE DEF NothingComes, peerVars, pingVars, readVars, writeVars
  <1>1. CASE ConnectStep
        BY <1>1 DEF ConnectStep, Handshake, CallbackReturns, StreamDone, StreamCancel,
           CloseFrame, Drain, Cleanup
  <1>2. CASE Unblock
        BY <1>2 DEF Unblock
  <1>3. CASE Ping
        BY <1>3 DEF Ping
  <1>4. CASE Pong
        BY <1>4 DEF Pong
  <1>5. CASE Frame \/ ReadFails \/ RequestWrite
        BY <1>5 DEF Frame, ReadFails, RequestWrite
  <1>6. CASE Cancel \/ PeerGone \/ PeerReturns \/ PeerCloses
        BY <1>6 DEF Cancel, PeerGone, PeerReturns, PeerCloses
  <1>7. CASE Tick
        BY <1>7 DEF Tick
  <1>8. CASE UNCHANGED vars
        BY <1>8 DEF vars
  <1> QED
      BY <1>1, <1>2, <1>3, <1>4, <1>5, <1>6, <1>7, <1>8 DEF Next

\* While a peer is gone nothing puts the read deadline off, though this side goes
\* on writing pings and requests; a tick of the clock brings it nearer, and the
\* reader ends at the deadline only, or because connect closed the socket.
SilenceCounts ==
    [][peer = "gone" /\ peer' = "gone" /\ reader = "running" =>
          /\ idle' = idle \/ (Tick /\ idle' = idle + 1)
          /\ reader' = "running" \/ idle = readTimeout \/ Cleanup]_vars

\* A half-open connection cannot be kept alive by the traffic of this side
\* (connection.go:101-111): the safety part of SilenceNoticed.
THEOREM SilenceIsNotPutOff == SafetySpec => SilenceCounts
  <1> DEFINE Counts ==
        peer = "gone" /\ peer' = "gone" /\ reader = "running" =>
            /\ idle' = idle \/ (Tick /\ idle' = idle + 1)
            /\ reader' = "running" \/ idle = readTimeout \/ Cleanup
  <1>1. Init => NothingComes
        BY DEF Init, NothingComes
  <1>2. NothingComes /\ [Next]_vars => [Counts]_vars
    <2> SUFFICES ASSUME NothingComes, Next, peer = "gone", peer' = "gone", reader = "running"
                 PROVE  /\ idle' = idle \/ (Tick /\ idle' = idle + 1)
                        /\ reader' = "running" \/ idle = readTimeout \/ Cleanup
        OBVIOUS
    <2>1. CASE ConnectStep
      <3>1. idle' = idle
            BY <2>1 DEF ConnectStep, Handshake, CallbackReturns, StreamDone, StreamCancel,
               CloseFrame, Drain, Cleanup, readVars
      <3>2. reader' = "running" \/ Cleanup
            BY <2>1 DEF ConnectStep, Handshake, CallbackReturns, StreamDone, StreamCancel,
               CloseFrame, Drain, readVars
      <3> QED
          BY <3>1, <3>2
    <2>2. CASE Unblock \/ Ping \/ RequestWrite
          BY <2>2 DEF Unblock, Ping, RequestWrite, readVars
    <2>3. ~Pong /\ ~Frame
          BY DEF Pong, Frame, NothingComes
    <2>4. CASE ReadFails
          BY <2>4 DEF ReadFails
    <2>5. CASE Cancel \/ PeerGone \/ PeerReturns \/ PeerCloses
          BY <2>5 DEF Cancel, PeerGone, PeerReturns, PeerCloses, readVars
    <2>6. CASE Tick
      <3>1. idle < readTimeout /\ reader' = "running"
            BY <2>6 DEF Tick
      <3>2. idle' = IF idle < readTimeout THEN idle + 1 ELSE idle
            BY <2>6 DEF Tick
      <3> QED
          BY <2>6, <3>1, <3>2
    <2> QED
        BY <2>1, <2>2, <2>3, <2>4, <2>5, <2>6 DEF Next
  <1> QED
      BY <1>1, <1>2, NothingComesStep, PTL DEF SafetySpec, SilenceCounts
=============================================================================
