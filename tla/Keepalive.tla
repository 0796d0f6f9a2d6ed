------------------------------- MODULE Keepalive -------------------------------
(***************************************************************************)
(* One connection of a Subscriber in time: the read deadline, the pings    *)
(* and their pongs, and the mutex connWriteMu under which everybody writes *)
(* (subscriber/connection.go:101-172, 223-256).  Module Connection lets a  *)
(* socket be lost at any time and lets every write return; this module is  *)
(* about when the deadline makes the reader give up, and about a write     *)
(* that does not return because the peer has stopped reading.              *)
(*                                                                         *)
(* Time is counted in ticks; what goroutines do takes none, except for the *)
(* user's OnConnect.  The timers that end "drain" (one second) and the     *)
(* retry of Start are not on this clock.                                   *)
(***************************************************************************)
EXTENDS Naturals

CONSTANTS
    PingInterval,  \* s.pingInterval, in ticks
    MaxDelay,      \* from a ping to its pong, when the peer is alive
    MaxCallback,   \* from the first read deadline to the return of OnConnect
    Buffer         \* frames the kernel accepts for a peer that does not read

\* What the timing of connect needs to keep a live peer: the deadline runs
\* while OnConnect does, the ping ticker starts after it.
ASSUME KeepaliveAssumption ==
    /\ PingInterval \in Nat /\ MaxDelay \in Nat /\ MaxCallback \in Nat
    /\ Buffer \in Nat
    /\ MaxCallback + MaxDelay < PingInterval

\* Broken: one ping interval instead of two.
oneInterval == PingInterval

readTimeout == 2 * PingInterval

VARIABLES
    phase,     \* where connect is
    cancelled, \* connCtx is done
    reader,    \* the reader goroutine: "none", "running" or "ended"
    idle,      \* ticks since the read deadline was last moved
    pinging,   \* the ping goroutine runs
    since,     \* ticks since its ticker fired
    peer,      \* "alive", "gone" (nothing is read or answered) or "closed"
    flight,    \* ages of the pings whose pong has not arrived
    room,      \* frames the kernel still accepts for a peer that is gone
    holder,    \* who holds connWriteMu in a write that does not return
    timedOut,  \* history: the reader ended because of the deadline
    wasGone    \* history: the peer has been gone

peerVars == <<peer, wasGone>>
pingVars == <<pinging, since, flight>>
readVars == <<reader, idle, timedOut>>
writeVars == <<room, holder>>
vars == <<phase, cancelled, peerVars, pingVars, readVars, writeVars>>

Phases == {"handshake", "callback", "stream", "closing", "drain", "cleanup", "returned"}
Writers == {"handshake", "ping", "request", "close"}

\* connect has dialled, installed the socket and set the first deadline.
Init ==
    /\ phase = "handshake"
    /\ cancelled = FALSE
    /\ reader = "none" /\ idle = 0 /\ timedOut = FALSE
    /\ pinging = FALSE /\ since = 0 /\ flight = {}
    /\ peer = "alive" /\ wasGone = FALSE
    /\ room = Buffer /\ holder = "none"

-----------------------------------------------------------------------------
(* writeMessage: what a write under connWriteMu comes to.                  *)

\* Broken: the kernel is taken to accept any number of frames.
WriteAlwaysOk ==
    /\ holder = "none"
    /\ \/ peer = "alive" /\ UNCHANGED room
       \/ peer = "gone" /\ room' = room - 1
    /\ UNCHANGED holder

\* It returns nil: the peer, or the kernel, took the frame.
WriteOk ==
    /\ holder = "none"
    /\ \/ peer = "alive" /\ UNCHANGED room
       \/ peer = "gone" /\ room > 0 /\ room' = room - 1
    /\ UNCHANGED holder

\* It does not return.  Handshakes and requests may be longer than what the
\* kernel still takes; pings and close frames are a few bytes.  Writes have no
\* deadline.
WriteBlocks(who) ==
    /\ holder = "none"
    /\ peer = "gone"
    /\ room = 0 \/ who \in {"handshake", "request"}
    /\ holder' = who
    /\ UNCHANGED room

WriteFails ==
    /\ holder = "none"
    /\ peer = "closed"
    /\ UNCHANGED writeVars

-----------------------------------------------------------------------------
(* The goroutine of Start, in connect.                                     *)

Handshake ==
    /\ phase = "handshake"
    /\ \/ WriteOk /\ phase' = "callback"
       \/ WriteBlocks("handshake") /\ UNCHANGED phase
       \/ WriteFails /\ phase' = "cleanup"
    /\ UNCHANGED <<cancelled, peerVars, pingVars, readVars>>

\* OnConnect returns; the ping and reader goroutines start.
CallbackReturns ==
    /\ phase = "callback"
    /\ phase' = "stream"
    /\ reader' = "running"
    /\ pinging' = TRUE
    /\ since' = 0
    /\ UNCHANGED <<cancelled, peerVars, flight, idle, timedOut, writeVars>>

\* Broken: connect waits for its context only.
StreamDeaf ==
    /\ phase = "stream"
    /\ reader = "ended" /\ cancelled
    /\ phase' = "cleanup"
    /\ pinging' = FALSE
    /\ UNCHANGED <<cancelled, peerVars, since, flight, readVars, writeVars>>

StreamDone ==
    /\ phase = "stream"
    /\ reader = "ended"
    /\ phase' = "cleanup"
    /\ pinging' = FALSE
    /\ UNCHANGED <<cancelled, peerVars, since, flight, readVars, writeVars>>

StreamCancel ==
    /\ phase = "stream"
    /\ cancelled
    /\ phase' = "closing"
    /\ pinging' = FALSE
    /\ UNCHANGED <<cancelled, peerVars, since, flight, readVars, writeVars>>

CloseFrame ==
    /\ phase = "closing"
    /\ \/ (WriteOk \/ WriteFails) /\ phase' = "drain"
       \/ WriteBlocks("close") /\ UNCHANGED phase
    /\ UNCHANGED <<cancelled, peerVars, pingVars, readVars>>

\* The reader ended, or one second passed.
Drain ==
    /\ phase = "drain"
    /\ phase' = "cleanup"
    /\ UNCHANGED <<cancelled, peerVars, pingVars, readVars, writeVars>>

\* The deferred cleanup: activeConn = nil under connWriteMu, then conn.Close,
\* after which reads fail.
Cleanup ==
    /\ phase = "cleanup"
    /\ holder = "none"
    /\ phase' = "returned"
    /\ reader' = IF reader = "running" THEN "ended" ELSE reader
    /\ UNCHANGED <<cancelled, peerVars, pingVars, idle, timedOut, writeVars>>

\* A write that was blocked comes back, and its goroutine with it.
Unblock ==
    /\ holder # "none"
    /\ peer # "gone"
    /\ holder' = "none"
    /\ phase' = CASE holder = "handshake" /\ peer = "alive"  -> "callback"
                  [] holder = "handshake" /\ peer = "closed" -> "cleanup"
                  [] holder = "close" -> "drain"
                  [] OTHER -> phase
    /\ IF holder = "ping"
       THEN /\ flight' = IF peer = "alive" THEN flight \cup {0} ELSE flight
            /\ pinging' = (pinging /\ peer = "alive")
       ELSE UNCHANGED <<flight, pinging>>
    /\ UNCHANGED <<cancelled, peerVars, since, readVars, room>>

-----------------------------------------------------------------------------
(* The ping goroutine and the reader.                                      *)

PingDue == pinging /\ since = PingInterval

\* The ticker goes on while the ping is written.
Ping ==
    /\ PingDue
    /\ since' = 0
    /\ \/ WriteOk /\ UNCHANGED pinging
       \/ WriteBlocks("ping") /\ UNCHANGED pinging
       \/ WriteFails /\ pinging' = FALSE
    /\ flight' = IF peer = "alive" THEN flight \cup {0} ELSE flight
    /\ UNCHANGED <<phase, cancelled, peerVars, readVars>>

\* The pong handler, called by the reader's ReadMessage.
Pong ==
    /\ reader = "running"
    /\ \E a \in flight : flight' = flight \ {a}
    /\ idle' = 0
    /\ UNCHANGED <<phase, cancelled, peerVars, pinging, since, reader, timedOut, writeVars>>

\* A frame is read: the reader moves the deadline.
Frame ==
    /\ reader = "running"
    /\ peer = "alive"
    /\ idle' = 0
    /\ UNCHANGED <<phase, cancelled, peerVars, pingVars, reader, timedOut, writeVars>>

\* Broken: reads have no deadline.
NoTimeout ==
    /\ reader = "running"
    /\ peer = "closed"
    /\ reader' = "ended"
    /\ UNCHANGED <<phase, cancelled, peerVars, pingVars, idle, timedOut, writeVars>>

\* ReadMessage fails: the deadline passed, or the peer closed the socket.
ReadFails ==
    /\ reader = "running"
    /\ idle = readTimeout \/ peer = "closed"
    /\ reader' = "ended"
    /\ timedOut' = (peer # "closed")
    /\ UNCHANGED <<phase, cancelled, peerVars, pingVars, idle, writeVars>>

-----------------------------------------------------------------------------
(* Other writers, the caller, the peer and the clock.                      *)

\* A request or subscription change of any goroutine, while nobody reads.
RequestWrite ==
    /\ phase # "returned"
    /\ peer = "gone"
    /\ WriteOk \/ WriteBlocks("request")
    /\ UNCHANGED <<phase, cancelled, peerVars, pingVars, readVars>>

Cancel ==
    /\ ~cancelled
    /\ cancelled' = TRUE
    /\ UNCHANGED <<phase, peerVars, pingVars, readVars, writeVars>>

\* Half-open, or a peer that stopped reading: what was in flight is lost.
PeerGone ==
    /\ peer = "alive"
    /\ peer' = "gone"
    /\ wasGone' = TRUE
    /\ flight' = {}
    /\ UNCHANGED <<phase, cancelled, pinging, since, readVars, writeVars>>

PeerReturns ==
    /\ peer = "gone"
    /\ peer' = "alive"
    /\ room' = Buffer
    /\ UNCHANGED <<phase, cancelled, wasGone, pingVars, readVars, holder>>

\* A close frame, a reset, or the end of the kernel's own patience.
PeerCloses ==
    /\ peer # "closed"
    /\ peer' = "closed"
    /\ flight' = {}
    /\ UNCHANGED <<phase, cancelled, wasGone, pinging, since, readVars, writeVars>>

\* connect can take a step at once.
Busy ==
    \/ phase \in {"handshake", "closing", "cleanup"} /\ holder = "none"
    \/ phase = "drain"
    \/ phase = "stream" /\ (cancelled \/ reader = "ended")

\* A tick passes when no goroutine has anything to do, pongs come in time and
\* OnConnect takes no longer than it may.
Tick ==
    /\ phase # "returned"
    /\ ~Busy
    /\ phase = "callback" => idle < MaxCallback
    /\ reader = "running" => idle < readTimeout
    /\ PingDue => holder # "none"
    /\ \A a \in flight : a < MaxDelay
    /\ idle' = IF idle < readTimeout THEN idle + 1 ELSE idle
    /\ since' = IF pinging /\ since < PingInterval THEN since + 1 ELSE since
    /\ flight' = {a + 1 : a \in flight}
    /\ UNCHANGED <<phase, cancelled, peerVars, pinging, reader, timedOut, writeVars>>

-----------------------------------------------------------------------------
ConnectStep ==
    Handshake \/ CallbackReturns \/ StreamDone \/ StreamCancel \/ CloseFrame \/ Drain \/ Cleanup

Next ==
    \/ ConnectStep \/ Unblock \/ Ping \/ Pong \/ Frame \/ ReadFails \/ RequestWrite
    \/ Cancel \/ PeerGone \/ PeerReturns \/ PeerCloses
    \/ Tick

SafetySpec == Init /\ [][Next]_vars

\* Goroutines that can run do, pongs in flight arrive, time passes.  The peer
\* owes nothing else: it need not come back, nor the kernel give it up.
Spec ==
    /\ SafetySpec
    /\ WF_vars(ConnectStep) /\ WF_vars(Unblock)
    /\ WF_vars(Ping) /\ WF_vars(Pong) /\ WF_vars(ReadFails)
    /\ WF_vars(Tick)

-----------------------------------------------------------------------------
(* Properties.                                                             *)

\* The variables have the types the Go declarations give them.
TypeOK ==
    /\ phase \in Phases
    /\ cancelled \in BOOLEAN
    /\ reader \in {"none", "running", "ended"}
    /\ idle \in 0 .. readTimeout
    /\ timedOut \in BOOLEAN
    /\ pinging \in BOOLEAN
    /\ since \in 0 .. PingInterval
    /\ flight \in SUBSET (0 .. MaxDelay)
    /\ peer \in {"alive", "gone", "closed"}
    /\ wasGone \in BOOLEAN
    /\ room \in 0 .. Buffer
    /\ holder \in Writers \cup {"none"}

\* A quiet subscription is not a dead connection: two ping intervals are enough
\* for the deadline never to pass on a peer that answers its pings, the first
\* of which is sent an interval after OnConnect returned (connection.go:101-111).
LivePeerKept == timedOut => wasGone

\* A peer that goes silent is noticed by the reader, whatever the writers do
\* (connection.go:101-104: "detected instead of hanging the read loop forever").
SilenceNoticed ==
    (reader = "running" /\ peer = "gone") ~> (reader = "ended" \/ peer # "gone")

Stuck == holder # "none" /\ peer = "gone"

\* A silent connection is given up, so that Start can dial again (README.md:169:
\* "Automatically reconnects on connection loss"), and a cancelled connect
\* returns, unless a writer is stuck with connWriteMu in its hands, which the
\* cleanup needs (connection.go:93-99): nothing else holds up the teardown.
TeardownWaitsForWriterOnly ==
    /\ (phase = "stream" /\ peer = "gone") ~> (phase = "returned" \/ peer # "gone" \/ Stuck)
    /\ cancelled ~> (phase = "returned" \/ Stuck)
=============================================================================
