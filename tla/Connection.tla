------------------------------ MODULE Connection ------------------------------
(***************************************************************************)
(* The life of one Subscriber's upstream WebSocket: the goroutine that     *)
(* runs Start (subscriber/connection.go:12-74), the connect call it makes  *)
(* for every attempt (76-247) and the reader goroutine each streaming      *)
(* connection spawns (160-221).                                            *)
(*                                                                         *)
(* A socket is named by the number of the attempt that dialled it, so      *)
(* activeConn is 0 (nil) or an attempt, and a reader that outlives its     *)
(* connection is a member of `reading` other than `attempt`.               *)
(*                                                                         *)
(* The layers above (Requests, Subscriptions) EXTEND this module and       *)
(* conjoin their own effect to the steps they take part in, which is why   *)
(* the steps without one are grouped in StartCommon.                       *)
(***************************************************************************)
EXTENDS Naturals

CONSTANTS
    MaxFaults,          \* dial failures and lost sockets the environment may cause
    MaxKicks,           \* Reconfigure-style bounces (this layer alone)
    MayCancel,          \* the caller may cancel the context of Start
    OneShotOnConnect    \* OnConnect may be a callback that works once only: it
                        \* closes a channel (get_block.go, get_tx.go, wait-for-event)

ASSUME ConnectionAssumption ==
    /\ MaxFaults \in Nat
    /\ MaxKicks \in Nat
    /\ MayCancel \in BOOLEAN
    /\ OneShotOnConnect \in BOOLEAN

VARIABLES
    pc,         \* where the Start goroutine is
    attempt,    \* number of the current (or last) connection attempt
    cancelled,  \* connCtx of that attempt is done through connCancel
    lost,       \* I/O on that attempt's socket fails from now on
    activeConn, \* s.activeConn: 0 (nil) or the attempt that installed it
    connected,  \* s.connected
    reading,    \* attempts whose reader goroutine is still running
    kick,       \* s.reconnectCh (capacity 1) holds a token
    ctxDone,    \* the context given to Start is done
    err,        \* what connect returned (or is about to return)
    reported,   \* Start passed that error to onError
    fired,      \* the one-shot OnConnect callback has run
    faults, kicks

connVars == <<pc, attempt, cancelled, lost, activeConn, connected, reading,
              kick, ctxDone, err, reported, fired, faults, kicks>>

Locations ==
    {"top", "park", "arm", "snapshot", "dial", "handshake", "up", "callback",
     "stream", "drain", "down", "uninstall", "teardown", "disarm", "backoff",
     "finish", "returned"}

Errors == {"none", "dial", "closed", "cancelled", "panic"}

ConnInit ==
    /\ pc = "top"
    /\ attempt = 0
    /\ cancelled = FALSE
    /\ lost = TRUE
    /\ activeConn = 0
    /\ connected = FALSE
    /\ reading = {}
    /\ kick = FALSE
    /\ ctxDone = FALSE
    /\ err = "none"
    /\ reported = FALSE
    /\ fired = FALSE
    /\ faults = 0
    /\ kicks = 0

-----------------------------------------------------------------------------
(* Start, up to the call of connect.                                       *)

\* Broken: the streaming select watches the caller's ctx, not connCtx.
CallerCtxDone == ctxDone

\* connCtx is a child of the caller's ctx.
ConnCtxDone == cancelled \/ ctxDone

\* s.connCancel # nil: from the arming of an attempt until Start clears it,
\* which a Start that panics never does.
Armed ==
    \/ pc \in {"snapshot", "dial", "handshake", "up", "callback", "stream",
               "drain", "down", "uninstall", "teardown", "disarm"}
    \/ pc = "returned" /\ err = "panic"

\* The ctx poll and the reading of s.types; `has` is len(types) > 0 || queryOnly.
LoopTop(has) ==
    /\ pc = "top"
    /\ pc' = IF ctxDone THEN "finish" ELSE IF has THEN "arm" ELSE "park"
    /\ UNCHANGED <<attempt, cancelled, lost, activeConn, connected, reading,
                   kick, ctxDone, err, reported, fired, faults, kicks>>

\* Broken: the parked loop waits for a token only.
DeafPark ==
    /\ pc = "park"
    /\ kick /\ kick' = FALSE /\ pc' = "top"
    /\ UNCHANGED <<attempt, cancelled, lost, activeConn, connected, reading,
                   ctxDone, err, reported, fired, faults, kicks>>

\* Nothing to subscribe to: sleep until a token arrives or ctx is done.
Park ==
    /\ pc = "park"
    /\ \/ ctxDone /\ pc' = "finish" /\ UNCHANGED kick
       \/ kick /\ kick' = FALSE /\ pc' = "top"
    /\ UNCHANGED <<attempt, cancelled, lost, activeConn, connected, reading,
                   ctxDone, err, reported, fired, faults, kicks>>

Arm ==
    /\ pc = "arm"
    /\ pc' = "snapshot"
    /\ attempt' = attempt + 1
    /\ cancelled' = FALSE
    /\ err' = "none"
    /\ reported' = FALSE
    /\ UNCHANGED <<lost, activeConn, connected, reading, kick, ctxDone, fired,
                   faults, kicks>>

-----------------------------------------------------------------------------
(* connect.                                                                *)

Snapshot ==
    /\ pc = "snapshot"
    /\ pc' = "dial"
    /\ UNCHANGED <<attempt, cancelled, lost, activeConn, connected, reading,
                   kick, ctxDone, err, reported, fired, faults, kicks>>

\* The dial takes no context: a cancelled attempt still connects.
DialOk ==
    /\ pc = "dial"
    /\ pc' = "handshake"
    /\ activeConn' = attempt
    /\ lost' = FALSE
    /\ UNCHANGED <<attempt, cancelled, connected, reading, kick, ctxDone, err,
                   reported, fired, faults, kicks>>

DialFail ==
    /\ pc = "dial"
    /\ faults < MaxFaults
    /\ faults' = faults + 1
    /\ pc' = "disarm"
    /\ err' = "dial"
    /\ UNCHANGED <<attempt, cancelled, lost, activeConn, connected, reading,
                   kick, ctxDone, reported, fired, kicks>>

\* A write to a lost socket may still be accepted by the kernel.
HandshakeSent ==
    /\ pc = "handshake"
    /\ pc' = "up"
    /\ UNCHANGED <<attempt, cancelled, lost, activeConn, connected, reading,
                   kick, ctxDone, err, reported, fired, faults, kicks>>

HandshakeFails ==
    /\ pc = "handshake"
    /\ lost
    /\ pc' = "uninstall"
    /\ err' = "dial"
    /\ UNCHANGED <<attempt, cancelled, lost, activeConn, connected, reading,
                   kick, ctxDone, reported, fired, faults, kicks>>

MarkConnected ==
    /\ pc = "up"
    /\ pc' = "callback"
    /\ connected' = TRUE
    /\ UNCHANGED <<attempt, cancelled, lost, activeConn, reading, kick,
                   ctxDone, err, reported, fired, faults, kicks>>

\* The user's OnConnect returns (having used itself up, or not), then the reader goroutine starts.
OnConnect ==
    /\ pc = "callback"
    /\ ~fired
    /\ fired' \in BOOLEAN
    /\ fired' => OneShotOnConnect
    /\ pc' = "stream"
    /\ reading' = reading \cup {attempt}
    /\ UNCHANGED <<attempt, cancelled, lost, activeConn, connected, kick,
                   ctxDone, err, reported, faults, kicks>>

\* A one-shot callback closes its channel a second time: the panic unwinds
\* connect (its defer still runs) and is recovered in Start, which returns.
OnConnectPanics ==
    /\ pc = "callback"
    /\ fired
    /\ pc' = "uninstall"
    /\ err' = "panic"
    /\ UNCHANGED <<attempt, cancelled, lost, activeConn, connected, reading,
                   kick, ctxDone, reported, fired, faults, kicks>>

\* select { case <-done: ... case <-ctx.Done(): ... }
StreamDone ==
    /\ pc = "stream"
    /\ attempt \notin reading
    /\ pc' = "down"
    /\ err' = "closed"
    /\ UNCHANGED <<attempt, cancelled, lost, activeConn, connected, reading,
                   kick, ctxDone, reported, fired, faults, kicks>>

StreamCancel ==
    /\ pc = "stream"
    /\ ConnCtxDone
    /\ pc' = "drain"
    /\ err' = "cancelled"
    /\ UNCHANGED <<attempt, cancelled, lost, activeConn, connected, reading,
                   kick, ctxDone, reported, fired, faults, kicks>>

\* After the close frame: the reader ended, or one second passed.
Drain ==
    /\ pc = "drain"
    /\ pc' = "down"
    /\ UNCHANGED <<attempt, cancelled, lost, activeConn, connected, reading,
                   kick, ctxDone, err, reported, fired, faults, kicks>>

\* Broken: connected is left set when streaming ends.
DownStillConnected ==
    /\ pc = "down"
    /\ pc' = "uninstall"
    /\ UNCHANGED <<attempt, cancelled, lost, activeConn, connected, reading, kick,
                   ctxDone, err, reported, fired, faults, kicks>>

Down ==
    /\ pc = "down"
    /\ pc' = "uninstall"
    /\ connected' = FALSE
    /\ UNCHANGED <<attempt, cancelled, lost, activeConn, reading, kick,
                   ctxDone, err, reported, fired, faults, kicks>>

\* Broken: connect leaves its socket installed.
UninstallForgotten ==
    /\ pc = "uninstall"
    /\ pc' = "teardown"
    /\ UNCHANGED <<attempt, cancelled, lost, activeConn, connected, reading, kick,
                   ctxDone, err, reported, fired, faults, kicks>>

\* The deferred cleanup of connect: activeConn = nil under connWriteMu ...
Uninstall ==
    /\ pc = "uninstall"
    /\ pc' = "teardown"
    /\ activeConn' = 0
    /\ UNCHANGED <<attempt, cancelled, lost, connected, reading, kick,
                   ctxDone, err, reported, fired, faults, kicks>>

\* ... then conn.Close and failAllPending, which the layers above add.
Teardown ==
    /\ pc = "teardown"
    /\ pc' = IF err = "panic" THEN "returned" ELSE "disarm"
    /\ lost' = TRUE
    /\ UNCHANGED <<attempt, cancelled, activeConn, connected, reading, kick,
                   ctxDone, err, reported, fired, faults, kicks>>

-----------------------------------------------------------------------------
(* Start, after connect.                                                   *)

\* connCancel() runs before connCtx.Err() is consulted for onError.
ReportsError == ~cancelled'

\* Broken: a closed connection ends Start instead of being retried.
DisarmGivesUp ==
    /\ pc = "disarm"
    /\ cancelled' = TRUE
    /\ reported' = FALSE
    /\ pc' = IF ctxDone \/ err = "closed" THEN "finish" ELSE "backoff"
    /\ UNCHANGED <<attempt, lost, activeConn, connected, reading, kick,
                   ctxDone, err, fired, faults, kicks>>

\* Back in Start: connCancel(), s.connCancel = nil, the poll of ctx, onError.  Every
\* exit of connect returns an error, so the branch for none (lines 57-60) is dead.
Disarm ==
    /\ pc = "disarm"
    /\ cancelled' = TRUE
    /\ reported' = (~ctxDone /\ ReportsError)
    /\ pc' = IF ctxDone THEN "finish" ELSE "backoff"
    /\ UNCHANGED <<attempt, lost, activeConn, connected, reading, kick,
                   ctxDone, err, fired, faults, kicks>>

Backoff ==
    /\ pc = "backoff"
    /\ \/ ctxDone /\ pc' = "finish" /\ UNCHANGED kick
       \/ kick /\ kick' = FALSE /\ pc' = "top"
       \/ pc' = "top" /\ UNCHANGED kick             \* time.After
    /\ UNCHANGED <<attempt, cancelled, lost, activeConn, connected, reading,
                   ctxDone, err, reported, fired, faults, kicks>>

\* closeSubscribers, then return.
Finish ==
    /\ pc = "finish"
    /\ pc' = "returned"
    /\ UNCHANGED <<attempt, cancelled, lost, activeConn, connected, reading,
                   kick, ctxDone, err, reported, fired, faults, kicks>>

-----------------------------------------------------------------------------
(* The other goroutines and the environment.                               *)

\* A reader returns when a read fails: its socket is lost or was closed.
ReadEnd(c) ==
    /\ c \in reading
    /\ c = attempt => lost
    /\ reading' = reading \ {c}
    /\ UNCHANGED <<pc, attempt, cancelled, lost, activeConn, connected, kick,
                   ctxDone, err, reported, fired, faults, kicks>>

\* The peer's end of the socket goes away.
PeerCloses ==
    /\ activeConn # 0
    /\ ~lost
    /\ lost' = TRUE
    /\ UNCHANGED <<pc, attempt, cancelled, activeConn, connected, reading, kick,
                   ctxDone, err, reported, fired, kicks>>

\* Counted, unless it is the peer's answer to our close frame.
Lose ==
    /\ PeerCloses
    /\ \/ pc = "drain" /\ UNCHANGED faults
       \/ faults < MaxFaults /\ faults' = faults + 1

Cancel ==
    /\ MayCancel
    /\ ~ctxDone
    /\ ctxDone' = TRUE
    /\ UNCHANGED <<pc, attempt, cancelled, lost, activeConn, connected, reading,
                   kick, err, reported, fired, faults, kicks>>

\* Broken: the connection is cancelled but no token is offered.
BounceSilently(c) ==
    /\ cancelled' = (cancelled \/ (c # 0 /\ c = attempt))
    /\ UNCHANGED <<pc, attempt, lost, activeConn, connected, reading, kick,
                   ctxDone, err, reported, fired, faults>>

\* Reconfigure's slow path and AddSubscriptions: call the connCancel captured
\* earlier (c, 0 if it was nil), then offer a token to reconnectCh.
Bounce(c) ==
    /\ cancelled' = (cancelled \/ (c # 0 /\ c = attempt))
    /\ kick' = TRUE
    /\ UNCHANGED <<pc, attempt, lost, activeConn, connected, reading, ctxDone,
                   err, reported, fired, faults>>

\* At this layer nothing happens between the capture and the call.
BounceNow ==
    /\ kicks < MaxKicks
    /\ kicks' = kicks + 1
    /\ Bounce(IF Armed THEN attempt ELSE 0)

-----------------------------------------------------------------------------
StartCommon ==
    \/ Park \/ Arm \/ DialFail \/ HandshakeFails \/ MarkConnected \/ OnConnect
    \/ OnConnectPanics \/ StreamDone \/ StreamCancel \/ Drain \/ Down
    \/ Uninstall \/ Disarm \/ Backoff \/ Finish

StartStep ==
    \/ \E has \in BOOLEAN : LoopTop(has)
    \/ StartCommon
    \/ Snapshot \/ DialOk \/ HandshakeSent \/ Teardown

ConnNext ==
    \/ StartStep
    \/ \E c \in reading : ReadEnd(c)
    \/ Lose
    \/ Cancel
    \/ BounceNow

\* Goroutines that can run do; the peer and the callers owe nothing.
ConnFairness ==
    /\ WF_connVars(StartStep)
    /\ WF_connVars(\E c \in reading : ReadEnd(c))

ConnSafety == ConnInit /\ [][ConnNext]_connVars

ConnSpec == ConnSafety /\ ConnFairness

-----------------------------------------------------------------------------
(* Properties.                                                             *)

\* The variables have the types the Go declarations give them, and the socket
\* installed is that of the current attempt, never one an earlier connect left
\* behind.
ConnTypeOK ==
    /\ pc \in Locations
    /\ attempt \in Nat
    /\ cancelled \in BOOLEAN
    /\ lost \in BOOLEAN
    /\ activeConn \in {0, attempt}
    /\ connected \in BOOLEAN
    /\ reading \in SUBSET (1 .. attempt)
    /\ kick \in BOOLEAN
    /\ ctxDone \in BOOLEAN
    /\ err \in Errors
    /\ reported \in BOOLEAN
    /\ fired \in BOOLEAN
    /\ faults \in 0 .. MaxFaults
    /\ kicks \in 0 .. MaxKicks

\* While Connected() answers TRUE writes reach the socket of the current
\* attempt: connected is set after the handshake and cleared before the defer
\* of connect uninstalls the socket (connection.go:93-99, 137, 226, 241).  The
\* exception is an attempt that a panicking OnConnect unwinds.
ConnectedImpliesInstalled ==
    connected /\ err # "panic" => activeConn = attempt /\ attempt # 0

\* Start gives up only when its context is done or a callback panics: no
\* error, lost socket or bounce ends the reconnect loop.
ReturnOnlyOnCancel == pc = "returned" => ctxDone \/ err = "panic"

\* Start "blocks until cancelled" (README.md:145).
BlocksUntilCancelled == pc = "returned" => ctxDone

\* An attempt that failed to dial or to send its handshake is passed to the
\* OnError callback before Start waits to retry.
ConnectErrorsReported == pc = "backoff" /\ err = "dial" => reported

\* Cancelling the context stops Start, wherever it is: parked, dialling,
\* streaming, draining or backing off.
ShutdownCompletes == ctxDone ~> pc = "returned"

\* Once the environment stops interfering, Start ends up asleep, returned, or
\* streaming on a socket that works: no bounce or lost socket leaves it stuck
\* on a dead connection or looping.
Settled ==
    \/ pc \in {"park", "returned"}
    \/ pc = "stream" /\ connected /\ ~lost /\ ~cancelled
Converges == <>[]Settled
=============================================================================
