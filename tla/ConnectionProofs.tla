--------------------------- MODULE ConnectionProofs ---------------------------
(***************************************************************************)
(* Theorems about Connection, for every number of faults and bounces.      *)
(*                                                                         *)
(* The invariants of Connection are not inductive: that connected implies  *)
(* an installed socket depends on where Start is.  ConnInd adds the two    *)
(* facts that make them so: in which locations the socket of the attempt   *)
(* is installed, and in which locations connected may be TRUE.             *)
(***************************************************************************)
EXTENDS Connection, TLAPS

\* Between the dial and the defer of connect.
InstalledAt == {"handshake", "up", "callback", "stream", "drain", "down", "uninstall"}

\* Between the arming of an attempt and the end of its connect.
AttemptAt == InstalledAt \cup {"snapshot", "dial", "teardown", "disarm", "backoff"}

PhaseOK ==
    /\ activeConn = IF pc \in InstalledAt THEN attempt ELSE 0
    /\ pc \in AttemptAt => attempt # 0

ConnectedPhase ==
    connected => pc \in {"callback", "stream", "drain", "down"} \/ err = "panic"

PanicOnlyOneShot ==
    /\ fired => OneShotOnConnect
    /\ err = "panic" => OneShotOnConnect /\ pc \in {"uninstall", "teardown", "returned"}

FinishOnlyOnCancel == pc = "finish" \/ (pc = "returned" /\ err # "panic") => ctxDone

ConnInd ==
    /\ ConnTypeOK
    /\ PhaseOK
    /\ ConnectedPhase
    /\ PanicOnlyOneShot
    /\ FinishOnlyOnCancel

LEMMA ConnInitInd == ConnInit => ConnInd
  <1> SUFFICES ASSUME ConnInit PROVE ConnInd
      OBVIOUS
  <1>1. ConnTypeOK
    <2>1. /\ pc \in Locations /\ err \in Errors
          /\ attempt \in Nat /\ activeConn \in {0, attempt}
          /\ faults \in 0 .. MaxFaults /\ kicks \in 0 .. MaxKicks
          BY ConnectionAssumption
          DEF ConnectionAssumption, ConnInit, Locations, Errors
    <2>2. reading \in SUBSET (1 .. attempt)
          BY DEF ConnInit
    <2>3. /\ cancelled \in BOOLEAN /\ lost \in BOOLEAN /\ connected \in BOOLEAN
          /\ kick \in BOOLEAN /\ ctxDone \in BOOLEAN /\ reported \in BOOLEAN
          /\ fired \in BOOLEAN
          BY DEF ConnInit
    <2> QED
        BY <2>1, <2>2, <2>3 DEF ConnTypeOK
  <1>2. PhaseOK
        BY DEF ConnInit, PhaseOK, InstalledAt, AttemptAt
  <1>3. ConnectedPhase /\ PanicOnlyOneShot /\ FinishOnlyOnCancel
        BY DEF ConnInit, ConnectedPhase, PanicOnlyOneShot, FinishOnlyOnCancel
  <1> QED
      BY <1>1, <1>2, <1>3 DEF ConnInd

LEMMA ConnStepInd == ConnInd /\ [ConnNext]_connVars => ConnInd'
  <1> USE ConnectionAssumption
      DEF ConnectionAssumption, ConnInd, ConnTypeOK, PhaseOK, ConnectedPhase, PanicOnlyOneShot,
          FinishOnlyOnCancel, InstalledAt, AttemptAt, Locations, Errors
  <1> SUFFICES ASSUME ConnInd, [ConnNext]_connVars PROVE ConnInd'
      OBVIOUS
  <1>1. ASSUME NEW has \in BOOLEAN, LoopTop(has) PROVE ConnInd'
        BY <1>1 DEF LoopTop
  <1>2. CASE Park
        BY <1>2, ZenonT(60) DEF Park
  <1>3. CASE Arm
    <2>1. reading' \in SUBSET (1 .. attempt')
          BY <1>3 DEF Arm
    <2>2. attempt' \in Nat /\ attempt' # 0
          BY <1>3 DEF Arm
    <2>3. cancelled' \in BOOLEAN /\ reported' \in BOOLEAN
          BY <1>3 DEF Arm
    <2> QED
        BY <1>3, <2>1, <2>2, <2>3 DEF Arm
  <1>4. CASE Snapshot
        BY <1>4 DEF Snapshot
  <1>5. CASE DialOk
        BY <1>5 DEF DialOk
  <1>6. CASE DialFail
        BY <1>6 DEF DialFail
  <1>7. CASE HandshakeSent
        BY <1>7 DEF HandshakeSent
  <1>8. CASE HandshakeFails
        BY <1>8 DEF HandshakeFails
  <1>9. CASE MarkConnected
        BY <1>9 DEF MarkConnected
  <1>10. CASE OnConnect
        BY <1>10 DEF OnConnect
  <1>11. CASE OnConnectPanics
        BY <1>11 DEF OnConnectPanics
  <1>12. CASE StreamDone
        BY <1>12 DEF StreamDone
  <1>13. CASE StreamCancel
        BY <1>13 DEF StreamCancel
  <1>14. CASE Drain
        BY <1>14 DEF Drain
  <1>15. CASE Down
        BY <1>15 DEF Down
  <1>16. CASE Uninstall
        BY <1>16 DEF Uninstall
  <1>17. CASE Teardown
        BY <1>17 DEF Teardown
  <1>18. CASE Disarm
        BY <1>18 DEF Disarm
  <1>19. CASE Backoff
        BY <1>19, ZenonT(60) DEF Backoff
  <1>20. CASE Finish
        BY <1>20 DEF Finish
  <1>21. ASSUME NEW c \in reading, ReadEnd(c) PROVE ConnInd'
        BY <1>21 DEF ReadEnd
  <1>22. CASE Lose
        BY <1>22 DEF Lose, PeerCloses
  <1>23. CASE Cancel
        BY <1>23 DEF Cancel
  <1>24. CASE BounceNow
        BY <1>24 DEF BounceNow, Bounce
  <1>25. CASE UNCHANGED connVars
        BY <1>25 DEF connVars
  <1> QED
      BY <1>1, <1>2, <1>3, <1>4, <1>5, <1>6, <1>7, <1>8, <1>9, <1>10, <1>11,
         <1>12, <1>13, <1>14, <1>15, <1>16, <1>17, <1>18, <1>19, <1>20, <1>21,
         <1>22, <1>23, <1>24, <1>25
      DEF ConnNext, StartStep, StartCommon

\* ConnInd holds in every reachable state.
THEOREM ConnInvariant == ConnSafety => []ConnInd
  BY ConnInitInd, ConnStepInd, PTL DEF ConnSafety

\* The variables of the connection machinery keep their types.
THEOREM ConnTypeCorrect == ConnSafety => []ConnTypeOK
  <1>1. ConnInd => ConnTypeOK
        BY DEF ConnInd
  <1> QED
      BY <1>1, ConnInvariant, PTL

\* Connected() answers TRUE only while the socket of the current attempt is
\* installed, unless OnConnect panicked.
THEOREM ConnectedInstalled == ConnSafety => []ConnectedImpliesInstalled
  <1>1. ConnInd => ConnectedImpliesInstalled
        BY DEF ConnInd, ConnectedPhase, PhaseOK, InstalledAt, AttemptAt,
               ConnectedImpliesInstalled
  <1> QED
      BY <1>1, ConnInvariant, PTL

\* Start returns only once its context is done, or OnConnect panicked.
THEOREM ReturnsOnlyWhenCancelled == ConnSafety => []ReturnOnlyOnCancel
  <1>1. ConnInd => ReturnOnlyOnCancel
        BY DEF ConnInd, FinishOnlyOnCancel, ReturnOnlyOnCancel
  <1> QED
      BY <1>1, ConnInvariant, PTL

\* "Blocks until cancelled" (README.md:145) is true of every program whose
\* OnConnect may run more than once: BlocksUntilCancelled fails for no other
\* reason than the panic of a one-shot callback.
THEOREM BlocksUnlessOneShot ==
    ASSUME ~OneShotOnConnect
    PROVE  ConnSafety => []BlocksUntilCancelled
  <1>1. ConnInd => BlocksUntilCancelled
        BY DEF ConnInd, FinishOnlyOnCancel, PanicOnlyOneShot, BlocksUntilCancelled
  <1> QED
      BY <1>1, ConnInvariant, PTL

\* Whatever goes wrong, the error of connect never reaches onError: connCancel
\* runs before connCtx.Err() is consulted (connection.go:46, 63).  This is
\* ConnectErrorsReported refuted for every behaviour.
THEOREM ErrorsNeverReported == ConnSafety => []~reported
  <1>1. ConnInit => ~reported
        BY DEF ConnInit
  <1>2. ~reported /\ [ConnNext]_connVars => ~reported'
        BY DEF connVars, ConnNext, StartStep, StartCommon, LoopTop, Park, Arm,
           Snapshot, DialOk, DialFail, HandshakeSent, HandshakeFails,
           MarkConnected, OnConnect, OnConnectPanics, StreamDone, StreamCancel,
           Drain, Down, Uninstall, Teardown, Disarm, ReportsError, Backoff,
           Finish, ReadEnd, Lose, PeerCloses, Cancel, BounceNow, Bounce
  <1> QED
      BY <1>1, <1>2, PTL DEF ConnSafety

-----------------------------------------------------------------------------
(* What ShutdownCompletes rests on: the way out is bounded.                *)

\* The longest way from a location to the end of Start, once ctx is done.
StepsLeft ==
    [l \in Locations |->
        CASE l = "returned" -> 0   [] l = "finish" -> 1     [] l = "top" -> 2
          [] l = "park" -> 3       [] l = "backoff" -> 3    [] l = "disarm" -> 4
          [] l = "teardown" -> 5   [] l = "uninstall" -> 6  [] l = "down" -> 7
          [] l = "drain" -> 8      [] l = "stream" -> 9     [] l = "callback" -> 10
          [] l = "up" -> 11        [] l = "handshake" -> 12 [] l = "dial" -> 13
          [] l = "snapshot" -> 14  [] l = "arm" -> 15]

LEMMA StepsLeftValues ==
    /\ StepsLeft["returned"] = 0 /\ StepsLeft["finish"] = 1 /\ StepsLeft["top"] = 2
    /\ StepsLeft["park"] = 3 /\ StepsLeft["backoff"] = 3 /\ StepsLeft["disarm"] = 4
    /\ StepsLeft["teardown"] = 5 /\ StepsLeft["uninstall"] = 6 /\ StepsLeft["down"] = 7
    /\ StepsLeft["drain"] = 8 /\ StepsLeft["stream"] = 9 /\ StepsLeft["callback"] = 10
    /\ StepsLeft["up"] = 11 /\ StepsLeft["handshake"] = 12 /\ StepsLeft["dial"] = 13
    /\ StepsLeft["snapshot"] = 14 /\ StepsLeft["arm"] = 15
  BY DEF StepsLeft, Locations

LEMMA ShutdownStep ==
    ASSUME ctxDone, StartStep
    PROVE  StepsLeft[pc'] < StepsLeft[pc]
  <1>1. ASSUME NEW has \in BOOLEAN, LoopTop(has) PROVE pc = "top" /\ pc' = "finish"
        BY <1>1 DEF LoopTop
  <1>2. Park => pc = "park" /\ pc' \in {"finish", "top"}
        BY DEF Park
  <1>3. Arm => pc = "arm" /\ pc' = "snapshot"
        BY DEF Arm
  <1>4. Snapshot => pc = "snapshot" /\ pc' = "dial"
        BY DEF Snapshot
  <1>5. DialOk \/ DialFail => pc = "dial" /\ pc' \in {"handshake", "disarm"}
        BY DEF DialOk, DialFail
  <1>6. HandshakeSent \/ HandshakeFails => pc = "handshake" /\ pc' \in {"up", "uninstall"}
        BY DEF HandshakeSent, HandshakeFails
  <1>7. MarkConnected => pc = "up" /\ pc' = "callback"
        BY DEF MarkConnected
  <1>8. OnConnect \/ OnConnectPanics => pc = "callback" /\ pc' \in {"stream", "uninstall"}
        BY DEF OnConnect, OnConnectPanics
  <1>9. StreamDone \/ StreamCancel => pc = "stream" /\ pc' \in {"down", "drain"}
        BY DEF StreamDone, StreamCancel
  <1>10. /\ Drain => pc = "drain" /\ pc' = "down"
         /\ Down => pc = "down" /\ pc' = "uninstall"
         /\ Uninstall => pc = "uninstall" /\ pc' = "teardown"
         /\ Teardown => pc = "teardown" /\ pc' \in {"returned", "disarm"}
         BY DEF Drain, Down, Uninstall, Teardown
  <1>11. Disarm => pc = "disarm" /\ pc' = "finish"
         BY DEF Disarm
  <1>12. Backoff => pc = "backoff" /\ pc' \in {"finish", "top"}
         BY DEF Backoff
  <1>13. Finish => pc = "finish" /\ pc' = "returned"
         BY DEF Finish
  <1> QED
      BY <1>1, <1>2, <1>3, <1>4, <1>5, <1>6, <1>7, <1>8, <1>9, <1>10, <1>11,
         <1>12, <1>13, StepsLeftValues DEF StartStep, StartCommon

\* Nobody else moves Start.
LEMMA OthersKeepPc == ConnNext /\ ~StartStep => pc' = pc
  BY DEF ConnNext, ReadEnd, Lose, PeerCloses, Cancel, BounceNow, Bounce

\* Once its context is done, every step of Start brings it closer to its end
\* and nobody takes it back: it returns within fifteen steps, whatever faults,
\* bounces and readers do meanwhile.
ShutdownBounded ==
    [][ctxDone => ctxDone' /\ (pc' = pc \/ StepsLeft[pc'] < StepsLeft[pc])]_connVars

LEMMA ShutdownNext ==
    ASSUME ctxDone, ConnNext
    PROVE  ctxDone' /\ (pc' = pc \/ StepsLeft[pc'] < StepsLeft[pc])
  <1>1. ctxDone'
        BY DEF ConnNext, StartStep, StartCommon, LoopTop, Park, Arm, Snapshot,
           DialOk, DialFail, HandshakeSent, HandshakeFails, MarkConnected,
           OnConnect, OnConnectPanics, StreamDone, StreamCancel, Drain, Down,
           Uninstall, Teardown, Disarm, Backoff, Finish, ReadEnd, Lose,
           PeerCloses, Cancel, BounceNow, Bounce
  <1> QED
      BY <1>1, ShutdownStep, OthersKeepPc

\* Shutdown is bounded whatever the faults do.
THEOREM ShutdownIsBounded == ConnSafety => ShutdownBounded
  <1>1. [ConnNext]_connVars
          => [ctxDone => ctxDone' /\ (pc' = pc \/ StepsLeft[pc'] < StepsLeft[pc])]_connVars
        BY ShutdownNext
  <1> QED
      BY <1>1, PTL DEF ConnSafety, ShutdownBounded
=============================================================================
