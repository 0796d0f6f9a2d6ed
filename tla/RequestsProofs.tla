---------------------------- MODULE RequestsProofs ----------------------------
(***************************************************************************)
(* Theorems about Requests and about Programs, for every set of requests   *)
(* and every number of faults and bounces.                                 *)
(*                                                                         *)
(* NoLostWaiter is not inductive.  A call that is registered but has not   *)
(* written yet must already be promised a reply (it is in pending, or a    *)
(* teardown has filled its channel), and a teardown must find the socket   *)
(* of every waiting call: that is where ConnInd, the phases of connect,    *)
(* comes in.  OutcomeHonest needs that a reply channel and an answer in    *)
(* flight both hold what the node said.                                    *)
(*                                                                         *)
(* ExitExplained is about the end of a program, and the reason may lie far *)
(* back.  Its invariant says the converse: while nothing has disturbed a   *)
(* one-shot program, its first connection stands (Steady) and none of its  *)
(* calls can have ended but by the node's answer.                          *)
(***************************************************************************)
EXTENDS Programs, ConnectionProofs

\* What the stage of a call says about its variables.
StageOK(r) ==
    /\ stage[r] \in {"new", "registered"} => sentOn[r] = 0
    /\ stage[r] = "new" => reply[r] = "none" /\ r \notin pending
    /\ stage[r] \in {"new", "registered", "waiting"} <=> result[r] = "none"

\* A registered call has an entry, or its channel was filled when it was lost.
Promised(r) == stage[r] = "registered" => r \in pending \/ reply[r] # "none"

\* Replies and answers in flight are the node's.
AnswerOK(r) ==
    /\ reply[r] \in Verdicts => answered[r] = reply[r]
    /\ r \in inbox => answered[r] \in Verdicts
    /\ answered[r] # "none" => sentOn[r] # 0

CallOK(r) == StageOK(r) /\ Promised(r) /\ AnswerOK(r) /\ WaiterOK(r) /\ HonestOK(r)

ReqInd ==
    /\ ReqTypeOK
    /\ ConnInd
    /\ \A r \in Reqs : CallOK(r)

-----------------------------------------------------------------------------
\* Every step of this module is a step of Connection, or leaves it alone.
LEMMA ReqStepIsConnStep == [ReqNext]_vars => [ConnNext]_connVars
  BY DEF ReqNext, ReqStartStep, ReqReadEnd, ReqOther, CallStep, Register,
         WriteSent, WriteFails, TakeReply, CtxExpires, Leave, Cleanup, Answer,
         Route, vars, ConnNext, StartStep

\* Steps of Connection other than the teardown keep the carrier of a call.
LEMMA CarrierKept ==
    ASSUME ConnInd, NEW r, CarrierAlive(r), UNCHANGED sentOn,
           ConnNext \/ UNCHANGED connVars, ~Teardown
    PROVE  CarrierAlive(r)'
  <1> USE DEF CarrierAlive, ConnInd, PhaseOK, InstalledAt, AttemptAt
  <1>1. CASE UNCHANGED connVars
        BY <1>1 DEF connVars
  <1>2. CASE StartStep
        BY <1>2 DEF StartStep, StartCommon, LoopTop, Park, Arm, Snapshot, DialOk,
           DialFail, HandshakeSent, HandshakeFails, MarkConnected, OnConnect,
           OnConnectPanics, StreamDone, StreamCancel, Drain, Down, Uninstall,
           Disarm, Backoff, Finish
  <1>3. CASE ConnNext /\ ~StartStep
        BY <1>3 DEF ConnNext, ReadEnd, Lose, PeerCloses, Cancel, BounceNow, Bounce
  <1> QED
      BY <1>1, <1>2, <1>3

LEMMA ReqInitInd == ReqInit => ReqInd
  <1> SUFFICES ASSUME ReqInit PROVE ReqInd
      OBVIOUS
  <1>1. ConnInd /\ ConnTypeOK
        BY ConnInitInd DEF ReqInit, ConnInd
  <1>2. ReqTypeOK
        BY <1>1 DEF ReqInit, ReqTypeOK, Stages, Replies, Results, Verdicts
  <1>3. \A r \in Reqs : CallOK(r)
        BY DEF ReqInit, CallOK, StageOK, Promised, AnswerOK, WaiterOK, HonestOK,
               Verdicts
  <1> QED
      BY <1>1, <1>2, <1>3 DEF ReqInd

-----------------------------------------------------------------------------
\* A step of Start other than the teardown, of a reader that ends, or of the
\* environment: no call changes, at most answers in flight are lost.
LEMMA ConnOnlyInd ==
    ASSUME ReqInd, ConnInd', ConnNext \/ UNCHANGED connVars, ~Teardown,
           UNCHANGED <<stage, pending, reply, result, sentOn, answered>>,
           inbox' \subseteq inbox
    PROVE  ReqInd'
  <1>1. ReqTypeOK'
        BY DEF ReqInd, ReqTypeOK, ConnInd
  <1>2. ASSUME NEW r \in Reqs PROVE CallOK(r)'
    <2>1. CallOK(r) /\ ConnInd
          BY DEF ReqInd
    <2>2. StageOK(r)' /\ Promised(r)' /\ AnswerOK(r)' /\ HonestOK(r)'
          BY <2>1 DEF CallOK, StageOK, Promised, AnswerOK, HonestOK
    <2>3. CarrierAlive(r) => CarrierAlive(r)'
          BY <2>1, CarrierKept
    <2>4. WaiterOK(r)'
          BY <2>1, <2>3 DEF CallOK, WaiterOK
    <2> QED
        BY <2>2, <2>4 DEF CallOK
  <1> QED
      BY <1>1, <1>2 DEF ReqInd

\* failAllPending: every registered call whose channel is empty is told.
LEMMA TeardownInd ==
    ASSUME ReqInd, ConnInd', Teardown, FailAllPending,
           UNCHANGED <<stage, result, sentOn, answered, inbox>>
    PROVE  ReqInd'
  <1>1. ReqTypeOK'
        BY DEF ReqInd, ReqTypeOK, ConnInd, FailAllPending, Replies
  <1>2. ASSUME NEW r \in Reqs PROVE CallOK(r)'
    <2> USE DEF FailAllPending
    <2>1. CallOK(r) /\ ReqTypeOK
          BY DEF ReqInd
    <2>2. StageOK(r)'
          BY <2>1 DEF CallOK, StageOK, Promised, ReqTypeOK
    <2>3. Promised(r)'
          BY <2>1 DEF CallOK, Promised
    <2>4. AnswerOK(r)'
          BY <2>1 DEF CallOK, AnswerOK, Verdicts
    <2>5. WaiterOK(r)' /\ HonestOK(r)'
          BY <2>1 DEF CallOK, WaiterOK, HonestOK
    <2> QED
        BY <2>2, <2>3, <2>4, <2>5 DEF CallOK
  <1> QED
      BY <1>1, <1>2 DEF ReqInd

\* A call whose own variables a step leaves alone keeps what it has.
LEMMA OtherCalls ==
    ASSUME ReqInd, UNCHANGED connVars, NEW q \in Reqs,
           stage'[q] = stage[q], reply'[q] = reply[q], result'[q] = result[q],
           sentOn'[q] = sentOn[q], answered'[q] = answered[q],
           q \in pending' <=> q \in pending, q \in inbox' => q \in inbox
    PROVE  CallOK(q)'
  BY DEF ReqInd, CallOK, StageOK, Promised, AnswerOK, WaiterOK, HonestOK,
         CarrierAlive, connVars

\* The steps of a call, of the node and of a reader leave Connection alone.
LEMMA CallStepInd ==
    ASSUME ReqInd, ConnInd', UNCHANGED connVars, NEW r \in Reqs,
           \/ Register(r) \/ CallStep(r) \/ CtxExpires(r) \/ Route(r)
           \/ \E v \in Verdicts : Answer(r, v)
    PROVE  ReqInd'
  <1> USE DEF ReqInd
  <1>1. ReqTypeOK'
    <2>1. ConnTypeOK'
          BY DEF ConnInd
    <2> QED
        BY <2>1 DEF ReqTypeOK, Register, CallStep, WriteSent, WriteFails,
           TakeReply, Cleanup, CtxExpires, Route, Deliver, Answer, Leave, Stages,
           Replies, Results, Verdicts, ConnInd, ConnTypeOK
  <1>2. ASSUME NEW q \in Reqs, q # r PROVE CallOK(q)'
    <2>1. /\ stage'[q] = stage[q] /\ reply'[q] = reply[q]
          /\ result'[q] = result[q] /\ sentOn'[q] = sentOn[q]
          /\ answered'[q] = answered[q]
          /\ q \in pending' <=> q \in pending
          /\ q \in inbox' => q \in inbox
          BY <1>2 DEF ReqTypeOK, Register, CallStep, WriteSent, WriteFails,
             TakeReply, Cleanup, CtxExpires, Route, Deliver, Answer, Leave
    <2> QED
        BY <2>1, OtherCalls
  <1>3. CallOK(r)'
    <2> USE DEF ReqTypeOK, CallOK, StageOK, Promised, AnswerOK, WaiterOK,
                HonestOK, CarrierAlive, connVars, Verdicts
    <2>1. CASE Register(r)
          BY <2>1 DEF Register
    <2>2. CASE WriteSent(r)
          BY <2>2 DEF WriteSent, ConnInd, PhaseOK, InstalledAt, AttemptAt
    <2>3. CASE WriteFails(r)
          BY <2>3 DEF WriteFails, Leave
    <2>4. CASE TakeReply(r)
          BY <2>4 DEF TakeReply, Leave, Replies
    <2>5. CASE Cleanup(r)
          BY <2>5 DEF Cleanup
    <2>6. CASE CtxExpires(r)
          BY <2>6 DEF CtxExpires, Leave
    <2>7. CASE Route(r)
          BY <2>7 DEF Route, Deliver
    <2>8. ASSUME NEW v \in Verdicts, Answer(r, v) PROVE CallOK(r)'
          BY <2>8 DEF Answer
    <2> QED
        BY <2>1, <2>2, <2>3, <2>4, <2>5, <2>6, <2>7, <2>8 DEF CallStep
  <1> QED
      BY <1>1, <1>2, <1>3

-----------------------------------------------------------------------------
LEMMA ReqStepInd == ReqInd /\ [ReqNext]_vars => ReqInd'
  <1> SUFFICES ASSUME ReqInd, [ReqNext]_vars PROVE ReqInd'
      OBVIOUS
  <1>1. ConnInd'
        BY ReqStepIsConnStep, ConnStepInd DEF ReqInd
  <1>2. CASE ReqStartStep
    <2>1. CASE Teardown /\ FailAllPending
               /\ UNCHANGED <<stage, result, sentOn, answered, inbox>>
          BY <2>1, <1>1, TeardownInd
    <2>2. CASE UNCHANGED reqVars /\ StartStep /\ ~Teardown
          BY <2>2, <1>1, ConnOnlyInd DEF reqVars, ConnNext
    <2> QED
        BY <1>2, <2>1, <2>2 DEF ReqStartStep, StartStep, StartCommon, Park, Arm,
           DialFail, HandshakeFails, MarkConnected, OnConnect, OnConnectPanics,
           StreamDone, StreamCancel, Drain, Down, Uninstall, Disarm, Backoff,
           Finish, LoopTop, Snapshot, DialOk, HandshakeSent, Teardown
  <1>3. ASSUME NEW c \in reading, ReqReadEnd(c) PROVE ReqInd'
    <2>1. ConnNext /\ ~Teardown /\ inbox' \subseteq inbox
          BY <1>3 DEF ReqReadEnd, ReadEnd, ConnNext, Teardown
    <2> QED
        BY <2>1, <1>3, <1>1, ConnOnlyInd DEF ReqReadEnd
  <1>4. CASE ReqOther
    <2>1. ConnNext /\ ~Teardown
          BY <1>4 DEF ReqOther, Lose, PeerCloses, Cancel, BounceNow, Bounce,
             ConnNext, Teardown
    <2> QED
        BY <2>1, <1>4, <1>1, ConnOnlyInd DEF ReqOther, reqVars
  <1>5. ASSUME NEW r \in Reqs,
               \/ Register(r) \/ CallStep(r) \/ CtxExpires(r) \/ Route(r)
               \/ \E v \in Verdicts : Answer(r, v)
        PROVE  ReqInd'
    <2>1. UNCHANGED connVars
          BY <1>5 DEF Register, CallStep, WriteSent, WriteFails, TakeReply,
             Cleanup, CtxExpires, Route, Answer, Leave
    <2> QED
        BY <2>1, <1>5, <1>1, CallStepInd
  <1>6. CASE UNCHANGED vars
    <2>1. ~Teardown
          BY <1>6 DEF vars, connVars, Teardown
    <2> QED
        BY <2>1, <1>6, <1>1, ConnOnlyInd DEF vars, reqVars
  <1> QED
      BY <1>2, <1>3, <1>4, <1>5, <1>6 DEF ReqNext

\* ReqInd holds in every reachable state.
THEOREM ReqInvariant == ReqSafety => []ReqInd
  BY ReqInitInd, ReqStepInd, PTL DEF ReqSafety

\* The variables of the request machinery keep their types.
THEOREM ReqTypeCorrect == ReqSafety => []ReqTypeOK
  <1>1. ReqInd => ReqTypeOK
        BY DEF ReqInd
  <1> QED
      BY <1>1, ReqInvariant, PTL

\* What is proved of Connection holds under Requests.
THEOREM RequestsRunOnConnection == ReqSafety => ConnSafety
  <1>1. ReqInit => ConnInit
        BY DEF ReqInit
  <1> QED
      BY <1>1, ReqStepIsConnStep, PTL DEF ReqSafety, ConnSafety

\* No call of sendRequest waits for something that can no longer come.
THEOREM NoWaiterIsLost == ReqSafety => []NoLostWaiter
  <1>1. ReqInd => NoLostWaiter
        BY DEF ReqInd, CallOK, NoLostWaiter
  <1> QED
      BY <1>1, ReqInvariant, PTL

\* Every answer a call returns is the node's answer to it, and ErrNotConnected
\* means that nothing was sent.
THEOREM OutcomesAreHonest == ReqSafety => []OutcomeHonest
  <1>1. ReqInd => OutcomeHonest
        BY DEF ReqInd, CallOK, OutcomeHonest
  <1> QED
      BY <1>1, ReqInvariant, PTL

-----------------------------------------------------------------------------
(* Refinement of Correlation.                                              *)

LEMMA InitRefines == ReqInit => Abstract!Init
  BY DEF ReqInit, Abstract!Init, OutcomeOf

\* A call leaves its select: the contract's Settle.
LEMMA LeaveSettles ==
    ASSUME ReqInd, NEW r \in Reqs, NEW v \in Results \ {"none"}, Leave(r, v),
           result[r] = "none",
           v \in Verdicts => answered[r] = v,
           v = "notConnected" => sentOn[r] = 0
    PROVE  Abstract!Next
  <1> DEFINE o == IF v \in Verdicts THEN v
                  ELSE IF v = "notConnected" THEN "not sent" ELSE "unknown"
  <1>1. o \in Verdicts \cup {"not sent", "unknown"}
        OBVIOUS
  <1>2. [q \in Reqs |-> OutcomeOf(q)]'
          = [[q \in Reqs |-> OutcomeOf(q)] EXCEPT ![r] = o]
        BY DEF Leave, OutcomeOf, ReqInd, ReqTypeOK
  <1>3. Abstract!Settle(r, o)
        BY <1>2 DEF Abstract!Settle, Leave, OutcomeOf, Verdicts, Abstract!Verdicts
  <1> QED
      BY <1>1, <1>3 DEF Abstract!Next, Verdicts, Abstract!Verdicts

LEMMA StepRefines == ReqInd /\ [ReqNext]_vars => [Abstract!Next]_(Abstract!corrVars)
  <1> SUFFICES ASSUME ReqInd, [ReqNext]_vars
               PROVE  Abstract!Next \/ UNCHANGED Abstract!corrVars
      OBVIOUS
  <1> USE DEF ReqInd, ReqTypeOK
  <1>1. CASE UNCHANGED <<result, sentOn, answered>>
        BY <1>1 DEF Abstract!corrVars, OutcomeOf
  <1>2. ASSUME NEW r \in Reqs, WriteSent(r) PROVE Abstract!Next
    <2>1. activeConn # 0 /\ sentOn[r] = 0 /\ result[r] = "none"
          BY <1>2 DEF WriteSent, CallOK, StageOK
    <2>2. {q \in Reqs : sentOn[q] # 0}' = {q \in Reqs : sentOn[q] # 0} \cup {r}
          BY <1>2, <2>1 DEF WriteSent
    <2>3. Abstract!Transmit(r)
          BY <1>2, <2>1, <2>2 DEF Abstract!Transmit, WriteSent, OutcomeOf
    <2> QED
        BY <2>3 DEF Abstract!Next
  <1>3. ASSUME NEW r \in Reqs, NEW v \in Verdicts, Answer(r, v) PROVE Abstract!Next
    <2>1. Abstract!NodeAnswers(r, v)
          BY <1>3 DEF Abstract!NodeAnswers, Answer, OutcomeOf
    <2> QED
        BY <2>1 DEF Abstract!Next, Verdicts, Abstract!Verdicts
  <1>4. ASSUME NEW r \in Reqs, WriteFails(r) PROVE Abstract!Next
    <2>1. result[r] = "none" /\ sentOn[r] = 0
          BY <1>4 DEF WriteFails, CallOK, StageOK
    <2>2. Leave(r, "notConnected") \/ Leave(r, "writeFailed")
          BY <1>4 DEF WriteFails
    <2> QED
        BY <2>1, <2>2, LeaveSettles DEF Results, Verdicts
  <1>5. ASSUME NEW r \in Reqs, CtxExpires(r) PROVE Abstract!Next
    <2>1. result[r] = "none" /\ Leave(r, "ctx")
          BY <1>5 DEF CtxExpires, CallOK, StageOK
    <2> QED
        BY <2>1, LeaveSettles DEF Results, Verdicts
  <1>6. ASSUME NEW r \in Reqs, TakeReply(r) PROVE Abstract!Next
    <2>1. result[r] = "none" /\ Leave(r, reply[r]) /\ reply[r] # "none"
          BY <1>6 DEF TakeReply, CallOK, StageOK
    <2>2. reply[r] \in Replies /\ (reply[r] \in Verdicts => answered[r] = reply[r])
          BY DEF CallOK, AnswerOK
    <2> QED
        BY <2>1, <2>2, LeaveSettles DEF Results, Replies, Verdicts
  <1>7. ASSUME NEW r \in Reqs, Register(r) \/ Cleanup(r) \/ Route(r)
        PROVE  UNCHANGED <<result, sentOn, answered>>
        BY <1>7 DEF Register, Cleanup, Route
  <1>8. CASE ReqStartStep \/ ReqOther \/ \E c \in reading : ReqReadEnd(c)
        BY <1>1, <1>8 DEF ReqStartStep, ReqOther, ReqReadEnd, reqVars
  <1>9. CASE UNCHANGED vars
        BY <1>1, <1>9 DEF vars, reqVars
  <1> QED
      BY <1>1, <1>2, <1>3, <1>4, <1>5, <1>6, <1>7, <1>8, <1>9 DEF ReqNext, CallStep

\* sendRequest implements its contract: what Subscriptions assumes of requests
\* is what the connection machinery provides.
THEOREM RequestsImplementCorrelation == ReqSafety => ImplementsCorrelation
  BY InitRefines, StepRefines, ReqInvariant, PTL
  DEF ReqSafety, ImplementsCorrelation, Abstract!Spec

-----------------------------------------------------------------------------
(* The programs.                                                           *)

\* Where Start can be under a one-shot program that nothing disturbs.
CalmLocations == {"top", "arm", "snapshot", "dial", "handshake", "up", "callback", "stream"}

\* A call issued after OnConnect, with the connection still up.
CalmCall(r) ==
    /\ stage[r] # "new" => fired
    /\ reply[r] # "closed"
    /\ result[r] \notin {"closed", "notConnected", "writeFailed", "ctx"}

\* The first attempt is still running, or there is none yet.
Steady ==
    /\ pc \in CalmLocations
    /\ pc \in CalmLocations \ {"top", "arm"} => ~cancelled
    /\ pc \in {"handshake", "up", "callback", "stream"} => ~lost
    /\ pc = "stream" => attempt \in reading
    /\ fired => pc = "stream"
    /\ \A r \in Reqs : CalmCall(r)

Calm == OneShot /\ ~ctxDone /\ faults = 0

\* Only a one-shot program asks, and nobody is told before the target is there.
Asks == main \in {"connect", "lookup"} => OneShot
Announced == event # "none" => landed

ProgInd ==
    /\ ReqInd
    /\ ProgTypeOK
    /\ Asks /\ Announced
    /\ Calm => Steady
    /\ ExitExplained

\* The steps of a program that reach the machinery below.
LEMMA ProgStepIsReqStep == [ProgNext]_allVars => [ReqNext]_vars
  <1> SUFFICES ASSUME [ProgNext]_allVars PROVE [ReqNext]_vars
      OBVIOUS
  <1>1. CASE MainStep
        BY <1>1 DEF MainStep, Connected, LookedUp, ConnectTimeout, EventLoop,
           QuietEnds, ReqNext
  <1>2. CASE ProgStart
        BY <1>2 DEF ProgStart, ReqNext
  <1>3. CASE \E c \in reading : ProgReadEnd(c)
        BY <1>3 DEF ProgReadEnd, ReqNext
  <1>4. CASE ReadEvent \/ Serve \/ Land
        BY <1>4 DEF ReadEvent, Serve, Land
  <1>5. ASSUME NEW r \in Reqs,
               \/ CallStep(r) \/ Route(r) \/ WebLookup(r) \/ LookupCtxEnds(r)
               \/ \E v \in Verdicts : NodeAnswers(r, v)
        PROVE  ReqNext
        BY <1>5 DEF NodeAnswers, WebLookup, LookupCtxEnds, ReqNext
  <1>6. CASE ProgOther
        BY <1>6 DEF ProgOther, ReqNext, ReqOther
  <1>7. CASE UNCHANGED allVars
        BY <1>7 DEF allVars
  <1> QED
      BY <1>1, <1>2, <1>3, <1>4, <1>5, <1>6, <1>7 DEF ProgNext

LEMMA ProgInitInd == ProgInit => ProgInd
  <1> SUFFICES ASSUME ProgInit PROVE ProgInd
      OBVIOUS
  <1>1. ReqInd
        BY ReqInitInd DEF ProgInit
  <1>2. attempt = 0 /\ pc = "top" /\ ~fired
        BY DEF ProgInit, ReqInit, ConnInit
  <1>3. ProgTypeOK
    <2>1. ReqTypeOK
          BY <1>1 DEF ReqInd
    <2>2. served \in 0 .. attempt /\ carrier \in 0 .. attempt
          BY <1>2 DEF ProgInit
    <2>3. prog \in Programs
          BY DEF ProgInit
    <2> QED
        BY <2>1, <2>2, <2>3 DEF ProgInit, ProgTypeOK, Programs, Places
  <1>4. Asks /\ Announced /\ ExitExplained
        BY DEF ProgInit, Programs, Asks, Announced, OneShot, ExitExplained
  <1>5. \A r \in Reqs : CalmCall(r)
        BY DEF ProgInit, ReqInit, CalmCall
  <1>6. Steady
        BY <1>2, <1>5 DEF Steady, CalmLocations
  <1> QED
      BY <1>1, <1>3, <1>4, <1>6 DEF ProgInd

\* What no step does: go back on an attempt, on a cancellation, on a fault or
\* on the answer of the node.
LEMMA Onwards ==
    ASSUME ReqInd, [ReqNext]_vars
    PROVE  /\ attempt' = attempt \/ attempt' = attempt + 1
           /\ ctxDone => ctxDone'
           /\ faults' = faults \/ faults' = faults + 1
           /\ \A r \in Reqs : answered[r] # "none" => answered'[r] = answered[r]
  <1>1. CASE UNCHANGED vars
        BY <1>1 DEF vars, connVars, reqVars
  <1>2. CASE ReqNext
    <2>1. /\ attempt' = attempt \/ attempt' = attempt + 1
          /\ ctxDone => ctxDone'
          /\ faults' = faults \/ faults' = faults + 1
      <3>1. [ConnNext]_connVars
            BY ReqStepIsConnStep
      <3> QED
          BY <3>1 DEF connVars, ConnNext, StartStep, StartCommon, LoopTop, Park,
             Arm, Snapshot, DialOk, DialFail, HandshakeSent, HandshakeFails,
             MarkConnected, OnConnect, OnConnectPanics, StreamDone, StreamCancel,
             Drain, Down, Uninstall, Teardown, Disarm, Backoff, Finish, ReadEnd,
             Lose, PeerCloses, Cancel, BounceNow, Bounce
    <2>2. ASSUME NEW r \in Reqs, answered[r] # "none"
          PROVE  answered'[r] = answered[r]
      <3>1. CASE UNCHANGED answered
            BY <3>1
      <3>2. ASSUME NEW q \in Reqs, NEW v \in Verdicts, Answer(q, v)
            PROVE  answered'[r] = answered[r]
            BY <2>2, <3>2 DEF Answer, ReqInd, ReqTypeOK
      <3> QED
          BY <1>2, <3>1, <3>2 DEF ReqNext, ReqStartStep, ReqReadEnd, ReqOther,
             CallStep, Register, WriteSent, WriteFails, TakeReply, CtxExpires,
             Leave, Cleanup, Route, reqVars
    <2> QED
        BY <2>1, <2>2
  <1> QED
      BY <1>1, <1>2

-----------------------------------------------------------------------------
\* The types of the programs' own variables.
LEMMA ProgTypeInd ==
    ASSUME ProgInd, ReqInd', [ProgNext]_allVars
    PROVE  ProgTypeOK'
  <1> USE DEF ProgInd
  <1>1. /\ attempt \in Nat /\ attempt' \in Nat /\ attempt <= attempt'
    <2>1. attempt' = attempt \/ attempt' = attempt + 1
          BY Onwards, ProgStepIsReqStep
    <2>2. attempt \in Nat
          BY DEF ReqInd, ReqTypeOK, ConnTypeOK
    <2> QED
        BY <2>1, <2>2
  <1>2. served \in 0 .. attempt' /\ carrier \in 0 .. attempt'
        BY <1>1 DEF ProgTypeOK
  <1>3. ReqTypeOK'
        BY DEF ReqInd
  <1>4. /\ prog \in Programs /\ landed \in BOOLEAN
        /\ main \in Places
        /\ event \in {"none", "missed", "wire", "lost", "buffered", "dropped"}
        BY DEF ProgTypeOK
  <1>5. CASE MainStep
    <2>1. UNCHANGED <<prog, landed, served, event, carrier>>
          BY <1>5 DEF MainStep, Connected, LookedUp, ConnectTimeout, EventLoop, QuietEnds
    <2>2. main' \in Places
          BY <1>4, <1>5 DEF MainStep, Connected, LookedUp, ConnectTimeout, EventLoop,
             QuietEnds, Programs, Places, Exits
    <2>3. Places' = Places
          BY <2>1 DEF Places
    <2> QED
        BY <1>2, <1>3, <1>4, <2>1, <2>2, <2>3 DEF ProgTypeOK
  <1>6. CASE UNCHANGED progVars
        BY <1>2, <1>3, <1>4, <1>6 DEF ProgTypeOK, progVars, Places
  <1>7. ASSUME NEW c \in reading, ProgReadEnd(c) PROVE ProgTypeOK'
        BY <1>2, <1>3, <1>4, <1>7 DEF ProgReadEnd, ProgTypeOK, Places
  <1>8. CASE ReadEvent
        BY <1>2, <1>3, <1>4, <1>8 DEF ReadEvent, ProgTypeOK, Places
  <1>9. CASE Serve \/ Land
    <2>1. attempt' = attempt
          BY <1>9 DEF Serve, Land, vars, connVars
    <2>2. served' \in 0 .. attempt' /\ carrier' \in 0 .. attempt'
          BY <1>1, <1>2, <1>9, <2>1 DEF Serve, Land
    <2> QED
        BY <1>3, <1>4, <1>9, <2>2 DEF Serve, Land, ProgTypeOK, Places
  <1> QED
      BY <1>5, <1>6, <1>7, <1>8, <1>9
      DEF ProgNext, ProgStart, NodeAnswers, WebLookup, LookupCtxEnds, ProgOther,
          allVars, progVars

\* How the state of main and the target may change.
LEMMA TargetInd ==
    ASSUME ProgInd, [ProgNext]_allVars
    PROVE  Asks' /\ Announced' /\ prog' = prog /\ (landed => landed')
  <1> USE DEF ProgInd, Asks, Announced, OneShot
  <1>1. CASE MainStep
        BY <1>1 DEF MainStep, Connected, LookedUp, ConnectTimeout, EventLoop,
           QuietEnds
  <1>2. CASE UNCHANGED progVars
        BY <1>2 DEF progVars
  <1>3. ASSUME NEW c \in reading, ProgReadEnd(c)
        PROVE  Asks' /\ Announced' /\ prog' = prog /\ (landed => landed')
        BY <1>3 DEF ProgReadEnd
  <1>4. CASE ReadEvent \/ Serve \/ Land
        BY <1>4 DEF ReadEvent, Serve, Land
  <1> QED
      BY <1>1, <1>2, <1>3, <1>4
      DEF ProgNext, ProgStart, NodeAnswers, WebLookup, LookupCtxEnds, ProgOther,
          allVars, progVars

-----------------------------------------------------------------------------
\* While nothing disturbs it, a step of Start goes to the stream and stays.
LEMMA CalmStart ==
    ASSUME ReqInd, Steady, Calm, Calm', ProgStart
    PROVE  Steady'
  <1> USE DEF Steady, CalmLocations
  <1>1. \/ Arm \/ Snapshot \/ DialOk \/ HandshakeSent \/ MarkConnected
        \/ OnConnect \/ \E has \in BOOLEAN : LoopTop(has)
    <2>1. ~OnConnectPanics /\ ~StreamDone /\ ~StreamCancel /\ ~HandshakeFails
          BY DEF Calm, OnConnectPanics, StreamDone, StreamCancel, ConnCtxDone,
             HandshakeFails
    <2>2. ~DialFail
      <3>1. faults \in Nat /\ faults = 0 /\ faults' = 0
            BY DEF Calm
      <3> QED
          BY <3>1 DEF DialFail
    <2>3. /\ ~Park /\ ~Drain /\ ~Down /\ ~Uninstall /\ ~Teardown /\ ~Disarm
          /\ ~Backoff /\ ~Finish
          BY DEF Park, Drain, Down, Uninstall, Teardown, Disarm, Backoff, Finish
    <2> QED
        BY <2>1, <2>2, <2>3 DEF ProgStart, ReqStartStep, StartCommon
  <1>2. UNCHANGED reqVars
        BY <1>1 DEF ProgStart, ReqStartStep, Teardown, Arm, Snapshot, DialOk,
           HandshakeSent, MarkConnected, OnConnect, LoopTop
  <1>3. fired => fired'
        BY <1>1 DEF Arm, Snapshot, DialOk, HandshakeSent, MarkConnected,
           OnConnect, LoopTop
  <1>4. \A r \in Reqs : CalmCall(r)'
        BY <1>2, <1>3 DEF reqVars, CalmCall
  <1>5. /\ pc' \in CalmLocations
        /\ pc' \in CalmLocations \ {"top", "arm"} => ~cancelled'
        /\ pc' \in {"handshake", "up", "callback", "stream"} => ~lost'
        /\ pc' = "stream" => attempt' \in reading'
        /\ fired' => pc' = "stream"
    <2>1. CASE \E has \in BOOLEAN : LoopTop(has)
      <3>1. pc' \in {"arm", "park"} /\ pc = "top"
            BY <2>1 DEF LoopTop, Calm
      <3>2. pc' = "arm"
            BY <3>1 DEF ProgStart, Calm
      <3> QED
          BY <2>1, <3>1, <3>2 DEF LoopTop
    <2>2. CASE Arm
          BY <2>2 DEF Arm
    <2>3. CASE Snapshot
          BY <2>3 DEF Snapshot
    <2>4. CASE DialOk
          BY <2>4 DEF DialOk
    <2>5. CASE HandshakeSent \/ MarkConnected
          BY <2>5 DEF HandshakeSent, MarkConnected
    <2>6. CASE OnConnect
          BY <2>6 DEF OnConnect
    <2> QED
        BY <1>1, <2>1, <2>2, <2>3, <2>4, <2>5, <2>6
  <1> QED
      BY <1>4, <1>5

\* A step of a call, of the node or of a reader, under the same conditions.
LEMMA CalmCalls ==
    ASSUME ReqInd, Steady, Calm, UNCHANGED connVars, NEW r \in Reqs,
           \/ Register(r) /\ fired
           \/ CallStep(r) \/ Route(r)
           \/ \E v \in Verdicts : Answer(r, v)
    PROVE  Steady'
  <1> USE DEF Steady
  <1>1. ReqTypeOK /\ CallOK(r) /\ PhaseOK
        BY DEF ReqInd, ConnInd
  <1>2. ASSUME NEW q \in Reqs, q # r PROVE CalmCall(q)'
        BY <1>1, <1>2 DEF ReqTypeOK, Register, CallStep, WriteSent, WriteFails,
           TakeReply, Cleanup, Route, Deliver, Answer, Leave, connVars, CalmCall
  <1>3. CalmCall(r)'
    <2> USE DEF CalmCall, connVars, ReqTypeOK
    <2>1. CASE Register(r) /\ fired
          BY <1>1, <2>1 DEF Register
    <2>2. CASE WriteSent(r)
          BY <1>1, <2>2 DEF WriteSent
    <2>3. ~WriteFails(r)
      <3>1. ASSUME stage[r] = "registered" PROVE activeConn # 0 /\ ~lost
        <4>1. pc = "stream"
              BY <3>1
        <4> QED
            BY <1>1, <4>1 DEF PhaseOK, InstalledAt, AttemptAt
      <3> QED
          BY <3>1 DEF WriteFails
    <2>4. CASE TakeReply(r)
          BY <1>1, <2>4 DEF TakeReply, Leave, Replies, Verdicts
    <2>5. CASE Cleanup(r)
          BY <1>1, <2>5 DEF Cleanup
    <2>6. CASE Route(r)
          BY <1>1, <2>6 DEF Route, Deliver, CallOK, AnswerOK, Verdicts
    <2>7. ASSUME NEW v \in Verdicts, Answer(r, v) PROVE CalmCall(r)'
          BY <1>1, <2>7 DEF Answer
    <2> QED
        BY <2>1, <2>2, <2>3, <2>4, <2>5, <2>6, <2>7 DEF CallStep
  <1>4. \A q \in Reqs : CalmCall(q)'
        BY <1>2, <1>3
  <1> QED
      BY <1>4 DEF connVars

\* A program that is undisturbed after a step was so before it.
LEMMA CalmBefore ==
    ASSUME ProgInd, [ProgNext]_allVars, Calm'
    PROVE  Calm
  <1>1. prog' = prog /\ (ctxDone => ctxDone')
        BY TargetInd, Onwards, ProgStepIsReqStep DEF ProgInd
  <1>2. faults' = faults \/ faults' = faults + 1
        BY Onwards, ProgStepIsReqStep DEF ProgInd
  <1>3. faults \in Nat
        BY ConnectionAssumption
        DEF ConnectionAssumption, ProgInd, ReqInd, ReqTypeOK, ConnTypeOK
  <1> QED
      BY <1>1, <1>2, <1>3 DEF Calm, OneShot

\* Nothing but its own goroutines moves it.
LEMMA CalmAlone == ASSUME ProgInd, Calm, Calm' PROVE ~ProgOther
  <1>1. ~Cancel /\ ~(~OneShot /\ BounceNow)
        BY DEF Calm, Cancel
  <1>2. ~Lose
    <2>1. pc # "drain" /\ faults = 0 /\ faults' = 0
          BY DEF ProgInd, Calm, Steady, CalmLocations
    <2> QED
        BY <2>1 DEF Lose
  <1> QED
      BY <1>1, <1>2 DEF ProgOther

LEMMA CalmInd ==
    ASSUME ProgInd, [ProgNext]_allVars
    PROVE  Calm' => Steady'
  <1> SUFFICES ASSUME Calm' PROVE Steady'
      OBVIOUS
  <1> USE DEF ProgInd
  <1>1. Calm
        BY CalmBefore
  <1>2. Steady /\ ReqInd
        BY <1>1
  <1>3. CASE ProgStart
        BY <1>1, <1>2, <1>3, CalmStart
  <1>4. CASE UNCHANGED vars
    <2>1. \A r \in Reqs : CalmCall(r)'
          BY <1>2, <1>4 DEF Steady, CalmCall, vars, connVars, reqVars
    <2> QED
        BY <1>2, <1>4, <2>1 DEF Steady, vars, connVars
  <1>5. ASSUME NEW r \in Reqs, Connected(r) PROVE Steady'
    <2>1. Register(r) /\ fired /\ UNCHANGED connVars
          BY <1>5 DEF Connected, Register
    <2> QED
        BY <1>1, <1>2, <2>1, CalmCalls
  <1>6. ASSUME NEW c \in reading, ProgReadEnd(c) PROVE Steady'
    <2>1. ReadEnd(c) /\ UNCHANGED <<stage, reply, result>>
          BY <1>6 DEF ProgReadEnd, ReqReadEnd
    <2>2. \A r \in Reqs : CalmCall(r)'
          BY <1>2, <2>1 DEF Steady, CalmCall, ReadEnd
    <2> QED
        BY <1>2, <2>1, <2>2 DEF Steady, ReadEnd
  <1>7. ASSUME NEW r \in Reqs,
               \/ CallStep(r) \/ Route(r)
               \/ \E v \in Verdicts : NodeAnswers(r, v)
        PROVE  Steady'
    <2>1. CallStep(r) \/ Route(r) \/ \E v \in Verdicts : Answer(r, v)
          BY <1>7 DEF NodeAnswers
    <2>2. UNCHANGED connVars
          BY <2>1 DEF CallStep, WriteSent, WriteFails, TakeReply, Leave, Cleanup,
             Route, Answer
    <2> QED
        BY <1>1, <1>2, <2>1, <2>2, CalmCalls
  <1>8. ASSUME NEW r \in Reqs, WebLookup(r) \/ LookupCtxEnds(r) PROVE FALSE
        BY <1>1, <1>8 DEF WebLookup, LookupCtxEnds, Calm
  <1>9. ~ProgOther
        BY <1>1, CalmAlone
  <1>10. CASE MainStep /\ ~\E r \in Reqs : Connected(r)
        BY <1>4, <1>10 DEF MainStep, LookedUp, ConnectTimeout, EventLoop, QuietEnds
  <1> QED
      BY <1>3, <1>4, <1>5, <1>6, <1>7, <1>8, <1>9, <1>10
      DEF ProgNext, ReadEvent, Serve, Land, allVars

-----------------------------------------------------------------------------
\* A call that returned without the node's data was refused by the node, or the
\* program was disturbed.
LEMMA FailureExplained ==
    ASSUME ProgInd, OneShot, NEW r \in Reqs, stage[r] = "returned", result[r] # "ok"
    PROVE  ctxDone \/ faults > 0 \/ answered[r] = "error"
  <1> USE DEF ProgInd
  <1>1. CallOK(r) /\ ReqTypeOK
        BY DEF ReqInd
  <1>2. result[r] \in {"error", "closed", "notConnected", "writeFailed", "ctx"}
    <2>1. result[r] \in Results /\ result[r] # "none"
          BY <1>1 DEF CallOK, StageOK, ReqTypeOK
    <2> QED
        BY <2>1 DEF Results, Replies, Verdicts
  <1>3. CASE result[r] = "error"
        BY <1>1, <1>3 DEF CallOK, HonestOK, Verdicts
  <1>4. CASE result[r] # "error"
    <2>1. ~Steady
          BY <1>2, <1>4 DEF Steady, CalmCall
    <2>2. ~Calm
          BY <2>1
    <2>3. faults \in Nat
          BY <1>1, ConnectionAssumption
          DEF ConnectionAssumption, ReqTypeOK, ConnTypeOK
    <2> QED
        BY <2>2, <2>3 DEF Calm
  <1> QED
      BY <1>3, <1>4

LEMMA ExitInd ==
    ASSUME ProgInd, [ProgNext]_allVars
    PROVE  ExitExplained'
  <1> USE DEF ProgInd
  <1>1. /\ landed => landed'
        /\ ctxDone => ctxDone'
        /\ \A r \in Reqs : answered[r] # "none" => answered'[r] = answered[r]
        BY TargetInd, Onwards, ProgStepIsReqStep
  <1>2. faults > 0 => faults' > 0
    <2>1. faults' = faults \/ faults' = faults + 1
          BY Onwards, ProgStepIsReqStep
    <2>2. faults \in Nat
          BY ConnectionAssumption
          DEF ConnectionAssumption, ReqInd, ReqTypeOK, ConnTypeOK
    <2> QED
        BY <2>1, <2>2
  <1>3. CASE main' = main \/ main' \notin Exits
        BY <1>1, <1>2, <1>3 DEF ExitExplained, Exits
  <1>4. ASSUME NEW r \in Reqs, LookedUp(r) PROVE ExitExplained'
    <2>1. UNCHANGED vars /\ stage[r] = "returned" /\ OneShot
          BY <1>4 DEF LookedUp, Asks
    <2>2. CASE result[r] = "ok"
      <3>1. main' = "data"
            BY <1>4, <2>2 DEF LookedUp
      <3>2. answered[r] = "ok"
            BY <2>2 DEF ReqInd, CallOK, HonestOK, Verdicts
      <3>3. answered' = answered
            BY <2>1 DEF vars, reqVars
      <3> QED
          BY <3>1, <3>2, <3>3 DEF ExitExplained
    <2>3. CASE result[r] # "ok"
      <3>1. main' = "failed" \/ main' = "events"
            BY <1>4, <2>3 DEF LookedUp
      <3>2. ctxDone \/ faults > 0 \/ answered[r] = "error"
            BY <2>1, <2>3, FailureExplained
      <3>3. UNCHANGED <<ctxDone, faults, answered>>
            BY <2>1 DEF vars, connVars, reqVars
      <3> QED
          BY <3>1, <3>2, <3>3 DEF ExitExplained
    <2> QED
        BY <2>2, <2>3
  <1>5. CASE ConnectTimeout \/ QuietEnds
        BY <1>1, <1>5 DEF ConnectTimeout, QuietEnds, ExitExplained
  <1>6. CASE EventLoop
    <2>1. main' = "seen" => landed
          BY <1>6 DEF EventLoop, Announced
    <2>2. main' \in {"timeout", "closed"} => ctxDone
          BY <1>6 DEF EventLoop, EventsClosed, ReqInd, ConnInd, FinishOnlyOnCancel
    <2>3. main' \in {"timeout", "seen", "closed"}
          BY <1>6 DEF EventLoop
    <2> QED
        BY <1>1, <2>1, <2>2, <2>3 DEF ExitExplained
  <1>7. CASE \E r \in Reqs : Connected(r)
        BY <1>3, <1>7 DEF Connected, Exits
  <1>8. CASE UNCHANGED main
        BY <1>3, <1>8
  <1> QED
      BY <1>4, <1>5, <1>6, <1>7, <1>8
      DEF ProgNext, MainStep, ProgStart, ProgReadEnd, ReadEvent, Serve, Land,
          NodeAnswers, WebLookup, LookupCtxEnds, ProgOther, allVars, progVars

LEMMA ProgStepInd == ProgInd /\ [ProgNext]_allVars => ProgInd'
  <1> SUFFICES ASSUME ProgInd, [ProgNext]_allVars PROVE ProgInd'
      OBVIOUS
  <1>1. ReqInd'
        BY ReqStepInd, ProgStepIsReqStep DEF ProgInd
  <1>2. ProgTypeOK'
        BY <1>1, ProgTypeInd
  <1>3. Asks' /\ Announced'
        BY TargetInd
  <1>4. Calm' => Steady'
        BY CalmInd
  <1>5. ExitExplained'
        BY ExitInd
  <1> QED
      BY <1>1, <1>2, <1>3, <1>4, <1>5 DEF ProgInd

\* What is proved of Requests, and so of Connection, holds under the programs.
THEOREM ProgramsRunOnRequests == ProgSpec => ReqSafety
  <1>1. ProgInit => ReqInit
        BY DEF ProgInit
  <1> QED
      BY <1>1, ProgStepIsReqStep, PTL DEF ProgSpec, ReqSafety

\* ProgInd holds in every reachable state.
THEOREM ProgInvariant == ProgSpec => []ProgInd
  BY ProgInitInd, ProgStepInd, PTL DEF ProgSpec

\* The variables of the programs keep their types.
THEOREM ProgTypes == ProgSpec => []ProgTypeOK
  <1>1. ProgInd => ProgTypeOK
        BY DEF ProgInd
  <1> QED
      BY <1>1, ProgInvariant, PTL

\* How a program ends says what happened: data only from the node's answer to
\* its own request, "seen" only of a target on chain, a failure only when the
\* node refused or the program was disturbed, and no other end but by its
\* context.
THEOREM ExitsAreExplained == ProgSpec => []ExitExplained
  <1>1. ProgInd => ExitExplained
        BY DEF ProgInd
  <1> QED
      BY <1>1, ProgInvariant, PTL

-----------------------------------------------------------------------------
(* wait-for-event: "subscribing before querying closes the race".          *)

\* The node's data is the result of call r, or on its way to it.
AnswerComing(r) ==
    \/ result[r] = "ok"
    \/ stage[r] = "waiting" /\ reply[r] = "ok"
    \/ /\ stage[r] = "waiting" /\ reply[r] = "none"
       /\ r \in inbox /\ r \in pending /\ sentOn[r] \in reading

\* The event is in the channel, or on a socket somebody reads.
EventComing == event = "buffered" \/ (event = "wire" /\ carrier \in reading)

\* What TargetFound rests on: from the node's answer on, a target on chain is
\* found, or main is where it will be and the news is on its way there.
RaceClosed ==
    prog = "wait" /\ landed /\ Undisturbed =>
        \A r \in Reqs :
            /\ answered[r] = "ok" =>
                   main = "data" \/ (main = "lookup" /\ AnswerComing(r))
            /\ answered[r] = "error" =>
                   main = "seen" \/ (main \in {"lookup", "events"} /\ EventComing)

AskedOnce ==
    /\ main = "connect" => \A r \in Reqs : stage[r] = "new"
    /\ OneShot => \A r, q \in Reqs : stage[r] # "new" /\ stage[q] # "new" => r = q

\* An answer means that the node serves this very connection: what lands after
\* a refusal is announced on it.
Informed(r) ==
    /\ answered[r] # "none" => served = attempt
    /\ answered[r] = "error" /\ landed =>
           /\ event \in {"wire", "buffered", "dropped"}
           /\ event = "wire" => carrier = attempt
    /\ stage[r] = "waiting" /\ answered[r] # "none" /\ reply[r] = "none" => r \in inbox

\* Main is past its look-up for the reason the node gave.
PastLookup(r) ==
    /\ main \in {"events", "seen", "data"} /\ stage[r] # "new" => answered[r] # "none"
    /\ main = "data" => answered[r] # "error"
    /\ main \in {"events", "seen"} => answered[r] # "ok"

Waiting ==
    /\ main \in {"connect", "lookup", "events", "seen", "data"}
    /\ \A r \in Reqs : Informed(r) /\ PastLookup(r)

RaceInd == AskedOnce /\ (Calm /\ prog = "wait" => Waiting)

LEMMA RaceInitInd == ProgInit => RaceInd
  BY DEF ProgInit, ReqInit, RaceInd, AskedOnce, Waiting, Informed, PastLookup

\* Only Connected and the dashboard register a call.
LEMMA AskedKept ==
    ASSUME ProgInd, AskedOnce, [ProgNext]_allVars
    PROVE  AskedOnce'
  <1>1. CASE \E r \in Reqs : Connected(r)
    <2>1. PICK r \in Reqs : Connected(r)
          BY <1>1
    <2>2. /\ main = "connect" /\ main' = "lookup"
          /\ stage' = [stage EXCEPT ![r] = "registered"]
          BY <2>1 DEF Connected, Register
    <2>3. stage \in [Reqs -> Stages]
          BY DEF ProgInd, ReqInd, ReqTypeOK
    <2>4. \A q \in Reqs : q # r => stage'[q] = "new"
          BY <2>2, <2>3 DEF AskedOnce
    <2> QED
        BY <2>2, <2>4 DEF AskedOnce
  <1>2. CASE \E r \in Reqs : WebLookup(r)
    <2>1. ~OneShot /\ main' = main /\ prog' = prog
          BY <1>2 DEF WebLookup, progVars
    <2> QED
        BY <2>1 DEF AskedOnce, ProgInd, Asks, OneShot
  <1>3. ASSUME \A q \in Reqs : stage'[q] = "new" <=> stage[q] = "new",
               main' = "connect" => main = "connect"
        PROVE  AskedOnce'
    <2>1. prog' = prog
          BY TargetInd
    <2> QED
        BY <1>3, <2>1 DEF AskedOnce, OneShot
  <1>4. ASSUME NEW r \in Reqs,
               \/ CallStep(r) \/ Route(r) \/ LookupCtxEnds(r)
               \/ \E v \in Verdicts : NodeAnswers(r, v)
        PROVE  \A q \in Reqs : stage'[q] = "new" <=> stage[q] = "new"
        BY <1>4 DEF ProgInd, ReqInd, ReqTypeOK, CallStep, WriteSent, WriteFails,
           TakeReply, Leave, Cleanup, Route, LookupCtxEnds, CtxExpires,
           NodeAnswers, Answer
  <1>5. CASE \/ ProgStart \/ ReadEvent \/ Serve \/ Land \/ ProgOther
             \/ \E c \in reading : ProgReadEnd(c)
             \/ UNCHANGED allVars
    <2>1. stage' = stage
          BY <1>5 DEF ProgStart, ReqStartStep, ReadEvent, Serve, Land, ProgOther,
             ProgReadEnd, ReqReadEnd, allVars, vars, reqVars
    <2>2. main' = main
          BY <1>5 DEF ProgStart, ReadEvent, Serve, Land, ProgOther, ProgReadEnd,
             allVars, progVars
    <2> QED
        BY <1>3, <2>1, <2>2
  <1>6. CASE MainStep /\ ~\E r \in Reqs : Connected(r)
    <2>1. stage' = stage
          BY <1>6 DEF MainStep, LookedUp, ConnectTimeout, EventLoop, QuietEnds,
             vars, reqVars
    <2>2. main' # "connect"
          BY <1>6 DEF MainStep, LookedUp, ConnectTimeout, EventLoop, QuietEnds
    <2> QED
        BY <1>3, <2>1, <2>2
  <1>7. ASSUME NEW r \in Reqs,
               \/ CallStep(r) /\ UNCHANGED progVars
               \/ Route(r) /\ UNCHANGED progVars
               \/ LookupCtxEnds(r)
               \/ \E v \in Verdicts : NodeAnswers(r, v)
        PROVE  AskedOnce'
    <2>1. main' = main
          BY <1>7 DEF LookupCtxEnds, NodeAnswers, progVars
    <2> QED
        BY <1>3, <1>4, <1>7, <2>1
  <1> QED
      BY <1>1, <1>2, <1>5, <1>6, <1>7 DEF ProgNext

\* An answered call was sent after OnConnect, so Start streams.
LEMMA AnsweredStreams ==
    ASSUME ProgInd, Calm, NEW r \in Reqs, answered[r] # "none"
    PROVE  /\ pc = "stream" /\ ~lost /\ attempt \in reading
           /\ stage[r] \in {"waiting", "leaving", "returned"}
  <1>1. CallOK(r) /\ stage[r] \in Stages /\ Steady
        BY DEF ProgInd, ReqInd, ReqTypeOK
  <1>2. stage[r] \in {"waiting", "leaving", "returned"}
        BY <1>1 DEF CallOK, AnswerOK, StageOK, Stages
  <1> QED
      BY <1>1, <1>2 DEF Steady, CalmCall

\* The node's answer is what a call of an undisturbed program ends with.
LEMMA AnswerReturned ==
    ASSUME ProgInd, Calm, NEW r \in Reqs, stage[r] \in {"leaving", "returned"}
    PROVE  result[r] \in Verdicts /\ answered[r] = result[r]
  <1>1. CallOK(r) /\ result[r] \in Results /\ CalmCall(r)
        BY DEF ProgInd, ReqInd, ReqTypeOK, Steady
  <1>2. result[r] \in Verdicts
        BY <1>1 DEF CallOK, StageOK, CalmCall, Results, Replies, Verdicts
  <1> QED
      BY <1>1, <1>2 DEF CallOK, HonestOK

\* A step of main.
LEMMA WaitingMain ==
    ASSUME ProgInd, AskedOnce, Calm, prog = "wait", Waiting, MainStep
    PROVE  Waiting'
  <1> USE DEF Waiting
  <1>1. ASSUME NEW r \in Reqs, Connected(r) PROVE Waiting'
    <2>1. /\ main' = "lookup" /\ Register(r)
          /\ UNCHANGED <<attempt, served, landed, event, carrier>>
          BY <1>1 DEF Connected, Register, connVars
    <2>2. ASSUME NEW q \in Reqs PROVE Informed(q)' /\ PastLookup(q)'
      <3>1. stage \in [Reqs -> Stages] /\ Informed(q)
            BY DEF ProgInd, ReqInd, ReqTypeOK
      <3> QED
          BY <2>1, <3>1 DEF Register, Informed, PastLookup
    <2> QED
        BY <2>1, <2>2
  <1>2. ASSUME NEW r \in Reqs, LookedUp(r) PROVE Waiting'
    <2>1. /\ UNCHANGED <<attempt, stage, reply, answered, inbox>>
          /\ UNCHANGED <<served, landed, event, carrier>>
          /\ stage[r] = "returned"
          BY <1>2 DEF LookedUp, vars, connVars, reqVars
    <2>2. result[r] \in Verdicts /\ answered[r] = result[r]
          BY <2>1, AnswerReturned
    <2>3. main' = IF result[r] = "ok" THEN "data" ELSE "events"
          BY <1>2, <2>2 DEF LookedUp, RequestFailed, Verdicts
    <2>4. ASSUME NEW q \in Reqs PROVE Informed(q)' /\ PastLookup(q)'
      <3>1. Informed(q)'
            BY <2>1 DEF Informed
      <3>2. stage[q] # "new" => q = r
            BY <2>1 DEF AskedOnce, OneShot
      <3>3. stage[q] = "new" => answered[q] = "none"
        <4>1. CallOK(q)
              BY DEF ProgInd, ReqInd
        <4> QED
            BY <4>1 DEF CallOK, StageOK, AnswerOK
      <3>4. CASE q = r
            BY <2>1, <2>2, <2>3, <3>1, <3>4 DEF PastLookup, Verdicts
      <3>5. CASE stage[q] = "new"
            BY <2>1, <3>1, <3>3, <3>5 DEF PastLookup
      <3> QED
          BY <3>2, <3>4, <3>5
    <2> QED
        BY <2>3, <2>4
  <1>3. ~ConnectTimeout /\ ~QuietEnds
        BY DEF Calm, ConnectTimeout, QuietEnds
  <1>4. CASE EventLoop
    <2>1. pc # "returned" /\ ~ctxDone
          BY DEF ProgInd, Steady, CalmLocations, Calm
    <2>2. main = "events" /\ main' = "seen"
          BY <1>4, <2>1 DEF EventLoop, EventsClosed
    <2>3. /\ UNCHANGED <<attempt, stage, reply, answered, inbox>>
          /\ UNCHANGED <<served, landed, event, carrier>>
          BY <1>4 DEF EventLoop, vars, connVars, reqVars
    <2>4. ASSUME NEW q \in Reqs PROVE Informed(q)' /\ PastLookup(q)'
          BY <2>2, <2>3, <2>4 DEF Informed, PastLookup
    <2> QED
        BY <2>2, <2>4
  <1> QED
      BY <1>1, <1>2, <1>3, <1>4 DEF MainStep

\* A step of a call, of the node or of a reader, for the call itself.
LEMMA WaitingCall ==
    ASSUME ProgInd, AskedOnce, Calm, prog = "wait", Waiting, NEW r \in Reqs,
           UNCHANGED progVars,
           \/ CallStep(r) \/ Route(r)
           \/ \E v \in Verdicts : NodeAnswers(r, v)
    PROVE  Waiting'
  <1> USE DEF Waiting
  <1>1. /\ ReqTypeOK /\ CallOK(r)
        /\ Informed(r) /\ PastLookup(r)
        BY DEF ProgInd, ReqInd
  <1>2. UNCHANGED <<attempt, main, served, landed, event, carrier>>
        BY DEF CallStep, WriteSent, WriteFails, TakeReply, Leave, Cleanup, Route,
           NodeAnswers, Answer, connVars, progVars
  <1>3. ASSUME NEW q \in Reqs, q # r PROVE Informed(q)' /\ PastLookup(q)'
    <2>1. /\ stage'[q] = stage[q] /\ reply'[q] = reply[q]
          /\ answered'[q] = answered[q] /\ (q \in inbox => q \in inbox')
          BY <1>1, <1>3 DEF ReqTypeOK, CallStep, WriteSent, WriteFails, TakeReply,
             Leave, Cleanup, Route, Deliver, NodeAnswers, Answer
    <2>2. Informed(q) /\ PastLookup(q)
          OBVIOUS
    <2> QED
        BY <1>2, <2>1, <2>2 DEF Informed, PastLookup
  <1>4. CASE WriteSent(r)
    <2>1. answered'[r] = "none" /\ stage[r] = "registered" /\ UNCHANGED answered
          BY <1>1, <1>4 DEF WriteSent, CallOK, StageOK, AnswerOK
    <2>2. Informed(r)' /\ PastLookup(r)'
          BY <1>1, <1>2, <2>1 DEF Informed, PastLookup
    <2> QED
        BY <1>2, <1>3, <2>2
  <1>5. CASE WriteFails(r) \/ TakeReply(r) \/ Cleanup(r)
    <2>1. /\ UNCHANGED <<answered, reply, inbox>>
          /\ stage[r] # "new" /\ stage'[r] \in {"leaving", "returned"}
          BY <1>1, <1>5 DEF WriteFails, TakeReply, Leave, Cleanup, ReqTypeOK
    <2>2. Informed(r)' /\ PastLookup(r)'
          BY <1>1, <1>2, <2>1 DEF Informed, PastLookup
    <2> QED
        BY <1>2, <1>3, <2>2
  <1>6. CASE Route(r)
    <2>1. UNCHANGED <<answered, stage>>
          BY <1>6 DEF Route
    <2>2. stage[r] = "waiting" => reply'[r] # "none"
      <3>1. answered[r] # "none"
            BY <1>1, <1>6 DEF Route, CallOK, AnswerOK, Verdicts
      <3> QED
          BY <1>1, <1>6, <3>1 DEF Route, Deliver, ReqTypeOK, CallOK, WaiterOK
    <2>3. Informed(r)' /\ PastLookup(r)'
          BY <1>1, <1>2, <2>1, <2>2 DEF Informed, PastLookup
    <2> QED
        BY <1>2, <1>3, <2>3
  <1>7. ASSUME NEW v \in Verdicts, NodeAnswers(r, v) PROVE Waiting'
    <2>1. /\ served = attempt /\ (v = "ok" <=> landed)
          /\ answered[r] = "none" /\ answered'[r] = v /\ r \in inbox'
          /\ sentOn[r] # 0 /\ stage' = stage
          BY <1>1, <1>7 DEF NodeAnswers, Answer, ReqTypeOK
    <2>2. stage[r] # "new"
          BY <1>1, <2>1 DEF CallOK, StageOK
    <2>3. main = "lookup"
          BY <1>1, <2>1, <2>2 DEF PastLookup, AskedOnce
    <2>4. Informed(r)' /\ PastLookup(r)'
          BY <1>2, <2>1, <2>3 DEF Informed, PastLookup, Verdicts
    <2> QED
        BY <1>2, <1>3, <2>4
  <1> QED
      BY <1>4, <1>5, <1>6, <1>7 DEF CallStep

\* A step of Start, of a reader or of the target.
LEMMA WaitingElse ==
    ASSUME ProgInd, Calm, Calm', prog = "wait", Waiting,
           \/ ProgStart \/ ReadEvent \/ Serve \/ Land \/ UNCHANGED allVars
           \/ \E c \in reading : ProgReadEnd(c)
    PROVE  Waiting'
  <1> USE DEF Waiting
  <1>1. UNCHANGED <<main, stage, answered>>
        BY DEF ProgStart, ReqStartStep, ReadEvent, Serve, Land, ProgReadEnd,
           ReqReadEnd, allVars, vars, reqVars, progVars
  <1>2. ASSUME NEW r \in Reqs PROVE Informed(r)' /\ PastLookup(r)'
    <2>1. PastLookup(r)'
          BY <1>1 DEF PastLookup
    <2>2. CASE answered[r] = "none"
          BY <1>1, <2>1, <2>2 DEF Informed
    <2>3. CASE answered[r] # "none"
      <3>1. /\ pc = "stream" /\ ~lost /\ attempt \in reading
            /\ ReqTypeOK /\ CallOK(r) /\ Informed(r)
            BY <2>3, AnsweredStreams DEF ProgInd, ReqInd
      <3>2. CASE UNCHANGED allVars
            BY <2>1, <3>1, <3>2 DEF Informed, allVars, vars, connVars, reqVars, progVars
      <3>3. ~ProgStart
            BY <3>1 DEF Calm, ProgStart, ReqStartStep, StartCommon, LoopTop, Park,
               Arm, Snapshot, DialOk, DialFail, HandshakeSent, HandshakeFails,
               MarkConnected, OnConnect, OnConnectPanics, StreamDone,
               StreamCancel, ConnCtxDone, ProgInd, Steady, CalmLocations, Drain,
               Down, Uninstall, Teardown, Disarm, Backoff, Finish
      <3>4. CASE ReadEvent
        <4>1. ~EventsClosed
              BY <3>1 DEF EventsClosed
        <4> QED
            BY <2>1, <3>1, <3>4, <4>1 DEF ReadEvent, Informed, vars, connVars, reqVars
      <3>5. CASE Serve
            BY <2>1, <3>1, <3>5 DEF Serve, Informed, vars, connVars, reqVars
      <3>6. CASE Land
        <4>1. Serving
              BY <2>3, <3>1 DEF Serving, Informed
        <4> QED
            BY <2>1, <3>1, <3>6, <4>1 DEF Land, Informed, vars, connVars, reqVars
      <3>7. ASSUME NEW c \in reading, ProgReadEnd(c) PROVE Informed(r)'
        <4>1. /\ c # attempt /\ UNCHANGED <<attempt, reply, served, landed, carrier>>
              /\ inbox' = {q \in inbox : sentOn[q] # c}
              /\ event' = IF event = "wire" /\ carrier = c THEN "lost" ELSE event
              BY <3>1, <3>7 DEF ProgReadEnd, ReqReadEnd, ReadEnd
        <4>2. stage[r] = "waiting" /\ reply[r] = "none" => sentOn[r] # c
              BY <3>1, <4>1 DEF CallOK, WaiterOK, CarrierAlive
        <4> QED
            BY <1>1, <3>1, <4>1, <4>2 DEF Informed
      <3> QED
          BY <2>1, <3>2, <3>3, <3>4, <3>5, <3>6, <3>7
    <2> QED
        BY <2>2, <2>3
  <1> QED
      BY <1>1, <1>2

LEMMA RaceStepInd == ProgInd /\ RaceInd /\ [ProgNext]_allVars => RaceInd'
  <1> SUFFICES ASSUME ProgInd, RaceInd, [ProgNext]_allVars PROVE RaceInd'
      OBVIOUS
  <1>1. AskedOnce'
        BY AskedKept DEF RaceInd
  <1>2. ASSUME Calm', prog' = "wait" PROVE Waiting'
    <2>1. Calm /\ prog = "wait"
          BY <1>2, CalmBefore, TargetInd
    <2>2. AskedOnce /\ Waiting
          BY <2>1 DEF RaceInd
    <2>3. CASE MainStep
          BY <2>1, <2>2, <2>3, WaitingMain
    <2>4. ASSUME NEW r \in Reqs,
                 \/ CallStep(r) /\ UNCHANGED progVars
                 \/ Route(r) /\ UNCHANGED progVars
                 \/ \E v \in Verdicts : NodeAnswers(r, v)
          PROVE  Waiting'
          BY <2>1, <2>2, <2>4, WaitingCall DEF NodeAnswers
    <2>5. ASSUME NEW r \in Reqs, WebLookup(r) \/ LookupCtxEnds(r) PROVE FALSE
          BY <2>1, <2>5 DEF WebLookup, LookupCtxEnds, Calm
    <2>6. ~ProgOther
          BY <1>2, <2>1, CalmAlone
    <2>7. CASE \/ ProgStart \/ ReadEvent \/ Serve \/ Land \/ UNCHANGED allVars
               \/ \E c \in reading : ProgReadEnd(c)
          BY <1>2, <2>1, <2>2, <2>7, WaitingElse
    <2> QED
        BY <2>3, <2>4, <2>5, <2>6, <2>7 DEF ProgNext
  <1> QED
      BY <1>1, <1>2 DEF RaceInd

LEMMA RaceIndCloses == ProgInd /\ RaceInd => RaceClosed
  <1> SUFFICES ASSUME ProgInd, RaceInd, prog = "wait", landed, Undisturbed,
                      NEW r \in Reqs
               PROVE  /\ answered[r] = "ok" =>
                             main = "data" \/ (main = "lookup" /\ AnswerComing(r))
                      /\ answered[r] = "error" =>
                             main = "seen" \/ (main \in {"lookup", "events"} /\ EventComing)
      BY DEF RaceClosed
  <1>1. CASE answered[r] = "none"
        BY <1>1
  <1>2. CASE answered[r] # "none"
    <2>1. Calm /\ AskedOnce /\ Waiting /\ Steady /\ ReqTypeOK /\ CallOK(r)
          BY DEF Calm, OneShot, Undisturbed, RaceInd, ProgInd, ReqInd
    <2>2. /\ pc = "stream" /\ attempt \in reading
          /\ stage[r] \in {"waiting", "leaving", "returned"}
          BY <1>2, <2>1, AnsweredStreams
    <2>3. Informed(r) /\ PastLookup(r) /\ CalmCall(r) /\ main # "connect"
          BY <2>1, <2>2 DEF Waiting, Steady, AskedOnce
    <2>4. ASSUME answered[r] = "ok" PROVE AnswerComing(r)
      <3>1. CASE stage[r] = "waiting" /\ reply[r] = "none"
        <4>1. r \in inbox
              BY <1>2, <2>3, <3>1 DEF Informed
        <4>2. r \in pending /\ sentOn[r] = attempt
              BY <2>1, <3>1 DEF CallOK, WaiterOK, CarrierAlive
        <4> QED
            BY <2>2, <3>1, <4>1, <4>2 DEF AnswerComing
      <3>2. CASE stage[r] = "waiting" /\ reply[r] # "none"
        <4>1. reply[r] \in Verdicts
              BY <2>1, <2>3, <3>2 DEF ReqTypeOK, CalmCall, Replies
        <4> QED
            BY <2>1, <2>4, <3>2, <4>1 DEF CallOK, AnswerOK, AnswerComing
      <3>3. CASE stage[r] \in {"leaving", "returned"}
            BY <2>1, <2>4, <3>3, AnswerReturned DEF AnswerComing
      <3> QED
          BY <2>2, <3>1, <3>2, <3>3
    <2>5. ASSUME answered[r] = "error" PROVE EventComing
          BY <2>2, <2>3, <2>5 DEF Informed, EventComing, Undisturbed
    <2>6. main \in {"lookup", "events", "seen", "data"}
          BY <2>1, <2>3 DEF Waiting
    <2> QED
        BY <2>3, <2>4, <2>5, <2>6 DEF PastLookup
  <1> QED
      BY <1>1, <1>2

\* "Subscribing before querying closes the race" (wait-for-event/main.go:14-16):
\* once the node has answered the look-up, a target on chain is never missed by
\* an undisturbed program, whether it landed before or after.
THEOREM RaceIsClosed == ProgSpec => []RaceClosed
  <1>1. ProgInit => RaceInd
        BY RaceInitInd
  <1>2. ProgSpec => []RaceInd
        BY <1>1, ProgInvariant, RaceStepInd, PTL DEF ProgSpec
  <1> QED
      BY <1>2, ProgInvariant, RaceIndCloses, PTL
=============================================================================
