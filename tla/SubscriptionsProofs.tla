-------------------------- MODULE SubscriptionsProofs --------------------------
(***************************************************************************)
(* Theorems about Subscriptions, for every set of types and addresses, all *)
(* arguments, and any number of operations, faults and cancellations.      *)
(*                                                                         *)
(* SubInd adds to ConnInd what the stage of an operation says about its    *)
(* frames and its acknowledgements; WakeInd is NoLostWakeup with the only  *)
(* moment an operation owes Start a token left out.  AgreeInd says what    *)
(* the unread frames and the rest of the operation's plan are going to     *)
(* make of the node's set, until something dooms the connection.           *)
(***************************************************************************)
EXTENDS Subscriptions, ConnectionProofs

-----------------------------------------------------------------------------
(* The connection below.                                                   *)

\* What this module adds to the steps of Connection: a bounce with a
\* connCancel captured earlier, and a node that closes the socket.
LEMMA BounceInd == ASSUME ConnInd, NEW c, Bounce(c), UNCHANGED kicks PROVE ConnInd'
  BY DEF ConnInd, ConnTypeOK, PhaseOK, ConnectedPhase, PanicOnlyOneShot,
         FinishOnlyOnCancel, InstalledAt, AttemptAt, Bounce

LEMMA PeerClosesInd == ASSUME ConnInd, PeerCloses, UNCHANGED faults PROVE ConnInd'
  BY DEF ConnInd, ConnTypeOK, PhaseOK, ConnectedPhase, PanicOnlyOneShot,
         FinishOnlyOnCancel, InstalledAt, AttemptAt, PeerCloses

\* What a step does to Connection: a step of its own, the bounce of an operation
\* (which captured the attempt earlier), or the node closing the socket.
LEMMA SubStepKinds ==
    ASSUME [SubNext]_vars
    PROVE  [ConnNext]_connVars \/ BounceOp \/ NodeReadsFirst
  <1>1. SubStartStep => ConnNext
        BY DEF SubStartStep, TakeSnapshot, Dialled, SendHandshake, ConnNext, StartStep, HasTypes
  <1>2. SubOther => ConnNext
        BY DEF SubOther, ConnNext
  <1>3. ASSUME NEW kind \in Kinds, NEW s \in Args, Begin(kind, s) PROVE UNCHANGED connVars
        BY <1>3 DEF Begin
  <1>4. OpStep => UNCHANGED connVars \/ BounceOp
        BY DEF OpStep, SendFrame, SendNotConnected, TakeOk, RequestFails, Commit,
               RemoveOffline, Persist
  <1>5. NodeStep => UNCHANGED connVars \/ NodeReadsFirst
        BY DEF NodeStep, NodeAccepts, NodeRefuses
  <1>6. UNCHANGED vars => UNCHANGED connVars
        BY DEF vars
  <1> QED
      BY <1>1, <1>2, <1>3, <1>4, <1>5, <1>6 DEF SubNext

LEMMA SubStepConn == ConnInd /\ [SubNext]_vars => ConnInd'
  <1> SUFFICES ASSUME ConnInd, [SubNext]_vars PROVE ConnInd'
      OBVIOUS
  <1>1. CASE [ConnNext]_connVars
        BY <1>1, ConnStepInd
  <1>2. CASE BounceOp
        BY <1>2, BounceInd DEF BounceOp
  <1>3. CASE NodeReadsFirst
    <2>1. (PeerCloses /\ UNCHANGED faults) \/ UNCHANGED connVars
          BY <1>3 DEF NodeReadsFirst
    <2> QED
        BY <2>1, PeerClosesInd, ConnStepInd
  <1> QED
      BY <1>1, <1>2, <1>3, SubStepKinds

-----------------------------------------------------------------------------
(* Types, and the shape of an operation in progress.                       *)

Requested == [method : {"subscribe", "unsubscribe"}, types : SUBSET Types, addrs : SUBSET Addrs]
Sent == [method : {"handshake", "subscribe", "unsubscribe"},
         types : SUBSET Types, addrs : SUBSET Addrs]
Framed == [frame : Sent, id : Nat \X Nat]

OpTyped ==
    [kind : OpKinds, args : Subs, stage : OpStages, todo : Seq(Requested),
     sentOn : Nat, answer : {"none", "ok", "error"}, acked : SUBSET Nat, cap : Nat]

Typed ==
    /\ want \in Subs /\ snap \in Subs
    /\ node \in [types : SUBSET Types, addrs : SUBSET Addrs, live : BOOLEAN]
    /\ wire \in Seq(Framed)
    /\ op \in OpTyped
    /\ Len(op.todo) <= 3
    /\ ops \in 0 .. MaxOps
    /\ excuse \subseteq Excuses

Sending == op.stage \in {"send", "wait"}

\* What the stage of the operation says about it: the plan is made once, and
\* Commit without an acknowledgement is that of a Reconfigure to the same set.
OpShape ==
    /\ op.kind = "none" <=> op.stage = "idle"
    /\ op.kind = "none" => op = NoOp
    /\ Sending => op.todo # <<>>
    /\ op.stage = "removeOffline" => op.kind = "remove"
    /\ op.kind \in {"add", "remove"} /\ Sending => op.acked = {}
    /\ Sending /\ op.acked = {} => op.todo = Plan(op.kind, op.args)
    /\ op.stage = "commit" /\ op.acked = {} => op.kind = "reconfigure" /\ op.args = want

\* Acknowledgements come from sockets that were dialled.
OpSockets ==
    /\ op.acked \subseteq 1 .. attempt
    /\ op.sentOn \in 0 .. attempt
    /\ op.stage = "wait" => op.sentOn # 0
    /\ pc \in {"snapshot", "dial"} => attempt \notin op.acked /\ op.sentOn # attempt

SubInd == ConnInd /\ Typed /\ OpShape /\ OpSockets

LEMMA ShortSeq ==
    ASSUME NEW S, NEW x \in S
    PROVE  <<x>> \in Seq(S) /\ Len(<<x>>) = 1 /\ <<x>>[1] = x
  OBVIOUS

LEMMA TailFacts ==
    ASSUME NEW S, NEW s \in Seq(S), s # <<>>
    PROVE  /\ Len(s) \in Nat \ {0} /\ Head(s) \in S /\ Head(s) = s[1]
           /\ Tail(s) \in Seq(S) /\ Len(Tail(s)) = Len(s) - 1
           /\ \A i \in 1 .. Len(s) - 1 : Tail(s)[i] = s[i + 1]
  OBVIOUS

LEMMA EmptyIffNoLen ==
    ASSUME NEW S, NEW s \in Seq(S)
    PROVE  s = <<>> <=> Len(s) = 0
  OBVIOUS

LEMMA Concat ==
    ASSUME NEW S, NEW s \in Seq(S), NEW u \in Seq(S)
    PROVE  /\ s \o u \in Seq(S)
           /\ Len(s \o u) = Len(s) + Len(u)
           /\ \A i \in 1 .. Len(s) + Len(u) :
                  (s \o u)[i] = IF i <= Len(s) THEN s[i] ELSE u[i - Len(s)]
  OBVIOUS

\* The parts of Reconfigure's plan: what is added, and what is dropped in each
\* dimension.
Adds(old, new) == ~(new.types \subseteq old.types /\ new.addrs \subseteq old.addrs)
Adding(old, new) ==
    IF Adds(old, new) THEN <<Frame("subscribe", new.types, new.addrs)>> ELSE <<>>
DroppingAddrs(old, new) ==
    IF old.addrs \ new.addrs # {}
    THEN <<Frame("unsubscribe", {}, old.addrs \ new.addrs)>> ELSE <<>>
DroppingTypes(old, new) ==
    IF old.types \ new.types # {}
    THEN <<Frame("unsubscribe", old.types \ new.types, {})>> ELSE <<>>

LEMMA FrameTyped ==
    ASSUME NEW m \in {"subscribe", "unsubscribe"}, NEW T \in SUBSET Types, NEW A \in SUBSET Addrs
    PROVE  Frame(m, T, A) \in Requested
  BY DEF Frame, Requested

LEMMA ReconfigureParts ==
    ASSUME NEW old \in Subs, NEW new \in Subs
    PROVE  LET a == Adding(old, new)
               b == DroppingAddrs(old, new)
               c == DroppingTypes(old, new)
           IN  /\ ReconfigurePlan(old, new) = (a \o b) \o c
               /\ a \in Seq(Requested) /\ b \in Seq(Requested) /\ c \in Seq(Requested)
               /\ Len(a) = IF Adds(old, new) THEN 1 ELSE 0
               /\ Len(b) = IF old.addrs \ new.addrs # {} THEN 1 ELSE 0
               /\ Len(c) = IF old.types \ new.types # {} THEN 1 ELSE 0
  <1>1. /\ old.types \subseteq Types /\ old.addrs \subseteq Addrs
        /\ new.types \subseteq Types /\ new.addrs \subseteq Addrs
        BY DEF Subs
  <1>2. ReconfigurePlan(old, new)
            = (Adding(old, new) \o DroppingAddrs(old, new)) \o DroppingTypes(old, new)
        BY DEF ReconfigurePlan, Adding, DroppingAddrs, DroppingTypes, Adds
  <1>3. /\ Frame("subscribe", new.types, new.addrs) \in Requested
        /\ Frame("unsubscribe", {}, old.addrs \ new.addrs) \in Requested
        /\ Frame("unsubscribe", old.types \ new.types, {}) \in Requested
    <2>1. /\ {} \in SUBSET Types /\ {} \in SUBSET Addrs
          /\ old.addrs \ new.addrs \in SUBSET Addrs
          /\ old.types \ new.types \in SUBSET Types
          BY <1>1
    <2> QED
        BY <1>1, <2>1, FrameTyped
  <1>4. /\ Adding(old, new) \in Seq(Requested)
        /\ Len(Adding(old, new)) = IF Adds(old, new) THEN 1 ELSE 0
        BY <1>3, ShortSeq DEF Adding
  <1>5. /\ DroppingAddrs(old, new) \in Seq(Requested)
        /\ Len(DroppingAddrs(old, new)) = IF old.addrs \ new.addrs # {} THEN 1 ELSE 0
        BY <1>3, ShortSeq DEF DroppingAddrs
  <1>6. /\ DroppingTypes(old, new) \in Seq(Requested)
        /\ Len(DroppingTypes(old, new)) = IF old.types \ new.types # {} THEN 1 ELSE 0
        BY <1>3, ShortSeq DEF DroppingTypes
  <1> QED
      BY <1>2, <1>4, <1>5, <1>6

LEMMA ConcatThree ==
    ASSUME NEW S, NEW a \in Seq(S), NEW b \in Seq(S), NEW c \in Seq(S)
    PROVE  /\ (a \o b) \o c \in Seq(S)
           /\ Len((a \o b) \o c) = Len(a) + Len(b) + Len(c)
           /\ \A i \in 1 .. Len(a) + Len(b) + Len(c) :
                  ((a \o b) \o c)[i] = IF i <= Len(a) THEN a[i]
                                       ELSE IF i <= Len(a) + Len(b) THEN b[i - Len(a)]
                                       ELSE c[i - Len(a) - Len(b)]
  <1>1. a \o b \in Seq(S) /\ Len(a \o b) = Len(a) + Len(b)
        BY Concat
  <1>2. /\ (a \o b) \o c \in Seq(S)
        /\ Len((a \o b) \o c) = Len(a) + Len(b) + Len(c)
        BY <1>1, Concat
  <1>3. \A i \in 1 .. Len(a) + Len(b) : (a \o b)[i] = IF i <= Len(a) THEN a[i] ELSE b[i - Len(a)]
        BY Concat
  <1>4. \A i \in 1 .. Len(a) + Len(b) + Len(c) :
            ((a \o b) \o c)[i] = IF i <= Len(a) + Len(b) THEN (a \o b)[i]
                                 ELSE c[i - (Len(a) + Len(b))]
        BY <1>1, Concat
  <1>5. Len(a) \in Nat /\ Len(b) \in Nat /\ Len(c) \in Nat
        OBVIOUS
  <1>6. ASSUME NEW i \in 1 .. Len(a) + Len(b) + Len(c)
        PROVE  ((a \o b) \o c)[i] = IF i <= Len(a) THEN a[i]
                                       ELSE IF i <= Len(a) + Len(b) THEN b[i - Len(a)]
                                       ELSE c[i - Len(a) - Len(b)]
    <2>1. CASE i <= Len(a) + Len(b)
          BY <1>3, <1>4, <1>5, <2>1
    <2>2. CASE ~(i <= Len(a) + Len(b))
          BY <1>4, <1>5, <2>2
    <2> QED
        BY <2>1, <2>2
  <1> QED
      BY <1>2, <1>6

\* A plan is at most three requests, and only Reconfigure may have nothing to
\* send, when nothing changes.
LEMMA PlanTyped ==
    ASSUME NEW kind \in {"reconfigure", "add", "remove"}, want \in Subs, NEW s \in Subs
    PROVE  /\ Plan(kind, s) \in Seq(Requested) /\ Len(Plan(kind, s)) <= 3
           /\ Plan(kind, s) = <<>> => kind = "reconfigure" /\ s = want
           /\ kind # "reconfigure" => Len(Plan(kind, s)) = 1
  <1>1. CASE kind = "add" \/ kind = "remove"
    <2>1. Frame("subscribe", s.types, s.addrs) \in Requested
          /\ Frame("unsubscribe", s.types, s.addrs) \in Requested
          BY FrameTyped DEF Subs
    <2> QED
        BY <1>1, <2>1, ShortSeq DEF Plan
  <1>2. CASE kind = "reconfigure"
    <2> DEFINE a == Adding(want, s)
               b == DroppingAddrs(want, s)
               c == DroppingTypes(want, s)
    <2>1. /\ Plan(kind, s) = (a \o b) \o c
          /\ a \in Seq(Requested) /\ b \in Seq(Requested) /\ c \in Seq(Requested)
          /\ Len(a) = IF Adds(want, s) THEN 1 ELSE 0
          /\ Len(b) = IF want.addrs \ s.addrs # {} THEN 1 ELSE 0
          /\ Len(c) = IF want.types \ s.types # {} THEN 1 ELSE 0
          BY <1>2, ReconfigureParts DEF Plan
    <2> HIDE DEF a, b, c
    <2>2. Plan(kind, s) \in Seq(Requested) /\ Len(Plan(kind, s)) = Len(a) + Len(b) + Len(c)
      <3>1. a \o b \in Seq(Requested) /\ Len(a \o b) = Len(a) + Len(b)
            BY <2>1, Concat
      <3>2. (a \o b) \o c \in Seq(Requested) /\ Len((a \o b) \o c) = Len(a \o b) + Len(c)
            BY <2>1, <3>1, Concat
      <3> QED
          BY <2>1, <3>1, <3>2
    <2>3. Plan(kind, s) = <<>> => ~Adds(want, s) /\ want.addrs \ s.addrs = {}
                                  /\ want.types \ s.types = {}
          BY <2>1, <2>2
    <2>4. Plan(kind, s) = <<>> => s.types = want.types /\ s.addrs = want.addrs
          BY <2>3 DEF Adds
    <2> QED
        BY <1>2, <2>1, <2>2, <2>4 DEF Subs
  <1> QED
      BY <1>1, <1>2

-----------------------------------------------------------------------------
(* Every step keeps the types and the shape.                               *)

LEMMA SubInitInd == SubInit => SubInd
  <1> SUFFICES ASSUME SubInit PROVE SubInd
      OBVIOUS
  <1> USE SubscriptionsAssumption DEF SubscriptionsAssumption, SubInit
  <1>1. ConnInd
        BY ConnInitInd
  <1>2. NoOp \in OpTyped /\ Len(NoOp.todo) <= 3
        BY DEF NoOp, OpTyped, OpKinds, OpStages
  <1>3. Typed
        BY <1>2 DEF Typed, NoSub
  <1>4. OpShape /\ OpSockets
        BY DEF OpShape, OpSockets, NoOp, Sending, ConnInit
  <1> QED
      BY <1>1, <1>3, <1>4 DEF SubInd

\* A step of Connection begins at most one attempt, and no step of another
\* goroutine does.
LEMMA AttemptsGrow ==
    ASSUME ConnInd, [ConnNext]_connVars
    PROVE  \/ attempt' = attempt /\ (pc' \in {"snapshot", "dial"} => pc \in {"snapshot", "dial"})
           \/ attempt' = attempt + 1
  <1> USE DEF ConnInd, ConnTypeOK
  <1>1. CASE UNCHANGED connVars
        BY <1>1 DEF connVars
  <1>2. CASE StartStep
        BY <1>2 DEF StartStep, StartCommon, LoopTop, Park, Arm, Snapshot, DialOk,
           DialFail, HandshakeSent, HandshakeFails, MarkConnected, OnConnect,
           OnConnectPanics, StreamDone, StreamCancel, Drain, Down, Uninstall,
           Teardown, Disarm, Backoff, Finish
  <1>3. CASE ConnNext /\ ~StartStep
        BY <1>3 DEF ConnNext, ReadEnd, Lose, PeerCloses, Cancel, BounceNow, Bounce
  <1> QED
      BY <1>1, <1>2, <1>3

\* Steps that leave the operation and the client's set alone.
LEMMA ShapeKept ==
    ASSUME ConnInd, OpShape, OpSockets, [ConnNext]_connVars, UNCHANGED <<op, want>>
    PROVE  OpShape' /\ OpSockets'
  <1>1. OpShape'
        BY DEF OpShape, Sending, Plan, ReconfigurePlan
  <1>2. attempt \in Nat
        BY DEF ConnInd, ConnTypeOK
  <1>3. OpSockets'
        BY <1>2, AttemptsGrow DEF OpSockets
  <1> QED
      BY <1>1, <1>3

\* A plan depends on nothing but the client's set and its arguments.
LEMMA PlanKept == want' = want => \A kind, s : Plan(kind, s)' = Plan(kind, s)
  BY DEF Plan, ReconfigurePlan

\* The operation ends.
LEMMA NoOpShape ==
    ASSUME ConnInd', op' = NoOp
    PROVE  OpShape' /\ OpSockets' /\ (op \in OpTyped)' /\ (Len(op.todo) <= 3)'
  <1>1. NoOp \in OpTyped /\ Len(NoOp.todo) <= 3
        BY SubscriptionsAssumption
        DEF SubscriptionsAssumption, NoOp, OpTyped, OpKinds, OpStages
  <1>2. OpShape'
        BY DEF OpShape, NoOp, Sending
  <1>3. OpSockets'
        BY DEF OpSockets, NoOp, ConnInd, ConnTypeOK, PhaseOK, AttemptAt
  <1> QED
      BY <1>1, <1>2, <1>3

LEMMA TargetTyped == ASSUME Typed, op.kind # "none" PROVE Target \in Subs
  <1>1. CASE op.kind = "reconfigure"
        BY <1>1 DEF Target, Typed, OpTyped
  <1>2. CASE op.kind = "add"
        BY <1>2 DEF Target, Typed, OpTyped, Merge, Subs
  <1>3. CASE op.kind = "remove"
        BY <1>3 DEF Target, Typed, OpTyped, Remove, Subs
  <1> QED
      BY <1>1, <1>2, <1>3 DEF Typed, OpTyped, OpKinds

LEMMA SubStepShape ==
    ASSUME SubInd, SubNext
    PROVE  Typed' /\ OpShape' /\ OpSockets'
  <1> USE DEF SubInd, Sending
  <1>0. ConnInd'
        BY SubStepConn
  <1>1. CASE SubStartStep
    <2>1. [ConnNext]_connVars /\ UNCHANGED <<op, want, ops>>
          BY <1>1 DEF SubStartStep, TakeSnapshot, Dialled, SendHandshake, ConnNext, StartStep,
                      HasTypes, subVars
    <2>2. OpShape' /\ OpSockets'
          BY <2>1, ShapeKept
    <2>3. Typed'
      <3>1. CASE TakeSnapshot
            BY <3>1 DEF TakeSnapshot, Typed
      <3>2. CASE Dialled
        <4>1. NoSub \in [types : SUBSET Types, addrs : SUBSET Addrs, live : BOOLEAN]
              BY DEF NoSub
        <4> QED
            BY <3>2, <4>1 DEF Dialled, Typed
      <3>3. CASE SendHandshake
        <4>1. Handshake \in Sent
              BY SubscriptionsAssumption
              DEF SubscriptionsAssumption, Handshake, Frame, Sent, Typed, Subs
        <4>2. [frame |-> Handshake, id |-> <<0, 0>>] \in Framed
              BY <4>1 DEF Framed
        <4>3. wire' \in Seq(Framed)
              BY <3>3, <4>2 DEF SendHandshake, Typed
        <4> QED
            BY <3>3, <4>3 DEF SendHandshake, Typed
      <3>4. CASE UNCHANGED subVars
            BY <3>4 DEF subVars, Typed
      <3> QED
          BY <1>1, <3>1, <3>2, <3>3, <3>4 DEF SubStartStep
    <2> QED
        BY <2>2, <2>3
  <1>2. CASE SubOther
    <2>1. [ConnNext]_connVars /\ UNCHANGED subVars
          BY <1>2 DEF SubOther, ConnNext
    <2>2. OpShape' /\ OpSockets'
          BY <2>1, ShapeKept DEF subVars
    <2>3. Typed'
          BY <2>1 DEF subVars, Typed
    <2> QED
        BY <2>2, <2>3
  <1>3. ASSUME NEW kind \in Kinds, NEW s \in Args, Begin(kind, s)
        PROVE  Typed' /\ OpShape' /\ OpSockets'
    <2>1. kind \in {"reconfigure", "add", "remove"} /\ s \in Subs /\ want \in Subs
          BY SubscriptionsAssumption DEF SubscriptionsAssumption, Typed
    <2> DEFINE plan == Plan(kind, s)
               first == IF kind = "reconfigure" /\ ~connected THEN "persist"
                        ELSE IF plan = <<>> THEN "commit" ELSE "send"
    <2>2. /\ plan \in Seq(Requested) /\ Len(plan) <= 3
          /\ plan = <<>> => kind = "reconfigure" /\ s = want
          BY <2>1, PlanTyped
    <2>3. op' = [NoOp EXCEPT !.kind = kind, !.args = s, !.stage = first, !.todo = plan]
          BY <1>3 DEF Begin
    <2>4. first \in {"persist", "commit", "send"} /\ first \in OpStages
          BY DEF OpStages
    <2>5. first = "commit" => plan = <<>>
          OBVIOUS
    <2>6. first = "send" => plan # <<>>
          OBVIOUS
    <2>7. plan' = plan /\ want' = want /\ pc' = pc /\ attempt' = attempt
          /\ UNCHANGED <<snap, node, wire, excuse>>
          BY <1>3 DEF Begin, connVars, Plan, ReconfigurePlan
    <2>8. ops' \in 0 .. MaxOps
          BY <1>3, SubscriptionsAssumption DEF Begin, Typed, SubscriptionsAssumption
    <2> HIDE DEF plan, first
    <2>9. op' = [kind |-> kind, args |-> s, stage |-> first, todo |-> plan,
                 sentOn |-> 0, answer |-> "none", acked |-> {}, cap |-> 0]
          BY <2>3 DEF NoOp
    <2>10. op' \in OpTyped
          BY <2>1, <2>2, <2>4, <2>9 DEF OpTyped, OpKinds
    <2>11. Typed'
          BY <2>2, <2>7, <2>8, <2>9, <2>10 DEF Typed
    <2>12. (op.todo)' = Plan(op.kind, op.args)'
          BY <2>7, <2>9 DEF plan
    <2>13. OpShape'
          BY <2>1, <2>2, <2>4, <2>5, <2>6, <2>7, <2>9, <2>12 DEF OpShape
    <2>14. OpSockets'
          BY <2>4, <2>7, <2>9 DEF OpSockets, ConnInd, ConnTypeOK, PhaseOK, AttemptAt
    <2> QED
        BY <2>11, <2>13, <2>14
  <1>4. CASE SendFrame
    <2>1. /\ op' = [op EXCEPT !.stage = "wait", !.sentOn = activeConn, !.answer = "none"]
          /\ op.stage = "send" /\ activeConn # 0
          /\ UNCHANGED <<pc, attempt, want, snap, node, ops, excuse>>
          BY <1>4 DEF SendFrame, connVars
    <2>2. activeConn = attempt /\ attempt \in Nat /\ pc \notin {"snapshot", "dial"}
          BY <2>1 DEF ConnInd, ConnTypeOK, PhaseOK, InstalledAt
    <2>3. /\ op' \in OpTyped
          /\ op'.stage = "wait" /\ op'.sentOn = attempt /\ op'.answer = "none"
          /\ op'.kind = op.kind /\ op'.args = op.args /\ op'.todo = op.todo
          /\ op'.acked = op.acked /\ op'.cap = op.cap
          BY <2>1, <2>2 DEF Typed, OpTyped, OpStages
    <2>4. wire' \in Seq(Framed)
      <3>1. op.todo \in Seq(Requested) /\ op.todo # <<>> /\ Head(op.todo) \in Requested
            /\ Len(op.todo) \in Nat /\ ops \in Nat
            BY <2>1, SubscriptionsAssumption
            DEF Typed, OpTyped, OpShape, SubscriptionsAssumption
      <3>2. [frame |-> Head(op.todo), id |-> <<ops, Len(op.todo)>>] \in Framed
            BY <3>1 DEF Framed, Requested, Sent
      <3> QED
          BY <1>4, <3>2 DEF SendFrame, Typed
    <2>5. Typed'
          BY <2>1, <2>3, <2>4 DEF Typed
    <2>6. Plan(op.kind, op.args)' = Plan(op.kind, op.args)
          BY <2>1, <2>3, PlanKept
    <2>7. OpShape'
          BY <2>1, <2>3, <2>6 DEF OpShape
    <2>8. OpSockets'
          BY <2>1, <2>2, <2>3 DEF OpSockets
    <2> QED
        BY <2>5, <2>7, <2>8
  <1>5. CASE SendNotConnected
    <2> DEFINE next == IF op.kind = "remove" THEN "removeOffline" ELSE "persist"
    <2>1. /\ op' = [op EXCEPT !.stage = next]
          /\ op.stage = "send"
          /\ UNCHANGED <<pc, attempt, want, snap, wire, node, ops, excuse>>
          BY <1>5 DEF SendNotConnected, connVars
    <2>2. next \in {"removeOffline", "persist"} /\ (next = "removeOffline" => op.kind = "remove")
          OBVIOUS
    <2> HIDE DEF next
    <2>3. /\ op' \in OpTyped /\ op'.stage = next
          /\ op'.kind = op.kind /\ op'.args = op.args /\ op'.todo = op.todo
          /\ op'.acked = op.acked /\ op'.sentOn = op.sentOn
          BY <2>1, <2>2 DEF Typed, OpTyped, OpStages
    <2> QED
        BY <2>1, <2>2, <2>3 DEF Typed, OpShape, OpSockets
  <1>6. CASE TakeOk
    <2> DEFINE next == IF Len(op.todo) = 1 THEN "commit" ELSE "send"
    <2>1. /\ op' = [op EXCEPT !.todo = Tail(op.todo), !.acked = op.acked \cup {op.sentOn},
                              !.stage = next]
          /\ op.stage = "wait"
          /\ UNCHANGED <<pc, attempt, want, snap, wire, node, ops, excuse>>
          BY <1>6 DEF TakeOk, connVars
    <2>2. /\ op.todo \in Seq(Requested) /\ op.todo # <<>> /\ Len(op.todo) <= 3
          /\ op.sentOn \in Nat /\ op.acked \in SUBSET Nat
          BY <2>1 DEF Typed, OpTyped, OpShape
    <2>3. /\ Tail(op.todo) \in Seq(Requested)
          /\ Len(Tail(op.todo)) = Len(op.todo) - 1 /\ Len(op.todo) \in Nat \ {0}
          BY <2>2, TailFacts, Zenon
    <2>4. /\ next = "send" => Tail(op.todo) # <<>>
          /\ next \in {"commit", "send"}
      <3>1. Len(Tail(op.todo)) = 0 <=> Tail(op.todo) = <<>>
            BY <2>3, EmptyIffNoLen, Zenon
      <3>2. Len(op.todo) # 1 => Len(Tail(op.todo)) # 0
        <4> DEFINE n == Len(Tail(op.todo))
        <4>1. n = Len(op.todo) - 1
              BY <2>3
        <4> HIDE DEF n
        <4> QED
            BY <2>3, <4>1 DEF n
      <3> QED
          BY <3>1, <3>2, Zenon
    <2> HIDE DEF next
    <2>5. /\ op' \in OpTyped /\ op'.stage = next
          /\ op'.kind = op.kind /\ op'.args = op.args /\ op'.todo = Tail(op.todo)
          /\ op'.acked = op.acked \cup {op.sentOn} /\ op'.sentOn = op.sentOn
          BY <2>1, <2>2, <2>3, <2>4 DEF Typed, OpTyped, OpStages
    <2>6. Typed'
      <3>1. Len(op'.todo) <= 3
            BY <2>2, <2>3, <2>5
      <3> QED
          BY <2>1, <2>5, <3>1 DEF Typed
    <2>7. op.sentOn # 0
          BY <2>1 DEF OpSockets
    <2>8. op.kind \in {"add", "remove"} => next = "commit"
          BY <2>1, PlanTyped DEF OpShape, Typed, OpTyped, next
    <2>9. OpShape'
          BY <2>1, <2>4, <2>5, <2>8 DEF OpShape
    <2>10. OpSockets'
          BY <2>1, <2>2, <2>5, <2>7 DEF OpSockets
    <2> QED
        BY <2>6, <2>9, <2>10
  <1>7. CASE RequestFails
    <2>1. UNCHANGED <<pc, attempt, want, snap, wire, node, ops>>
          BY <1>7 DEF RequestFails, connVars
    <2>2. excuse' \subseteq Excuses
          BY <1>7 DEF RequestFails, Typed, Excuses
    <2>3. CASE op' = NoOp
          BY <2>1, <2>2, <2>3, <1>0, NoOpShape DEF Typed
    <2>4. CASE op' = [op EXCEPT !.stage = "persist"] /\ op.kind = "reconfigure"
      <3>1. /\ op' \in OpTyped /\ op'.stage = "persist"
            /\ op'.kind = op.kind /\ op'.args = op.args /\ op'.todo = op.todo
            /\ op'.acked = op.acked /\ op'.sentOn = op.sentOn
            BY <2>4 DEF Typed, OpTyped, OpStages
      <3> QED
          BY <2>1, <2>2, <2>4, <3>1 DEF Typed, OpShape, OpSockets
    <2> QED
        BY <1>7, <2>3, <2>4 DEF RequestFails
  <1>8. CASE Commit \/ RemoveOffline
    <2>1. UNCHANGED <<pc, attempt, snap, wire, node, ops>> /\ want' = Target /\ op' = NoOp
          BY <1>8 DEF Commit, RemoveOffline, connVars
    <2>2. excuse' \subseteq Excuses
          BY <1>8 DEF Commit, RemoveOffline, Typed, Excuses
    <2>3. want' \in Subs
          BY <1>8, <2>1, TargetTyped DEF Commit, RemoveOffline, OpShape
    <2> QED
        BY <2>1, <2>2, <2>3, <1>0, NoOpShape DEF Typed
  <1>9. CASE Persist
    <2>1. /\ op' = [op EXCEPT !.stage = "bounce", !.cap = Captured]
          /\ op.stage = "persist" /\ want' = Target
          /\ UNCHANGED <<pc, attempt, snap, wire, node, ops, excuse>>
          BY <1>9 DEF Persist, connVars
    <2>2. Captured \in Nat
          BY DEF Captured, ConnInd, ConnTypeOK
    <2>3. /\ op' \in OpTyped /\ op'.stage = "bounce"
          /\ op'.kind = op.kind /\ op'.args = op.args /\ op'.todo = op.todo
          /\ op'.acked = op.acked /\ op'.sentOn = op.sentOn
          BY <2>1, <2>2 DEF Typed, OpTyped, OpStages
    <2>4. want' \in Subs
          BY <2>1, TargetTyped DEF OpShape
    <2> QED
        BY <2>1, <2>3, <2>4 DEF Typed, OpShape, OpSockets
  <1>10. CASE BounceOp
    <2>1. UNCHANGED <<want, snap, wire, node, ops, excuse>> /\ op' = NoOp
          BY <1>10 DEF BounceOp
    <2> QED
        BY <2>1, <1>0, NoOpShape DEF Typed
  <1>11. CASE NodeReadsFirst
    <2>1. UNCHANGED <<pc, attempt, want, snap, op, ops, excuse>>
          BY <1>11 DEF NodeReadsFirst, PeerCloses, connVars
    <2>2. wire # <<>> /\ wire \in Seq(Framed)
          BY <1>11 DEF NodeReadsFirst, Typed
    <2>3. Head(wire) \in Framed /\ Tail(wire) \in Seq(Framed)
          BY <2>2, TailFacts, Zenon
    <2>4. node' \in [types : SUBSET Types, addrs : SUBSET Addrs, live : BOOLEAN]
      <3> DEFINE f == Head(wire).frame
      <3>1. f.types \in SUBSET Types /\ f.addrs \in SUBSET Addrs
            BY <2>3 DEF Framed, Sent
      <3>2. \/ node' = [types |-> f.types, addrs |-> f.addrs, live |-> TRUE]
            \/ node' = node
            BY <1>11 DEF NodeReadsFirst
      <3>3. node \in [types : SUBSET Types, addrs : SUBSET Addrs, live : BOOLEAN]
            BY DEF Typed
      <3> HIDE DEF f
      <3>4. CASE node' = [types |-> f.types, addrs |-> f.addrs, live |-> TRUE]
            BY ONLY <3>1, <3>4
      <3>5. CASE node' = node
            BY <3>3, <3>5
      <3> QED
          BY <3>2, <3>4, <3>5
    <2>5. wire' \in Seq(Framed)
          BY <1>11, <2>2, <2>3 DEF NodeReadsFirst
    <2>6. Typed'
          BY <2>1, <2>4, <2>5 DEF Typed
    <2>7. OpShape'
          BY <2>1, PlanKept DEF OpShape
    <2>8. OpSockets'
          BY <2>1 DEF OpSockets
    <2> QED
        BY <2>6, <2>7, <2>8
  <1>12. CASE NodeAccepts \/ NodeRefuses
    <2>1. UNCHANGED <<pc, attempt, want, snap, ops>>
          BY <1>12 DEF NodeAccepts, NodeRefuses, connVars
    <2>2. wire # <<>> /\ wire \in Seq(Framed) /\ wire' = Tail(wire)
          BY <1>12 DEF NodeAccepts, NodeRefuses, Typed
    <2>3. Head(wire) \in Framed /\ wire' \in Seq(Framed)
          BY <2>2, TailFacts, Zenon
    <2>4. node' \in [types : SUBSET Types, addrs : SUBSET Addrs, live : BOOLEAN]
      <3> DEFINE f == Head(wire).frame
      <3>1. f.types \in SUBSET Types /\ f.addrs \in SUBSET Addrs
            BY <2>3 DEF Framed, Sent
      <3>2. \/ node' = [node EXCEPT !.types = @ \cup f.types, !.addrs = @ \cup f.addrs]
            \/ node' = [node EXCEPT !.types = @ \ f.types, !.addrs = @ \ f.addrs]
            \/ node' = [node EXCEPT !.types = @ \ f.types]
            \/ node' = node
            BY <1>12 DEF NodeAccepts, NodeRefuses
      <3> HIDE DEF f
      <3> QED
          BY <3>1, <3>2 DEF Typed
    <2>5. excuse' \subseteq Excuses
          BY <1>12 DEF NodeAccepts, NodeRefuses, Typed, Excuses
    <2>6. \/ op' = op
          \/ \E v \in {"ok", "error"} : op' = [op EXCEPT !.answer = v]
          BY <1>12 DEF NodeAccepts, NodeRefuses, Answers
    <2>7. /\ op' \in OpTyped /\ op'.stage = op.stage
          /\ op'.kind = op.kind /\ op'.args = op.args /\ op'.todo = op.todo
          /\ op'.acked = op.acked /\ op'.sentOn = op.sentOn
          /\ op.kind = "none" => op' = op
      <3>1. CASE op' = op
            BY <3>1 DEF Typed
      <3>2. ASSUME NEW v \in {"ok", "error"}, op' = [op EXCEPT !.answer = v],
                   op.stage = "wait"
            PROVE  /\ op' \in OpTyped /\ op'.stage = op.stage
                   /\ op'.kind = op.kind /\ op'.args = op.args /\ op'.todo = op.todo
                   /\ op'.acked = op.acked /\ op'.sentOn = op.sentOn
                   /\ op.kind = "none" => op' = op
            BY <3>2 DEF Typed, OpTyped, OpShape, NoOp
      <3>3. op' = op \/ op.stage = "wait"
            BY <1>12 DEF NodeAccepts, NodeRefuses, Answers
      <3> QED
          BY <2>6, <3>1, <3>2, <3>3
    <2>8. Typed'
          BY <2>1, <2>3, <2>4, <2>5, <2>7 DEF Typed
    <2>9. OpShape'
          BY <2>1, <2>7, PlanKept DEF OpShape
    <2>10. OpSockets'
          BY <2>1, <2>7 DEF OpSockets
    <2> QED
        BY <2>8, <2>9, <2>10
  <1> QED
      BY <1>1, <1>2, <1>3, <1>4, <1>5, <1>6, <1>7, <1>8, <1>9, <1>10, <1>11, <1>12
      DEF SubNext, OpStep, NodeStep

LEMMA SubStepInd == SubInd /\ [SubNext]_vars => SubInd'
  <1> SUFFICES ASSUME SubInd, [SubNext]_vars PROVE SubInd'
      OBVIOUS
  <1>1. ConnInd'
        BY SubStepConn DEF SubInd
  <1>2. CASE SubNext
        BY <1>1, <1>2, SubStepShape DEF SubInd
  <1>3. CASE UNCHANGED vars
    <2>1. Typed'
          BY <1>3 DEF vars, subVars, SubInd, Typed
    <2>2. OpShape' /\ OpSockets'
          BY <1>3, ShapeKept DEF vars, subVars, SubInd
    <2> QED
        BY <1>1, <2>1, <2>2 DEF SubInd
  <1> QED
      BY <1>2, <1>3

LEMMA SubInvariant == SubSafety => []SubInd
  BY SubInitInd, SubStepInd, PTL DEF SubSafety

\* The sets and the operation keep their types, and an operation never has
\* more than the three frames of Reconfigure to send.
THEOREM SubTypeCorrect == SubSafety => []SubTypeOK
  <1>1. SubInd => SubTypeOK
    <2> SUFFICES ASSUME SubInd PROVE SubTypeOK
        OBVIOUS
    <2>1. op.stage \in {"send", "wait"} => Len(op.todo) \in 1 .. 3
      <3> SUFFICES ASSUME Sending PROVE Len(op.todo) \in 1 .. 3
          BY DEF Sending
      <3>1. op.todo \in Seq(Requested) /\ op.todo # <<>>
            BY DEF SubInd, Typed, OpTyped, OpShape
      <3>2. Len(op.todo) \in Nat \ {0}
            BY <3>1, TailFacts, Zenon
      <3>3. Len(op.todo) <= 3
            BY DEF SubInd, Typed
      <3>4. \A n \in Nat \ {0} : n <= 3 => n \in 1 .. 3
            OBVIOUS
      <3> QED
          BY <3>2, <3>3, <3>4, Zenon
    <2> QED
        BY <2>1 DEF SubInd, Typed, OpTyped, SubTypeOK, ConnInd
  <1> QED
      BY <1>1, SubInvariant, PTL

-----------------------------------------------------------------------------
(* A parked Start.                                                         *)

\* The token of an operation comes last: until then it may have given Start
\* something to subscribe to.
WakeInd ==
    pc = "park" /\ HasTypes /\ op.stage # "bounce" => kick \/ "staleAck" \in excuse

LEMMA WakeStep == ASSUME SubInd, WakeInd, [SubNext]_vars PROVE WakeInd'
  <1>1. CASE SubStartStep
    <2>1. UNCHANGED want
          BY <1>1 DEF SubStartStep, TakeSnapshot, Dialled, SendHandshake, subVars
    <2>2. pc' = "park" => pc = "top" /\ ~HasTypes
          BY <1>1 DEF SubStartStep, TakeSnapshot, Dialled, SendHandshake, StartCommon,
             LoopTop, Park, Arm, Snapshot, DialOk, DialFail, HandshakeSent, HandshakeFails,
             MarkConnected, OnConnect, OnConnectPanics, StreamDone, StreamCancel, Drain,
             Down, Uninstall, Teardown, Disarm, Backoff, Finish
    <2> QED
        BY <2>1, <2>2 DEF WakeInd, HasTypes
  <1>2. CASE SubOther
        BY <1>2 DEF SubOther, Lose, PeerCloses, Cancel, ReadEnd, subVars, WakeInd, HasTypes
  <1>3. ASSUME NEW kind \in Kinds, NEW s \in Args, Begin(kind, s) PROVE WakeInd'
    <2>1. op.stage # "bounce" /\ UNCHANGED <<pc, kick, want, excuse>>
          BY <1>3 DEF Begin, SubInd, OpShape, connVars
    <2> QED
        BY <2>1 DEF WakeInd, HasTypes
  <1>4. CASE SendFrame \/ SendNotConnected \/ TakeOk \/ RequestFails
    <2>1. op.stage # "bounce" /\ UNCHANGED <<pc, kick, want>> /\ excuse \subseteq excuse'
          BY <1>4 DEF SendFrame, SendNotConnected, TakeOk, RequestFails, connVars
    <2> QED
        BY <2>1 DEF WakeInd, HasTypes
  <1>5. CASE Commit
    <2>1. op.stage # "bounce" /\ UNCHANGED <<pc, kick>> /\ excuse \subseteq excuse'
          BY <1>5 DEF Commit, connVars
    <2>2. CASE op.acked = {}
      <3>1. want' = want
            BY <1>5, <2>2 DEF Commit, SubInd, OpShape, Target
      <3> QED
          BY <2>1, <3>1 DEF WakeInd, HasTypes
    <2>3. CASE op.acked # {}
          BY <1>5, <2>1, <2>3 DEF Commit, StaleAck, WakeInd
    <2> QED
        BY <2>2, <2>3
  <1>6. CASE RemoveOffline
    <2>1. op.stage # "bounce" /\ UNCHANGED <<pc, kick>> /\ excuse \subseteq excuse'
          BY <1>6 DEF RemoveOffline, connVars
    <2>2. want' = Remove(want, op.args)
          BY <1>6 DEF RemoveOffline, SubInd, OpShape, Target
    <2>3. HasTypes' => HasTypes
          BY <2>2 DEF HasTypes, Remove
    <2> QED
        BY <2>1, <2>3 DEF WakeInd
  <1>7. CASE Persist
        BY <1>7 DEF Persist, WakeInd, SubInd, Typed, OpTyped
  <1>8. CASE BounceOp
        BY <1>8 DEF BounceOp, Bounce, WakeInd
  <1>9. CASE NodeStep
    <2>1. UNCHANGED <<pc, kick, want>> /\ excuse \subseteq excuse'
          BY <1>9 DEF NodeStep, NodeReadsFirst, NodeAccepts, NodeRefuses, PeerCloses, connVars
    <2>2. op'.stage = op.stage
          BY <1>9 DEF NodeStep, NodeReadsFirst, NodeAccepts, NodeRefuses, Answers,
                      SubInd, Typed, OpTyped
    <2> QED
        BY <2>1, <2>2 DEF WakeInd, HasTypes
  <1>10. CASE UNCHANGED vars
        BY <1>10 DEF vars, connVars, subVars, WakeInd, HasTypes
  <1> QED
      BY <1>1, <1>2, <1>3, <1>4, <1>5, <1>6, <1>7, <1>8, <1>9, <1>10 DEF SubNext, OpStep

\* Start is never left parked, with no token, while there is something to
\* subscribe to, but for a stale acknowledgement.
THEOREM NoWakeupIsLost == SubSafety => []NoLostWakeup
  <1>1. SubInit => WakeInd
        BY DEF SubInit, ConnInit, WakeInd
  <1>2. SubInd /\ WakeInd => NoLostWakeup
        BY DEF SubInd, OpShape, WakeInd, NoLostWakeup
  <1> QED
      BY <1>1, <1>2, SubInvariant, WakeStep, PTL DEF SubSafety

-----------------------------------------------------------------------------
(* What a plan does to the node's set.                                     *)

Sets == [types : SUBSET Types, addrs : SUBSET Addrs]

Apply(b, f) ==
    IF f.method = "subscribe"
    THEN [types |-> b.types \cup f.types, addrs |-> b.addrs \cup f.addrs]
    ELSE [types |-> b.types \ f.types, addrs |-> b.addrs \ f.addrs]

ApplyNth(b, s, i) == IF i <= Len(s) THEN Apply(b, s[i]) ELSE b
ApplyAll(b, s) == ApplyNth(ApplyNth(ApplyNth(b, s, 1), s, 2), s, 3)

\* b is the set x, with at most the placeholder of the handshake besides.
Extra == IF snap.types = {} THEN {Placeholder} ELSE {}
Like(b, x) ==
    b.addrs = x.addrs /\ x.types \subseteq b.types /\ b.types \subseteq x.types \cup Extra

LEMMA ApplyByLength ==
    ASSUME NEW b, NEW s
    PROVE  /\ Len(s) = 0 => ApplyAll(b, s) = b
           /\ Len(s) = 1 => ApplyAll(b, s) = Apply(b, s[1])
           /\ Len(s) = 2 => ApplyAll(b, s) = Apply(Apply(b, s[1]), s[2])
           /\ Len(s) = 3 => ApplyAll(b, s) = Apply(Apply(Apply(b, s[1]), s[2]), s[3])
  <1>1. ASSUME Len(s) = 0 PROVE ApplyAll(b, s) = b
        BY <1>1 DEF ApplyAll, ApplyNth
  <1>2. ASSUME Len(s) = 1 PROVE ApplyAll(b, s) = Apply(b, s[1])
        BY <1>2 DEF ApplyAll, ApplyNth
  <1>3. ASSUME Len(s) = 2 PROVE ApplyAll(b, s) = Apply(Apply(b, s[1]), s[2])
        BY <1>3 DEF ApplyAll, ApplyNth
  <1>4. ASSUME Len(s) = 3 PROVE ApplyAll(b, s) = Apply(Apply(Apply(b, s[1]), s[2]), s[3])
        BY <1>4 DEF ApplyAll, ApplyNth
  <1> QED
      BY <1>1, <1>2, <1>3, <1>4

LEMMA ApplyHead ==
    ASSUME NEW b, NEW s \in Seq(Requested), s # <<>>, Len(s) <= 3
    PROVE  ApplyAll(b, s) = ApplyAll(Apply(b, Head(s)), Tail(s))
  <1>1. SUFFICES ASSUME NEW n, n = Len(s), NEW u, u = Tail(s), NEW f, f = Head(s)
                 PROVE  ApplyAll(b, s) = ApplyAll(Apply(b, f), u)
        OBVIOUS
  <1>2. /\ n \in Nat \ {0} /\ n <= 3 /\ f = s[1] /\ Len(u) = n - 1
        /\ \A i \in 1 .. n - 1 : u[i] = s[i + 1]
        BY <1>1, TailFacts, Zenon
  <1> DEFINE x == Apply(b, f)
  <1>3. CASE n = 1
    <2>1. Len(s) = 1 /\ Len(u) = 0 /\ s[1] = f
          BY <1>1, <1>2, <1>3
    <2> QED
        BY <2>1, ApplyByLength
  <1>4. CASE n = 2
    <2>0. Len(u) = 1 /\ s[1] = f /\ u[1] = s[2]
          BY <1>2, <1>4
    <2>1. Len(s) = 2 /\ Len(u) = 1 /\ s[1] = f /\ u[1] = s[2]
          BY <1>1, <1>4, <2>0
    <2>2. ApplyAll(b, s) = Apply(Apply(b, s[1]), s[2]) /\ ApplyAll(x, u) = Apply(x, u[1])
          BY <2>1, ApplyByLength
    <2> QED
        BY <2>1, <2>2
  <1>5. CASE n = 3
    <2>0. Len(u) = 2 /\ s[1] = f /\ u[1] = s[2] /\ u[2] = s[3]
          BY <1>2, <1>5
    <2>1. Len(s) = 3 /\ Len(u) = 2 /\ s[1] = f /\ u[1] = s[2] /\ u[2] = s[3]
          BY <1>1, <1>5, <2>0
    <2>2. /\ ApplyAll(b, s) = Apply(Apply(Apply(b, s[1]), s[2]), s[3])
          /\ ApplyAll(x, u) = Apply(Apply(x, u[1]), u[2])
          BY <2>1, ApplyByLength
    <2> QED
        BY <2>1, <2>2
  <1> QED
      BY <1>2, <1>3, <1>4, <1>5

LEMMA ApplyOptional ==
    ASSUME NEW x, NEW q
    PROVE  /\ Len(q) = 0 => ApplyNth(x, q, 1) = x
           /\ \A f : Len(q) = 1 /\ q[1] = f => ApplyNth(x, q, 1) = Apply(x, f)
  BY DEF ApplyNth

LEMMA ApplyFrame ==
    ASSUME NEW x, NEW T, NEW A
    PROVE  /\ Apply(x, Frame("subscribe", T, A)).types = x.types \cup T
           /\ Apply(x, Frame("subscribe", T, A)).addrs = x.addrs \cup A
           /\ Apply(x, Frame("unsubscribe", T, A)).types = x.types \ T
           /\ Apply(x, Frame("unsubscribe", T, A)).addrs = x.addrs \ A
  BY DEF Apply, Frame

LEMMA ApplyDrop ==
    ASSUME NEW x, NEW D
    PROVE  /\ Apply(x, Frame("unsubscribe", {}, D)).types = x.types
           /\ Apply(x, Frame("unsubscribe", {}, D)).addrs = x.addrs \ D
           /\ Apply(x, Frame("unsubscribe", D, {})).types = x.types \ D
           /\ Apply(x, Frame("unsubscribe", D, {})).addrs = x.addrs
  <1>1. \A T : T \ {} = T
        OBVIOUS
  <1> QED
      BY <1>1 DEF Apply, Frame

\* A plan in three optional parts.
Joined(s, p, q, r) ==
    /\ Len(s) = Len(p) + Len(q) + Len(r)
    /\ \A i \in 1 .. Len(p) + Len(q) + Len(r) :
           s[i] = IF i <= Len(p) THEN p[i]
                  ELSE IF i <= Len(p) + Len(q) THEN q[i - Len(p)]
                  ELSE r[i - Len(p) - Len(q)]

LEMMA ApplyThree ==
    ASSUME NEW b, NEW s, NEW p, NEW q, NEW r, Joined(s, p, q, r),
           Len(p) \in {0, 1}, Len(q) \in {0, 1}, Len(r) \in {0, 1}
    PROVE  ApplyAll(b, s) = ApplyNth(ApplyNth(ApplyNth(b, p, 1), q, 1), r, 1)
  <1> DEFINE lp == Len(p)
             lq == Len(q)
             lr == Len(r)
  <1>1. lp \in {0, 1} /\ lq \in {0, 1} /\ lr \in {0, 1}
        OBVIOUS
  <1>2. /\ Len(s) = lp + lq + lr
        /\ \A i \in 1 .. lp + lq + lr :
               s[i] = IF i <= lp THEN p[i] ELSE IF i <= lp + lq THEN q[i - lp] ELSE r[i - lp - lq]
        BY DEF Joined
  <1>3. \A x : /\ ApplyNth(x, p, 1) = IF lp = 1 THEN Apply(x, p[1]) ELSE x
               /\ ApplyNth(x, q, 1) = IF lq = 1 THEN Apply(x, q[1]) ELSE x
               /\ ApplyNth(x, r, 1) = IF lr = 1 THEN Apply(x, r[1]) ELSE x
        BY DEF ApplyNth
  <1> HIDE DEF lp, lq, lr
  <1>4. CASE lp = 0 /\ lq = 0 /\ lr = 0
    <2>1. Len(s) = 0
          BY <1>2, <1>4
    <2> QED
        BY <1>3, <1>4, <2>1, ApplyByLength
  <1>5. CASE lp = 0 /\ lq = 0 /\ lr = 1
    <2>1. Len(s) = 1 /\ s[1] = r[1]
          BY <1>2, <1>5
    <2> QED
        BY <1>3, <1>5, <2>1, ApplyByLength
  <1>6. CASE lp = 0 /\ lq = 1 /\ lr = 0
    <2>1. Len(s) = 1 /\ s[1] = q[1]
          BY <1>2, <1>6
    <2> QED
        BY <1>3, <1>6, <2>1, ApplyByLength
  <1>7. CASE lp = 0 /\ lq = 1 /\ lr = 1
    <2>1. Len(s) = 2 /\ s[1] = q[1] /\ s[2] = r[1]
          BY <1>2, <1>7
    <2> QED
        BY <1>3, <1>7, <2>1, ApplyByLength
  <1>8. CASE lp = 1 /\ lq = 0 /\ lr = 0
    <2>1. Len(s) = 1 /\ s[1] = p[1]
          BY <1>2, <1>8
    <2> QED
        BY <1>3, <1>8, <2>1, ApplyByLength
  <1>9. CASE lp = 1 /\ lq = 0 /\ lr = 1
    <2>1. Len(s) = 2 /\ s[1] = p[1] /\ s[2] = r[1]
          BY <1>2, <1>9
    <2> QED
        BY <1>3, <1>9, <2>1, ApplyByLength
  <1>10. CASE lp = 1 /\ lq = 1 /\ lr = 0
    <2>1. Len(s) = 2 /\ s[1] = p[1] /\ s[2] = q[1]
          BY <1>2, <1>10
    <2> QED
        BY <1>3, <1>10, <2>1, ApplyByLength
  <1>11. CASE lp = 1 /\ lq = 1 /\ lr = 1
    <2>1. Len(s) = 3 /\ s[1] = p[1] /\ s[2] = q[1] /\ s[3] = r[1]
          BY <1>2, <1>11
    <2> QED
        BY <1>3, <1>11, <2>1, ApplyByLength
  <1> QED
      BY <1>1, <1>4, <1>5, <1>6, <1>7, <1>8, <1>9, <1>10, <1>11

LEMMA ApplyParts ==
    ASSUME NEW b, NEW S, NEW p \in Seq(S), NEW q \in Seq(S), NEW r \in Seq(S),
           Len(p) \in {0, 1}, Len(q) \in {0, 1}, Len(r) \in {0, 1}
    PROVE  ApplyAll(b, (p \o q) \o r) = ApplyNth(ApplyNth(ApplyNth(b, p, 1), q, 1), r, 1)
  <1>1. Joined((p \o q) \o r, p, q, r)
        BY ConcatThree DEF Joined
  <1> QED
      BY <1>1, ApplyThree

\* Carried out in full, the plan of an operation takes a node that has the
\* client's set to the set the operation leaves.
THEOREM PlanReachesTarget ==
    ASSUME Typed, op.kind # "none", NEW b \in Sets, Like(b, want)
    PROVE  Like(ApplyAll(b, Plan(op.kind, op.args)), Target)
  <1> DEFINE s == op.args
  <1>1. /\ s \in Subs /\ want \in Subs
        /\ op.kind \in {"reconfigure", "add", "remove"}
        BY DEF Typed, OpTyped, OpKinds
  <1>2. CASE op.kind = "add"
    <2>1. Plan(op.kind, s) = <<Frame("subscribe", s.types, s.addrs)>>
          BY <1>2 DEF Plan
    <2>2. ApplyAll(b, Plan(op.kind, s)) = Apply(b, Frame("subscribe", s.types, s.addrs))
          BY <2>1 DEF ApplyAll, ApplyNth
    <2>3. Target = Merge(want, s)
          BY <1>2 DEF Target
    <2> QED
        BY <2>2, <2>3 DEF Apply, Frame, Like, Merge
  <1>3. CASE op.kind = "remove"
    <2>1. Plan(op.kind, s) = <<Frame("unsubscribe", s.types, s.addrs)>>
          BY <1>3 DEF Plan
    <2>2. ApplyAll(b, Plan(op.kind, s)) = Apply(b, Frame("unsubscribe", s.types, s.addrs))
          BY <2>1 DEF ApplyAll, ApplyNth
    <2>3. Target = Remove(want, s)
          BY <1>3 DEF Target
    <2> QED
        BY <2>2, <2>3 DEF Apply, Frame, Like, Remove
  <1>4. CASE op.kind = "reconfigure"
    <2> DEFINE p == Adding(want, s)
               q == DroppingAddrs(want, s)
               r == DroppingTypes(want, s)
               b1 == ApplyNth(b, p, 1)
               b2 == ApplyNth(b1, q, 1)
               b3 == ApplyNth(b2, r, 1)
    <2>1. /\ Plan(op.kind, s) = (p \o q) \o r
          /\ p \in Seq(Requested) /\ q \in Seq(Requested) /\ r \in Seq(Requested)
          /\ Len(p) = IF Adds(want, s) THEN 1 ELSE 0
          /\ Len(q) = IF want.addrs \ s.addrs # {} THEN 1 ELSE 0
          /\ Len(r) = IF want.types \ s.types # {} THEN 1 ELSE 0
          BY <1>1, <1>4, ReconfigureParts DEF Plan
    <2>0. /\ Adds(want, s) => p[1] = Frame("subscribe", s.types, s.addrs)
          /\ want.addrs \ s.addrs # {} => q[1] = Frame("unsubscribe", {}, want.addrs \ s.addrs)
          /\ want.types \ s.types # {} => r[1] = Frame("unsubscribe", want.types \ s.types, {})
          BY DEF Adding, DroppingAddrs, DroppingTypes
    <2> HIDE DEF p, q, r
    <2>5. ApplyAll(b, Plan(op.kind, s)) = b3
      <3> HIDE DEF p, q, r
      <3> QED
          BY <2>1, ApplyParts
    <2>6. Target = s
          BY <1>4 DEF Target
    <2>7. /\ b1.types = IF Adds(want, s) THEN b.types \cup s.types ELSE b.types
          /\ b1.addrs = IF Adds(want, s) THEN b.addrs \cup s.addrs ELSE b.addrs
      <3>1. CASE Adds(want, s)
        <4>1. b1 = Apply(b, Frame("subscribe", s.types, s.addrs))
              BY <2>0, <2>1, <3>1, ApplyOptional
        <4> HIDE DEF b1
        <4> QED
            BY <3>1, <4>1, ApplyFrame
      <3>2. CASE ~Adds(want, s)
        <4>1. b1 = b
              BY <2>1, <3>2, ApplyOptional
        <4> HIDE DEF b1
        <4> QED
            BY <3>2, <4>1
      <3> QED
          BY <3>1, <3>2
    <2> HIDE DEF b1
    <2>8. b2.types = b1.types /\ b2.addrs = b1.addrs \ (want.addrs \ s.addrs)
      <3>1. CASE want.addrs \ s.addrs # {}
        <4>1. b2 = Apply(b1, Frame("unsubscribe", {}, want.addrs \ s.addrs))
              BY <2>0, <2>1, <3>1, ApplyOptional
        <4> HIDE DEF b2
        <4> QED
            BY <4>1, ApplyDrop
      <3>2. CASE want.addrs \ s.addrs = {}
        <4>1. b2 = b1
              BY <2>1, <3>2, ApplyOptional
        <4> HIDE DEF b2
        <4> QED
            BY <3>2, <4>1
      <3> QED
          BY <3>1, <3>2
    <2> HIDE DEF b2
    <2>9. b3.addrs = b2.addrs /\ b3.types = b2.types \ (want.types \ s.types)
      <3>1. CASE want.types \ s.types # {}
        <4>1. b3 = Apply(b2, Frame("unsubscribe", want.types \ s.types, {}))
              BY <2>0, <2>1, <3>1, ApplyOptional
        <4> HIDE DEF b3
        <4> QED
            BY <4>1, ApplyDrop
      <3>2. CASE want.types \ s.types = {}
        <4>1. b3 = b2
              BY <2>1, <3>2, ApplyOptional
        <4> HIDE DEF b3
        <4> QED
            BY <3>2, <4>1
      <3> QED
          BY <3>1, <3>2
    <2> HIDE DEF b3
    <2>10. Like(b3, s)
          BY <2>7, <2>8, <2>9 DEF Like, Adds
    <2> QED
        BY <2>5, <2>6, <2>10
  <1> QED
      BY <1>1, <1>2, <1>3, <1>4

-----------------------------------------------------------------------------
(* Agreement.  As long as nothing has doomed the connection of the current  *)
(* attempt, the wire holds the handshake and the request that waits for its *)
(* answer, if the node has not read them; what the node has, or will have   *)
(* from the handshake, is what the client wants until the operation has     *)
(* changed something, and becomes what the operation will commit once the   *)
(* rest of the plan is carried out.                                         *)

Active == Sending \/ op.stage = "commit"

\* The connection will be replaced, or does not count for Agreement.
Doomed ==
    \/ ConnCtxDone
    \/ excuse # {}
    \/ op.stage \in {"persist", "removeOffline"}
    \/ op.stage = "bounce" /\ op.cap = attempt
    \/ Active /\ op.acked \ {attempt} # {}

Waiting == op.stage = "wait" /\ op.sentOn = attempt /\ op.answer = "none"
Refused == op.stage = "wait" /\ op.answer = "error"

\* The node has carried out a request of the operation on this connection.
Applied ==
    \/ op.stage = "wait" /\ op.sentOn = attempt /\ op.answer = "ok"
    \/ Active /\ attempt \in op.acked

Base == IF node.live THEN [types |-> node.types, addrs |-> node.addrs]
        ELSE [types |-> Handshake.types, addrs |-> Handshake.addrs]

Pending == IF op.stage = "wait" /\ op.answer = "ok" THEN Tail(op.todo)
           ELSE IF Sending THEN op.todo ELSE <<>>

Current == Like(Base, want)
Aimed == Like(ApplyAll(Base, Pending), Target)
ValuesOK == (~Applied => Current) /\ (Applied /\ ~Refused => Aimed)

Hello == [frame |-> Handshake, id |-> <<0, 0>>]
Request == [frame |-> Head(op.todo), id |-> <<ops, Len(op.todo)>>]
Unread == IF node.live THEN <<>> ELSE <<Hello>>
Expected == wire = IF Waiting THEN Append(Unread, Request) ELSE Unread

\* A request overtook the handshake: the node will close the socket.
Misfit == ~node.live /\ wire # <<>> /\ Head(wire).frame.method # "handshake"

AckLive == Applied => node.live
DialInd == pc = "dial" /\ ~Doomed => snap = want
HandshakeInd ==
    pc = "handshake" /\ ~lost /\ ~Doomed =>
        /\ snap = want
        /\ ~node.live
        /\ IF wire = <<>> THEN ~Waiting ELSE Misfit
StreamInd ==
    pc \in {"up", "callback", "stream"} /\ ~lost /\ ~Doomed =>
        Misfit \/ (Expected /\ ValuesOK)
AgreeInd == AckLive /\ DialInd /\ HandshakeInd /\ StreamInd

LEMMA AgreeIndGives == SubInd /\ AgreeInd => Agreement
  <1> SUFFICES ASSUME SubInd, AgreeInd, Quiet, excuse = {} PROVE Agree
      BY DEF Agreement
  <1>1. op = NoOp /\ op.stage = "idle"
        BY DEF Quiet, SubInd, OpShape
  <1>2. ~Doomed /\ ~Waiting /\ ~Applied /\ ~Misfit
        BY <1>1 DEF Doomed, Waiting, Applied, Misfit, Active, Sending, Quiet
  <1>3. Expected /\ Current
        BY <1>2 DEF AgreeInd, StreamInd, Quiet, ValuesOK
  <1>4. node.live
        BY <1>2, <1>3 DEF Expected, Unread, Quiet
  <1> QED
      BY <1>3, <1>4 DEF Current, Like, Base, Agree, Extra

LEMMA AgreeInit == SubInit => AgreeInd
  BY DEF SubInit, ConnInit, AgreeInd, AckLive, DialInd, HandshakeInd, StreamInd, Applied,
         Active, Sending, NoOp

\* What a step does not touch.
LEMMA CurrentKept == ASSUME UNCHANGED <<want, snap, node>> PROVE Current' <=> Current
  BY DEF Current, Like, Base, Handshake, Frame, Extra

LEMMA AimedKept ==
    ASSUME UNCHANGED <<want, snap, node>>, op'.kind = op.kind, op'.args = op.args,
           Pending' = Pending
    PROVE  Aimed' <=> Aimed
  <1>1. Base' = Base /\ Extra' = Extra
        BY DEF Base, Handshake, Frame, Extra
  <1>2. Target' = Target
        BY DEF Target, Merge, Remove
  <1>3. ApplyAll(Base, Pending)' = ApplyAll(Base, Pending)
        BY <1>1 DEF ApplyAll, ApplyNth, Apply
  <1> QED
      BY <1>1, <1>2, <1>3 DEF Aimed, Like

LEMMA WireKept ==
    ASSUME UNCHANGED <<snap, wire, node, ops>>, op'.todo = op.todo \/ ~Waiting, Waiting' <=> Waiting
    PROVE  (Misfit' <=> Misfit) /\ (Expected' <=> Expected)
  BY DEF Misfit, Expected, Unread, Hello, Request, Handshake, Frame

\* Steps of the connection that none of this is conjoined with.
LEMMA AgreeConnStep ==
    ASSUME SubInd, AgreeInd, ConnNext, UNCHANGED subVars,
           pc' = pc \/ pc' \notin {"dial", "handshake", "up", "callback", "stream"}
                \/ (pc \in {"up", "callback"} /\ pc' \in {"callback", "stream"}),
           \/ attempt' = attempt /\ (ConnCtxDone => ConnCtxDone') /\ (lost => lost')
           \/ attempt' = attempt + 1 /\ pc' = "snapshot"
    PROVE  AgreeInd'
  <1> USE DEF subVars
  <1>1. CASE attempt' = attempt + 1 /\ pc' = "snapshot"
    <2>1. attempt + 1 \notin op.acked /\ op.sentOn # attempt + 1
          BY DEF SubInd, OpSockets, ConnInd, ConnTypeOK
    <2>2. ~Applied'
          BY <1>1, <2>1 DEF Applied
    <2> QED
        BY <1>1, <2>2 DEF AgreeInd, AckLive, DialInd, HandshakeInd, StreamInd
  <1>2. CASE attempt' = attempt /\ (ConnCtxDone => ConnCtxDone') /\ (lost => lost')
    <2>1. Doomed => Doomed'
          BY <1>2 DEF Doomed, Active, Sending
    <2>2. (Waiting' <=> Waiting) /\ (Applied' <=> Applied) /\ (Refused' <=> Refused)
          BY <1>2 DEF Waiting, Applied, Refused, Active, Sending
    <2>3. (Misfit' <=> Misfit) /\ (Expected' <=> Expected)
          BY <2>2, WireKept
    <2>4. Pending' = Pending
          BY DEF Pending, Sending
    <2>5. ValuesOK' <=> ValuesOK
          BY <2>2, <2>4, CurrentKept, AimedKept DEF ValuesOK
    <2> QED
        BY <1>2, <2>1, <2>2, <2>3, <2>5 DEF AgreeInd, AckLive, DialInd, HandshakeInd, StreamInd
  <1> QED
      BY <1>1, <1>2

LEMMA AgreeElsewhere ==
    ASSUME AckLive', Doomed' \/ pc' \notin {"dial", "handshake", "up", "callback", "stream"}
    PROVE  AgreeInd'
  BY DEF AgreeInd, DialInd, HandshakeInd, StreamInd

LEMMA HeadKept ==
    ASSUME NEW S, NEW s \in Seq(S), s # <<>>, NEW x \in S
    PROVE  Append(s, x) # <<>> /\ Head(Append(s, x)) = Head(s)
  OBVIOUS

\* Dialling, and the handshake.
LEMMA AgreeStart == ASSUME SubInd, AgreeInd, SubStartStep PROVE AgreeInd'
  <1>1. ASSUME StartCommon \/ LoopTop(HasTypes) \/ Teardown, UNCHANGED subVars PROVE AgreeInd'
    <2>1. ConnNext
          BY <1>1 DEF ConnNext, StartStep, HasTypes
    <2>2. /\ \/ pc' = pc
             \/ pc' \notin {"dial", "handshake", "up", "callback", "stream"}
             \/ pc \in {"up", "callback"} /\ pc' \in {"callback", "stream"}
          /\ \/ attempt' = attempt /\ (ConnCtxDone => ConnCtxDone') /\ (lost => lost')
             \/ attempt' = attempt + 1 /\ pc' = "snapshot"
          BY <1>1 DEF StartCommon, ConnCtxDone,
             LoopTop, Park, Arm, DialFail, HandshakeFails,
             MarkConnected, OnConnect, OnConnectPanics, StreamDone, StreamCancel, Drain,
             Down, Uninstall, Teardown, Disarm, Backoff, Finish
    <2> QED
        BY <1>1, <2>1, <2>2, AgreeConnStep
  <1>2. CASE TakeSnapshot
    <2>1. /\ pc = "snapshot" /\ pc' = "dial" /\ snap' = want
          /\ UNCHANGED <<attempt, op, want, node>>
          BY <1>2 DEF TakeSnapshot, Snapshot
    <2>2. ~Applied'
          BY <2>1 DEF SubInd, OpSockets, Applied
    <2> QED
        BY <2>1, <2>2 DEF AgreeInd, AckLive, DialInd, HandshakeInd, StreamInd
  <1>3. CASE Dialled
    <2>1. /\ pc = "dial" /\ pc' = "handshake" /\ wire' = <<>> /\ node' = NoSub
          /\ UNCHANGED <<attempt, cancelled, ctxDone, op, want, snap, excuse>>
          BY <1>3 DEF Dialled, DialOk
    <2>2. ~Applied' /\ ~Waiting'
          BY <2>1 DEF SubInd, OpSockets, Applied, Waiting
    <2>3. Doomed => Doomed'
          BY <2>1 DEF Doomed, ConnCtxDone, Active, Sending
    <2>4. ~node'.live
          BY <2>1 DEF NoSub
    <2> QED
        BY <2>1, <2>2, <2>3, <2>4 DEF AgreeInd, AckLive, DialInd, HandshakeInd, StreamInd
  <1>4. CASE SendHandshake
    <2>1. /\ pc = "handshake" /\ pc' = "up" /\ wire' = Append(wire, Hello)
          /\ UNCHANGED <<attempt, cancelled, ctxDone, lost, op, ops, want, snap, node, excuse>>
          BY <1>4 DEF SendHandshake, HandshakeSent, Hello
    <2>2. Doomed => Doomed'
          BY <2>1 DEF Doomed, ConnCtxDone, Active, Sending
    <2>3. (Applied' <=> Applied) /\ (Waiting' <=> Waiting) /\ Hello' = Hello
          BY <2>1 DEF Applied, Waiting, Active, Sending, Hello, Handshake, Frame
    <2>4. AckLive'
          BY <2>1, <2>3 DEF AgreeInd, AckLive
    <2>5. ASSUME ~lost, ~Doomed PROVE Misfit' \/ (Expected' /\ ValuesOK')
      <3>1. snap = want /\ ~node.live
            BY <2>1, <2>5 DEF AgreeInd, HandshakeInd
      <3>2. CASE wire = <<>>
        <4>1. ~Waiting'
              BY <2>1, <2>3, <2>5, <3>2 DEF AgreeInd, HandshakeInd
        <4>2. wire' = <<Hello'>>
              BY <2>1, <2>3, <3>2
        <4>3. Expected'
              BY <2>1, <3>1, <4>1, <4>2 DEF Expected, Unread
        <4>4. Current
              BY <3>1 DEF Current, Base, Like, Handshake, Frame, Extra
        <4>5. ~Applied'
              BY <2>1, <2>4, <3>1 DEF AckLive
        <4> QED
            BY <2>1, <4>3, <4>4, <4>5, CurrentKept DEF ValuesOK
      <3>3. CASE wire # <<>>
        <4>1. Misfit
              BY <2>1, <2>5, <3>3 DEF AgreeInd, HandshakeInd
        <4>2. Hello \in Framed
          <5>1. Handshake \in Sent
                BY SubscriptionsAssumption
                DEF SubscriptionsAssumption, Handshake, Frame, Sent, SubInd, Typed, Subs
          <5> QED
              BY <5>1 DEF Hello, Framed
        <4>3. wire' # <<>> /\ Head(wire') = Head(wire)
              BY <2>1, <3>3, <4>2, HeadKept DEF SubInd, Typed
        <4> QED
            BY <2>1, <4>1, <4>3 DEF Misfit
      <3> QED
          BY <3>2, <3>3
    <2> QED
        BY <2>1, <2>2, <2>4, <2>5 DEF AgreeInd, DialInd, HandshakeInd, StreamInd
  <1> QED
      BY <1>1, <1>2, <1>3, <1>4 DEF SubStartStep

\* Sockets that are lost, and the caller's cancellation.
LEMMA AgreeOther == ASSUME SubInd, AgreeInd, SubOther PROVE AgreeInd'
  <1>1. ConnNext /\ UNCHANGED subVars
        BY DEF SubOther, ConnNext
  <1>2. pc' = pc /\ attempt' = attempt /\ (ConnCtxDone => ConnCtxDone') /\ (lost => lost')
        BY DEF SubOther, Lose, PeerCloses, Cancel, ReadEnd, ConnCtxDone
  <1> QED
      BY <1>1, <1>2, AgreeConnStep

-----------------------------------------------------------------------------
(* ... the operations.                                                     *)

\* No request of the operation is on the wire or has been carried out.
LEMMA AgreeIdle ==
    ASSUME AgreeInd, UNCHANGED <<pc, lost, snap, want, wire, node>>, Doomed => Doomed',
           ~Waiting, ~Waiting', ~Applied, ~Applied'
    PROVE  AgreeInd'
  <1>1. Unread' = Unread
        BY DEF Unread, Hello, Handshake, Frame
  <1>2. (Misfit' <=> Misfit) /\ (Expected' <=> Expected)
        BY <1>1 DEF Misfit, Expected
  <1>3. ValuesOK => ValuesOK'
        BY CurrentKept DEF ValuesOK
  <1> QED
      BY <1>2, <1>3 DEF AgreeInd, AckLive, DialInd, HandshakeInd, StreamInd

LEMMA NoOpIdle == op = NoOp => ~Waiting /\ ~Applied /\ ~Active
  BY DEF NoOp, Waiting, Applied, Active, Sending

LEMMA NoOpIdlePrime == op' = NoOp => ~Waiting' /\ ~Applied' /\ ~Active'
  BY DEF NoOp, Waiting, Applied, Active, Sending

LEMMA AgreeBegin ==
    ASSUME SubInd, AgreeInd, NEW kind \in Kinds, NEW s \in Args, Begin(kind, s)
    PROVE  AgreeInd'
  <1> DEFINE first == IF kind = "reconfigure" /\ ~connected THEN "persist"
                      ELSE IF Plan(kind, s) = <<>> THEN "commit" ELSE "send"
  <1>1. /\ op' = [NoOp EXCEPT !.kind = kind, !.args = s, !.stage = first, !.todo = Plan(kind, s)]
        /\ UNCHANGED <<connVars, want, snap, wire, node, excuse>>
        BY DEF Begin
  <1>2. first \in {"persist", "commit", "send"}
        OBVIOUS
  <1> HIDE DEF first
  <1>3. op'.stage = first /\ op'.acked = {}
        BY <1>1 DEF NoOp
  <1>4. op = NoOp
        BY DEF Begin, SubInd, OpShape
  <1>5. ~Waiting' /\ ~Applied'
        BY <1>2, <1>3 DEF Waiting, Applied, Active, Sending
  <1>6. op.stage = "idle" /\ ~Waiting /\ ~Applied /\ ~Active
        BY <1>4, NoOpIdle DEF NoOp
  <1>7. Doomed => Doomed'
        BY <1>1, <1>6 DEF Doomed, ConnCtxDone, connVars
  <1> QED
      BY <1>1, <1>5, <1>6, <1>7, AgreeIdle DEF connVars

LEMMA AgreeSend == ASSUME SubInd, AgreeInd, SendFrame PROVE AgreeInd'
  <1>1. /\ op' = [op EXCEPT !.stage = "wait", !.sentOn = activeConn, !.answer = "none"]
        /\ op.stage = "send" /\ activeConn # 0 /\ wire' = Append(wire, Request)
        /\ UNCHANGED <<connVars, want, snap, node, ops, excuse>>
        BY DEF SendFrame, Request
  <1>2. activeConn = attempt /\ pc # "dial"
        BY <1>1 DEF SubInd, ConnInd, ConnTypeOK, PhaseOK, InstalledAt
  <1>3. /\ op'.stage = "wait" /\ op'.sentOn = attempt /\ op'.answer = "none"
        /\ op'.kind = op.kind /\ op'.args = op.args /\ op'.todo = op.todo
        /\ op'.acked = op.acked
        BY <1>1, <1>2 DEF SubInd, Typed, OpTyped
  <1>4. /\ attempt' = attempt /\ pc' = pc /\ lost' = lost /\ cancelled' = cancelled
        /\ ctxDone' = ctxDone
        BY <1>1 DEF connVars
  <1>5. (Applied' <=> Applied) /\ ~Waiting /\ Waiting' /\ ~Refused /\ ~Refused'
        BY <1>1, <1>3, <1>4 DEF Applied, Waiting, Refused, Active, Sending
  <1>6. Doomed => Doomed'
        BY <1>1, <1>3, <1>4 DEF Doomed, ConnCtxDone, Active, Sending
  <1>7. AckLive'
        BY <1>1, <1>5 DEF AgreeInd, AckLive
  <1>8. Pending' = Pending /\ Request' = Request /\ Unread' = Unread
        BY <1>1, <1>3 DEF Pending, Sending, Request, Unread, Hello, Handshake, Frame
  <1>9. ValuesOK' <=> ValuesOK
        BY <1>1, <1>3, <1>5, <1>8, CurrentKept, AimedKept DEF ValuesOK
  <1>10. op.todo \in Seq(Requested) /\ op.todo # <<>> /\ Head(op.todo) \in Requested
         BY <1>1 DEF SubInd, Typed, OpTyped, OpShape, Sending
  <1>11. Request \in Framed
    <2>1. Len(op.todo) \in Nat /\ ops \in Nat
          BY <1>10, SubscriptionsAssumption DEF SubInd, Typed, SubscriptionsAssumption
    <2> QED
        BY <1>10, <2>1 DEF Request, Framed, Requested, Sent
  <1>12. Misfit => Misfit'
    <2> SUFFICES ASSUME Misfit PROVE Misfit'
        OBVIOUS
    <2>1. wire' # <<>> /\ Head(wire') = Head(wire)
          BY <1>1, <1>11, HeadKept DEF SubInd, Typed, Misfit
    <2> QED
        BY <1>1, <2>1 DEF Misfit
  <1>13. wire = <<>> /\ ~node.live => Misfit'
    <2> SUFFICES ASSUME wire = <<>>, ~node.live PROVE Misfit'
        OBVIOUS
    <2>1. wire' = <<Request>>
          BY <1>1
    <2>2. Head(wire') = Request /\ wire' # <<>>
          BY <2>1
    <2>3. Request.frame.method # "handshake"
          BY <1>10 DEF Request, Requested
    <2> QED
        BY <1>1, <2>2, <2>3 DEF Misfit
  <1>14. HandshakeInd'
        BY <1>1, <1>4, <1>6, <1>12, <1>13 DEF AgreeInd, HandshakeInd
  <1>15. Expected => Expected'
        BY <1>1, <1>5, <1>8 DEF Expected
  <1>16. StreamInd'
        BY <1>4, <1>6, <1>9, <1>12, <1>15 DEF AgreeInd, StreamInd
  <1> QED
      BY <1>2, <1>4, <1>7, <1>14, <1>16 DEF AgreeInd, DialInd

LEMMA TailOfOne ==
    ASSUME NEW S, NEW s \in Seq(S), s # <<>>, Len(s) = 1
    PROVE  Tail(s) = <<>>
  <1>1. SUFFICES ASSUME NEW n, n = Len(Tail(s)) PROVE n = 0
        BY TailFacts, EmptyIffNoLen, Zenon
  <1>2. n = Len(s) - 1
        BY <1>1, TailFacts, Zenon
  <1> QED
      BY <1>2

LEMMA AgreeTakeOk == ASSUME SubInd, AgreeInd, TakeOk PROVE AgreeInd'
  <1> DEFINE next == IF Len(op.todo) = 1 THEN "commit" ELSE "send"
  <1>1. /\ op' = [op EXCEPT !.todo = Tail(op.todo), !.acked = op.acked \cup {op.sentOn},
                            !.stage = next]
        /\ op.stage = "wait" /\ op.answer = "ok"
        /\ UNCHANGED <<connVars, want, snap, wire, node, ops, excuse>>
        BY DEF TakeOk
  <1>2. op.todo \in Seq(Requested) /\ op.todo # <<>>
        BY <1>1 DEF SubInd, Typed, OpTyped, OpShape, Sending
  <1>3. next \in {"commit", "send"} /\ (next = "commit" => Tail(op.todo) = <<>>)
    <2>1. Len(op.todo) = 1 => Tail(op.todo) = <<>>
          BY <1>2, TailOfOne, Zenon
    <2> QED
        BY <2>1, Zenon
  <1> HIDE DEF next
  <1>4. /\ op'.stage = next /\ op'.sentOn = op.sentOn
        /\ op'.kind = op.kind /\ op'.args = op.args /\ op'.todo = Tail(op.todo)
        /\ op'.acked = op.acked \cup {op.sentOn}
        BY <1>1 DEF SubInd, Typed, OpTyped
  <1>5. /\ attempt' = attempt /\ pc' = pc /\ lost' = lost /\ cancelled' = cancelled
        /\ ctxDone' = ctxDone
        BY <1>1 DEF connVars
  <1>6. Active' /\ ~Waiting /\ ~Waiting' /\ ~Refused /\ ~Refused'
        BY <1>1, <1>3, <1>4 DEF Active, Sending, Waiting, Refused
  <1>7. Applied' => Applied
        BY <1>1, <1>3, <1>4, <1>5 DEF Applied, Active, Sending
  <1>8. AckLive'
        BY <1>1, <1>7 DEF AgreeInd, AckLive
  <1>9. CASE op.sentOn # attempt
    <2>1. Doomed'
          BY <1>4, <1>5, <1>6, <1>9 DEF Doomed
    <2> QED
        BY <1>8, <2>1, AgreeElsewhere
  <1>10. CASE op.sentOn = attempt
    <2>1. Applied /\ Applied'
          BY <1>1, <1>4, <1>5, <1>6, <1>10 DEF Applied
    <2>2. Doomed => Doomed'
          BY <1>1, <1>4, <1>5, <1>6, <1>10 DEF Doomed, ConnCtxDone
    <2>3. Pending' = Pending
          BY <1>1, <1>3, <1>4 DEF Pending, Sending
    <2>4. ValuesOK => ValuesOK'
          BY <1>1, <1>4, <1>6, <2>1, <2>3, AimedKept DEF ValuesOK
    <2>5. (Misfit' <=> Misfit) /\ (Expected' <=> Expected)
          BY <1>1, <1>6, WireKept
    <2> QED
        BY <1>1, <1>5, <1>6, <1>8, <2>2, <2>4, <2>5
        DEF AgreeInd, DialInd, HandshakeInd, StreamInd
  <1> QED
      BY <1>9, <1>10

\* The operation is given up, or is about to replace the connection.
LEMMA AgreeNotConnected == ASSUME SubInd, AgreeInd, SendNotConnected PROVE AgreeInd'
  <1>1. op'.stage \in {"persist", "removeOffline"}
        BY DEF SendNotConnected, SubInd, Typed, OpTyped
  <1>2. Doomed' /\ ~Applied'
        BY <1>1 DEF Doomed, Applied, Active, Sending
  <1> QED
      BY <1>2, AgreeElsewhere DEF AckLive

LEMMA AgreeFails == ASSUME SubInd, AgreeInd, RequestFails PROVE AgreeInd'
  <1>1. CASE op.kind = "reconfigure"
    <2>1. op'.stage = "persist"
          BY <1>1 DEF RequestFails, SubInd, Typed, OpTyped
    <2>2. Doomed' /\ ~Applied'
          BY <2>1 DEF Doomed, Applied, Active, Sending
    <2> QED
        BY <2>2, AgreeElsewhere DEF AckLive
  <1>2. CASE op.kind # "reconfigure"
    <2>1. /\ op' = NoOp
          /\ excuse' = IF MayApply THEN excuse \cup {"unacknowledged"} ELSE excuse
          /\ UNCHANGED <<connVars, want, snap, wire, node>>
          /\ op.stage \in {"send", "wait"}
          BY <1>2 DEF RequestFails
    <2>2. ~Waiting' /\ ~Applied'
          BY <2>1, NoOpIdlePrime
    <2>3. CASE MayApply
      <3>1. Doomed'
            BY <2>1, <2>3 DEF Doomed
      <3> QED
          BY <2>2, <3>1, AgreeElsewhere DEF AckLive
    <2>4. CASE ~MayApply
      <3>1. op.kind \in {"add", "remove"} /\ op.acked = {}
            BY <1>2, <2>1 DEF SubInd, Typed, OpTyped, OpKinds, OpShape, Sending
      <3>2. ~Waiting /\ ~Applied
            BY <2>4, <3>1 DEF MayApply, Waiting, Applied
      <3>3. Doomed => Doomed'
            BY <2>1, <2>4, <3>1 DEF Doomed, ConnCtxDone, connVars
      <3> QED
          BY <2>1, <2>2, <3>2, <3>3, AgreeIdle DEF connVars
    <2> QED
        BY <2>3, <2>4
  <1> QED
      BY <1>1, <1>2

LEMMA AgreeRemoveOffline == ASSUME SubInd, AgreeInd, RemoveOffline PROVE AgreeInd'
  <1>1. op' = NoOp /\ excuse' # {}
        BY DEF RemoveOffline
  <1>2. Doomed' /\ ~Applied'
        BY <1>1, NoOpIdlePrime DEF Doomed
  <1> QED
      BY <1>2, AgreeElsewhere DEF AckLive

LEMMA AgreePersist == ASSUME SubInd, AgreeInd, Persist PROVE AgreeInd'
  <1>1. /\ op' = [op EXCEPT !.stage = "bounce", !.cap = Captured]
        /\ pc' = pc /\ attempt' = attempt
        BY DEF Persist, connVars
  <1>2. op'.stage = "bounce" /\ op'.cap = Captured
        BY <1>1 DEF SubInd, Typed, OpTyped
  <1>3. ~Applied'
        BY <1>2 DEF Applied, Active, Sending
  <1>4. pc \in {"dial", "handshake", "up", "callback", "stream"} => Captured = attempt
        BY DEF Captured, Armed
  <1> QED
      BY <1>1, <1>2, <1>3, <1>4, AgreeElsewhere DEF AckLive, Doomed

LEMMA AgreeBounce == ASSUME SubInd, AgreeInd, BounceOp PROVE AgreeInd'
  <1>1. /\ op' = NoOp /\ op.stage = "bounce"
        /\ cancelled' = (cancelled \/ (op.cap # 0 /\ op.cap = attempt))
        /\ UNCHANGED <<pc, attempt, lost, ctxDone, want, snap, wire, node, excuse>>
        BY DEF BounceOp, Bounce
  <1>2. ~Waiting' /\ ~Applied'
        BY <1>1, NoOpIdlePrime
  <1>3. ~Waiting /\ ~Applied
        BY <1>1 DEF Waiting, Applied, Active, Sending
  <1>4. CASE op.cap = attempt /\ attempt # 0
        BY <1>1, <1>2, <1>4, AgreeElsewhere DEF AckLive, Doomed, ConnCtxDone
  <1>5. CASE attempt = 0
    <2>1. pc \notin {"dial", "handshake", "up", "callback", "stream"}
          BY <1>5 DEF SubInd, ConnInd, PhaseOK, AttemptAt, InstalledAt
    <2> QED
        BY <1>1, <1>2, <2>1, AgreeElsewhere DEF AckLive
  <1>6. CASE op.cap # attempt
    <2>1. Doomed => Doomed'
          BY <1>1, <1>6 DEF Doomed, ConnCtxDone, Active, Sending
    <2> QED
        BY <1>1, <1>2, <1>3, <2>1, AgreeIdle
  <1> QED
      BY <1>4, <1>5, <1>6

\* Commit: what the plan made of the node's set becomes what the client wants.
LEMMA AgreeCommit == ASSUME SubInd, AgreeInd, Commit PROVE AgreeInd'
  <1>1. /\ op.stage = "commit" /\ op' = NoOp /\ want' = Target
        /\ excuse' = IF StaleAck THEN excuse \cup {"staleAck"} ELSE excuse
        /\ UNCHANGED <<connVars, snap, wire, node>>
        BY DEF Commit
  <1>2. ~Waiting' /\ ~Applied' /\ ~Waiting /\ ~Refused
        BY <1>1, NoOpIdlePrime DEF Waiting, Refused
  <1>3. CASE StaleAck
        BY <1>1, <1>2, <1>3, AgreeElsewhere DEF AckLive, Doomed
  <1>4. ASSUME ~StaleAck PROVE Doomed => Doomed'
        BY <1>1, <1>4 DEF Doomed, ConnCtxDone, connVars, StaleAck
  <1>5. CASE ~StaleAck /\ op.acked = {}
    <2>1. want' = want
          BY <1>1, <1>5 DEF SubInd, OpShape, Target
    <2>2. ~Applied
          BY <1>1, <1>5 DEF Applied
    <2> QED
        BY <1>1, <1>2, <1>4, <1>5, <2>1, <2>2, AgreeIdle DEF connVars
  <1>6. CASE ~StaleAck /\ op.acked # {}
    <2>1. attempt \in op.acked
          BY <1>6 DEF StaleAck
    <2>2. Applied /\ node.live
          BY <1>1, <2>1 DEF AgreeInd, AckLive, Applied, Active
    <2>3. pc # "dial" /\ pc' = pc /\ lost' = lost
          BY <1>1, <2>1 DEF SubInd, OpSockets, connVars
    <2>4. (Misfit' <=> Misfit) /\ (Expected' <=> Expected)
          BY <1>1, <1>2 DEF Misfit, Expected, Unread, Hello, Handshake, Frame
    <2>5. Aimed => Current'
      <3>1. Pending = <<>>
            BY <1>1 DEF Pending, Sending
      <3>2. ApplyAll(Base, Pending) = Base
            BY <3>1 DEF ApplyAll, ApplyNth
      <3>3. Base' = Base /\ Extra' = Extra
            BY <1>1 DEF Base, Handshake, Frame, Extra
      <3> QED
          BY <1>1, <3>2, <3>3 DEF Aimed, Current, Like
    <2>6. ValuesOK => ValuesOK'
          BY <1>2, <2>2, <2>5 DEF ValuesOK
    <2>7. StreamInd'
          BY <1>4, <1>6, <2>3, <2>4, <2>6 DEF AgreeInd, StreamInd
    <2>8. HandshakeInd'
          BY <1>1, <1>4, <1>6, <2>2, <2>3 DEF AgreeInd, HandshakeInd
    <2> QED
        BY <1>2, <2>3, <2>7, <2>8 DEF AgreeInd, AckLive, DialInd
  <1> QED
      BY <1>3, <1>5, <1>6

-----------------------------------------------------------------------------
(* ... and the node.                                                       *)

LEMMA SeqOne == ASSUME NEW x PROVE Head(<<x>>) = x /\ Tail(<<x>>) = <<>> /\ Append(<<>>, x) = <<x>>
  OBVIOUS

LEMMA SeqTwo ==
    ASSUME NEW S, NEW x \in S, NEW y \in S
    PROVE  Head(Append(<<x>>, y)) = x /\ Tail(Append(<<x>>, y)) = <<y>>
  <1>1. Head(Append(<<x>>, y)) = x
        OBVIOUS
  <1>2. SUFFICES ASSUME NEW s, s = Append(<<x>>, y) PROVE Tail(s) = <<y>>
        BY <1>1
  <1>3. s \in Seq(S) /\ s # <<>> /\ Len(s) = 2 /\ s[2] = y
        BY <1>2
  <1>4. SUFFICES ASSUME NEW t, t = Tail(s) PROVE t = <<y>>
        OBVIOUS
  <1>5. /\ t \in Seq(S) /\ Len(t) = Len(s) - 1
        /\ \A i \in 1 .. Len(s) - 1 : t[i] = s[i + 1]
        BY <1>3, <1>4, TailFacts, Zenon
  <1>6. Len(t) = 1 /\ t[1] = y
        BY <1>3, <1>5
  <1> QED
      BY <1>5, <1>6

\* The node reads the handshake, or closes the socket on a request.
LEMMA AgreeReadsFirst == ASSUME SubInd, AgreeInd, NodeReadsFirst PROVE AgreeInd'
  <1> DEFINE f == Head(wire).frame
  <1>1. /\ wire # <<>> /\ ~lost /\ ~node.live
        /\ UNCHANGED <<pc, attempt, cancelled, ctxDone, want, snap, op, ops, excuse>>
        BY DEF NodeReadsFirst, PeerCloses, connVars
  <1>2. (Doomed' <=> Doomed) /\ (Applied' <=> Applied) /\ (Waiting' <=> Waiting)
        BY <1>1 DEF Doomed, ConnCtxDone, Active, Sending, Applied, Waiting
  <1>3. ~Applied
        BY <1>1 DEF AgreeInd, AckLive
  <1>4. AckLive' /\ DialInd'
        BY <1>1, <1>2, <1>3 DEF AgreeInd, AckLive, DialInd
  <1>5. CASE f.method # "handshake"
    <2>1. lost'
          BY <1>5 DEF NodeReadsFirst, PeerCloses
    <2> QED
        BY <1>4, <2>1 DEF AgreeInd, HandshakeInd, StreamInd
  <1>6. CASE f.method = "handshake"
    <2>1. /\ node' = [types |-> f.types, addrs |-> f.addrs, live |-> TRUE]
          /\ wire' = Tail(wire) /\ lost' = lost
          BY <1>6 DEF NodeReadsFirst, connVars
    <2>2. ~Misfit
          BY <1>6 DEF Misfit
    <2>3. HandshakeInd'
          BY <1>1, <1>2, <2>1, <2>2 DEF AgreeInd, HandshakeInd
    <2>4. ASSUME pc \in {"up", "callback", "stream"}, ~Doomed PROVE Expected' /\ ValuesOK'
      <3>1. Expected /\ ValuesOK
            BY <1>1, <2>2, <2>4 DEF AgreeInd, StreamInd
      <3>2. wire = IF Waiting THEN Append(<<Hello>>, Request) ELSE <<Hello>>
            BY <1>1, <3>1 DEF Expected, Unread
      <3>3. Head(wire) = Hello /\ Tail(wire) = IF Waiting THEN <<Request>> ELSE <<>>
        <4>1. CASE Waiting
          <5>1. wire = Append(<<Hello>>, Request)
                BY <3>2, <4>1
          <5>2. Head(Append(<<Hello>>, Request)) = Hello
                /\ Tail(Append(<<Hello>>, Request)) = <<Request>>
            <6> HIDE DEF Hello, Request
            <6>1. Hello \in {Hello, Request} /\ Request \in {Hello, Request}
                  OBVIOUS
            <6> QED
                BY <6>1, SeqTwo, Zenon
          <5> QED
              BY <4>1, <5>1, <5>2
        <4>2. CASE ~Waiting
              BY <3>2, <4>2, SeqOne
        <4> QED
            BY <4>1, <4>2
      <3>4. f = Handshake
            BY <3>3 DEF Hello
      <3>5. node'.live /\ Base' = Base
            BY <1>1, <2>1, <3>4 DEF Base
      <3>6. Unread' = <<>> /\ Request' = Request
            BY <1>1, <3>5 DEF Unread, Request
      <3>7. Expected'
        <4>1. CASE Waiting
          <5>1. wire' = <<Request>>
                BY <2>1, <3>3, <4>1
          <5> QED
              BY <1>2, <3>6, <4>1, <5>1, SeqOne DEF Expected
        <4>2. CASE ~Waiting
          <5>1. wire' = <<>>
                BY <2>1, <3>3, <4>2
          <5> QED
              BY <1>2, <3>6, <4>2, <5>1 DEF Expected
        <4> QED
            BY <4>1, <4>2
      <3>8. Current'
        <4>1. Current
              BY <1>3, <3>1 DEF ValuesOK
        <4>2. Extra' = Extra /\ want' = want
              BY <1>1 DEF Extra
        <4> QED
            BY <3>5, <4>1, <4>2 DEF Current, Like
      <3> QED
          BY <1>2, <1>3, <3>7, <3>8 DEF ValuesOK
    <2>5. StreamInd'
          BY <1>1, <1>2, <2>1, <2>4 DEF StreamInd
    <2> QED
        BY <1>4, <2>3, <2>5 DEF AgreeInd
  <1> QED
      BY <1>5, <1>6

\* What the node reads, then, is the request that waits.
LEMMA NodeReadsRequest ==
    ASSUME AgreeInd, pc \in {"up", "callback", "stream"}, ~lost, ~Doomed, node.live, wire # <<>>
    PROVE  Waiting /\ Head(wire) = Request /\ Tail(wire) = <<>> /\ ValuesOK
  <1>1. Expected /\ ValuesOK
        BY DEF AgreeInd, StreamInd, Misfit
  <1>2. wire = IF Waiting THEN Append(<<>>, Request) ELSE <<>>
        BY <1>1 DEF Expected, Unread
  <1>3. Waiting /\ wire = Append(<<>>, Request)
        BY <1>2
  <1> HIDE DEF Request
  <1> QED
      BY <1>1, <1>3, SeqOne

LEMMA AnswerGiven ==
    ASSUME SubInd, NEW v \in {"ok", "error"}, Answers(Head(wire), v), UNCHANGED <<attempt>>
    PROVE  /\ op'.stage = op.stage /\ op'.acked = op.acked /\ op'.cap = op.cap
           /\ op'.kind = op.kind /\ op'.args = op.args /\ op'.todo = op.todo
           /\ op'.sentOn = op.sentOn
           /\ Waiting /\ Head(wire) = Request => op'.answer = v
  <1>1. CASE op' = op
        BY <1>1 DEF Answers, Waiting, Request, SubInd, Typed, OpTyped
  <1>2. CASE op' = [op EXCEPT !.answer = v]
        BY <1>2 DEF SubInd, Typed, OpTyped
  <1> QED
      BY <1>1, <1>2 DEF Answers

LEMMA AgreeAccepts == ASSUME SubInd, AgreeInd, NodeAccepts PROVE AgreeInd'
  <1>1. /\ wire # <<>> /\ ~lost /\ node.live /\ wire' = Tail(wire)
        /\ UNCHANGED <<pc, attempt, lost, cancelled, ctxDone, want, snap, ops>>
        /\ Answers(Head(wire), "ok") /\ excuse \subseteq excuse'
        BY DEF NodeAccepts, connVars
  <1>2. /\ op'.stage = op.stage /\ op'.acked = op.acked /\ op'.cap = op.cap
        /\ op'.kind = op.kind /\ op'.args = op.args /\ op'.todo = op.todo
        /\ op'.sentOn = op.sentOn
        /\ Waiting /\ Head(wire) = Request => op'.answer = "ok"
        BY <1>1, AnswerGiven
  <1>3. node'.live
        BY <1>1 DEF NodeAccepts, SubInd, Typed
  <1>4. Doomed => Doomed'
        BY <1>1, <1>2 DEF Doomed, ConnCtxDone, Active, Sending
  <1>5. AckLive' /\ DialInd'
        BY <1>1, <1>3, <1>4 DEF AgreeInd, AckLive, DialInd
  <1>6. HandshakeInd'
        BY <1>1, <1>4 DEF AgreeInd, HandshakeInd
  <1>7. ASSUME pc \in {"up", "callback", "stream"}, ~Doomed' PROVE Expected' /\ ValuesOK'
    <2> DEFINE f == Head(op.todo)
    <2>1. Waiting /\ Head(wire) = Request /\ Tail(wire) = <<>> /\ ValuesOK
          BY <1>1, <1>4, <1>7, NodeReadsRequest
    <2>2. op.stage = "wait" /\ op.answer = "none" /\ op'.answer = "ok" /\ op'.stage = "wait"
          BY <1>2, <2>1 DEF Waiting
    <2>3. ~Waiting' /\ ~Refused /\ ~Refused' /\ Applied'
          BY <1>1, <1>2, <2>1, <2>2 DEF Waiting, Refused, Applied
    <2>4. Expected'
      <3>1. Unread' = <<>>
            BY <1>3 DEF Unread
      <3> QED
          BY <1>1, <2>1, <2>3, <3>1 DEF Expected
    <2>5. op.todo \in Seq(Requested) /\ op.todo # <<>> /\ Len(op.todo) <= 3 /\ f \in Requested
          BY <2>2 DEF SubInd, Typed, OpTyped, OpShape, Sending
    <2>6. Base' = Apply(Base, f)
      <3>1. Head(wire).frame = f
            BY <2>1 DEF Request
      <3>2. excuse' = {}
            BY <1>7 DEF Doomed
      <3>3. node \in [types : SUBSET Types, addrs : SUBSET Addrs, live : BOOLEAN]
            BY DEF SubInd, Typed
      <3>4. \/ /\ f.method = "subscribe"
               /\ node' = [node EXCEPT !.types = @ \cup f.types, !.addrs = @ \cup f.addrs]
            \/ /\ f.method = "unsubscribe"
               /\ node' = [node EXCEPT !.types = @ \ f.types, !.addrs = @ \ f.addrs]
            BY <3>1, <3>2 DEF NodeAccepts
      <3> HIDE DEF f
      <3>5. /\ Base = [types |-> node.types, addrs |-> node.addrs]
            /\ Base' = [types |-> node'.types, addrs |-> node'.addrs]
            BY <1>1, <1>3 DEF Base
      <3>6. CASE f.method = "subscribe"
        <4>1. node'.types = node.types \cup f.types /\ node'.addrs = node.addrs \cup f.addrs
              BY <3>3, <3>4, <3>6
        <4> QED
            BY <3>5, <3>6, <4>1 DEF Apply
      <3>7. CASE f.method = "unsubscribe"
        <4>1. node'.types = node.types \ f.types /\ node'.addrs = node.addrs \ f.addrs
              BY <3>3, <3>4, <3>7
        <4> QED
            BY <3>5, <3>7, <4>1 DEF Apply
      <3> QED
          BY <3>4, <3>6, <3>7
    <2>7. Like(ApplyAll(Base, op.todo), Target)
      <3>1. CASE attempt \in op.acked
        <4>1. Applied /\ Pending = op.todo
              BY <2>2, <3>1 DEF Applied, Active, Sending, Pending
        <4> QED
            BY <2>1, <2>3, <4>1 DEF ValuesOK, Aimed
      <3>2. CASE attempt \notin op.acked
        <4>1. op.acked = {}
              BY <1>4, <1>7, <2>2, <3>2 DEF Doomed, Active, Sending
        <4>2. op.todo = Plan(op.kind, op.args) /\ op.kind # "none"
              BY <2>2, <4>1 DEF SubInd, OpShape, Sending
        <4>3. Current
              BY <2>1, <2>2, <3>2 DEF ValuesOK, Applied
        <4>4. Base \in Sets
              BY <1>1 DEF Base, Sets, SubInd, Typed
        <4> QED
            BY <4>2, <4>3, <4>4, PlanReachesTarget DEF Current, SubInd
      <3> QED
          BY <3>1, <3>2
    <2>8. Like(ApplyAll(Apply(Base, f), Tail(op.todo)), Target)
      <3>1. ApplyAll(Base, op.todo) = ApplyAll(Apply(Base, f), Tail(op.todo))
            BY <2>5, ApplyHead
      <3> QED
          BY <2>7, <3>1
    <2>9. Aimed'
      <3>1. Pending' = Tail(op.todo)
            BY <1>2, <2>2 DEF Pending
      <3>2. Target' = Target /\ Extra' = Extra
            BY <1>1, <1>2 DEF Target, Merge, Remove, Extra
      <3>3. ApplyAll(Base, Pending)' = ApplyAll(Apply(Base, f), Tail(op.todo))
        <4>1. ApplyAll(Base, Pending)' = ApplyAll(Base', Pending')
              BY DEF ApplyAll, ApplyNth, Apply
        <4> QED
            BY <2>6, <3>1, <4>1
      <3> QED
          BY <2>8, <3>2, <3>3 DEF Aimed, Like
    <2> QED
        BY <2>3, <2>4, <2>9 DEF ValuesOK
  <1>8. StreamInd'
        BY <1>1, <1>7 DEF StreamInd
  <1> QED
      BY <1>5, <1>6, <1>8 DEF AgreeInd

LEMMA AgreeRefuses == ASSUME SubInd, AgreeInd, NodeRefuses PROVE AgreeInd'
  <1>1. /\ wire # <<>> /\ ~lost /\ node.live /\ wire' = Tail(wire)
        /\ UNCHANGED <<pc, attempt, lost, cancelled, ctxDone, want, snap, node, ops, excuse>>
        /\ Answers(Head(wire), "error")
        BY DEF NodeRefuses, connVars
  <1>2. /\ op'.stage = op.stage /\ op'.acked = op.acked /\ op'.cap = op.cap
        /\ op'.sentOn = op.sentOn
        /\ Waiting /\ Head(wire) = Request => op'.answer = "error"
        BY <1>1, AnswerGiven
  <1>3. Doomed => Doomed'
        BY <1>1, <1>2 DEF Doomed, ConnCtxDone, Active, Sending
  <1>4. AckLive' /\ DialInd'
        BY <1>1, <1>3 DEF AgreeInd, AckLive, DialInd
  <1>5. HandshakeInd'
        BY <1>1, <1>3 DEF AgreeInd, HandshakeInd
  <1>6. ASSUME pc \in {"up", "callback", "stream"}, ~Doomed' PROVE Expected' /\ ValuesOK'
    <2>1. Waiting /\ Head(wire) = Request /\ Tail(wire) = <<>> /\ ValuesOK
          BY <1>1, <1>3, <1>6, NodeReadsRequest
    <2>2. op'.answer = "error" /\ op'.stage = "wait"
          BY <1>2, <2>1 DEF Waiting
    <2>3. ~Waiting' /\ Refused' /\ (Applied => Applied')
          BY <1>1, <1>2, <2>1, <2>2 DEF Waiting, Refused, Applied, Active, Sending
    <2>4. Expected'
          BY <1>1, <2>1, <2>3 DEF Expected, Unread
    <2>5. Current => Current'
          BY <1>1, CurrentKept
    <2> QED
        BY <2>1, <2>3, <2>4, <2>5 DEF ValuesOK
  <1>7. StreamInd'
        BY <1>1, <1>6 DEF StreamInd
  <1> QED
      BY <1>4, <1>5, <1>7 DEF AgreeInd

LEMMA AgreeStep == SubInd /\ AgreeInd /\ [SubNext]_vars => AgreeInd'
  <1> SUFFICES ASSUME SubInd, AgreeInd, [SubNext]_vars PROVE AgreeInd'
      OBVIOUS
  <1>1. CASE UNCHANGED vars
    <2>1. UNCHANGED <<pc, attempt, lost, cancelled, ctxDone, want, snap, wire, node, op, ops, excuse>>
          BY <1>1 DEF vars, connVars, subVars
    <2>2. (Doomed' <=> Doomed) /\ (Applied' <=> Applied) /\ (Waiting' <=> Waiting)
          /\ (Refused' <=> Refused) /\ Pending' = Pending
          BY <2>1 DEF Doomed, ConnCtxDone, Active, Sending, Applied, Waiting, Refused, Pending
    <2>3. (Misfit' <=> Misfit) /\ (Expected' <=> Expected)
          BY <2>1, <2>2, WireKept
    <2>4. ValuesOK' <=> ValuesOK
          BY <2>1, <2>2, CurrentKept, AimedKept DEF ValuesOK
    <2> QED
        BY <2>1, <2>2, <2>3, <2>4 DEF AgreeInd, AckLive, DialInd, HandshakeInd, StreamInd
  <1>2. CASE SubStartStep
        BY <1>2, AgreeStart
  <1>3. CASE SubOther
        BY <1>3, AgreeOther
  <1>4. ASSUME NEW kind \in Kinds, NEW s \in Args, Begin(kind, s) PROVE AgreeInd'
        BY <1>4, AgreeBegin
  <1>5. CASE OpStep
        BY <1>5, AgreeSend, AgreeNotConnected, AgreeTakeOk, AgreeFails, AgreeCommit,
           AgreeRemoveOffline, AgreePersist, AgreeBounce DEF OpStep
  <1>6. CASE NodeStep
        BY <1>6, AgreeReadsFirst, AgreeAccepts, AgreeRefuses DEF NodeStep
  <1> QED
      BY <1>1, <1>2, <1>3, <1>4, <1>5, <1>6 DEF SubNext

\* In a quiet state the node has exactly what the client wants (and at most the
\* placeholder of the handshake), whatever interleaving of dials, losses,
\* bounces and operations led there, unless a recorded weakness struck.
THEOREM ClientAndNodeAgree == SubSafety => []Agreement
  BY AgreeInit, AgreeStep, AgreeIndGives, SubInvariant, PTL DEF SubSafety

-----------------------------------------------------------------------------
(* The answers a call takes are answers to it: the node's side of module   *)
(* Correlation, which the operations are written against.                  *)

\* Between its teardown and the next dial a socket is lost.
LostOutside ==
    pc \in {"top", "park", "arm", "snapshot", "dial", "disarm", "backoff"} => lost

\* The id of the request that is sent next or waits for its answer.
OwnId == <<ops, Len(op.todo)>>

\* No frame on the wire bears an id that is still to be given out.
Issued(w) ==
    /\ w.id[1] <= ops
    /\ op.stage = "send" /\ w.id[1] = ops => w.id[2] > Len(op.todo)
    /\ op.stage = "wait" /\ w.id[1] = ops => w.id[2] >= Len(op.todo)

\* A frame with the id of the call that waits is what the call sent, on the
\* current socket, and has not been answered.
IsOwn(w) ==
    op.stage = "wait" /\ w.id = OwnId =>
        /\ op.answer = "none"
        /\ ~lost => op.sentOn = attempt
        /\ w.frame = Head(op.todo)

OwnOnce ==
    op.stage = "wait" =>
        \A i, j \in DOMAIN wire : wire[i].id = OwnId /\ wire[j].id = OwnId => i = j

IdInd ==
    /\ LostOutside
    /\ Sending => ops # 0
    /\ \A i \in DOMAIN wire : Issued(wire[i]) /\ IsOwn(wire[i])
    /\ OwnOnce

\* What the contract promises: an answer is recorded once, and it is the answer
\* to the frame this call sent on the current connection, never a late one to an
\* earlier request or from an earlier socket.
AnswersMatch ==
    [][op.stage = "wait" /\ op'.stage = "wait" /\ op'.answer # op.answer =>
          /\ op.answer = "none"
          /\ op.sentOn = attempt
          /\ Head(wire).frame = Head(op.todo)]_vars

LEMMA WireAppend ==
    ASSUME NEW S, NEW s \in Seq(S), NEW e \in S
    PROVE  /\ DOMAIN Append(s, e) = 1 .. Len(s) + 1
           /\ \A i \in 1 .. Len(s) : Append(s, e)[i] = s[i]
           /\ Append(s, e)[Len(s) + 1] = e
           /\ DOMAIN s = 1 .. Len(s) /\ Len(s) \in Nat
  OBVIOUS

LEMMA WireTail ==
    ASSUME NEW S, NEW s \in Seq(S), s # <<>>
    PROVE  /\ DOMAIN Tail(s) = 1 .. Len(s) - 1
           /\ \A i \in 1 .. Len(s) - 1 : Tail(s)[i] = s[i + 1]
           /\ DOMAIN s = 1 .. Len(s) /\ Len(s) \in Nat \ {0}
           /\ Head(s) = s[1]
  OBVIOUS

LEMMA LostStep == ASSUME ConnInd, LostOutside, [SubNext]_vars PROVE LostOutside'
  <1> USE DEF LostOutside
  <1>1. CASE [ConnNext]_connVars
    <2>1. CASE StartStep
          BY <2>1 DEF StartStep, StartCommon, LoopTop, Park, Arm, Snapshot, DialOk,
             DialFail, HandshakeSent, HandshakeFails, MarkConnected, OnConnect,
             OnConnectPanics, StreamDone, StreamCancel, Drain, Down, Uninstall,
             Teardown, Disarm, Backoff, Finish
    <2>2. CASE ConnNext /\ ~StartStep
          BY <2>2 DEF ConnNext, ReadEnd, Lose, PeerCloses, Cancel, BounceNow, Bounce
    <2>3. CASE UNCHANGED connVars
          BY <2>3 DEF connVars
    <2> QED
        BY <1>1, <2>1, <2>2, <2>3
  <1>2. CASE BounceOp
        BY <1>2 DEF BounceOp, Bounce
  <1>3. CASE NodeReadsFirst
        BY <1>3 DEF NodeReadsFirst, PeerCloses, connVars
  <1> QED
      BY <1>1, <1>2, <1>3, SubStepKinds

LEMMA IdInit == SubInit => IdInd
  BY DEF SubInit, ConnInit, IdInd, LostOutside, Issued, IsOwn, OwnOnce, Sending, NoOp

\* Only a dial gives a socket that is not lost, and only with an empty wire.
LEMMA SameSocket ==
    ASSUME LostOutside', [ConnNext]_connVars \/ BounceOp \/ NodeReadsFirst, ~DialOk
    PROVE  lost' \/ (~lost /\ attempt' = attempt)
  <1> USE DEF LostOutside
  <1>1. CASE StartStep
        BY <1>1 DEF StartStep, StartCommon, LoopTop, Park, Arm, Snapshot, DialFail,
           HandshakeSent, HandshakeFails, MarkConnected, OnConnect, OnConnectPanics,
           StreamDone, StreamCancel, Drain, Down, Uninstall, Teardown, Disarm,
           Backoff, Finish
  <1>2. CASE ConnNext /\ ~StartStep
        BY <1>2 DEF ConnNext, ReadEnd, Lose, PeerCloses, Cancel, BounceNow, Bounce
  <1>3. CASE UNCHANGED connVars \/ BounceOp \/ NodeReadsFirst
        BY <1>3 DEF connVars, BounceOp, Bounce, NodeReadsFirst, PeerCloses
  <1> QED
      BY <1>1, <1>2, <1>3

\* The numbers of a frame and of the operation.
LEMMA WireNumbers ==
    ASSUME SubInd
    PROVE  /\ ops \in Nat /\ op.todo \in Seq(Requested) /\ Len(op.todo) \in Nat
           /\ wire \in Seq(Framed)
           /\ \A i \in DOMAIN wire : /\ wire[i] \in Framed
                                     /\ wire[i].id = <<wire[i].id[1], wire[i].id[2]>>
                                     /\ wire[i].id[1] \in Nat /\ wire[i].id[2] \in Nat
  <1>1. ops \in Nat
        BY SubscriptionsAssumption DEF SubInd, Typed, SubscriptionsAssumption
  <1>2. op.todo \in Seq(Requested)
        BY DEF SubInd, Typed, OpTyped
  <1>3. wire \in Seq(Framed)
        BY DEF SubInd, Typed
  <1>4. \A i \in DOMAIN wire : wire[i] \in Framed
        BY <1>3
  <1> QED
      BY <1>1, <1>2, <1>3, <1>4 DEF Framed

\* The operation and the wire stay as they are.
LEMMA IdElsewhere ==
    ASSUME IdInd, LostOutside', UNCHANGED <<op, ops, wire>>,
           lost' \/ (~lost /\ attempt' = attempt)
    PROVE  IdInd'
  <1>1. ASSUME NEW i \in DOMAIN wire PROVE Issued(wire[i])' /\ IsOwn(wire[i])'
        BY DEF IdInd, Issued, IsOwn, OwnId
  <1> QED
      BY <1>1 DEF IdInd, OwnOnce, OwnId, Sending

\* An operation that neither sends nor waits.
LEMMA IdIdle ==
    ASSUME IdInd, LostOutside', op'.stage \notin {"send", "wait"},
           UNCHANGED <<ops, wire>>
    PROVE  IdInd'
  BY DEF IdInd, Issued, IsOwn, OwnOnce, Sending

\* The node has read a frame; its answer, if any, went to the call it names.
LEMMA IdRead ==
    ASSUME SubInd, IdInd, LostOutside', wire # <<>>, wire' = Tail(wire),
           UNCHANGED <<ops, attempt, lost>>, NEW v,
           op' = op \/ Answers(Head(wire), v)
    PROVE  IdInd'
  <1>1. /\ op'.stage = op.stage /\ op'.todo = op.todo /\ op'.sentOn = op.sentOn
        /\ op'.answer = op.answer \/ (op.stage = "wait" /\ Head(wire).id = OwnId)
        BY DEF SubInd, Typed, OpTyped, Answers, OwnId
  <1>2. OwnId' = OwnId
        BY <1>1 DEF OwnId
  <1>3. wire \in Seq(Framed)
        BY WireNumbers
  <1>4. /\ DOMAIN wire' = 1 .. Len(wire) - 1
        /\ \A i \in 1 .. Len(wire) - 1 : wire'[i] = wire[i + 1]
        /\ DOMAIN wire = 1 .. Len(wire) /\ Len(wire) \in Nat \ {0}
        /\ Head(wire) = wire[1]
        BY <1>3, WireTail
  <1>5. ASSUME NEW i \in DOMAIN wire' PROVE Issued(wire[i])' /\ IsOwn(wire[i])'
    <2>1. /\ i + 1 \in DOMAIN wire /\ 1 \in DOMAIN wire /\ i + 1 # 1
          /\ wire'[i] = wire[i + 1]
          BY <1>4
    <2>2. Issued(wire[i + 1]) /\ IsOwn(wire[i + 1])
          BY <2>1 DEF IdInd
    <2>3. op.stage = "wait" /\ wire[i + 1].id = OwnId => wire[1].id # OwnId
          BY <2>1 DEF IdInd, OwnOnce
    <2>4. Issued(wire[i])'
          BY <1>1, <2>1, <2>2 DEF Issued
    <2>5. IsOwn(wire[i])'
          BY <1>1, <1>2, <1>4, <2>1, <2>2, <2>3 DEF IsOwn
    <2> QED
        BY <2>4, <2>5
  <1>6. OwnOnce'
    <2> SUFFICES ASSUME op'.stage = "wait", NEW i \in DOMAIN wire', NEW j \in DOMAIN wire',
                        wire'[i].id = OwnId', wire'[j].id = OwnId'
                 PROVE  i = j
        BY DEF OwnOnce
    <2>1. /\ i + 1 \in DOMAIN wire /\ j + 1 \in DOMAIN wire
          /\ wire'[i] = wire[i + 1] /\ wire'[j] = wire[j + 1]
          BY <1>4
    <2>2. i + 1 = j + 1
          BY <1>1, <1>2, <2>1 DEF IdInd, OwnOnce
    <2> QED
        BY <1>4, <2>2
  <1> QED
      BY <1>1, <1>5, <1>6 DEF IdInd, Sending

\* A frame is written, by the operation or by connect, which no call waits for.
LEMMA IdWrite ==
    ASSUME SubInd, SubInd', IdInd, LostOutside', UNCHANGED <<ops, attempt>>,
           lost' = lost, NEW w \in Framed, wire' = Append(wire, w),
           \/ op' = op /\ w.id = <<0, 0>>
           \/ /\ op.stage = "send" /\ op'.stage = "wait" /\ op'.todo = op.todo
              /\ op'.answer = "none" /\ op'.sentOn = attempt
              /\ w.id = OwnId /\ w.frame = Head(op.todo)
    PROVE  IdInd'
  <1>1. /\ DOMAIN wire' = 1 .. Len(wire) + 1
        /\ \A i \in 1 .. Len(wire) : wire'[i] = wire[i]
        /\ wire'[Len(wire) + 1] = w
        /\ DOMAIN wire = 1 .. Len(wire) /\ Len(wire) \in Nat
        BY WireNumbers, WireAppend
  <1>2. OwnId' = OwnId /\ ops' = ops
        BY DEF OwnId
  <1>3. ops \in Nat /\ Len(op.todo) \in Nat
        BY WireNumbers
  <1>4. Sending' => Sending /\ ops # 0
        BY DEF Sending, IdInd
  <1>5. ASSUME NEW i \in DOMAIN wire
        PROVE  /\ Issued(wire[i])' /\ IsOwn(wire[i])'
               /\ op.stage = "send" => wire[i].id # OwnId
    <2>1. /\ Issued(wire[i]) /\ IsOwn(wire[i]) /\ wire'[i] = wire[i]
          /\ wire[i].id[1] \in Nat /\ wire[i].id[2] \in Nat
          BY <1>1, WireNumbers DEF IdInd
    <2>2. op.stage = "send" => wire[i].id # OwnId
          BY <1>3, <2>1 DEF Issued, OwnId
    <2>3. CASE op' = op
      <3>1. Issued(wire[i])'
            BY <2>1, <2>3 DEF Issued
      <3>2. IsOwn(wire[i])'
            BY <1>2, <2>1, <2>3 DEF IsOwn
      <3> QED
          BY <2>2, <3>1, <3>2
    <2>4. CASE op.stage = "send" /\ op'.stage = "wait" /\ op'.todo = op.todo
      <3>1. Issued(wire[i])'
            BY <1>3, <2>1, <2>4 DEF Issued
      <3>2. IsOwn(wire[i])'
            BY <1>2, <2>2, <2>4 DEF IsOwn
      <3> QED
          BY <2>2, <3>1, <3>2
    <2> QED
        BY <2>3, <2>4
  <1>6. Issued(w)' /\ IsOwn(w)' /\ (op' = op /\ op.stage = "wait" => w.id # OwnId)
    <2>1. CASE op' = op /\ w.id = <<0, 0>>
          BY <1>2, <1>3, <1>4, <2>1 DEF Issued, IsOwn, OwnId, Sending
    <2>2. CASE /\ op.stage = "send" /\ op'.stage = "wait" /\ op'.todo = op.todo
               /\ op'.answer = "none" /\ op'.sentOn = attempt
               /\ w.id = OwnId /\ w.frame = Head(op.todo)
          BY <1>2, <1>3, <2>2 DEF Issued, IsOwn, OwnId
    <2> QED
        BY <2>1, <2>2
  <1>7. ASSUME NEW i \in DOMAIN wire' PROVE Issued(wire[i])' /\ IsOwn(wire[i])'
    <2>1. CASE i = Len(wire) + 1
          BY <1>1, <1>6, <2>1
    <2>2. CASE i \in DOMAIN wire
          BY <1>1, <1>5, <2>2
    <2> QED
        BY <1>1, <2>1, <2>2
  <1>8. OwnOnce'
    <2> SUFFICES ASSUME op'.stage = "wait", NEW i \in DOMAIN wire', NEW j \in DOMAIN wire',
                        wire'[i].id = OwnId, wire'[j].id = OwnId
                 PROVE  i = j
        BY <1>2 DEF OwnOnce
    <2>1. CASE op' = op
      <3>1. w.id # OwnId
            BY <1>6, <2>1
      <3>2. i \in DOMAIN wire /\ j \in DOMAIN wire
            BY <1>1, <3>1
      <3> QED
          BY <1>1, <2>1, <3>2 DEF IdInd, OwnOnce
    <2>2. CASE op.stage = "send"
      <3>1. i \notin DOMAIN wire /\ j \notin DOMAIN wire
            BY <1>1, <1>5, <2>2
      <3> QED
          BY <1>1, <3>1
    <2> QED
        BY <2>1, <2>2
  <1> QED
      BY <1>4, <1>7, <1>8, <1>2 DEF IdInd

LEMMA IdStep == ASSUME SubInd, IdInd, [SubNext]_vars PROVE IdInd'
  <1>1. LostOutside' /\ SubInd'
        BY LostStep, SubStepInd DEF IdInd, SubInd
  <1>2. CASE SubStartStep \/ SubOther \/ UNCHANGED vars
    <2>1. [ConnNext]_connVars /\ UNCHANGED <<op, ops>>
          BY <1>2 DEF SubStartStep, TakeSnapshot, Dialled, SendHandshake, SubOther,
             ConnNext, StartStep, HasTypes, subVars, vars
    <2>2. CASE Dialled
      <3>1. wire' = <<>>
            BY <2>2 DEF Dialled
      <3> QED
          BY <1>1, <2>1, <3>1 DEF IdInd, OwnOnce, Sending
    <2>3. CASE SendHandshake
      <3>1. [frame |-> Handshake, id |-> <<0, 0>>] \in Framed
        <4>1. Handshake \in Sent
              BY SubscriptionsAssumption
              DEF SubscriptionsAssumption, Handshake, Frame, Sent, Typed, Subs, SubInd
        <4> QED
            BY <4>1 DEF Framed
      <3>2. UNCHANGED <<attempt, lost>>
            BY <2>3 DEF SendHandshake, HandshakeSent
      <3> QED
          BY <1>1, <2>1, <2>3, <3>1, <3>2, IdWrite DEF SendHandshake
    <2>4. CASE UNCHANGED wire /\ ~DialOk
          BY <1>1, <2>1, <2>4, SameSocket, IdElsewhere
    <2>5. (UNCHANGED wire /\ ~DialOk) \/ Dialled \/ SendHandshake
          BY <1>2 DEF SubStartStep, StartCommon, TakeSnapshot, SubOther, subVars,
             vars, connVars, LoopTop, Park, Arm, Snapshot, DialOk, DialFail,
             HandshakeFails, MarkConnected, OnConnect, OnConnectPanics, StreamDone,
             StreamCancel, Drain, Down, Uninstall, Teardown, Disarm, Backoff,
             Finish, ReadEnd, Lose, PeerCloses, Cancel
    <2> QED
        BY <2>2, <2>3, <2>4, <2>5
  <1>3. ASSUME NEW kind \in Kinds, NEW s \in Args, Begin(kind, s) PROVE IdInd'
    <2>1. /\ ops' = ops + 1 /\ wire' = wire
          /\ op'.stage \in {"persist", "commit", "send"}
          BY <1>3 DEF Begin, NoOp
    <2>2. ASSUME NEW i \in DOMAIN wire PROVE Issued(wire[i])' /\ IsOwn(wire[i])'
      <3>1. wire[i].id[1] <= ops /\ wire[i].id[1] \in Nat /\ ops \in Nat
            BY WireNumbers DEF IdInd, Issued
      <3> QED
          BY <2>1, <3>1 DEF Issued, IsOwn
    <2>3. ops' # 0
          BY <2>1, WireNumbers
    <2> QED
        BY <1>1, <2>1, <2>2, <2>3 DEF IdInd, OwnOnce
  <1>4. CASE SendFrame
    <2>1. /\ op.stage = "send" /\ op'.stage = "wait" /\ op'.todo = op.todo
          /\ op'.answer = "none" /\ op'.sentOn = activeConn /\ activeConn # 0
          /\ wire' = Append(wire, [frame |-> Head(op.todo), id |-> OwnId])
          /\ UNCHANGED <<ops, attempt, lost>>
          BY <1>4 DEF SendFrame, OwnId, connVars, SubInd, Typed, OpTyped
    <2>2. activeConn = attempt
          BY <2>1 DEF SubInd, ConnInd, PhaseOK
    <2>3. [frame |-> Head(op.todo), id |-> OwnId] \in Framed
      <3>1. op.todo \in Seq(Requested) /\ op.todo # <<>>
            BY <2>1 DEF SubInd, Typed, OpTyped, OpShape, Sending
      <3>2. Head(op.todo) \in Requested
            BY <3>1
      <3> QED
          BY <3>2, WireNumbers DEF Framed, Requested, Sent, OwnId
    <2> QED
        BY <1>1, <2>1, <2>2, <2>3, IdWrite
  <1>5. CASE TakeOk
    <2>1. /\ op.stage = "wait" /\ op'.stage \in {"commit", "send"}
          /\ op'.todo = Tail(op.todo) /\ UNCHANGED <<ops, wire>>
          BY <1>5 DEF TakeOk, SubInd, Typed, OpTyped
    <2>2. Len(op'.todo) < Len(op.todo)
      <3>1. op.todo \in Seq(Requested) /\ op.todo # <<>>
            BY <2>1 DEF SubInd, Typed, OpTyped, OpShape, Sending
      <3> QED
          BY <2>1, <3>1, TailFacts
    <2>3. Len(op.todo) \in Nat /\ Len(op'.todo) \in Nat
          BY <1>1, WireNumbers DEF SubInd, Typed, OpTyped
    <2>4. ASSUME NEW i \in DOMAIN wire PROVE Issued(wire[i])' /\ IsOwn(wire[i])'
      <3>1. /\ Issued(wire[i])
            /\ wire[i].id[1] \in Nat /\ wire[i].id[2] \in Nat /\ ops \in Nat
            BY WireNumbers DEF IdInd
      <3> QED
          BY <2>1, <2>2, <2>3, <3>1 DEF Issued, IsOwn
    <2> QED
        BY <1>1, <2>1, <2>4 DEF IdInd, OwnOnce, Sending
  <1>6. CASE SendNotConnected \/ RequestFails \/ Commit \/ RemoveOffline \/ Persist \/ BounceOp
    <2>1. op'.stage \notin {"send", "wait"}
      <3>1. op \in OpTyped
            BY DEF SubInd, Typed
      <3>2. CASE SendNotConnected
            BY <3>1, <3>2 DEF SendNotConnected, OpTyped
      <3>3. CASE RequestFails
            BY <3>1, <3>3 DEF RequestFails, NoOp, OpTyped
      <3>4. CASE Commit \/ RemoveOffline \/ BounceOp
            BY <3>4 DEF Commit, RemoveOffline, BounceOp, NoOp
      <3>5. CASE Persist
            BY <3>1, <3>5 DEF Persist, OpTyped
      <3> QED
          BY <1>6, <3>2, <3>3, <3>4, <3>5
    <2>2. UNCHANGED <<ops, wire>>
          BY <1>6 DEF SendNotConnected, RequestFails, Commit, RemoveOffline, Persist,
             BounceOp
    <2> QED
        BY <1>1, <2>1, <2>2, IdIdle
  <1>7. CASE NodeReadsFirst
    <2>1. UNCHANGED <<op, ops>> /\ wire # <<>>
          BY <1>7 DEF NodeReadsFirst
    <2>2. CASE wire' = wire
      <3>1. ~DialOk
            BY <1>7 DEF NodeReadsFirst, DialOk, PeerCloses, connVars
      <3> QED
          BY <1>1, <1>7, <2>1, <2>2, <3>1, SameSocket, IdElsewhere
    <2>3. CASE wire' = Tail(wire) /\ UNCHANGED connVars
          BY <1>1, <2>1, <2>3, IdRead DEF connVars
    <2> QED
        BY <1>7, <2>2, <2>3 DEF NodeReadsFirst
  <1>8. CASE NodeAccepts \/ NodeRefuses
    <2>1. /\ wire # <<>> /\ wire' = Tail(wire) /\ UNCHANGED <<ops, attempt, lost>>
          /\ Answers(Head(wire), "ok") \/ Answers(Head(wire), "error")
          BY <1>8 DEF NodeAccepts, NodeRefuses, connVars
    <2> QED
        BY <1>1, <2>1, IdRead
  <1> QED
      BY <1>2, <1>3, <1>4, <1>5, <1>6, <1>7, <1>8 DEF SubNext, OpStep, NodeStep

\* An answer is recorded once, and for the frame the call sent on the current
\* connection: the client's ids keep late answers from doing any harm.
THEOREM AnswersAreMatched == SubSafety => AnswersMatch
  <1> DEFINE Match ==
        op.stage = "wait" /\ op'.stage = "wait" /\ op'.answer # op.answer =>
            /\ op.answer = "none"
            /\ op.sentOn = attempt
            /\ Head(wire).frame = Head(op.todo)
  <1>1. SubSafety => []IdInd
        BY IdInit, IdStep, SubInvariant, PTL DEF SubSafety
  <1>2. SubInd /\ IdInd /\ [SubNext]_vars => [Match]_vars
    <2> SUFFICES ASSUME SubInd, IdInd, SubNext, op.stage = "wait", op'.stage = "wait",
                        op'.answer # op.answer
                 PROVE  /\ op.answer = "none" /\ op.sentOn = attempt
                        /\ Head(wire).frame = Head(op.todo)
        OBVIOUS
    <2>1. NodeAccepts \/ NodeRefuses
      <3>1. op' # op
            OBVIOUS
      <3>2. ASSUME NEW kind \in Kinds, NEW s \in Args PROVE ~Begin(kind, s)
            BY DEF Begin, SubInd, OpShape
      <3>3. ~SubStartStep /\ ~SubOther /\ ~NodeReadsFirst
            BY <3>1 DEF SubStartStep, TakeSnapshot, Dialled, SendHandshake, SubOther,
               NodeReadsFirst, subVars
      <3>4. ~SendFrame /\ ~SendNotConnected /\ ~Commit /\ ~RemoveOffline /\ ~Persist
            /\ ~BounceOp
            BY DEF SendFrame, SendNotConnected, Commit, RemoveOffline, Persist, BounceOp
      <3>5. ~TakeOk
            BY DEF TakeOk, SubInd, Typed, OpTyped
      <3>6. ~RequestFails
        <4>1. RequestFails => op'.stage \in {"persist", "idle"}
              BY DEF RequestFails, NoOp, SubInd, Typed, OpTyped
        <4> QED
            BY <4>1
      <3> QED
          BY <3>2, <3>3, <3>4, <3>5, <3>6 DEF SubNext, OpStep, NodeStep
    <2>2. wire # <<>> /\ ~lost /\ Head(wire).id = OwnId
          BY <2>1 DEF NodeAccepts, NodeRefuses, Answers, OwnId
    <2>3. 1 \in DOMAIN wire /\ Head(wire) = wire[1]
          BY <2>2, WireNumbers, WireTail
    <2>4. IsOwn(wire[1])
          BY <2>3 DEF IdInd
    <2> QED
        BY <2>2, <2>3, <2>4 DEF IsOwn
  <1> QED
      BY <1>1, <1>2, SubInvariant, PTL DEF SubSafety, AnswersMatch

-----------------------------------------------------------------------------
(* What Connection promises, whatever the operations and the node do to it. *)

\* Connected() and the return of Start keep their meaning under operations that
\* bounce the connection and a node that closes it (connection.go:16, 24-71).
THEOREM ConnectionIsKept == SubSafety => [](ConnectedImpliesInstalled /\ ReturnOnlyOnCancel)
  <1>1. SubInd => ConnInd
        BY DEF SubInd
  <1>2. ConnInd => ConnectedImpliesInstalled /\ ReturnOnlyOnCancel
        BY DEF ConnInd, ConnectedPhase, PhaseOK, InstalledAt, AttemptAt, FinishOnlyOnCancel,
               ConnectedImpliesInstalled, ReturnOnlyOnCancel
  <1> QED
      BY <1>1, <1>2, SubInvariant, PTL

\* Operations do not put the end of Start off: fifteen steps at most once its
\* context is done, as in Connection.
THEOREM ShutdownIsBoundedUnderOperations == SubSafety => ShutdownBounded
  <1>1. SubInd /\ [SubNext]_vars
          => [ctxDone => ctxDone' /\ (pc' = pc \/ StepsLeft[pc'] < StepsLeft[pc])]_connVars
    <2> SUFFICES ASSUME ConnInd, [SubNext]_vars, ctxDone, connVars' # connVars
                 PROVE  ctxDone' /\ (pc' = pc \/ StepsLeft[pc'] < StepsLeft[pc])
        BY DEF SubInd
    <2>1. CASE ConnNext
          BY <2>1, ShutdownNext
    <2>2. CASE BounceOp
          BY <2>2 DEF BounceOp, Bounce
    <2>3. CASE NodeReadsFirst
          BY <2>3 DEF NodeReadsFirst, PeerCloses, connVars
    <2> QED
        BY <2>1, <2>2, <2>3, SubStepKinds
  <1> QED
      BY <1>1, SubInvariant, PTL DEF SubSafety, ShutdownBounded
=============================================================================
