----------------------------- MODULE Subscriptions -----------------------------
(***************************************************************************)
(* The subscription set: what the client wants (s.types, s.addresses),     *)
(* what the current handshake carried, and what the node has.              *)
(* Reconfigure, AddSubscriptions and RemoveSubscriptions                   *)
(* (subscriber/subscription.go) change it live, over requests, or by       *)
(* bouncing the connection of module Connection.                           *)
(*                                                                         *)
(* A request is modelled by its contract (module Correlation): it ends     *)
(* with the node's answer, with ErrNotConnected when nothing was sent, or  *)
(* with another error at any time (5 s timeout, caller's context, failed   *)
(* write, "connection closed").                                            *)
(*                                                                         *)
(* `excuse` records which known weakness of these operations has struck    *)
(* since the last snapshot; the properties say that there are no others.   *)
(***************************************************************************)
EXTENDS Connection, Sequences

CONSTANTS
    Types,         \* event types
    Addrs,         \* addresses
    Placeholder,   \* the type a handshake without types asks for (accounts)
    QueryOnly,     \* WithQueryOnly()
    InitialWant,   \* the subscription set given to New
    Kinds,         \* the operations in use
    Args,          \* the sets they are given
    MaxOps         \* how many operations are called

Subs == [types : SUBSET Types, addrs : SUBSET Addrs]

ASSUME SubscriptionsAssumption ==
    /\ Placeholder \in Types
    /\ QueryOnly \in BOOLEAN
    /\ InitialWant \in Subs
    /\ Args \subseteq Subs
    /\ Kinds \subseteq {"reconfigure", "add", "remove"}
    /\ MaxOps \in Nat

VARIABLES
    want,     \* s.types and s.addresses
    snap,     \* connect's copy of them, for the current attempt
    wire,     \* frames on the current socket the node has not read
    node,     \* the set the node has for the current socket (external)
    op,       \* the operation that holds reconfigureMu
    ops,      \* operations called so far
    excuse    \* weaknesses that struck since the snapshot

subVars == <<want, snap, wire, node, op, ops, excuse>>

vars == <<connVars, subVars>>

Excuses == {"staleAck", "offlineRemove", "unacknowledged", "mixed"}

NoSub == [types |-> {}, addrs |-> {}, live |-> FALSE]

NoOp == [kind |-> "none", args |-> InitialWant, stage |-> "idle", todo |-> <<>>,
         sentOn |-> 0, answer |-> "none", acked |-> {}, cap |-> 0]

SubInit ==
    /\ ConnInit
    /\ want = InitialWant
    /\ snap = InitialWant
    /\ wire = <<>>
    /\ node = NoSub
    /\ op = NoOp
    /\ ops = 0
    /\ excuse = {}

-----------------------------------------------------------------------------
(* Frames.  A request frame is tagged with its operation and its position  *)
(* (the id); the handshake has no id.                                      *)

Frame(m, T, A) == [method |-> m, types |-> T, addrs |-> A]

Handshake == Frame("handshake",
                   IF snap.types = {} THEN {Placeholder} ELSE snap.types,
                   snap.addrs)

\* Broken: removed types are forgotten, and stay at the node.
PlanKeepsTypes(old, new) ==
    LET added == ~(new.types \subseteq old.types /\ new.addrs \subseteq old.addrs)
        goneA == old.addrs \ new.addrs
    IN  (IF added THEN <<Frame("subscribe", new.types, new.addrs)>> ELSE <<>>)
        \o (IF goneA # {} THEN <<Frame("unsubscribe", {}, goneA)>> ELSE <<>>)

\* Reconfigure: the full new sets if anything is added, then the removals,
\* one dimension at a time.
ReconfigurePlan(old, new) ==
    LET added == ~(new.types \subseteq old.types /\ new.addrs \subseteq old.addrs)
        goneT == old.types \ new.types
        goneA == old.addrs \ new.addrs
    IN  (IF added THEN <<Frame("subscribe", new.types, new.addrs)>> ELSE <<>>)
        \o (IF goneA # {} THEN <<Frame("unsubscribe", {}, goneA)>> ELSE <<>>)
        \o (IF goneT # {} THEN <<Frame("unsubscribe", goneT, {})>> ELSE <<>>)

Plan(kind, s) ==
    CASE kind = "reconfigure" -> ReconfigurePlan(want, s)
      [] kind = "add" -> <<Frame("subscribe", s.types, s.addrs)>>
      [] kind = "remove" -> <<Frame("unsubscribe", s.types, s.addrs)>>

Merge(a, b) == [types |-> a.types \cup b.types, addrs |-> a.addrs \cup b.addrs]
Remove(a, b) == [types |-> a.types \ b.types, addrs |-> a.addrs \ b.addrs]

\* The local set the operation leaves: what it was given, merged, or removed.
Target ==
    CASE op.kind = "reconfigure" -> op.args
      [] op.kind = "add" -> Merge(want, op.args)
      [] op.kind = "remove" -> Remove(want, op.args)

-----------------------------------------------------------------------------
(* The operations, under reconfigureMu.                                    *)

\* Reconfigure looks at Connected() first; the others try the wire at once.
Begin(kind, s) ==
    /\ op.kind = "none"
    /\ ops < MaxOps
    /\ ops' = ops + 1
    /\ LET plan == Plan(kind, s)
           first == IF kind = "reconfigure" /\ ~connected THEN "persist"
                    ELSE IF plan = <<>> THEN "commit" ELSE "send"
       IN  op' = [NoOp EXCEPT !.kind = kind, !.args = s, !.stage = first,
                              !.todo = plan]
    /\ UNCHANGED <<connVars, want, snap, wire, node, excuse>>

SendFrame ==
    /\ op.stage = "send"
    /\ activeConn # 0
    /\ wire' = Append(wire, [frame |-> Head(op.todo), id |-> <<ops, Len(op.todo)>>])
    /\ op' = [op EXCEPT !.stage = "wait", !.sentOn = activeConn, !.answer = "none"]
    /\ UNCHANGED <<connVars, want, snap, node, ops, excuse>>

\* writeMessage found no socket: ErrNotConnected.
SendNotConnected ==
    /\ op.stage = "send"
    /\ activeConn = 0
    /\ op' = [op EXCEPT !.stage =
                IF op.kind = "remove" THEN "removeOffline" ELSE "persist"]
    /\ UNCHANGED <<connVars, want, snap, wire, node, ops, excuse>>

\* Broken: one round of requests too many.
TakeOkLate ==
    /\ op.stage = "wait"
    /\ op.answer = "ok"
    /\ op' = [op EXCEPT !.todo = Tail(op.todo),
                        !.acked = op.acked \cup {op.sentOn},
                        !.stage = IF op.todo = <<>> THEN "commit" ELSE "send"]
    /\ UNCHANGED <<connVars, want, snap, wire, node, ops, excuse>>

TakeOk ==
    /\ op.stage = "wait"
    /\ op.answer = "ok"
    /\ op' = [op EXCEPT !.todo = Tail(op.todo),
                        !.acked = op.acked \cup {op.sentOn},
                        !.stage = IF Len(op.todo) = 1 THEN "commit" ELSE "send"]
    /\ UNCHANGED <<connVars, want, snap, wire, node, ops, excuse>>

\* A frame that was sent and not refused may still take effect.
MayApply == op.stage = "wait" /\ op.sentOn = attempt /\ op.answer # "error"

\* Any other error: Reconfigure falls back on its slow path, the others give up.
RequestFails ==
    /\ \/ op.stage = "wait"
       \/ op.stage = "send" /\ activeConn # 0 /\ lost
    /\ IF op.kind = "reconfigure"
       THEN /\ op' = [op EXCEPT !.stage = "persist"]
            /\ UNCHANGED excuse
       ELSE /\ op' = NoOp
            /\ excuse' = IF MayApply THEN excuse \cup {"unacknowledged"} ELSE excuse
    /\ UNCHANGED <<connVars, want, snap, wire, node, ops>>

\* Every frame was acknowledged: record it.  The acknowledgement is stale if
\* the connection that gave it is not the current attempt's, or if Start has
\* already decided to park on the old set.
StaleAck == op.acked \ {attempt} # {} \/ (op.acked # {} /\ pc = "park")

Commit ==
    /\ op.stage = "commit"
    /\ want' = Target
    /\ excuse' = IF StaleAck THEN excuse \cup {"staleAck"} ELSE excuse
    /\ op' = NoOp
    /\ UNCHANGED <<connVars, snap, wire, node, ops>>

\* RemoveSubscriptions, not connected: local state only, nothing is bounced.
RemoveOffline ==
    /\ op.stage = "removeOffline"
    /\ want' = Target
    /\ excuse' = excuse \cup {"offlineRemove"}
    /\ op' = NoOp
    /\ UNCHANGED <<connVars, snap, wire, node, ops>>

\* Broken: the slow path does not capture connCancel.
NotCaptured == 0

\* The slow path: the new set and connCancel under one lock ...
Captured == IF Armed THEN attempt ELSE 0

Persist ==
    /\ op.stage = "persist"
    /\ want' = Target
    /\ op' = [op EXCEPT !.stage = "bounce", !.cap = Captured]
    /\ UNCHANGED <<connVars, snap, wire, node, ops, excuse>>

\* ... then cancel() and the token.
BounceOp ==
    /\ op.stage = "bounce"
    /\ Bounce(op.cap)
    /\ op' = NoOp
    /\ UNCHANGED <<kicks, want, snap, wire, node, ops, excuse>>

OpStep ==
    \/ SendFrame \/ SendNotConnected \/ TakeOk \/ RequestFails \/ Commit
    \/ RemoveOffline \/ Persist \/ BounceOp

-----------------------------------------------------------------------------
(* The node (external).                                                    *)

\* Answers go to the request they name; a call that is gone ignores them.
Answers(f, v) ==
    op' = IF op.stage = "wait" /\ f.id = <<ops, Len(op.todo)>>
          THEN [op EXCEPT !.answer = v] ELSE op

\* The first frame must be a subscription; anything else closes the socket.
NodeReadsFirst ==
    /\ wire # <<>> /\ ~lost /\ ~node.live
    /\ LET f == Head(wire).frame IN
         IF f.method = "handshake"
         THEN /\ node' = [types |-> f.types, addrs |-> f.addrs, live |-> TRUE]
              /\ wire' = Tail(wire)
              /\ UNCHANGED connVars
         ELSE /\ PeerCloses
              /\ UNCHANGED <<faults, wire, node>>
    /\ UNCHANGED <<want, snap, op, ops, excuse>>

NodeAccepts ==
    /\ wire # <<>> /\ ~lost /\ node.live
    /\ LET f == Head(wire).frame
           mixed == f.types # {} /\ f.addrs # {}
       IN  \/ /\ f.method = "subscribe"
              /\ node' = [node EXCEPT !.types = @ \cup f.types, !.addrs = @ \cup f.addrs]
              /\ UNCHANGED excuse
           \/ /\ f.method = "unsubscribe"
              /\ node' = [node EXCEPT !.types = @ \ f.types, !.addrs = @ \ f.addrs]
              /\ UNCHANGED excuse
           \/ /\ f.method = "unsubscribe" /\ mixed
              /\ node' = [node EXCEPT !.types = @ \ f.types]
              /\ excuse' = excuse \cup {"mixed"}
    /\ wire' = Tail(wire)
    /\ Answers(Head(wire), "ok")
    /\ UNCHANGED <<connVars, want, snap, ops>>

NodeRefuses ==
    /\ wire # <<>> /\ ~lost /\ node.live
    /\ wire' = Tail(wire)
    /\ Answers(Head(wire), "error")
    /\ UNCHANGED <<connVars, want, snap, node, ops, excuse>>

NodeStep == NodeReadsFirst \/ NodeAccepts \/ NodeRefuses

-----------------------------------------------------------------------------
(* The steps of Start, with what they do here.                             *)

HasTypes == want.types # {} \/ QueryOnly

TakeSnapshot ==
    /\ Snapshot
    /\ snap' = want
    /\ excuse' = {}
    /\ UNCHANGED <<want, wire, node, op, ops>>

Dialled ==
    /\ DialOk
    /\ wire' = <<>>
    /\ node' = NoSub
    /\ UNCHANGED <<want, snap, op, ops, excuse>>

SendHandshake ==
    /\ HandshakeSent
    /\ wire' = Append(wire, [frame |-> Handshake, id |-> <<0, 0>>])
    /\ UNCHANGED <<want, snap, node, op, ops, excuse>>

SubStartStep ==
    \/ StartCommon /\ UNCHANGED subVars
    \/ LoopTop(HasTypes) /\ UNCHANGED subVars
    \/ TakeSnapshot
    \/ Dialled
    \/ SendHandshake
    \/ Teardown /\ UNCHANGED subVars

SubOther ==
    /\ Lose \/ Cancel \/ \E c \in reading : ReadEnd(c)
    /\ UNCHANGED subVars

SubNext ==
    \/ SubStartStep
    \/ SubOther
    \/ \E kind \in Kinds, s \in Args : Begin(kind, s)
    \/ OpStep
    \/ NodeStep

\* Goroutines that can run do; a node whose socket is alive reads it.
SubFairness ==
    /\ WF_vars(SubStartStep)
    /\ WF_vars((\E c \in reading : ReadEnd(c)) /\ UNCHANGED subVars)
    /\ WF_vars(OpStep)
    /\ WF_vars(NodeStep)

SubSafety == SubInit /\ [][SubNext]_vars

SubSpec == SubSafety /\ SubFairness

-----------------------------------------------------------------------------
(* Properties.                                                             *)

OpKinds == {"none", "reconfigure", "add", "remove"}
OpStages == {"idle", "send", "wait", "commit", "removeOffline", "persist", "bounce"}

\* The variables have the types the Go declarations give them, and an
\* operation never has more than the three frames of Reconfigure to send.
SubTypeOK ==
    /\ ConnTypeOK
    /\ want \in Subs /\ snap \in Subs
    /\ node.types \subseteq Types /\ node.addrs \subseteq Addrs
    /\ op.kind \in OpKinds /\ op.stage \in OpStages
    /\ op.stage \in {"send", "wait"} => Len(op.todo) \in 1 .. 3
    /\ ops \in 0 .. MaxOps
    /\ excuse \subseteq Excuses

\* The connection streams, nothing is in flight and nobody is about to end it.
Quiet ==
    /\ pc = "stream" /\ ~lost /\ ~ConnCtxDone
    /\ op.kind = "none"
    /\ wire = <<>>

\* The node has what the client wants, and at most the placeholder besides.
Agree ==
    /\ node.live
    /\ node.addrs = want.addrs
    /\ want.types \subseteq node.types
    /\ node.types \subseteq want.types \cup (IF snap.types = {} THEN {Placeholder} ELSE {})

\* In a quiet state client and node agree, whatever interleaving of dialling,
\* bouncing, losing and operating led there, unless one of the recorded
\* weaknesses struck on this very connection.
Agreement == Quiet /\ excuse = {} => Agree

\* Start never sleeps in its park while there is something to subscribe to
\* and no token to wake it, but for a stale acknowledgement.
NoLostWakeup ==
    pc = "park" /\ HasTypes /\ op.kind = "none" => kick \/ "staleAck" \in excuse

\* Once calls and faults are over, the client is asleep, stopped, or streams
\* with the node in agreement: a persisted set is never left waiting behind a
\* connection that predates it.
Reconciles ==
    <>[](pc \in {"park", "returned"} \/ (Quiet /\ (Agree \/ excuse # {})))
=============================================================================
