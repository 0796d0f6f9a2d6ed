------------------------------- MODULE Requests -------------------------------
(***************************************************************************)
(* Request/response correlation over the connection of module Connection:  *)
(* sendRequest, routeResponse and failAllPending (subscriber/request.go),  *)
(* called by GetTransaction, GetBlock and the subscription operations.     *)
(*                                                                         *)
(* A request id is used once (nextID only grows), so requests and ids are  *)
(* the same thing here.  A reply channel has capacity 1: reply[r] is its   *)
(* content.                                                                *)
(***************************************************************************)
EXTENDS Connection

CONSTANT Reqs           \* the requests ever issued

VARIABLES
    stage,     \* where the call of sendRequest for r is
    pending,   \* the keys of s.pending
    reply,     \* content of r's reply channel
    result,    \* what the call will return
    sentOn,    \* 0, or the attempt whose socket carried r
    answered,  \* the node's answer to r
    inbox      \* answers on their way to a reader

reqVars == <<stage, pending, reply, result, sentOn, answered, inbox>>

vars == <<connVars, reqVars>>

Stages == {"new", "registered", "waiting", "leaving", "returned"}
Verdicts == {"ok", "error"}
Replies == Verdicts \cup {"none", "closed"}
Results == Replies \cup {"notConnected", "writeFailed", "ctx"}

ReqInit ==
    /\ ConnInit
    /\ stage = [r \in Reqs |-> "new"]
    /\ pending = {}
    /\ reply = [r \in Reqs |-> "none"]
    /\ result = [r \in Reqs |-> "none"]
    /\ sentOn = [r \in Reqs |-> 0]
    /\ answered = [r \in Reqs |-> "none"]
    /\ inbox = {}

-----------------------------------------------------------------------------
(* sendRequest.                                                            *)

Register(r) ==
    /\ stage[r] = "new"
    /\ stage' = [stage EXCEPT ![r] = "registered"]
    /\ pending' = pending \cup {r}
    /\ UNCHANGED <<connVars, reply, result, sentOn, answered, inbox>>

\* The select of sendRequest is over, with outcome v; its defer is left.
Leave(r, v) ==
    /\ stage' = [stage EXCEPT ![r] = "leaving"]
    /\ result' = [result EXCEPT ![r] = v]
    /\ UNCHANGED <<connVars, pending, reply, sentOn, answered, inbox>>

\* writeMessage on the installed socket.
WriteSent(r) ==
    /\ stage[r] = "registered"
    /\ activeConn # 0
    /\ stage' = [stage EXCEPT ![r] = "waiting"]
    /\ sentOn' = [sentOn EXCEPT ![r] = activeConn]
    /\ UNCHANGED <<connVars, pending, reply, result, answered, inbox>>

WriteFails(r) ==
    /\ stage[r] = "registered"
    /\ \/ activeConn = 0 /\ Leave(r, "notConnected")
       \/ activeConn # 0 /\ lost /\ Leave(r, "writeFailed")

\* Broken: an expired context is reported as ErrNotConnected.
CtxMeansNotConnected(r) == stage[r] = "waiting" /\ Leave(r, "notConnected")

CtxExpires(r) == stage[r] = "waiting" /\ Leave(r, "ctx")

TakeReply(r) ==
    /\ stage[r] = "waiting"
    /\ reply[r] # "none"
    /\ Leave(r, reply[r])

\* Broken: a call that has its answer leaves its entry in the map.
CleanupForgotten(r) ==
    /\ stage[r] = "leaving"
    /\ stage' = [stage EXCEPT ![r] = "returned"]
    /\ pending' = IF result[r] \in Verdicts THEN pending ELSE pending \ {r}
    /\ UNCHANGED <<connVars, reply, result, sentOn, answered, inbox>>

\* The deferred delete(s.pending, id).
Cleanup(r) ==
    /\ stage[r] = "leaving"
    /\ stage' = [stage EXCEPT ![r] = "returned"]
    /\ pending' = pending \ {r}
    /\ UNCHANGED <<connVars, reply, result, sentOn, answered, inbox>>

-----------------------------------------------------------------------------
(* The node and the readers.                                               *)

Answer(r, v) ==
    /\ sentOn[r] # 0
    /\ sentOn[r] = attempt
    /\ ~lost
    /\ answered[r] = "none"
    /\ answered' = [answered EXCEPT ![r] = v]
    /\ inbox' = inbox \cup {r}
    /\ UNCHANGED <<connVars, stage, pending, reply, result, sentOn>>

\* Broken: every pending call is given the answer, whatever its id.
DeliverToAll(r) ==
    reply' = [q \in Reqs |-> IF q \in pending /\ reply[q] = "none"
                             THEN answered[r] ELSE reply[q]]

\* ch <- resp, when r is registered and its channel has room.
Deliver(r) ==
    IF r \in pending /\ reply[r] = "none"
    THEN reply' = [reply EXCEPT ![r] = answered[r]]
    ELSE UNCHANGED reply

\* The reader of the connection that carried r, possibly one that outlived it.
Route(r) ==
    /\ r \in inbox
    /\ sentOn[r] \in reading
    /\ inbox' = inbox \ {r}
    /\ Deliver(r)
    /\ UNCHANGED <<connVars, stage, pending, result, sentOn, answered>>

\* Broken: the pending map is cleared without telling the calls.
ForgetAllPending == pending' = {} /\ UNCHANGED reply

\* Non-blocking send of "connection closed" to every registered request.
FailAllPending ==
    /\ reply' = [r \in Reqs |-> IF r \in pending /\ reply[r] = "none"
                                THEN "closed" ELSE reply[r]]
    /\ pending' = {}

-----------------------------------------------------------------------------
ReqStartStep ==
    \/ StartCommon /\ UNCHANGED reqVars
    \/ (\E has \in BOOLEAN : LoopTop(has)) /\ UNCHANGED reqVars
    \/ Snapshot /\ UNCHANGED reqVars
    \/ DialOk /\ UNCHANGED reqVars
    \/ HandshakeSent /\ UNCHANGED reqVars
    \/ Teardown /\ FailAllPending
       /\ UNCHANGED <<stage, result, sentOn, answered, inbox>>

\* What a socket still carried is gone with its reader.
ReqReadEnd(c) ==
    /\ ReadEnd(c)
    /\ inbox' = {r \in inbox : sentOn[r] # c}
    /\ UNCHANGED <<stage, pending, reply, result, sentOn, answered>>

ReqOther ==
    /\ Lose \/ Cancel \/ BounceNow
    /\ UNCHANGED reqVars

\* What the goroutine inside sendRequest does without waiting for anyone.
CallStep(r) == WriteSent(r) \/ WriteFails(r) \/ TakeReply(r) \/ Cleanup(r)

ReqNext ==
    \/ ReqStartStep
    \/ \E c \in reading : ReqReadEnd(c)
    \/ ReqOther
    \/ \E r \in Reqs :
          \/ Register(r)
          \/ CallStep(r)
          \/ CtxExpires(r)
          \/ \E v \in Verdicts : Answer(r, v)
          \/ Route(r)

\* No fairness for Answer or CtxExpires: the node may stay silent and the
\* caller's context may never end.
ReqFairness ==
    /\ WF_vars(ReqStartStep)
    /\ WF_vars(\E c \in reading : ReqReadEnd(c))
    /\ \A r \in Reqs : WF_vars(CallStep(r)) /\ WF_vars(Route(r))

ReqSafety == ReqInit /\ [][ReqNext]_vars

ReqSpec == ReqSafety /\ ReqFairness

-----------------------------------------------------------------------------
(* Properties.                                                             *)

\* The variables have the types the Go declarations give them, and the map of
\* pending requests holds calls in progress only, however they end.
ReqTypeOK ==
    /\ ConnTypeOK
    /\ stage \in [Reqs -> Stages]
    /\ pending \subseteq {r \in Reqs : stage[r] \notin {"new", "returned"}}
    /\ reply \in [Reqs -> Replies]
    /\ result \in [Reqs -> Results]
    /\ sentOn \in [Reqs -> Nat]
    /\ answered \in [Reqs -> Verdicts \cup {"none"}]
    /\ inbox \in SUBSET Reqs

\* The socket that carries r is installed, or its failAllPending is the next
\* thing connect does.
CarrierAlive(r) ==
    /\ sentOn[r] = attempt /\ attempt # 0
    /\ activeConn = attempt \/ pc = "teardown"

\* The promises the next two properties make to a single call.
WaiterOK(r) ==
    stage[r] = "waiting" => reply[r] # "none" \/ (r \in pending /\ CarrierAlive(r))

HonestOK(r) ==
    /\ result[r] \in Verdicts => answered[r] = result[r]
    /\ result[r] = "notConnected" => sentOn[r] = 0

\* A call that waits for an answer can still get one, or will be told that the
\* connection closed: either its channel is filled, or it is registered and
\* the socket that carried it still has its failAllPending ahead.  (A request
\* registered before a teardown and written after the next dial is told
\* "connection closed" by the old one, never forgotten.)
NoLostWaiter == \A r \in Reqs : WaiterOK(r)

\* What a call returns is what happened to its own request: an answer is the
\* node's answer to this id, and ErrNotConnected (on which the subscription
\* operations change local state only) means that nothing was sent.
OutcomeHonest == \A r \in Reqs : HonestOK(r)

\* A call waiting on a connection that is lost returns, through the teardown
\* of that connection, even with a context that never ends.
DisconnectReleases ==
    \A r \in Reqs :
        (stage[r] = "waiting" /\ sentOn[r] = attempt /\ lost)
            ~> stage[r] = "returned"

\* sendRequest implements the contract of module Correlation.
OutcomeOf(r) ==
    IF result[r] = "none" THEN "open"
    ELSE IF result[r] \in Verdicts THEN result[r]
    ELSE IF result[r] = "notConnected" THEN "not sent"
    ELSE "unknown"

Abstract == INSTANCE Correlation WITH
    handed <- {r \in Reqs : sentOn[r] # 0},
    verdict <- answered,
    outcome <- [r \in Reqs |-> OutcomeOf(r)]

\* Every step of the machinery is a step of the contract, or none.
ImplementsCorrelation == Abstract!Spec
=============================================================================
