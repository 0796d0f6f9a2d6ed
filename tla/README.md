# klever-subscriber: TLA+ models and proofs

klever-subscriber is a Go client of the `/subscribe` WebSocket of a Klever node, with a
command line and a web dashboard on top of it. This directory models the parts of it that
keep state and run concurrently, checks them with TLC on small instances, and proves the
central invariants with TLAPS for all instances.

Line numbers refer to the sources under `src/`; `PROJECT.json` maps every definition that
stands for code to its lines, and lists the hazards the properties are aimed at.

## 1. The system

| Part | State | Operations | Talks to |
|---|---|---|---|
| **Connection** `subscriber/connection.go` | `activeConn`, `connected`, `connCancel`, `reconnectCh` (capacity 1), one reader and one ping goroutine per connection | `Start` (the reconnect loop), `connect` (one attempt) | node (WebSocket), everything below |
| **Keepalive** `subscriber/connection.go:101-172` | the read deadline, the ping ticker, `connWriteMu` while a write does not return | the pong handler, the ping goroutine, `writeMessage` | node, every writer |
| **Requests** `subscriber/request.go`, `query.go` | `pending` (id to reply channel), `nextID` | `sendRequest`, `routeResponse`, `failAllPending`, `writeMessage` | reader goroutine, teardown of `connect` |
| **Subscription set** `subscriber/subscription.go`, `helpers.go` | `types`, `addresses`, under `mu`; `reconfigureMu` orders the operations | `Reconfigure`, `AddSubscriptions`, `RemoveSubscriptions` | Requests (live change) or `connCancel` + `reconnectCh` (bounce) |
| **Fan-out** `subscriber/subscriber.go` | `subscribers`, a list of channels of 256 | `Subscribe`, `Subscription.Close`, `closeSubscribers`, `fanOut` | readers on one side, consumers on the other |
| **Event decoding** `subscriber/event.go` | none | `DecodeEvent`, `ValidEventTypes` | reader |
| **Broker** `web/broker/` | `clients`, `sseCount`, event counters, the stats loop's `lastConnected` and `lastPush` | `HandleSSE`, `ProcessEvents`, `StartStatsLoop`, `snapshot`, `broadcast` | Fan-out (one Subscription), `Connected()`, SSE clients |
| **Rate window** `web/broker/broker.go:160-211` | `rateBuckets`, `rateAnchor` | `bumpRate`, `rateSnapshot` | Broker |
| **Dashboard** `web/handler/`, `web/server.go`, `web/static/app.js` | per tab: `serverTypes`, `serverAddresses` | GET and POST `/subscription`, `/subscribe`, `/unsubscribe`, the `subscription` SSE frame | Subscription set, Broker |
| **Programs** `cmd/subscriber/`, `examples/` | where the main goroutine waits | `run`, `get-block`, `get-tx`, `query`, `wait-for-event` | Subscriber, Requests, Fan-out |
| **Browser example** `examples/browser/` | socket, pending map, timers, in JavaScript | `connect`, `subscribe`, look-ups | node |

What is hard here: `Start` runs one attempt after another while operations capture a
`connCancel` and call it later; a reader may outlive its connection (after a cancel `connect`
waits one second for it, connection.go:237-240); one `pending` map serves all connections; the
same facts (connected, the socket, the set in the handshake, the set in memory, the set at the
node) live in different variables under different locks; and every queue drops when full.

What makes each part correct:

* Connection: only the context ends it; cancelling always ends it; it never stays on a dead or
  cancelled connection; `Connected()` means there is a socket to write to.
* Keepalive: a peer that answers its pings is never given up, a silent one always is, and
  nothing but a write that does not return holds up the teardown of a connection.
* Requests: every call returns its own answer or an error, once; no waiting call is forgotten
  when its connection goes away; `ErrNotConnected` means that nothing was sent (the
  subscription operations rely on that).
* Subscription set: when nothing is in flight, the node has what the client wants; `Start`
  does not sleep while there is something to subscribe to.
* Fan-out: no send on or second close of a closed channel; a full consumer costs the others
  nothing; nobody is passed over because somebody else unsubscribed; every range loop ends.
* Broker: the client limit holds and no slot leaks; no event between a tab's first stats frame
  and its live stream is missed; stats are consistent; the connection state is shown in the end.
* Rate window: each bucket holds its own second's events.
* Dashboard: tabs show the current set.
* Programs: each ends when its context does, and how it ends is true; `wait-for-event` cannot
  miss its target while the connection holds.

## 2. The modules

`Connection` is the base; `Requests` and `Subscriptions` EXTEND it and conjoin their own
effects to the steps of `Start` they take part in; `Programs` EXTENDS `Requests` in the same
way. The other modules stand alone. Actions keep the names of the functions
they model where there is one.

| Module | Models | State and actions |
|---|---|---|
| `Connection` | `Start`, `connect`, the reader's life, bounces, cancellation, lost sockets, the panic recovery | `pc` is the statement `Start` is at; an attempt number names a socket, so `activeConn` is 0 or an attempt and a lingering reader is a member of `reading` other than `attempt`. One action per statement that touches shared state |
| `Correlation` | the contract of `sendRequest`, with no connection in sight | `Transmit`, `NodeAnswers`, `Settle` |
| `Requests` | `sendRequest`, `routeResponse`, `failAllPending` over `Connection` | `stage[r]` is where the call is; `reply[r]` is its one-slot channel. `Teardown` of connect is conjoined with `FailAllPending`, `ReadEnd` with the loss of what the socket carried |
| `Subscriptions` | the three operations and the node's view, over `Connection` | `op` is the operation that holds `reconfigureMu`, with the frames it still has to send; `wire` and `node` belong to the current socket. A request is taken by the contract of `Correlation` |
| `FanOut` | list and channels, readers and consumers | `next[r]` is the loop index of `fanOut`, which holds the read lock while it is not 0 |
| `RateWindow` | the ring and its two users | calls use a reading of the clock taken up to `MaxLag` seconds before |
| `Broker` | HandleSSE, ProcessEvents, the stats loop | `tab[t]` is where HandleSSE is; counters are read and written one at a time |
| `Dashboard` | POST handlers with their failures, broadcast, a tab's GETs, which overlap when it is refreshed, SSE registration, frames and dropped streams | `stage[c]` is where the handler of call `c` is, `load[g]` where GET `g` is, `view[t]` what the tab shows; `clean` names the GETs that nothing has disturbed; `Fail`, `LoadFails`, `ApplyAnswer` (an answer may be lost) and `StreamDrops` are what goes wrong, `Refresh` and `ApplyLoad` what repairs it |
| `Keepalive` | one connection in time | `idle` is the age of the read deadline, `since` that of the ping ticker, `flight` the ages of the pings whose pong is awaited; `holder` is who is stuck in a write under `connWriteMu`. `Tick` is the clock, which stands still while a goroutine can run |
| `Programs` | the main goroutines, over `Requests` | `main` is where main is or how it ended; `event` is where the event that `wait-for-event` waits for is |
| `ConnectionProofs`, `SubscriptionsProofs`, `FanOutProofs`, `BrokerProofs`, `RateWindowProofs`, `DashboardProofs`, `KeepaliveProofs` | theorems about the module they are named after | |
| `RequestsProofs` | theorems about `Requests` and about `Programs`, which stands on it | |
| `MC*` | the bounds of the runs | |

Definitions whose comment begins with "Broken:" are not part of the model. Each is a variant of
the definition that follows it with a plausible mistake in it, used to see that the property it
is paired with in `PROJECT.json` ("mutants") notices the mistake.

Abstractions worth knowing:

* Connection: a dial takes no context in the code (connection.go:84), so a cancelled attempt
  still connects in the model. An expired read deadline and a failed write are ways of losing
  the socket (`Lose`), and writes return: `Keepalive` is about when the deadline does expire and
  about writes that do not return. `OneShotOnConnect` allows OnConnect to be
  a callback that works once only, as `close(connected)` in get_block.go:36 is.
* Requests: ids are never reused, so a request is its id. An answer may be delivered by the
  reader of the connection that carried the request even after the next connection is up.
* Subscriptions: the node reads frames in order; it answers a request with an error or
  applies it and answers; a first frame that is not a handshake makes it close the socket; an
  unsubscribe with both dimensions may drop the type only (the comment at
  subscription.go:42-45). All of this is external and mapped as such.
* Broker: a broadcast is one step, because registration needs the write lock of the lock it
  holds shared and what a tab gets does not depend on when the others get theirs.
* Dashboard: a change of the set is one step; how it reaches the node is `Subscriptions`. The
  sets that requests make current are given (`Asked`). A fetch that fails does so when it would
  have answered, which is when the tab learns of it; the variables of a request or GET that is
  over are reset, since nobody reads them.
* Keepalive: what goroutines do takes no time, but for the user's OnConnect; the one second of
  `Drain` and the retry of `Start` are not on this clock. A peer is alive (answers pings within
  `MaxDelay`), gone (reads and answers nothing, and may return) or closed. The assumption
  `MaxCallback + MaxDelay < PingInterval` is what the code's timing needs: the deadline is set
  at connection.go:105, before OnConnect, and the first ping comes an interval after it.
* Programs: the end of main ends the process; the goroutines of the library go on in the model,
  and nothing depends on what they do. Only `wait-for-event` looks at events one by one, so
  only there the node serves and announces.

## 3. Runs

All bounds are CONSTANTS given in the `.cfg` files. Deadlock checking is off everywhere because
each of these systems may legitimately come to rest: Start returns, calls and events run out.

| Run | Instance | Shows |
|---|---|---|
| `MCConnection` | 3 faults, 3 bounces, fragile callback | `ConnectedImpliesInstalled`, `ReturnOnlyOnCancel`, `ShutdownCompletes`, `Converges` |
| `MCRequests` | 2 calls, 1 fault, 1 bounce, no cancellation | `NoLostWaiter`, `OutcomeHonest`, `ImplementsCorrelation` (refinement) |
| `MCSubscriptions` | 2 operations out of 3 kinds, 4 argument sets, 2 types, 1 address, 1 fault | `Agreement`, `NoLostWakeup`, `Reconciles` |
| `MCRateWindow` | 3 buckets, 8 seconds, 4 events, lag 1 | `RingMatchesHistory`, `RateIsTrailing`, `AgedIsIteratedAge`, `NeverOverCounts` |
| `MCFanOut` | 2 consumers, 2 readers with 2 frames each, channels of 2 | `NoChannelPanic`, `NobodySkipped`, `InOrder`, `ConsumersEnd` |
| `MCBroker` | 2 tabs, 1 slot, 1 counter, 1 event, 1 flip, channels of 1, a heartbeat every 2 probes | `NoGap`, `StatsConsistent`, `CapacityHeld`, `NoSlotLeak`, `ConnectionShown` |
| `MCDashboard` | 1 tab, 2 calls, 2 GETs, 2 values in each dimension, channel of 2, 1 dropped stream | `SerialTabsInSync` |
| `MCKeepalive` | ping interval of 4 ticks, pongs within 2, OnConnect within 1, room for 1 frame | `LivePeerKept`, `SilenceNoticed`, `TeardownWaitsForWriterOnly` |
| `MCPrograms` | 4 programs, 1 request, 1 fault, 1 bounce | `ExitExplained`, `ProgramEnds`, `TargetFound`, `DisconnectReleases` |
| `MCConnectionBlocks` | as MCConnection | violation of `BlocksUntilCancelled` |
| `MCConnectionErrors` | as MCConnection | violation of `ConnectErrorsReported` |
| `MCDashboardSync` | as MCDashboard, channel of 1, no dropped stream | violation of `TabsInSync` |

Each run that passes also checks the module's type invariant. `DisconnectReleases` is a property
of `Requests`; it is checked in `MCPrograms`, whose dashboard look-ups are the calls whose
context may never end.

Why the bounds are enough. A connection interferes with its successor only, so what matters is
a bounce or loss on top of a retry, with an old reader still running: three faults and three
bounces give several of those, and one of each already gives every pair in `Requests`. Two
calls are enough to confuse one call's answer with another's. Two subscription operations are
the smallest number at which the first can leave something (a token, a parked Start, a
half-applied set, a captured connCancel) for the second to trip over; `reconfigureMu` keeps a
third from overlapping with the second. Four argument sets empty the set, restore it, and
change one dimension or both. In `MCSubscriptions` the caller does not cancel (`MayCancel`):
shutting down is the subject of `MCConnection`, and a client that is shut down has no
subscription set to agree on. Nor does it in `MCRequests`, where a bounce cancels connCtx in
the same way; `MCPrograms` has the cancelled caller over the same requests. Channels of capacity one drop
events and frames at once. Those of `MCFanOut` hold two of its four events, so that both events
of a reader can be queued together, in front of or behind those of the other, and still fill. With two
tabs and one slot a tab is refused while the other opens, streams or leaves; one event and one
flip, at any moment, straddle every first frame, snapshot and heartbeat. The clock of
`MCRateWindow` runs past two whole windows. In `MCDashboard` one
GET opens the tab and the other refreshes it, at any time: while the first is under way, or after
a change, a lost answer or a dropped stream that it then has to repair. The channel holds the frames of both
changes, so that the earlier one is applied when the later has been answered already; a full one
is left to `MCDashboardSync` and to the proof, which has any capacity. The ticks of `MCKeepalive` are the
smallest at which a pong can be late, a callback slow and a deadline missed by one; peers go
and come back any number of times. One request is all a one-shot program makes; a fault and a
bounce put a lost look-up, a reconnection and an event between the two within reach.

### Fairness

* Weak fairness of the Start goroutine, of readers, of the goroutine inside `sendRequest` and
  of the operation that holds `reconfigureMu`: the Go scheduler runs goroutines that can run,
  and the locks they take are held for a few statements only. It is fairness of the whole
  goroutine, not of each branch of a select: nothing says which ready branch is taken.
* `Backoff` leaves through its timer, and `Drain` through its own one-second timer.
* The node owes nothing in `Requests`: it may never answer, and the caller's context may never
  end. `DisconnectReleases` holds all the same. In `Subscriptions` a node whose socket is alive
  eventually reads it; without that nothing can be said about what the node has.
* `FanOut`: a fan-out that began continues, a consumer keeps ranging over its channel.
* `Broker`: the probe ticker ticks, a served tab keeps reading.
* `Keepalive`: the goroutines run, a pong in flight arrives, time passes. A silent peer owes
  nothing: it need not come back, nor the kernel give it up.
* `Programs`: as `Requests`; main and the reader run when they can, and a call sees that its
  context is done (a select on `ctx.Done()`). Nodes need not answer and targets need not land.
* Faults, cancellation, calls, events, flips: no fairness. `Converges`, `Reconciles` and
  `ConnectionShown` speak of what happens after the bounded number of them is used up.

## 4. What the runs found

Three statements of the documentation that the code does not keep, each with a run:

* *Start blocks until cancelled* (README.md:145). A one-shot OnConnect callback, which three
  programs of the repository use, panics on the second connection. The recovery at
  connection.go:13-17 returns from Start: channels stay open, `connected` stays TRUE.
  `ReturnOnlyOnCancel` and `ConnectedImpliesInstalled` say that this is the only way.
* *OnError is called on errors* (README.md:161). `connCancel()` precedes the test
  `connCtx.Err() == nil` (connection.go:46, 62), so connect's errors are never reported.
* *Every open tab stays in sync* (broker.go:213-216). Overlapping changes are read back and
  broadcast outside the lock that orders them. `SerialTabsInSync` says what is left: a tab
  agrees when changes do not overlap, none fell into the opening of the tab (app.js:501-502
  start the GET and the SSE connection together), and no channel was full. A GET that
  nothing disturbs repairs whatever went wrong before (`clean`: no change is under way or made
  until its answer is applied, no frame of an earlier one is queued when it is sent, and no older GET
  is out that is not clean as well).

Others the models record without a run of their own:

* A request can be the first frame of a socket, because `activeConn` is installed at
  connection.go:90 and the handshake is written at 133. The node then closes the connection
  (`NodeReadsFirst`); `Reconciles` says that the next one recovers.
* `Agreement` and `Reconciles` hold only outside four situations, recorded in `excuse` since
  the last handshake was composed. Each of them occurs, and strikes alone:
  `staleAck` (an acknowledgement from a connection that is gone is committed,
  subscription.go:68 and 128, or committed while Start goes to park, when nothing wakes it);
  `offlineRemove` (RemoveSubscriptions without a socket bounces nothing, 152-158, although an
  attempt may already carry the old set); `unacknowledged` (Add and Remove return an error
  for a request the node did apply, 126 and 159); `mixed` (Remove sends both dimensions in one
  unsubscribe, 147-150, which the comment at 42-45 calls ambiguous).
* A peer that stops reading without closing can block a write, and with it `connWriteMu`
  (connection.go:255; writes have no deadline). The reader's deadline passes (`SilenceNoticed`),
  but the deferred cleanup needs the mutex (connection.go:93-99) before it closes the socket,
  which is what would end the write: connect does not return, and Start neither dials again nor
  ends when cancelled, until the kernel gives the peer up. `TeardownWaitsForWriterOnly` says
  that nothing else holds it up.
* The read deadline runs while OnConnect does, and nobody reads meanwhile. `LivePeerKept` needs
  a callback shorter than a ping interval less the delay of a pong; a longer one loses a peer
  that answers.
* `wait-for-event` takes every ErrRequestFailed for "not on chain yet", the "connection closed"
  of failAllPending included (request.go:86, wait-for-event/main.go:88-95): after a lost look-up
  it waits for an event that may be past. `TargetFound` therefore asks for a connection that
  holds; otherwise the program ends with its timeout (`ProgramEnds`).
* The command without `--quiet` ends when its event channel is closed only. A Start that ended
  by the panic recovery closes nothing; run's own callback is not a one-shot one, so
  `ProgramEnds` holds.
* The refresh button sends a GET whatever is under way (app.js:229-231), and the answer that comes
  last is shown (213-227). An old one that read the set before a change can overwrite what a
  later, undisturbed one has repaired, and stays until the next change or refresh. `clean`
  leaves exactly that out: without its last condition TLC finds this trace.
* A tab whose EventSource reconnects loads nothing again (app.js:469-503): what changed in
  between shows after the next change or refresh.
* The placeholder handshake of a client without types (connection.go:113-126) carries the
  client's addresses, where the comment says that it carries none.
* A rate snapshot with a reading one second old sets `rateAnchor` back (broker.go:205), and the
  next call ages every bucket once too often: `lagged` in `RateWindow`. Events are lost to the
  rate early, never counted twice.

## 5. Proofs

| Theorem | States, for every value of the constants |
|---|---|
| `ConnTypeCorrect`, `ConnectedInstalled`, `ReturnsOnlyWhenCancelled` | `ConnSafety => []ConnTypeOK`, `[]ConnectedImpliesInstalled`, `[]ReturnOnlyOnCancel` |
| `BlocksUnlessOneShot` | `ConnSafety => []BlocksUntilCancelled`, if OnConnect may run more than once |
| `ErrorsNeverReported` | `ConnSafety => []~reported` |
| `ShutdownIsBounded` | `ConnSafety => ShutdownBounded`: Start returns within fifteen of its steps |
| `ReqTypeCorrect`, `NoWaiterIsLost`, `OutcomesAreHonest` | `ReqSafety => []ReqTypeOK`, `[]NoLostWaiter`, `[]OutcomeHonest` |
| `RequestsImplementCorrelation` | `ReqSafety => Abstract!Spec`: the refinement |
| `RequestsRunOnConnection`, `ProgramsRunOnRequests` | `ReqSafety => ConnSafety`, `ProgSpec => ReqSafety`: what is proved below holds above |
| `ProgTypes`, `ExitsAreExplained` | `ProgSpec => []ProgTypeOK`, `[]ExitExplained` |
| `RaceIsClosed` | `ProgSpec => []RaceClosed`: listening before asking closes the race of `wait-for-event` |
| `SubTypeCorrect`, `NoWakeupIsLost`, `ClientAndNodeAgree` | `SubSafety => []SubTypeOK`, `[]NoLostWakeup`, `[]Agreement` |
| `AnswersAreMatched` | `SubSafety => AnswersMatch`: one answer per frame, to this frame, on this socket |
| `PlanReachesTarget` | the frames of Reconfigure turn any old set into any new one |
| `ConnectionIsKept`, `ShutdownIsBoundedUnderOperations` | `SubSafety => []ConnectedImpliesInstalled`, `[]ReturnOnlyOnCancel`, `ShutdownBounded` |
| `FanOutTypeCorrect`, `NoPanic`, `OrderIsKept`, `NobodyIsSkipped` | `SafetySpec => []TypeOK`, `[]NoChannelPanic`, `[]InOrder`, `[]NobodySkipped` |
| `ClosedChannelsDrain` | `SafetySpec => []NoOrphan /\ OnlyDrains`: a subscribed channel is listed or closed, and a closed one only drains |
| `BrokerTypeCorrect`, `SlotsComeBack`, `CapacityIsHeld`, `NothingIsMissed`, `StatsAddUp` | `SafetySpec => []TypeOK`, `[]NoSlotLeak`, `[]CapacityHeld`, `[]NoGap`, `[]StatsConsistent` |
| `RingIsExact`, `RateIsExact`, `NoEventCountedTwice`, `RateTypes` | `Spec => []RingMatchesHistory`, `[]RateIsTrailing`, `[]NeverOverCounts`, `[]TypeOK` |
| `AgeingAtOnce` | `Spec => []AgedIsIteratedAge`: the closed form of ageing is the loop of the code |
| `DashboardTypes`, `SerialTabsStayInSync` | `Spec => []TypeOK`, `[]SerialTabsInSync` |
| `KeepaliveTypeCorrect`, `LivePeersAreKept` | `SafetySpec => []TypeOK`, `[]LivePeerKept` |
| `SilenceIsNotPutOff` | `SafetySpec => SilenceCounts`: while the peer is gone only the clock moves the read deadline, and only nearer |

The type invariants carry the facts of their own module as well: the installed socket is the
current attempt's (`ConnTypeOK`), a call that has returned is not in the map (`ReqTypeOK`), a
main is only where its program can be (`ProgTypeOK`), offers go to registered tabs (`TypeOK` of
`Dashboard`).

They rest on the named assumptions about the constants (`ConnectionAssumption`,
`SubscriptionsAssumption`, `FanOutAssumption`, `BrokerAssumption`, `RateAssumption`,
`KeepaliveAssumption`, `DashboardAssumption`), which TLC evaluates in every run, and on nothing else. Sets of requests,
consumers, readers and tabs are arbitrary.

*Connection.* That `connected` implies an installed socket depends on where Start is, so the
invariant is strengthened to `ConnInd`: in which locations the socket is installed
(`PhaseOK`), in which `connected` may be TRUE (`ConnectedPhase`), that an error "panic" occurs
only while connect unwinds (`PanicOnlyOneShot`) and that "finish" is reached on a done context
only (`FinishOnlyOnCancel`). The step lemma has one case per action. `ConnSafety` is `ConnSpec`
without its fairness. Two theorems bear on the disagreements of section 4: `ErrorsNeverReported`
says that what `MCConnectionErrors` shows once is so in every behaviour, `BlocksUnlessOneShot`
that the callback is the only cause of what `MCConnectionBlocks` shows. The shutdown is measured
by `StepsLeft`, a number for each location that every step of Start on a done context lowers and
no other step raises: `ShutdownCompletes` without the fairness.

*Requests.* A step of `Requests` is a step of `Connection` or leaves it alone
(`ReqStepIsConnStep`), so `ConnInd` is inherited. `NoLostWaiter` is not inductive: a call that
is registered but has not written yet must already be promised a reply (`Promised`), and every
step but the teardown must keep the carrier of a waiting call (`CarrierKept`, from `PhaseOK`).
`OutcomeHonest` needs that replies and answers in flight are the node's (`AnswerOK`). The
refinement uses the same invariant: a call leaves with a result its state entitles it to
(`LeaveSettles`).

*Programs.* A step of a program is a step of `Requests` (`ProgStepIsReqStep`), so everything
above holds under it. `ExitExplained` says that nothing fails that was not disturbed, which is a
fact about the whole stack: as long as the program is a one-shot one, its context lives and no
socket was lost (`Calm`), Start has got no further than the stream of its first attempt and no
call has been told anything but the node's answer (`Steady`). `RaceClosed` looks at the moment
after the target landed: if the node had said yes, the data is with main or on its way
(`AnswerComing`); if it had refused, the event is (`EventComing`). It needs that a refusal comes
from the node of this very connection, which announces on it what lands later (`Informed`), and
that main left its look-up for the reason the node gave (`PastLookup`).

*Subscriptions.* A step is one of `Connection`, a bounce with a connCancel captured earlier, or
the node closing the socket; `ConnInd` survives all three (`SubStepConn`). The shape of the
operation in progress follows from its stage (`OpShape`): an operation that waits for an answer
has frames left, and one that commits without an acknowledgement is a Reconfigure to the same
set, which is why `PlanTyped` looks at what a plan contains. `NoLostWakeup` becomes inductive
with one moment left out, between the persisting of a set and the bounce (`WakeInd`): Start
looks at the set before it parks, and whatever adds to the set afterwards leaves a token.
`Agreement` speaks of quiet states only; `AgreeInd` says what leads there. Until something dooms
the connection (its context is done, a slow path is about to bounce it, a weakness struck), the
wire holds the handshake and the one request that waits, whichever the node has not read
(`Expected`), or a request went out before the handshake and the node will close the socket
(`Misfit`). What the node has, or will have from the handshake, is the client's set until it
carries out a first request of the operation, and from then on becomes the operation's target
once the rest of the plan is applied (`ValuesOK`). `PlanReachesTarget` is the fact about the plan:
carried out in full, the at most three frames of Reconfigure turn the old set into the new one.
`AnswersMatch` rests on ids (`IdInd`): no frame on the wire bears one that is still to be given
out, and the frame with the id of the waiting call is the one it sent, once, on this socket.

*FanOut.* A channel is in the list at most once, and only between its Subscribe and its close
(`Once`, `ListInv`), from which no send and no close can panic. For the order, the events a
consumer has got of a reader are behind the reader's frame, or its turn in the current loop is
over (`Behind`). Nobody is skipped because an event that is owed is delivered, refused, or due:
the loop still runs and the consumer's place is ahead of it (`DebtInv`); the list cannot change
under a loop, which holds the read lock. `NoOrphan` is both halves of what `Close` and
`closeSubscribers` do at once: who leaves the list is closed, who is closed has left it.

*Broker.* `SlotInv` ties the count to the set of handlers that hold a slot, and bounds the seated
ones, a subset; it is where cardinalities are needed. `NoGap` rests on a promise (`GapInv`): from the
moment a snapshot has read `total`, every later event is on its way to the tab, received or
refused; the promise starts at the snapshot and is handed to the first frame. `StatsConsistent` compares
one number read last with a sum of numbers read one at a time before it. The invariant
(`CountInv`) gives the sum a meaning it has at no single moment: the counters stand for sets of
events that do not overlap (`Counted`), what a snapshot has summed up is the size of a part of
their union, and once it has read the total that part lies within it (`Summed`).

*RateWindow.* `ExactRing` becomes inductive with what it leaves out: an empty ring before the
first event and no event newer than the anchor. `AgedIsTrailing` is the arithmetic: ageing an
exact ring by the seconds that passed gives an exact ring. Both theorems carry the condition
`~lagged` inside the property; `NeverOverCounts` has no such condition. It compares sums over the
ring, which `Total` defines recursively: induction here is over a set of numbers
instead of a predicate (`NatInduct`, from the well-foundedness of `<`), first for the existence of
the prefix sums (`PrefixSumExists`), then for what a bump and an ageing do to them.
`AgeingAtOnce` is the same induction over the rounds of the loop.

*Dashboard.* `SerialTabsInSync` speaks of quiet states. `TabInv` says how they come about for a
tab that missed nothing since it applied its last clean GET (`Follows`): at most one handler is at
work; what it has read is current and it has told the tab, or still will (`Telling`); without
one, what the tab's frames leave behind is current (`Told`). A clean GET has read nothing but the
current set, and while one is out no handler is at work, no frame is queued and no other GET of the tab
can say anything else (`Repairs`, `Current`); so its answer makes a tab that
follows out of one that did not, and the answers of the other clean GETs, in whatever order they
come, change nothing.

*Keepalive.* Two clocks are related: between pings the deadline is at most `MaxCallback` older
than the ticker (`BetweenPings`), and while a pong is awaited one interval more
(`AwaitingPong`); with `MaxCallback + MaxDelay < PingInterval` that stays below two intervals.
`SilenceCounts` needs no more than that no pong is on its way from a peer that is gone.

Every invariant and every action property of a passing run is proved, and so is the
refinement. Only model-checked are the liveness properties (fairness and ENABLED are out of the
prover's reach), most of them with a proved core, which is the part that does not need fairness:

| Liveness property | Proved core |
|---|---|
| `ShutdownCompletes` | `ShutdownIsBounded`: no step takes Start back |
| `Reconciles` | `NoWakeupIsLost`, `ClientAndNodeAgree`: no quiet state but an agreed one |
| `ConsumersEnd` | `ClosedChannelsDrain`: a channel that left the list is closed and gets nothing more |
| `TargetFound` | `RaceIsClosed`: the news is with main or on its way |
| `ProgramEnds` | `ExitsAreExplained`: there is no other end |
| `DisconnectReleases` | `NoWaiterIsLost`: the teardown that releases a waiting call is still to come |
| `SilenceNoticed` | `SilenceIsNotPutOff`: the deadline only comes nearer |
| `Converges`, `ConnectionShown`, `TeardownWaitsForWriterOnly` | none |

## 6. Not modelled, and why

* Event decoding, query parameters, HTTP validation and middleware: pure functions of one
  message, covered by unit tests.
* The browser example client: JavaScript outside the library, sharing no code with it. Its
  hazards are listed in `PROJECT.json`.
* A callback that calls back into the Subscriber: OnConnect runs before the reader starts, so a
  request issued in it waits until its context ends. No program of the repository has one.
* How long a dynamic change from the web waits under `reconfigureMu` for a silent node: it ends
  with the browser's request; `Subscriptions` lets every wait end.
* Rendering, flags, signals, printing, the routing table and headers of the web server.

## 7. What is left

1. Proofs: the safety part of `TeardownWaitsForWriterOnly` (connect moves forward only, and its
   cleanup waits for nothing but the holder of `connWriteMu`) and of `ConnectionShown`.
2. `JsClient` (examples/browser/klever-subscriber.js): the connect promise, two sockets whose
   handlers share `_ws` and the pending map, request timers.
