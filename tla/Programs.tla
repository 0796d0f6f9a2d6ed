-------------------------------- MODULE Programs -------------------------------
(***************************************************************************)
(* The programs built on a Subscriber, over the connection and the         *)
(* requests of module Requests: the subscriber command (cmd/subscriber/    *)
(* run.go), its look-up commands (get_block.go, get_tx.go; examples/query  *)
(* is the same program) and examples/wait-for-event.  A behaviour runs one *)
(* of them.  Under the first, the dashboard's look-up handlers             *)
(* (web/handler/query.go) make requests of their own.                      *)
(*                                                                         *)
(* The end of main ends the process: what the goroutines do here after it  *)
(* may never happen, and nothing depends on it.                            *)
(***************************************************************************)
EXTENDS Requests

VARIABLES
    prog,    \* the program
    main,    \* where its main goroutine is, or how it ended
    landed,  \* the block or transaction waited for is on chain
    served,  \* the attempt whose subscription the node serves, or served last
    event,   \* where the event that announces the target is
    carrier  \* the attempt whose socket carries that event

progVars == <<prog, main, landed, served, event, carrier>>

allVars == <<vars, progVars>>

\* "print" and "quiet" are run with and without console output.
Programs == {"print", "quiet", "lookup", "wait"}

\* One request of main's own, under the context that ends the program.
OneShot == prog \in {"lookup", "wait"}

Exits == {"data", "failed", "seen", "timeout", "closed"}
Exited == main \in Exits

ProgInit ==
    /\ ReqInit
    /\ prog \in Programs
    /\ main = IF prog = "print" THEN "events" ELSE IF prog = "quiet" THEN "idle" ELSE "connect"
    /\ landed = FALSE
    /\ served = 0
    /\ event = "none"
    /\ carrier = 0

-----------------------------------------------------------------------------
(* The main goroutine.                                                     *)

\* Broken: the look-up does not wait for OnConnect.
ConnectedAtOnce(r) ==
    /\ main = "connect"
    /\ main' = "lookup"
    /\ Register(r)
    /\ UNCHANGED <<prog, landed, served, event, carrier>>

\* OnConnect has closed the channel: look the target up.
Connected(r) ==
    /\ main = "connect"
    /\ fired
    /\ main' = "lookup"
    /\ Register(r)
    /\ UNCHANGED <<prog, landed, served, event, carrier>>

ConnectTimeout ==
    /\ main = "connect"
    /\ ctxDone
    /\ main' = "timeout"
    /\ UNCHANGED <<vars, prog, landed, served, event, carrier>>

\* ErrRequestFailed: the node's error, and failAllPending's.
RequestFailed(r) == result[r] \in {"error", "closed"}

\* Broken: every program takes ErrRequestFailed for "not on chain yet".
LookedUpWaits(r) ==
    /\ main = "lookup"
    /\ stage[r] = "returned"
    /\ main' = IF result[r] = "ok" THEN "data"
               ELSE IF RequestFailed(r) THEN "events"
               ELSE "failed"
    /\ UNCHANGED <<vars, prog, landed, served, event, carrier>>

\* wait-for-event takes ErrRequestFailed for "not on chain yet".
LookedUp(r) ==
    /\ main = "lookup"
    /\ stage[r] = "returned"
    /\ main' = IF result[r] = "ok" THEN "data"
               ELSE IF prog = "wait" /\ RequestFailed(r) THEN "events"
               ELSE "failed"
    /\ UNCHANGED <<vars, prog, landed, served, event, carrier>>

\* Start closed the channel: it returned, and not because of a panic.
EventsClosed == pc = "returned" /\ err # "panic"

\* Broken: the loop over the events does not look at the context.
WaitDeaf ==
    /\ main = "events"
    /\ \/ prog = "wait" /\ event = "buffered" /\ main' = "seen"
       \/ event # "buffered" /\ EventsClosed /\ main' = "closed"
    /\ UNCHANGED <<vars, prog, landed, served, event, carrier>>

\* The loop over Events: of run, which ends when the channel is closed, and of
\* wait-for-event, which also looks at its context and for its target.
EventLoop ==
    /\ main = "events"
    /\ \/ prog = "wait" /\ ctxDone /\ main' = "timeout"
       \/ prog = "wait" /\ event = "buffered" /\ main' = "seen"
       \/ event # "buffered" /\ EventsClosed /\ main' = "closed"
    /\ UNCHANGED <<vars, prog, landed, served, event, carrier>>

QuietEnds ==
    /\ main = "idle"
    /\ ctxDone
    /\ main' = "timeout"
    /\ UNCHANGED <<vars, prog, landed, served, event, carrier>>

-----------------------------------------------------------------------------
(* The goroutines of the library, under these programs.                    *)

\* What the callback of each program does, and what it subscribes to: a one-shot
\* program closes its channel in OnConnect, and always has something to connect
\* for (its type, or WithQueryOnly).
ProgStart ==
    /\ ReqStartStep
    /\ pc = "callback" => fired' = OneShot
    /\ pc = "top" /\ OneShot => pc' # "park"
    /\ UNCHANGED progVars

\* An event still unread on the socket of c is lost with it.
ProgReadEnd(c) ==
    /\ ReqReadEnd(c)
    /\ event' = IF event = "wire" /\ carrier = c THEN "lost" ELSE event
    /\ UNCHANGED <<prog, main, landed, served, carrier>>

\* Broken: an event that nobody is waiting for is not kept.
ReadEventUnbuffered ==
    /\ event = "wire"
    /\ carrier \in reading
    /\ event' = IF main = "events" THEN "buffered" ELSE "lost"
    /\ UNCHANGED <<vars, prog, main, landed, served, carrier>>

\* fanOut: buffered, dropped by a full channel, or past closeSubscribers.
ReadEvent ==
    /\ event = "wire"
    /\ carrier \in reading
    /\ event' \in IF EventsClosed THEN {"lost"} ELSE {"buffered", "dropped"}
    /\ UNCHANGED <<vars, prog, main, landed, served, carrier>>

-----------------------------------------------------------------------------
(* The node, the clients of the dashboard, and the caller.                 *)

\* The node reads the handshake of the current socket (of wait-for-event: no
\* other program depends on when).
Serve ==
    /\ prog = "wait"
    /\ pc \in {"up", "callback", "stream"}
    /\ ~lost
    /\ served' = attempt
    /\ UNCHANGED <<vars, prog, main, landed, event, carrier>>

Serving == served = attempt /\ ~lost

\* The target comes on chain, and its subscribers are told.
Land ==
    /\ prog = "wait"
    /\ ~landed
    /\ landed' = TRUE
    /\ event' = IF Serving THEN "wire" ELSE "missed"
    /\ carrier' = IF Serving THEN attempt ELSE 0
    /\ UNCHANGED <<vars, prog, main, served>>

\* The node reads frames in the order they were sent, and answers a look-up by
\* what is on chain.
NodeAnswers(r, v) ==
    /\ prog = "wait" => served = attempt /\ (v = "ok" <=> landed)
    /\ Answer(r, v)
    /\ UNCHANGED progVars

\* A look-up of the dashboard: POST /api/block or /api/transaction.
WebLookup(r) ==
    /\ ~OneShot /\ ~Exited
    /\ Register(r)
    /\ UNCHANGED progVars

\* The caller's context: main's own, or that of an HTTP request, which ends
\* with the client's connection.
LookupCtxEnds(r) ==
    /\ OneShot => ctxDone
    /\ CtxExpires(r)
    /\ UNCHANGED progVars

\* A signal, the timeout of a one-shot program, or run's web server failing;
\* changes of the subscription come from the dashboard only.
ProgOther ==
    /\ Lose \/ Cancel \/ (~OneShot /\ BounceNow)
    /\ UNCHANGED <<reqVars, progVars>>

-----------------------------------------------------------------------------
MainStep ==
    \/ \E r \in Reqs : Connected(r) \/ LookedUp(r)
    \/ ConnectTimeout \/ EventLoop \/ QuietEnds

ProgNext ==
    \/ MainStep
    \/ ProgStart
    \/ \E c \in reading : ProgReadEnd(c)
    \/ ReadEvent
    \/ Serve \/ Land
    \/ \E r \in Reqs :
          \/ CallStep(r) /\ UNCHANGED progVars
          \/ Route(r) /\ UNCHANGED progVars
          \/ \E v \in Verdicts : NodeAnswers(r, v)
          \/ WebLookup(r)
          \/ LookupCtxEnds(r)
    \/ ProgOther

\* Requests' fairness; main and the reader run when they can, and a call whose
\* context is done sees it.
ProgSpec ==
    /\ ProgInit /\ [][ProgNext]_allVars
    /\ ReqFairness
    /\ WF_allVars(MainStep) /\ WF_allVars(ReadEvent)
    /\ \A r \in Reqs : WF_allVars(ctxDone /\ LookupCtxEnds(r))

-----------------------------------------------------------------------------
(* Properties.                                                             *)

\* The places main can be in, or end at.
Places ==
    IF prog = "print" THEN {"events", "closed"}
    ELSE IF prog = "quiet" THEN {"idle", "timeout"}
    ELSE IF prog = "lookup" THEN {"connect", "lookup", "data", "failed", "timeout"}
    ELSE {"connect", "lookup", "events"} \cup Exits

\* The variables have the types the programs give them, and each program is where
\* its own main can be: a look-up command never waits for events.
ProgTypeOK ==
    /\ ReqTypeOK
    /\ prog \in Programs
    /\ main \in Places
    /\ landed \in BOOLEAN
    /\ served \in 0 .. attempt /\ carrier \in 0 .. attempt
    /\ event \in {"none", "missed", "wire", "lost", "buffered", "dropped"}

\* How a program ends says what happened: it prints data only when the node
\* answered its own request with it, or a target that is on chain; it reports a
\* failure only when the node refused, the connection was lost or time was up;
\* and it stops listening for no other reason than its context.
ExitExplained ==
    /\ main = "data" => \E r \in Reqs : answered[r] = "ok"
    /\ main = "seen" => landed
    /\ main = "failed" =>
           ctxDone \/ faults > 0 \/ \E r \in Reqs : answered[r] = "error"
    /\ main \in {"timeout", "closed"} => ctxDone

\* Every program ends when its context is done: whether connecting, looking up,
\* waiting for events, or left alone by a Start that panicked (and closes no
\* channel).
ProgramEnds == ctxDone ~> Exited

\* Nobody disturbs the connection, and the channel keeps the event.
Undisturbed == faults = 0 /\ ~ctxDone /\ event # "dropped"

\* "Subscribing before querying closes the race" (wait-for-event/main.go:14-16):
\* once the node has answered the look-up, a target that landed before or lands
\* later is found, on a connection that holds.
TargetFound ==
    (prog = "wait" /\ landed /\ (\E r \in Reqs : answered[r] # "none") /\ Undisturbed)
        ~> (main \in {"data", "seen"} \/ ~Undisturbed)
=============================================================================
