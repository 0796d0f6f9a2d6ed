----------------------------- MODULE Correlation ------------------------------
(***************************************************************************)
(* What sendRequest promises its caller, with no connection in sight: a    *)
(* request is handed to the node at most once, the node answers at most    *)
(* once, and the call settles at most once, with the node's own answer, or *)
(* with "not sent" if it was never handed over, or with "unknown" (the     *)
(* context expired, the write failed, the connection went away).           *)
(*                                                                         *)
(* Requests implements this; Subscriptions is written against it.          *)
(***************************************************************************)
CONSTANT Reqs

VARIABLES
    handed,   \* the requests whose frame left for the node
    verdict,  \* verdict[r]: the node's answer, "none" until it answers
    outcome   \* outcome[r]: what the call returned, "open" until it does

corrVars == <<handed, verdict, outcome>>

Verdicts == {"ok", "error"}

Init ==
    /\ handed = {}
    /\ verdict = [r \in Reqs |-> "none"]
    /\ outcome = [r \in Reqs |-> "open"]

Transmit(r) ==
    /\ r \notin handed
    /\ outcome[r] = "open"
    /\ handed' = handed \cup {r}
    /\ UNCHANGED <<verdict, outcome>>

NodeAnswers(r, v) ==
    /\ r \in handed
    /\ verdict[r] = "none"
    /\ verdict' = [verdict EXCEPT ![r] = v]
    /\ UNCHANGED <<handed, outcome>>

Settle(r, o) ==
    /\ outcome[r] = "open"
    /\ o \in Verdicts => verdict[r] = o
    /\ o = "not sent" => r \notin handed
    /\ outcome' = [outcome EXCEPT ![r] = o]
    /\ UNCHANGED <<handed, verdict>>

Next ==
    \E r \in Reqs :
        \/ Transmit(r)
        \/ \E v \in Verdicts : NodeAnswers(r, v)
        \/ \E o \in Verdicts \cup {"not sent", "unknown"} : Settle(r, o)

Spec == Init /\ [][Next]_corrVars
=============================================================================
