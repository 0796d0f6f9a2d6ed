------------------------------- MODULE MCBroker -------------------------------
(* Bounds for Broker: two tabs for one slot, so that a tab is refused while  *)
(* the other streams or leaves; one event, with or without a counter of its  *)
(* own, and one change of the upstream connection, which every first frame,  *)
(* snapshot and heartbeat can straddle; and channels of one frame, so that   *)
(* events and stats frames push each other out.                              *)
EXTENDS Broker

CONSTANTS t1, t2, blocks

MCTabs == {t1, t2}
MCKinds == {blocks}
=============================================================================
