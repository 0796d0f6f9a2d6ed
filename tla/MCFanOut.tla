------------------------------- MODULE MCFanOut -------------------------------
(* Bounds for FanOut: two consumers with channels of two events and two     *)
(* readers (the current one and one that outlived its connection) with two  *)
(* frames each, so that both events of a reader can be queued together,     *)
(* channels fill, subscriptions come and go between the sends of one        *)
(* fan-out, and fan-outs overlap.                                           *)
EXTENDS FanOut, TLC

CONSTANTS c1, c2, old, current

MCConsumers == {c1, c2}
MCReaders == {old, current}
=============================================================================
