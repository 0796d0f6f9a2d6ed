------------------------------ MODULE MCKeepalive -----------------------------
(* Bounds for Keepalive: a ping interval of four ticks, pongs within two,    *)
(* OnConnect within one (the longest the assumption allows), and room for    *)
(* one frame towards a peer that does not read, so that a ping, a request, a *)
(* handshake and a close frame can each be the write that blocks.  Peers go  *)
(* and come back any number of times.                                        *)
EXTENDS Keepalive
=============================================================================
