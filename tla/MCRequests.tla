------------------------------ MODULE MCRequests ------------------------------
(* Bounds for Requests: two calls over a connection that can be lost and    *)
(* bounced, so that a call can straddle the teardown of one socket and the  *)
(* installation of the next.  The teardown is that of a lost connection or  *)
(* of a bounce; MCPrograms adds a caller who cancels.                       *)
EXTENDS Requests, TLC

CONSTANTS r1, r2

MCReqs == {r1, r2}
ReqSymmetry == Permutations(MCReqs)
=============================================================================
