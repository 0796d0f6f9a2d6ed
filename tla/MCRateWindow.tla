----------------------------- MODULE MCRateWindow -----------------------------
(* Bounds for RateWindow: a ring of three seconds and a clock long enough   *)
(* to age it out more than twice.                                           *)
EXTENDS RateWindow
=============================================================================
