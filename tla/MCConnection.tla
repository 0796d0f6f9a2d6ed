----------------------------- MODULE MCConnection -----------------------------
(* Bounds for Connection: MCMaxFaults dial failures or lost sockets and     *)
(* MCMaxKicks bounces, enough for a bounce to hit an attempt that is itself *)
(* a retry, with a reader of an older attempt still running.                *)
EXTENDS Connection

MCMaxFaults == 3
MCMaxKicks == 3
=============================================================================
