------------------------------ MODULE MCPrograms ------------------------------
(* Bounds for Programs: one request (main's own, or one of the dashboard's), *)
(* a connection that can be lost and come back, and one bounce by the        *)
(* dashboard.                                                                *)
EXTENDS Programs

CONSTANT r1

MCReqs == {r1}
=============================================================================
