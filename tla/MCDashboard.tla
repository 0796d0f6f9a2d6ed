------------------------------ MODULE MCDashboard -----------------------------
(* Bounds for Dashboard: one tab (what a tab is sent does not depend on the *)
(* others; a change made elsewhere has the caller NoTab), two calls and two *)
(* values per dimension, so that a stale frame, a stale answer and a torn   *)
(* pair can be told from the current set.                                   *)
EXTENDS Dashboard, TLC

CONSTANTS t1, get1, get2, post1, post2, old, new

MCTabs == {t1}
MCGets == {get1, get2}
MCCalls == {post1, post2}
MCValues == {old, new}
MCAsked == {[types |-> v, addrs |-> v] : v \in MCValues}
MCSymmetry == Permutations(MCCalls) \cup Permutations(MCGets)
=============================================================================
