--------------------------- MODULE MCSubscriptions ----------------------------
(* Bounds for Subscriptions: one plain type, the placeholder type and one   *)
(* address; two calls, given sets that add, remove and replace in one       *)
(* dimension or in both, and that empty the set.                            *)
EXTENDS Subscriptions

CONSTANTS blocks, accounts, a

MCTypes == {blocks, accounts}
MCAddrs == {a}
MCInitial == [types |-> {blocks}, addrs |-> {a}]
MCArgs ==
    {[types |-> {}, addrs |-> {}],
     [types |-> {blocks}, addrs |-> {}],
     [types |-> {blocks}, addrs |-> {a}],
     [types |-> {accounts}, addrs |-> {}]}
MCKinds == {"reconfigure", "add", "remove"}
=============================================================================
