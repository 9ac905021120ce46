------------------------------ MODULE MCSlots ------------------------------
(* A catalogue slot that may lose the tag a routing slot selects, a routing *)
(* slot with and without a tun inbound, and the user's own slot.            *)
EXTENDS ConfigSlots, TLC
CONSTANTS cat, rt, usr

Doc(i, decl, sel, refs, tun) ==
    [id |-> i, decl |-> decl, sel |-> sel, refs |-> refs, tun |-> tun]

MCDocs ==
    (cat :> {Doc(1, {"x"}, {}, {}, FALSE), Doc(2, {}, {}, {}, FALSE)}) @@
    (rt  :> {Doc(1, {}, {"x", "direct"}, {}, FALSE), Doc(2, {}, {}, {"x"}, TRUE)}) @@
    (usr :> {Doc(1, {"y"}, {"x"}, {}, FALSE)})
=============================================================================
