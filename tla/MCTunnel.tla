------------------------------ MODULE MCTunnel ------------------------------
(***************************************************************************)
(* Values of the constants of TunnelOrchestrator for TLC: two kernel       *)
(* tunnels, kb bound to a WAN and kt not, one nativewg tunnel, two WANs.   *)
(* Each configuration picks the tunnels and events its question needs.     *)
(***************************************************************************)
EXTENDS TunnelOrchestrator, TLC

CONSTANTS kt, kb, nt, w1, w2, id1, id2

MCNdmsID == [w \in WANs |-> IF w = w1 THEN id1 ELSE id2]

MCISPInterface == [t \in Tunnels |-> IF t = kb THEN w1 ELSE AnyWAN]

\* Handlers are alike.
HandlerSymmetry == Permutations(Handlers)

=============================================================================
