-------------------------------- MODULE MCRead --------------------------------
(***************************************************************************)
(* ReadBatcher for TLC: three reads.  Two of them share a path or differ,  *)
(* the third is for a path that has no command.                            *)
(***************************************************************************)
EXTENDS ReadBatcher

CONSTANTS r1, r2, r3, p1, p2, bad

MCWants == [r \in Requests |-> CASE r = r1 -> {p1}
                                 [] r = r2 -> {p1, p2}
                                 [] r = r3 -> {bad}]
==============================================================================
