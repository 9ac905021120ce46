------------------------------ MODULE FreshReads ------------------------------
(***************************************************************************)
(* What the NDMS read caches promise their callers, without saying how.    *)
(*                                                                         *)
(* A source holds versioned data per key.  A read begins, and ends with a  *)
(* version of its key or with an error.  floor[k] is the version an        *)
(* invalidation of k has guaranteed: a read that begins later never        *)
(* returns anything older.  An invalidation that no read of the key        *)
(* overlaps always raises the floor to the source's version; one that is   *)
(* overlapped may be undone by the overlapping read.                       *)
(***************************************************************************)
EXTENDS Naturals

CONSTANTS Keys, Readers, NoKey, NoResult, Error

VARIABLES src,      \* version of the source's data per key
          floor,    \* versions below this one are out of date for new reads
          key,      \* the key each reader is reading, NoKey when idle
          since,    \* the floor each read began with
          out       \* the result of each reader's last read

vars == <<src, floor, key, since, out>>

Init ==
    /\ src \in [Keys -> Nat]
    /\ floor = [k \in Keys |-> 0]
    /\ key = [r \in Readers |-> NoKey]
    /\ since = [r \in Readers |-> 0]
    /\ out = [r \in Readers |-> NoResult]

\* The source changes, possibly under several keys at once.
Write ==
    /\ src' \in [Keys -> Nat]
    /\ \A k \in Keys : src'[k] >= src[k]
    /\ UNCHANGED <<floor, key, since, out>>

Begin(r, k) ==
    /\ key[r] = NoKey
    /\ key' = [key EXCEPT ![r] = k]
    /\ since' = [since EXCEPT ![r] = floor[k]]
    /\ out' = [out EXCEPT ![r] = NoResult]
    /\ UNCHANGED <<src, floor>>

Invalidate(k) ==
    /\ \/ floor' = [floor EXCEPT ![k] = src[k]]
       \/ /\ \E r \in Readers : key[r] = k
          /\ UNCHANGED floor
    /\ UNCHANGED <<src, key, since, out>>

End(r) ==
    /\ key[r] # NoKey
    /\ \E v \in (since[r] .. src[key[r]]) \cup {Error} : out' = [out EXCEPT ![r] = v]
    /\ key' = [key EXCEPT ![r] = NoKey]
    /\ since' = [since EXCEPT ![r] = 0]
    /\ UNCHANGED <<src, floor>>

Next ==
    \/ Write
    \/ \E k \in Keys : Invalidate(k)
    \/ \E r \in Readers : End(r) \/ \E k \in Keys : Begin(r, k)

\* Every read that has begun ends.
Spec == Init /\ [][Next]_vars /\ \A r \in Readers : WF_vars(End(r))

=============================================================================
