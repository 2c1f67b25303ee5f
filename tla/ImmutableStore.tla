--------------------------- MODULE ImmutableStore ---------------------------
(***************************************************************************)
(* What every cache tier promises (the contract of CacheBackend in         *)
(* domarinn-core/src/cache.rs): one entry per key, immutable.  A key       *)
(* without an entry may get one, a purge may remove entries, and nothing   *)
(* ever replaces an entry by another.                                      *)
(***************************************************************************)
CONSTANTS Keys, Entries, None

VARIABLE store

Init == store = [k \in Keys |-> None]

Write(k, e) == store[k] = None /\ store' = [store EXCEPT ![k] = e]

Remove(K) == store' = [k \in Keys |-> IF k \in K THEN None ELSE store[k]]

Next ==
    \/ \E k \in Keys, e \in Entries : Write(k, e)
    \/ \E K \in SUBSET Keys : Remove(K)

Spec == Init /\ [][Next]_store
=============================================================================
