----------------------------- MODULE OrderedMap -----------------------------
(***************************************************************************)
(* What a B+ tree promises its callers (aster-storage/src/btree.rs): a map *)
(* from keys to values in which an insertion changes one key and a         *)
(* deletion removes one key, whatever splitting, unlinking and collapsing  *)
(* of pages they cause.                                                    *)
(***************************************************************************)
EXTENDS TLC

CONSTANTS
    Key,    \* The keys callers store.
    Value   \* The values callers store under them.

VARIABLE map    \* A function from the keys that are present to their values.

Init == map = << >>

Insert(k, v) == map' = (k :> v) @@ map

Delete(k) ==
    /\ k \in DOMAIN map
    /\ k \notin DOMAIN map'
    /\ map = (k :> map[k]) @@ map'

Next == \E k \in Key : (\E v \in Value : Insert(k, v)) \/ Delete(k)

Spec == Init /\ [][Next]_map
=============================================================================
