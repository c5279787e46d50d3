----------------------------- MODULE BoundedMap ------------------------------
(***************************************************************************)
(* What the caches promise their users: a map whose shards hold at most    *)
(* Capacity keys.  A Set always takes effect, and drops at most one other  *)
(* key of the same shard, only when the shard is full and the key is new.  *)
(***************************************************************************)
EXTENDS Integers, FiniteSets

CONSTANTS Key, Value, None, Shard, ShardOf(_), Capacity

VARIABLE map

Cached(s) == {k \in Key : ShardOf(k) = s /\ map[k] # None}

Init == map = [k \in Key |-> None]

Set(k, v) ==
    \/ /\ map[k] # None \/ Cardinality(Cached(ShardOf(k))) < Capacity
       /\ map' = [map EXCEPT ![k] = v]
    \/ /\ map[k] = None /\ Cardinality(Cached(ShardOf(k))) = Capacity
       /\ \E old \in Cached(ShardOf(k)) :
             map' = [map EXCEPT ![k] = v, ![old] = None]

Delete(k) == map' = [map EXCEPT ![k] = None]

\* Clear and CleanExpired take one shard after the other.
Drop(s) ==
    \E keys \in SUBSET Cached(s) :
        map' = [k \in Key |-> IF k \in keys THEN None ELSE map[k]]

Next ==
    \/ \E k \in Key : Delete(k) \/ \E v \in Value : Set(k, v)
    \/ \E s \in Shard : Drop(s)

Spec == Init /\ [][Next]_map
=============================================================================
