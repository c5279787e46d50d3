------------------------------- MODULE MCCaches ------------------------------
(***************************************************************************)
(* The LRU cache, its persistence and the expiry index of the raw cache in *)
(* one run: the first state chooses which of them is watched.              *)
(***************************************************************************)
EXTENDS Caches, TLC

CONSTANT FarKey

\* The lists of different shards share nothing, so one shard is enough for the
\* lists; a save goes over the shards, and tells apart which keys are there.
OneShard(k) == "s1"
TwoShards(k) == IF k \in FarKey THEN "s2" ELSE "s1"

\* The other keys share a shard, and nothing tells them apart.
KeySymmetry == Permutations(Key \ FarKey)

VARIABLE subject

lruVars == <<kind, value, prev, next, head, tail, len, accessChan, worker,
             marks>>
diskVars == <<mem, dirty, lastSavedDirty, file, pc, seenDirty, temp, todo,
              clearing, toClear, process, history>>
indexVars == <<now, raw, pending, addHeapChan, held, expiredHeap, dropped, expiredCount,
               ver, clean>>

ASSUME InstanceAssumption == ExpiryAssumption /\ DiskAssumption /\ LRU!CacheAssumption

\* HeapPop does what container/heap promises, on every array of up to five
\* entries: it takes out the root and nothing else, and turns a heap into a heap.
ASSUME PopAssumption ==
    \A n \in 1 .. 5 : \A f \in [1 .. n -> 1 .. 3] :
        LET h == [i \in 1 .. n |-> [key |-> i, expiry |-> f[i]]]
            p == Expiry!HeapPop(h)
        IN  /\ Len(p) = n - 1
            /\ {p[i] : i \in 1 .. Len(p)} = {h[i] : i \in 2 .. n}
            /\ Expiry!IsHeap(h) => Expiry!IsHeap(p)

MCInit == subject \in {"lru", "disk", "index"} /\ LRU!Init /\ Init /\ Expiry!Init
             /\ (subject # "disk" => file = Absent)
             /\ (subject # "lru" => kind = "raw")

LRUStep == subject = "lru" /\ LRU!Next /\ UNCHANGED <<subject, diskVars, indexVars>>
DiskStep == subject = "disk" /\ Next /\ UNCHANGED <<subject, lruVars, indexVars>>
IndexStep == subject = "index" /\ Expiry!Next /\ UNCHANGED <<subject, lruVars, diskVars>>

MCSpec == MCInit /\ [][LRUStep \/ DiskStep \/ IndexStep]_<<subject, lruVars, diskVars, indexVars>>
=============================================================================
