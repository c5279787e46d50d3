---------------------------- MODULE ShardedCache ----------------------------
(***************************************************************************)
(* The LRU caches: ShardedCache (raw entries), ShardedLRUCache (sorted     *)
(* entries) and LRUCache (errors, DNSSEC messages; one shard).  Each shard *)
(* is a map and a doubly linked list of nodes, modelled with its pointers; *)
(* a read is recorded in accessChan and moves its node later.              *)
(***************************************************************************)
EXTENDS Integers, Sequences, FiniteSets

CONSTANTS
    Key, Value, None, Shard, ShardOf(_), Capacity,
    ChanCap,        \* capacity of accessChan
    DirtyWrap       \* the 64-bit counter dirty is kept modulo this number

\* A capacity of 0, which no limit follows from, is left out.
CacheAssumption ==
    /\ \A k \in Key : ShardOf(k) \in Shard
    /\ Capacity \in Nat \ {0} /\ None \notin Key \cup Value

Kind == {"raw", "sorted", "lru"}

VARIABLES
    kind,                   \* which of the three caches
    value,                  \* Key -> value of its node, None if not in the map
    prev, next,             \* Key -> neighbours of its node
    head, tail, len,        \* Shard -> the list
    accessChan,             \* Shard -> keys read
    worker,                 \* Shard -> processAccessRecords runs or has ended
    marks                   \* dirty, the counter of changes

list == <<prev, next, head, tail, len>>
vars == <<kind, value, list, accessChan, worker, marks>>

Init ==
    /\ kind \in Kind
    /\ value = [k \in Key |-> None]
    /\ prev = [k \in Key |-> None] /\ next = [k \in Key |-> None]
    /\ head = [s \in Shard |-> None] /\ tail = [s \in Shard |-> None]
    /\ len = [s \in Shard |-> 0]
    /\ accessChan = [s \in Shard |-> <<>>]
    /\ worker = [s \in Shard |-> "runs"]
    /\ marks = 0

(***************************************************************************)
(* The list, as a record so that operations compose.                       *)
(***************************************************************************)
Current == [prev |-> prev, next |-> next, head |-> head, tail |-> tail,
            len |-> len]

pushFront(l, s, k) ==
    LET h == l.head[s] IN
    [prev |-> [n \in Key |-> IF n = k THEN None
                             ELSE IF n = h THEN k ELSE l.prev[n]],
     next |-> [l.next EXCEPT ![k] = h],
     head |-> [l.head EXCEPT ![s] = k],
     tail |-> [l.tail EXCEPT ![s] = IF @ = None THEN k ELSE @],
     len  |-> [l.len EXCEPT ![s] = @ + 1]]

\* The pointers of the removed node keep their values.
remove_NoTail(l, s, k) ==
    LET p == l.prev[k]
        n == l.next[k]
    IN  [prev |-> [m \in Key |-> IF m = n THEN p ELSE l.prev[m]],
         next |-> [m \in Key |-> IF m = p THEN n ELSE l.next[m]],
         head |-> [l.head EXCEPT ![s] = IF p = None THEN n ELSE @],
         tail |-> l.tail,
         len  |-> [l.len EXCEPT ![s] = @ - 1]]

remove(l, s, k) ==
    LET p == l.prev[k]
        n == l.next[k]
    IN  [prev |-> [m \in Key |-> IF m = n THEN p ELSE l.prev[m]],
         next |-> [m \in Key |-> IF m = p THEN n ELSE l.next[m]],
         head |-> [l.head EXCEPT ![s] = IF p = None THEN n ELSE @],
         tail |-> [l.tail EXCEPT ![s] = IF n = None THEN p ELSE @],
         len  |-> [l.len EXCEPT ![s] = @ - 1]]

moveToFront(l, s, k) ==
    IF k = l.head[s] THEN l ELSE pushFront(remove(l, s, k), s, k)

Becomes(l) ==
    /\ prev' = l.prev /\ next' = l.next
    /\ head' = l.head /\ tail' = l.tail /\ len' = l.len

Marked == (marks + 1) % DirtyWrap

(***************************************************************************)
(* The operations.                                                         *)
(***************************************************************************)
\* A read is recorded if the channel has room; it never waits.
Get(k) ==
    LET s == ShardOf(k) IN
    /\ value[k] # None /\ Len(accessChan[s]) < ChanCap
    /\ accessChan' = [accessChan EXCEPT ![s] = Append(@, k)]
    /\ UNCHANGED <<kind, value, list, worker, marks>>

\* A new node goes to the front, and the last node goes if there are too many.
Stored_EvictsFirst(k, v) ==
    LET s == ShardOf(k)
        l == IF len[s] = Capacity - 1 /\ tail[s] # None
             THEN remove(Current, s, tail[s]) ELSE Current
    IN  /\ Becomes(pushFront(l, s, k))
        /\ value' = [n \in Key |-> IF n = k THEN v
                                   ELSE IF len[s] = Capacity - 1 /\ n = tail[s]
                                   THEN None ELSE value[n]]

Stored(k, v) ==
    LET s == ShardOf(k)
        l == pushFront(Current, s, k)
        full == l.len[s] > Capacity
    IN  /\ Becomes(IF full THEN remove(l, s, l.tail[s]) ELSE l)
        /\ value' = [n \in Key |-> IF n = k THEN v
                                   ELSE IF full /\ n = l.tail[s] THEN None
                                   ELSE value[n]]

\* An existing key: the new value is not marked as a change.
Updated(k, v) ==
    /\ value[k] # None
    /\ value' = [value EXCEPT ![k] = v]
    /\ Becomes(moveToFront(Current, ShardOf(k), k))
    /\ UNCHANGED marks

Set(k, v) ==
    /\ kind = "raw"
    /\ \/ Updated(k, v)
       \/ /\ value[k] = None /\ Stored(k, v)
          /\ marks' = Marked
    /\ UNCHANGED <<kind, accessChan, worker>>

\* onEvict, which releases the addresses of the evicted entry in the IP pool,
\* is EvictSorted of SortPipeline.
SetSorted(k, v) ==
    /\ kind = "sorted"
    /\ \/ Updated(k, v)
       \/ value[k] = None /\ Stored(k, v) /\ marks' = Marked
    /\ UNCHANGED <<kind, accessChan, worker>>

SetLRU(k, v) ==
    /\ kind = "lru"
    /\ \/ Updated(k, v)
       \/ value[k] = None /\ Stored(k, v) /\ UNCHANGED marks
    /\ UNCHANGED <<kind, accessChan, worker>>

Delete(k) ==
    /\ value[k] # None
    /\ value' = [value EXCEPT ![k] = None]
    /\ Becomes(remove(Current, ShardOf(k), k))
    /\ marks' = IF kind = "lru" THEN marks ELSE Marked
    /\ UNCHANGED <<kind, accessChan, worker>>

\* CleanExpired of ShardedLRUCache and LRUCache, one shard at a time; which
\* entries are expired is open.
CleanExpired(s) ==
    /\ kind # "raw"
    /\ \E k \in Key :
        /\ ShardOf(k) = s /\ value[k] # None
        /\ value' = [value EXCEPT ![k] = None]
        /\ Becomes(remove(Current, s, k))
    /\ UNCHANGED <<kind, accessChan, worker, marks>>

\* Clear locks one shard after the other and counts one change after the last;
\* the nodes keep their pointers.
Clear(s) ==
    /\ value' = [k \in Key |-> IF ShardOf(k) = s THEN None ELSE value[k]]
    /\ head' = [head EXCEPT ![s] = None] /\ tail' = [tail EXCEPT ![s] = None]
    /\ len' = [len EXCEPT ![s] = 0]
    /\ marks' \in IF kind = "lru" THEN {marks} ELSE {marks, Marked}
    /\ UNCHANGED <<kind, prev, next, accessChan, worker>>

\* The node may have been evicted, deleted or replaced since the read.
processAccessRecords(s) ==
    LET k == Head(accessChan[s]) IN
    /\ worker[s] # "ended" /\ accessChan[s] # <<>>
    /\ accessChan' = [accessChan EXCEPT ![s] = Tail(@)]
    /\ IF value[k] # None THEN Becomes(moveToFront(Current, s, k))
                          ELSE UNCHANGED list
    /\ UNCHANGED <<kind, value, worker, marks>>

\* Close stops a worker, which first empties its channel.
Close(s) ==
    /\ worker[s] = "runs"
    /\ worker' = [worker EXCEPT ![s] = "stopping"]
    /\ UNCHANGED <<kind, value, list, accessChan, marks>>

WorkerEnds(s) ==
    /\ worker[s] = "stopping" /\ accessChan[s] = <<>>
    /\ worker' = [worker EXCEPT ![s] = "ended"]
    /\ UNCHANGED <<kind, value, list, accessChan, marks>>

Next ==
    \/ \E k \in Key : \/ Get(k) \/ Delete(k)
                      \/ \E v \in Value : \/ Set(k, v) \/ SetSorted(k, v)
                                          \/ SetLRU(k, v)
    \/ \E s \in Shard : \/ CleanExpired(s) \/ Clear(s) \/ Close(s)
                        \/ processAccessRecords(s) \/ WorkerEnds(s)

Spec == Init /\ [][Next]_vars

(***************************************************************************)
(* Properties.                                                             *)
(***************************************************************************)
Cached(s) == {k \in Key : ShardOf(k) = s /\ value[k] # None}

\* In list l of shard s the nodes are ks: the ends are nodes, and the pointers of
\* the nodes are inverse to each other and lead outside at the ends only.
Chained(l, s, ks) ==
    /\ IF ks = {} THEN l.head[s] = None /\ l.tail[s] = None
                  ELSE l.head[s] \in ks /\ l.tail[s] \in ks
    /\ \A k \in ks :
        /\ IF l.head[s] = k THEN l.prev[k] = None
                            ELSE l.prev[k] \in ks /\ l.next[l.prev[k]] = k
        /\ IF l.tail[s] = k THEN l.next[k] = None
                            ELSE l.next[k] \in ks /\ l.prev[l.next[k]] = k

\* Following next from head meets every node.
Reached(l, s, ks) ==
    \A met \in SUBSET ks :
        l.head[s] \in met \cup {None} /\ (\A k \in met : l.next[k] \in met \cup {None})
            => met = ks

Linked(l, s, ks) ==
    l.len[s] = Cardinality(ks) /\ Chained(l, s, ks) /\ Reached(l, s, ks)

\* The hand-made list of a shard holds the keys of its map, and not too many.
WellLinked ==
    \A s \in Shard : Linked(Current, s, Cached(s)) /\ len[s] <= Capacity

\* Every cache is a bounded map.
Map == INSTANCE BoundedMap WITH map <- value
IsBoundedMap == Map!Spec
=============================================================================
