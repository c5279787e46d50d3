-------------------------------- MODULE Caches -------------------------------
(***************************************************************************)
(* The caches side by side: the raw cache on its way to and from the disk  *)
(* (Persistence, which this module extends), the lists of the LRU caches   *)
(* and the expiry index of the raw cache.  Their constants have names of   *)
(* their own, so that each can be checked with bounds of its own.          *)
(***************************************************************************)
EXTENDS Persistence, Sequences

CONSTANTS
    LRUKey, LRUValue, LRUShard, LRUShardOf(_), LRUCapacity, ChanCap, DirtyWrap,
    IndexKey, TTL, MaxEntries, HeapChanCap, GhostBatch, CleanBatch, AncientLow, AncientMid,
    KeepExpired, MayTimeOut, MaxTime, MaxVer, NoEntry

VARIABLES
    kind, value, prev, next, head, tail, len, accessChan, worker, marks,
    now, raw, pending, addHeapChan, held, expiredHeap, dropped, expiredCount, ver, clean

LRU == INSTANCE ShardedCache WITH Key <- LRUKey, Value <- LRUValue, Shard <- LRUShard,
                                  ShardOf <- LRUShardOf, Capacity <- LRUCapacity
Expiry == INSTANCE ExpiryIndex WITH Key <- IndexKey, ChanCap <- HeapChanCap

ExpiryAssumption == Expiry!NumAssumption /\ Expiry!ConfigAssumption /\ Expiry!NoEntryAssumption

-----------------------------------------------------------------------------
(* Properties.                                                             *)

\* The list of a shard holds the keys of its map, linked both ways, and no more than
\* the capacity allows (sharded_cache.go, sharded_lru.go).
WellLinked == LRU!WellLinked

\* Whatever the access worker does to the lists, a client sees a bounded map
\* (sharded_cache.go, sharded_lru.go).
IsBoundedMap == LRU!IsBoundedMap

\* Every entry of the raw cache whose index was not refused at a full channel is
\* indexed or on its way to be (cache_heap.go, cache_cleanup.go).
Indexed == Expiry!TypeOK /\ Expiry!Indexed

\* The count of expired entries never exceeds the entries (cache_cleanup.go).
CountNeverExceeds == Expiry!CountNeverExceeds
=============================================================================
