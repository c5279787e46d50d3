-------------------------------- MODULE Upkeep -------------------------------
(***************************************************************************)
(* The goroutines behind the cache: those that refresh its entries         *)
(* (RefreshQueue, which this module extends) and those that contend for    *)
(* its lock.                                                               *)
(***************************************************************************)
EXTENDS RefreshQueue

CONSTANTS Query, ChanCap, Dnssec, MayClose, Nobody

VARIABLES writer, readers, pc, chan, msg, stop

Lock == INSTANCE CacheLock

\* The lock has one writer or readers (c.mu), the queue stays within its capacity,
\* accepted refreshes are neither lost nor run twice, and callers that share a
\* flight have one leader (refresh_queue.go).
UpkeepConsistent == Lock!TypeOK /\ QueueConsistent
=============================================================================
