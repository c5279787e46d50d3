----------------------------- MODULE ExpiryIndex -----------------------------
(***************************************************************************)
(* Expiry of the raw cache: every SetRaw sends an index entry to           *)
(* addHeapChan, heapWorker moves it into expiredHeap, and CleanExpired     *)
(* pops the heap to drop ghost indexes and delete expired entries          *)
(* (cache/cache_raw.go, cache_heap.go, cache_cleanup.go, cache.go).        *)
(*                                                                         *)
(* CleanExpired holds c.mu, but the raw cache has locks of its own, so a   *)
(* SetRaw can run between any two of its steps: the loop bodies are        *)
(* separate actions here, and so are SetRaw's store and the send of its    *)
(* index entry.  One shard of the raw cache is modelled.                   *)
(***************************************************************************)
EXTENDS Integers, Sequences, FiniteSets, ExpireHeap

CONSTANTS
    Key,           \* cache keys
    TTL,           \* effective TTLs of answers
    MaxEntries,    \* capacity of the raw cache
    ChanCap,       \* capacity of addHeapChan
    GhostBatch,    \* MaxStaleHeapCleanupSize
    CleanBatch,    \* MaxCleanupBatchSize
    AncientLow,    \* AncientLimitLowPressure
    AncientMid,    \* AncientLimitMidPressure
    KeepExpired,   \* config.KeepExpiredEntries
    MayTimeOut,    \* whether a clean may run into MaxCleanupDuration
    MaxTime,       \* bound on the clock
    MaxVer,        \* bound on the versions handed out
    NoEntry        \* a key that is not cached

NumAssumption ==
    /\ TTL \subseteq Nat /\ {MaxEntries, ChanCap, GhostBatch, CleanBatch} \subseteq Nat \ {0}
    /\ {AncientLow, AncientMid, MaxTime, MaxVer} \subseteq Nat
ConfigAssumption == KeepExpired \in BOOLEAN /\ MayTimeOut \in BOOLEAN
NoEntryAssumption == NoEntry \notin [expiry : Nat, ver : Nat]

VARIABLES
    now,           \* timeNow().Unix()
    raw,           \* rawCache: when a key's entry expires, and its QueryVersion
    pending,       \* SetRaw calls that have stored and not yet sent their index
    addHeapChan,   \* index entries on their way to the heap
    held,          \* what heapWorker has received and not yet pushed: <<>> or <<e>>
    expiredHeap,   \* the heap array
    dropped,       \* history: the versions whose index found addHeapChan full
    expiredCount,  \* actualExpiredCount
    ver,           \* the last QueryVersion handed out
    clean          \* CleanExpired: its step and local variables

vars == <<now, raw, pending, addHeapChan, held, expiredHeap, dropped, expiredCount, ver, clean>>

Index == [key : Key, expiry : Nat, ver : Nat]

Cached == {k \in Key : raw[k] # NoEntry}

\* CleanExpired outside its critical section.
Idle == [step |-> "idle", now |-> 0, limit |-> 0, high |-> FALSE, ghosts |-> 0, cleaned |-> 0]

Init ==
    /\ now = 0
    /\ raw = [k \in Key |-> NoEntry]
    /\ pending = {}
    /\ addHeapChan = <<>>
    /\ held = <<>>
    /\ expiredHeap = <<>>
    /\ dropped = {}
    /\ expiredCount = 0
    /\ ver = 0
    /\ clean = Idle

-----------------------------------------------------------------------------
(* The raw cache and the worker that feeds the heap.                       *)

\* SetRaw and its variants store the entry; a new key in a full shard evicts
\* another one ...
SetRaw(k, ttl, victim) ==
    /\ ver < MaxVer
    /\ IF k \notin Cached /\ Cardinality(Cached) >= MaxEntries
       THEN victim \in Cached ELSE victim = k
    /\ ver' = ver + 1
    /\ raw' = [raw EXCEPT ![victim] = NoEntry,
                          ![k] = [expiry |-> now + ttl, ver |-> ver']]
    /\ pending' = pending \cup {[key |-> k, ttl |-> ttl, ver |-> ver']}
    /\ UNCHANGED <<now, addHeapChan, held, expiredHeap, dropped, expiredCount, clean>>

\* ... and, with the clock read again, send the index: addToExpiredHeap drops it
\* when the channel is full.
AddToExpiredHeap(p) ==
    /\ p \in pending
    /\ pending' = pending \ {p}
    /\ IF Len(addHeapChan) < ChanCap
       THEN /\ addHeapChan' = Append(addHeapChan,
                                [key |-> p.key, expiry |-> now + p.ttl, ver |-> p.ver])
            /\ UNCHANGED dropped
       ELSE /\ dropped' = dropped \cup {p.ver}
            /\ UNCHANGED addHeapChan
    /\ UNCHANGED <<now, raw, held, expiredHeap, expiredCount, ver, clean>>

\* heapWorker receives an index ...
Receive ==
    /\ held = <<>>
    /\ addHeapChan # <<>>
    /\ held' = <<Head(addHeapChan)>>
    /\ addHeapChan' = Tail(addHeapChan)
    /\ UNCHANGED <<now, raw, pending, expiredHeap, dropped, expiredCount, ver, clean>>

\* ... and pushes it under c.mu: the method expiredHeap.Push, which
\* only appends.
PushHeld ==
    /\ clean.step = "idle"
    /\ held # <<>>
    /\ expiredHeap' = Push(expiredHeap, held[1])
    /\ held' = <<>>
    /\ UNCHANGED <<now, raw, pending, addHeapChan, dropped, expiredCount, ver, clean>>

\* Clear holds c.mu: the raw cache is emptied first ...
ClearRaw ==
    /\ clean.step = "idle"
    /\ raw' = [k \in Key |-> NoEntry]
    /\ clean' = [clean EXCEPT !.step = "clear"]
    /\ UNCHANGED <<now, pending, addHeapChan, held, expiredHeap, dropped, expiredCount, ver>>

\* ... and the heap after the other caches; what has not reached it yet is left
\* alone.
ClearHeap ==
    /\ clean.step = "clear"
    /\ expiredHeap' = <<>>
    /\ expiredCount' = 0
    /\ clean' = Idle
    /\ UNCHANGED <<now, raw, pending, addHeapChan, held, dropped, ver>>

Tick ==
    /\ now < MaxTime
    /\ now' = now + 1
    /\ UNCHANGED <<raw, pending, addHeapChan, held, expiredHeap, dropped, expiredCount, ver, clean>>

-----------------------------------------------------------------------------
(* CleanExpired.                                                           *)

\* Usage decides the pressure: below 0.5, below the threshold 0.9, or above.
CleanBegin ==
    LET n == Cardinality(Cached)
        high == 10 * n >= 9 * MaxEntries
    IN  /\ clean.step = "idle"
        /\ clean' = [Idle EXCEPT !.step = "ghosts", !.now = now, !.high = high,
                        !.limit = IF 2 * n < MaxEntries THEN AncientLow
                                  ELSE IF high THEN 0 ELSE AncientMid]
        /\ UNCHANGED <<now, raw, pending, addHeapChan, held, expiredHeap, dropped, expiredCount, ver>>

Top == expiredHeap[1]

\* Mutated form of Valid: the expiry is compared instead of the version, so an
\* index sent a second after the store looks like a ghost.
Valid_ByExpiry(e) == raw[e.key] # NoEntry /\ raw[e.key].expiry = e.expiry

\* The index stands for the entry that is cached under its key.
Valid(e) == raw[e.key] # NoEntry /\ raw[e.key].ver = e.ver

\* First phase: a ghost at the top is popped.
PopGhost ==
    /\ clean.step = "ghosts"
    /\ expiredHeap # <<>>
    /\ clean.ghosts < GhostBatch
    /\ ~Valid(Top)
    /\ expiredHeap' = HeapPop(expiredHeap)
    /\ clean' = [clean EXCEPT !.ghosts = @ + 1]
    /\ UNCHANGED <<now, raw, pending, addHeapChan, held, dropped, expiredCount, ver>>

\* The first phase ends at a valid top, or at its batch limit.
EndGhosts ==
    /\ clean.step = "ghosts"
    /\ expiredHeap # <<>> /\ clean.ghosts < GhostBatch => Valid(Top)
    /\ clean' = [clean EXCEPT !.step = "sweep"]
    /\ UNCHANGED <<now, raw, pending, addHeapChan, held, expiredHeap, dropped, expiredCount, ver>>

\* What the second phase looks at: an expired top within the batch limit.
Sweeping ==
    /\ clean.step = "sweep"
    /\ expiredHeap # <<>>
    /\ clean.cleaned < CleanBatch
    /\ Top.expiry <= clean.now

\* Second phase: a ghost at the top is popped here too.
SweepGhost ==
    /\ Sweeping
    /\ ~Valid(Top)
    /\ expiredHeap' = HeapPop(expiredHeap)
    /\ UNCHANGED <<now, raw, pending, addHeapChan, held, dropped, expiredCount, ver, clean>>

\* High pressure deletes what has expired; low pressure deletes what is ancient,
\* and nothing when expired entries are kept.
ShouldDelete(e) ==
    clean.high \/ (~KeepExpired /\ e.expiry + clean.limit <= clean.now)

\* The version was compared and the policy asked: the top is to be deleted ...
Choose ==
    /\ Sweeping
    /\ Valid(Top)
    /\ ShouldDelete(Top)
    /\ clean' = [clean EXCEPT !.step = "delete"]
    /\ UNCHANGED <<now, raw, pending, addHeapChan, held, expiredHeap, dropped, expiredCount, ver>>

\* ... and whatever is cached under its key by now is deleted.
Delete ==
    /\ clean.step = "delete"
    /\ raw' = [raw EXCEPT ![Top.key] = NoEntry]
    /\ expiredHeap' = HeapPop(expiredHeap)
    /\ clean' = [clean EXCEPT !.step = "sweep", !.cleaned = @ + 1]
    /\ UNCHANGED <<now, pending, addHeapChan, held, dropped, expiredCount, ver>>

\* Mutated form of RecalculateCount: ghosts are counted too.
RecalculateCount_Ghosts ==
    Cardinality({n \in 1 .. Len(expiredHeap) :
        \A m \in 1 .. n : expiredHeap[m].expiry <= clean.now})

\* recalculateActualExpiredCount: the valid expired entries of the array, up to
\* the first index that has not expired.
RecalculateCount ==
    Cardinality({n \in 1 .. Len(expiredHeap) :
        /\ \A m \in 1 .. n : expiredHeap[m].expiry <= clean.now
        /\ Valid(expiredHeap[n])})

\* The second phase ends: nothing left, the batch limit, a top that has not
\* expired, or one the policy keeps.
EndSweep ==
    /\ clean.step = "sweep"
    /\ Sweeping => Valid(Top) /\ ~ShouldDelete(Top)
    /\ expiredCount' = RecalculateCount
    /\ clean' = Idle
    /\ UNCHANGED <<now, raw, pending, addHeapChan, held, expiredHeap, dropped, ver>>

\* MaxCleanupDuration is over: both loops break at their next test.
TimeOut ==
    /\ MayTimeOut
    /\ clean.step \in {"ghosts", "sweep"}
    /\ expiredHeap # <<>>
    /\ expiredCount' = RecalculateCount
    /\ clean' = Idle
    /\ UNCHANGED <<now, raw, pending, addHeapChan, held, expiredHeap, dropped, ver>>

-----------------------------------------------------------------------------
Clean == CleanBegin \/ PopGhost \/ EndGhosts \/ SweepGhost \/ Choose \/ Delete
            \/ EndSweep \/ TimeOut

Next ==
    \/ \E k, victim \in Key, ttl \in TTL : SetRaw(k, ttl, victim)
    \/ \E p \in pending : AddToExpiredHeap(p)
    \/ Receive
    \/ PushHeld
    \/ ClearRaw
    \/ ClearHeap
    \/ Tick
    \/ Clean

Spec == Init /\ [][Next]_vars

-----------------------------------------------------------------------------
(* Properties.                                                             *)

\* Every variable keeps the shape its Go declaration gives it.
TypeOK ==
    /\ now \in Nat
    /\ raw \in [Key -> [expiry : Nat, ver : Nat] \cup {NoEntry}]
    /\ pending \subseteq [key : Key, ttl : TTL, ver : Nat]
    /\ held \in Seq(Index) /\ Len(held) <= 1
    /\ addHeapChan \in Seq(Index) /\ Len(addHeapChan) <= ChanCap
    /\ expiredHeap \in Seq(Index)
    /\ dropped \subseteq Nat /\ expiredCount \in Nat /\ ver \in Nat
    /\ clean \in [step : {"idle", "ghosts", "sweep", "delete", "clear"}, now : Nat, limit : Nat,
                  high : BOOLEAN, ghosts : Nat, cleaned : Nat]
    /\ clean.step = "delete" => expiredHeap # <<>>

Range(s) == {s[i] : i \in 1 .. Len(s)}

\* Every cached entry whose index was not refused by a full addHeapChan has it in
\* the heap or on its way there, and the index does not expire before the entry:
\* cleaning and Clear drop only indexes whose entry is gone, so no other entry
\* becomes uncleanable, and none is found expired too early.
Indexed ==
    \A k \in Cached :
        \/ raw[k].ver \in dropped
        \/ \E p \in pending : p.key = k /\ p.ver = raw[k].ver
        \/ \E e \in Range(addHeapChan) \cup Range(held) \cup Range(expiredHeap) :
              e.key = k /\ e.ver = raw[k].ver /\ e.expiry >= raw[k].expiry

\* The number of expired entries shown to the user is never more than the number
\* of entries that are cached: ghosts are not counted, no entry twice.
CountNeverExceeds ==
    [][expiredCount' # expiredCount => expiredCount' <= Cardinality(Cached)]_vars

-----------------------------------------------------------------------------
(* What comments of the code say of it, and TLC refutes.                   *)

\* CleanExpired stops at the first index that has not expired, "because later
\* ones expire later": then no index in the heap has expired.
StopsAtRightPlace ==
    clean.step = "sweep" /\ expiredHeap # <<>> /\ Top.expiry > clean.now =>
        \A e \in Range(expiredHeap) : e.expiry > clean.now

\* The version is compared so that an old index never deletes new data: what
\* Delete removes is the entry its index stands for.
NeverDeletesNewData ==
    [][clean.step = "delete" /\ clean'.step = "sweep" /\ raw[Top.key] # NoEntry
          => Valid(Top)]_vars
=============================================================================
