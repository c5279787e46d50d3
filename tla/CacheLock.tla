------------------------------ MODULE CacheLock ------------------------------
(***************************************************************************)
(* c.mu, the lock of the cache, and the goroutines that meet at it: query  *)
(* handlers, the periodic CleanExpired, heapWorker and, at shutdown, Close *)
(* (cache/cache_cleanup.go, cache_heap.go, cache_dnssec.go, cache.go,      *)
(* dnsserver/tasks.go, server_lifecycle.go).  Of the data only what        *)
(* decides a wait is kept: how full addHeapChan is and whether msgCache    *)
(* holds a DNSSEC message that has expired.                                *)
(***************************************************************************)
EXTENDS Integers, FiniteSets

CONSTANTS
    Query,      \* goroutines that handle queries
    ChanCap,    \* capacity of addHeapChan
    Dnssec,     \* whether DNSSEC messages are cached
    MayClose,   \* whether the server may shut down
    Nobody      \* no goroutine

ConfigAssumption ==
    ChanCap \in Nat \ {0} /\ Dnssec \in BOOLEAN /\ MayClose \in BOOLEAN

Pusher == "heapWorker"
Cleaner == "cleanCacheRoutine"
Closer == "Shutdown"
Proc == Query \cup {Pusher, Cleaner, Closer}

ProcAssumption == {Pusher, Cleaner, Closer} \cap Query = {} /\ Nobody \notin Proc

VARIABLES
    writer,     \* who has announced itself as c.mu's writer, and holds it once ...
    readers,    \* ... nobody is left here: the holders of a read lock
    pc,         \* where each goroutine is
    chan,       \* entries in addHeapChan
    msg,        \* msgCache: no message, a fresh one, one that has expired
    stop        \* stopHeapChan is closed

vars == <<writer, readers, pc, chan, msg, stop>>

Init ==
    /\ writer = Nobody
    /\ readers = {}
    /\ pc = [p \in Proc |-> "idle"]
    /\ chan = 0
    /\ msg = "none"
    /\ stop = FALSE

Goto(p, step) == pc' = [pc EXCEPT ![p] = step]

-----------------------------------------------------------------------------
(* sync.RWMutex.                                                           *)

Locking == {"lock", "relock", "drainLock"}

\* Lock announces the writer, which keeps out new readers ...
Announce(p) ==
    /\ pc[p] \in Locking
    /\ writer = Nobody
    /\ writer' = p
    /\ UNCHANGED <<readers, pc, chan, msg, stop>>

\* ... and waits for the readers that are in.
Acquire(p) ==
    /\ pc[p] \in Locking
    /\ writer = p /\ readers = {}
    /\ pc[p] # "relock"
    /\ Goto(p, IF pc[p] = "lock" THEN "locked" ELSE "drainLocked")
    /\ UNCHANGED <<writer, readers, chan, msg, stop>>

\* Unlock lets in the readers that were waiting.
Unlock(p, step) ==
    LET waiting == {r \in Proc : pc[r] = "rwait"}
    IN  /\ writer' = Nobody
        /\ readers' = waiting
        /\ pc' = [r \in Proc |-> IF r = p THEN step
                                 ELSE IF r \in waiting THEN "reading" ELSE pc[r]]

RLock(p) ==
    /\ pc[p] = "rlock"
    /\ IF writer = Nobody
       THEN Goto(p, "reading") /\ readers' = readers \cup {p}
       ELSE Goto(p, "rwait") /\ UNCHANGED readers
    /\ UNCHANGED <<writer, chan, msg, stop>>

-----------------------------------------------------------------------------
(* Query handlers.                                                         *)

\* SetRaw takes no lock: its index entry goes to the channel or is dropped.
SetRaw(q) ==
    /\ pc[q] = "idle"
    /\ chan < ChanCap
    /\ chan' = chan + 1
    /\ UNCHANGED <<writer, readers, pc, msg, stop>>

\* Everything else a query does to the cache's maps: under the write lock ...
CallLocked(q) ==
    /\ pc[q] = "idle"
    /\ Goto(q, "lock")
    /\ UNCHANGED <<writer, readers, chan, msg, stop>>

\* ... (GetOrStartSort, FinishSort, CancelSort, SetBlocked, SetAllowed, and with
\* DNSSEC SetDNSSECMsg, which stores a message) ...
LeaveLocked(q) ==
    /\ pc[q] = "locked"
    /\ Unlock(q, "idle")
    /\ \/ UNCHANGED msg
       \/ Dnssec /\ msg' = "fresh"
    /\ UNCHANGED <<chan, stop>>

\* ... or under the read lock ...
CallRLocked(q) ==
    /\ pc[q] = "idle"
    /\ Goto(q, "rlock")
    /\ UNCHANGED <<writer, readers, chan, msg, stop>>

\* ... (GetBlocked, GetAllowed, and GetDNSSECMsg, which drops an expired message).
LeaveRLocked(q) ==
    /\ pc[q] = "reading"
    /\ readers' = readers \ {q}
    /\ Goto(q, "idle")
    /\ msg' \in {msg} \cup (IF msg = "expired" THEN {"none"} ELSE {})
    /\ UNCHANGED <<writer, chan, stop>>

\* Time passes: a cached message expires.
Expire ==
    /\ msg = "fresh"
    /\ msg' = "expired"
    /\ UNCHANGED <<writer, readers, pc, chan, stop>>

-----------------------------------------------------------------------------
(* CleanExpired, called by cleanCacheRoutine.                              *)

CleanTick ==
    /\ pc[Cleaner] = "idle"
    /\ Goto(Cleaner, "lock")
    /\ UNCHANGED <<writer, readers, chan, msg, stop>>

\* cleanExpiredMsgCache found nothing: the deferred unlock is next.
CleanNothing ==
    /\ pc[Cleaner] = "locked"
    /\ msg # "expired"
    /\ Unlock(Cleaner, "idle")
    /\ UNCHANGED <<chan, msg, stop>>

\* It removed messages: before the eviction count it locks c.mu, which its
\* caller CleanExpired holds.
CleanMessages ==
    /\ pc[Cleaner] = "locked"
    /\ msg = "expired"
    /\ msg' = "none"
    /\ Goto(Cleaner, "relock")
    /\ UNCHANGED <<writer, readers, chan, stop>>

\* stopCh is closed.
CleanerExit ==
    /\ pc[Cleaner] = "idle"
    /\ pc[Closer] # "idle"
    /\ Goto(Cleaner, "gone")
    /\ UNCHANGED <<writer, readers, chan, msg, stop>>

-----------------------------------------------------------------------------
(* heapWorker.                                                             *)

\* One case of the select: an entry is received, and then c.mu is locked.
Receive ==
    /\ pc[Pusher] = "idle" /\ chan > 0
    /\ chan' = chan - 1
    /\ Goto(Pusher, "lock")
    /\ UNCHANGED <<writer, readers, msg, stop>>

\* Mutated form of Pushed: the worker keeps the lock.
Pushed_KeepsLock ==
    /\ pc[Pusher] \in {"locked", "drainLocked"}
    /\ Goto(Pusher, IF pc[Pusher] = "locked" THEN "idle" ELSE "drain")
    /\ UNCHANGED <<writer, readers, chan, msg, stop>>

Pushed ==
    /\ pc[Pusher] \in {"locked", "drainLocked"}
    /\ Unlock(Pusher, IF pc[Pusher] = "locked" THEN "idle" ELSE "drain")
    /\ UNCHANGED <<chan, msg, stop>>

\* The other case: stopHeapChan is closed, and what is left is processed.
StopReceived ==
    /\ pc[Pusher] = "idle" /\ stop
    /\ Goto(Pusher, "drain")
    /\ UNCHANGED <<writer, readers, chan, msg, stop>>

Drain ==
    /\ pc[Pusher] = "drain"
    /\ IF chan > 0 THEN Goto(Pusher, "drainLock") /\ chan' = chan - 1
       ELSE Goto(Pusher, "gone") /\ UNCHANGED chan
    /\ UNCHANGED <<writer, readers, msg, stop>>

-----------------------------------------------------------------------------
(* Shutdown.                                                               *)

\* Shutdown closes stopCh and calls Close while queries are still served.
CallClose ==
    /\ MayClose
    /\ pc[Closer] = "idle"
    /\ Goto(Closer, "lock")
    /\ UNCHANGED <<writer, readers, chan, msg, stop>>

\* Close, holding c.mu, tells heapWorker to stop ...
CloseStop ==
    /\ pc[Closer] = "locked" /\ ~stop
    /\ stop' = TRUE
    /\ UNCHANGED <<writer, readers, pc, chan, msg>>

\* ... and still holding it waits until the worker is gone.
CloseWait ==
    /\ pc[Closer] = "locked" /\ stop
    /\ pc[Pusher] = "gone"
    /\ Unlock(Closer, "gone")
    /\ UNCHANGED <<chan, msg, stop>>

-----------------------------------------------------------------------------
Mutex == \E p \in Proc : Announce(p) \/ Acquire(p) \/ RLock(p)

Handle == \E q \in Query : SetRaw(q) \/ CallLocked(q) \/ LeaveLocked(q)
                              \/ CallRLocked(q) \/ LeaveRLocked(q)

Clean == CleanTick \/ CleanNothing \/ CleanMessages \/ CleanerExit

HeapWorker == Receive \/ Pushed \/ StopReceived \/ Drain

Close == CallClose \/ CloseStop \/ CloseWait

Next == Mutex \/ Handle \/ Expire \/ Clean \/ HeapWorker \/ Close

Spec == Init /\ [][Next]_vars

\* A goroutine that can run runs.  Go's mutex hands itself to the longest waiter
\* (starvation mode), so who keeps asking is not passed over for ever; handlers
\* need not call again, and messages and shutdowns need not come.
Fairness ==
    /\ \A p \in Proc : SF_vars(Announce(p)) /\ WF_vars(Acquire(p)) /\ WF_vars(RLock(p))
    /\ \A q \in Query : WF_vars(LeaveLocked(q)) /\ WF_vars(LeaveRLocked(q))
    /\ WF_vars(CleanTick \/ CleanNothing \/ CleanMessages)
    /\ WF_vars(Receive \/ Pushed \/ Drain) /\ SF_vars(StopReceived)
    /\ WF_vars(CloseStop \/ CloseWait)

FairSpec == Spec /\ Fairness

-----------------------------------------------------------------------------
(* Properties.                                                             *)

\* Every variable keeps the shape its Go declaration gives it, and c.mu has one
\* writer or readers, never both.
TypeOK ==
    /\ writer \in Proc \cup {Nobody}
    /\ readers = {p \in Proc : pc[p] = "reading"}
    /\ pc \in [Proc -> Locking \cup {"idle", "locked", "drain", "drainLocked", "rlock",
                                     "rwait", "reading", "gone"}]
    /\ chan \in 0 .. ChanCap
    /\ msg \in {"none", "fresh", "expired"}
    /\ stop \in BOOLEAN
    /\ \A p \in Proc : pc[p] \in {"locked", "drainLocked", "relock"} => writer = p /\ readers = {}

\* The one wait of the cleaner and the one of Close that nobody can end.
SelfLocked == pc[Cleaner] = "relock"
CloseBlocksWorker ==
    pc[Closer] = "locked" /\ stop /\ pc[Pusher] \in {"lock", "drainLock"}

\* With DNSSEC messages and shutdown in play, a handler is stuck at c.mu only
\* behind a CleanExpired that waits for itself, or behind a Close that waits for
\* a worker that waits for c.mu: there is no third way to hang.
OnlyTwoWaysToHang ==
    \A q \in Query : pc[q] # "idle" ~> (pc[q] = "idle" \/ SelfLocked \/ CloseBlocksWorker)

\* "Keeps cleaning from blocking DNS queries": CleanExpired comes to its end.
CleanEnds == pc[Cleaner] = "locked" ~> pc[Cleaner] = "idle"

\* Shutdown is graceful: Close returns.
CloseEnds == pc[Closer] = "lock" ~> pc[Closer] = "gone"
=============================================================================
