---------------------------- MODULE SortPipeline ----------------------------
(***************************************************************************)
(* The asynchronous IP sorting pipeline of the DNS server: sortIPsAsync    *)
(* (dnsserver/sorting.go) takes a per-key SortingState out of the cache    *)
(* (cache/cache_sorted.go), a slot of sortSemaphore, and hands a SortTask  *)
(* to the SortQueue (cache/sortqueue.go), whose workers ping the addresses *)
(* and call handleSortComplete, which writes the sorted cache and finishes *)
(* the SortingState.  Around it: the two writers of the raw cache (a       *)
(* client miss or refresh, and the background completion callback of       *)
(* server_callbacks.go), CleanExpired, LRU eviction, Clear and Stop.       *)
(*                                                                         *)
(* A "job" is one `go s.sortIPsAsync(...)` goroutine together with the     *)
(* SortingState it creates, if it creates one, and the task it submits.    *)
(* Every action is one critical section or channel operation of the code.  *)
(***************************************************************************)
EXTENDS Naturals, Sequences, FiniteSets

CONSTANTS
    Key,        \* cache keys, a domain with a query type
    IP,         \* addresses
    Answer,     \* the address lists upstreams may return, as sets
    Job,        \* bound on the sortIPsAsync goroutines, a finite set of numbers
    Bg,         \* background completions (CacheUpdateCallback calls)
    Worker,     \* SortQueue workers
    QueueCap,   \* capacity of SortQueue.taskQueue
    SemCap,     \* capacity of sortSemaphore (MaxConcurrentSorts)
    MaxClock,   \* bound on the query versions handed out
    MayStop,    \* whether the server may be shut down
    NoEntry     \* a key with no cache entry

ASSUME JobAssumption == Job \subseteq Nat \ {0} /\ IsFiniteSet(Job)
ASSUME AnswerAssumption == Answer \subseteq (SUBSET IP) \ {{}}
ASSUME CapAssumption == QueueCap \in Nat /\ SemCap \in Nat /\ MaxClock \in Nat
ASSUME StopAssumption == MayStop \in BOOLEAN
ASSUME KeyAssumption == Key # {}
ASSUME EntryAssumption == NoEntry \notin [ips : SUBSET IP, ver : Nat]

VARIABLES
    raw,           \* rawCache: the answer of a key and its QueryVersion
    sorted,        \* sortedCache: the sorted answer and the version it was sorted from
    ipRefs,        \* IPPool: RefCount of every address
    sortingState,  \* Cache.sortingState: the job whose SortingState is in the map, 0 for none
    inProgress,    \* SortingState.InProgress of each job's state
    doneCloses,    \* how often SortingState.Done was closed
    pc,            \* where each job is
    arg,           \* the arguments a job was spawned with: key, IPs, version of the answer
    oldIPs,        \* oldIPs read by SetSorted
    sem,           \* slots of sortSemaphore in use
    taskQueue,     \* SortQueue.taskQueue
    worker,        \* the job a worker is processing, 0 when it waits in its select
    exited,        \* workers that left workerLoop
    stop,          \* progress of SortQueue.Stop
    crashed,       \* a send on a closed channel brought the process down
    clock,         \* time.Now().UnixNano() as a counter
    bg             \* each background completion: its step and what it carries

cacheVars == <<raw, sorted, ipRefs>>
stateVars == <<sortingState, inProgress, doneCloses>>
jobVars   == <<pc, arg, oldIPs>>
queueVars == <<sem, taskQueue, worker, exited, stop, crashed>>
vars == <<cacheVars, stateVars, jobVars, queueVars, clock, bg>>

Entry == [ips : SUBSET IP, ver : Nat]

PC == {"idle", "start", "begin", "submit", "reject", "queued", "sorting",
       "fail", "load", "store", "pool", "finish", "done", "skipped"}

\* Where a job owns a SortingState it has not finished yet.
Owning == {"begin", "submit", "reject", "queued", "sorting", "fail",
           "load", "store", "pool", "finish"}

IPsOf(e) == IF e = NoEntry THEN {} ELSE e.ips

\* The arguments of a goroutine that does not run (yet, or any more).
NoArg == [key |-> CHOOSE k \in Key : TRUE, ips |-> {}, ver |-> 0]

\* A completion that does not run (yet, or any more).
NoBg(step) == [step |-> step, key |-> CHOOSE k \in Key : TRUE, ips |-> {}, ver |-> 0]

Init ==
    /\ raw = [k \in Key |-> NoEntry]
    /\ sorted = [k \in Key |-> NoEntry]
    /\ ipRefs = [i \in IP |-> 0]
    /\ sortingState = [k \in Key |-> 0]
    /\ inProgress = [j \in Job |-> FALSE]
    /\ doneCloses = [j \in Job |-> 0]
    /\ pc = [j \in Job |-> "idle"]
    /\ arg = [j \in Job |-> NoArg]
    /\ oldIPs = [j \in Job |-> {}]
    /\ sem = 0
    /\ taskQueue = <<>>
    /\ worker = [w \in Worker |-> 0]
    /\ exited = {}
    /\ stop = "running"
    /\ crashed = FALSE
    /\ clock = 0
    /\ bg = [b \in Bg |-> NoBg("idle")]

-----------------------------------------------------------------------------
(* Writers of the raw cache and the goroutines they start.                 *)

\* `go s.sortIPsAsync(...)`: the next unused job starts with its arguments.
Spawn(j, k, ips, ver) ==
    /\ pc[j] = "idle"
    /\ \A i \in Job : i < j => pc[i] # "idle"
    /\ pc' = [pc EXCEPT ![j] = "start"]
    /\ arg' = [arg EXCEPT ![j] = [key |-> k, ips |-> ips, ver |-> ver]]
    /\ UNCHANGED oldIPs

\* The tail of handleCacheMiss and of refreshCacheAsync: the answer is stored
\* with the current time as its version, and a sort of it is started.
Resolve(j, k, ips) ==
    /\ clock < MaxClock
    /\ clock' = clock + 1
    /\ raw' = [raw EXCEPT ![k] = [ips |-> ips, ver |-> clock']]
    /\ Spawn(j, k, ips, clock')
    /\ UNCHANGED <<sorted, ipRefs, stateVars, queueVars, bg>>

\* handleRawCacheHit on a fresh entry, and handleSortedCacheHit when only the
\* RTTs are stale: the cached answer is sorted again.
CacheHit(j, k) ==
    /\ raw[k] # NoEntry
    /\ Spawn(j, k, raw[k].ips, raw[k].ver)
    /\ UNCHANGED <<cacheVars, stateVars, queueVars, clock, bg>>

\* queryParallel notes the version of its query when it starts; the merged
\* answer of the background collection comes back under that version.
BgStart(b, k, ips) ==
    /\ bg[b].step = "idle"
    /\ clock < MaxClock
    /\ clock' = clock + 1
    /\ bg' = [bg EXCEPT ![b] = [step |-> "check", key |-> k, ips |-> ips, ver |-> clock']]
    /\ UNCHANGED <<cacheVars, stateVars, jobVars, queueVars>>

\* CacheUpdateCallback reads the raw entry and decides: an older version and
\* an unchanged address set are both dropped.
BgCheck(b) ==
    LET cur == raw[bg[b].key]
        curVer == IF cur = NoEntry THEN 0 ELSE cur.ver
    IN  /\ bg[b].step = "check"
        /\ bg' = [bg EXCEPT ![b] =
                     IF bg[b].ver < curVer \/ bg[b].ips = IPsOf(cur)
                     THEN NoBg("done") ELSE [@ EXCEPT !.step = "set"]]
        /\ UNCHANGED <<cacheVars, stateVars, jobVars, queueVars, clock>>

\* SetRawRecordsWithVersion, without a second look at the version.
BgSetRaw(b) ==
    /\ bg[b].step = "set"
    /\ raw' = [raw EXCEPT ![bg[b].key] = [ips |-> bg[b].ips, ver |-> bg[b].ver]]
    /\ bg' = [bg EXCEPT ![b].step = "cancel"]
    /\ UNCHANGED <<sorted, ipRefs, stateVars, jobVars, queueVars, clock>>

\* Mutated form of SafeClose: the select around close(state.Done) is missing.
SafeClose_Unguarded(j) == doneCloses' = [doneCloses EXCEPT ![j] = @ + 1]

\* close(state.Done) unless it is closed already.
SafeClose(j) == doneCloses' = [doneCloses EXCEPT ![j] = IF @ = 0 THEN 1 ELSE @]

\* CancelSort: the state leaves the map, the sorted entry is dropped, and the
\* running sort is not told.
CancelSort(k) ==
    LET j == sortingState[k]
    IN  /\ IF j # 0
           THEN /\ inProgress' = [inProgress EXCEPT ![j] = FALSE]
                /\ SafeClose(j)
           ELSE UNCHANGED <<inProgress, doneCloses>>
        /\ sortingState' = [sortingState EXCEPT ![k] = 0]
        /\ sorted' = [sorted EXCEPT ![k] = NoEntry]

BgCancel(b) ==
    /\ bg[b].step = "cancel"
    /\ CancelSort(bg[b].key)
    /\ bg' = [bg EXCEPT ![b].step = "spawn"]
    /\ UNCHANGED <<raw, ipRefs, jobVars, queueVars, clock>>

\* The callback reads the raw entry again and starts a sort of what it finds.
BgSpawn(b, j) ==
    LET k == bg[b].key
    IN  /\ bg[b].step = "spawn"
        /\ raw[k] # NoEntry
        /\ Spawn(j, k, raw[k].ips, raw[k].ver)
        /\ bg' = [bg EXCEPT ![b] = NoBg("done")]
        /\ UNCHANGED <<cacheVars, stateVars, queueVars, clock>>

\* The raw entry was evicted or cleaned in between: nothing to sort.
BgNoEntry(b) ==
    /\ bg[b].step = "spawn"
    /\ raw[bg[b].key] = NoEntry
    /\ bg' = [bg EXCEPT ![b] = NoBg("done")]
    /\ UNCHANGED <<cacheVars, stateVars, jobVars, queueVars, clock>>

-----------------------------------------------------------------------------
(* sortIPsAsync.                                                           *)

Goto(j, label) == pc' = [pc EXCEPT ![j] = label]

\* The goroutine returns: its locals are gone.
Return(j, label) == Goto(j, label) /\ arg' = [arg EXCEPT ![j] = NoArg]

\* GetOrStartSort finds no state for the key and creates one.
StartSort(j) ==
    LET k == arg[j].key
    IN  /\ pc[j] = "start"
        /\ sortingState[k] = 0
        /\ sortingState' = [sortingState EXCEPT ![k] = j]
        /\ inProgress' = [inProgress EXCEPT ![j] = TRUE]
        /\ Goto(j, "begin")
        /\ UNCHANGED <<cacheVars, doneCloses, arg, oldIPs, queueVars, clock, bg>>

\* GetOrStartSort finds a state, running or finished: the sort is skipped.
SkipSort(j) ==
    /\ pc[j] = "start"
    /\ sortingState[arg[j].key] # 0
    /\ Return(j, "skipped")
    /\ UNCHANGED <<cacheVars, stateVars, oldIPs, queueVars, clock, bg>>

\* A single address needs no sorting: handleSortComplete runs at once.
SingleIP(j) ==
    /\ pc[j] = "begin"
    /\ Cardinality(arg[j].ips) = 1
    /\ Goto(j, "load")
    /\ UNCHANGED <<cacheVars, stateVars, arg, oldIPs, queueVars, clock, bg>>

\* The non-blocking send on sortSemaphore succeeds.
Acquire(j) ==
    /\ pc[j] = "begin"
    /\ Cardinality(arg[j].ips) # 1
    /\ sem < SemCap
    /\ sem' = sem + 1
    /\ Goto(j, "submit")
    /\ UNCHANGED <<cacheVars, stateVars, arg, oldIPs,
                   taskQueue, worker, exited, stop, crashed, clock, bg>>

\* sortSemaphore is full: the sort is given up with an error.
SemFull(j) ==
    /\ pc[j] = "begin"
    /\ Cardinality(arg[j].ips) # 1
    /\ sem = SemCap
    /\ Goto(j, "fail")
    /\ UNCHANGED <<cacheVars, stateVars, arg, oldIPs, queueVars, clock, bg>>

\* Submit sends the task; the deferred receive gives the slot back.
Submit(j) ==
    /\ pc[j] = "submit"
    /\ stop # "closed"
    /\ Len(taskQueue) < QueueCap
    /\ taskQueue' = Append(taskQueue, j)
    /\ sem' = sem - 1
    /\ Goto(j, "queued")
    /\ UNCHANGED <<cacheVars, stateVars, arg, oldIPs,
                   worker, exited, stop, crashed, clock, bg>>

\* Submit returns false: the queue is full, or its select picks stopCh.
SubmitRefused(j) ==
    /\ pc[j] = "submit"
    /\ stop # "running" \/ Len(taskQueue) >= QueueCap
    /\ Goto(j, "reject")
    /\ UNCHANGED <<cacheVars, stateVars, arg, oldIPs, queueVars, clock, bg>>

\* Once taskQueue is closed the select may pick the send, which panics.
SubmitPanics(j) ==
    /\ pc[j] = "submit"
    /\ stop = "closed"
    /\ crashed' = TRUE
    /\ UNCHANGED <<cacheVars, stateVars, jobVars,
                   sem, taskQueue, worker, exited, stop, clock, bg>>

-----------------------------------------------------------------------------
(* SortQueue workers and handleSortComplete.                               *)

Take(w) ==
    /\ w \notin exited
    /\ worker[w] = 0
    /\ taskQueue # <<>>
    /\ worker' = [worker EXCEPT ![w] = Head(taskQueue)]
    /\ taskQueue' = Tail(taskQueue)
    /\ Goto(Head(taskQueue), "sorting")
    /\ UNCHANGED <<cacheVars, stateVars, arg, oldIPs,
                   sem, exited, stop, crashed, clock, bg>>

\* sortFunc returns an order of the addresses, or of some of them: PingAndSort
\* leaves out those beyond max_test_ips and, offline, those without a cached RTT ...
SortOk(j) ==
    /\ pc[j] = "sorting"
    /\ \E ips \in SUBSET arg[j].ips : ips # {} /\ arg' = [arg EXCEPT ![j].ips = ips]
    /\ Goto(j, "load")
    /\ UNCHANGED <<cacheVars, stateVars, oldIPs, queueVars, clock, bg>>

\* ... or an error (processTask allows it, performPingSort never does it).
SortErr(j) ==
    /\ pc[j] = "sorting"
    /\ Goto(j, "fail")
    /\ UNCHANGED <<cacheVars, stateVars, arg, oldIPs, queueVars, clock, bg>>

\* SetSorted, first half: the addresses of the entry that is there now.
LoadOld(j) ==
    /\ pc[j] = "load"
    /\ oldIPs' = [oldIPs EXCEPT ![j] = IPsOf(sorted[arg[j].key])]
    /\ Goto(j, "store")
    /\ UNCHANGED <<cacheVars, stateVars, arg, queueVars, clock, bg>>

\* SetSorted: the entry is replaced whatever is there.
Store(j) ==
    /\ pc[j] = "store"
    /\ sorted' = [sorted EXCEPT ![arg[j].key] = [ips |-> arg[j].ips, ver |-> arg[j].ver]]
    /\ Goto(j, "pool")
    /\ UNCHANGED <<raw, ipRefs, stateVars, arg, oldIPs, queueVars, clock, bg>>

\* IPPool.UpdateDomainIPs: dropped addresses lose a reference (never below
\* zero), addresses that are new gain one.
UpdateDomainIPs(old, new) ==
    ipRefs' = [i \in IP |->
                 IF i \in old \ new THEN (IF ipRefs[i] = 0 THEN 0 ELSE ipRefs[i] - 1)
                 ELSE IF i \in new \ old THEN ipRefs[i] + 1
                 ELSE ipRefs[i]]

UpdatePool(j) ==
    /\ pc[j] = "pool"
    /\ UpdateDomainIPs(oldIPs[j], arg[j].ips)
    /\ oldIPs' = [oldIPs EXCEPT ![j] = {}]
    /\ Goto(j, "finish")
    /\ UNCHANGED <<raw, sorted, stateVars, arg, queueVars, clock, bg>>

\* FinishSort: the job's own state is marked finished, in the map or not.
FinishSort(j) ==
    /\ inProgress' = [inProgress EXCEPT ![j] = FALSE]
    /\ SafeClose(j)
    /\ UNCHANGED sortingState

\* Mutated form of FreeWorker: the worker never returns from its task.
FreeWorker_Stuck(j) == j \in Job /\ UNCHANGED worker

\* A worker whose job ends goes back to its select.
FreeWorker(j) == worker' = [w \in Worker |-> IF worker[w] = j THEN 0 ELSE worker[w]]

\* The end of handleSortComplete, after success or with an error.
Finish(j) ==
    /\ pc[j] \in {"finish", "fail"}
    /\ FinishSort(j)
    /\ FreeWorker(j)
    /\ Return(j, "done")
    /\ UNCHANGED <<cacheVars, oldIPs, sem, taskQueue, exited, stop, crashed, clock, bg>>

\* Mutated form of FinishRefused: the slot is not given back on this path.
FinishRefused_Leak(j) ==
    /\ pc[j] = "reject"
    /\ FinishSort(j)
    /\ Return(j, "done")
    /\ UNCHANGED <<cacheVars, oldIPs, sem, taskQueue, worker, exited, stop, crashed, clock, bg>>

\* The callback for a refused task; the deferred receive frees the slot.
FinishRefused(j) ==
    /\ pc[j] = "reject"
    /\ FinishSort(j)
    /\ sem' = sem - 1
    /\ Return(j, "done")
    /\ UNCHANGED <<cacheVars, oldIPs, taskQueue, worker, exited, stop, crashed, clock, bg>>

-----------------------------------------------------------------------------
(* SortQueue.Stop.                                                         *)

StopBegin ==
    /\ MayStop
    /\ stop = "running"
    /\ stop' = "stopping"
    /\ UNCHANGED <<cacheVars, stateVars, jobVars, sem, taskQueue, worker, exited,
                   crashed, clock, bg>>

WorkerExit(w) ==
    /\ stop # "running"
    /\ w \notin exited
    /\ worker[w] = 0
    /\ exited' = exited \cup {w}
    /\ UNCHANGED <<cacheVars, stateVars, jobVars, sem, taskQueue, worker, stop,
                   crashed, clock, bg>>

\* stopWg.Wait returns.
StopWait ==
    /\ stop = "stopping"
    /\ exited = Worker
    /\ stop' = "draining"
    /\ UNCHANGED <<cacheVars, stateVars, jobVars, sem, taskQueue, worker, exited,
                   crashed, clock, bg>>

\* Mutated form of DrainOne: the queued task is dropped without its callback.
DrainOne_NoCallback ==
    /\ stop = "draining"
    /\ taskQueue # <<>>
    /\ taskQueue' = Tail(taskQueue)
    /\ UNCHANGED <<cacheVars, stateVars, jobVars, sem, worker, exited, stop, crashed, clock, bg>>

\* A queued task gets its callback with ErrQueueClosed.
DrainOne ==
    /\ stop = "draining"
    /\ taskQueue # <<>>
    /\ LET j == Head(taskQueue)
       IN  FinishSort(j) /\ Return(j, "done")
    /\ taskQueue' = Tail(taskQueue)
    /\ UNCHANGED <<cacheVars, oldIPs, sem, worker, exited, stop, crashed, clock, bg>>

DrainDone ==
    /\ stop = "draining"
    /\ taskQueue = <<>>
    /\ stop' = "drained"
    /\ UNCHANGED <<cacheVars, stateVars, jobVars, sem, taskQueue, worker, exited,
                   crashed, clock, bg>>

CloseQueue ==
    /\ stop = "drained"
    /\ stop' = "closed"
    /\ UNCHANGED <<cacheVars, stateVars, jobVars, sem, taskQueue, worker, exited,
                   crashed, clock, bg>>

-----------------------------------------------------------------------------
(* Maintenance of the caches.                                              *)

\* LRU eviction: of a raw entry silently, of a sorted entry with onEvict.
EvictRaw(k) ==
    /\ raw[k] # NoEntry
    /\ raw' = [raw EXCEPT ![k] = NoEntry]
    /\ UNCHANGED <<sorted, ipRefs, stateVars, jobVars, queueVars, clock, bg>>

EvictSorted(k) ==
    /\ sorted[k] # NoEntry
    /\ sorted' = [sorted EXCEPT ![k] = NoEntry]
    /\ UpdateDomainIPs(sorted[k].ips, {})
    /\ UNCHANGED <<raw, stateVars, jobVars, queueVars, clock, bg>>

\* Mutated form of CleanExpired: running sorts lose their state as well.
CleanExpired_Running(oldRaw, oldSorted) ==
    /\ raw' = [k \in Key |-> IF k \in oldRaw THEN NoEntry ELSE raw[k]]
    /\ sorted' = [k \in Key |-> IF k \in oldSorted THEN NoEntry ELSE sorted[k]]
    /\ sortingState' = [k \in Key |-> 0]
    /\ UNCHANGED <<ipRefs, inProgress, doneCloses, jobVars, queueVars, clock, bg>>

\* CleanExpired, under c.mu: the raw and sorted entries that are past their
\* limit (time is abstracted: any of them) and every finished SortingState.
CleanExpired(oldRaw, oldSorted) ==
    /\ raw' = [k \in Key |-> IF k \in oldRaw THEN NoEntry ELSE raw[k]]
    /\ sorted' = [k \in Key |-> IF k \in oldSorted THEN NoEntry ELSE sorted[k]]
    /\ sortingState' = [k \in Key |->
                          IF sortingState[k] # 0 /\ ~inProgress[sortingState[k]]
                          THEN 0 ELSE sortingState[k]]
    /\ UNCHANGED <<ipRefs, inProgress, doneCloses, jobVars, queueVars, clock, bg>>

\* Clear closes Done of every running sort, unguarded, and drops every map.
Clear ==
    /\ doneCloses' = [j \in Job |->
                        IF inProgress[j] /\ \E k \in Key : sortingState[k] = j
                        THEN doneCloses[j] + 1 ELSE doneCloses[j]]
    /\ raw' = [k \in Key |-> NoEntry]
    /\ sorted' = [k \in Key |-> NoEntry]
    /\ sortingState' = [k \in Key |-> 0]
    /\ UNCHANGED <<ipRefs, inProgress, jobVars, queueVars, clock, bg>>

-----------------------------------------------------------------------------
Writers ==
    \/ \E j \in Job, k \in Key, ips \in Answer : Resolve(j, k, ips)
    \/ \E j \in Job, k \in Key : CacheHit(j, k)
    \/ \E b \in Bg, k \in Key, ips \in Answer : BgStart(b, k, ips)

BgStep(b) == BgCheck(b) \/ BgSetRaw(b) \/ BgCancel(b) \/ BgNoEntry(b)
                \/ \E j \in Job : BgSpawn(b, j)

\* The steps of the goroutine that runs sortIPsAsync.
Caller(j) == StartSort(j) \/ SkipSort(j) \/ SingleIP(j) \/ Acquire(j) \/ SemFull(j)
                \/ Submit(j) \/ SubmitRefused(j) \/ SubmitPanics(j) \/ FinishRefused(j)

\* The sort itself and handleSortComplete.
Sorting(j) == SortOk(j) \/ SortErr(j) \/ LoadOld(j) \/ Store(j) \/ UpdatePool(j)
                \/ Finish(j)

Stopper == StopBegin \/ StopWait \/ DrainOne \/ DrainDone \/ CloseQueue

Maintenance ==
    \/ \E k \in Key : EvictRaw(k) \/ EvictSorted(k)
    \/ \E oldRaw, oldSorted \in SUBSET Key : CleanExpired(oldRaw, oldSorted)
    \/ Clear

Step ==
    \/ Writers
    \/ \E b \in Bg : BgStep(b)
    \/ \E j \in Job : Caller(j) \/ Sorting(j)
    \/ \E w \in Worker : Take(w) \/ WorkerExit(w)
    \/ Stopper
    \/ Maintenance

\* After a panic the process is gone.
Next == (~crashed /\ Step) \/ (crashed /\ UNCHANGED vars)

Spec == Init /\ [][Next]_vars

\* The scheduler runs every goroutine; a sort ends (its context times out);
\* a worker left alone takes what is queued; Stop, once begun, goes on.
Fairness ==
    /\ \A j \in Job : WF_vars(~crashed /\ Caller(j)) /\ WF_vars(~crashed /\ Sorting(j))
    /\ \A w \in Worker : WF_vars(~crashed /\ (Take(w) \/ WorkerExit(w)))
    /\ WF_vars(~crashed /\ (StopWait \/ DrainOne \/ DrainDone \/ CloseQueue))

FairSpec == Spec /\ Fairness
-----------------------------------------------------------------------------
(* Properties.                                                             *)

\* Every variable keeps the shape its Go declaration gives it.
TypeOK ==
    /\ raw \in [Key -> Entry \cup {NoEntry}]
    /\ sorted \in [Key -> Entry \cup {NoEntry}]
    /\ ipRefs \in [IP -> Nat]
    /\ sortingState \in [Key -> Job \cup {0}]
    /\ inProgress \in [Job -> BOOLEAN]
    /\ doneCloses \in [Job -> Nat]
    /\ pc \in [Job -> PC]
    /\ arg \in [Job -> [key : Key, ips : SUBSET IP, ver : Nat]]
    /\ oldIPs \in [Job -> SUBSET IP]
    /\ sem \in 0 .. SemCap
    /\ taskQueue \in Seq(Job)
    /\ worker \in [Worker -> Job \cup {0}]
    /\ exited \subseteq Worker
    /\ stop \in {"running", "stopping", "draining", "drained", "closed"}
    /\ crashed \in BOOLEAN
    /\ clock \in Nat
    /\ bg \in [Bg -> [step : {"idle", "check", "set", "cancel", "spawn", "done"},
                      key : Key, ips : SUBSET IP, ver : Nat]]

\* The Done channel of a SortingState is closed at most once: Clear closes it
\* without looking, CancelSort and FinishSort may come before or after it, and
\* a second close panics.
ClosedOnce == \A j \in Job : doneCloses[j] <= 1

\* A sort that owns its state and has not been cancelled, cleared or finished.
Live(j) == pc[j] \in Owning /\ doneCloses[j] = 0

\* At most one live sort per key, however cancels, cleans, clears and restarts
\* of sortIPsAsync interleave: GetOrStartSort hands out one state at a time.
SingleFlight ==
    \A i, j \in Job : Live(i) /\ Live(j) /\ arg[i].key = arg[j].key => i = j

InQueue(j) == \E n \in 1 .. Len(taskQueue) : taskQueue[n] = j

AtWorker(j) == \E w \in Worker : worker[w] = j

\* A state that is in the map and in progress, which blocks every later sort of
\* its key, belongs to a job that can still finish it: one that runs, sits in
\* the queue, or is being processed by a worker that has not exited.
HasExecutor ==
    \A k \in Key :
        LET j == sortingState[k]
        IN  j # 0 /\ inProgress[j] =>
              /\ Live(j) /\ arg[j].key = k
              /\ pc[j] = "queued" => InQueue(j)
              /\ pc[j] = "sorting" => \E w \in Worker \ exited : worker[w] = j

\* The jobs between the send on sortSemaphore and the deferred receive.
SlotHolders == {j \in Job : pc[j] \in {"submit", "reject"}}

\* Every slot of sortSemaphore in use belongs to a job that will give it back:
\* none leaks on the refused and shutdown paths, none is given back twice.
SemaphoreExact == sem = Cardinality(SlotHolders) /\ sem <= SemCap

\* Every sort that got its state ends, unless Stop has finished draining.
SortEnds ==
    \A j \in Job : pc[j] \in Owning ~>
        (pc[j] = "done" \/ stop \in {"drained", "closed"})

-----------------------------------------------------------------------------
(* What comments of the code say of it, and TLC refutes.                   *)

\* entries.go says QueryVersion prevents an old sort from overwriting a newer
\* one: a sorted entry is never replaced by one of an older answer.
StaleSortNeverOverwrites ==
    [][\A k \in Key : sorted[k] # NoEntry /\ sorted'[k] # NoEntry
                        => sorted'[k].ver >= sorted[k].ver]_vars

\* sorting.go says it skips a sort when one of the key is in progress: what
\* GetOrStartSort finds when it skips is a sort that has not finished.
SkipOnlyWhileInProgress ==
    [][\A j \in Job : pc[j] = "start" /\ pc'[j] = "skipped"
                        => inProgress[sortingState[arg[j].key]]]_vars

\* server_callbacks.go says only a newer version may update the raw cache: the
\* version of a raw entry never goes back.
RawVersionNeverRegresses ==
    [][\A k \in Key : raw[k] # NoEntry /\ raw'[k] # NoEntry
                        => raw'[k].ver >= raw[k].ver]_vars

\* sortqueue.go says Stop drains the queue so that every callback runs: no task
\* is left behind in the closed queue.
NoTaskLostAtStop == stop = "closed" => taskQueue = <<>>

\* Shutdown is said to be graceful: no Submit meets the closed queue.
NoSendOnClosed == ~crashed

\* ip_pool.go says RefCount is the number of domains that use the address: it
\* equals the number of sorted entries that hold it, whenever no SetSorted is
\* between its write and its update of the pool.
RefCountExact ==
    (\A j \in Job : pc[j] # "pool") =>
        \A i \in IP : ipRefs[i] = Cardinality({k \in Key : i \in IPsOf(sorted[k])})
=============================================================================
