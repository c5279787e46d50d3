------------------------- MODULE SortPipelineProofs -------------------------
(***************************************************************************)
(* Proofs about SortPipeline for every set of keys, jobs and workers and   *)
(* every capacity.  The inductive invariant joins the type invariant to    *)
(* three facts: what the sortingState map says of the jobs it names        *)
(* (StateInv), where a queued or running task is (QueueInv), and who holds *)
(* the semaphore (SlotInv).                                                *)
(***************************************************************************)
EXTENDS SortPipeline, FiniteSetTheorems, TLAPS

\* What holds of one job's SortingState, in the map or out of it.
JobState(j) ==
    /\ doneCloses[j] <= 1
    /\ pc[j] \in {"idle", "start"} =>
          /\ doneCloses[j] = 0
          /\ \A k \in Key : sortingState[k] # j
    /\ Live(j) => inProgress[j] /\ sortingState[arg[j].key] = j

\* A state in the map that is in progress has an open Done and a live job of
\* that key; this is what makes the unguarded close of Clear safe.
MapState(k) ==
    LET j == sortingState[k]
    IN  j # 0 /\ inProgress[j] => Live(j) /\ arg[j].key = k

StateInv == (\A j \in Job : JobState(j)) /\ (\A k \in Key : MapState(k))

\* The places where a job can be while a worker processes it.
Processing == {"sorting", "fail", "load", "store", "pool", "finish"}

\* The queue holds each queued job once, a worker's job is being processed,
\* and workers leave only between two tasks.
QueueInv ==
    /\ \A n \in 1 .. Len(taskQueue) : pc[taskQueue[n]] = "queued"
    /\ \A m, n \in 1 .. Len(taskQueue) : taskQueue[m] = taskQueue[n] => m = n
    /\ \A j \in Job : pc[j] = "queued" => InQueue(j)
    /\ \A w \in Worker : worker[w] # 0 => w \notin exited /\ pc[worker[w]] \in Processing
    /\ \A j \in Job : pc[j] = "sorting" => AtWorker(j)

SlotInv == sem = Cardinality(SlotHolders)

IInv == TypeOK /\ StateInv /\ QueueInv /\ SlotInv

-----------------------------------------------------------------------------
(* Facts about the definitions.                                            *)

\* The defaults of the model are values of the right type.
LEMMA DefaultTypes ==
    /\ NoArg \in [key : Key, ips : SUBSET IP, ver : Nat]
    /\ \A step \in {"idle", "done"} :
          NoBg(step) \in [step : {"idle", "check", "set", "cancel", "spawn", "done"},
                          key : Key, ips : SUBSET IP, ver : Nat]
  BY KeyAssumption DEF NoArg, NoBg

\* Every key's entry yields a set of addresses.
LEMMA IPsOfType == \A e \in Entry \cup {NoEntry} : IPsOf(e) \in SUBSET IP
  BY DEF IPsOf, Entry

\* SlotHolders is finite, and a job in it accounts for one slot of the
\* semaphore: taking the job out leaves one less.
LEMMA SlotCount ==
    /\ IsFiniteSet(SlotHolders)
    /\ Cardinality(SlotHolders) \in Nat
    /\ \A j \in Job :
         /\ j \notin SlotHolders =>
               Cardinality(SlotHolders \cup {j}) = Cardinality(SlotHolders) + 1
         /\ j \in SlotHolders =>
               /\ Cardinality(SlotHolders \ {j}) = Cardinality(SlotHolders) - 1
               /\ Cardinality(SlotHolders) > 0
<1>1. IsFiniteSet(SlotHolders)
  BY JobAssumption, FS_Subset DEF SlotHolders
<1>2. Cardinality(SlotHolders) \in Nat
  BY <1>1, FS_CardinalityType
<1>3. ASSUME NEW j \in Job, j \notin SlotHolders
      PROVE  Cardinality(SlotHolders \cup {j}) = Cardinality(SlotHolders) + 1
  BY <1>1, <1>3, FS_AddElement
<1>4. ASSUME NEW j \in Job, j \in SlotHolders
      PROVE  /\ Cardinality(SlotHolders \ {j}) = Cardinality(SlotHolders) - 1
             /\ Cardinality(SlotHolders) > 0
  <2>1. Cardinality(SlotHolders \ {j}) = Cardinality(SlotHolders) - 1
    BY <1>1, <1>4, FS_RemoveElement
  <2>2. SlotHolders # {}
    BY <1>4
  <2>3. Cardinality(SlotHolders) # 0
    BY <1>1, <2>2, FS_EmptySet
  <2> QED
    BY <1>2, <2>1, <2>3
<1> QED
  BY <1>1, <1>2, <1>3, <1>4

-----------------------------------------------------------------------------
(* Type correctness.                                                       *)

\* Init has the declared types.
LEMMA InitType == Init => TypeOK
<1> SUFFICES ASSUME Init PROVE TypeOK
  OBVIOUS
<1>1. bg \in [Bg -> [step : {"idle", "check", "set", "cancel", "spawn", "done"},
                    key : Key, ips : SUBSET IP, ver : Nat]]
  BY DefaultTypes DEF Init
<1>2. arg \in [Job -> [key : Key, ips : SUBSET IP, ver : Nat]]
  BY DefaultTypes DEF Init
<1>3. sem \in 0 .. SemCap /\ taskQueue \in Seq(Job)
  BY CapAssumption DEF Init
<1> QED
  BY <1>1, <1>2, <1>3 DEF Init, TypeOK, PC

\* The writers of the raw cache keep the types.
LEMMA WritersType == TypeOK /\ Writers => TypeOK'
<1> SUFFICES ASSUME TypeOK, Writers PROVE TypeOK'
  OBVIOUS
<1>1. ASSUME NEW j \in Job, NEW k \in Key, NEW ips \in Answer, Resolve(j, k, ips)
      PROVE  TypeOK'
  BY <1>1, AnswerAssumption
  DEF TypeOK, Resolve, Spawn, Entry, PC, stateVars, queueVars
<1>2. ASSUME NEW j \in Job, NEW k \in Key, CacheHit(j, k)
      PROVE  TypeOK'
  BY <1>2 DEF TypeOK, CacheHit, Spawn, Entry, PC, cacheVars, stateVars, queueVars
<1>3. ASSUME NEW b \in Bg, NEW k \in Key, NEW ips \in Answer, BgStart(b, k, ips)
      PROVE  TypeOK'
  BY <1>3, AnswerAssumption
  DEF TypeOK, BgStart, cacheVars, stateVars, jobVars, queueVars
<1> QED
  BY <1>1, <1>2, <1>3 DEF Writers

\* The background completion keeps the types.
LEMMA BgType == TypeOK => \A b \in Bg : BgStep(b) => TypeOK'
<1> SUFFICES ASSUME TypeOK, NEW b \in Bg, BgStep(b) PROVE TypeOK'
  OBVIOUS
<1>1. CASE BgCheck(b)
  <2>1. bg' \in [Bg -> [step : {"idle", "check", "set", "cancel", "spawn", "done"},
                        key : Key, ips : SUBSET IP, ver : Nat]]
    BY <1>1, DefaultTypes DEF TypeOK, BgCheck
  <2> QED
    BY <1>1, <2>1 DEF TypeOK, BgCheck, cacheVars, stateVars, jobVars, queueVars
<1>2. CASE BgSetRaw(b)
  BY <1>2 DEF TypeOK, BgSetRaw, Entry, stateVars, jobVars, queueVars
<1>3. CASE BgCancel(b)
  <2>1. sortingState' \in [Key -> Job \cup {0}] /\ sorted' \in [Key -> Entry \cup {NoEntry}]
    BY <1>3 DEF TypeOK, BgCancel, CancelSort
  <2>2. inProgress' \in [Job -> BOOLEAN]
    BY <1>3 DEF TypeOK, BgCancel, CancelSort
  <2>3. doneCloses' \in [Job -> Nat]
    BY <1>3 DEF TypeOK, BgCancel, CancelSort, SafeClose
  <2> QED
    BY <1>3, <2>1, <2>2, <2>3 DEF TypeOK, BgCancel, jobVars, queueVars
<1>4. CASE BgNoEntry(b)
  BY <1>4, DefaultTypes DEF TypeOK, BgNoEntry, cacheVars, stateVars, jobVars, queueVars
<1>5. ASSUME NEW j \in Job, BgSpawn(b, j) PROVE TypeOK'
  BY <1>5, DefaultTypes
  DEF TypeOK, BgSpawn, Spawn, Entry, PC, cacheVars, stateVars, queueVars
<1> QED
  BY <1>1, <1>2, <1>3, <1>4, <1>5 DEF BgStep

\* The goroutine of sortIPsAsync keeps the types; SlotInv bounds the slots it
\* gives back.
LEMMA CallerType == TypeOK /\ SlotInv => \A j \in Job : Caller(j) => TypeOK'
<1> SUFFICES ASSUME TypeOK, SlotInv, NEW j \in Job, Caller(j) PROVE TypeOK'
  OBVIOUS
<1> USE DEF TypeOK, Goto, Return, PC
<1>1. CASE StartSort(j)
  BY <1>1 DEF StartSort, cacheVars, queueVars
<1>2. CASE SkipSort(j)
  BY <1>2, DefaultTypes DEF SkipSort, cacheVars, stateVars, queueVars
<1>3. CASE SingleIP(j)
  BY <1>3 DEF SingleIP, cacheVars, stateVars, queueVars
<1>4. CASE Acquire(j)
  BY <1>4, CapAssumption DEF Acquire, cacheVars, stateVars
<1>5. CASE SemFull(j)
  BY <1>5 DEF SemFull, cacheVars, stateVars, queueVars
<1>6. CASE Submit(j)
  <2>1. j \in SlotHolders
    BY <1>6 DEF Submit, SlotHolders
  <2>2. sem' \in 0 .. SemCap
    <3>1. sem > 0
      BY <2>1, SlotCount DEF SlotInv
    <3>2. sem' = sem - 1
      BY <1>6 DEF Submit
    <3> QED
      BY <3>1, <3>2, CapAssumption
  <2> QED
    BY <1>6, <2>2 DEF Submit, cacheVars, stateVars
<1>7. CASE SubmitRefused(j)
  BY <1>7 DEF SubmitRefused, cacheVars, stateVars, queueVars
<1>8. CASE SubmitPanics(j)
  BY <1>8 DEF SubmitPanics, cacheVars, stateVars, jobVars
<1>9. CASE FinishRefused(j)
  <2>1. j \in SlotHolders
    BY <1>9 DEF FinishRefused, SlotHolders
  <2>2. sem' \in 0 .. SemCap
    <3>1. sem > 0
      BY <2>1, SlotCount DEF SlotInv
    <3>2. sem' = sem - 1
      BY <1>9 DEF FinishRefused
    <3> QED
      BY <3>1, <3>2, CapAssumption
  <2>3. inProgress' \in [Job -> BOOLEAN] /\ doneCloses' \in [Job -> Nat]
    BY <1>9 DEF FinishRefused, FinishSort, SafeClose
  <2> QED
    BY <1>9, <2>2, <2>3, DefaultTypes DEF FinishRefused, FinishSort, cacheVars
<1> QED
  BY <1>1, <1>2, <1>3, <1>4, <1>5, <1>6, <1>7, <1>8, <1>9 DEF Caller

\* The sort and handleSortComplete keep the types.
LEMMA SortingType == TypeOK => \A j \in Job : Sorting(j) => TypeOK'
<1> SUFFICES ASSUME TypeOK, NEW j \in Job, Sorting(j) PROVE TypeOK'
  OBVIOUS
<1> USE DEF TypeOK, Goto, Return, PC
<1>1. CASE SortOk(j)
  <2>1. PICK ips \in SUBSET arg[j].ips : arg' = [arg EXCEPT ![j].ips = ips]
    BY <1>1 DEF SortOk
  <2>2. arg' \in [Job -> [key : Key, ips : SUBSET IP, ver : Nat]]
    <3>1. arg[j] \in [key : Key, ips : SUBSET IP, ver : Nat] /\ ips \in SUBSET IP
      BY <2>1
    <3>2. [arg[j] EXCEPT !.ips = ips] \in [key : Key, ips : SUBSET IP, ver : Nat]
      BY <3>1
    <3> QED
      BY <2>1, <3>2
  <2> QED
    BY <1>1, <2>2 DEF SortOk, cacheVars, stateVars, queueVars
<1>2. CASE SortErr(j)
  BY <1>2 DEF SortErr, cacheVars, stateVars, queueVars
<1>3. CASE LoadOld(j)
  <2>1. IPsOf(sorted[arg[j].key]) \in SUBSET IP
    BY IPsOfType
  <2> QED
    BY <1>3, <2>1 DEF LoadOld, cacheVars, stateVars, queueVars
<1>4. CASE Store(j)
  BY <1>4 DEF Store, Entry, stateVars, queueVars
<1>5. CASE UpdatePool(j)
  <2>1. ipRefs' \in [IP -> Nat]
    BY <1>5 DEF UpdatePool, UpdateDomainIPs
  <2> QED
    BY <1>5, <2>1 DEF UpdatePool, stateVars, queueVars
<1>6. CASE Finish(j)
  <2>1. inProgress' \in [Job -> BOOLEAN] /\ doneCloses' \in [Job -> Nat]
    BY <1>6 DEF Finish, FinishSort, SafeClose
  <2>2. worker' \in [Worker -> Job \cup {0}]
    BY <1>6 DEF Finish, FreeWorker
  <2> QED
    BY <1>6, <2>1, <2>2, DefaultTypes DEF Finish, FinishSort, cacheVars
<1> QED
  BY <1>1, <1>2, <1>3, <1>4, <1>5, <1>6 DEF Sorting

\* The workers and Stop keep the types.
LEMMA QueueType ==
    TypeOK /\ (Stopper \/ \E w \in Worker : Take(w) \/ WorkerExit(w)) => TypeOK'
<1> SUFFICES ASSUME TypeOK, Stopper \/ \E w \in Worker : Take(w) \/ WorkerExit(w)
             PROVE  TypeOK'
  OBVIOUS
<1> USE DEF TypeOK, Goto, Return, PC
<1>1. ASSUME NEW w \in Worker, Take(w) PROVE TypeOK'
  <2>1. Head(taskQueue) \in Job /\ Tail(taskQueue) \in Seq(Job)
    BY <1>1 DEF Take
  <2> QED
    BY <1>1, <2>1 DEF Take, cacheVars, stateVars
<1>2. ASSUME NEW w \in Worker, WorkerExit(w) PROVE TypeOK'
  BY <1>2 DEF WorkerExit, cacheVars, stateVars, jobVars
<1>3. CASE StopBegin
  BY <1>3 DEF StopBegin, cacheVars, stateVars, jobVars
<1>4. CASE StopWait
  BY <1>4 DEF StopWait, cacheVars, stateVars, jobVars
<1>5. CASE DrainOne
  <2>1. Head(taskQueue) \in Job /\ Tail(taskQueue) \in Seq(Job)
    BY <1>5 DEF DrainOne
  <2>2. inProgress' \in [Job -> BOOLEAN] /\ doneCloses' \in [Job -> Nat]
    BY <1>5, <2>1 DEF DrainOne, FinishSort, SafeClose
  <2> QED
    BY <1>5, <2>1, <2>2, DefaultTypes DEF DrainOne, FinishSort, cacheVars
<1>6. CASE DrainDone
  BY <1>6 DEF DrainDone, cacheVars, stateVars, jobVars
<1>7. CASE CloseQueue
  BY <1>7 DEF CloseQueue, cacheVars, stateVars, jobVars
<1> QED
  BY <1>1, <1>2, <1>3, <1>4, <1>5, <1>6, <1>7 DEF Stopper

\* Eviction, CleanExpired and Clear keep the types.
LEMMA MaintenanceType == TypeOK /\ Maintenance => TypeOK'
<1> SUFFICES ASSUME TypeOK, Maintenance PROVE TypeOK'
  OBVIOUS
<1> USE DEF TypeOK
<1>1. ASSUME NEW k \in Key, EvictRaw(k) PROVE TypeOK'
  BY <1>1 DEF EvictRaw, stateVars, jobVars, queueVars
<1>2. ASSUME NEW k \in Key, EvictSorted(k) PROVE TypeOK'
  <2>1. ipRefs' \in [IP -> Nat]
    BY <1>2 DEF EvictSorted, UpdateDomainIPs
  <2> QED
    BY <1>2, <2>1 DEF EvictSorted, stateVars, jobVars, queueVars
<1>3. ASSUME NEW r \in SUBSET Key, NEW t \in SUBSET Key, CleanExpired(r, t) PROVE TypeOK'
  BY <1>3 DEF CleanExpired, jobVars, queueVars
<1>4. CASE Clear
  BY <1>4 DEF Clear, jobVars, queueVars
<1> QED
  BY <1>1, <1>2, <1>3, <1>4 DEF Maintenance

\* Every step keeps the types.
LEMMA NextType == TypeOK /\ SlotInv /\ [Next]_vars => TypeOK'
<1> SUFFICES ASSUME TypeOK, SlotInv, [Next]_vars PROVE TypeOK'
  OBVIOUS
<1>1. CASE Step
  BY <1>1, WritersType, BgType, CallerType, SortingType, QueueType, MaintenanceType DEF Step
<1>2. CASE UNCHANGED vars
  BY <1>2 DEF TypeOK, vars, cacheVars, stateVars, jobVars, queueVars
<1> QED
  BY <1>1, <1>2 DEF Next

-----------------------------------------------------------------------------
(* The semaphore.                                                          *)

\* A step that takes no job into or out of the slot-holding places and leaves
\* sem alone keeps the count.
LEMMA SlotUnchanged ==
    ASSUME TypeOK, SlotInv, UNCHANGED sem,
           \A j \in Job : pc'[j] \in {"submit", "reject"} <=> pc[j] \in {"submit", "reject"}
    PROVE  SlotInv'
<1>1. SlotHolders' = SlotHolders
  BY DEF SlotHolders
<1> QED
  BY <1>1 DEF SlotInv

\* One job leaving the slot-holding places, with sem decremented, keeps it.
LEMMA SlotLeaves ==
    ASSUME TypeOK, SlotInv, NEW j \in Job, NEW label \in PC,
           pc[j] \in {"submit", "reject"}, label \notin {"submit", "reject"},
           pc' = [pc EXCEPT ![j] = label], sem' = sem - 1
    PROVE  SlotInv'
<1>1. SlotHolders' = SlotHolders \ {j}
  BY DEF SlotHolders, TypeOK
<1>2. j \in SlotHolders
  BY DEF SlotHolders
<1> QED
  BY <1>1, <1>2, SlotCount DEF SlotInv

\* Every step keeps sem equal to the number of slot holders.
LEMMA NextSlot == TypeOK /\ QueueInv /\ SlotInv /\ [Next]_vars => SlotInv'
<1> SUFFICES ASSUME TypeOK, QueueInv, SlotInv, [Next]_vars PROVE SlotInv'
  OBVIOUS
<1>a. ASSUME UNCHANGED <<pc, sem>> PROVE SlotInv'
  BY <1>a, SlotUnchanged
<1>b. ASSUME NEW j \in Job, NEW k \in Key, NEW ips, NEW v, Spawn(j, k, ips, v), UNCHANGED sem
      PROVE  SlotInv'
  BY <1>b, SlotUnchanged DEF Spawn, TypeOK
<1>c. ASSUME NEW j \in Job, NEW label \in PC, Goto(j, label), UNCHANGED sem,
             pc[j] \notin {"submit", "reject"}, label \notin {"submit", "reject"}
      PROVE  SlotInv'
  BY <1>c, SlotUnchanged DEF Goto, TypeOK
<1> USE DEF PC
<1>1. CASE Writers
  BY <1>1, <1>a, <1>b DEF Writers, Resolve, CacheHit, BgStart, queueVars, jobVars
<1>2. ASSUME NEW b \in Bg, BgStep(b) PROVE SlotInv'
  <2>1. CASE BgCheck(b) \/ BgSetRaw(b) \/ BgCancel(b) \/ BgNoEntry(b)
    BY <2>1, <1>a DEF BgCheck, BgSetRaw, BgCancel, BgNoEntry, queueVars, jobVars
  <2>2. ASSUME NEW j \in Job, BgSpawn(b, j) PROVE SlotInv'
    BY <2>2, <1>b DEF BgSpawn, queueVars, TypeOK
  <2> QED
    BY <1>2, <2>1, <2>2 DEF BgStep
<1>3. ASSUME NEW j \in Job, Caller(j) PROVE SlotInv'
  <2>1. CASE StartSort(j) \/ SkipSort(j) \/ SingleIP(j) \/ SemFull(j)
    BY <2>1, <1>c DEF StartSort, SkipSort, SingleIP, SemFull, Return, queueVars
  <2>2. CASE Acquire(j)
    <3>1. SlotHolders' = SlotHolders \cup {j} /\ j \notin SlotHolders
      BY <2>2 DEF Acquire, Goto, SlotHolders, TypeOK
    <3> QED
      BY <2>2, <3>1, SlotCount DEF Acquire, SlotInv
  <2>3. CASE Submit(j)
    BY <2>3, SlotLeaves DEF Submit, Goto
  <2>4. CASE SubmitRefused(j)
    BY <2>4, SlotUnchanged DEF SubmitRefused, Goto, TypeOK, queueVars
  <2>5. CASE SubmitPanics(j)
    BY <2>5, <1>a DEF SubmitPanics, jobVars
  <2>6. CASE FinishRefused(j)
    BY <2>6, SlotLeaves DEF FinishRefused, Return, Goto
  <2> QED
    BY <1>3, <2>1, <2>2, <2>3, <2>4, <2>5, <2>6 DEF Caller
<1>4. ASSUME NEW j \in Job, Sorting(j) PROVE SlotInv'
  BY <1>4, <1>c DEF Sorting, SortOk, SortErr, LoadOld, Store, UpdatePool, Finish, Return, queueVars
<1>5. ASSUME NEW w \in Worker, Take(w) PROVE SlotInv'
  <2>1. Head(taskQueue) \in Job /\ pc[Head(taskQueue)] = "queued"
    BY <1>5 DEF Take, QueueInv, TypeOK
  <2> QED
    BY <1>5, <2>1, <1>c DEF Take
<1>6. ASSUME NEW w \in Worker, WorkerExit(w) PROVE SlotInv'
  BY <1>6, <1>a DEF WorkerExit, jobVars
<1>7. CASE Stopper
  <2>1. CASE DrainOne
    <3>1. Head(taskQueue) \in Job /\ pc[Head(taskQueue)] = "queued"
      BY <2>1 DEF DrainOne, QueueInv, TypeOK
    <3> QED
      BY <2>1, <3>1, <1>c DEF DrainOne, Return
  <2> QED
    BY <1>7, <2>1, <1>a DEF Stopper, StopBegin, StopWait, DrainDone, CloseQueue, jobVars
<1>8. CASE Maintenance
  BY <1>8, <1>a DEF Maintenance, EvictRaw, EvictSorted, CleanExpired, Clear, jobVars, queueVars
<1>9. CASE UNCHANGED vars
  BY <1>9, <1>a DEF vars, jobVars, queueVars
<1> QED
  BY <1>1, <1>2, <1>3, <1>4, <1>5, <1>6, <1>7, <1>8, <1>9 DEF Next, Step

-----------------------------------------------------------------------------
(* The queue and the workers.                                              *)

\* A step that leaves queue and workers alone and moves one job between places
\* that are neither "queued" nor "sorting", keeping it under its worker if it
\* has one.
LEMMA QueueMoves ==
    ASSUME TypeOK, QueueInv, NEW j \in Job, NEW label \in PC,
           pc[j] # "queued", label \notin {"queued", "sorting"},
           pc[j] \in Processing => label \in Processing,
           pc' = [pc EXCEPT ![j] = label],
           UNCHANGED <<taskQueue, worker, exited>>
    PROVE  QueueInv'
<1>1. \A n \in 1 .. Len(taskQueue) : taskQueue[n] \in Job
  BY DEF TypeOK
<1>2. \A w \in Worker : worker[w] \in Job \cup {0}
  BY DEF TypeOK
<1>3. pc \in [Job -> PC] /\ 0 \notin Job
  BY JobAssumption DEF TypeOK
<1> QED
  BY <1>1, <1>2, <1>3 DEF QueueInv, InQueue, AtWorker, Processing

\* Every step keeps the queue invariant.
LEMMA NextQueue == TypeOK /\ QueueInv /\ [Next]_vars => QueueInv'
<1> SUFFICES ASSUME TypeOK, QueueInv, [Next]_vars PROVE QueueInv'
  OBVIOUS
<1> USE DEF PC, Processing
<1>a. ASSUME UNCHANGED <<pc, taskQueue, worker, exited>> PROVE QueueInv'
  BY <1>a DEF QueueInv, InQueue, AtWorker
<1>b. ASSUME NEW j \in Job, NEW k \in Key, NEW ips, NEW v, Spawn(j, k, ips, v),
             UNCHANGED <<taskQueue, worker, exited>>
      PROVE  QueueInv'
  BY <1>b, QueueMoves DEF Spawn
<1>c. \A n \in 1 .. Len(taskQueue) : taskQueue[n] \in Job
  BY DEF TypeOK
<1>d. /\ pc \in [Job -> PC] /\ 0 \notin Job /\ taskQueue \in Seq(Job)
      /\ worker \in [Worker -> Job \cup {0}] /\ exited \subseteq Worker
  BY JobAssumption DEF TypeOK
<1>1. CASE Writers
  BY <1>1, <1>a, <1>b DEF Writers, Resolve, CacheHit, BgStart, queueVars, jobVars
<1>2. ASSUME NEW b \in Bg, BgStep(b) PROVE QueueInv'
  <2>1. CASE BgCheck(b) \/ BgSetRaw(b) \/ BgCancel(b) \/ BgNoEntry(b)
    BY <2>1, <1>a DEF BgCheck, BgSetRaw, BgCancel, BgNoEntry, queueVars, jobVars
  <2>2. ASSUME NEW j \in Job, BgSpawn(b, j) PROVE QueueInv'
    BY <2>2, <1>b DEF BgSpawn, queueVars, TypeOK
  <2> QED
    BY <1>2, <2>1, <2>2 DEF BgStep
<1>3. ASSUME NEW j \in Job, Caller(j) PROVE QueueInv'
  <2>1. CASE StartSort(j) \/ SkipSort(j) \/ SingleIP(j) \/ SemFull(j) \/ Acquire(j)
    BY <2>1, QueueMoves
    DEF StartSort, SkipSort, SingleIP, SemFull, Acquire, Return, Goto, queueVars
  <2>2. CASE Submit(j)
    <3>1. /\ pc' = [pc EXCEPT ![j] = "queued"] /\ pc[j] = "submit"
          /\ taskQueue' = Append(taskQueue, j)
          /\ UNCHANGED <<worker, exited>>
      BY <2>2 DEF Submit, Goto
    <3>2. /\ Len(taskQueue') = Len(taskQueue) + 1
          /\ \A n \in 1 .. Len(taskQueue) : taskQueue'[n] = taskQueue[n]
          /\ taskQueue'[Len(taskQueue) + 1] = j
      BY <1>d, <3>1
    <3>3. \A n \in 1 .. Len(taskQueue) : taskQueue[n] # j
      BY <3>1 DEF QueueInv
    <3>4. Len(taskQueue) \in Nat
      BY <1>d
    <3>5. \A n \in 1 .. Len(taskQueue') : pc'[taskQueue'[n]] = "queued"
      BY <1>c, <1>d, <3>1, <3>2, <3>4 DEF QueueInv
    <3>6. \A m, n \in 1 .. Len(taskQueue') : taskQueue'[m] = taskQueue'[n] => m = n
      BY <3>2, <3>3, <3>4 DEF QueueInv
    <3>7. \A i \in Job : pc'[i] = "queued" => InQueue(i)'
      BY <1>d, <3>1, <3>2, <3>4 DEF QueueInv, InQueue
    <3>8. \A w \in Worker : worker'[w] # 0 => w \notin exited' /\ pc'[worker'[w]] \in Processing
      BY <1>d, <3>1 DEF QueueInv
    <3>9. \A i \in Job : pc'[i] = "sorting" => AtWorker(i)'
      BY <1>d, <3>1 DEF QueueInv, AtWorker
    <3> QED
      BY <3>5, <3>6, <3>7, <3>8, <3>9 DEF QueueInv
  <2>3. CASE SubmitRefused(j)
    BY <2>3, QueueMoves DEF SubmitRefused, Goto, queueVars
  <2>4. CASE SubmitPanics(j)
    BY <2>4, <1>a DEF SubmitPanics, jobVars
  <2>5. CASE FinishRefused(j)
    BY <2>5, QueueMoves DEF FinishRefused, Return, Goto
  <2> QED
    BY <1>3, <2>1, <2>2, <2>3, <2>4, <2>5 DEF Caller
<1>4. ASSUME NEW j \in Job, Sorting(j) PROVE QueueInv'
  <2>1. CASE SortOk(j) \/ SortErr(j) \/ LoadOld(j) \/ Store(j) \/ UpdatePool(j)
    BY <2>1, QueueMoves DEF SortOk, SortErr, LoadOld, Store, UpdatePool, Goto, queueVars
  <2>2. CASE Finish(j)
    <3>1. /\ pc' = [pc EXCEPT ![j] = "done"] /\ pc[j] \in {"finish", "fail"}
          /\ UNCHANGED <<taskQueue, exited>>
          /\ worker' = [w \in Worker |-> IF worker[w] = j THEN 0 ELSE worker[w]]
      BY <2>2 DEF Finish, Return, Goto, FreeWorker
    <3>2. \A n \in 1 .. Len(taskQueue) : taskQueue[n] # j
      BY <3>1 DEF QueueInv
    <3>3. \A n \in 1 .. Len(taskQueue') : pc'[taskQueue'[n]] = "queued"
      BY <1>c, <1>d, <3>1, <3>2 DEF QueueInv
    <3>4. \A i \in Job : pc'[i] = "queued" => InQueue(i)'
      BY <1>d, <3>1 DEF QueueInv, InQueue
    <3>5. \A w \in Worker : worker'[w] # 0 => w \notin exited' /\ pc'[worker'[w]] \in Processing
      BY <1>d, <3>1 DEF QueueInv
    <3>6. \A i \in Job : pc'[i] = "sorting" => AtWorker(i)'
      BY <1>d, <3>1 DEF QueueInv, AtWorker
    <3> QED
      BY <3>1, <3>3, <3>4, <3>5, <3>6 DEF QueueInv
  <2> QED
    BY <1>4, <2>1, <2>2 DEF Sorting
<1>h. ASSUME taskQueue # <<>>
      PROVE  /\ Head(taskQueue) = taskQueue[1] /\ Head(taskQueue) \in Job
             /\ 1 \in 1 .. Len(taskQueue)
             /\ Len(Tail(taskQueue)) = Len(taskQueue) - 1
             /\ \A n \in 1 .. Len(Tail(taskQueue)) :
                   n + 1 \in 1 .. Len(taskQueue) /\ Tail(taskQueue)[n] = taskQueue[n + 1]
             /\ \A n \in 1 .. Len(taskQueue) : n # 1 => n - 1 \in 1 .. Len(Tail(taskQueue))
  BY <1>d, <1>h
<1>i. ASSUME NEW h \in Job, h = Head(taskQueue), taskQueue # <<>>,
             NEW label \in PC, label # "queued",
             pc' = [pc EXCEPT ![h] = label], taskQueue' = Tail(taskQueue)
      PROVE  /\ \A n \in 1 .. Len(taskQueue') : pc'[taskQueue'[n]] = "queued"
             /\ \A m, n \in 1 .. Len(taskQueue') : taskQueue'[m] = taskQueue'[n] => m = n
             /\ \A i \in Job : pc'[i] = "queued" => InQueue(i)'
  <2>1. \A n \in 1 .. Len(taskQueue) : n # 1 => taskQueue[n] # h
    BY <1>h, <1>i DEF QueueInv
  <2>2. \A n \in 1 .. Len(taskQueue') :
           taskQueue'[n] # h /\ taskQueue'[n] \in Job /\ pc[taskQueue'[n]] = "queued"
    BY <1>c, <1>h, <1>i, <2>1 DEF QueueInv
  <2>3. \A n \in 1 .. Len(taskQueue') : pc'[taskQueue'[n]] = "queued"
    BY <1>d, <1>i, <2>2
  <2>4. \A m, n \in 1 .. Len(taskQueue') : taskQueue'[m] = taskQueue'[n] => m = n
    BY <1>h, <1>i DEF QueueInv
  <2>5. ASSUME NEW i \in Job, pc'[i] = "queued" PROVE InQueue(i)'
    <3>1. i # h /\ pc[i] = "queued"
      BY <1>d, <1>i, <2>5
    <3>2. PICK n \in 1 .. Len(taskQueue) : taskQueue[n] = i
      BY <3>1 DEF QueueInv, InQueue
    <3>3. n # 1
      BY <1>h, <1>i, <3>1, <3>2
    <3>4. n - 1 \in 1 .. Len(taskQueue') /\ taskQueue'[n - 1] = i
      BY <1>h, <1>i, <3>2, <3>3
    <3> QED
      BY <3>4 DEF InQueue
  <2> QED
    BY <2>3, <2>4, <2>5
<1>5. ASSUME NEW w \in Worker, Take(w) PROVE QueueInv'
  <2> DEFINE h == Head(taskQueue)
  <2>1. /\ taskQueue # <<>> /\ w \notin exited /\ worker[w] = 0
        /\ worker' = [worker EXCEPT ![w] = h] /\ UNCHANGED exited
        /\ taskQueue' = Tail(taskQueue) /\ pc' = [pc EXCEPT ![h] = "sorting"]
    BY <1>5 DEF Take, Goto
  <2>2. h \in Job /\ pc[h] = "queued"
    BY <1>h, <2>1 DEF QueueInv
  <2>3. \A v \in Worker : worker'[v] # 0 => v \notin exited' /\ pc'[worker'[v]] \in Processing
    BY <1>d, <2>1, <2>2 DEF QueueInv
  <2>4. \A i \in Job : pc'[i] = "sorting" => AtWorker(i)'
    BY <1>d, <2>1, <2>2 DEF QueueInv, AtWorker
  <2>5. /\ \A n \in 1 .. Len(taskQueue') : pc'[taskQueue'[n]] = "queued"
        /\ \A m, n \in 1 .. Len(taskQueue') : taskQueue'[m] = taskQueue'[n] => m = n
        /\ \A i \in Job : pc'[i] = "queued" => InQueue(i)'
    BY <1>i, <2>1, <2>2
  <2> QED
    BY <2>3, <2>4, <2>5 DEF QueueInv
<1>6. ASSUME NEW w \in Worker, WorkerExit(w) PROVE QueueInv'
  BY <1>6 DEF WorkerExit, jobVars, QueueInv, InQueue, AtWorker
<1>7. CASE Stopper
  <2>1. CASE DrainOne
    <3> DEFINE h == Head(taskQueue)
    <3>1. /\ taskQueue # <<>> /\ UNCHANGED <<worker, exited>>
          /\ taskQueue' = Tail(taskQueue) /\ pc' = [pc EXCEPT ![h] = "done"]
      BY <2>1 DEF DrainOne, Return, Goto
    <3>2. h \in Job /\ pc[h] = "queued"
      BY <1>h, <3>1 DEF QueueInv
    <3>3. \A v \in Worker : worker'[v] # 0 => v \notin exited' /\ pc'[worker'[v]] \in Processing
      BY <1>d, <3>1, <3>2 DEF QueueInv
    <3>4. \A i \in Job : pc'[i] = "sorting" => AtWorker(i)'
      BY <1>d, <3>1, <3>2 DEF QueueInv, AtWorker
    <3>5. /\ \A n \in 1 .. Len(taskQueue') : pc'[taskQueue'[n]] = "queued"
          /\ \A m, n \in 1 .. Len(taskQueue') : taskQueue'[m] = taskQueue'[n] => m = n
          /\ \A i \in Job : pc'[i] = "queued" => InQueue(i)'
      BY <1>i, <3>1, <3>2
    <3> QED
      BY <3>3, <3>4, <3>5 DEF QueueInv
  <2> QED
    BY <1>7, <2>1, <1>a DEF Stopper, StopBegin, StopWait, DrainDone, CloseQueue, jobVars
<1>8. CASE Maintenance
  BY <1>8, <1>a DEF Maintenance, EvictRaw, EvictSorted, CleanExpired, Clear, jobVars, queueVars
<1>9. CASE UNCHANGED vars
  BY <1>9, <1>a DEF vars, jobVars, queueVars
<1> QED
  BY <1>1, <1>2, <1>3, <1>4, <1>5, <1>6, <1>7, <1>8, <1>9 DEF Next, Step

-----------------------------------------------------------------------------
(* The sorting states.                                                     *)

\* Moving one job between places where it owns its state changes nothing, as
\* long as every job keeps its key.
LEMMA StateMoves ==
    ASSUME TypeOK, StateInv, NEW j \in Job, NEW label \in Owning, pc[j] \in Owning,
           pc' = [pc EXCEPT ![j] = label],
           \A i \in Job : arg'[i].key = arg[i].key,
           UNCHANGED <<sortingState, inProgress, doneCloses>>
    PROVE  StateInv'
<1>1. \A i \in Job : (pc'[i] \in Owning <=> pc[i] \in Owning)
                       /\ (pc'[i] \in {"idle", "start"} => pc[i] \in {"idle", "start"})
  BY DEF TypeOK, Owning
<1>2. \A k \in Key : sortingState[k] \in Job \cup {0}
  BY DEF TypeOK
<1>3. \A i \in Job : JobState(i)'
  BY <1>1 DEF StateInv, JobState, Live
<1>4. \A k \in Key : MapState(k)'
  BY <1>1, <1>2 DEF StateInv, MapState, Live
<1> QED
  BY <1>3, <1>4 DEF StateInv

\* FinishSort of a job that owns its state, which then returns.
LEMMA StateFinishes ==
    ASSUME TypeOK, StateInv, NEW j \in Job, pc[j] \in Owning,
           FinishSort(j), Return(j, "done")
    PROVE  StateInv'
<1>1. /\ pc' = [pc EXCEPT ![j] = "done"] /\ arg' = [arg EXCEPT ![j] = NoArg]
      /\ inProgress' = [inProgress EXCEPT ![j] = FALSE]
      /\ doneCloses' = [doneCloses EXCEPT ![j] = IF doneCloses[j] = 0 THEN 1 ELSE doneCloses[j]]
      /\ UNCHANGED sortingState
  BY DEF FinishSort, SafeClose, Return, Goto
<1>2. /\ pc \in [Job -> PC] /\ arg \in [Job -> [key : Key, ips : SUBSET IP, ver : Nat]]
      /\ inProgress \in [Job -> BOOLEAN] /\ doneCloses \in [Job -> Nat]
      /\ sortingState \in [Key -> Job \cup {0}]
  BY DEF TypeOK
<1>3. ASSUME NEW i \in Job PROVE JobState(i)'
  <2>1. CASE i = j
    BY <1>1, <1>2, <2>1 DEF StateInv, JobState, Live, Owning
  <2>2. CASE i # j
    BY <1>1, <1>2, <2>2 DEF StateInv, JobState, Live
  <2> QED
    BY <2>1, <2>2
<1>4. ASSUME NEW k \in Key PROVE MapState(k)'
  <2>1. CASE sortingState[k] = j
    BY <1>1, <1>2, <2>1 DEF MapState
  <2>2. CASE sortingState[k] # j
    BY <1>1, <1>2, <2>2 DEF StateInv, MapState, Live
  <2> QED
    BY <2>1, <2>2
<1> QED
  BY <1>3, <1>4 DEF StateInv

\* A job that does not own a state changes place outside the owning places.
LEMMA StateOutside ==
    ASSUME TypeOK, StateInv, NEW j \in Job, NEW label, label \notin Owning,
           pc[j] \notin Owning,
           label \in {"idle", "start"} => pc[j] \in {"idle", "start"},
           NEW a, pc' = [pc EXCEPT ![j] = label], arg' = [arg EXCEPT ![j] = a],
           UNCHANGED <<sortingState, inProgress, doneCloses>>
    PROVE  StateInv'
<1>1. /\ pc \in [Job -> PC] /\ arg \in [Job -> [key : Key, ips : SUBSET IP, ver : Nat]]
      /\ sortingState \in [Key -> Job \cup {0}]
  BY DEF TypeOK
<1>2. \A i \in Job : JobState(i)'
  BY <1>1 DEF StateInv, JobState, Live
<1>3. \A k \in Key : MapState(k)'
  BY <1>1 DEF StateInv, MapState, Live
<1> QED
  BY <1>2, <1>3 DEF StateInv

\* CancelSort takes a state out of the map and closes its Done.
LEMMA StateCancels ==
    ASSUME TypeOK, StateInv, NEW k \in Key, CancelSort(k), UNCHANGED <<pc, arg>>
    PROVE  StateInv'
<1> DEFINE j == sortingState[k]
<1>1. /\ pc \in [Job -> PC] /\ arg \in [Job -> [key : Key, ips : SUBSET IP, ver : Nat]]
      /\ inProgress \in [Job -> BOOLEAN] /\ doneCloses \in [Job -> Nat]
      /\ sortingState \in [Key -> Job \cup {0}] /\ 0 \notin Job
  BY JobAssumption DEF TypeOK
<1>2. sortingState' = [sortingState EXCEPT ![k] = 0]
  BY DEF CancelSort
<1>3. CASE j = 0
  <2>1. UNCHANGED <<inProgress, doneCloses>>
    BY <1>3 DEF CancelSort
  <2>2. sortingState' = sortingState
    BY <1>1, <1>2, <1>3
  <2> QED
    BY <2>1, <2>2 DEF StateInv, JobState, MapState, Live
<1>4. CASE j # 0
  <2>1. /\ j \in Job
        /\ inProgress' = [inProgress EXCEPT ![j] = FALSE]
        /\ doneCloses' = [doneCloses EXCEPT ![j] = IF doneCloses[j] = 0 THEN 1 ELSE doneCloses[j]]
    BY <1>1, <1>4 DEF CancelSort, SafeClose
  <2>2. doneCloses'[j] = 1
    <3>1. doneCloses[j] \in Nat /\ doneCloses[j] <= 1
      BY <1>1, <2>1 DEF StateInv, JobState
    <3>2. doneCloses[j] = 0 \/ doneCloses[j] = 1
      BY <3>1
    <3>3. doneCloses'[j] = IF doneCloses[j] = 0 THEN 1 ELSE doneCloses[j]
      BY <1>1, <2>1
    <3> QED
      BY <3>2, <3>3
  <2>3. ASSUME NEW i \in Job PROVE JobState(i)'
    <3>1. CASE i = j
      BY <1>1, <1>2, <2>1, <2>2, <3>1 DEF StateInv, JobState, Live
    <3>2. CASE i # j
      <4>1. arg[i].key \in Key
        BY <1>1
      <4> QED
        BY <1>1, <1>2, <2>1, <3>2, <4>1 DEF StateInv, JobState, Live
    <3> QED
      BY <3>1, <3>2
  <2>4. ASSUME NEW m \in Key PROVE MapState(m)'
    <3>1. CASE m = k \/ sortingState[m] = j
      BY <1>1, <1>2, <2>1, <3>1 DEF MapState
    <3>2. CASE m # k /\ sortingState[m] # j
      BY <1>1, <1>2, <2>1, <3>2 DEF StateInv, MapState, Live
    <3> QED
      BY <3>1, <3>2
  <2> QED
    BY <2>3, <2>4 DEF StateInv
<1> QED
  BY <1>3, <1>4

\* CleanExpired drops only states that are not in progress.
LEMMA StateCleans ==
    ASSUME TypeOK, StateInv, NEW r, NEW t, CleanExpired(r, t)
    PROVE  StateInv'
<1>1. /\ pc \in [Job -> PC] /\ arg \in [Job -> [key : Key, ips : SUBSET IP, ver : Nat]]
      /\ sortingState \in [Key -> Job \cup {0}] /\ 0 \notin Job
  BY JobAssumption DEF TypeOK
<1>2. UNCHANGED <<pc, arg, inProgress, doneCloses>>
  BY DEF CleanExpired, jobVars
<1>3. \A k \in Key :
         \/ sortingState'[k] = sortingState[k]
         \/ sortingState'[k] = 0 /\ ~inProgress[sortingState[k]]
  BY DEF CleanExpired
<1>4. \A i \in Job : JobState(i)'
  <2> SUFFICES ASSUME NEW i \in Job PROVE JobState(i)'
    OBVIOUS
  <2>1. arg[i].key \in Key
    BY <1>1
  <2>2. Live(i) => sortingState'[arg[i].key] = i
    BY <1>1, <1>3, <2>1 DEF StateInv, JobState
  <2> QED
    BY <1>1, <1>2, <1>3, <2>2 DEF StateInv, JobState, Live
<1>5. \A k \in Key : MapState(k)'
  BY <1>1, <1>2, <1>3 DEF StateInv, MapState, Live
<1> QED
  BY <1>4, <1>5 DEF StateInv

\* Clear closes the Done of states in progress, which are open.
LEMMA StateClears ==
    ASSUME TypeOK, StateInv, Clear
    PROVE  StateInv'
<1>1. /\ arg \in [Job -> [key : Key, ips : SUBSET IP, ver : Nat]]
      /\ doneCloses \in [Job -> Nat] /\ 0 \notin Job
  BY JobAssumption DEF TypeOK
<1>2. /\ UNCHANGED <<pc, arg, inProgress>>
      /\ \A k \in Key : sortingState'[k] = 0
      /\ \A j \in Job : doneCloses'[j] =
            IF inProgress[j] /\ \E k \in Key : sortingState[k] = j
            THEN doneCloses[j] + 1 ELSE doneCloses[j]
  BY DEF Clear, jobVars
<1>3. ASSUME NEW j \in Job PROVE JobState(j)'
  <2>1. CASE inProgress[j] /\ \E k \in Key : sortingState[k] = j
    <3>1. Live(j)
      BY <1>1, <2>1 DEF StateInv, MapState
    <3> QED
      BY <1>1, <1>2, <2>1, <3>1 DEF Live, JobState, Owning
  <2>2. CASE ~(inProgress[j] /\ \E k \in Key : sortingState[k] = j)
    <3>1. arg[j].key \in Key
      BY <1>1
    <3>2. ~Live(j)
      BY <2>2, <3>1 DEF StateInv, JobState
    <3> QED
      BY <1>1, <1>2, <2>2, <3>2 DEF StateInv, JobState, Live
  <2> QED
    BY <2>1, <2>2
<1>4. \A k \in Key : MapState(k)'
  BY <1>2 DEF MapState
<1> QED
  BY <1>3, <1>4 DEF StateInv

\* GetOrStartSort creates a state for a key that has none.
LEMMA StateStarts ==
    ASSUME TypeOK, StateInv, NEW j \in Job, StartSort(j)
    PROVE  StateInv'
<1>1. /\ pc \in [Job -> PC] /\ arg \in [Job -> [key : Key, ips : SUBSET IP, ver : Nat]]
      /\ inProgress \in [Job -> BOOLEAN]
      /\ sortingState \in [Key -> Job \cup {0}] /\ 0 \notin Job
  BY JobAssumption DEF TypeOK
<1>2. /\ pc[j] = "start" /\ arg[j].key \in Key /\ sortingState[arg[j].key] = 0
      /\ pc' = [pc EXCEPT ![j] = "begin"] /\ UNCHANGED <<arg, doneCloses>>
      /\ inProgress' = [inProgress EXCEPT ![j] = TRUE]
      /\ sortingState' = [sortingState EXCEPT ![arg[j].key] = j]
  BY <1>1 DEF StartSort, Goto
<1>3. ASSUME NEW i \in Job PROVE JobState(i)'
  <2>1. CASE i = j
    BY <1>1, <1>2, <2>1 DEF StateInv, JobState, Live
  <2>2. CASE i # j
    <3>1. arg[i].key \in Key
      BY <1>1
    <3> QED
      BY <1>1, <1>2, <2>2, <3>1 DEF StateInv, JobState, Live
  <2> QED
    BY <2>1, <2>2
<1>4. ASSUME NEW k \in Key PROVE MapState(k)'
  <2>1. CASE k = arg[j].key
    BY <1>1, <1>2, <2>1 DEF StateInv, JobState, MapState, Live, Owning
  <2>2. CASE k # arg[j].key
    BY <1>1, <1>2, <2>2 DEF StateInv, JobState, MapState, Live
  <2> QED
    BY <2>1, <2>2
<1> QED
  BY <1>3, <1>4 DEF StateInv

\* Every step keeps the invariant of the sorting states.
LEMMA NextState == TypeOK /\ StateInv /\ QueueInv /\ [Next]_vars => StateInv'
<1> SUFFICES ASSUME TypeOK, StateInv, QueueInv, [Next]_vars PROVE StateInv'
  OBVIOUS
<1> USE DEF Owning
<1>a. ASSUME UNCHANGED <<pc, arg, sortingState, inProgress, doneCloses>> PROVE StateInv'
  BY <1>a DEF StateInv, JobState, MapState, Live
<1>b. ASSUME NEW j \in Job, NEW k \in Key, NEW ips, NEW v, Spawn(j, k, ips, v),
             UNCHANGED stateVars
      PROVE  StateInv'
  BY <1>b, StateOutside DEF Spawn, stateVars
<1>c. ASSUME taskQueue # <<>>
      PROVE  Head(taskQueue) \in Job /\ pc[Head(taskQueue)] = "queued"
  BY <1>c DEF QueueInv, TypeOK
<1>1. CASE Writers
  BY <1>1, <1>a, <1>b DEF Writers, Resolve, CacheHit, BgStart, jobVars, stateVars
<1>2. ASSUME NEW b \in Bg, BgStep(b) PROVE StateInv'
  <2>1. CASE BgCheck(b) \/ BgSetRaw(b) \/ BgNoEntry(b)
    BY <2>1, <1>a DEF BgCheck, BgSetRaw, BgNoEntry, stateVars, jobVars
  <2>2. CASE BgCancel(b)
    BY <2>2, StateCancels DEF BgCancel, jobVars, TypeOK
  <2>3. ASSUME NEW j \in Job, BgSpawn(b, j) PROVE StateInv'
    BY <2>3, <1>b DEF BgSpawn, TypeOK
  <2> QED
    BY <1>2, <2>1, <2>2, <2>3 DEF BgStep
<1>3. ASSUME NEW j \in Job, Caller(j) PROVE StateInv'
  <2>1. CASE StartSort(j)
    BY <2>1, StateStarts
  <2>2. CASE SkipSort(j)
    BY <2>2, StateOutside DEF SkipSort, Return, Goto, stateVars
  <2>3. CASE SingleIP(j) \/ Acquire(j) \/ SemFull(j) \/ Submit(j) \/ SubmitRefused(j)
    BY <2>3, StateMoves
    DEF SingleIP, Acquire, SemFull, Submit, SubmitRefused, Goto, stateVars
  <2>4. CASE SubmitPanics(j)
    BY <2>4, <1>a DEF SubmitPanics, stateVars, jobVars
  <2>5. CASE FinishRefused(j)
    BY <2>5, StateFinishes DEF FinishRefused
  <2> QED
    BY <1>3, <2>1, <2>2, <2>3, <2>4, <2>5 DEF Caller
<1>4. ASSUME NEW j \in Job, Sorting(j) PROVE StateInv'
  <2>1. CASE SortErr(j) \/ LoadOld(j) \/ Store(j) \/ UpdatePool(j)
    BY <2>1, StateMoves DEF SortErr, LoadOld, Store, UpdatePool, Goto, stateVars
  <2>2. CASE Finish(j)
    BY <2>2, StateFinishes DEF Finish
  <2>3. CASE SortOk(j)
    <3>1. \A i \in Job : arg'[i].key = arg[i].key
      BY <2>3 DEF SortOk, TypeOK
    <3> QED
      BY <2>3, <3>1, StateMoves DEF SortOk, Goto, stateVars
  <2> QED
    BY <1>4, <2>1, <2>2, <2>3 DEF Sorting
<1>5. ASSUME NEW w \in Worker, Take(w) PROVE StateInv'
  BY <1>5, <1>c, StateMoves DEF Take, Goto, stateVars
<1>6. ASSUME NEW w \in Worker, WorkerExit(w) PROVE StateInv'
  BY <1>6, <1>a DEF WorkerExit, stateVars, jobVars
<1>7. CASE Stopper
  <2>1. CASE DrainOne
    BY <2>1, <1>c, StateFinishes DEF DrainOne
  <2> QED
    BY <1>7, <2>1, <1>a
    DEF Stopper, StopBegin, StopWait, DrainDone, CloseQueue, stateVars, jobVars
<1>8. CASE Maintenance
  BY <1>8, <1>a, StateCleans, StateClears
  DEF Maintenance, EvictRaw, EvictSorted, stateVars, jobVars
<1>9. CASE UNCHANGED vars
  BY <1>9, <1>a DEF vars, jobVars, stateVars
<1> QED
  BY <1>1, <1>2, <1>3, <1>4, <1>5, <1>6, <1>7, <1>8, <1>9 DEF Next, Step

-----------------------------------------------------------------------------
(* The theorems.                                                           *)

\* The inductive invariant holds in every reachable state.
THEOREM InductiveInvariant == Spec => []IInv
<1>1. Init => IInv
  <2> SUFFICES ASSUME Init PROVE IInv
    OBVIOUS
  <2>1. TypeOK
    BY InitType
  <2>2. StateInv
    BY JobAssumption DEF Init, StateInv, JobState, MapState, Live, Owning
  <2>3. QueueInv
    BY DEF Init, QueueInv, InQueue, AtWorker
  <2>4. SlotHolders = {}
    BY DEF Init, SlotHolders
  <2>5. SlotInv
    BY <2>4, FS_EmptySet DEF Init, SlotInv
  <2> QED
    BY <2>1, <2>2, <2>3, <2>5 DEF IInv
<1>2. IInv /\ [Next]_vars => IInv'
  BY NextType, NextSlot, NextQueue, NextState DEF IInv
<1> QED
  BY <1>1, <1>2, PTL DEF Spec

\* Every reachable state of the sorting pipeline is type correct.
THEOREM TypeCorrect == Spec => []TypeOK
<1>1. IInv => TypeOK
  BY DEF IInv
<1> QED
  BY <1>1, InductiveInvariant, PTL

\* No SortingState's Done channel is closed twice, whatever the interleaving of
\* FinishSort, CancelSort and the unguarded close of Clear.
THEOREM DoneIsClosedOnce == Spec => []ClosedOnce
<1>1. IInv => ClosedOnce
  BY DEF IInv, StateInv, JobState, ClosedOnce
<1> QED
  BY <1>1, InductiveInvariant, PTL

\* At most one live sort per key, for any number of goroutines.
THEOREM OneLiveSort == Spec => []SingleFlight
<1>1. IInv => SingleFlight
  <2> SUFFICES ASSUME IInv, NEW i \in Job, NEW j \in Job,
                      Live(i), Live(j), arg[i].key = arg[j].key
               PROVE  i = j
    BY DEF SingleFlight
  <2> QED
    BY DEF IInv, StateInv, JobState
<1> QED
  BY <1>1, InductiveInvariant, PTL

\* A state that blocks its key has a job that can still finish it.
THEOREM BlockingStateHasExecutor == Spec => []HasExecutor
<1>1. IInv => HasExecutor
  <2> SUFFICES ASSUME IInv, NEW k \in Key, sortingState[k] # 0, inProgress[sortingState[k]]
               PROVE  LET j == sortingState[k]
                      IN  /\ Live(j) /\ arg[j].key = k
                          /\ pc[j] = "queued" => InQueue(j)
                          /\ pc[j] = "sorting" => \E w \in Worker \ exited : worker[w] = j
    BY DEF HasExecutor
  <2>1. sortingState[k] \in Job
    BY DEF IInv, TypeOK
  <2>2. Live(sortingState[k]) /\ arg[sortingState[k]].key = k
    BY DEF IInv, StateInv, MapState
  <2> QED
    BY <2>1, <2>2 DEF IInv, QueueInv, AtWorker
<1> QED
  BY <1>1, InductiveInvariant, PTL

\* The semaphore counts exactly the jobs that hold a slot, and never more than
\* its capacity.
THEOREM SemaphoreCounts == Spec => []SemaphoreExact
<1>1. IInv => SemaphoreExact
  BY CapAssumption DEF IInv, SlotInv, TypeOK, SemaphoreExact
<1> QED
  BY <1>1, InductiveInvariant, PTL

=============================================================================
