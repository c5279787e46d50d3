----------------------------- MODULE RefreshQueue ----------------------------
(***************************************************************************)
(* The queue of background cache refreshes: Submit under singleflight, the *)
(* workers, and Stop (dnsserver/refresh_queue.go; callers in               *)
(* handler_cache.go and refresh.go).  A refresh itself is one step of work *)
(* here; SortPipeline has what it does to the caches.                      *)
(***************************************************************************)
EXTENDS Integers, Sequences, FiniteSets

CONSTANTS
    Key,         \* domain and type: RefreshTask.key()
    Caller,      \* goroutines that call Submit
    Worker,      \* worker goroutines
    QueueCap,    \* capacity of taskQueue
    MayStop,     \* whether Stop may be called
    MaxAccept,   \* bound on the tasks accepted for one key
    NoKey        \* a goroutine without a task

CapAssumption == QueueCap \in Nat \ {0} /\ MaxAccept \in Nat /\ MayStop \in BOOLEAN
KeyAssumption == NoKey \notin Key
WorkerAssumption == IsFiniteSet(Worker)

VARIABLES
    queue,       \* taskQueue
    call,        \* Submit calls: step, key, result
    flight,      \* sfGroup: per key, the callers in its flight
    work,        \* what each worker runs
    quit,        \* quit is closed
    gone,        \* workers that have returned
    accepted,    \* history: tasks sent to the queue, per key
    done         \* history: tasks a worker finished, per key

vars == <<queue, call, flight, work, quit, gone, accepted, done>>

NoCall == [step |-> "idle", key |-> NoKey, res |-> "none"]

Init ==
    /\ queue = <<>>
    /\ call = [c \in Caller |-> NoCall]
    /\ flight = [k \in Key |-> {}]
    /\ work = [w \in Worker |-> NoKey]
    /\ quit = FALSE
    /\ gone = {}
    /\ accepted = [k \in Key |-> 0]
    /\ done = [k \in Key |-> 0]

-----------------------------------------------------------------------------
(* Submit.                                                                 *)

\* sfGroup.Do: the first caller for the key runs the function, later ones wait
\* for its result.
Do(c, k) ==
    /\ call[c] = NoCall
    /\ call' = [call EXCEPT ![c] = [NoCall EXCEPT !.key = k,
                    !.step = IF flight[k] = {} THEN "send" ELSE "join"]]
    /\ flight' = [flight EXCEPT ![k] = @ \cup {c}]
    /\ UNCHANGED <<queue, work, quit, gone, accepted, done>>

\* The function: a non-blocking send; a full queue drops the task.
Send(c) ==
    LET k == call[c].key
    IN  /\ call[c].step = "send"
        /\ IF Len(queue) < QueueCap
           THEN /\ accepted[k] < MaxAccept
                /\ queue' = Append(queue, k)
                /\ accepted' = [accepted EXCEPT ![k] = @ + 1]
                /\ call' = [call EXCEPT ![c].step = "sent", ![c].res = "ok"]
           ELSE /\ call' = [call EXCEPT ![c].step = "sent", ![c].res = "full"]
                /\ UNCHANGED <<queue, accepted>>
        /\ UNCHANGED <<flight, work, quit, gone, done>>

\* Mutated form of DoReturns: those who joined are not told.
DoReturns_LeaderOnly(c) ==
    LET k == call[c].key
    IN  /\ call[c].step = "sent"
        /\ call' = [call EXCEPT ![c] = NoCall]
        /\ flight' = [flight EXCEPT ![k] = {}]
        /\ UNCHANGED <<queue, work, quit, gone, accepted, done>>

\* Do returns: the flight is over, and everyone who joined gets the result.
DoReturns(c) ==
    LET k == call[c].key
    IN  /\ call[c].step = "sent"
        /\ call' = [d \in Caller |-> IF d \in flight[k] THEN NoCall ELSE call[d]]
        /\ flight' = [flight EXCEPT ![k] = {}]
        /\ UNCHANGED <<queue, work, quit, gone, accepted, done>>

-----------------------------------------------------------------------------
(* Workers.                                                                *)

Free(w) == work[w] = NoKey /\ w \notin gone

\* One case of the select: a task is received and refreshCacheAsync runs.
Take(w) ==
    /\ Free(w)
    /\ queue # <<>>
    /\ work' = [work EXCEPT ![w] = Head(queue)]
    /\ queue' = Tail(queue)
    /\ UNCHANGED <<call, flight, quit, gone, accepted, done>>

\* Mutated form of Complete: the worker returns after its task.
Complete_WorkerReturns(w) ==
    /\ work[w] # NoKey
    /\ done' = [done EXCEPT ![work[w]] = @ + 1]
    /\ work' = [work EXCEPT ![w] = NoKey]
    /\ gone' = gone \cup {w}
    /\ UNCHANGED <<queue, call, flight, quit, accepted>>

\* Mutated form of Complete: completion is reported to someone who quits as well.
Complete_Blocked(w) ==
    /\ work[w] # NoKey
    /\ ~quit
    /\ done' = [done EXCEPT ![work[w]] = @ + 1]
    /\ work' = [work EXCEPT ![w] = NoKey]
    /\ UNCHANGED <<queue, call, flight, quit, gone, accepted>>

\* The work function returns; markComplete only logs.
Complete(w) ==
    /\ work[w] # NoKey
    /\ done' = [done EXCEPT ![work[w]] = @ + 1]
    /\ work' = [work EXCEPT ![w] = NoKey]
    /\ UNCHANGED <<queue, call, flight, quit, gone, accepted>>

\* Mutated form of WorkerExit: a task already received is dropped.
WorkerExit_DropsTask(w) ==
    /\ w \notin gone
    /\ quit
    /\ gone' = gone \cup {w}
    /\ work' = [work EXCEPT ![w] = NoKey]
    /\ UNCHANGED <<queue, call, flight, quit, accepted, done>>

\* The other case: quit is closed.
WorkerExit(w) ==
    /\ Free(w)
    /\ quit
    /\ gone' = gone \cup {w}
    /\ UNCHANGED <<queue, call, flight, work, quit, accepted, done>>

\* Stop closes quit and waits for the workers.
Stop ==
    /\ MayStop
    /\ ~quit
    /\ quit' = TRUE
    /\ UNCHANGED <<queue, call, flight, work, gone, accepted, done>>

\* Stop returns when every worker has.
Stopped == quit /\ gone = Worker

-----------------------------------------------------------------------------
Submit(c) == (\E k \in Key : Do(c, k)) \/ Send(c) \/ DoReturns(c)

Run(w) == Take(w) \/ Complete(w) \/ WorkerExit(w)

Next == (\E c \in Caller : Submit(c)) \/ (\E w \in Worker : Run(w)) \/ Stop

Spec == Init /\ [][Next]_vars

\* Workers keep running; a select that finds both cases ready picks either, so
\* quit is not passed over for ever.
Fairness == \A w \in Worker : WF_vars(Take(w) \/ Complete(w)) /\ SF_vars(WorkerExit(w))

FairSpec == Spec /\ Fairness

-----------------------------------------------------------------------------
(* Properties.                                                             *)

Count(k) == Cardinality({i \in 1 .. Len(queue) : queue[i] = k})
Running(k) == Cardinality({w \in Worker : work[w] = k})

\* Every variable keeps the shape its Go declaration gives it.
TypeOK ==
    /\ queue \in Seq(Key) /\ Len(queue) <= QueueCap
    /\ call \in [Caller -> [step : {"idle", "send", "join", "sent"}, key : Key \cup {NoKey},
                            res : {"none", "ok", "full"}]]
    /\ flight \in [Key -> SUBSET Caller]
    /\ work \in [Worker -> Key \cup {NoKey}]
    /\ quit \in BOOLEAN /\ gone \subseteq Worker
    /\ accepted \in [Key -> Nat] /\ done \in [Key -> Nat]

\* An accepted refresh is waiting, running or done, once: no worker drops one
\* and none runs twice, whatever the callers and Stop do.
Conserved == \A k \in Key : accepted[k] = Count(k) + Running(k) + done[k]

\* Callers that share a flight share one that is under way: exactly one of them
\* runs the function, so nobody waits for a result that does not come.
FlightHasLeader ==
    \A k \in Key :
        /\ flight[k] = {c \in Caller : call[c].key = k}
        /\ flight[k] # {} =>
              Cardinality({c \in flight[k] : call[c].step \in {"send", "sent"}}) = 1

\* What holds of the queue at any time.
QueueConsistent == TypeOK /\ Conserved /\ FlightHasLeader

\* As long as the queue is not stopped, every accepted refresh is carried out
\* (MaxAccept bounds how many come, so in the end none is outstanding).
EveryTaskRuns == \A k \in Key : accepted[k] > done[k] ~> (accepted[k] = done[k] \/ quit)

\* Stop returns: no worker waits for a task for ever.
StopReturns == quit ~> Stopped

-----------------------------------------------------------------------------
(* What comments of the code say of it, and TLC refutes.                   *)

\* "singleflight ensures that only one background goroutine refreshes a domain."
OneRefreshPerKey == \A k \in Key : Running(k) <= 1

\* "Stop stops the queue and waits for all tasks to complete."
StopCompletesTasks == Stopped => queue = <<>>
=============================================================================
