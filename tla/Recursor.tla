------------------------------- MODULE Recursor -------------------------------
(***************************************************************************)
(* The manager of the embedded unbound process (recursor/manager.go,       *)
(* manager_init.go, manager_lifecycle.go, manager_linux.go).  Start and    *)
(* Stop are called by the server, by a change of its configuration and by  *)
(* the web interface; a health loop that each successful Start leaves      *)
(* behind is meant to restart a process that exits.  The n-th Start that   *)
(* gets so far makes the contexts, the stop channel and the process that   *)
(* are called n here.                                                      *)
(***************************************************************************)
EXTENDS Integers, FiniteSets

CONSTANTS
    Caller,         \* goroutines that call Start and Stop
    MaxRestarts,    \* MaxRestartAttempts
    Epochs,         \* bound: how many times Start gets to make its contexts
    None

Epoch == 1 .. Epochs
Thread == Caller \cup Epoch         \* loop e is the one that Start e spawned

RecursorAssumption == Epochs \in Nat /\ Caller \cap Epoch = {} /\ None \notin Thread

VARIABLES
    enabled, install,   \* m.enabled, m.installState
    mu,                 \* who holds m.mu across a step, or None
    epoch,              \* number of the current contexts and stopCh
    cancelled,          \* contexts that are done
    closes,             \* how often a stopCh was closed
    proc, cmd,          \* state of each process; m.cmd
    exitCh, exits,      \* number of m.exitCh; exit channels that hold an error
    waiting,            \* the goroutines in cmd.Wait
    attempts,           \* m.restartAttempts
    pos,                \* position of each thread
    seen,               \* what its select waits for: [ctx, exit]
    retry               \* the health loops whose retryTimer runs

recVars == <<enabled, install, mu, epoch, cancelled, closes, proc, cmd, exitCh, exits,
             waiting, attempts, pos, seen, retry>>
procVars == <<closes, proc, cmd, exitCh, exits, waiting>>

Init ==
    /\ enabled = FALSE /\ install = "no" /\ mu = None
    /\ epoch = 0 /\ cancelled = {} /\ closes = [e \in Epoch |-> 0]
    /\ proc = [e \in Epoch |-> "none"] /\ cmd = 0
    /\ exitCh = 0 /\ exits = {} /\ waiting = {} /\ attempts = 0
    /\ pos = [t \in Thread |-> IF t \in Caller THEN "idle" ELSE "none"]
    /\ seen = [t \in Thread |-> [ctx |-> 0, exit |-> 0]] /\ retry = {}

Goto(t, p) == pos' = [pos EXCEPT ![t] = p]
Current == [ctx |-> epoch, exit |-> exitCh]
Listening == {e \in Epoch : proc[e] \in {"up", "signalled"}}

\* Start returns to a caller or to the health loop, which then sets a timer
\* and waits for whatever the manager's fields hold now.
Failed(t) ==
    IF t \in Caller THEN Goto(t, "idle") /\ UNCHANGED <<seen, retry>>
    ELSE /\ Goto(t, "select")
         /\ seen' = [seen EXCEPT ![t] = [ctx |-> epoch', exit |-> exitCh']]
         /\ retry' = retry \cup {t}

(***************************************************************************)
(* Start.                                                                  *)
(***************************************************************************)
CallStart(c) ==
    /\ pos[c] = "idle"
    /\ Goto(c, "check")
    /\ UNCHANGED <<enabled, install, mu, epoch, cancelled, procVars, attempts, seen, retry>>

\* The first section under m.mu.
StartCheck(t) ==
    /\ pos[t] = "check" /\ mu = None
    /\ UNCHANGED <<enabled, mu, epoch, cancelled, procVars, attempts>>
    /\ IF enabled \/ install = "initializing"
       THEN Failed(t) /\ UNCHANGED install
       ELSE /\ install' = IF install \in {"no", "retryable"} THEN "initializing" ELSE install
            /\ Goto(t, IF install \in {"no", "retryable"} THEN "init" ELSE "begin")
            /\ UNCHANGED <<seen, retry>>

\* Detects the system, installs unbound if it has to; classifyError.
Initialize(t) ==
    /\ pos[t] = "init" /\ mu = None
    /\ UNCHANGED <<enabled, mu, epoch, cancelled, procVars, attempts>>
    /\ \/ install' = "installed" /\ Goto(t, "begin") /\ UNCHANGED <<seen, retry>>
       \/ install' \in {"error", "retryable"} /\ Failed(t)

\* The second section does not look at enabled again.  It lasts until
\* unbound answers.
Begin(t) ==
    /\ pos[t] = "begin" /\ mu = None
    /\ UNCHANGED <<enabled, install, procVars, attempts>>
    /\ IF epoch = Epochs THEN UNCHANGED <<mu, epoch, cancelled>> /\ Failed(t)
       ELSE /\ mu' = t
            /\ cancelled' = cancelled \cup {epoch}
            /\ epoch' = epoch + 1
            /\ Goto(t, "port") /\ UNCHANGED <<seen, retry>>

PortTaken_Ignored == FALSE

PortTaken == Listening # {}

\* No configuration, a port in use, or a program that cannot be run.
StartFails(t) ==
    /\ pos[t] = "port"
    /\ mu' = None
    /\ cmd' \in IF PortTaken THEN {cmd} ELSE {cmd, epoch}
    /\ UNCHANGED <<enabled, install, epoch, cancelled, closes, proc, exitCh, exits,
                   waiting, attempts>>
    /\ Failed(t)

Exec(t) ==
    /\ pos[t] = "port" /\ ~PortTaken
    /\ cmd' = epoch
    /\ proc' = [proc EXCEPT ![epoch] = "starting"]
    /\ enabled' = TRUE
    /\ Goto(t, "ready")
    /\ UNCHANGED <<install, mu, epoch, cancelled, closes, exitCh, exits, waiting,
                   attempts, seen, retry>>

\* waitForReady reached the port.
Ready(t) ==
    /\ pos[t] = "ready" /\ Listening # {}
    /\ mu' = None
    /\ exitCh' = epoch /\ waiting' = waiting \cup {epoch}
    /\ pos' = [pos EXCEPT ![t] = IF t \in Caller THEN "idle" ELSE "ended",
                          ![epoch] = "select"]
    /\ seen' = [seen EXCEPT ![epoch] = [ctx |-> epoch, exit |-> epoch]]
    /\ UNCHANGED <<enabled, install, epoch, cancelled, closes, proc, cmd, exits,
                   attempts, retry>>

Kill(e) ==
    proc' = IF e \in Epoch /\ proc[e] \in {"starting", "up", "signalled"}
            THEN [proc EXCEPT ![e] = "killed"] ELSE proc

NotReady(t) ==
    /\ pos[t] = "ready"
    /\ mu' = None /\ enabled' = FALSE
    /\ Kill(cmd)
    /\ UNCHANGED <<install, epoch, cancelled, closes, cmd, exitCh, exits, waiting, attempts>>
    /\ Failed(t)

(***************************************************************************)
(* Stop: m.cmd and m.exitCh are read without the lock.                     *)
(***************************************************************************)
CallStop_AnyState(c) ==
    /\ pos[c] = "idle" /\ mu = None /\ epoch > 0
    /\ enabled' = FALSE
    /\ cancelled' = cancelled \cup {epoch}
    /\ seen' = [seen EXCEPT ![c].ctx = epoch]
    /\ Goto(c, "close")
    /\ UNCHANGED <<install, mu, epoch, procVars, attempts, retry>>

CallStop(c) ==
    /\ pos[c] = "idle" /\ mu = None /\ enabled
    /\ enabled' = FALSE
    /\ cancelled' = cancelled \cup {epoch}
    /\ seen' = [seen EXCEPT ![c].ctx = epoch]
    /\ Goto(c, "close")
    /\ UNCHANGED <<install, mu, epoch, procVars, attempts, retry>>

StopClose(c) ==
    /\ pos[c] = "close"
    /\ closes' = [closes EXCEPT ![seen[c].ctx] = @ + 1]
    /\ Goto(c, "signal")
    /\ UNCHANGED <<enabled, install, mu, epoch, cancelled, proc, cmd, exitCh, exits,
                   waiting, attempts, seen, retry>>

StopSignal(c) ==
    /\ pos[c] = "signal"
    /\ IF cmd = 0 \/ proc[cmd] = "none" THEN Goto(c, "finish") /\ UNCHANGED proc
       ELSE /\ proc' = [proc EXCEPT ![cmd] = IF @ = "up" THEN "signalled" ELSE @]
            /\ Goto(c, "wait")
    /\ seen' = [seen EXCEPT ![c].exit = exitCh]
    /\ UNCHANGED <<enabled, install, mu, epoch, cancelled, closes, cmd, exitCh, exits,
                   waiting, attempts, retry>>

StopExited(c) ==
    /\ pos[c] = "wait" /\ seen[c].exit \in exits
    /\ exits' = exits \ {seen[c].exit}
    /\ Goto(c, "finish")
    /\ UNCHANGED <<enabled, install, mu, epoch, cancelled, closes, proc, cmd, exitCh,
                   waiting, attempts, seen, retry>>

StopTimeout_Never(c) ==
    /\ pos[c] = "wait" /\ seen[c].exit \in exits
    /\ Kill(cmd)
    /\ Goto(c, "finish")
    /\ UNCHANGED <<enabled, install, mu, epoch, cancelled, closes, cmd, exitCh, exits,
                   waiting, attempts, seen, retry>>

StopTimeout(c) ==
    /\ pos[c] = "wait"
    /\ Kill(cmd)
    /\ Goto(c, "finish")
    /\ UNCHANGED <<enabled, install, mu, epoch, cancelled, closes, cmd, exitCh, exits,
                   waiting, attempts, seen, retry>>

StopFinish(c) ==
    /\ pos[c] = "finish" /\ mu = None
    /\ attempts' = 0
    /\ Goto(c, "idle")
    /\ UNCHANGED <<enabled, install, mu, epoch, cancelled, procVars, seen, retry>>

(***************************************************************************)
(* healthCheckLoop.                                                        *)
(***************************************************************************)
LoopQuit(l) ==
    /\ pos[l] \in {"select", "backoff"}
    /\ seen[l].ctx \in cancelled \/ closes[seen[l].ctx] > 0
    /\ Goto(l, "ended") /\ retry' = retry \ {l}
    /\ UNCHANGED <<enabled, install, mu, epoch, cancelled, procVars, attempts, seen>>

LoopExit(l) ==
    /\ pos[l] = "select" /\ mu = None /\ seen[l].exit \in exits
    /\ exits' = exits \ {seen[l].exit}
    /\ attempts' = IF enabled THEN attempts + 1 ELSE attempts
    /\ enabled' = (enabled /\ attempts < MaxRestarts)
    /\ Goto(l, IF enabled' THEN "backoff" ELSE "ended")
    /\ seen' = [seen EXCEPT ![l] = Current]
    /\ UNCHANGED <<install, mu, epoch, cancelled, closes, proc, cmd, exitCh, waiting, retry>>

\* The backoff is over, or the retry timer fires: Start.
LoopStart(l) ==
    /\ pos[l] = "backoff" \/ (pos[l] = "select" /\ l \in retry)
    /\ retry' = IF pos[l] = "select" THEN retry \ {l} ELSE retry
    /\ Goto(l, "check")
    /\ UNCHANGED <<enabled, install, mu, epoch, cancelled, procVars, attempts, seen>>

\* performHealthCheck changes a time only, but the select begins anew.
LoopTick(l) ==
    /\ pos[l] = "select"
    /\ seen' = [seen EXCEPT ![l] = Current]
    /\ UNCHANGED <<enabled, install, mu, epoch, cancelled, procVars, attempts, pos, retry>>

(***************************************************************************)
(* The process and the goroutine that waits for it.                        *)
(***************************************************************************)
ProcessListens(e) ==
    /\ proc[e] = "starting"
    /\ proc' = [proc EXCEPT ![e] = "up"]
    /\ UNCHANGED <<enabled, install, mu, epoch, cancelled, closes, cmd, exitCh, exits,
                   waiting, attempts, pos, seen, retry>>

ProcessExits(e) ==
    /\ proc[e] \in {"starting", "up", "signalled", "killed"}
    /\ proc' = [proc EXCEPT ![e] = "dead"]
    /\ UNCHANGED <<enabled, install, mu, epoch, cancelled, closes, cmd, exitCh, exits,
                   waiting, attempts, pos, seen, retry>>

\* The channel and the context are those that the manager holds by then.
Waited(e) ==
    /\ e \in waiting /\ proc[e] = "dead"
    /\ waiting' = waiting \ {e}
    /\ \/ exitCh \notin exits /\ exits' = exits \cup {exitCh}
       \/ epoch \in cancelled /\ UNCHANGED exits
    /\ UNCHANGED <<enabled, install, mu, epoch, cancelled, closes, proc, cmd, exitCh,
                   attempts, pos, seen, retry>>

Start(t) ==
    \/ StartCheck(t) \/ Initialize(t) \/ Begin(t) \/ StartFails(t) \/ Exec(t)
    \/ Ready(t) \/ NotReady(t)

Stop(c) == StopClose(c) \/ StopSignal(c) \/ StopExited(c) \/ StopTimeout(c) \/ StopFinish(c)

Loop(l) == LoopQuit(l) \/ LoopExit(l) \/ LoopStart(l)

Next ==
    \/ \E c \in Caller : CallStart(c) \/ CallStop(c) \/ Stop(c)
    \/ \E t \in Thread : Start(t)
    \/ \E l \in Epoch : Loop(l) \/ LoopTick(l)
    \/ \E e \in Epoch : ProcessListens(e) \/ ProcessExits(e) \/ Waited(e)

Spec == Init /\ [][Next]_recVars

\* Goroutines are scheduled and timers fire; a killed process dies.
FairSpec ==
    /\ Spec
    /\ \A t \in Thread : WF_recVars(Start(t))
    /\ \A c \in Caller : WF_recVars(Stop(c))
    /\ \A l \in Epoch : WF_recVars(Loop(l))
    /\ \A e \in Epoch : WF_recVars(Waited(e))
                        /\ WF_recVars(proc[e] = "killed" /\ ProcessExits(e))

(***************************************************************************)
(* Properties.                                                             *)
(***************************************************************************)
\* Two calls of Start that both get past the initialization do not run two
\* processes, and no stop channel is closed twice, which would panic, though
\* neither Start nor Stop holds m.mu throughout.
OneProcess ==
    /\ Cardinality({e \in Epoch : proc[e] \in {"starting", "up", "signalled"}}) <= 1
    /\ \A e \in Epoch : closes[e] <= 1

\* Every call of Start and Stop returns, although Stop waits for an exit that
\* the health loop may have been told of instead.
CallsReturn == \A c \in Caller : pos[c] # "idle" ~> pos[c] = "idle"

(***************************************************************************)
(* What the code does not do (see the README).                             *)
(***************************************************************************)
Up == \E e \in Epoch : proc[e] \in {"starting", "up", "signalled"}

\* A process that exits while the recursor is enabled is started again, or
\* the manager gives up.
RestartsAfterExit == (enabled /\ ~Up) ~> (Up \/ ~enabled)

\* With nothing under way the recursor is enabled only if a loop watches it.
EnabledIsWatched ==
    enabled /\ (\A c \in Caller : pos[c] = "idle")
        => \E l \in Epoch : pos[l] \notin {"none", "ended"}

\* Only a caller's Start can enable what Stop disabled.
StaysStopped ==
    [][~enabled /\ enabled' => \E c \in Caller : pos[c] = "port" /\ pos'[c] = "ready"]_recVars

\* The loop learns of exits of the current process only.
ExitIsOwn ==
    [][\A e \in Epoch : e \in waiting /\ e \notin waiting' => exits' \ exits \subseteq {e}]_recVars
=============================================================================
