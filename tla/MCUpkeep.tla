------------------------------- MODULE MCUpkeep ------------------------------
(***************************************************************************)
(* The goroutines that contend for the cache's lock and those that refresh *)
(* its entries, each with its fairness, in one run: the first state        *)
(* chooses which of the two moves.                                         *)
(***************************************************************************)
EXTENDS Upkeep

VARIABLE subject

lockVars == <<writer, readers, pc, chan, msg, stop>>
allVars == <<subject, lockVars, vars>>

ASSUME InstanceAssumption ==
    /\ Lock!ConfigAssumption /\ Lock!ProcAssumption
    /\ CapAssumption /\ KeyAssumption /\ WorkerAssumption

MCInit == subject \in {"lock", "queue"} /\ Lock!Init /\ Init

InLock(A) == subject = "lock" /\ A /\ UNCHANGED <<subject, vars>>
InQueue(A) == subject = "queue" /\ A /\ UNCHANGED <<subject, lockVars>>

MCNext == InLock(Lock!Next) \/ InQueue(Next)

\* The fairness of both modules, for the one that moves.
MCFairness ==
    /\ \A p \in Lock!Proc : /\ SF_allVars(InLock(Lock!Announce(p)))
                            /\ WF_allVars(InLock(Lock!Acquire(p)))
                            /\ WF_allVars(InLock(Lock!RLock(p)))
    /\ \A q \in Query : /\ WF_allVars(InLock(Lock!LeaveLocked(q)))
                        /\ WF_allVars(InLock(Lock!LeaveRLocked(q)))
    /\ WF_allVars(InLock(Lock!CleanTick \/ Lock!CleanNothing \/ Lock!CleanMessages))
    /\ WF_allVars(InLock(Lock!Receive \/ Lock!Pushed \/ Lock!Drain))
    /\ SF_allVars(InLock(Lock!StopReceived))
    /\ WF_allVars(InLock(Lock!CloseStop \/ Lock!CloseWait))
    /\ \A w \in Worker : /\ WF_allVars(InQueue(Take(w) \/ Complete(w)))
                         /\ SF_allVars(InQueue(WorkerExit(w)))

MCSpec == MCInit /\ [][MCNext]_allVars /\ MCFairness

(***************************************************************************)
(* What must come about, or not.                                           *)
(***************************************************************************)
\* Nobody hangs at the cache lock but for the two known reasons.
OnlyTwoWaysToHang == subject = "lock" => Lock!OnlyTwoWaysToHang

\* An accepted refresh is carried out unless the queue is stopped, and Stop
\* returns (refresh_queue.go).
TasksAreDone == subject = "queue" => EveryTaskRuns /\ StopReturns
=============================================================================
