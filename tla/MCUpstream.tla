------------------------------ MODULE MCUpstream -----------------------------
(***************************************************************************)
(* The parallel and the random strategy, the sequential one with a single  *)
(* query, and the manager above the strategies in one run: the first state *)
(* chooses which of them moves.                                            *)
(***************************************************************************)
EXTENDS Upstream

CONSTANTS SequentialServers, s1, s2

TwoServers == <<s1, s2>>

VARIABLES subject, net, health, asking

parVars == <<query, returned, callerDone, timedOut, cancelAll, tier, started,
             call, reply, resultChan, fastOnce, fast, closer, collector,
             successes, merged, afterClose, panicked>>
rndVars == <<rest, rndCtx, lastResult, lastErr, ended, passed, breaker>>
manVars == <<strategy, used, at, leader, sharing, gone, got, flightEnd, networkUp,
             stats>>
seqVars == <<net, health, asking>>
vars == <<subject, parVars, rndVars, manVars, seqVars>>

Sequential == INSTANCE SequentialQuery WITH Servers <- SequentialServers, Query <- {"q"},
                                            MaxFails <- 3, MaxSuccs <- 2, query <- asking

ASSUME InstanceAssumption == Parallel!ParallelAssumption /\ Manager!ManagerAssumption

Idle == CHOOSE h \in [RandomServer -> {NewServerHealth}] : TRUE

Init ==
    /\ subject \in {"parallel", "random", "manager", "sequential"}
    /\ Parallel!Init /\ Random!Init /\ Manager!Init /\ Sequential!Init
    /\ subject # "random" => breaker = Idle
    /\ subject # "manager" => strategy = "random"

InParallel(A) == subject = "parallel" /\ A /\ UNCHANGED <<subject, rndVars, manVars, seqVars>>
InRandom(A) == subject = "random" /\ A /\ UNCHANGED <<subject, parVars, manVars, seqVars>>
InManager(A) == subject = "manager" /\ A /\ UNCHANGED <<subject, parVars, rndVars, seqVars>>
InSequential(A) == subject = "sequential" /\ A /\ UNCHANGED <<subject, parVars, rndVars, manVars>>

Next == InParallel(Parallel!Next) \/ InRandom(Random!Next) \/ InManager(Manager!Next)
           \/ InSequential(Sequential!Next)

\* The fairness of the modules, for the one that moves.
Spec ==
    /\ Init /\ [][Next]_vars
    /\ WF_vars(InParallel(~panicked /\ (Parallel!QuerySteps \/ Parallel!CloseChannels
                                          \/ Parallel!Collector)))
    /\ WF_vars(InParallel(~panicked /\ Parallel!FallbackFires))
    /\ WF_vars(InParallel(~panicked /\ Parallel!CollectTimeout))
    /\ WF_vars(InParallel(~panicked /\ (Parallel!Tier
                                          \/ \E s \in Parallel!Srv : Parallel!Call(s))))
    /\ \A c \in Caller : WF_vars(InManager(Manager!FlightStep(c)))
    /\ WF_vars(InSequential(Sequential!Tick)) /\ WF_vars(InSequential(Sequential!Step("q")))

\* Every goroutine of a parallel query ends, and every sequential query returns.
AllEnds == /\ subject = "parallel" => Parallel!AllEnds
           /\ subject = "sequential" => Sequential!QueryEnds

\* A server whose breaker is open is asked again in time (health.go).
SkipIsTemporary == subject = "sequential" => Sequential!SkipIsTemporary

\* Whoever shares the flight of another query gets its result (manager_dedup.go).
SharersAreAnswered == Manager!SharersAreAnswered
=============================================================================
