------------------------------- MODULE Upstream ------------------------------
(***************************************************************************)
(* The parallel and the random strategy, and the manager above the         *)
(* strategies.                                                             *)
(***************************************************************************)
EXTENDS ServerHealth, Sequences, FiniteSets

CONSTANTS Servers, ActiveTierSize, TierBatch, NoServer, RandomServer, Caller,
          NoCaller, ServerCount, DecayAt

VARIABLES
    query, returned, callerDone, timedOut, cancelAll, tier, started, call, reply,
    resultChan, fastOnce, fast, closer, collector, successes, merged, afterClose,
    panicked,
    rest, rndCtx, lastResult, lastErr, ended, passed, breaker,
    strategy, used, at, leader, sharing, gone, got, flightEnd, networkUp, stats

Parallel == INSTANCE ParallelQuery
Random == INSTANCE RandomQuery
Manager == INSTANCE UpstreamManager

-----------------------------------------------------------------------------
(* Properties.                                                             *)

\* The channel of answers is closed only behind the requests that were counted when
\* the closer began to wait (manager_parallel.go).
ClosedBehindCounted == Parallel!ClosedBehindCounted

\* A parallel query fails no earlier than a deadline, and what is merged for the
\* cache holds the answer the client got (manager_parallel.go).
ParallelOutcome == Parallel!ParallelOutcome

\* Before its deadline the random strategy fails only when every server has failed
\* or is in its backoff (manager_random.go).
RandomAsksEverybody == Random!RandomAsksEverybody

\* The counters of a strategy agree however they are halved (manager_auto.go).
CountsAgree == Manager!CountsAgree
=============================================================================
