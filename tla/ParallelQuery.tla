---------------------------- MODULE ParallelQuery ----------------------------
(***************************************************************************)
(* queryParallel and collectRemainingResponses: one query of the parallel  *)
(* strategy (upstream/manager_parallel.go).  The goroutine of the query    *)
(* starts the first tier and waits for a fast response; a goroutine starts *)
(* the other servers in batches; after the query has returned, a collector *)
(* merges the results for the cache.  Servers are numbered as              *)
(* getSortedHealthyServers orders them.                                    *)
(*                                                                         *)
(* Timers are arbitrary.  Each server is asked once, and what its breaker  *)
(* records follows from reply: RecordSuccess for an answer, RecordError    *)
(* for anything else, NXDOMAIN included.                                   *)
(***************************************************************************)
EXTENDS Integers, FiniteSets

CONSTANTS
    Servers,        \* len(sortedServers)
    ActiveTierSize,
    TierBatch,      \* u.batchSize
    NoServer

ParallelAssumption == {Servers, ActiveTierSize, TierBatch} \subseteq Nat \ {0}

Srv == 1 .. Servers
Reply == {"none", "ip", "empty", "error"}

VARIABLES
    query,      \* the query: its first select, the second, after a fast
                \* response, leaving, waiting for the errors, returned
    returned,   \* what it returned
    callerDone, \* ctx is done
    timedOut,   \* queryCtx reached totalCollectTimeout
    cancelAll,  \* queryCtx was cancelled
    tier,       \* the goroutine that starts the background tier
    started,    \* servers started so far
    call,       \* server -> position in doQuery
    reply,      \* server -> what Exchange returned
    resultChan, \* servers whose result is in the channel
    fastOnce,   \* fastResponseSent
    fast,       \* the server in fastResponseChan, and once received the winner
    closer,     \* the goroutine that closes the channels
    collector,  \* collectRemainingResponses
    successes,  \* allSuccessResults, without the fast response
    merged,     \* servers whose records the cache callback was given
    afterClose, \* history: servers started after the channels were closed
    panicked

parVars == <<query, returned, callerDone, timedOut, cancelAll, tier, started,
             call, reply, resultChan, fastOnce, fast, closer, collector,
             successes, merged, afterClose, panicked>>

QueryCtxDone == timedOut \/ cancelAll
InFlight == {s \in Srv : call[s] \notin {"none", "done"}}     \* what wg counts
FirstTier == IF Servers > ActiveTierSize THEN ActiveTierSize ELSE Servers

\* The first tier has been started.
Init ==
    /\ query = "select" /\ returned = "none"
    /\ callerDone = FALSE /\ timedOut = FALSE /\ cancelAll = FALSE
    /\ tier = "idle" /\ started = FirstTier
    /\ call = [s \in Srv |-> IF s <= FirstTier THEN "exchange" ELSE "none"]
    /\ reply = [s \in Srv |-> "none"]
    /\ resultChan = {} /\ fastOnce = FALSE /\ fast = NoServer
    /\ closer = "none" /\ collector = "none"
    /\ successes = {} /\ merged = {} /\ afterClose = {} /\ panicked = FALSE

-----------------------------------------------------------------------------
(* The query.                                                              *)
TierStarts == tier' = IF started = Servers THEN "gone" ELSE "batch"

\* Either select meets a fast response.  After the first one the background
\* tier is started for completeness.
GotFast ==
    /\ query \in {"select", "again"} /\ fastOnce /\ fast # NoServer
    /\ query' = "got"
    /\ IF query = "select" THEN TierStarts ELSE UNCHANGED tier
    /\ UNCHANGED <<returned, callerDone, timedOut, cancelAll, started, call, reply,
                   resultChan, fastOnce, fast, closer, collector, successes,
                   merged, afterClose, panicked>>

FallbackFires ==
    /\ query = "select"
    /\ query' = "again" /\ TierStarts
    /\ UNCHANGED <<returned, callerDone, timedOut, cancelAll, started, call, reply,
                   resultChan, fastOnce, fast, closer, collector, successes,
                   merged, afterClose, panicked>>

\* ctx is done in either select: the deferred cancelAll runs.
GiveUp ==
    /\ query \in {"select", "again"} /\ callerDone
    /\ query' = "done" /\ returned' = "error" /\ cancelAll' = TRUE
    /\ UNCHANGED <<callerDone, timedOut, tier, started, call, reply, resultChan,
                   fastOnce, fast, closer, collector, successes, merged,
                   afterClose, panicked>>

\* Mutated form of NoResponse: the query does not wait for the deadline.
NoResponse_Early ==
    /\ query = "again" /\ InFlight = {}
    /\ query' = "drain" /\ closer' = "waits"
    /\ UNCHANGED <<returned, callerDone, timedOut, cancelAll, tier, started, call,
                   reply, resultChan, fastOnce, fast, collector, successes, merged,
                   afterClose, panicked>>

\* queryCtx is over without a fast response: a goroutine waits for all requests.
NoResponse ==
    /\ query = "again" /\ QueryCtxDone
    /\ query' = "drain" /\ closer' = "waits"
    /\ UNCHANGED <<returned, callerDone, timedOut, cancelAll, tier, started, call,
                   reply, resultChan, fastOnce, fast, collector, successes, merged,
                   afterClose, panicked>>

\* Both channels are drained until they are closed.
Failed ==
    /\ query = "drain" /\ closer = "closed"
    /\ query' = "done" /\ returned' = "error" /\ cancelAll' = TRUE
    /\ resultChan' = {}
    /\ UNCHANGED <<callerDone, timedOut, tier, started, call, reply, fastOnce, fast,
                   closer, collector, successes, merged, afterClose, panicked>>

StartCollector ==
    /\ query = "got"
    /\ query' = "leave" /\ collector' = "collect" /\ closer' = "waits"
    /\ UNCHANGED <<returned, callerDone, timedOut, cancelAll, tier, started, call,
                   reply, resultChan, fastOnce, fast, successes, merged, afterClose,
                   panicked>>

\* The query returns the fast response, and the deferred cancelAll ends the
\* requests that are still running.
Return ==
    /\ query = "leave"
    /\ query' = "done" /\ returned' = "result" /\ cancelAll' = TRUE
    /\ UNCHANGED <<callerDone, timedOut, tier, started, call, reply, resultChan,
                   fastOnce, fast, closer, collector, successes, merged,
                   afterClose, panicked>>

CallerDone ==
    /\ ~callerDone /\ query # "done"
    /\ callerDone' = TRUE
    /\ UNCHANGED <<query, returned, timedOut, cancelAll, tier, started, call, reply,
                   resultChan, fastOnce, fast, closer, collector, successes,
                   merged, afterClose, panicked>>

CollectTimeout ==
    /\ ~QueryCtxDone
    /\ timedOut' = TRUE
    /\ UNCHANGED <<query, returned, callerDone, cancelAll, tier, started, call,
                   reply, resultChan, fastOnce, fast, closer, collector, successes,
                   merged, afterClose, panicked>>

-----------------------------------------------------------------------------
(* The background tier.                                                    *)

\* wg.Add and go doQuery; a batch that is not the last is followed by a pause.
StartNext ==
    /\ tier = "batch"
    /\ started' = started + 1
    /\ call' = [call EXCEPT ![started + 1] = "exchange"]
    /\ afterClose' = IF closer = "closed" THEN afterClose \cup {started + 1}
                     ELSE afterClose
    /\ tier' = IF started + 1 = Servers THEN "gone"
               ELSE IF (started + 1 - FirstTier) % TierBatch = 0 THEN "stagger"
               ELSE "batch"
    /\ UNCHANGED <<query, returned, callerDone, timedOut, cancelAll, reply,
                   resultChan, fastOnce, fast, closer, collector, successes,
                   merged, panicked>>

\* The pause is over, or queryCtx is done.
Stagger ==
    /\ tier = "stagger"
    /\ tier' \in {"batch"} \cup (IF QueryCtxDone THEN {"gone"} ELSE {})
    /\ UNCHANGED <<query, returned, callerDone, timedOut, cancelAll, started, call,
                   reply, resultChan, fastOnce, fast, closer, collector, successes,
                   merged, afterClose, panicked>>

-----------------------------------------------------------------------------
(* doQuery.                                                                *)

Exchange(s) ==
    /\ call[s] = "exchange"
    /\ \E r \in Reply \ {"none"} : reply' = [reply EXCEPT ![s] = r]
    /\ call' = [call EXCEPT ![s] = "reply"]
    /\ UNCHANGED <<query, returned, callerDone, timedOut, cancelAll, tier, started,
                   resultChan, fastOnce, fast, closer, collector, successes,
                   merged, afterClose, panicked>>

\* The first select: nothing is sent once queryCtx is done.
CheckCtx(s) ==
    /\ call[s] = "reply"
    /\ call' = [call EXCEPT ![s] = IF QueryCtxDone THEN "done" ELSE "send"]
    /\ UNCHANGED <<query, returned, callerDone, timedOut, cancelAll, tier, started,
                   reply, resultChan, fastOnce, fast, closer, collector, successes,
                   merged, afterClose, panicked>>

\* The second one; a send on a closed channel counts as ready, and panics.
Send(s) ==
    /\ call[s] = "send"
    /\ \/ /\ closer # "closed"
          /\ resultChan' = resultChan \cup {s}
          /\ call' = [call EXCEPT ![s] = IF reply[s] = "ip" THEN "sent" ELSE "done"]
          /\ UNCHANGED panicked
       \/ /\ closer = "closed"
          /\ panicked' = TRUE
          /\ UNCHANGED <<resultChan, call>>
       \/ /\ QueryCtxDone
          /\ call' = [call EXCEPT ![s] = "done"]
          /\ UNCHANGED <<resultChan, panicked>>
    /\ UNCHANGED <<query, returned, callerDone, timedOut, cancelAll, tier, started,
                   reply, fastOnce, fast, closer, collector, successes, merged,
                   afterClose>>

\* fastResponseSent.Do: the first answer with addresses goes to
\* fastResponseChan, whose buffer it finds empty.
OfferFast(s) ==
    /\ call[s] = "sent"
    /\ call' = [call EXCEPT ![s] = "done"]
    /\ fastOnce' = TRUE
    /\ fast' = IF fastOnce THEN fast ELSE s
    /\ UNCHANGED <<query, returned, callerDone, timedOut, cancelAll, tier, started,
                   reply, resultChan, closer, collector, successes, merged,
                   afterClose, panicked>>

-----------------------------------------------------------------------------
(* Closing and collecting.                                                 *)

\* Mutated form of CloseChannels: no wg.Wait.
CloseChannels_NoWait ==
    /\ closer = "waits"
    /\ closer' = "closed"
    /\ UNCHANGED <<query, returned, callerDone, timedOut, cancelAll, tier, started,
                   call, reply, resultChan, fastOnce, fast, collector, successes,
                   merged, afterClose, panicked>>

\* Mutated form of CloseChannels: the channels are not closed.
CloseChannels_Forgotten ==
    closer = "waits" /\ InFlight = {} /\ UNCHANGED parVars

\* wg.Wait and close.
CloseChannels ==
    /\ closer = "waits" /\ InFlight = {}
    /\ closer' = "closed"
    /\ UNCHANGED <<query, returned, callerDone, timedOut, cancelAll, tier, started,
                   call, reply, resultChan, fastOnce, fast, collector, successes,
                   merged, afterClose, panicked>>

\* Mutated form of Collect: the fast response is counted once more.
Collect_Twice(s) ==
    /\ collector = "collect" /\ s \in resultChan
    /\ resultChan' = resultChan \ {s}
    /\ successes' = IF reply[s] # "error" THEN successes \cup {s} ELSE successes
    /\ UNCHANGED <<query, returned, callerDone, timedOut, cancelAll, tier, started,
                   call, reply, fastOnce, fast, closer, collector, merged,
                   afterClose, panicked>>

Collect(s) ==
    /\ collector = "collect" /\ s \in resultChan
    /\ resultChan' = resultChan \ {s}
    /\ successes' = IF reply[s] # "error" /\ s # fast THEN successes \cup {s}
                    ELSE successes
    /\ UNCHANGED <<query, returned, callerDone, timedOut, cancelAll, tier, started,
                   call, reply, fastOnce, fast, closer, collector, merged,
                   afterClose, panicked>>

\* The channel is closed and empty, or the collector's own timer fires, which it
\* may at any time.  With a second result the cache callback gets the records of all, without duplicates
\* (mergeAndDeduplicateRecords), and the smallest TTL.
CollectorEnds ==
    /\ collector = "collect"
    /\ collector' = "done"
    /\ merged' = IF successes = {} THEN {} ELSE successes \cup {fast}
    /\ UNCHANGED <<query, returned, callerDone, timedOut, cancelAll, tier, started,
                   call, reply, resultChan, fastOnce, fast, closer, successes,
                   afterClose, panicked>>

-----------------------------------------------------------------------------
QuerySteps == GotFast \/ GiveUp \/ NoResponse \/ Failed \/ StartCollector \/ Return
Timers == FallbackFires \/ CallerDone \/ CollectTimeout
Tier == StartNext \/ Stagger
Collector == CollectorEnds \/ \E s \in Srv : Collect(s)
Call(s) == Exchange(s) \/ CheckCtx(s) \/ Send(s) \/ OfferFast(s)

Next ==
    /\ ~panicked
    /\ QuerySteps \/ Timers \/ Tier \/ CloseChannels \/ Collector
          \/ \E s \in Srv : Call(s)

\* Goroutines run, timers fire, and an exchange ends with its context.
Fairness ==
    /\ WF_parVars(~panicked /\ (QuerySteps \/ CloseChannels \/ Collector))
    /\ WF_parVars(~panicked /\ FallbackFires)
    /\ WF_parVars(~panicked /\ CollectTimeout)
    /\ WF_parVars(~panicked /\ (Tier \/ \E s \in Srv : Call(s)))

Spec == Init /\ [][Next]_parVars /\ Fairness

-----------------------------------------------------------------------------
(* Properties.                                                             *)

\* The channels are closed under no doQuery that wg.Wait has counted: only a
\* server that the background tier starts after the close can meet them closed.
ClosedBehindCounted == closer = "closed" => InFlight \subseteq afterClose

\* A query fails no earlier than a deadline, the caller's or its own, however
\* fast all servers have failed.
FailsAtDeadline ==
    returned = "error" => callerDone \/ timedOut

\* What the cache is given holds the answer the client got and at least one other
\* server's, all of them answers without an error.
MergedWithAnswer ==
    merged # {} => /\ returned # "error" /\ fast \in merged
                   /\ Cardinality(merged) > 1 /\ \A s \in merged : reply[s] # "error"

\* What a query returns and what it leaves for the cache.
ParallelOutcome == FailsAtDeadline /\ MergedWithAnswer

\* The query returns and leaves no goroutine behind.
AllEnds ==
    <>[](panicked \/ /\ query = "done" /\ InFlight = {} /\ tier # "batch"
                     /\ collector # "collect" /\ closer # "waits")

-----------------------------------------------------------------------------
(* What comments of the code say of it, and TLC refutes.                   *)

\* "Background completion is started for completeness": a server that is asked
\* and answers before the collection ends is merged.
Complete ==
    collector = "done" /\ ~timedOut /\ merged # {}
        => \A s \in Srv : reply[s] = "ip" => s \in merged

\* "Check the context first, to avoid sending to a closed channel."
NoSendOnClosed == ~panicked
=============================================================================
