--------------------------- MODULE UpstreamManager ---------------------------
(***************************************************************************)
(* Manager.Query: equal queries that overlap share one rawQuery            *)
(* (upstream/manager_dedup.go, manager.go), which chooses a strategy and   *)
(* records its outcome for the choice (manager_auto.go).  A strategy is    *)
(* taken by its outcome here: a result, an error, or neither, as           *)
(* RacingQuery and RandomQuery show.                                       *)
(***************************************************************************)
EXTENDS Integers, FiniteSets

CONSTANTS
    Caller,
    NoCaller,
    ServerCount,    \* len(servers)
    DecayAt         \* requestCount above which the statistics are halved (200)

\* The limit is even, so that the halving happens at an odd number of requests.
ManagerAssumption == DecayAt \in Nat /\ DecayAt % 2 = 0

Strategy == {"sequential", "parallel", "racing", "random"}
Configured == Strategy \cup {"", "auto"}        \* cfg.Strategy

VARIABLES
    strategy,   \* u.strategy
    used,       \* the strategy of the running rawQuery
    at,         \* caller -> position in Query
    leader,     \* the caller whose rawQuery runs, for the one key
    sharing,    \* callers that wait for it
    gone,       \* callers whose own context is done
    got,        \* caller -> what Query returned
    flightEnd,  \* outcome of the strategy
    networkUp,
    stats       \* StrategyStats of each strategy

manVars == <<strategy, used, at, leader, sharing, gone, got, flightEnd, networkUp,
             stats>>

selectInitialStrategy(cfg, n) ==
    IF cfg \notin {"", "auto"} THEN cfg
    ELSE IF n <= 1 THEN "sequential" ELSE IF n <= 3 THEN "racing" ELSE "parallel"

NoStats == [requests |-> 0, successes |-> 0, errors |-> 0]

\* NewManager.
Init ==
    /\ \E cfg \in Configured : strategy = selectInitialStrategy(cfg, ServerCount)
    /\ used = strategy
    /\ at = [c \in Caller |-> "idle"] /\ got = [c \in Caller |-> "none"]
    /\ leader = NoCaller /\ sharing = {} /\ gone = {}
    /\ flightEnd = "none" /\ networkUp = TRUE
    /\ stats = [s \in Strategy |-> NoStats]

\* Only under "auto" would the statistics decide, and NewManager keeps no "auto".
SelectOptimalStrategy ==
    IF strategy # "auto" THEN {strategy} ELSE {"parallel", "sequential", "racing"}

\* requestGroup.Do: the first caller of a key runs rawQuery.
Lead(c) ==
    /\ at[c] = "idle" /\ leader = NoCaller
    /\ leader' = c /\ at' = [at EXCEPT ![c] = "check"]
    /\ UNCHANGED <<strategy, used, sharing, gone, got, flightEnd, networkUp, stats>>

\* The others wait for it, whatever becomes of their own context.
Join(c) ==
    /\ at[c] = "idle" /\ leader # NoCaller
    /\ sharing' = sharing \cup {c} /\ at' = [at EXCEPT ![c] = "share"]
    /\ UNCHANGED <<strategy, used, leader, gone, got, flightEnd, networkUp, stats>>

\* rawQuery refuses while the network is down, and records nothing then.
CheckNetwork(c) ==
    /\ at[c] = "check"
    /\ IF networkUp
       THEN /\ used' \in SelectOptimalStrategy
            /\ at' = [at EXCEPT ![c] = "query"] /\ UNCHANGED flightEnd
       ELSE /\ flightEnd' = "error"
            /\ at' = [at EXCEPT ![c] = "return"] /\ UNCHANGED used
    /\ UNCHANGED <<strategy, leader, sharing, gone, got, networkUp, stats>>

\* The strategy runs under the leader's context.
StrategyEnds(c) ==
    /\ at[c] = "query"
    /\ flightEnd' \in IF c \in gone THEN {"error"} ELSE {"result", "error", "nil"}
    /\ at' = [at EXCEPT ![c] = "record"]
    /\ UNCHANGED <<strategy, used, leader, sharing, gone, got, networkUp, stats>>

\* Mutated form of Decayed: the statistics are halved one request earlier.
Decayed_Early(s) ==
    IF s.requests >= DecayAt
    THEN [requests |-> s.requests \div 2, successes |-> s.successes \div 2,
          errors |-> s.errors \div 2]
    ELSE s

\* RecordStrategyResult halves old counts, each on its own.
Decayed(s) ==
    IF s.requests > DecayAt
    THEN [requests |-> s.requests \div 2, successes |-> s.successes \div 2,
          errors |-> s.errors \div 2]
    ELSE s

\* A nil error is a success.  Nothing is recorded while the network is down.
Record(c) ==
    LET d == Decayed(stats[used])
        ok == IF flightEnd # "error" THEN 1 ELSE 0
    IN  /\ at[c] = "record"
        /\ stats' = IF networkUp
                    THEN [stats EXCEPT ![used] =
                             [requests |-> d.requests + 1,
                              successes |-> d.successes + ok,
                              errors |-> d.errors + 1 - ok]]
                    ELSE stats
        /\ at' = [at EXCEPT ![c] = "return"]
        /\ UNCHANGED <<strategy, used, leader, sharing, gone, got, flightEnd,
                       networkUp>>

\* Mutated form of Return: only the callers whose context is live are woken.
Return_SkipsGone(c) ==
    /\ at[c] = "return"
    /\ got' = [d \in Caller |-> IF d \in (sharing \ gone) \cup {c} THEN flightEnd
                                ELSE got[d]]
    /\ at' = [d \in Caller |-> IF d \in (sharing \ gone) \cup {c} THEN "done" ELSE at[d]]
    /\ leader' = NoCaller /\ sharing' = {} /\ flightEnd' = "none"
    /\ UNCHANGED <<strategy, used, gone, networkUp, stats>>

\* The flight ends for all its callers at once.
Return(c) ==
    /\ at[c] = "return"
    /\ got' = [d \in Caller |-> IF d \in sharing \cup {c} THEN flightEnd ELSE got[d]]
    /\ at' = [d \in Caller |-> IF d \in sharing \cup {c} THEN "done" ELSE at[d]]
    /\ leader' = NoCaller /\ sharing' = {} /\ flightEnd' = "none"
    /\ UNCHANGED <<strategy, used, gone, networkUp, stats>>

\* The caller handles its result; it may ask again.
Again(c) ==
    /\ at[c] = "done"
    /\ at' = [at EXCEPT ![c] = "idle"] /\ got' = [got EXCEPT ![c] = "none"]
    /\ gone' = gone \ {c}
    /\ UNCHANGED <<strategy, used, leader, sharing, flightEnd, networkUp, stats>>

ContextDone(c) ==
    /\ at[c] \notin {"idle", "done"} /\ c \notin gone
    /\ gone' = gone \cup {c}
    /\ UNCHANGED <<strategy, used, at, leader, sharing, got, flightEnd, networkUp, stats>>

NetworkChanges ==
    /\ networkUp' = ~networkUp
    /\ UNCHANGED <<strategy, used, at, leader, sharing, gone, got, flightEnd, stats>>

FlightStep(c) == CheckNetwork(c) \/ StrategyEnds(c) \/ Record(c) \/ Return(c)

Next ==
    \/ NetworkChanges
    \/ \E c \in Caller : Lead(c) \/ Join(c) \/ FlightStep(c) \/ Again(c) \/ ContextDone(c)

\* Strategies end: AllEnds of ParallelQuery, RaceReturns of RacingQuery.
Fairness == \A c \in Caller : WF_manVars(FlightStep(c))

Spec == Init /\ [][Next]_manVars /\ Fairness

-----------------------------------------------------------------------------
\* The three counters are halved separately, with rounding, and still agree: the
\* halving happens at an odd number of requests, where exactly one of the two
\* parts is odd.
CountsAgree ==
    \A s \in Strategy : /\ stats[s].requests = stats[s].successes + stats[s].errors
                        /\ stats[s].requests <= DecayAt + 1

\* Who waits for a flight waits for a running one, and everyone who asked gets
\* an outcome.
SharersAreAnswered ==
    \A c \in Caller : at[c] \in {"check", "share"} ~> at[c] \in {"done", "idle"}

-----------------------------------------------------------------------------
(* What TLC refutes.                                                       *)

\* A caller whose own context is live gets no context error of another.
OwnContext ==
    [][\A c, d \in Caller :
          Return(d) /\ c \in sharing \ gone /\ d \in gone => got'[c] # "error"]_manVars
=============================================================================
