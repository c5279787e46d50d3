---------------------------- MODULE ServerHealth -----------------------------
(***************************************************************************)
(* The circuit breaker of one upstream server (upstream/health.go), as     *)
(* operators on its record:                                                *)
(*    status     HealthStatus                                              *)
(*    fails      consecutiveFailures                                       *)
(*    succs      consecutiveSuccesses                                      *)
(*    attempts   consecutiveRecoveryAttempts                               *)
(*    left       what is left of the backoff that began at                 *)
(*               circuitBreakerStartTime, in units of 10 seconds           *)
(* Latencies and the totals shown to the user decide nothing here.         *)
(***************************************************************************)
EXTENDS Integers

CONSTANTS
    FailureThreshold,          \* failures in a row that degrade a server
    CircuitBreakerThreshold,   \* failures in a row that open its breaker
    SuccessThreshold           \* successes in a row that make it healthy again

ASSUME ThresholdAssumption ==
    {FailureThreshold, CircuitBreakerThreshold, SuccessThreshold} \subseteq Nat \ {0}

Status == {"healthy", "degraded", "unhealthy"}

Health == [status : Status, fails : Nat, succs : Nat, attempts : Nat, left : Nat]

NewServerHealth == [status |-> "healthy", fails |-> 0, succs |-> 0, attempts |-> 0, left |-> 0]

\* Mutated form of MarkSuccess: the failures in a row are not reset.
MarkSuccess_KeepsFails(h) ==
    LET recovered == h.succs + 1 >= SuccessThreshold /\ h.status # "healthy"
    IN  [h EXCEPT !.succs = IF recovered THEN 0 ELSE @ + 1,
                  !.status = IF recovered THEN "healthy" ELSE @,
                  !.attempts = IF recovered THEN 0 ELSE @]

MarkSuccess(h) ==
    LET recovered == h.succs + 1 >= SuccessThreshold /\ h.status # "healthy"
    IN  [h EXCEPT !.fails = 0,
                  !.succs = IF recovered THEN 0 ELSE @ + 1,
                  !.status = IF recovered THEN "healthy" ELSE @,
                  !.attempts = IF recovered THEN 0 ELSE @]

\* backoffDuration: 10 * (1 << attempts) seconds.
Backoff(attempts) == 2 ^ attempts

\* The breaker opens, and its backoff begins, only when it was not open yet.
MarkFailure(h) ==
    LET fails == h.fails + 1
        opens == fails >= CircuitBreakerThreshold /\ h.status # "unhealthy"
        degrades == fails < CircuitBreakerThreshold /\ fails >= FailureThreshold
                        /\ h.status = "healthy"
    IN  [h EXCEPT !.fails = fails,
                  !.succs = 0,
                  !.status = IF opens THEN "unhealthy" ELSE IF degrades THEN "degraded" ELSE @,
                  !.attempts = IF opens THEN @ + 1 ELSE @,
                  !.left = IF opens THEN Backoff(h.attempts + 1) ELSE @]

\* A timeout costs latency and the successes in a row, and is no failure.
MarkTimeout(h) == [h EXCEPT !.succs = 0]

\* Mutated form of ShouldSkipTemporarily: the elapsed time is not looked at.
ShouldSkipTemporarily_ForEver(h) == h.status = "unhealthy"

ShouldSkipTemporarily(h) == h.status = "unhealthy" /\ h.left > 0

\* The status agrees with the counters: enough failures in a row have opened the
\* breaker or degraded the server, a server is not kept from service once it has
\* the successes to recover, and an open breaker has counted one attempt.
Consistent(h) ==
    /\ h.fails >= CircuitBreakerThreshold => h.status = "unhealthy"
    /\ h.fails >= FailureThreshold => h.status # "healthy"
    /\ h.fails > 0 => h.succs = 0
    /\ h.succs >= SuccessThreshold => h.status = "healthy"
    /\ h.attempts = IF h.status = "unhealthy" THEN 1 ELSE 0

\* Ten seconds pass.
Elapse(h) == [h EXCEPT !.left = IF @ > 0 THEN @ - 1 ELSE 0]
=============================================================================
