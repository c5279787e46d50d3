----------------------------- MODULE RandomQuery -----------------------------
(***************************************************************************)
(* queryRandom: one query of the random strategy                           *)
(* (upstream/manager_random.go).  It tries the servers one after the other *)
(* in a shuffled order, so any server not tried yet may be the next.       *)
(***************************************************************************)
EXTENDS ServerHealth

CONSTANT RandomServer

VARIABLES
    rest,       \* the servers the loop has not come to
    rndCtx,     \* ctx is done
    lastResult, \* an empty answer was kept
    lastErr,    \* an error was kept
    ended,      \* what the query returned: <<a result, an error>>
    passed,     \* history: server -> why the loop went on to the next one
    breaker     \* server -> its ServerHealth

rndVars == <<rest, rndCtx, lastResult, lastErr, ended, passed, breaker>>

Running == <<>>     \* value of ended before the query returns

\* New, degraded by failures, and open with and without backoff left.
BreakerStates ==
    {NewServerHealth,
     [NewServerHealth EXCEPT !.fails = FailureThreshold, !.status = "degraded"],
     [NewServerHealth EXCEPT !.fails = CircuitBreakerThreshold, !.status = "unhealthy",
                             !.attempts = 1],
     [NewServerHealth EXCEPT !.fails = CircuitBreakerThreshold, !.status = "unhealthy",
                             !.attempts = 1, !.left = 1]}

Init ==
    /\ rest = RandomServer /\ rndCtx = FALSE
    /\ lastResult = FALSE /\ lastErr = FALSE /\ ended = Running
    /\ passed = [s \in RandomServer |-> "no"]
    /\ breaker \in [RandomServer -> BreakerStates]

Goes(s) == ended = Running /\ s \in rest
Leaves(s, why) ==
    /\ rest' = rest \ {s}
    /\ passed' = [passed EXCEPT ![s] = why]

Skip_Unhealthy(s) ==
    /\ Goes(s) /\ breaker[s].status # "healthy"
    /\ Leaves(s, "skipped")
    /\ UNCHANGED <<rndCtx, lastResult, lastErr, ended, breaker>>

\* An open breaker: the server is passed over without an error being kept.
Skip(s) ==
    /\ Goes(s) /\ ShouldSkipTemporarily(breaker[s])
    /\ Leaves(s, "skipped")
    /\ UNCHANGED <<rndCtx, lastResult, lastErr, ended, breaker>>

\* ctx is done before the server is asked.
StopAtDeadline(s) ==
    /\ Goes(s) /\ ~ShouldSkipTemporarily(breaker[s]) /\ rndCtx
    /\ ended' = <<lastResult, TRUE>> /\ lastErr' = TRUE
    /\ UNCHANGED <<rest, rndCtx, lastResult, passed, breaker>>

Asks(s) == Goes(s) /\ ~ShouldSkipTemporarily(breaker[s]) /\ ~rndCtx

\* An error, also a timeout; another error code; an answer without records,
\* which is kept.
TryFails(s) ==
    /\ Asks(s)
    /\ lastResult' \in {lastResult, TRUE} /\ lastErr' = TRUE
    /\ breaker' = [breaker EXCEPT ![s] = MarkFailure(@)]
    /\ Leaves(s, "failed")
    /\ UNCHANGED <<rndCtx, ended>>

\* Records, or NXDOMAIN.
TrySucceeds(s) ==
    /\ Asks(s)
    /\ ended' = <<TRUE, FALSE>>
    /\ breaker' = [breaker EXCEPT ![s] = MarkSuccess(@)]
    /\ UNCHANGED <<rest, rndCtx, lastResult, lastErr, passed>>

\* The loop is over.
AllFailed ==
    /\ ended = Running /\ rest = {}
    /\ ended' = <<lastResult, lastErr>>
    /\ UNCHANGED <<rest, rndCtx, lastResult, lastErr, passed, breaker>>

RndDeadline ==
    /\ ~rndCtx /\ ended = Running
    /\ rndCtx' = TRUE
    /\ UNCHANGED <<rest, lastResult, lastErr, ended, passed, breaker>>

Next ==
    \/ AllFailed \/ RndDeadline
    \/ \E s \in RandomServer : \/ Skip(s) \/ StopAtDeadline(s)
                               \/ TryFails(s) \/ TrySucceeds(s)

Spec == Init /\ [][Next]_rndVars

-----------------------------------------------------------------------------
\* Before the deadline the query fails only when every server has failed in this
\* query or is in its backoff: a degraded one, and one whose backoff is over,
\* have been asked.
RandomAsksEverybody ==
    ended # Running /\ ended # <<TRUE, FALSE>> /\ ~rndCtx
        => \A s \in RandomServer : \/ passed[s] = "failed"
                                   \/ passed[s] = "skipped" /\ breaker[s].left > 0

-----------------------------------------------------------------------------
(* What comments of the code say of it, and TLC refutes.                   *)

\* "The last result is returned even if it is empty, which is friendlier than
\* nil": it comes with the error, for which Query drops it.
EmptyIsReturned == ended # Running /\ ended[1] => ~ended[2]

\* Query's comment counts on a result or an error; with every breaker open there
\* is neither.
ResultOrError == ended # <<FALSE, FALSE>>
=============================================================================
