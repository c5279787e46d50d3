----------------------------- MODULE RacingQuery -----------------------------
(***************************************************************************)
(* queryRacing: one race between the upstream servers                      *)
(* (upstream/manager_racing.go).  The goroutine of the query waits in a    *)
(* select; a goroutine per server runs doQuery; another one, after a       *)
(* delay, starts the servers behind the first in batches.  Servers are     *)
(* numbered as getSortedHealthyServers orders them.                        *)
(*                                                                         *)
(* Delays are arbitrary, so the network error of the first server that     *)
(* cuts the delay short (cancelDelayChan) adds no behaviour and is not     *)
(* told apart from the timer.  The network stays up during the race        *)
(* (rawQuery refuses one when it is down); otherwise outcomes would not be *)
(* counted, which nothing else in the race depends on.                     *)
(***************************************************************************)
EXTENDS ServerHealth, FiniteSets

CONSTANTS
    N,               \* len(u.servers)
    MaxConcurrent,   \* u.racingMaxConcurrent, which NewManager keeps within 1 .. N
    BatchSize        \* of calculateRacingBatchParams

ASSUME RaceAssumption ==
    /\ N \in Nat \ {0} /\ MaxConcurrent \in 1 .. N /\ BatchSize \in 2 .. 4

Server == 1 .. N

VARIABLES
    main,       \* the query: before its select, parked in it, with a result,
                \* collecting errors, returned
    outcome,    \* what it returns
    ctxDone,    \* the caller's context is done
    cancelled,  \* cancelAll has been called
    delay,      \* the goroutine that starts the other servers
    next,       \* its place in sortedServers[1:]
    req,        \* each server's doQuery
    once,       \* the sync.Once around the winner: not used, running, over
    result,     \* resultChan holds a result
    errs,       \* errors in errorChan
    gotErr,     \* lastErr # nil
    closed,     \* errorChan is closed
    late,       \* history: servers started after that
    crashed,    \* a send on the closed errorChan panicked
    health      \* the ServerHealth of each server

vars == <<main, outcome, ctxDone, cancelled, delay, next, req, once, result, errs, gotErr,
          closed, late, crashed, health>>

RaceDone == ctxDone \/ cancelled

\* What wg counts.
Active == {s \in Server : req[s] \notin {"none", "done"}}

\* A server that is new, and one whose backoff is over although its status is
\* still Unhealthy: earlier queries leave either behind.
StartHealth ==
    {NewServerHealth,
     [NewServerHealth EXCEPT !.fails = CircuitBreakerThreshold, !.status = "unhealthy",
                             !.attempts = 1]}

\* The first server has been started, and so has the delay goroutine.
Init ==
    /\ main = "start" /\ outcome = "none"
    /\ ctxDone = FALSE /\ cancelled = FALSE
    /\ delay = "wait" /\ next = 1
    /\ req = [s \in Server |-> IF s = 1 THEN "exchange" ELSE "none"]
    /\ once = "unused" /\ result = FALSE
    /\ errs = 0 /\ gotErr = FALSE /\ closed = FALSE /\ late = {} /\ crashed = FALSE
    /\ health \in [Server -> StartHealth]

-----------------------------------------------------------------------------
(* The query.                                                              *)

\* The query comes to its select: with both cases ready it takes either, with
\* none it parks.
Select ==
    /\ main = "start"
    /\ \/ result /\ main' = "got" /\ result' = FALSE
       \/ RaceDone /\ main' = "collect" /\ UNCHANGED result
       \/ ~result /\ ~RaceDone /\ main' = "parked" /\ UNCHANGED result
    /\ UNCHANGED <<outcome, ctxDone, cancelled, delay, next, req, once, errs, gotErr, closed,
                   late, crashed, health>>

\* raceCtx is done: a parked query goes on to the errors.
Wake == main' = IF main = "parked" THEN "collect" ELSE main

\* The caller's context times out or is cancelled.
CtxExpires ==
    /\ ~ctxDone /\ main # "done"
    /\ ctxDone' = TRUE
    /\ Wake
    /\ UNCHANGED <<outcome, cancelled, delay, next, req, once, result, errs, gotErr, closed,
                   late, crashed, health>>

Return ==
    /\ main = "got"
    /\ main' = "done" /\ outcome' = "result" /\ cancelled' = TRUE
    /\ UNCHANGED <<ctxDone, delay, next, req, once, result, errs, gotErr, closed, late, crashed,
                   health>>

\* Mutated form of CloseErrors: errorChan is closed without wg.Wait.
CloseErrors_NoWait ==
    /\ main = "collect" /\ ~closed
    /\ closed' = TRUE
    /\ UNCHANGED <<main, outcome, ctxDone, cancelled, delay, next, req, once, result, errs,
                   gotErr, late, crashed, health>>

\* Mutated form of CloseErrors: errorChan is not closed.
CloseErrors_Forgotten ==
    /\ main = "collect" /\ ~closed
    /\ Active = {}
    /\ UNCHANGED vars

\* wg.Wait returns and errorChan is closed.
CloseErrors ==
    /\ main = "collect" /\ ~closed
    /\ Active = {}
    /\ closed' = TRUE
    /\ UNCHANGED <<main, outcome, ctxDone, cancelled, delay, next, req, once, result, errs,
                   gotErr, late, crashed, health>>

\* for err := range errorChan.
ReceiveError ==
    /\ main = "collect" /\ errs > 0
    /\ errs' = errs - 1 /\ gotErr' = TRUE
    /\ UNCHANGED <<main, outcome, ctxDone, cancelled, delay, next, req, once, result, closed,
                   late, crashed, health>>

\* The loop is over: the last error is returned, or ctx.Err(), which may be nil.
ReturnError ==
    /\ main = "collect" /\ closed /\ errs = 0
    /\ main' = "done" /\ cancelled' = TRUE
    /\ outcome' = IF gotErr \/ ctxDone THEN "error" ELSE "nil"
    /\ UNCHANGED <<ctxDone, delay, next, req, once, result, errs, gotErr, closed, late, crashed,
                   health>>

-----------------------------------------------------------------------------
(* The goroutine that starts the other servers.                            *)

\* Mutated form of Limit: the first server is not counted.
Limit_OffByOne == IF N - 1 < MaxConcurrent THEN N - 1 ELSE MaxConcurrent

\* How far the loop over sortedServers[1:] goes.
Limit == IF N < MaxConcurrent THEN N - 1 ELSE MaxConcurrent - 1

\* The timer fires, or the first server's network error cuts the delay short.
DelayOver ==
    /\ delay = "wait"
    /\ delay' = IF Limit = 0 THEN "gone" ELSE "batch"
    /\ UNCHANGED <<main, outcome, ctxDone, cancelled, next, req, once, result, errs, gotErr,
                   closed, late, crashed, health>>

\* One round of the inner loop: the server is started unless its status is
\* Unhealthy; a batch that is complete and not the last is followed by a pause.
StartServer ==
    LET s == next + 1
    IN  /\ delay = "batch"
        /\ IF health[s].status = "unhealthy"
           THEN UNCHANGED <<req, late>>
           ELSE /\ req' = [req EXCEPT ![s] = "exchange"]
                /\ late' = IF closed THEN late \cup {s} ELSE late
        /\ next' = next + 1
        /\ delay' = IF next = Limit THEN "gone"
                    ELSE IF next % BatchSize = 0 THEN "stagger" ELSE "batch"
        /\ UNCHANGED <<main, outcome, ctxDone, cancelled, once, result, errs, gotErr, closed,
                       crashed, health>>

StaggerOver ==
    /\ delay = "stagger"
    /\ delay' = "batch"
    /\ UNCHANGED <<main, outcome, ctxDone, cancelled, next, req, once, result, errs, gotErr,
                   closed, late, crashed, health>>

\* Both waits end when raceCtx is done.
DelayCancelled ==
    /\ delay \in {"wait", "stagger"}
    /\ RaceDone
    /\ delay' = "gone"
    /\ UNCHANGED <<main, outcome, ctxDone, cancelled, next, req, once, result, errs, gotErr,
                   closed, late, crashed, health>>

-----------------------------------------------------------------------------
(* doQuery.                                                                *)

\* Exchange returns an answer; NXDOMAIN and an empty one count as one.
Answered(s) ==
    /\ req[s] = "exchange"
    /\ req' = [req EXCEPT ![s] = "answered"]
    /\ UNCHANGED <<main, outcome, ctxDone, cancelled, delay, next, once, result, errs, gotErr,
                   closed, late, crashed, health>>

\* Exchange returns an error or another error code, which is recorded; the error
\* of a cancelled context is one like any other.
Failed(s) ==
    /\ req[s] = "exchange"
    /\ req' = [req EXCEPT ![s] = "report"]
    /\ health' = [health EXCEPT ![s] = MarkFailure(@)]
    /\ UNCHANGED <<main, outcome, ctxDone, cancelled, delay, next, once, result, errs, gotErr,
                   closed, late, crashed>>

\* Mutated form of Report: a failure cancels the race as an answer does.
Report_CancelsAll(s) ==
    /\ req[s] = "report"
    /\ req' = [req EXCEPT ![s] = "done"]
    /\ errs < MaxConcurrent /\ errs' = errs + 1
    /\ cancelled' = TRUE
    /\ Wake
    /\ UNCHANGED <<outcome, ctxDone, delay, next, once, result, gotErr, closed, late, crashed,
                   health>>

\* The select between errorChan and raceCtx.Done(): it picks any ready case, and
\* a send on a closed channel counts as ready, and panics.
Report(s) ==
    /\ req[s] = "report"
    /\ req' = [req EXCEPT ![s] = "done"]
    /\ \/ ~closed /\ errs < MaxConcurrent /\ errs' = errs + 1 /\ UNCHANGED crashed
       \/ closed /\ crashed' = TRUE /\ UNCHANGED errs
       \/ RaceDone /\ UNCHANGED <<errs, crashed>>
    /\ UNCHANGED <<main, outcome, ctxDone, cancelled, delay, next, once, result, gotErr, closed,
                   late, health>>

\* Mutated form of Win: resultChan has no buffer and the send no default.
Win_Unbuffered(s) ==
    /\ req[s] = "answered" /\ once = "unused"
    /\ main = "parked"
    /\ once' = "running"
    /\ req' = [req EXCEPT ![s] = "won"]
    /\ main' = "got" /\ UNCHANGED result
    /\ UNCHANGED <<outcome, ctxDone, cancelled, delay, next, errs, gotErr, closed, late, crashed,
                   health>>

\* The first answer enters once.Do and is sent: to the query if it is parked in
\* its select, else into the buffer of resultChan.
Win(s) ==
    /\ req[s] = "answered" /\ once = "unused"
    /\ once' = "running"
    /\ req' = [req EXCEPT ![s] = "won"]
    /\ IF main = "parked"
       THEN main' = "got" /\ UNCHANGED result
       ELSE result' = TRUE /\ UNCHANGED main
    /\ UNCHANGED <<outcome, ctxDone, cancelled, delay, next, errs, gotErr, closed, late, crashed,
                   health>>

\* The winner records its success and calls cancelAll; once.Do returns.
Won(s) ==
    /\ req[s] = "won"
    /\ req' = [req EXCEPT ![s] = "done"]
    /\ once' = "over" /\ cancelled' = TRUE
    /\ Wake
    /\ health' = [health EXCEPT ![s] = MarkSuccess(@)]
    /\ UNCHANGED <<outcome, ctxDone, delay, next, result, errs, gotErr, closed, late, crashed>>

\* Later answers wait in once.Do for the winner, and are dropped.
Lost(s) ==
    /\ req[s] = "answered" /\ once = "over"
    /\ req' = [req EXCEPT ![s] = "done"]
    /\ UNCHANGED <<main, outcome, ctxDone, cancelled, delay, next, once, result, errs, gotErr,
                   closed, late, crashed, health>>

-----------------------------------------------------------------------------
QueryStep == Select \/ Return \/ ReceiveError \/ ReturnError

Starter == DelayOver \/ StartServer \/ StaggerOver \/ DelayCancelled

DoQuery(s) == Answered(s) \/ Failed(s) \/ Report(s) \/ Win(s) \/ Won(s) \/ Lost(s)

\* A panic ends the process.
Next == ~crashed /\ (QueryStep \/ CtxExpires \/ CloseErrors \/ Starter
                        \/ \E s \in Server : DoQuery(s))

Spec == Init /\ [][Next]_vars

\* Goroutines run, timers fire, an exchange has a timeout, and every caller of
\* Query gives its context one (handler_query.go, refresh.go).
Fairness ==
    /\ WF_vars(~crashed /\ QueryStep) /\ WF_vars(~crashed /\ CtxExpires)
    /\ WF_vars(~crashed /\ CloseErrors) /\ WF_vars(~crashed /\ Starter)
    /\ \A s \in Server : WF_vars(~crashed /\ DoQuery(s))

FairSpec == Spec /\ Fairness

-----------------------------------------------------------------------------
(* Properties.                                                             *)

\* Every variable keeps the shape its Go declaration gives it.
TypeOK ==
    /\ main \in {"start", "parked", "got", "collect", "done"}
    /\ outcome \in {"none", "result", "error", "nil"}
    /\ ctxDone \in BOOLEAN /\ cancelled \in BOOLEAN /\ result \in BOOLEAN
    /\ gotErr \in BOOLEAN /\ closed \in BOOLEAN /\ crashed \in BOOLEAN
    /\ delay \in {"wait", "batch", "stagger", "gone"} /\ next \in 1 .. MaxConcurrent
    /\ req \in [Server -> {"none", "exchange", "answered", "won", "report", "done"}]
    /\ once \in {"unused", "running", "over"}
    /\ errs \in 0 .. MaxConcurrent
    /\ late \subseteq Server
    /\ health \in [Server -> Health]

\* At most MaxConcurrent servers are asked, so the buffer of errorChan has room
\* for all of their errors and no doQuery waits to report one.
NoReportBlocks == errs + Cardinality(Active) <= MaxConcurrent

\* errorChan is closed under no doQuery that wg.Wait has counted: only a server
\* that the starter starts after the close can meet it closed.
CountedMeetsOpenChannel == closed => Active \subseteq late

\* Before the deadline a race fails only behind an answer that came too early for
\* the select: if nobody has answered, it does not end, even when all have failed.
NoAnswerNoEarlyEnd ==
    outcome \in {"error", "nil"} /\ once = "unused" => ctxDone

\* The query returns, and no goroutine of the race is left behind, whichever way
\* it returned, unless the process panics.
GoroutinesEnd == <>[](crashed \/ (main = "done" /\ delay = "gone" /\ Active = {}))

-----------------------------------------------------------------------------
(* What comments of the code say of it, and TLC refutes.                   *)

\* manager_dedup.go says errors are checked first and then whether the result is
\* nil; the nil pointer in an interface is not nil to that check, so a race must
\* not return one without an error.
NoNilResult == outcome # "nil"

\* No error is reported to a closed errorChan.
NoPanic == ~crashed
=============================================================================
