--------------------------- MODULE SequentialQuery ---------------------------
(***************************************************************************)
(* querySequential: concurrent queries, each trying the upstream servers   *)
(* one after the other, and the circuit breakers they share                *)
(* (upstream/manager.go, manager_utils.go, manager_sequential.go,          *)
(* health_aware.go).  The network checker may say healthy or not at any    *)
(* time.                                                                   *)
(***************************************************************************)
EXTENDS ServerHealth, Sequences, FiniteSets

CONSTANTS
    Servers,    \* u.servers: a sequence of servers
    Query,      \* concurrent queries
    MaxFails,   \* bounds on the counters at which queries still begin
    MaxSuccs,
    NoServer

Server == {Servers[i] : i \in 1 .. Len(Servers)}

\* The place of a server in the configuration.
Configured(s) == CHOOSE i \in 1 .. Len(Servers) : Servers[i] = s

ASSUME ServersAssumption ==
    /\ Len(Servers) \in Nat \ {0}
    /\ \A i, j \in 1 .. Len(Servers) : Servers[i] = Servers[j] => i = j
    /\ NoServer \notin Server
ASSUME MaxAssumption == MaxFails \in Nat /\ MaxSuccs \in Nat

VARIABLES
    net,        \* networkChecker.IsNetworkHealthy()
    health,     \* the ServerHealth of each server
    query       \* each query: its step, the servers to come, the one being asked,
                \* its answer; and, as history, the servers asked so far, and
                \* those that could have been asked all the time

vars == <<net, health, query>>

Skip(s) == ShouldSkipTemporarily(health[s])

NoQuery == [step |-> "idle", todo |-> <<>>, at |-> NoServer, answer |-> "none",
            asked |-> {}, usable |-> {}]

Init ==
    /\ net = TRUE
    /\ health = [s \in Server |-> NewServerHealth]
    /\ query = [q \in Query |-> NoQuery]

-----------------------------------------------------------------------------
\* getSortedHealthyServers: those not skipped first, in the order of their
\* latencies (any order), and then the others as configured.
SortedHealthyServers ==
    {f \in [1 .. Len(Servers) -> Server] :
        \A i, j \in 1 .. Len(Servers) : i < j =>
            /\ f[i] # f[j]
            /\ Skip(f[i]) => Skip(f[j]) /\ Configured(f[i]) < Configured(f[j])}

\* rawQuery refuses when the network is down; otherwise the servers are sorted.
Begin(q) ==
    /\ query[q].step = "idle"
    /\ net
    /\ \A s \in Server : health[s].fails < MaxFails /\ health[s].succs < MaxSuccs
    /\ \E order \in SortedHealthyServers :
          query' = [query EXCEPT ![q] = [NoQuery EXCEPT !.step = "loop", !.todo = order,
                        !.usable = {s \in Server : ~Skip(s)}]]
    /\ UNCHANGED <<net, health>>

Looping(q) == query[q].step = "loop" /\ query[q].todo # <<>>

\* The next server's breaker is open.
SkipServer(q) ==
    /\ Looping(q)
    /\ Skip(Head(query[q].todo))
    /\ query' = [query EXCEPT ![q].todo = Tail(@)]
    /\ UNCHANGED <<net, health>>

\* The next server will be asked.
Ask(q) ==
    /\ Looping(q)
    /\ ~Skip(Head(query[q].todo))
    /\ query' = [query EXCEPT ![q].todo = Tail(@), ![q].at = Head(query[q].todo),
                              ![q].step = "exchange", ![q].asked = @ \cup {Head(query[q].todo)}]
    /\ UNCHANGED <<net, health>>

\* Exchange fails at once when the network is down by now.
Exchange(q) ==
    /\ query[q].step = "exchange"
    /\ query' = [query EXCEPT ![q].step = IF net THEN "wait" ELSE "record",
                              ![q].answer = IF net THEN "none" ELSE "offline"]
    /\ UNCHANGED <<net, health>>

\* The server answers, with records, without any, NXDOMAIN or another error
\* code; or it does not: the attempt times out or the connection fails.
Answers == {"records", "empty", "nxdomain", "rcode", "timeout", "error"}

Answer(q, a) ==
    /\ query[q].step = "wait"
    /\ query' = [query EXCEPT ![q].step = "record", ![q].answer = a]
    /\ UNCHANGED <<net, health>>

Definite == {"records", "nxdomain"}

\* RecordSuccess, RecordTimeout, RecordError; nothing while the network is down.
Marked(h, a) ==
    IF ~net THEN h
    ELSE IF a \in Definite THEN MarkSuccess(h)
    ELSE IF a = "timeout" THEN MarkTimeout(h) ELSE MarkFailure(h)

\* Query q goes on as next, and history takes note of breakers that have opened.
Move(q, next) ==
    query' = [r \in Query |->
        LET next_r == IF r = q THEN next ELSE query[r]
        IN  [next_r EXCEPT !.usable = {s \in @ : ~ShouldSkipTemporarily(health'[s])}]]

\* Mutated form of Record: an error code ends the query as NXDOMAIN does.
Record_StopsAtRcode(q) ==
    LET a == query[q].answer
        s == query[q].at
    IN  /\ query[q].step = "record"
        /\ health' = [health EXCEPT ![s] = Marked(@, a)]
        /\ Move(q, IF a \in Definite THEN NoQuery
                   ELSE [query[q] EXCEPT !.step = "loop", !.at = NoServer, !.answer = "none",
                                         !.todo = IF a = "rcode" THEN <<>> ELSE @])
        /\ UNCHANGED net

\* Mutated form of Record: after a timeout the same server is asked again.
Record_Retries(q) ==
    LET a == query[q].answer
        s == query[q].at
    IN  /\ query[q].step = "record"
        /\ health' = [health EXCEPT ![s] = Marked(@, a)]
        /\ Move(q, IF a \in Definite THEN NoQuery
                   ELSE IF a = "timeout" THEN [query[q] EXCEPT !.step = "exchange"]
                   ELSE [query[q] EXCEPT !.step = "loop", !.at = NoServer, !.answer = "none"])
        /\ UNCHANGED net

\* The outcome is recorded; records and NXDOMAIN end the query, anything else
\* moves on to the next server.
Record(q) ==
    LET a == query[q].answer
        s == query[q].at
    IN  /\ query[q].step = "record"
        /\ health' = [health EXCEPT ![s] = Marked(@, a)]
        /\ Move(q, IF a \in Definite THEN NoQuery
                   ELSE [query[q] EXCEPT !.step = "loop", !.at = NoServer, !.answer = "none"])
        /\ UNCHANGED net

\* No server is left: "all upstream servers failed", or the first error.
Exhausted(q) ==
    /\ query[q].step = "loop" /\ query[q].todo = <<>>
    /\ query' = [query EXCEPT ![q] = NoQuery]
    /\ UNCHANGED <<net, health>>

\* The context of the whole query is done: no further server is tried.
Cancelled(q) ==
    /\ Looping(q)
    /\ query' = [query EXCEPT ![q] = NoQuery]
    /\ UNCHANGED <<net, health>>

-----------------------------------------------------------------------------
\* The connectivity checker changes its mind.
NetChange ==
    /\ net' = ~net
    /\ UNCHANGED <<health, query>>

\* Ten seconds pass.
Tick ==
    /\ \E s \in Server : health[s].left > 0
    /\ health' = [s \in Server |-> Elapse(health[s])]
    /\ UNCHANGED <<net, query>>

Step(q) == SkipServer(q) \/ Ask(q) \/ Exchange(q) \/ (\E a \in Answers : Answer(q, a))
              \/ Record(q) \/ Exhausted(q)

Next == (\E q \in Query : Begin(q) \/ Step(q) \/ Cancelled(q)) \/ NetChange \/ Tick

Spec == Init /\ [][Next]_vars

\* A query's goroutine keeps running, every attempt has a timeout, and time passes.
Fairness == WF_vars(Tick) /\ \A q \in Query : WF_vars(Step(q))

FairSpec == Spec /\ Fairness

-----------------------------------------------------------------------------
(* Properties.                                                             *)

\* Every variable keeps the shape its Go declaration gives it.
TypeOK ==
    /\ net \in BOOLEAN
    /\ health \in [Server -> Health]
    /\ query \in [Query -> [step : {"idle", "loop", "exchange", "wait", "record"},
                            todo : Seq(Server), at : Server \cup {NoServer},
                            answer : Answers \cup {"none", "offline"},
                            asked : SUBSET Server, usable : SUBSET Server]]
    /\ \A q \in Query : query[q].step \in {"exchange", "wait", "record"} => query[q].at \in Server

\* However the results of concurrent queries interleave, every server's status
\* agrees with its counters.
BreakerConsistent ==
    \A s \in Server : Consistent(health[s])

\* A query gives up only after it has asked every server that could have been
\* asked all along.
NoServerLeftOut ==
    \A q \in Query :
        query[q].step = "loop" /\ query[q].todo = <<>> => query[q].usable \subseteq query[q].asked

\* Every query that begins is answered, fails or is cancelled.
QueryEnds == \A q \in Query : query[q].step # "idle" ~> query[q].step = "idle"

\* A server is skipped only for a time, even if it never succeeds.
SkipIsTemporary == \A s \in Server : Skip(s) ~> ~Skip(s)

-----------------------------------------------------------------------------
(* What comments of the code say of it, and TLC refutes.                   *)

\* "Exponential backoff: first 10s, second 20s, third 40s": a server that fails
\* again once its backoff is over is skipped again.
BacksOffAgain ==
    [][\A s \in Server :
          health[s].status = "unhealthy" /\ ~Skip(s) /\ health'[s].fails > health[s].fails
             => Skip(s)']_vars

\* "While the network is down the counts are frozen": an exchange that failed
\* because the network was down counts against no server.
OfflineNotCounted ==
    [][\A q \in Query : query[q].step = "record" /\ query[q].answer = "offline"
          /\ query'[q].step # "record" => health' = health]_vars
=============================================================================
