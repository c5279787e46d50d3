------------------------------ MODULE TLSPool -------------------------------
(***************************************************************************)
(* The pool of a DoT server (upstream/transport/tls_connection_pool.go).   *)
(* It repeats the protocol of connection_pool.go; the differences are in   *)
(* ConnPool, where network = "tls": no look at staleness, no retry on a    *)
(* broken pipe, no health check, and no comparison of the reply's id.      *)
(***************************************************************************)
EXTENDS Integers, FiniteSets

CONSTANTS Req, MaxCreated, MaxConnectionsLimit, MinConnections, InitialMax,
          Grow, Shrink, CongestionPeriod, None

VARIABLES where, dead, owed, activeCount, maxConnections, congested,
          adjusting, pc, use, again, got, left, counting, warmed, cleaning,
          held, stop

Pool == INSTANCE ConnPool WITH network <- "tls"
Conn == 1 .. MaxCreated

NewTLSConnectionPool == Pool!StartWarmup

Acquire(r) ==
    \/ Pool!FindEmpty(r) \/ Pool!Reserve(r) \/ Pool!Queue(r)
    \/ Pool!WaitTimesOut(r) \/ Pool!WaitCancelled(r)
    \/ \E c \in Conn : Pool!TakeIdle(r, c) \/ Pool!TakeWaited(r, c)

createConnection(r) == Pool!DialFails(r) \/ \E c \in Conn : Pool!Dial(r, c)

exchangeOnConnection(r) == Pool!Reply(r) \/ Pool!ExchangeFails(r)

Exchange(r) == Acquire(r) \/ createConnection(r) \/ exchangeOnConnection(r)

adjustPoolSizeNow == Pool!adjustPoolSizeNow

cleanupLoop == Pool!cleanupTick \/ Pool!CleanEnd \/ Pool!closeAll

cleanupExpiried ==
    Pool!CleanKeep \/ Pool!CleanDrop \/ \E c \in Conn : Pool!CleanTake(c)

Warmup ==
    \/ Pool!WarmupCounts("start") \/ Pool!WarmupFails("start")
    \/ \E c \in Conn : Pool!Warmup("start", c)

Close == Pool!Close \/ Pool!CloseReturns

Next ==
    \/ \E r \in Req : Exchange(r)
    \/ NewTLSConnectionPool \/ Warmup \/ cleanupLoop \/ cleanupExpiried
    \/ adjustPoolSizeNow \/ Close
    \/ \E c \in Conn : Pool!RemoteClose(c)
=============================================================================
