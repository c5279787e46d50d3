------------------------------ MODULE ConnPool ------------------------------
(***************************************************************************)
(* The connection pool of one upstream server                              *)
(* (upstream/transport/connection_pool.go).  Requests take a connection    *)
(* from the channel idleConns, open one while activeCount allows it, or    *)
(* wait; the clean-up loop, the health check and the warm-up goroutine     *)
(* work on the same channel.  The channel is a set: no property depends on *)
(* its order.  A connection is exclusive to its request, so that writing   *)
(* the request is part of the step that obtains the connection.            *)
(***************************************************************************)
EXTENDS Integers, FiniteSets

CONSTANTS
    Req,                \* requests; a request is its own transaction id
    MaxCreated,         \* bound: connections that can ever be dialled
    MaxConnectionsLimit,\* capacity of idleConns and limit of growth (50)
    MinConnections,     \* 2 in the code
    InitialMax,         \* maxConnections the pool is created with
    Grow, Shrink,       \* steps of adjustPoolSize (5 and 2 in the code)
    CongestionPeriod,   \* congestions per extra adjustment (5 in the code)
    None

ASSUME PoolAssumption ==
    /\ IsFiniteSet(Req) /\ None \notin Req
    /\ {MaxCreated, MaxConnectionsLimit, MinConnections, InitialMax,
        Grow, Shrink, CongestionPeriod} \subseteq Nat \ {0}
    /\ None \notin 1 .. MaxCreated

Conn == 1 .. MaxCreated
Network == {"udp", "tcp", "tls"}
Warmer == {"start", "health"}   \* the delayed warm-up, the health check

VARIABLES
    network,        \* p.network; "tls" is the pool of DoT servers
    where,          \* Conn -> who has the connection
    dead,           \* connections the remote side has closed
    owed,           \* Conn -> requests whose reply can still arrive on it
    activeCount, maxConnections,
    congested,          \* totalCongested modulo its period
    adjusting,          \* an adjustPoolSizeNow goroutine is due
    pc, use, again, got,    \* per request: position, connection, retry, reply
    left, counting,     \* per warmer: connections to add, activeCount++ is due
    warmed,             \* the delayed warm-up has begun
    cleaning, held,     \* clean-up loop: entries to look at (-1 between two
                        \* ticks), the connection in hand
    stop                \* "open", "closing", "drained" or "closed"

reqVars == <<pc, use, again, got>>
warmVars == <<left, counting, warmed>>
cleanVars == <<cleaning, held>>
tuning == <<maxConnections, congested, adjusting>>
poolVars == <<where, dead, owed, activeCount, tuning>>
vars == <<network, poolVars, reqVars, warmVars, cleanVars, stop>>

At(w) == {c \in Conn : where[c] = w}
Idle == At("idle")
Room == Cardinality(Idle) < MaxConnectionsLimit
\* Dialled connections are numbered in the order of their creation.
Fresh(c) == where[c] = "new" /\ \A d \in Conn : d < c => where[d] # "new"

Init ==
    /\ network \in Network
    /\ where = [c \in Conn |-> "new"] /\ dead = {}
    /\ owed = [c \in Conn |-> {}]
    /\ activeCount = 0 /\ maxConnections = InitialMax
    /\ congested = 0 /\ adjusting = FALSE
    /\ pc = [r \in Req |-> "start"] /\ use = [r \in Req |-> None]
    /\ again = [r \in Req |-> FALSE] /\ got = [r \in Req |-> None]
    /\ left = [w \in Warmer |-> 0]
    /\ counting = [w \in Warmer |-> FALSE] /\ warmed = FALSE
    /\ cleaning = -1 /\ held = None /\ stop = "open"

Goto(r, l) == pc' = [pc EXCEPT ![r] = l]

\* r obtains c and writes its question on it.
Obtain(r, c) ==
    /\ Goto(r, "busy")
    /\ use' = [use EXCEPT ![r] = c]
    /\ where' = [where EXCEPT ![c] = "busy"]
    /\ owed' = [owed EXCEPT ![c] = @ \cup {r}]

\* What could still arrive on a closed socket is dropped.
Destroy(c) ==
    /\ where' = [where EXCEPT ![c] = "gone"]
    /\ owed' = [owed EXCEPT ![c] = {}]
    /\ dead' = dead \ {c}
    /\ activeCount' = activeCount - 1

\* Put back if the channel has room, closed otherwise.
PutBack(c, pending) ==
    IF Room
    THEN /\ where' = [where EXCEPT ![c] = "idle"]
         /\ owed' = [owed EXCEPT ![c] = pending]
         /\ UNCHANGED <<dead, activeCount>>
    ELSE Destroy(c)

(***************************************************************************)
(* Obtaining a connection.                                                 *)
(***************************************************************************)
TakeIdle(r, c) ==
    /\ pc[r] = "start" /\ where[c] = "idle"
    /\ ~(network = "tcp" /\ c \in dead)
    /\ Obtain(r, c)
    /\ UNCHANGED <<dead, activeCount, tuning, again, got, warmVars, cleanVars,
                   stop>>

\* isConnectionStale: closed by the remote side, unread data, or too old.
TakeStale(r, c) ==
    /\ pc[r] = "start" /\ where[c] = "idle" /\ network = "tcp"
    /\ Destroy(c)
    /\ UNCHANGED <<tuning, reqVars, warmVars, cleanVars, stop>>

\* The default case of the select; activeCount is looked at later.
FindEmpty(r) ==
    /\ pc[r] = "start" /\ Idle = {}
    /\ Goto(r, "empty")
    /\ UNCHANGED <<poolVars, use, again, got, warmVars, cleanVars, stop>>

Reserve(r) ==
    /\ pc[r] \in {"empty", "retry"} /\ activeCount < maxConnections
    /\ activeCount' = activeCount + 1
    /\ Goto(r, "dial")
    /\ UNCHANGED <<where, dead, owed, tuning, use, again, got, warmVars,
                   cleanVars, stop>>

Dial(r, c) ==
    /\ pc[r] = "dial" /\ Fresh(c)
    /\ Obtain(r, c)
    /\ UNCHANGED <<dead, activeCount, tuning, again, got, warmVars, cleanVars,
                   stop>>

DialFails_Leaks(r) ==
    /\ pc[r] = "dial"
    /\ Goto(r, "failed")
    /\ UNCHANGED <<poolVars, use, again, got, warmVars, cleanVars, stop>>

DialFails(r) ==
    /\ pc[r] = "dial"
    /\ activeCount' = activeCount - 1
    /\ Goto(r, "failed")
    /\ UNCHANGED <<where, dead, owed, tuning, use, again, got, warmVars,
                   cleanVars, stop>>

Queue(r) ==
    /\ pc[r] = "empty" /\ activeCount >= maxConnections
    /\ Goto(r, "wait")
    /\ UNCHANGED <<poolVars, use, again, got, warmVars, cleanVars, stop>>

\* A connection taken after waiting is not looked at for staleness.
TakeWaited(r, c) ==
    /\ pc[r] = "wait" /\ where[c] = "idle"
    /\ Obtain(r, c)
    /\ UNCHANGED <<dead, activeCount, tuning, again, got, warmVars, cleanVars,
                   stop>>

Saturated(m) == 10 * activeCount > 8 * m
Underused(m) == 10 * activeCount < 2 * m
Lesser(a, b) == IF a < b THEN a ELSE b

\* Both corrections use the utilisation of the old maximum.
Adjusted(m) ==
    LET up == IF Saturated(m) /\ m < MaxConnectionsLimit
              THEN Lesser(m + Grow, MaxConnectionsLimit) ELSE m
    IN  IF Underused(m) /\ up > MinConnections
        THEN IF up - Shrink > MinConnections THEN up - Shrink
                                             ELSE MinConnections
        ELSE up

\* At most one adjustment in ten seconds: it may do nothing.
adjustPoolSize == maxConnections' \in {maxConnections, Adjusted(maxConnections)}

\* Every CongestionPeriod-th congestion starts adjustPoolSizeNow.
recordCongestion ==
    /\ congested' = (congested + 1) % CongestionPeriod
    /\ adjusting' = (adjusting \/ congested' = 0)

\* Goroutines that start together do the work of one: the second finds the
\* adjustment less than ten seconds old.
adjustPoolSizeNow ==
    /\ adjusting
    /\ adjusting' = FALSE
    /\ IF maxConnections < MaxConnectionsLimit
       THEN adjustPoolSize ELSE UNCHANGED maxConnections
    /\ UNCHANGED <<where, dead, owed, activeCount, congested, reqVars,
                   warmVars, cleanVars, stop>>

WaitTimesOut(r) ==
    /\ pc[r] = "wait"
    /\ recordCongestion
    /\ Goto(r, "failed")
    /\ UNCHANGED <<where, dead, owed, activeCount, maxConnections, use, again,
                   got, warmVars, cleanVars, stop>>

WaitCancelled(r) ==
    /\ pc[r] = "wait"
    /\ Goto(r, "failed")
    /\ UNCHANGED <<poolVars, use, again, got, warmVars, cleanVars, stop>>

(***************************************************************************)
(* The exchange on the connection and what becomes of the connection.      *)
(***************************************************************************)
\* The id of a reply is compared with the id of the request, except on TLS.
Accepts(r, q) == q = r \/ network = "tls"

\* The next datagram or message on the connection of r answers q.  UDP may
\* deliver it a second time later.
Reply(r) ==
    LET c == use[r] IN
    /\ pc[r] = "busy"
    /\ \E q \in owed[c], twice \in BOOLEAN :
        /\ twice => network = "udp"
        /\ IF Accepts(r, q)
           THEN /\ got' = [got EXCEPT ![r] = q]
                /\ Goto(r, "done")
                /\ PutBack(c, IF twice THEN owed[c] ELSE owed[c] \ {q})
           ELSE /\ Goto(r, "failed") /\ Destroy(c)
                /\ UNCHANGED got
    /\ use' = [use EXCEPT ![r] = None]
    /\ UNCHANGED <<tuning, again, warmVars, cleanVars, stop>>

\* exchangeOnConnection wraps every error with %w; the type assertion and the
\* comparison of isTemporaryError see only the wrapper.
ErrorOf(kind) == [kind |-> kind, wrapped |-> TRUE]
isTemporaryError_Unwraps(e) == e.kind = "timeout"
isTemporaryError(e) == ~e.wrapped /\ e.kind = "timeout"

\* A timeout, or the end of a connection the remote side has closed.
ExchangeFails(r) ==
    LET c == use[r] IN
    /\ pc[r] = "busy"
    /\ \E kind \in {"timeout"} \cup IF c \in dead THEN {"broken"} ELSE {} :
        LET temporary == isTemporaryError(ErrorOf(kind)) IN
        /\ IF temporary /\ network # "udp" /\ ~again[r]
           THEN PutBack(c, owed[c]) ELSE Destroy(c)
        /\ IF kind = "broken" /\ network = "tcp" /\ ~again[r]
           THEN /\ Goto(r, "retry") /\ again' = [again EXCEPT ![r] = TRUE]
           ELSE /\ Goto(r, "failed") /\ UNCHANGED again
    /\ use' = [use EXCEPT ![r] = None]
    /\ UNCHANGED <<tuning, got, warmVars, cleanVars, stop>>

\* The pool is full: the retry is given up.
NoRetry(r) ==
    /\ pc[r] = "retry" /\ activeCount >= maxConnections
    /\ Goto(r, "failed")
    /\ UNCHANGED <<poolVars, use, again, got, warmVars, cleanVars, stop>>

\* External: the remote side closes a connection.
RemoteClose(c) ==
    /\ where[c] \in {"idle", "busy"} /\ network # "udp" /\ c \notin dead
    /\ dead' = dead \cup {c}
    /\ UNCHANGED <<where, owed, activeCount, tuning, reqVars, warmVars,
                   cleanVars, stop>>

(***************************************************************************)
(* Warm-up and health check.  Warmup puts a connection in the channel      *)
(* first and counts it afterwards, and never compares activeCount with     *)
(* maxConnections.  The warm-up goroutine is in no wait group.             *)
(***************************************************************************)
\* The goroutine that NewConnectionPool starts, after its delay.
StartWarmup ==
    /\ ~warmed
    /\ warmed' = TRUE
    /\ left' = [left EXCEPT !["start"] =
                   Lesser(InitialMax \div 2, maxConnections)]
    /\ UNCHANGED <<poolVars, reqVars, counting, cleanVars, stop>>

performHealthCheck ==
    /\ network # "tls" /\ stop = "open" /\ left["health"] = 0
    /\ Cardinality(Idle) < MinConnections
    /\ left' = [left EXCEPT !["health"] =
                   Lesser(MinConnections - Cardinality(Idle), maxConnections)]
    /\ UNCHANGED <<poolVars, reqVars, counting, warmed, cleanVars, stop>>

Warmup(w, c) ==
    /\ left[w] > 0 /\ ~counting[w] /\ Fresh(c)
    /\ where' = [where EXCEPT ![c] = IF Room THEN "idle" ELSE "gone"]
    /\ counting' = [counting EXCEPT ![w] = Room]
    /\ left' = IF Room THEN left ELSE [left EXCEPT ![w] = @ - 1]
    /\ UNCHANGED <<dead, owed, activeCount, tuning, reqVars, warmed, cleanVars,
                   stop>>

WarmupCounts(w) ==
    /\ counting[w]
    /\ activeCount' = activeCount + 1
    /\ counting' = [counting EXCEPT ![w] = FALSE]
    /\ left' = [left EXCEPT ![w] = @ - 1]
    /\ UNCHANGED <<where, dead, owed, tuning, reqVars, warmed, cleanVars,
                   stop>>

WarmupFails(w) ==
    /\ left[w] > 0 /\ ~counting[w]
    /\ left' = [left EXCEPT ![w] = @ - 1]
    /\ UNCHANGED <<poolVars, reqVars, counting, warmed, cleanVars, stop>>

(***************************************************************************)
(* The clean-up loop and Close.                                            *)
(***************************************************************************)
cleanupTick ==
    /\ stop = "open" /\ cleaning = -1
    /\ cleaning' = Cardinality(Idle)
    /\ UNCHANGED <<poolVars, reqVars, warmVars, held, stop>>

CleanTake(c) ==
    /\ cleaning > 0 /\ held = None /\ where[c] = "idle"
    /\ where' = [where EXCEPT ![c] = "held"]
    /\ held' = c
    /\ UNCHANGED <<dead, owed, activeCount, tuning, reqVars, warmVars,
                   cleaning, stop>>

\* Not expired: a blocking send.
CleanKeep ==
    /\ held # None /\ Room
    /\ where' = [where EXCEPT ![held] = "idle"]
    /\ cleaning' = cleaning - 1 /\ held' = None
    /\ UNCHANGED <<dead, owed, activeCount, tuning, reqVars, warmVars, stop>>

CleanDrop ==
    /\ held # None
    /\ Destroy(held)
    /\ cleaning' = cleaning - 1 /\ held' = None
    /\ UNCHANGED <<tuning, reqVars, warmVars, stop>>

\* A receive without the default case waits for an entry that never comes.
CleanEnd_Blocking ==
    /\ held = None /\ cleaning = 0
    /\ cleaning' = -1
    /\ adjustPoolSize
    /\ UNCHANGED <<where, dead, owed, activeCount, congested, adjusting,
                   reqVars, warmVars, held, stop>>

\* All entries are looked at or the channel has run empty: the tick ends.
CleanEnd ==
    /\ held = None /\ cleaning >= 0 /\ (cleaning = 0 \/ Idle = {})
    /\ cleaning' = -1
    /\ adjustPoolSize
    /\ UNCHANGED <<where, dead, owed, activeCount, congested, adjusting,
                   reqVars, warmVars, held, stop>>

Close ==
    /\ stop = "open"
    /\ stop' = "closing"
    /\ UNCHANGED <<poolVars, reqVars, warmVars, cleanVars>>

\* The clean-up loop sees stopChan between two ticks and empties the channel.
closeAll ==
    /\ stop = "closing" /\ cleaning = -1
    /\ where' = [c \in Conn |-> IF c \in Idle THEN "gone" ELSE where[c]]
    /\ owed' = [c \in Conn |-> IF c \in Idle THEN {} ELSE owed[c]]
    /\ dead' = dead \ Idle
    /\ activeCount' = activeCount - Cardinality(Idle)
    /\ stop' = "drained"
    /\ UNCHANGED <<tuning, reqVars, warmVars, cleanVars>>

\* wg.Wait: the health check has to return as well.
CloseReturns ==
    /\ stop = "drained" /\ left["health"] = 0
    /\ stop' = "closed"
    /\ UNCHANGED <<poolVars, reqVars, warmVars, cleanVars>>

(***************************************************************************)
(* The specification.                                                      *)
(***************************************************************************)
Exchange(r) ==
    \/ FindEmpty(r) \/ Reserve(r) \/ DialFails(r) \/ Queue(r)
    \/ WaitTimesOut(r) \/ WaitCancelled(r)
    \/ Reply(r) \/ ExchangeFails(r) \/ NoRetry(r)
    \/ \E c \in Conn : TakeIdle(r, c) \/ TakeStale(r, c) \/ Dial(r, c)
                          \/ TakeWaited(r, c)

WarmStep(w) ==
    WarmupCounts(w) \/ WarmupFails(w) \/ \E c \in Conn : Warmup(w, c)

CleanStep == CleanKeep \/ CleanDrop \/ CleanEnd \/ \E c \in Conn : CleanTake(c)

Next ==
    /\ UNCHANGED network
    /\ \/ \E r \in Req : Exchange(r)
       \/ \E w \in Warmer : WarmStep(w)
       \/ StartWarmup \/ performHealthCheck
       \/ \E c \in Conn : RemoteClose(c)
       \/ cleanupTick \/ CleanStep \/ adjustPoolSizeNow
       \/ Close \/ closeAll \/ CloseReturns

Spec == Init /\ [][Next]_vars

\* The two loops are scheduled, and a dial ends by its deadline.
Do(A) == A /\ UNCHANGED network
Fairness ==
    /\ WF_vars(Do(WarmStep("health")))
    /\ WF_vars(Do(CleanStep)) /\ WF_vars(Do(closeAll))
    /\ WF_vars(Do(CloseReturns))

(***************************************************************************)
(* Properties.                                                             *)
(***************************************************************************)
Open == {c \in Conn : where[c] \in {"idle", "busy", "held"}}
Dialling == {r \in Req : pc[r] = "dial"}
Uncounted == {w \in Warmer : counting[w]}

\* activeCount counts every open connection and every reservation once,
\* whichever of the ten paths out of Exchange a request takes; only a
\* connection that Warmup has put in the channel may still be uncounted.
Accounted ==
    activeCount + Cardinality(Uncounted)
        = Cardinality(Open) + Cardinality(Dialling)

\* A request never returns the reply to another request, although a reply can
\* arrive after its request has timed out and, on UDP, more than once.
OwnReply == \A r \in Req : got[r] \in {None, r}

\* Close returns, unless the clean-up loop is blocked: it took a connection
\* out of a full channel and somebody else filled the place.
Blocked == held # None /\ ~Room
CloseEnds == (stop = "closing") ~> (stop = "closed" \/ Blocked)

(***************************************************************************)
(* What the code does not do (see the README).                             *)
(***************************************************************************)
\* "The channel is full (should not happen)": a finished request finds room.
ChannelNeverFull == \A r \in Req : pc[r] = "busy" => Room

\* maxConnections bounds the open connections.
WithinMaximum == Cardinality(Open) <= MaxConnectionsLimit

\* Once Close has returned and no request runs, every connection is closed.
ClosedMeansClosed ==
    stop = "closed" /\ (\A r \in Req : pc[r] \in {"done", "failed"}) => Open = {}
=============================================================================
