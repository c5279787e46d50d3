-------------------------------- MODULE Checker -------------------------------
(***************************************************************************)
(* The connectivity checker (connectivity/checker.go), which tells breakers, *)
(* pinger, statistics and resolver whether there is a network.  A loop      *)
(* probes all addresses at once, one goroutine each, and takes the first    *)
(* success; the others are overtaken and end by themselves.  A goroutine    *)
(* lives for three ProbeTimeouts at most, less than the deadline of a probe *)
(* and than the interval between two, so no deadline passes here and        *)
(* two probes do not overlap.                                               *)
(***************************************************************************)
EXTENDS Integers, FiniteSets

CONSTANTS
    Addr,               \* config.ProbeIPs
    FailureThreshold

CheckerAssumption == FailureThreshold \in Nat \ {0} /\ IsFiniteSet(Addr) /\ Addr # {}

VARIABLES
    reachable,      \* addresses that would answer now
    healthy,        \* networkHealthy
    failures,       \* consecutiveFailures, counted up to the threshold
    stop,           \* Stop: "no", "waiting", "returned"; cancels c.ctx
    loop,           \* probeLoop: "probe", "record", "wait", "ended"
    verdict,        \* what probe returned
    prober,         \* per address: position of its goroutine
    results,        \* per address: what it put into resultCh, or "none"
    over,           \* this probe's context is cancelled by a success
    answered        \* history: an address answered in this probe

chkVars == <<reachable, healthy, failures, stop, loop, verdict, prober, results, over, answered>>

Init ==
    /\ reachable \in SUBSET Addr /\ healthy = TRUE /\ failures = 0 /\ stop = "no"
    /\ loop = "probe" /\ verdict = FALSE       \* the first probe begins at once
    /\ prober = [a \in Addr |-> "start"] /\ results = [a \in Addr |-> "none"]
    /\ over = FALSE /\ answered = FALSE

Done == over \/ stop # "no"

Goto(a, p) == prober' = [prober EXCEPT ![a] = p]

(***************************************************************************)
(* One goroutine of probe.                                                 *)
(***************************************************************************)
\* It looks at the context before each of the two protocols.
Look(a) ==
    /\ prober[a] \in {"start", "again"}
    /\ Goto(a, IF Done THEN "done" ELSE IF prober[a] = "start" THEN "icmp" ELSE "tcp")
    /\ UNCHANGED <<reachable, healthy, failures, stop, loop, verdict, results, over, answered>>

\* The echo may be lost or not permitted.
probeIP(a) ==
    /\ prober[a] = "icmp"
    /\ \/ a \in reachable /\ Goto(a, "success") /\ answered' = TRUE
       \/ Goto(a, "again") /\ UNCHANGED answered
    /\ UNCHANGED <<reachable, healthy, failures, stop, loop, verdict, results, over>>

\* An address that is reached takes the connection to port 443.
probeIPWithTCP(a) ==
    /\ prober[a] = "tcp"
    /\ Goto(a, IF a \in reachable THEN "success" ELSE "failure")
    /\ answered' = (answered \/ a \in reachable)
    /\ UNCHANGED <<reachable, healthy, failures, stop, loop, verdict, results, over>>

\* resultCh has room for all, so the send is always ready; once the context is
\* done the select may skip it.
Send(a) ==
    /\ prober[a] \in {"success", "failure"}
    /\ \/ results' = [results EXCEPT ![a] = prober[a]]
       \/ Done /\ UNCHANGED results
    /\ Goto(a, "done")
    /\ UNCHANGED <<reachable, healthy, failures, stop, loop, verdict, over, answered>>

Prober(a) == Look(a) \/ probeIP(a) \/ probeIPWithTCP(a) \/ Send(a)

(***************************************************************************)
(* The loop.                                                               *)
(***************************************************************************)
\* The results come in the order in which they were sent; only a success ends
\* the range over resultCh before all goroutines are done and it is closed.
Collect_First ==
    /\ loop = "probe"
    /\ \E a \in Addr : results[a] # "none" /\ verdict' = (results[a] = "success")
    /\ over' = TRUE /\ loop' = "record"
    /\ UNCHANGED <<reachable, healthy, failures, stop, prober, results, answered>>

Collect ==
    /\ loop = "probe"
    /\ \/ (\E a \in Addr : results[a] = "success") /\ verdict' = TRUE
       \/ /\ \A a \in Addr : prober[a] = "done" /\ results[a] # "success"
          /\ verdict' = FALSE
    /\ over' = TRUE /\ loop' = "record"
    /\ UNCHANGED <<reachable, healthy, failures, stop, prober, results, answered>>

performProbe_StaysDown ==
    /\ loop = "record"
    /\ failures' = IF verdict THEN 0
                   ELSE IF failures < FailureThreshold THEN failures + 1 ELSE failures
    /\ healthy' = (healthy /\ failures' < FailureThreshold)
    /\ loop' = "wait"
    /\ UNCHANGED <<reachable, stop, verdict, prober, results, over, answered>>

\* The end of performProbe, under c.mu: one success is enough to recover.
performProbe ==
    /\ loop = "record"
    /\ failures' = IF verdict THEN 0
                   ELSE IF failures < FailureThreshold THEN failures + 1 ELSE failures
    /\ healthy' = (verdict \/ (healthy /\ failures' < FailureThreshold))
    /\ loop' = "wait"
    /\ UNCHANGED <<reachable, stop, verdict, prober, results, over, answered>>

\* The ticker fires; a ticker and a cancelled context are chosen between freely.
Ticker ==
    /\ loop = "wait" /\ \A a \in Addr : prober[a] = "done"
    /\ loop' = "probe" /\ over' = FALSE /\ answered' = FALSE
    /\ prober' = [a \in Addr |-> "start"] /\ results' = [a \in Addr |-> "none"]
    /\ UNCHANGED <<reachable, healthy, failures, stop, verdict>>

LoopEnds ==
    /\ loop = "wait" /\ stop # "no"
    /\ loop' = "ended"
    /\ UNCHANGED <<reachable, healthy, failures, stop, verdict, prober, results, over, answered>>

Stop ==
    /\ stop = "no"
    /\ stop' = "waiting"
    /\ UNCHANGED <<reachable, healthy, failures, loop, verdict, prober, results, over, answered>>

StopReturns ==
    /\ stop = "waiting" /\ loop = "ended"
    /\ stop' = "returned"
    /\ UNCHANGED <<reachable, healthy, failures, loop, verdict, prober, results, over, answered>>

NetworkChanges ==
    /\ reachable' \in SUBSET Addr
    /\ UNCHANGED <<healthy, failures, stop, loop, verdict, prober, results, over, answered>>

Next ==
    \/ \E a \in Addr : Prober(a)
    \/ Collect \/ performProbe \/ Ticker \/ LoopEnds \/ Stop \/ StopReturns
    \/ NetworkChanges

Spec == Init /\ [][Next]_chkVars

\* Goroutines run, timers fire, and a select that has the end of the context to
\* choose again and again takes it.
FairSpec ==
    /\ Spec
    /\ \A a \in Addr : WF_chkVars(Prober(a))
    /\ WF_chkVars(Collect \/ performProbe) /\ WF_chkVars(Ticker)
    /\ SF_chkVars(LoopEnds) /\ WF_chkVars(StopReturns)

(***************************************************************************)
(* Properties.                                                             *)
(***************************************************************************)
\* A probe fails only when no address answered it by either protocol, however
\* its goroutines overtake each other, unless Stop cut it short; and
\* IsNetworkHealthy agrees with the failures counted.
OnlySilenceFails ==
    /\ loop = "record" /\ answered /\ stop = "no" => verdict
    /\ healthy <=> failures < FailureThreshold

\* An outage that lasts is noticed, a network that is back is noticed, and a
\* Stop that comes at any time returns.
NetworkIsNoticed ==
    /\ <>[](reachable = {} /\ stop = "no") => <>[]~healthy
    /\ \A a \in Addr : <>[](a \in reachable /\ stop = "no") => <>[]healthy
    /\ stop = "waiting" ~> stop = "returned"

(***************************************************************************)
(* What the code does not do (see the README).                             *)
(***************************************************************************)
\* A probe that Stop cut short says nothing about the network.
StopIsNoFailure == [][stop # "no" => failures' <= failures]_chkVars
=============================================================================
