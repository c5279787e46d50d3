-------------------------------- MODULE Pinger --------------------------------
(***************************************************************************)
(* Probing an address (ping/ping.go, ping_cache.go, ping_concurrent.go,    *)
(* ip_failure_weight.go): sorts read the RTT cache or probe, one probe is  *)
(* shared by those who want it at the same time, a stale entry is renewed  *)
(* behind the caller's back, the monitor probes on its own, and each of    *)
(* them adds to the record of failures that the order of addresses is      *)
(* weighed with.  The model is about one address.                          *)
(***************************************************************************)
EXTENDS Integers

CONSTANTS
    Caller,         \* concurrent calls of PingAndSort
    MaxFailures,    \* maxFailureCount
    ForgiveAfter,   \* successes in a row that take back one failure: 3
    None

PingerAssumption == {MaxFailures, ForgiveAfter} \subseteq Nat \ {0}

VARIABLES
    online,         \* what the connectivity checker says
    alive,          \* does the address answer
    rtt,            \* rttCache: [dead, phase] or None
    weight,         \* IPFailureRecord: [fails, fast, succ]
    revalidating,   \* staleRevalidating[ip]
    renew,          \* the goroutine behind it: its position, and the result
    call,           \* per caller: position in PingAndSort and the result
    flight,         \* probeFlight: the callers waiting for the probe
    patrol          \* a worker of the IP monitor at this address, and its result

pingVars == <<online, alive, rtt, weight, revalidating, renew, call, flight, patrol>>

Idle == [at |-> "idle", dead |-> FALSE, fast |-> FALSE]

Init ==
    /\ online = TRUE /\ alive \in BOOLEAN
    /\ rtt = None /\ weight = [fails |-> 0, fast |-> 0, succ |-> 0]
    /\ revalidating = FALSE /\ renew = Idle
    /\ call = [c \in Caller |-> Idle] /\ flight = {}
    /\ patrol = Idle

(***************************************************************************)
(* IPFailureWeightManager; the Pinger leaves it alone while offline.       *)
(***************************************************************************)
Capped(n) == IF n < MaxFailures THEN n + 1 ELSE n

RecordFailure(w) == [w EXCEPT !.fails = Capped(@), !.succ = 0]

RecordFastFail(w) == [w EXCEPT !.fails = Capped(@), !.fast = Capped(@), !.succ = 0]

RecordSuccess_KeepsFast(w) ==
    LET n == w.succ + 1
    IN  IF n >= ForgiveAfter /\ w.fails > 0
        THEN [w EXCEPT !.fails = @ - 1, !.succ = 0]
        ELSE [w EXCEPT !.succ = IF n > ForgiveAfter THEN ForgiveAfter ELSE n]

\* SuccessCount beyond ForgiveAfter makes no difference.
RecordSuccess(w) ==
    LET n == w.succ + 1
    IN  IF w.fast > 0 /\ n = 1 THEN [fails |-> 0, fast |-> 0, succ |-> 0]
        ELSE IF n >= ForgiveAfter /\ w.fails > 0
        THEN [w EXCEPT !.fails = @ - 1, !.succ = 0]
        ELSE [w EXCEPT !.succ = IF n > ForgiveAfter THEN ForgiveAfter ELSE n]

Recorded(w) == weight' = IF online THEN w ELSE weight

\* A fast failure has been recorded by pingIP already.
recordProbeResult(r) ==
    Recorded(IF r.fast THEN weight
             ELSE IF r.dead THEN RecordFailure(weight) ELSE RecordSuccess(weight))

\* pingIP: an address that does not answer the first packet is not asked
\* again, unless the reason is a missing permission.
Outcome == IF alive THEN {[at |-> "record", dead |-> FALSE, fast |-> FALSE]}
           ELSE {[at |-> "record", dead |-> TRUE, fast |-> f] : f \in BOOLEAN}

Probed(r) == Recorded(IF r.fast THEN RecordFastFail(weight) ELSE weight)

(***************************************************************************)
(* PingAndSort.                                                            *)
(***************************************************************************)
Phase(p) == rtt # None /\ rtt.phase = p

\* Whatever the entry says, it counts as a success.
CacheHit(c) ==
    /\ call[c].at = "idle" /\ online /\ (Phase("fresh") \/ Phase("stale"))
    /\ Recorded(RecordSuccess(weight))
    /\ IF Phase("stale") /\ ~revalidating     \* triggerStaleRevalidate
       THEN revalidating' = TRUE /\ renew' = [Idle EXCEPT !.at = "probe"]
       ELSE UNCHANGED <<revalidating, renew>>
    /\ UNCHANGED <<online, alive, rtt, call, flight, patrol>>

\* concurrentPing: probeFlight.Do.
CacheMiss(c) ==
    /\ call[c].at = "idle" /\ online /\ (rtt = None \/ Phase("expired"))
    /\ call' = [call EXCEPT ![c].at = "wait"]
    /\ flight' = flight \cup {c}
    /\ UNCHANGED <<online, alive, rtt, weight, revalidating, renew, patrol>>

FlightLands ==
    /\ flight # {}
    /\ \E r \in Outcome :
        /\ call' = [c \in Caller |-> IF c \in flight THEN r ELSE call[c]]
        /\ Probed(r)
    /\ flight' = {}
    /\ UNCHANGED <<online, alive, rtt, revalidating, renew, patrol>>

\* Each of those who shared the probe records it, and stores it.
Record(c) ==
    /\ call[c].at = "record"
    /\ recordProbeResult(call[c])
    /\ call' = [call EXCEPT ![c].at = "store"]
    /\ UNCHANGED <<online, alive, rtt, revalidating, renew, flight, patrol>>

Store(c) ==
    /\ call[c].at = "store"
    /\ rtt' = [dead |-> call[c].dead, phase |-> "fresh"]
    /\ call' = [call EXCEPT ![c] = Idle]
    /\ UNCHANGED <<online, alive, weight, revalidating, renew, flight, patrol>>

(***************************************************************************)
(* The goroutine of triggerStaleRevalidate.                                *)
(***************************************************************************)
RenewProbe ==
    /\ renew.at = "probe"
    /\ \E r \in Outcome : renew' = r /\ Probed(r)
    /\ UNCHANGED <<online, alive, rtt, revalidating, call, flight, patrol>>

RenewRecord ==
    /\ renew.at = "record"
    /\ recordProbeResult(renew)
    /\ renew' = [renew EXCEPT !.at = "store"]
    /\ UNCHANGED <<online, alive, rtt, revalidating, call, flight, patrol>>

RenewStore ==
    /\ renew.at = "store"
    /\ rtt' = [dead |-> renew.dead, phase |-> "fresh"]
    /\ renew' = Idle /\ revalidating' = FALSE
    /\ UNCHANGED <<online, alive, weight, call, flight, patrol>>

(***************************************************************************)
(* The IP monitor, and the world.                                          *)
(***************************************************************************)
\* The monitor probes by itself, when the entry is gone or about to expire.
PatrolProbe ==
    /\ patrol.at = "idle"
    /\ patrol' = [at |-> "store", dead |-> ~alive, fast |-> FALSE]
    /\ UNCHANGED <<online, alive, rtt, weight, revalidating, renew, call, flight>>

\* The result is dropped if the network is down by now.
UpdateIPCache ==
    /\ patrol.at = "store"
    /\ recordProbeResult(patrol)
    /\ rtt' = IF online THEN [dead |-> patrol.dead, phase |-> "fresh"] ELSE rtt
    /\ patrol' = Idle
    /\ UNCHANGED <<online, alive, revalidating, renew, call, flight>>

\* Time passes for the entry; the cleaner removes it.
Age ==
    /\ rtt # None
    /\ rtt' = CASE rtt.phase = "fresh" -> [rtt EXCEPT !.phase = "stale"]
                [] rtt.phase = "stale" -> [rtt EXCEPT !.phase = "expired"]
                [] OTHER -> None
    /\ UNCHANGED <<online, alive, weight, revalidating, renew, call, flight, patrol>>

NetworkChanges ==
    /\ \/ online' = ~online /\ UNCHANGED alive
       \/ alive' = ~alive /\ UNCHANGED online
    /\ UNCHANGED <<rtt, weight, revalidating, renew, call, flight, patrol>>

Renew == RenewProbe \/ RenewRecord \/ RenewStore
Call(c) == Record(c) \/ Store(c)

Next ==
    \/ \E c \in Caller : CacheHit(c) \/ CacheMiss(c) \/ Call(c)
    \/ FlightLands \/ Renew \/ PatrolProbe \/ UpdateIPCache \/ Age \/ NetworkChanges

Spec == Init /\ [][Next]_pingVars

FairSpec ==
    /\ Spec
    /\ \A c \in Caller : WF_pingVars(Call(c))
    /\ WF_pingVars(FlightLands) /\ WF_pingVars(Renew)
    /\ WF_pingVars(UpdateIPCache)

(***************************************************************************)
(* Properties.                                                             *)
(***************************************************************************)
\* A client asks for the address, or the monitor's turn has come to it.
Asked == PatrolProbe \/ \E c \in Caller : CacheHit(c) \/ CacheMiss(c)

\* An address that answers again and is asked again and again, by clients or by
\* the monitor, is forgiven in the end: no failure that was counted during the
\* outage, late or twice, stays (recordProbeResult and RecordSuccess).
Forgiven ==
    <>[](alive /\ online) /\ []<><<Asked>>_pingVars
        => <>[](weight.fails = 0 /\ weight.fast = 0)

(***************************************************************************)
(* What the code does not do (see the README).                             *)
(***************************************************************************)
\* An address is forgiven only after a probe it answered.
DeadStaysBlamed ==
    [][weight'.fails < weight.fails => ~(rtt # None /\ rtt.dead /\ rtt' = rtt)]_pingVars

\* Nothing that was measured during an outage gets into the RTT cache.
CacheIsNotPoisoned == [][~online /\ rtt' # rtt => rtt' = None \/ rtt'.phase # "fresh"]_pingVars
=============================================================================
