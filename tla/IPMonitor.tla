------------------------------ MODULE IPMonitor ------------------------------
(***************************************************************************)
(* The IP monitor and the pool of addresses it patrols (ping/ip_monitor.go, *)
(* ip_monitor_selector.go, ip_monitor_worker.go, ip_pool.go).  Every tick   *)
(* the addresses are ordered by a weight that grows with the time since     *)
(* they were last probed, and one window of that order is probed by a few   *)
(* workers: the first Cycle addresses, at rarer ticks the second and the    *)
(* third.  The pool changes meanwhile.  Time is counted in ticks of the     *)
(* first window (T0RefreshInterval); a round is over before the next tick,  *)
(* since 5 probes one after the other take less than 2 minutes.             *)
(***************************************************************************)
EXTENDS Integers, FiniteSets

CONSTANTS
    Addr,
    Cycle,                  \* MaxRefreshPerCycle
    MaxPings,               \* MaxPingsPerHour
    Hour,                   \* ticks in an hour
    Cooldown,               \* window -> ticks of life left with which a probe is spared
    OkTicks, DeadTicks,     \* life of a cached RTT: calculateDynamicTTL
    NewFactor,              \* time factor of an address that was never probed: 10
    StabilityThreshold,
    MaxAge, MaxFails,       \* bounds on age and fails
    MaxChanges              \* bound: steps of clients and changes of the network

Window == 0 .. 2            \* T0, T1, T2

MonitorAssumption ==
    /\ {Cycle, MaxPings, Hour, OkTicks, DeadTicks, StabilityThreshold} \subseteq Nat \ {0}
    /\ Cooldown \in [Window -> Nat]
    /\ {NewFactor, MaxAge, MaxFails, MaxChanges} \subseteq Nat

VARIABLES
    pool,           \* ipPool.ips
    ref, heat,      \* RefCount, AccessHeat
    age,            \* ticks since LastMonitorTime, -1 if it is zero
    fails,          \* FailureCount of the failure weights
    fresh,          \* ticks for which the RTT of an address stays fresh
    stable,         \* StableCount of its stability record, if there is one
    up,             \* IsNetworkOnline
    loop,           \* run: "first" round, "run", "ended"
    due,            \* windows whose ticker has fired
    batch,          \* refreshIPs: <<address, window>> still to be probed
    pings, hour,    \* hourlyPingCount; ticks since hourlyResetTime
    stop,           \* stopCh is closed
    changes         \* how often clients and network have acted, up to MaxChanges

poolVars == <<pool, ref, heat>>
loopVars == <<loop, due, batch, pings, hour>>
monVars == <<poolVars, age, fails, fresh, stable, up, loopVars, stop, changes>>

Init ==
    /\ pool = {} /\ ref = [a \in Addr |-> 0] /\ heat = [a \in Addr |-> 0]
    /\ age = [a \in Addr |-> -1] /\ fails = [a \in Addr |-> 0]
    /\ fresh = [a \in Addr |-> 0] /\ stable = [a \in Addr |-> 0]
    /\ up = TRUE /\ loop = "first" /\ due = Window
    /\ batch = {} /\ pings = 0 /\ hour = 0 /\ stop = FALSE
    /\ changes = 0

\* A client's query is handled, or the network goes or comes back.
Another == changes < MaxChanges /\ changes' = changes + 1

Smaller(m, n) == IF m < n THEN m ELSE n
Larger(m, n) == IF m > n THEN m ELSE n

(***************************************************************************)
(* The pool: IPPool, called when sorted entries are stored, evicted, read.  *)
(***************************************************************************)
\* What is dropped stays in the pool, and what is new has never been probed.
\* The old addresses are what the sorted cache held when it was read.
UpdateDomainIPs(old, new) ==
    /\ pool' = pool \cup new
    /\ ref' = [a \in Addr |-> IF a \in new \ pool THEN 1
                              ELSE IF a \in new \ old THEN ref[a] + 1
                              ELSE IF a \in old \ new THEN Larger(0, ref[a] - 1)
                              ELSE ref[a]]
    /\ UNCHANGED <<heat, age, fails, fresh, stable, up, loopVars, stop>>

\* Every hit of the sorted cache: nothing ever takes the heat back.
RecordAccess(a) ==
    /\ a \in pool
    /\ heat' = [heat EXCEPT ![a] = @ + 1]
    /\ UNCHANGED <<pool, ref, age, fails, fresh, stable, up, loopVars, stop>>

(***************************************************************************)
(* The order of the addresses.                                             *)
(***************************************************************************)
\* In halves: RefCount counts 1, an access 0.5, a failure takes off 0.5.  That
\* a failure counts less as days go by is left out.
calculateWeight(a) == Larger(0, 2 * ref[a] + heat[a] - fails[a])

\* The weight of an address whose RTT is stable is halved.
Stability(a) == IF stable[a] >= StabilityThreshold THEN 1 ELSE 2

Priority_NoTime(a) == calculateWeight(a) * Stability(a)

Priority(a) ==
    calculateWeight(a) * Stability(a) * (1 + (IF age[a] = -1 THEN NewFactor ELSE age[a]))

\* T is what the order holds from place m + 1 to place m + n, ties in any order.
Segment(T, m, n) ==
    \E U \in SUBSET (pool \ T) :
        /\ Cardinality(U) = m /\ Cardinality(T) = n
        /\ \A a \in U, b \in pool \ U : Priority(a) >= Priority(b)
        /\ \A a \in T, b \in pool \ (U \cup T) : Priority(a) >= Priority(b)

selectIPs(w) ==
    LET rest == Cardinality(pool) - w * Cycle
    IN  IF rest <= 0 THEN {{}}
        ELSE {T \in SUBSET pool : Segment(T, w * Cycle, Smaller(Cycle, rest))}

(***************************************************************************)
(* run and refreshIPs.                                                     *)
(***************************************************************************)
Tick ==
    /\ loop = "run" /\ due = {} /\ batch = {}
    /\ \E more \in SUBSET {1, 2} : due' = {0} \cup more
    /\ age' = [a \in Addr |-> IF age[a] = -1 THEN -1 ELSE Smaller(MaxAge, age[a] + 1)]
    /\ fresh' = [a \in Addr |-> Larger(0, fresh[a] - 1)]
    /\ hour' = Smaller(Hour, hour + 1)
    /\ UNCHANGED <<poolVars, fails, stable, up, loop, batch, pings, stop, changes>>

\* The first round takes the windows in order and does not look at the network.
Served(w) ==
    /\ due' = due \ {w}
    /\ loop' = IF due = {w} THEN "run" ELSE loop

Offline(w) ==
    /\ loop = "run" /\ batch = {} /\ w \in due /\ ~up
    /\ Served(w)
    /\ UNCHANGED <<poolVars, age, fails, fresh, stable, up, batch, pings, hour, stop, changes>>

\* checkHourlyQuota counts from zero when an hour is over.
NewHour == hour >= Hour
QuotaUsed == IF NewHour THEN 0 ELSE pings

\* The quota is looked at once, before the whole window.
refreshIPs(ips, w) ==
    IF ips = {} THEN UNCHANGED <<batch, pings, hour>>
    ELSE /\ pings' = QuotaUsed /\ hour' = IF NewHour THEN 0 ELSE hour
         /\ batch' = IF QuotaUsed >= MaxPings THEN {} ELSE ips \X {w}

refreshPool(w) ==
    /\ loop # "ended" /\ batch = {} /\ w \in due
    /\ IF loop = "first" THEN \A v \in due : w <= v ELSE up
    /\ Served(w)
    /\ \E ips \in selectIPs(w) : refreshIPs(ips, w)
    /\ UNCHANGED <<poolVars, age, fails, fresh, stable, up, stop, changes>>

Spared(a, w) ==
    /\ <<a, w>> \in batch /\ fresh[a] > Cooldown[w]
    /\ batch' = batch \ {<<a, w>>}
    /\ UNCHANGED <<poolVars, age, fails, fresh, stable, up, loop, due, pings, hour,
                   stop, changes>>

UpdateMonitorTime(a) == age' = IF a \in pool THEN [age EXCEPT ![a] = 0] ELSE age

\* UpdateIPCache stores nothing and blames nobody while the network is down; how
\* many successes take back a failure is in Pinger.
Probe(a, w, ok) ==
    /\ <<a, w>> \in batch /\ fresh[a] <= Cooldown[w]
    /\ IF ~up THEN UNCHANGED <<fresh, fails>>
       ELSE /\ fresh' = [fresh EXCEPT ![a] = IF ok THEN OkTicks ELSE DeadTicks]
            /\ \E n \in IF ok THEN {fails[a], Larger(0, fails[a] - 1)}
                        ELSE {Smaller(MaxFails, fails[a] + 1)} :
                  fails' = [fails EXCEPT ![a] = n]
    /\ \E n \in IF ok THEN {0, stable[a], Smaller(StabilityThreshold, stable[a] + 1)}
                ELSE IF up THEN {0} ELSE {stable[a]} :
          stable' = [stable EXCEPT ![a] = n]
    /\ UpdateMonitorTime(a)
    /\ pings' = pings + 1
    /\ batch' = batch \ {<<a, w>>}
    /\ UNCHANGED <<poolVars, up, loop, due, hour, stop, changes>>

\* Addresses nobody refers to go after a day without access.
CleanStaleIPs(gone) ==
    /\ \A a \in gone : ref[a] = 0
    /\ pool' = pool \ gone
    /\ heat' = [a \in Addr |-> IF a \in gone THEN 0 ELSE heat[a]]
    /\ age' = [a \in Addr |-> IF a \in gone THEN -1 ELSE age[a]]

\* Their stability records go too, unless they were probed in the last minutes.
cleanupStaleIPs ==
    /\ loop = "run" /\ batch = {} /\ up
    /\ \E gone \in SUBSET pool : CleanStaleIPs(gone)
    /\ \E kept \in SUBSET (Addr \ pool') :
          stable' = [a \in Addr |-> IF a \in pool' \cup kept THEN stable[a] ELSE 0]
    /\ UNCHANGED <<ref, fails, fresh, up, loopVars, stop, changes>>

RunEnds ==
    /\ stop /\ loop = "run" /\ batch = {}
    /\ loop' = "ended"
    /\ UNCHANGED <<poolVars, age, fails, fresh, stable, up, due, batch, pings, hour,
                   stop, changes>>

Stop ==
    /\ ~stop /\ stop' = TRUE
    /\ UNCHANGED <<poolVars, age, fails, fresh, stable, up, loopVars, changes>>

(***************************************************************************)
(* The others.                                                             *)
(***************************************************************************)
\* A sort probes the address when its RTT is not fresh.
ClientProbes(a) ==
    /\ up /\ fresh[a] = 0
    /\ \E n \in {OkTicks, DeadTicks} : fresh' = [fresh EXCEPT ![a] = n]
    /\ UNCHANGED <<poolVars, age, fails, stable, up, loopVars, stop>>

NetworkChanges ==
    /\ Another /\ up' = ~up
    /\ UNCHANGED <<poolVars, age, fails, fresh, stable, loopVars, stop>>

Run ==
    \/ Tick \/ \E w \in Window : Offline(w) \/ refreshPool(w)
    \/ \E a \in Addr, w \in Window : Spared(a, w) \/ \E ok \in BOOLEAN : Probe(a, w, ok)

\* What the handlers do while clients are at work.
ClientStep ==
    /\ Another
    /\ \/ \E old, new \in SUBSET Addr : UpdateDomainIPs(old, new)
       \/ \E a \in Addr : RecordAccess(a) \/ ClientProbes(a)

Next == Run \/ cleanupStaleIPs \/ RunEnds \/ Stop \/ ClientStep \/ NetworkChanges

Spec == Init /\ [][Next]_monVars

FairSpec == Spec /\ WF_monVars(Run)

(***************************************************************************)
(* Properties.                                                             *)
(***************************************************************************)
\* Once the clients are at rest, an address that has been probed and keeps a
\* weight is probed again and again while the network is up, although heavier
\* ones come first in every window, the quota may be used up when its turn
\* comes, and a probe that is spared leaves an address where it was
\* (selectSortedIPs and refreshIPs).  The first window alone sees to it: the
\* rarer ones need never tick.
ComesRound ==
    <>[][~ClientStep]_monVars =>
        \A a \in Addr :
            <>[](a \in pool /\ age[a] >= 0 /\ calculateWeight(a) > 0 /\ up /\ ~stop)
                => []<>(age[a] = 0)
=============================================================================
