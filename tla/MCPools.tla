------------------------------- MODULE MCPools -------------------------------
(***************************************************************************)
(* The pools: the first state chooses a pool of connections, over UDP, TCP *)
(* or TLS, whose steps are those of TLSPool, or the pool of addresses with *)
(* the monitor that patrols it.                                            *)
(***************************************************************************)
EXTENDS ConnPool

VARIABLES subject, pool, ref, heat, age, fails, fresh, stable, up, loop, due, batch, pings,
    hour, halted, changes

addrVars == <<pool, ref, heat, age, fails, fresh, stable, up, loop, due, batch, pings,
              hour, halted, changes>>

TLS == INSTANCE TLSPool
Mon == INSTANCE IPMonitor WITH Addr <- {"a1", "a2"}, Cycle <- 1, MaxPings <- 2, Hour <- 2,
    Cooldown <- [w \in 0 .. 2 |-> 0], OkTicks <- 1, DeadTicks <- 1,
    NewFactor <- 2, StabilityThreshold <- 1, MaxAge <- 8, MaxFails <- 0, MaxChanges <- 2,
    stop <- halted

ASSUME InstanceAssumption == Mon!MonitorAssumption

MCInit ==
    /\ subject \in {"connections", "addresses"}
    /\ Init /\ Mon!Init
    /\ subject = "addresses" => network = "udp"

PoolNext == subject = "connections" /\ network # "tls" /\ Next /\ UNCHANGED <<subject, addrVars>>
TLSNext == subject = "connections" /\ network = "tls" /\ TLS!Next
           /\ UNCHANGED <<subject, network, addrVars>>
MonNext == subject = "addresses" /\ Mon!Next /\ UNCHANGED <<subject, vars>>

MCSpec ==
    /\ MCInit /\ [][PoolNext \/ TLSNext \/ MonNext]_<<subject, vars, addrVars>>
    /\ Fairness /\ WF_addrVars(subject = "addresses" /\ Mon!Run)

\* The monitor of the addresses leaves out none of them for good.
ComesRound == subject = "addresses" => Mon!ComesRound
=============================================================================
