---------------------------- MODULE DurableStore -----------------------------
(***************************************************************************)
(* What saving the cache promises: the durable content changes in one step *)
(* from one save to the next, a save holds for every shard a content the   *)
(* shard has had since the start (or nothing, and for one shard a part of  *)
(* it, if a write failed), and a crash changes nothing that is durable.    *)
(***************************************************************************)
CONSTANTS Shard, Content(_), Empty(_)     \* per shard: functions on its keys

VARIABLES
    durable,    \* Shard -> content that the next start finds
    seen        \* Shard -> contents the running cache has had

Init ==
    /\ DOMAIN durable = Shard /\ \A s \in Shard : durable[s] \in Content(s)
    /\ seen = [s \in Shard |-> {Empty(s)}]

Change(s, c) ==
    /\ seen' = [seen EXCEPT ![s] = @ \cup {c}]
    /\ UNCHANGED durable

Parts(s, c) == {d \in Content(s) : \A k \in DOMAIN d : d[k] \in {c[k], Empty(s)[k]}}

Save ==
    /\ DOMAIN durable' = Shard
    /\ \E cut \in Shard : \A s \in Shard :
        \/ durable'[s] \in seen[s] \cup {Empty(s)}
        \/ s = cut /\ \E c \in seen[s] : durable'[s] \in Parts(s, c)
    /\ UNCHANGED seen

\* The cache of a new process is empty or what was durable.
Restart ==
    /\ \/ seen' = [s \in Shard |-> {Empty(s)}]
       \/ seen' = [s \in Shard |-> {durable[s]}]
    /\ UNCHANGED durable

Next == Save \/ Restart \/ \E s \in Shard : \E c \in Content(s) : Change(s, c)

Spec == Init /\ [][Next]_<<durable, seen>>
=============================================================================
