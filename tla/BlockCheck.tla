------------------------------ MODULE BlockCheck ------------------------------
(***************************************************************************)
(* The ad filter on the way of a query (dnsserver/handler_adblock.go,      *)
(* cache/adblock_cache.go).  The verdict of the engine is cached for the   *)
(* name: blocked names for BlockedTTL, explicitly allowed ones for         *)
(* AllowedTTL.  Nothing empties the two caches when the rules change       *)
(* (RuleUpdate), when a source is switched off or the mode is changed.     *)
(***************************************************************************)
EXTENDS Integers

CONSTANTS
    Query,                      \* queries for the name
    Mode,                       \* block modes that can be configured
    BlockedTTL, AllowedTTL,     \* life of the cached verdicts
    MaxRecent,                  \* maxSize of the list of blocked names
    None

Rule == {"neutral", "blocked", "allowed"}

\* The modes that sendAdBlockResponse knows.
Answered == {"nxdomain", "default", "zero_ip", "refuse"}

BlockAssumption ==
    /\ BlockedTTL \in Nat /\ AllowedTTL \in Nat /\ MaxRecent \in Nat \ {0}
    /\ None \notin {"blocked", "explicit"}

VARIABLES
    rule, alias,        \* what the engine says of the name; is its alias blocked
    on, mode,           \* AdBlock.Enable and BlockMode
    blocked, allowed,   \* blockedCache: age; allowedCache: [age, explicit]; or None
    recent,             \* length of the list of recently blocked names
    at,                 \* per query: position in the handlers
    outcome,            \* how the last step let a query through, or None
    answered,           \* per query: a reply was written
    sinceBlocked, sinceAllowed  \* time since the rules last said so

cachedVars == <<blocked, allowed, recent>>
rulesVars == <<rule, alias, on, mode>>
blkVars == <<rulesVars, cachedVars, at, outcome, answered, sinceBlocked, sinceAllowed>>

Init ==
    /\ rule \in Rule /\ alias \in BOOLEAN /\ on \in BOOLEAN /\ mode \in Mode
    /\ blocked = None /\ allowed = None /\ recent = 0
    /\ at = [q \in Query |-> "new"] /\ outcome = None
    /\ answered = [q \in Query |-> FALSE]
    /\ sinceBlocked = (IF rule = "blocked" \/ alias THEN 0 ELSE BlockedTTL + 1)
    /\ sinceAllowed = (IF rule = "allowed" THEN 0 ELSE AllowedTTL + 1)

Goto(q, l, o) == at' = [at EXCEPT ![q] = l] /\ outcome' = o

GetBlocked_Forever == blocked # None

GetBlocked == blocked # None /\ blocked <= BlockedTTL

GetExplicitAllowed_Forever == allowed # None /\ allowed.explicit

GetExplicitAllowed == allowed # None /\ allowed.age <= AllowedTTL /\ allowed.explicit

\* RecordBlock and the list of recently blocked names.
Recorded == recent' = IF recent < MaxRecent THEN recent + 1 ELSE recent

sendAdBlockResponse(q) ==
    answered' = [answered EXCEPT ![q] = mode \in Answered]

(***************************************************************************)
(* handleAdBlockCheck: the caches are read, the engine is asked and the    *)
(* caches are written under three different locks.                         *)
(***************************************************************************)
BlockedHit(q) ==
    /\ at[q] = "new" /\ on /\ GetBlocked
    /\ Goto(q, "done", "blocked")
    /\ sendAdBlockResponse(q) /\ Recorded
    /\ UNCHANGED <<rulesVars, blocked, allowed, sinceBlocked, sinceAllowed>>

ExplicitHit(q) ==
    /\ at[q] = "new" /\ on /\ ~GetBlocked /\ GetExplicitAllowed
    /\ Goto(q, "resolve", "explicit")
    /\ UNCHANGED <<rulesVars, cachedVars, answered, sinceBlocked, sinceAllowed>>

FilterOff(q) ==
    /\ at[q] = "new" /\ ~on
    /\ Goto(q, "resolve", None)
    /\ UNCHANGED <<rulesVars, cachedVars, answered, sinceBlocked, sinceAllowed>>

CheckHost(q) ==
    /\ at[q] = "new" /\ on /\ ~GetBlocked /\ ~GetExplicitAllowed
    /\ Goto(q, IF rule = "blocked" THEN "block"
               ELSE IF rule = "allowed" THEN "allow" ELSE "neutral", None)
    /\ UNCHANGED <<rulesVars, cachedVars, answered, sinceBlocked, sinceAllowed>>

SetBlocked(q) ==
    /\ at[q] = "block"
    /\ blocked' = 0 /\ Recorded
    /\ sendAdBlockResponse(q)
    /\ Goto(q, "done", "blocked")
    /\ UNCHANGED <<rulesVars, allowed, sinceBlocked, sinceAllowed>>

SetAllowed(q) ==
    /\ at[q] \in {"allow", "neutral"}
    /\ allowed' = [age |-> 0, explicit |-> at[q] = "allow"]
    /\ Goto(q, "resolve", None)
    /\ UNCHANGED <<rulesVars, blocked, recent, answered, sinceBlocked, sinceAllowed>>

(***************************************************************************)
(* The answer, from a cache or, with its chain of aliases, from upstream.  *)
(***************************************************************************)
Resolved(q) ==
    /\ at[q] = "resolve"
    /\ \/ Goto(q, "done", None) /\ answered' = [answered EXCEPT ![q] = TRUE]
       \/ Goto(q, "chain", None) /\ UNCHANGED answered
    /\ UNCHANGED <<rulesVars, cachedVars, sinceBlocked, sinceAllowed>>

handleCNAMEChainValidation(q) ==
    /\ at[q] = "chain"
    /\ IF on /\ ~GetExplicitAllowed /\ alias
       THEN Goto(q, "block", None) /\ UNCHANGED answered
       ELSE Goto(q, "done", None) /\ answered' = [answered EXCEPT ![q] = TRUE]
    /\ UNCHANGED <<rulesVars, cachedVars, sinceBlocked, sinceAllowed>>

\* The client asks again.
Again(q) ==
    /\ at[q] = "done"
    /\ Goto(q, "new", None)
    /\ answered' = [answered EXCEPT ![q] = FALSE]
    /\ UNCHANGED <<rulesVars, cachedVars, sinceBlocked, sinceAllowed>>

(***************************************************************************)
(* The rules and the settings change, time passes, the caches are cleaned. *)
(***************************************************************************)
Reload ==
    /\ rule' \in Rule /\ alias' \in BOOLEAN
    /\ sinceBlocked' = IF rule' = "blocked" \/ alias' THEN 0 ELSE sinceBlocked
    /\ sinceAllowed' = IF rule' = "allowed" THEN 0 ELSE sinceAllowed
    /\ outcome' = None
    /\ UNCHANGED <<on, mode, cachedVars, at, answered>>

SetEnabled ==
    /\ \/ on' = ~on /\ UNCHANGED mode
       \/ mode' \in Mode /\ UNCHANGED on
    /\ outcome' = None
    /\ UNCHANGED <<rule, alias, cachedVars, at, answered, sinceBlocked, sinceAllowed>>

\* A verdict is noted as soon as it is there.
Tick ==
    /\ \A q \in Query : at[q] \notin {"block", "allow", "neutral"}
    /\ blocked' = IF blocked # None /\ blocked <= BlockedTTL THEN blocked + 1 ELSE blocked
    /\ allowed' = IF allowed # None /\ allowed.age <= AllowedTTL
                  THEN [allowed EXCEPT !.age = @ + 1] ELSE allowed
    /\ sinceBlocked' = IF rule = "blocked" \/ alias THEN 0
                       ELSE IF sinceBlocked > BlockedTTL THEN sinceBlocked
                       ELSE sinceBlocked + 1
    /\ sinceAllowed' = IF rule = "allowed" THEN 0
                       ELSE IF sinceAllowed > AllowedTTL THEN sinceAllowed
                       ELSE sinceAllowed + 1
    /\ outcome' = None
    /\ UNCHANGED <<rulesVars, recent, at, answered>>

cleanAdBlockCaches ==
    /\ blocked' = IF GetBlocked THEN blocked ELSE None
    /\ allowed' = IF allowed # None /\ allowed.age <= AllowedTTL THEN allowed ELSE None
    /\ outcome' = None
    /\ UNCHANGED <<rulesVars, recent, at, answered, sinceBlocked, sinceAllowed>>

Handle(q) ==
    \/ BlockedHit(q) \/ ExplicitHit(q) \/ FilterOff(q) \/ CheckHost(q)
    \/ SetBlocked(q) \/ SetAllowed(q) \/ Resolved(q) \/ handleCNAMEChainValidation(q)

Next ==
    \/ \E q \in Query : Handle(q) \/ Again(q)
    \/ Reload \/ SetEnabled \/ Tick \/ cleanAdBlockCaches

Spec == Init /\ [][Next]_blkVars

(***************************************************************************)
(* Properties.                                                             *)
(***************************************************************************)
\* However the rules are reloaded while queries are under way, a name is
\* blocked only if the rules blocked it, or its alias, within BlockedTTL, and
\* skips the filter only if the rules allowed it within AllowedTTL.
VerdictsAreRecent ==
    /\ outcome = "blocked" => sinceBlocked <= BlockedTTL
    /\ outcome = "explicit" => sinceAllowed <= AllowedTTL

(***************************************************************************)
(* What the code does not do (see the README).                             *)
(***************************************************************************)
\* Every query is answered, in each mode that can be configured.
EveryQueryIsAnswered == \A q \in Query : at[q] = "done" => answered[q]

\* The filter follows the rules at once.
BlocksAtOnce == outcome = "blocked" => rule = "blocked" \/ alias
=============================================================================
