----------------------------- MODULE ServeQuery ------------------------------
(***************************************************************************)
(* How a query is served (dnsserver/handler_*.go): filter rules, local     *)
(* rules, the four caches, the upstream servers, and the goroutines a      *)
(* reply leaves behind, the sort of the addresses and the refresh.  The    *)
(* model is about one name and one record type; clients ask for it         *)
(* concurrently.  Time is the age of the cached entries.                   *)
(***************************************************************************)
EXTENDS Integers

CONSTANTS
    Query,              \* queries under way
    Env,                \* configurations: see the field names in Init
    MinTTL, MaxTTL,     \* local limits of the TTL
    UserReturnTTL, FastResponseTTL,
    Grace,              \* AncientLimitLowPressure
    RttTTL,             \* Ping.RttCacheTtlSeconds
    NegativeTTL,        \* ErrorCacheTTL and NegativeTTLSeconds
    DefaultTTL,         \* of an answer without a TTL above 0
    MsgTTL,             \* DNSSECMsgCacheTTLSeconds; 0 is no limit
    None

ServeAssumption ==
    /\ \A e \in Env : e.ttls \subseteq Nat /\ e.clients \subseteq Query
    /\ {MinTTL, MaxTTL, UserReturnTTL, FastResponseTTL, DefaultTTL} \subseteq Nat \ {0}
    /\ {Grace, RttTTL, NegativeTTL, MsgTTL} \subseteq Nat
    /\ MinTTL <= MaxTTL

VARIABLES
    env,            \* configuration of this behaviour
    raw,            \* rawCache: [age, ttl, ips] or None
    sorted,         \* sortedCache: [age, ttl, ips, rtts] or None
    sorting,        \* SortingState: "none", "full" or "empty" (of addresses), "finished"
    negative,       \* errorCache: [age] or None
    message,        \* msgCache: [age, ttl, sent, own] or None; sent is the TTL of
                    \* its records
    refresh,        \* a RefreshTask of the name is queued
    at,             \* per query: position in handleQuery
    result,         \* per query: what the upstream returned
    reply,          \* the reply written by the last step, or None
    replies,        \* per query: replies written
    life,           \* how long the longest-lived answer stored is valid still
    sent,           \* the same of the answers passed on, by the upstream's TTL
    serving         \* the process has not crashed

cacheVars == <<raw, sorted, sorting, negative, message, refresh>>
srvVars == <<env, life, sent, serving, cacheVars, at, result, reply, replies>>

Larger(a, b) == IF a > b THEN a ELSE b
Smaller(a, b) == IF a < b THEN a ELSE b

Init ==
    /\ env \in Env      \* qtype, ipv6, dnssec, keepExpired, filter, local,
                        \* ping; known: the block mode is one that the
                        \* handlers know; clients: the queries that are made;
                        \* ttls: the TTLs that the upstream servers send
    /\ raw = None /\ sorted = None /\ sorting = "none" /\ negative = None
    /\ message = None /\ refresh = FALSE
    /\ at = [q \in Query |-> "new"] /\ result = [q \in Query |-> None]
    /\ reply = None /\ life = 0 /\ sent = 0 /\ serving = TRUE
    /\ replies = [q \in Query |-> 0]

(***************************************************************************)
(* Ages and TTLs.                                                          *)
(***************************************************************************)
calculateEffectiveTTL(t) == Smaller(Larger(t, MinTTL), MaxTTL)

\* The TTL of a result; 0 counts as not set.
extractTTL(t) == IF t = 0 THEN DefaultTTL ELSE t

\* How long a message is kept.  Its OPT record counts with its flags, which are
\* 0 without DO.
MessageTTLs(t) == {0, IF MsgTTL > 0 THEN Smaller(t, MsgTTL) ELSE t}

IsExpired(e) == e.age > e.ttl

\* IsExpired and GetState disagree at age = ttl.
GetStateWithConfig(e, keep) ==
    IF ~keep THEN IF IsExpired(e) THEN "EXPIRED" ELSE "FRESH"
    ELSE IF e.age < e.ttl THEN "FRESH"
    ELSE IF e.age < e.ttl + Grace THEN "STALE" ELSE "EXPIRED"

\* The TTL shown counts down in cycles of UserReturnTTL.
calculateUserTTL(ttl, age, stale) ==
    LET remaining == Larger(0, ttl - age)
        full == IF remaining > 0
                THEN Smaller(remaining, UserReturnTTL - (age % UserReturnTTL))
                ELSE FastResponseTTL
    IN  Larger(1, IF stale THEN Smaller(full, FastResponseTTL) ELSE full)

calculateRemainingTTL(e) == Larger(0, e.ttl - e.age)

Goto(q, l) == at' = [at EXCEPT ![q] = l]

\* w.WriteMsg and the end of the handler.
Answer(q, kind, ttl, ips) ==
    /\ Goto(q, "done")
    /\ reply' = [kind |-> kind, ttl |-> ttl, ips |-> ips]
    /\ replies' = [replies EXCEPT ![q] = @ + 1]
    /\ result' = [result EXCEPT ![q] = None]

Silent == reply' = None /\ UNCHANGED replies

\* go sortIPsAsync: a SortingState in the map, finished or not, stops it.
StartSort(ips) ==
    sorting' = IF sorting = "none" THEN IF ips THEN "full" ELSE "empty" ELSE sorting

(***************************************************************************)
(* Filter and local rules.                                                 *)
(***************************************************************************)
\* A mode that it does not know gets no reply, and the query ends there.
sendAdBlockResponse(q) ==
    IF env.known THEN Answer(q, "blocked", NegativeTTL, FALSE)
    ELSE Goto(q, "dropped") /\ Silent /\ result' = [result EXCEPT ![q] = None]

\* The verdict of the filter is the subject of BlockCheck.
handleAdBlockCheck(q) ==
    /\ at[q] = "new"
    /\ \/ env.filter /\ sendAdBlockResponse(q)
       \/ Goto(q, "local") /\ Silent /\ UNCHANGED result
    /\ UNCHANGED <<env, life, sent, cacheVars>>

\* Custom responses, single labels, reverse names, names of private networks.
handleLocalRules(q) ==
    /\ at[q] = "local" /\ env.local
    /\ Answer(q, "local", 1, FALSE)
    /\ UNCHANGED <<env, life, sent, cacheVars>>

NotLocal(q) ==
    /\ at[q] = "local" /\ ~env.local
    /\ Goto(q, IF env.qtype = "other" \/ ~env.dnssec THEN "negative" ELSE "message")
    /\ Silent /\ UNCHANGED <<env, life, sent, cacheVars, result>>

(***************************************************************************)
(* The caches.                                                             *)
(***************************************************************************)
\* The cached message is sent as it was received, with its records' own TTLs
\* less its age, down to 1 (adjustTTL; a TTL of 0 stays); its question is the one of
\* the query that brought it, which may have been for another name.
GetDNSSECMsg(q) ==
    /\ at[q] = "message"
    /\ message # None /\ ~IsExpired(message)
    /\ Answer(q, IF message.own THEN "passed" ELSE "other",
              IF message.sent = 0 THEN 0 ELSE Larger(1, message.sent - message.age), TRUE)
    /\ UNCHANGED <<env, life, sent, cacheVars>>

\* Not a DO query, or no message; an expired one is deleted.
NoMessage(q) ==
    /\ at[q] = "message"
    /\ Goto(q, "negative")
    /\ message' \in IF message # None /\ IsExpired(message)
                    THEN {message, None} ELSE {message}
    /\ Silent /\ UNCHANGED <<env, life, sent, raw, sorted, sorting,
                             negative, refresh, result>>

handleErrorCacheHit_FallsThrough(q) ==
    /\ at[q] = "negative" /\ negative # None /\ negative.age <= NegativeTTL
    /\ reply' = [kind |-> "negative",
                 ttl |-> Larger(1, NegativeTTL - negative.age), ips |-> FALSE]
    /\ replies' = [replies EXCEPT ![q] = @ + 1]
    /\ Goto(q, "sorted")
    /\ UNCHANGED <<env, life, sent, cacheVars, result>>

handleErrorCacheHit(q) ==
    /\ at[q] = "negative" /\ negative # None /\ negative.age <= NegativeTTL
    /\ Answer(q, "negative", Larger(1, NegativeTTL - negative.age), FALSE)
    /\ UNCHANGED <<env, life, sent, cacheVars>>

NoError(q) ==
    /\ at[q] = "negative" /\ ~(negative # None /\ negative.age <= NegativeTTL)
    /\ Goto(q, IF env.qtype = "other" THEN "raw" ELSE "sorted")
    /\ Silent /\ UNCHANGED <<env, life, sent, cacheVars, result>>

\* No address has a round-trip time below LogicDeadRTT; an entry that was
\* stored without measuring has none at all.
DeadPool(e) == e.rtts # "alive"

handleSortedCacheHit(q) ==
    LET dead == DeadPool(sorted)
        rttStale == sorted.age >= RttTTL
        expired == dead \/ raw = None \/ IsExpired(raw)
        ttl == IF dead THEN 1 ELSE IF expired THEN FastResponseTTL
               ELSE calculateUserTTL(sorted.ttl, sorted.age, rttStale)
    IN  /\ at[q] = "sorted" /\ sorted # None /\ ~IsExpired(sorted)
        /\ refresh' \in IF (dead \/ rttStale) /\ expired
                        THEN {refresh, TRUE} ELSE {refresh}
        /\ IF rttStale /\ ~expired THEN StartSort(raw.ips) ELSE UNCHANGED sorting
        /\ Answer(q, "positive", ttl, sorted.ips)
        /\ UNCHANGED <<env, life, sent, raw, sorted, negative, message>>

NotSorted(q) ==
    /\ at[q] = "sorted" /\ ~(sorted # None /\ ~IsExpired(sorted))
    /\ Goto(q, "raw")
    /\ Silent /\ UNCHANGED <<env, life, sent, cacheVars, result>>

\* keepExpired also holds while memory is plentiful.
KeepsExpired == IF env.keepExpired THEN {TRUE} ELSE BOOLEAN

\* A and AAAA take the order of a sorted entry, expired or not.
handleRawCacheHit(q) ==
    /\ at[q] = "raw" /\ raw # None
    /\ \E keep \in KeepsExpired :
        LET state == GetStateWithConfig(raw, keep)
            ips == IF sorted # None /\ env.qtype # "other" THEN sorted.ips
                                                           ELSE raw.ips
        IN  /\ state # "EXPIRED"
            /\ Answer(q, "positive",
                      IF state = "FRESH" THEN calculateUserTTL(raw.ttl, raw.age, FALSE)
                                         ELSE FastResponseTTL, ips)
            /\ refresh' \in IF state = "STALE" THEN {refresh, TRUE} ELSE {refresh}
            /\ IF state = "FRESH" /\ env.qtype # "other"
               THEN StartSort(raw.ips) ELSE UNCHANGED sorting
    /\ UNCHANGED <<env, life, sent, raw, sorted, negative, message>>

Missed(q) ==
    /\ at[q] = "raw"
    /\ raw # None => \E keep \in KeepsExpired : GetStateWithConfig(raw, keep) = "EXPIRED"
    /\ IF env.qtype = "AAAA" /\ ~env.ipv6
       THEN Answer(q, "empty", 1, FALSE)
       ELSE Goto(q, "upstream") /\ Silent /\ UNCHANGED <<result>>
    /\ UNCHANGED <<env, life, sent, cacheVars>>

(***************************************************************************)
(* The upstream's answer.                                                  *)
(***************************************************************************)
SetError(q) ==
    /\ negative' = [age |-> 0]
    /\ Answer(q, "negative", NegativeTTL, FALSE)

\* An error, by its text (parseRcodeFromError) or a reply with that code.
QueryFails(q) ==
    /\ at[q] = "upstream"
    /\ \/ Answer(q, "SERVFAIL", NegativeTTL, FALSE) /\ UNCHANGED negative
       \/ SetError(q)
    /\ UNCHANGED <<env, life, sent, raw, sorted, sorting, message,
                   refresh>>

\* Addresses or records, an alias, both or nothing.
QueryReturns(q) ==
    /\ at[q] = "upstream"
    /\ \E t \in env.ttls, ips \in BOOLEAN, chain \in BOOLEAN :
        /\ result' = [result EXCEPT ![q] =
               [ttl |-> extractTTL(t), sent |-> t, records |-> ips, ips |-> ips,
                chain |-> chain]]
        /\ Goto(q, IF chain /\ ~ips /\ env.qtype # "other" THEN "alias" ELSE "check")
    /\ Silent /\ UNCHANGED <<env, life, sent, cacheVars>>

\* resolveCNAME follows the alias with queries of its own, at most ten.
resolveCNAME(q) ==
    /\ at[q] = "alias"
    /\ \/ /\ Answer(q, "SERVFAIL", NegativeTTL, FALSE)
       \/ /\ \E found \in BOOLEAN, t \in env.ttls :
                result' = [result EXCEPT ![q].ips = found,
                                         ![q].ttl = extractTTL(t)]
          /\ Goto(q, "check")
          /\ Silent
    /\ UNCHANGED <<env, life, sent, cacheVars>>

handleCNAMEChainValidation(q) ==
    /\ at[q] = "check" /\ env.filter /\ result[q].chain /\ env.qtype # "other"
    /\ sendAdBlockResponse(q)
    /\ UNCHANGED <<env, life, sent, cacheVars>>

NoData(q) ==
    /\ at[q] = "check" /\ env.qtype # "other"
    /\ ~result[q].ips /\ ~result[q].chain
    /\ SetError(q)
    /\ UNCHANGED <<env, life, sent, raw, sorted, sorting, message,
                   refresh>>

\* The cached addresses are those of the first answer, not of its alias.
SetRawRecords(r) ==
    LET ttl == calculateEffectiveTTL(r.ttl)
    IN  /\ raw' = [age |-> 0, ttl |-> ttl, ips |-> r.records]
        /\ life' = Larger(life, ttl)

\* SetDNSSECMsg, under the name asked for or another of its chain.
SetDNSSECMsg(t, mine) ==
    /\ message' \in {[age |-> 0, ttl |-> ttl, sent |-> t, own |-> mine] : ttl \in MessageTTLs(t)}
    /\ sent' = Larger(sent, t)

\* A DO query with DNSSEC also stores the message, under every name of the
\* chain.
handleCacheMiss(q) ==
    LET r == result[q] IN
    /\ at[q] = "check" /\ env.qtype # "other"
    /\ r.ips \/ r.chain
    /\ SetRawRecords(r)
    /\ IF r.ips THEN StartSort(TRUE) ELSE UNCHANGED sorting
    /\ \/ UNCHANGED <<message, sent>>
       \/ env.dnssec /\ SetDNSSECMsg(r.sent, TRUE)
    /\ Answer(q, "positive", FastResponseTTL, r.ips)
    /\ UNCHANGED <<env, sorted, negative, refresh>>

\* Other types: no look at the chain and none for NODATA; the reply has the
\* TTL of the result, whatever the local limits.
handleGenericCacheMiss(q) ==
    LET r == result[q] IN
    /\ at[q] = "check" /\ env.qtype = "other"
    /\ SetRawRecords(r)
    /\ sent' = Larger(sent, r.ttl)
    /\ Answer(q, IF r.ips \/ r.chain THEN "passed" ELSE "empty", r.ttl, r.ips)
    /\ UNCHANGED <<env, sorted, sorting, negative, message, refresh>>

(***************************************************************************)
(* What replies leave behind, other clients, and time.                     *)
(***************************************************************************)
\* The refresh worker.  It does not look at the filter.
refreshCacheAsync ==
    /\ refresh
    /\ refresh' = FALSE
    /\ \/ UNCHANGED <<raw, life, sorting>>  \* offline, failed or no address
       \/ /\ \E t \in env.ttls, direct \in BOOLEAN :
                SetRawRecords([ttl |-> extractTTL(t), records |-> direct])
          /\ StartSort(TRUE)
    /\ Silent /\ UNCHANGED <<env, sent, sorted, negative, message, at,
                             result>>

handleSortComplete_FullTTL ==
    /\ sorting \in {"full", "empty"}
    /\ sorting' = "finished"
    /\ \/ UNCHANGED sorted
       \/ \E rtts \in IF env.ping THEN {"alive", "dead"} ELSE {"none"} :
            sorted' = [age |-> 0, ips |-> sorting = "full", rtts |-> rtts,
                       ttl |-> IF raw # None THEN raw.ttl ELSE MinTTL]
    /\ Silent /\ UNCHANGED <<env, life, sent, raw, negative, message,
                             refresh, at, result>>

\* The life of the sorted entry is what is left of the raw entry's.
handleSortComplete ==
    /\ sorting \in {"full", "empty"}
    /\ sorting' = "finished"
    /\ \/ UNCHANGED sorted
       \/ \E rtts \in IF env.ping THEN {"alive", "dead"} ELSE {"none"} :
            sorted' = [age |-> 0, ips |-> sorting = "full", rtts |-> rtts,
                       ttl |-> IF raw # None THEN calculateRemainingTTL(raw)
                                             ELSE MinTTL]
    /\ Silent /\ UNCHANGED <<env, life, sent, raw, negative, message,
                             refresh, at, result>>

\* A query for another name whose chain runs through this one.
OtherChain ==
    /\ env.dnssec /\ env.qtype # "other"
    /\ \E t \in env.ttls : SetDNSSECMsg(t, FALSE)
    /\ Silent /\ UNCHANGED <<env, life, raw, sorted, sorting,
                             negative, refresh, at, result>>

\* LRU eviction or CleanExpired.
Evict ==
    /\ \/ raw' = None /\ UNCHANGED <<sorted, sorting>>
       \/ sorted' = None /\ UNCHANGED <<raw, sorting>>
       \/ sorting = "finished" /\ sorting' = "none" /\ UNCHANGED <<raw, sorted>>
    /\ Silent /\ UNCHANGED <<env, life, sent, negative, message, refresh,
                             at, result>>

\* Ages stop where nothing depends on them any more.
Older(e, cap) == IF e # None /\ e.age < cap THEN [e EXCEPT !.age = @ + 1] ELSE e

Tick ==
    /\ raw' = Older(raw, raw.ttl + Grace + 1)
    /\ sorted' = Older(sorted, sorted.ttl + 1)
    /\ negative' = Older(negative, NegativeTTL + 1)
    /\ message' = Older(message, message.ttl + 1)
    /\ life' = Larger(0, life - 1)
    /\ sent' = Larger(0, sent - 1)
    /\ Silent /\ UNCHANGED <<env, sorting, refresh, at,
                             result>>

\* The client asks again.
Again(q) ==
    /\ at[q] \in {"done", "dropped"}
    /\ Goto(q, "new")
    /\ reply' = None
    /\ replies' = [replies EXCEPT ![q] = 0]
    /\ UNCHANGED <<env, life, sent, cacheVars, result>>

handleQuery(q) ==
    \/ handleAdBlockCheck(q) \/ handleLocalRules(q) \/ NotLocal(q)
    \/ GetDNSSECMsg(q) \/ NoMessage(q) \/ handleErrorCacheHit(q) \/ NoError(q)
    \/ handleSortedCacheHit(q) \/ NotSorted(q) \/ handleRawCacheHit(q) \/ Missed(q)
    \/ QueryFails(q) \/ QueryReturns(q) \/ resolveCNAME(q)
    \/ handleCNAMEChainValidation(q) \/ NoData(q) \/ handleCacheMiss(q)
    \/ handleGenericCacheMiss(q)

\* The upstream's result is nil without an error: whoever asked, a handler, the
\* resolution of an alias or the refresh, uses it and panics; nothing recovers,
\* and the process ends with every query that it has.
NilResult ==
    /\ refresh \/ \E q \in env.clients : at[q] \in {"upstream", "alias"}
    /\ serving' = FALSE
    /\ Silent /\ UNCHANGED <<env, life, sent, cacheVars, at, result>>

Next ==
    /\ serving
    /\ \/ NilResult
       \/ /\ \/ \E q \in env.clients : handleQuery(q) \/ Again(q)
             \/ refreshCacheAsync \/ handleSortComplete
             \/ OtherChain \/ Evict \/ Tick
          /\ UNCHANGED serving

Spec == Init /\ [][Next]_srvVars

(***************************************************************************)
(* Properties.                                                             *)
(***************************************************************************)
\* No path through the handlers writes two replies, and none ends without one
\* but that of a blocked name in a mode that the handlers do not know.
AnsweredOnce ==
    \A q \in Query :
        /\ replies[q] = IF at[q] = "done" THEN 1 ELSE 0
        /\ at[q] = "dropped" => env.filter /\ ~env.known

\* No reply promises more than the server has.  What is given from the sorted or
\* the raw cache has a TTL of at least 1, and one above FastResponseTTL ends
\* before the longest-lived answer that was stored does, whatever the sort, the
\* refresh and the eviction did in between.  What is passed on, messages and
\* fresh answers of other types, ends before the upstream's own answers do.
TTLsAreHonest ==
    reply # None =>
        /\ reply.kind = "positive" =>
              reply.ttl >= 1 /\ reply.ttl <= Larger(FastResponseTTL, life)
        /\ reply.kind \in {"passed", "other"} => reply.ttl <= Larger(1, sent)

(***************************************************************************)
(* What the code does not do (see the README).                             *)
(***************************************************************************)
\* Whoever asks is answered.
NobodyIsDropped == serving /\ \A q \in Query : at[q] # "dropped"

\* No reply is valid for longer than the local limit.
LimitHolds == reply # None /\ reply.kind = "passed" => reply.ttl <= MaxTTL

\* The reply repeats the question.
QuestionEchoed == reply # None => reply.kind # "other"

\* With a positive answer come addresses.
AddressesComeAlong ==
    reply # None /\ reply.kind \in {"positive", "passed"} => reply.ips

\* Only what was measured dead counts as dead.
DeadMeansMeasured == sorted # None /\ DeadPool(sorted) => sorted.rtts = "dead"
=============================================================================
