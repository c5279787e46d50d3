---------------------------- MODULE ServerProofs -----------------------------
(***************************************************************************)
(* Proofs about what happens to a query in the server, for any             *)
(* configurations, clients and limits: ServeQuery (no query is answered    *)
(* twice, or dropped unless its name is blocked in an unknown mode, and no *)
(* answer outlives what the server has or the upstream servers said),      *)
(* BlockCheck (verdicts are recent), Recursor (one process), and the       *)
(* services RuleUpdate (whole lists, and no slot lost) and Checker (only   *)
(* silence fails).                                                         *)
(***************************************************************************)
EXTENDS Server, Services, FiniteSetTheorems, TLAPS

-----------------------------------------------------------------------------
(***************************************************************************)
(* One reply.                                                              *)
(***************************************************************************)
Position == {"new", "local", "message", "negative", "sorted", "raw", "upstream", "alias", "check",
             "done", "dropped"}

ReplyType == at \in [Query -> Position] /\ replies \in [Query -> Nat]

RInv == ServeAssumption /\ env \in Env /\ ReplyType /\ AnsweredOnce

\* The last step of a handler, with or without a reply, and a step before it.
Answers(q) ==
    at' = [at EXCEPT ![q] = "done"] /\ replies' = [replies EXCEPT ![q] = @ + 1]
Drops(q) ==
    /\ at' = [at EXCEPT ![q] = "dropped"] /\ UNCHANGED replies
    /\ env.filter /\ ~env.known
GoesOn(q) ==
    \E l \in Position \ {"done", "dropped"} : at' = [at EXCEPT ![q] = l] /\ UNCHANGED replies

\* A step of a handler writes the reply and ends, or does neither, or drops a query
\* that is blocked in an unknown mode.
LEMMA HandlerStep ==
  ASSUME NEW q, handleQuery(q)
  PROVE  at[q] # "done" /\ UNCHANGED env /\ (Answers(q) \/ Drops(q) \/ GoesOn(q))
  <1> USE DEF Answer, Goto, Silent, Answers, Drops, GoesOn, Position
  <1>1. CASE handleAdBlockCheck(q)
    BY <1>1 DEF handleAdBlockCheck, sendAdBlockResponse
  <1>2. CASE handleLocalRules(q)
    BY <1>2 DEF handleLocalRules
  <1>3. CASE NotLocal(q) \/ NoError(q) \/ NotSorted(q)
    BY <1>3 DEF NotLocal, NoError, NotSorted
  <1>4. CASE GetDNSSECMsg(q) \/ handleErrorCacheHit(q)
    BY <1>4 DEF GetDNSSECMsg, handleErrorCacheHit
  <1>5. CASE NoMessage(q)
    BY <1>5 DEF NoMessage
  <1>6. CASE handleSortedCacheHit(q)
    BY <1>6 DEF handleSortedCacheHit
  <1>7. CASE handleRawCacheHit(q)
    BY <1>7 DEF handleRawCacheHit
  <1>8. CASE Missed(q)
    BY <1>8 DEF Missed
  <1>9. CASE QueryFails(q)
    BY <1>9 DEF QueryFails, SetError
  <1>10. CASE QueryReturns(q)
    BY <1>10 DEF QueryReturns
  <1>11. CASE resolveCNAME(q)
    BY <1>11 DEF resolveCNAME
  <1>12. CASE handleCNAMEChainValidation(q)
    BY <1>12 DEF handleCNAMEChainValidation, sendAdBlockResponse
  <1>13. CASE NoData(q)
    BY <1>13 DEF NoData, SetError
  <1>14. CASE handleCacheMiss(q) \/ handleGenericCacheMiss(q)
    BY <1>14 DEF handleCacheMiss, handleGenericCacheMiss
  <1>15. QED
    BY <1>1, <1>2, <1>3, <1>4, <1>5, <1>6, <1>7, <1>8, <1>9, <1>10, <1>11, <1>12, <1>13, <1>14
       DEF handleQuery

\* Every step keeps the count of replies.
LEMMA NextReplies == RInv /\ [Next]_srvVars => RInv'
  <1> SUFFICES ASSUME RInv, [Next]_srvVars PROVE RInv'
    OBVIOUS
  <1>t. at \in [Query -> Position] /\ replies \in [Query -> Nat]
    BY DEF RInv, ReplyType
  <1>c. env.clients \subseteq Query
    BY DEF RInv, ServeAssumption
  <1>1. ASSUME NEW q \in env.clients, handleQuery(q) PROVE RInv'
    <2>1. q \in Query /\ at[q] # "done" /\ UNCHANGED env
         /\ (Answers(q) \/ Drops(q) \/ GoesOn(q))
      BY <1>1, <1>c, HandlerStep
    <2>2. CASE Answers(q)
      <3>1. ReplyType' /\ AnsweredOnce'
        BY <1>t, <2>1, <2>2 DEF RInv, ReplyType, AnsweredOnce, Answers, Position
      <3>2. QED
        BY <2>1, <3>1 DEF RInv
    <2>3. CASE GoesOn(q)
      <3>1. ReplyType' /\ AnsweredOnce'
        BY <1>t, <2>1, <2>3 DEF RInv, ReplyType, AnsweredOnce, GoesOn
      <3>2. QED
        BY <2>1, <3>1 DEF RInv
    <2>4. CASE Drops(q)
      <3>1. ReplyType' /\ AnsweredOnce'
        BY <1>t, <2>1, <2>4 DEF RInv, ReplyType, AnsweredOnce, Drops, Position
      <3>2. QED
        BY <2>1, <3>1 DEF RInv
    <2>5. QED
      BY <2>1, <2>2, <2>3, <2>4
  <1>2. ASSUME NEW q \in env.clients, Again(q) PROVE RInv'
    <2>1. /\ at' = [at EXCEPT ![q] = "new"] /\ replies' = [replies EXCEPT ![q] = 0]
          /\ UNCHANGED env
      BY <1>2 DEF Again, Goto
    <2>2. ReplyType' /\ AnsweredOnce'
      BY <1>t, <1>c, <2>1 DEF RInv, ReplyType, AnsweredOnce, Position
    <2>3. QED
      BY <2>1, <2>2 DEF RInv
  <1>3. CASE refreshCacheAsync \/ handleSortComplete \/ OtherChain \/ Evict \/ Tick \/ NilResult
    <2>1. UNCHANGED <<env, at, replies>>
      BY <1>3 DEF refreshCacheAsync, handleSortComplete, OtherChain, Evict, Tick, NilResult, Silent
    <2>2. QED
      BY <2>1 DEF RInv, ReplyType, AnsweredOnce
  <1>4. CASE UNCHANGED srvVars
    BY <1>4 DEF srvVars, RInv, ReplyType, AnsweredOnce
  <1>5. QED
    BY <1>1, <1>2, <1>3, <1>4 DEF Next

\* Whichever of the eighteen paths a query takes, its client gets one reply by the end
\* of it, for any number of clients at once; only a name blocked in a mode that
\* sendAdBlockResponse does not know gets none.
THEOREM OneReply == ServeAssumption /\ Spec => []AnsweredOnce
  <1>1. ServeAssumption /\ Init => RInv
    BY DEF Init, RInv, ReplyType, AnsweredOnce, Position
  <1>2. RInv => AnsweredOnce
    BY DEF RInv
  <1>3. QED
    BY <1>1, <1>2, NextReplies, PTL DEF Spec
-----------------------------------------------------------------------------
(***************************************************************************)
(* Honest TTLs.  An entry's time left is at most life, a message's at most *)
(* sent; a sorted entry made while the raw one was missing has MinTTL of   *)
(* its own, which an answer stored later outlives.                         *)
(***************************************************************************)
RawEntry == [age : Nat, ttl : Nat, ips : BOOLEAN]
SortedEntry == [age : Nat, ttl : Nat, ips : BOOLEAN, rtts : {"alive", "dead", "none"}]
MessageEntry == [age : Nat, ttl : Nat, sent : Nat, own : BOOLEAN]
UpstreamResult ==
    [ttl : Nat, sent : Nat, records : BOOLEAN, ips : BOOLEAN, chain : BOOLEAN]

Left(e) == e.ttl - e.age

RawOutlived == raw # None => raw \in RawEntry /\ Left(raw) <= life
SortedOutlived ==
    sorted # None =>
        /\ sorted \in SortedEntry
        /\ Left(sorted) <= IF raw # None THEN life ELSE Larger(life, MinTTL)
MessageOutlived ==
    message # None =>
        /\ message \in MessageEntry
        /\ message.age <= message.ttl => message.sent - message.age <= sent
ResultKept ==
    /\ result \in [Query -> UpstreamResult \cup {None}]
    /\ \A q \in Query : at[q] \in {"alias", "check"} => result[q] \in UpstreamResult

Entries == RawOutlived /\ SortedOutlived /\ MessageOutlived
Base == ServeAssumption /\ env \in Env /\ at \in [Query -> Position] /\ life \in Nat
        /\ sent \in Nat
HInv == Base /\ ResultKept /\ Entries /\ TTLsAreHonest

-----------------------------------------------------------------------------
(***************************************************************************)
(* What the TTL functions return.                                          *)
(***************************************************************************)
\* The limits are numbers, and the smallest TTL stored is at least 1.
LEMMA Limits ==
  ASSUME ServeAssumption
  PROVE  /\ MinTTL \in Nat /\ MaxTTL \in Nat /\ UserReturnTTL \in Nat /\ FastResponseTTL \in Nat
         /\ Grace \in Nat /\ RttTTL \in Nat /\ NegativeTTL \in Nat
         /\ DefaultTTL \in Nat /\ MsgTTL \in Nat
         /\ MinTTL >= 1 /\ MinTTL <= MaxTTL /\ UserReturnTTL >= 1 /\ FastResponseTTL >= 1
  BY DEF ServeAssumption

\* A TTL is stored within its limits.
LEMMA EffectiveTTL ==
  ASSUME ServeAssumption, NEW t \in Nat
  PROVE  calculateEffectiveTTL(t) \in Nat /\ calculateEffectiveTTL(t) >= MinTTL
  BY Limits DEF calculateEffectiveTTL, Smaller, Larger

\* The TTL shown is at least 1, and above FastResponseTTL no more than what is left.
LEMMA UserTTL ==
  ASSUME ServeAssumption, NEW ttl \in Nat, NEW age \in Nat, NEW stale \in BOOLEAN
  PROVE  /\ calculateUserTTL(ttl, age, stale) \in Nat
         /\ calculateUserTTL(ttl, age, stale) >= 1
         /\ calculateUserTTL(ttl, age, stale) <= Larger(FastResponseTTL, ttl - age)
  <1> DEFINE cycle == UserReturnTTL - (age % UserReturnTTL)
             remaining == Larger(0, ttl - age)
             full == IF remaining > 0 THEN Smaller(remaining, cycle) ELSE FastResponseTTL
             shown == IF stale THEN Smaller(full, FastResponseTTL) ELSE full
  <1>1. cycle \in Int
    BY Limits
  <1>2. full \in Int /\ full <= Larger(FastResponseTTL, ttl - age)
    <2> HIDE DEF cycle
    <2>1. QED
      BY <1>1, Limits DEF Smaller, Larger
  <1>3. shown \in Int /\ shown <= Larger(FastResponseTTL, ttl - age)
    <2> HIDE DEF full
    <2>1. CASE stale
      BY <1>2, <2>1, Limits DEF Smaller, Larger
    <2>2. CASE ~stale
      BY <1>2, <2>2
    <2>3. QED
      BY <2>1, <2>2
  <1>4. calculateUserTTL(ttl, age, stale) = Larger(1, shown)
    BY DEF calculateUserTTL
  <1>5. Larger(FastResponseTTL, ttl - age) >= 1
    BY Limits DEF Larger
  <1>6. QED
    <2> HIDE DEF shown
    <2>1. QED
      BY <1>3, <1>4, <1>5, Limits DEF Larger

\* Ageing an entry takes one from what it has left, or nothing if it has none.
LEMMA OlderRaw ==
  ASSUME NEW e \in RawEntry, e # None, NEW c \in Nat, c > e.ttl
  PROVE  Older(e, c) \in RawEntry /\ (Left(Older(e, c)) <= Left(e) - 1 \/ Left(Older(e, c)) <= 0)
  BY DEF Older, RawEntry, Left

\* The same of a sorted entry.
LEMMA OlderSorted ==
  ASSUME NEW e \in SortedEntry, e # None, NEW c \in Nat, c > e.ttl
  PROVE  /\ Older(e, c) \in SortedEntry
         /\ Left(Older(e, c)) <= Left(e) - 1 \/ Left(Older(e, c)) <= 0
  BY DEF Older, SortedEntry, Left

\* The TTL of a result and those of a message are numbers.
LEMMA ResultTTLs ==
  ASSUME ServeAssumption, NEW t \in Nat
  PROVE  extractTTL(t) \in Nat /\ MessageTTLs(t) \subseteq Nat
  BY Limits DEF extractTTL, MessageTTLs, Smaller

\* What SetDNSSECMsg stores is covered by what was sent.
LEMMA StoredMessage ==
  ASSUME Base, NEW t \in Nat, NEW mine \in BOOLEAN, SetDNSSECMsg(t, mine)
  PROVE  sent' \in Nat /\ MessageOutlived'
  <1>1. PICK ttl \in MessageTTLs(t) : message' = [age |-> 0, ttl |-> ttl, sent |-> t, own |-> mine]
    BY DEF SetDNSSECMsg
  <1>2. ttl \in Nat
    BY ResultTTLs DEF Base
  <1>3. sent' \in Nat /\ t <= sent'
    BY DEF Base, SetDNSSECMsg, Larger
  <1>4. QED
    BY <1>1, <1>2, <1>3 DEF MessageOutlived, MessageEntry

\* An answer stored by a miss or a refresh outlives the sorted entry, too.
LEMMA StoredAnswer ==
  ASSUME Base, RawOutlived, SortedOutlived, NEW r, r.ttl \in Nat,
         r.records \in BOOLEAN, SetRawRecords(r), UNCHANGED sorted
  PROVE  life' \in Nat /\ RawOutlived' /\ SortedOutlived'
  <1> DEFINE ttl == calculateEffectiveTTL(r.ttl)
  <1>t. ttl \in Nat /\ ttl >= MinTTL
    BY EffectiveTTL DEF Base
  <1>r. raw' = [age |-> 0, ttl |-> ttl, ips |-> r.records] /\ life' = Larger(life, ttl)
    BY DEF SetRawRecords
  <1> HIDE DEF ttl
  <1>1. life' \in Nat /\ life <= life' /\ ttl <= life'
    BY <1>t, <1>r DEF Base, Larger
  <1>2. RawOutlived'
    BY <1>t, <1>r, <1>1 DEF RawOutlived, RawEntry, Left
  <1>3. SortedOutlived'
    BY <1>t, <1>r, <1>1, Limits DEF Base, SortedOutlived, SortedEntry, Left, Larger
  <1>4. QED
    BY <1>1, <1>2, <1>3

-----------------------------------------------------------------------------
(***************************************************************************)
(* The steps of a handler.                                                 *)
(***************************************************************************)
\* A query that waits for the check of its chain has what the upstream returned.
LEMMA ResultStep ==
  ASSUME HInv, NEW q \in Query, handleQuery(q)
  PROVE  at' \in [Query -> Position] /\ ResultKept'
  <1>t. /\ at \in [Query -> Position] /\ result \in [Query -> UpstreamResult \cup {None}]
        /\ \A p \in Query : at[p] \in {"alias", "check"} => result[p] \in UpstreamResult
    BY DEF HInv, Base, ResultKept
  <1>1. ASSUME NEW l \in {"done", "dropped"}, at' = [at EXCEPT ![q] = l],
               result' = [result EXCEPT ![q] = None]
        PROVE  at' \in [Query -> Position] /\ ResultKept'
    BY <1>t, <1>1 DEF ResultKept, Position
  <1>2. ASSUME NEW l \in Position \ {"alias", "check"}, at' = [at EXCEPT ![q] = l],
               UNCHANGED result
        PROVE  at' \in [Query -> Position] /\ ResultKept'
    BY <1>t, <1>2 DEF ResultKept, Position
  <1>3. ASSUME NEW l \in Position, at' = [at EXCEPT ![q] = l],
               NEW r \in UpstreamResult, result' = [result EXCEPT ![q] = r]
        PROVE  at' \in [Query -> Position] /\ ResultKept'
    BY <1>t, <1>3 DEF ResultKept, Position
  <1>4. CASE handleAdBlockCheck(q) \/ handleLocalRules(q) \/ NotLocal(q) \/ GetDNSSECMsg(q)
             \/ NoMessage(q) \/ handleErrorCacheHit(q) \/ NoError(q)
    BY <1>1, <1>2, <1>4 DEF handleAdBlockCheck, sendAdBlockResponse, handleLocalRules, NotLocal, GetDNSSECMsg,
       NoMessage, handleErrorCacheHit, NoError, Answer, Goto, Position
  <1>5. CASE handleSortedCacheHit(q) \/ NotSorted(q) \/ handleRawCacheHit(q) \/ Missed(q)
    BY <1>1, <1>2, <1>5 DEF handleSortedCacheHit, NotSorted, handleRawCacheHit, Missed, Answer,
       Goto, Position
  <1>6. CASE \/ QueryFails(q) \/ handleCNAMEChainValidation(q) \/ NoData(q) \/ handleCacheMiss(q)
             \/ handleGenericCacheMiss(q)
    BY <1>1, <1>6 DEF QueryFails, handleCNAMEChainValidation, sendAdBlockResponse, NoData,
       handleCacheMiss, handleGenericCacheMiss, SetError, Answer, Goto
  <1>7. CASE QueryReturns(q)
    <2>1. PICK t \in env.ttls, ips \in BOOLEAN, chain \in BOOLEAN :
            /\ result' = [result EXCEPT ![q] =
                   [ttl |-> extractTTL(t), sent |-> t, records |-> ips, ips |-> ips,
                    chain |-> chain]]
            /\ Goto(q, IF chain /\ ~ips /\ env.qtype # "other" THEN "alias" ELSE "check")
      BY <1>7 DEF QueryReturns
    <2>2. t \in Nat
      BY DEF HInv, Base, ServeAssumption
    <2>3. [ttl |-> extractTTL(t), sent |-> t, records |-> ips, ips |-> ips, chain |-> chain]
            \in UpstreamResult
      BY <2>2, ResultTTLs DEF UpstreamResult, HInv, Base
    <2>4. \E l \in {"alias", "check"} : at' = [at EXCEPT ![q] = l]
      BY <2>1 DEF Goto
    <2>5. QED
      BY <1>3, <2>1, <2>3, <2>4 DEF Position
  <1>8. CASE resolveCNAME(q)
    <2>1. CASE Answer(q, "SERVFAIL", NegativeTTL, FALSE)
      BY <1>1, <2>1 DEF Answer, Goto
    <2>2. ASSUME NEW found \in BOOLEAN, NEW t \in env.ttls, Goto(q, "check"),
                 result' = [result EXCEPT ![q].ips = found, ![q].ttl = extractTTL(t)]
          PROVE  at' \in [Query -> Position] /\ ResultKept'
      <3> DEFINE r == [result[q] EXCEPT !.ips = found, !.ttl = extractTTL(t)]
      <3>1. t \in Nat
        BY DEF HInv, Base, ServeAssumption
      <3>2. result[q] \in UpstreamResult
        BY <1>t, <1>8 DEF resolveCNAME
      <3>3. r \in UpstreamResult
        BY <3>1, <3>2, ResultTTLs DEF UpstreamResult, HInv, Base
      <3>4. result' = [result EXCEPT ![q] = r]
        BY <1>t, <2>2
      <3>5. at' = [at EXCEPT ![q] = "check"]
        BY <2>2 DEF Goto
      <3>6. QED
        <4> HIDE DEF r
        <4>1. QED
          BY <1>3, <3>3, <3>4, <3>5 DEF Position
    <2>3. QED
      BY <1>8, <2>1, <2>2 DEF resolveCNAME
  <1>9. QED
    BY <1>4, <1>5, <1>6, <1>7, <1>8 DEF handleQuery

\* Only the end of a miss stores an answer; only an expired message is deleted.
LEMMA EntriesStep ==
  ASSUME HInv, NEW q \in Query, handleQuery(q)
  PROVE  env' = env /\ life' \in Nat /\ sent' \in Nat /\ Entries'
  <1>1. CASE UNCHANGED <<env, life, sent, raw, sorted, message>>
    BY <1>1 DEF HInv, Base, Entries, RawOutlived, SortedOutlived, MessageOutlived
  <1>2. CASE NoMessage(q)
    <2>1. UNCHANGED <<env, life, sent, raw, sorted>> /\ message' \in {message, None}
      BY <1>2 DEF NoMessage
    <2>2. MessageOutlived'
      BY <2>1 DEF HInv, Entries, MessageOutlived
    <2>3. QED
      BY <2>1, <2>2 DEF HInv, Base, Entries, RawOutlived, SortedOutlived
  <1>3. CASE handleCacheMiss(q) \/ handleGenericCacheMiss(q)
    <2> DEFINE r == result[q]
    <2>1. /\ SetRawRecords(r) /\ UNCHANGED <<env, sorted>> /\ at[q] = "check"
          /\ \/ UNCHANGED <<message, sent>>
             \/ SetDNSSECMsg(r.sent, TRUE)
             \/ UNCHANGED message /\ sent' = Larger(sent, r.ttl)
      BY <1>3 DEF handleCacheMiss, handleGenericCacheMiss
    <2>2. r \in UpstreamResult
      BY <2>1 DEF HInv, ResultKept
    <2>3. r.ttl \in Nat /\ r.sent \in Nat /\ r.records \in BOOLEAN
      BY <2>2 DEF UpstreamResult
    <2> HIDE DEF r
    <2>4. life' \in Nat /\ RawOutlived' /\ SortedOutlived'
      BY <2>1, <2>3, StoredAnswer DEF HInv, Entries
    <2>5. sent' \in Nat /\ MessageOutlived'
      <3>1. CASE UNCHANGED <<message, sent>>
        BY <3>1 DEF HInv, Base, Entries, MessageOutlived
      <3>2. CASE SetDNSSECMsg(r.sent, TRUE)
        BY <2>3, <3>2, StoredMessage DEF HInv
      <3>3. CASE UNCHANGED message /\ sent' = Larger(sent, r.ttl)
        <4>1. sent' \in Nat /\ sent <= sent'
          BY <2>3, <3>3 DEF HInv, Base, Larger
        <4>2. QED
          BY <3>3, <4>1 DEF HInv, Base, Entries, MessageOutlived, MessageEntry
      <3>4. QED
        BY <2>1, <3>1, <3>2, <3>3
    <2>6. QED
      BY <2>1, <2>4, <2>5 DEF Entries
  <1>4. ASSUME ~NoMessage(q), ~handleCacheMiss(q), ~handleGenericCacheMiss(q)
        PROVE  UNCHANGED <<env, life, sent, raw, sorted, message>>
    BY <1>4 DEF handleQuery, cacheVars, handleAdBlockCheck, handleLocalRules, NotLocal,
       GetDNSSECMsg, handleErrorCacheHit, NoError, handleSortedCacheHit, NotSorted,
       handleRawCacheHit, Missed, QueryFails, QueryReturns, resolveCNAME,
       handleCNAMEChainValidation, NoData
  <1>5. QED
    BY <1>1, <1>2, <1>3, <1>4

\* The five handlers that answer with records.
LEMMA ReplyStep ==
  ASSUME HInv, NEW q \in Query, handleQuery(q)
  PROVE  TTLsAreHonest'
  <1>a. ServeAssumption /\ life \in Nat /\ sent \in Nat
    BY DEF HInv, Base
  <1>1. CASE GetDNSSECMsg(q)
    <2> DEFINE ttl == IF message.sent = 0 THEN 0 ELSE Larger(1, message.sent - message.age)
    <2>1. /\ message # None /\ ~IsExpired(message) /\ UNCHANGED sent
          /\ reply' = [kind |-> IF message.own THEN "passed" ELSE "other",
                       ttl |-> ttl, ips |-> TRUE]
      BY <1>1 DEF GetDNSSECMsg, Answer
    <2>2. message \in MessageEntry /\ message.sent - message.age <= sent
      BY <2>1 DEF HInv, Entries, MessageOutlived, MessageEntry, IsExpired
    <2>3. ttl <= Larger(1, sent')
      BY <1>a, <2>1, <2>2 DEF MessageEntry, Larger
    <2>4. reply'.ttl = ttl /\ reply'.kind # "positive"
      BY <2>1
    <2>5. QED
      <3> HIDE DEF ttl
      <3>1. QED
        BY <2>3, <2>4 DEF TTLsAreHonest
  <1>2. CASE handleSortedCacheHit(q)
    <2> DEFINE dead == DeadPool(sorted)
               rttStale == sorted.age >= RttTTL
               expired == dead \/ raw = None \/ IsExpired(raw)
               ttl == IF dead THEN 1 ELSE IF expired THEN FastResponseTTL
                      ELSE calculateUserTTL(sorted.ttl, sorted.age, rttStale)
    <2>1. /\ sorted # None /\ UNCHANGED life
          /\ reply' = [kind |-> "positive", ttl |-> ttl, ips |-> sorted.ips]
      BY <1>2 DEF handleSortedCacheHit, Answer
    <2>2. ttl \in Nat /\ ttl >= 1 /\ ttl <= Larger(FastResponseTTL, life)
      <3>1. CASE dead
        BY <1>a, <3>1, Limits DEF Larger
      <3>2. CASE ~dead /\ expired
        BY <1>a, <3>2, Limits DEF Larger
      <3>3. CASE ~dead /\ ~expired
        <4>1. sorted.age \in Nat /\ sorted.ttl \in Nat /\ sorted.ttl - sorted.age <= life
          BY <2>1, <3>3 DEF HInv, Entries, SortedOutlived, SortedEntry, Left
        <4>2. ttl = calculateUserTTL(sorted.ttl, sorted.age, rttStale)
          BY <3>3
        <4>3. /\ ttl \in Nat /\ ttl >= 1
              /\ ttl <= Larger(FastResponseTTL, sorted.ttl - sorted.age)
          <5> HIDE DEF ttl
          <5>1. rttStale \in BOOLEAN
            OBVIOUS
          <5>2. QED
            BY <1>a, <4>1, <4>2, <5>1, UserTTL
        <4>4. QED
          <5> HIDE DEF ttl
          <5>1. QED
            BY <1>a, <4>1, <4>3, Limits DEF Larger
      <3>4. QED
        BY <3>1, <3>2, <3>3
    <2>3. QED
      <3> HIDE DEF ttl
      <3>1. QED
        BY <2>1, <2>2 DEF TTLsAreHonest
  <1>3. CASE handleRawCacheHit(q)
    <2>1. /\ raw # None /\ UNCHANGED life
          /\ \E ips :
               \/ reply' = [kind |-> "positive",
                            ttl |-> calculateUserTTL(raw.ttl, raw.age, FALSE), ips |-> ips]
               \/ reply' = [kind |-> "positive", ttl |-> FastResponseTTL, ips |-> ips]
      BY <1>3 DEF handleRawCacheHit, Answer
    <2>2. raw.age \in Nat /\ raw.ttl \in Nat /\ raw.ttl - raw.age <= life
      BY <2>1 DEF HInv, Entries, RawOutlived, RawEntry, Left
    <2> DEFINE shown == calculateUserTTL(raw.ttl, raw.age, FALSE)
    <2>3. shown \in Nat /\ shown >= 1 /\ shown <= Larger(FastResponseTTL, raw.ttl - raw.age)
      BY <1>a, <2>2, UserTTL
    <2> HIDE DEF shown
    <2>4. shown <= Larger(FastResponseTTL, life) /\ FastResponseTTL <= Larger(FastResponseTTL, life)
      BY <1>a, <2>2, <2>3, Limits DEF Larger
    <2>5. PICK ips : \/ reply' = [kind |-> "positive", ttl |-> shown, ips |-> ips]
                     \/ reply' = [kind |-> "positive", ttl |-> FastResponseTTL, ips |-> ips]
      BY <2>1 DEF shown
    <2>6. QED
      BY <1>a, <2>1, <2>3, <2>4, <2>5, Limits DEF TTLsAreHonest
  <1>4. CASE handleCacheMiss(q)
    <2>1. /\ SetRawRecords(result[q]) /\ at[q] = "check" /\ UNCHANGED sorted
          /\ reply' = [kind |-> "positive", ttl |-> FastResponseTTL, ips |-> result[q].ips]
      BY <1>4 DEF handleCacheMiss, Answer
    <2>2. life' \in Nat
      BY <1>4, EntriesStep
    <2>3. QED
      BY <1>a, <2>1, <2>2, Limits DEF TTLsAreHonest, Larger
  <1>5. CASE handleGenericCacheMiss(q)
    <2> DEFINE r == result[q]
    <2>1. /\ at[q] = "check" /\ sent' = Larger(sent, r.ttl)
          /\ reply' = [kind |-> IF r.ips \/ r.chain THEN "passed" ELSE "empty", ttl |-> r.ttl,
                       ips |-> r.ips]
      BY <1>5 DEF handleGenericCacheMiss, Answer
    <2>2. r.ttl \in Nat
      BY <2>1 DEF HInv, ResultKept, UpstreamResult
    <2> HIDE DEF r
    <2>3. r.ttl <= Larger(1, sent')
      BY <1>a, <2>1, <2>2 DEF Larger
    <2>4. reply'.ttl = r.ttl /\ reply'.kind # "positive"
      BY <2>1
    <2>5. QED
      BY <2>3, <2>4 DEF TTLsAreHonest
  <1>6. ASSUME ~GetDNSSECMsg(q), ~handleSortedCacheHit(q), ~handleRawCacheHit(q),
               ~handleCacheMiss(q), ~handleGenericCacheMiss(q)
        PROVE  reply' = None \/ reply'.kind \notin {"positive", "passed", "other"}
    BY <1>6 DEF handleQuery, Answer, Silent, SetError, handleAdBlockCheck, sendAdBlockResponse,
       handleLocalRules, NotLocal, NoMessage, handleErrorCacheHit, NoError, NotSorted, Missed,
       QueryFails, QueryReturns, resolveCNAME, handleCNAMEChainValidation, NoData
  <1>7. QED
    BY <1>1, <1>2, <1>3, <1>4, <1>5, <1>6 DEF TTLsAreHonest

-----------------------------------------------------------------------------
(***************************************************************************)
(* The other steps.                                                        *)
(***************************************************************************)
\* The refresh, the sort, other clients, eviction and time.
LEMMA BackgroundStep ==
  ASSUME HInv, refreshCacheAsync \/ handleSortComplete \/ OtherChain \/ Evict \/ Tick
  PROVE  life' \in Nat /\ sent' \in Nat /\ Entries'
  <1>a. ServeAssumption /\ env \in Env /\ life \in Nat /\ sent \in Nat
    BY DEF HInv, Base
  <1>b. RawOutlived /\ SortedOutlived /\ MessageOutlived
    BY DEF HInv, Entries
  <1>c. \A t \in env.ttls : t \in Nat
    BY <1>a DEF ServeAssumption
  <1>1. CASE refreshCacheAsync
    <2>1. UNCHANGED <<sorted, message, sent>>
      BY <1>1 DEF refreshCacheAsync
    <2>2. CASE UNCHANGED <<raw, life>>
      BY <1>a, <1>b, <2>1, <2>2
         DEF Entries, RawOutlived, SortedOutlived, MessageOutlived
    <2>3. ASSUME NEW t \in env.ttls, NEW direct \in BOOLEAN,
                 SetRawRecords([ttl |-> extractTTL(t), records |-> direct])
          PROVE  life' \in Nat /\ sent' \in Nat /\ Entries'
      <3> DEFINE r == [ttl |-> extractTTL(t), records |-> direct]
      <3>1. r.ttl \in Nat /\ r.records \in BOOLEAN
        BY <1>a, <1>c, ResultTTLs
      <3>2. SetRawRecords(r)
        BY <2>3
      <3> HIDE DEF r
      <3>3. life' \in Nat /\ RawOutlived' /\ SortedOutlived'
        BY <1>b, <2>1, <3>1, <3>2, StoredAnswer DEF HInv
      <3>4. MessageOutlived'
        BY <1>b, <2>1 DEF MessageOutlived
      <3>5. QED
        BY <1>a, <2>1, <3>3, <3>4 DEF Entries
    <2>4. QED
      BY <1>1, <2>2, <2>3 DEF refreshCacheAsync
  <1>2. CASE handleSortComplete
    <2>1. UNCHANGED <<life, sent, raw, message>>
      BY <1>2 DEF handleSortComplete
    <2>2. CASE UNCHANGED sorted
      BY <1>a, <1>b, <2>1, <2>2
         DEF Entries, RawOutlived, SortedOutlived, MessageOutlived
    <2>3. ASSUME NEW rtts \in {"alive", "dead", "none"}, NEW ips \in BOOLEAN, NEW ttl,
                 ttl = IF raw # None THEN calculateRemainingTTL(raw) ELSE MinTTL,
                 sorted' = [age |-> 0, ips |-> ips, rtts |-> rtts, ttl |-> ttl]
          PROVE  SortedOutlived'
      <3>1. ttl \in Nat /\ ttl <= IF raw # None THEN life ELSE Larger(life, MinTTL)
        BY <1>a, <1>b, <2>3, Limits
           DEF calculateRemainingTTL, Larger, RawOutlived, RawEntry, Left
      <3>2. sorted' \in SortedEntry /\ Left(sorted') = ttl
        BY <2>3, <3>1 DEF SortedEntry, Left
      <3>3. QED
        BY <2>1, <3>1, <3>2 DEF SortedOutlived
    <2>4. ASSUME NEW rtts \in IF env.ping THEN {"alive", "dead"} ELSE {"none"},
                 sorted' = [age |-> 0, ips |-> sorting = "full", rtts |-> rtts,
                            ttl |-> IF raw # None THEN calculateRemainingTTL(raw) ELSE MinTTL]
          PROVE  SortedOutlived'
      <3>1. rtts \in {"alive", "dead", "none"} /\ (sorting = "full") \in BOOLEAN
        BY <2>4
      <3>2. QED
        BY <2>3, <2>4, <3>1
    <2>5. CASE SortedOutlived'
      BY <1>a, <1>b, <2>1, <2>5 DEF Entries, RawOutlived, MessageOutlived
    <2>6. QED
      BY <1>2, <2>2, <2>4, <2>5 DEF handleSortComplete
  <1>3. CASE OtherChain
    <2>1. UNCHANGED <<life, raw, sorted>>
      BY <1>3 DEF OtherChain
    <2>2. PICK t \in env.ttls : SetDNSSECMsg(t, FALSE)
      BY <1>3 DEF OtherChain
    <2>3. sent' \in Nat /\ MessageOutlived'
      BY <1>c, <2>2, StoredMessage DEF HInv
    <2>4. QED
      BY <1>a, <1>b, <2>1, <2>3 DEF Entries, RawOutlived, SortedOutlived
  <1>4. CASE Evict
    <2>1. /\ UNCHANGED <<life, sent, message>> /\ (raw' = None \/ UNCHANGED raw)
          /\ sorted' = None \/ UNCHANGED sorted
      BY <1>4 DEF Evict
    <2>2. SortedOutlived'
      BY <1>a, <1>b, <2>1, Limits DEF SortedOutlived, SortedEntry, Left, Larger
    <2>3. QED
      BY <1>a, <1>b, <2>1, <2>2 DEF Entries, RawOutlived, MessageOutlived
  <1>5. CASE Tick
    <2>1. /\ raw' = Older(raw, raw.ttl + Grace + 1)
          /\ sorted' = Older(sorted, sorted.ttl + 1)
          /\ message' = Older(message, message.ttl + 1)
          /\ life' = Larger(0, life - 1) /\ sent' = Larger(0, sent - 1)
      BY <1>5 DEF Tick
    <2>2. life' \in Nat /\ life' >= life - 1 /\ sent' \in Nat /\ sent' >= sent - 1
      BY <1>a, <2>1 DEF Larger
    <2>3. RawOutlived' /\ (raw = None => raw' = None)
      <3>1. CASE raw = None
        BY <2>1, <3>1 DEF Older, RawOutlived
      <3>2. CASE raw # None
        <4> DEFINE c == raw.ttl + Grace + 1
        <4>1. raw \in RawEntry /\ Left(raw) <= life /\ Left(raw) \in Int
          BY <1>b, <3>2 DEF RawOutlived, RawEntry, Left
        <4>2. c \in Nat /\ c > raw.ttl
          BY <1>a, <4>1, Limits DEF RawEntry
        <4>3. raw' = Older(raw, c)
          BY <2>1
        <4> HIDE DEF c
        <4>4. raw' \in RawEntry /\ (Left(raw') <= Left(raw) - 1 \/ Left(raw') <= 0)
          BY <3>2, <4>1, <4>2, <4>3, OlderRaw
        <4>5. Left(raw') \in Int
          BY <4>4 DEF RawEntry, Left
        <4>6. QED
          BY <1>a, <2>2, <3>2, <4>1, <4>4, <4>5 DEF RawOutlived, Left
      <3>3. QED
        BY <3>1, <3>2
    <2>4. SortedOutlived'
      <3>1. CASE sorted = None
        BY <2>1, <3>1 DEF Older, SortedOutlived
      <3>2. CASE sorted # None
        <4> DEFINE c == sorted.ttl + 1
        <4>1. /\ sorted \in SortedEntry /\ Left(sorted) \in Int
              /\ Left(sorted) <= IF raw # None THEN life ELSE Larger(life, MinTTL)
          BY <1>b, <3>2 DEF SortedOutlived, SortedEntry, Left
        <4>2. c \in Nat /\ c > sorted.ttl
          BY <4>1 DEF SortedEntry
        <4>3. sorted' = Older(sorted, c)
          BY <2>1
        <4> HIDE DEF c
        <4>4. sorted' \in SortedEntry /\ (Left(sorted') <= Left(sorted) - 1 \/ Left(sorted') <= 0)
          BY <3>2, <4>1, <4>2, <4>3, OlderSorted
        <4>5. Left(sorted') \in Int
          BY <4>4 DEF SortedEntry, Left
        <4>6. Left(sorted') <= IF raw' # None THEN life' ELSE Larger(life', MinTTL)
          <5> HIDE DEF Left
          <5>1. raw' # None => raw # None
            BY <2>3
          <5>2. QED
            BY <1>a, <2>2, <4>1, <4>4, <4>5, <5>1, Limits DEF Larger
        <4>7. QED
          BY <4>4, <4>6 DEF SortedOutlived
      <3>3. QED
        BY <3>1, <3>2
    <2>5. MessageOutlived'
      <3>1. CASE message = None
        BY <2>1, <3>1 DEF Older, MessageOutlived
      <3>2. CASE message # None
        <4>1. /\ message \in MessageEntry
              /\ message.age <= message.ttl => message.sent - message.age <= sent
          BY <1>b, <3>2 DEF MessageOutlived
        <4>2. CASE message.age < message.ttl + 1
          <5>1. message' = [message EXCEPT !.age = @ + 1]
            BY <2>1, <3>2, <4>2 DEF Older
          <5>2. /\ message' \in MessageEntry /\ message'.age = message.age + 1
                /\ message'.ttl = message.ttl /\ message'.sent = message.sent
            BY <4>1, <5>1 DEF MessageEntry
          <5>3. QED
            BY <1>a, <2>2, <4>1, <5>2 DEF MessageOutlived, MessageEntry
        <4>3. CASE ~(message.age < message.ttl + 1)
          <5>1. message' = message
            BY <2>1, <4>3 DEF Older
          <5>2. QED
            BY <4>1, <4>3, <5>1 DEF MessageOutlived, MessageEntry
        <4>4. QED
          BY <4>2, <4>3
      <3>3. QED
        BY <3>1, <3>2
    <2>6. QED
      BY <2>2, <2>3, <2>4, <2>5 DEF Entries
  <1>6. QED
    BY <1>1, <1>2, <1>3, <1>4, <1>5

\* Every step keeps the invariant.
LEMMA NextHonest == HInv /\ [Next]_srvVars => HInv'
  <1> SUFFICES ASSUME HInv, [Next]_srvVars PROVE HInv'
    OBVIOUS
  <1>1. ASSUME NEW q \in env.clients, handleQuery(q) PROVE HInv'
    <2>1. q \in Query
      BY DEF HInv, Base, ServeAssumption
    <2>2. QED
      BY <1>1, <2>1, ResultStep, EntriesStep, ReplyStep DEF HInv, Base
  <1>2. ASSUME NEW q \in env.clients, Again(q) PROVE HInv'
    <2>1. /\ at' = [at EXCEPT ![q] = "new"] /\ reply' = None
          /\ UNCHANGED <<env, life, sent, raw, sorted, message, result>>
      BY <1>2 DEF Again, Goto, cacheVars
    <2>2. at' \in [Query -> Position] /\ ResultKept'
      BY <2>1 DEF HInv, Base, ResultKept, Position
    <2>3. TTLsAreHonest'
      BY <2>1 DEF TTLsAreHonest
    <2>4. Entries'
      BY <2>1 DEF HInv, Entries, RawOutlived, SortedOutlived, MessageOutlived
    <2>5. QED
      BY <2>1, <2>2, <2>3, <2>4 DEF HInv, Base
  <1>3. CASE refreshCacheAsync \/ handleSortComplete \/ OtherChain \/ Evict \/ Tick
    <2>1. UNCHANGED <<env, at, result>> /\ reply' = None
      BY <1>3 DEF refreshCacheAsync, handleSortComplete, OtherChain, Evict, Tick, Silent
    <2>2. ResultKept' /\ TTLsAreHonest'
      BY <2>1 DEF HInv, ResultKept, TTLsAreHonest
    <2>3. QED
      BY <1>3, <2>1, <2>2, BackgroundStep DEF HInv, Base
  <1>4. CASE NilResult
    <2>1. UNCHANGED <<env, life, sent, raw, sorted, message, at, result>> /\ reply' = None
      BY <1>4 DEF NilResult, Silent, cacheVars
    <2>2. QED
      BY <2>1 DEF HInv, Base, ResultKept, Entries, RawOutlived, SortedOutlived, MessageOutlived,
         TTLsAreHonest
  <1>5. CASE UNCHANGED srvVars
    BY <1>5 DEF srvVars, cacheVars, HInv, Base, ResultKept, Entries, RawOutlived, SortedOutlived,
       MessageOutlived, TTLsAreHonest
  <1>6. QED
    BY <1>1, <1>2, <1>3, <1>4, <1>5 DEF Next

\* Whatever the order of misses, refreshes, sorts, evictions and time, a reply from the
\* sorted or raw cache says at least 1, and never more than FastResponseTTL unless an
\* answer that was stored is valid for as long; a reply passed on says no more than the
\* upstream servers did.
THEOREM RepliesAreHonest == ServeAssumption /\ Spec => []TTLsAreHonest
  <1>1. ServeAssumption /\ Init => HInv
    BY DEF Init, HInv, Base, ResultKept, Entries, RawOutlived, SortedOutlived, MessageOutlived,
       TTLsAreHonest, Position
  <1>2. HInv => TTLsAreHonest
    BY DEF HInv
  <1>3. QED
    BY <1>1, <1>2, NextHonest, PTL DEF Spec

-----------------------------------------------------------------------------
(***************************************************************************)
(* The block filter in front of the handlers (BlockCheck).                 *)
(***************************************************************************)
\* What the rules say now they said no time ago; so they did of a verdict that is not
\* noted yet, since noting it takes no time.
RulesSay ==
    /\ rule = "blocked" \/ alias => sinceBlocked = 0
    /\ rule = "allowed" => sinceAllowed = 0
VerdictsSay ==
    \A q \in Query : /\ blkAt[q] = "block" => sinceBlocked = 0
                     /\ blkAt[q] = "allow" => sinceAllowed = 0

\* A cached verdict is as old as the rules' last word at least.
BlockedSays ==
    blocked # None => blocked \in Nat /\ (blocked <= BlockedTTL => sinceBlocked <= blocked)
AllowedSays ==
    allowed # None =>
        /\ allowed \in [age : Nat, explicit : BOOLEAN]
        /\ allowed.explicit /\ allowed.age <= AllowedTTL => sinceAllowed <= allowed.age

Since == sinceBlocked \in Nat /\ sinceAllowed \in Nat

VInv ==
    /\ Block!BlockAssumption /\ Since /\ DOMAIN blkAt = Query
    /\ RulesSay /\ VerdictsSay /\ BlockedSays /\ AllowedSays
    /\ Block!VerdictsAreRecent

\* The steps of a query through the filter.
LEMMA FilterStep ==
  ASSUME VInv, NEW q \in Query, Block!Handle(q) \/ Block!Again(q)
  PROVE  VInv'
  <1>a. /\ BlockedTTL \in Nat /\ AllowedTTL \in Nat /\ None # "blocked" /\ None # "explicit"
        /\ sinceBlocked \in Nat /\ sinceAllowed \in Nat /\ DOMAIN blkAt = Query
    BY DEF VInv, Block!BlockAssumption, Since
  <1>b. UNCHANGED <<rule, alias, sinceBlocked, sinceAllowed>>
    BY DEF Block!Handle, Block!Again, Block!BlockedHit, Block!ExplicitHit, Block!FilterOff,
       Block!CheckHost, Block!SetBlocked, Block!SetAllowed, Block!Resolved,
       Block!handleCNAMEChainValidation, Block!rulesVars
  <1>c. Since' /\ RulesSay' /\ Block!BlockAssumption'
    BY <1>b DEF VInv, Since, RulesSay, Block!BlockAssumption
  <1>1. PICK l : /\ blkAt' = [blkAt EXCEPT ![q] = l]
                 /\ l = "block" => sinceBlocked = 0
                 /\ l = "allow" => sinceAllowed = 0
    <2>1. ASSUME NEW l, NEW o, Block!Goto(q, l, o), l \notin {"block", "allow"}
          PROVE  \E k : /\ blkAt' = [blkAt EXCEPT ![q] = k]
                        /\ k = "block" => sinceBlocked = 0
                        /\ k = "allow" => sinceAllowed = 0
      BY <2>1 DEF Block!Goto
    <2>2. CASE Block!CheckHost(q)
      <3>1. blkAt' = [blkAt EXCEPT ![q] = IF rule = "blocked" THEN "block"
                          ELSE IF rule = "allowed" THEN "allow" ELSE "neutral"]
        BY <2>2 DEF Block!CheckHost, Block!Goto
      <3>2. CASE rule = "blocked"
        BY <3>1, <3>2 DEF VInv, RulesSay
      <3>3. CASE rule = "allowed"
        BY <3>1, <3>3 DEF VInv, RulesSay
      <3>4. CASE rule # "blocked" /\ rule # "allowed"
        <4>1. Block!Goto(q, "neutral", None)
          BY <2>2, <3>4 DEF Block!CheckHost
        <4>2. QED
          BY <2>1, <4>1
      <3>5. QED
        BY <3>2, <3>3, <3>4
    <2>3. CASE Block!handleCNAMEChainValidation(q)
      <3>1. CASE alias
        <4>1. \E l \in {"block", "done"} : blkAt' = [blkAt EXCEPT ![q] = l]
          BY <2>3 DEF Block!handleCNAMEChainValidation, Block!Goto
        <4>2. sinceBlocked = 0
          BY <3>1 DEF VInv, RulesSay
        <4>3. QED
          BY <4>1, <4>2
      <3>2. CASE ~alias
        <4>1. Block!Goto(q, "done", None)
          BY <2>3, <3>2 DEF Block!handleCNAMEChainValidation
        <4>2. QED
          BY <2>1, <4>1
      <3>3. QED
        BY <3>1, <3>2
    <2>4. CASE Block!BlockedHit(q) \/ Block!SetBlocked(q)
      BY <2>1, <2>4 DEF Block!BlockedHit, Block!SetBlocked
    <2>5. CASE Block!ExplicitHit(q) \/ Block!FilterOff(q) \/ Block!SetAllowed(q)
      BY <2>1, <2>5 DEF Block!ExplicitHit, Block!FilterOff, Block!SetAllowed
    <2>6. CASE Block!Resolved(q) \/ Block!Again(q)
      BY <2>1, <2>6 DEF Block!Resolved, Block!Again
    <2>7. QED
      BY <2>2, <2>3, <2>4, <2>5, <2>6 DEF Block!Handle
  <1>2. DOMAIN blkAt' = Query /\ VerdictsSay'
    BY <1>a, <1>b, <1>1 DEF VInv, VerdictsSay
  <1>3. BlockedSays'
    <2>1. CASE blocked' = blocked
      BY <1>b, <2>1 DEF VInv, BlockedSays
    <2>2. CASE Block!SetBlocked(q)
      <3>1. blocked' = 0 /\ sinceBlocked = 0
        BY <2>2 DEF Block!SetBlocked, VInv, VerdictsSay
      <3>2. QED
        BY <1>a, <1>b, <3>1 DEF BlockedSays
    <2>3. blocked' = blocked \/ Block!SetBlocked(q)
      BY DEF Block!Handle, Block!Again, Block!BlockedHit, Block!ExplicitHit, Block!FilterOff,
         Block!CheckHost, Block!SetAllowed, Block!Resolved, Block!handleCNAMEChainValidation,
         Block!cachedVars
    <2>4. QED
      BY <2>1, <2>2, <2>3
  <1>4. AllowedSays'
    <2>1. CASE allowed' = allowed
      BY <1>b, <2>1 DEF VInv, AllowedSays
    <2>2. CASE Block!SetAllowed(q)
      <3> DEFINE e == (blkAt[q] = "allow")
      <3>1. allowed' = [age |-> 0, explicit |-> e]
        BY <2>2 DEF Block!SetAllowed
      <3>2. e \in BOOLEAN /\ (e => sinceAllowed = 0)
        BY DEF VInv, VerdictsSay
      <3> HIDE DEF e
      <3>3. allowed' \in [age : Nat, explicit : BOOLEAN] /\ allowed'.age = 0 /\ allowed'.explicit = e
        BY <3>1, <3>2
      <3>4. allowed'.explicit => sinceAllowed' <= allowed'.age
        BY <1>a, <1>b, <3>2, <3>3
      <3>5. QED
        BY <3>3, <3>4 DEF AllowedSays
    <2>3. allowed' = allowed \/ Block!SetAllowed(q)
      BY DEF Block!Handle, Block!Again, Block!BlockedHit, Block!ExplicitHit, Block!FilterOff,
         Block!CheckHost, Block!SetBlocked, Block!Resolved, Block!handleCNAMEChainValidation,
         Block!cachedVars
    <2>4. QED
      BY <2>1, <2>2, <2>3
  <1>5. Block!VerdictsAreRecent'
    <2>1. CASE Block!BlockedHit(q)
      <3>1. outcome' = "blocked" /\ blocked # None /\ blocked <= BlockedTTL
        BY <2>1 DEF Block!BlockedHit, Block!Goto, Block!GetBlocked
      <3>2. QED
        BY <1>a, <1>b, <3>1 DEF VInv, BlockedSays, Block!VerdictsAreRecent
    <2>2. CASE Block!SetBlocked(q)
      <3>1. outcome' = "blocked" /\ sinceBlocked = 0
        BY <2>2 DEF Block!SetBlocked, Block!Goto, VInv, VerdictsSay
      <3>2. QED
        BY <1>a, <1>b, <3>1 DEF Block!VerdictsAreRecent
    <2>3. CASE Block!ExplicitHit(q)
      <3>1. outcome' = "explicit" /\ allowed # None /\ allowed.age <= AllowedTTL /\ allowed.explicit
        BY <2>3 DEF Block!ExplicitHit, Block!Goto, Block!GetExplicitAllowed
      <3>2. sinceAllowed <= allowed.age /\ allowed.age \in Nat
        BY <3>1 DEF VInv, AllowedSays
      <3>3. QED
        BY <1>a, <1>b, <3>1, <3>2 DEF Block!VerdictsAreRecent
    <2>4. CASE outcome' = None
      BY <1>a, <2>4 DEF Block!VerdictsAreRecent
    <2>5. QED
      BY <2>1, <2>2, <2>3, <2>4 DEF Block!Handle, Block!Again, Block!FilterOff,
         Block!CheckHost, Block!SetAllowed, Block!Resolved, Block!handleCNAMEChainValidation,
         Block!Goto
  <1>6. QED
    BY <1>c, <1>2, <1>3, <1>4, <1>5 DEF VInv

\* The rules and the settings change, the caches are cleaned, and time passes.
LEMMA RulesStep ==
  ASSUME VInv, Block!Reload \/ Block!SetEnabled \/ Block!Tick \/ Block!cleanAdBlockCaches
  PROVE  VInv'
  <1>a. /\ BlockedTTL \in Nat /\ AllowedTTL \in Nat /\ None # "blocked" /\ None # "explicit"
        /\ sinceBlocked \in Nat /\ sinceAllowed \in Nat /\ DOMAIN blkAt = Query
    BY DEF VInv, Block!BlockAssumption, Since
  <1>b. outcome' = None /\ blkAt' = blkAt
    BY DEF Block!Reload, Block!SetEnabled, Block!Tick, Block!cleanAdBlockCaches
  <1>c. Block!VerdictsAreRecent' /\ Block!BlockAssumption' /\ DOMAIN blkAt' = Query
    BY <1>a, <1>b DEF VInv, Block!VerdictsAreRecent, Block!BlockAssumption
  <1>1. CASE Block!Reload
    <2>1. /\ sinceBlocked' = IF rule' = "blocked" \/ alias' THEN 0 ELSE sinceBlocked
          /\ sinceAllowed' = IF rule' = "allowed" THEN 0 ELSE sinceAllowed
          /\ UNCHANGED <<blocked, allowed>>
      BY <1>1 DEF Block!Reload, Block!cachedVars
    <2>2. RulesSay'
      BY <2>1 DEF RulesSay
    <2>3. sinceBlocked' \in {0, sinceBlocked} /\ sinceAllowed' \in {0, sinceAllowed}
      BY <2>1
    <2>4. Since' /\ VerdictsSay' /\ BlockedSays'
      BY <1>a, <1>b, <2>1, <2>3 DEF VInv, Since, VerdictsSay, BlockedSays
    <2>5. AllowedSays'
      <3>1. CASE allowed = None
        BY <2>1, <3>1 DEF AllowedSays
      <3>2. CASE allowed # None
        <4>1. /\ allowed \in [age : Nat, explicit : BOOLEAN] /\ allowed.age \in Nat
              /\ allowed.explicit /\ allowed.age <= AllowedTTL => sinceAllowed <= allowed.age
          BY <3>2 DEF VInv, AllowedSays
        <4>2. sinceAllowed <= allowed.age => sinceAllowed' <= allowed.age
          BY <1>a, <2>3, <4>1
        <4>3. QED
          BY <2>1, <4>1, <4>2 DEF AllowedSays
      <3>3. QED
        BY <3>1, <3>2
    <2>6. QED
      BY <1>c, <2>2, <2>4, <2>5 DEF VInv
  <1>2. CASE Block!SetEnabled
    <2>1. UNCHANGED <<rule, alias, blocked, allowed, sinceBlocked, sinceAllowed>>
      BY <1>2 DEF Block!SetEnabled, Block!cachedVars
    <2>2. QED
      BY <1>b, <1>c, <2>1 DEF VInv, Since, RulesSay, VerdictsSay, BlockedSays, AllowedSays
  <1>3. CASE Block!cleanAdBlockCaches
    <2>1. /\ blocked' = blocked \/ blocked' = None
          /\ allowed' = allowed \/ allowed' = None
          /\ UNCHANGED <<rule, alias, sinceBlocked, sinceAllowed>>
      BY <1>3 DEF Block!cleanAdBlockCaches, Block!rulesVars
    <2>2. QED
      BY <1>b, <1>c, <2>1 DEF VInv, Since, RulesSay, VerdictsSay, BlockedSays, AllowedSays
  <1>4. CASE Block!Tick
    <2>1. /\ \A q \in Query : blkAt[q] \notin {"block", "allow", "neutral"}
          /\ blocked' = IF blocked # None /\ blocked <= BlockedTTL THEN blocked + 1 ELSE blocked
          /\ allowed' = IF allowed # None /\ allowed.age <= AllowedTTL
                        THEN [allowed EXCEPT !.age = @ + 1] ELSE allowed
          /\ sinceBlocked' = IF rule = "blocked" \/ alias THEN 0
                             ELSE IF sinceBlocked > BlockedTTL THEN sinceBlocked
                             ELSE sinceBlocked + 1
          /\ sinceAllowed' = IF rule = "allowed" THEN 0
                             ELSE IF sinceAllowed > AllowedTTL THEN sinceAllowed
                             ELSE sinceAllowed + 1
          /\ UNCHANGED <<rule, alias>>
      BY <1>4 DEF Block!Tick, Block!rulesVars
    <2>2. RulesSay'
      BY <2>1 DEF RulesSay
    <2>3. /\ sinceBlocked' \in Nat /\ sinceBlocked' <= sinceBlocked + 1
          /\ sinceAllowed' \in Nat /\ sinceAllowed' <= sinceAllowed + 1
      BY <1>a, <2>1
    <2>4. Since' /\ VerdictsSay'
      BY <1>b, <2>1, <2>3 DEF Since, VerdictsSay
    <2>5. BlockedSays'
      BY <1>a, <2>1, <2>3 DEF VInv, BlockedSays
    <2>6. AllowedSays'
      <3>1. CASE allowed = None
        BY <2>1, <3>1 DEF AllowedSays
      <3>2. CASE allowed # None
        <4>1. /\ allowed \in [age : Nat, explicit : BOOLEAN] /\ allowed.age \in Nat
              /\ allowed.explicit /\ allowed.age <= AllowedTTL => sinceAllowed <= allowed.age
          BY <3>2 DEF VInv, AllowedSays
        <4>2. CASE allowed.age <= AllowedTTL
          <5>1. allowed' = [allowed EXCEPT !.age = allowed.age + 1]
            BY <2>1, <3>2, <4>2
          <5>2. /\ allowed' \in [age : Nat, explicit : BOOLEAN]
                /\ allowed'.age = allowed.age + 1 /\ allowed'.explicit = allowed.explicit
            BY <4>1, <5>1
          <5>3. sinceAllowed <= allowed.age => sinceAllowed' <= allowed'.age
            BY <1>a, <2>3, <4>1, <5>2
          <5>4. QED
            BY <4>1, <4>2, <5>2, <5>3 DEF AllowedSays
        <4>3. CASE ~(allowed.age <= AllowedTTL)
          BY <2>1, <4>1, <4>3 DEF AllowedSays
        <4>4. QED
          BY <4>2, <4>3
      <3>3. QED
        BY <3>1, <3>2
    <2>7. QED
      BY <1>c, <2>2, <2>4, <2>5, <2>6 DEF VInv
  <1>5. QED
    BY <1>1, <1>2, <1>3, <1>4

\* A query is blocked only if the rules blocked the name or its alias at most BlockedTTL
\* ago, and passes the filter only if they allowed it at most AllowedTTL ago, however
\* queries, reloads, settings and the cleaning of the caches interleave.
THEOREM VerdictsRecent == Block!BlockAssumption /\ Block!Spec => []VerdictsAreRecent
  <1>1. Block!BlockAssumption /\ Block!Init => VInv
    <2> SUFFICES ASSUME Block!BlockAssumption, Block!Init PROVE VInv
      OBVIOUS
    <2>1. /\ blocked = None /\ allowed = None /\ blkAt = [q \in Query |-> "new"] /\ outcome = None
          /\ sinceBlocked = (IF rule = "blocked" \/ alias THEN 0 ELSE BlockedTTL + 1)
          /\ sinceAllowed = (IF rule = "allowed" THEN 0 ELSE AllowedTTL + 1)
      BY DEF Block!Init
    <2>2. RulesSay /\ VerdictsSay /\ BlockedSays /\ AllowedSays /\ DOMAIN blkAt = Query
      BY <2>1 DEF RulesSay, VerdictsSay, BlockedSays, AllowedSays
    <2>3. Since
      BY <2>1 DEF Since, Block!BlockAssumption
    <2>4. Block!VerdictsAreRecent
      BY <2>1 DEF Block!VerdictsAreRecent, Block!BlockAssumption
    <2>5. QED
      BY <2>2, <2>3, <2>4 DEF VInv
  <1>2. VInv /\ [Block!Next]_(Block!blkVars) => VInv'
    <2> SUFFICES ASSUME VInv, [Block!Next]_(Block!blkVars) PROVE VInv'
      OBVIOUS
    <2>1. CASE Block!Next
      BY <2>1, FilterStep, RulesStep DEF Block!Next
    <2>2. CASE UNCHANGED Block!blkVars
      <3>1. UNCHANGED <<rule, alias, blocked, allowed, blkAt, outcome, sinceBlocked, sinceAllowed>>
        BY <2>2 DEF Block!blkVars, Block!rulesVars, Block!cachedVars
      <3>2. QED
        BY <3>1 DEF VInv, Block!BlockAssumption, Since, RulesSay, VerdictsSay, BlockedSays,
           AllowedSays, Block!VerdictsAreRecent
    <2>3. QED
      BY <2>1, <2>2
  <1>3. VInv => VerdictsAreRecent
    BY DEF VInv, VerdictsAreRecent
  <1>4. QED
    BY <1>1, <1>2, <1>3, PTL DEF Block!Spec

-----------------------------------------------------------------------------
(***************************************************************************)
(* The recursor behind the upstream (Recursor).                            *)
(***************************************************************************)
Live == {e \in Rec!Epoch : proc[e] \in {"starting", "up", "signalled"}}

Process == {"none", "starting", "up", "signalled", "killed", "dead"}

RecType ==
    /\ epoch \in 0 .. Epochs /\ cmd \in 0 .. Epochs
    /\ proc \in [Rec!Epoch -> Process] /\ closes \in [Rec!Epoch -> Nat]
    /\ DOMAIN pos = Rec!Thread /\ seen \in [Rec!Thread -> [ctx : Nat, exit : Nat]]
    /\ exitCh \in Nat

\* The thread in the second half of Start has m.mu.
Locked == \A t \in Rec!Thread : pos[t] \in {"port", "ready"} => mu = t

\* Only the process that a thread waits for can be starting, and meanwhile no other lives.
Starting ==
    /\ \A e \in Rec!Epoch : proc[e] = "starting" => \E t \in Rec!Thread : pos[t] = "ready"
    /\ \A t \in Rec!Thread : pos[t] = "ready" => cmd = epoch /\ Live \subseteq {epoch}
    /\ \A d, e \in Live : d = e

\* The Stop that closes the channel of an epoch has it for itself: no other will close it,
\* and a recursor that can be stopped, or is being started, has a channel that is open.
Closer(c, e) == pos[c] = "close" /\ seen[c].ctx = e
Untouched(e) == closes[e] = 0 /\ \A c \in Caller : ~Closer(c, e)
ClosedOnce ==
    /\ \A e \in Rec!Epoch : closes[e] <= 1 /\ (e > epoch => Untouched(e))
    /\ \A c \in Caller : pos[c] = "close" => seen[c].ctx \in Rec!Epoch /\ closes[seen[c].ctx] = 0
    /\ \A c, d \in Caller : \A e \in Rec!Epoch : Closer(c, e) /\ Closer(d, e) => c = d
    /\ enabled => epoch > 0 /\ Untouched(epoch)
    /\ \A t \in Rec!Thread : pos[t] = "port" => epoch > 0 /\ Untouched(epoch)
    /\ \A t \in Rec!Thread : pos[t] = "ready" => epoch > 0

PInv == Rec!RecursorAssumption /\ RecType /\ Locked /\ Starting /\ ClosedOnce

\* A step that starts no process, closes no channel, and neither takes nor gives up m.mu.
Quiet ==
    /\ UNCHANGED <<epoch, cmd, closes, mu>> /\ (enabled' => enabled)
    /\ \A t \in Rec!Thread : /\ pos'[t] = "port" <=> pos[t] = "port"
                             /\ pos'[t] = "ready" <=> pos[t] = "ready"
    /\ \A c \in Caller : pos'[c] = "close" => pos[c] = "close" /\ seen'[c].ctx = seen[c].ctx

NoStart == Live' \subseteq Live /\ \A e \in Rec!Epoch : proc'[e] = "starting" => proc[e] = "starting"

\* Such a step that starts no process keeps the invariant.
LEMMA QuietStep ==
  ASSUME PInv, RecType', Quiet, NoStart
  PROVE  PInv'
  <1>1. Locked'
    BY DEF PInv, Locked, Quiet
  <1>2. Starting'
    BY DEF PInv, Starting, Quiet, NoStart
  <1>3. ClosedOnce'
    <2>1. \A c \in Caller, e \in Rec!Epoch : Closer(c, e)' => Closer(c, e)
      BY DEF Quiet, Closer
    <2>2. \A e \in Rec!Epoch : Untouched(e) => Untouched(e)'
      BY <2>1 DEF Quiet, Untouched
    <2>3. epoch > 0 => epoch \in Rec!Epoch
      BY DEF PInv, RecType, Rec!Epoch
    <2>4. /\ \A e \in Rec!Epoch : closes'[e] <= 1 /\ (e > epoch' => Untouched(e)')
          /\ \A c, d \in Caller : \A e \in Rec!Epoch : Closer(c, e)' /\ Closer(d, e)' => c = d
      BY <2>1, <2>2 DEF PInv, ClosedOnce, Quiet
    <2>5. \A c \in Caller : pos'[c] = "close" =>
                                seen'[c].ctx \in Rec!Epoch /\ closes'[seen'[c].ctx] = 0
      BY DEF PInv, ClosedOnce, Quiet
    <2>6. /\ enabled' => epoch' > 0 /\ Untouched(epoch)'
          /\ \A t \in Rec!Thread : pos'[t] = "port" => epoch' > 0 /\ Untouched(epoch)'
          /\ \A t \in Rec!Thread : pos'[t] = "ready" => epoch' > 0
      <3>1. epoch > 0 /\ Untouched(epoch) => epoch' > 0 /\ Untouched(epoch)'
        BY <2>2, <2>3 DEF Quiet, Untouched
      <3>2. QED
        BY <3>1 DEF PInv, ClosedOnce, Quiet
    <2>7. QED
      BY <2>4, <2>5, <2>6 DEF ClosedOnce
  <1>4. QED
    BY <1>1, <1>2, <1>3 DEF PInv, Rec!RecursorAssumption

\* What the parts of the invariant say of the variables, for the steps below.
LEMMA RecFacts ==
  ASSUME PInv
  PROVE  /\ Epochs \in Nat /\ Caller \cap Rec!Epoch = {} /\ None \notin Rec!Thread
         /\ Rec!Epoch = 1 .. Epochs /\ Caller \subseteq Rec!Thread /\ Rec!Epoch \subseteq Rec!Thread
         /\ \A t \in Rec!Thread : t \notin Caller => t \in Rec!Epoch
         /\ epoch \in 0 .. Epochs /\ epoch \in Nat /\ cmd \in 0 .. Epochs
         /\ (epoch > 0 => epoch \in Rec!Epoch) /\ (cmd > 0 => cmd \in Rec!Epoch)
         /\ proc \in [Rec!Epoch -> Process] /\ closes \in [Rec!Epoch -> Nat]
         /\ DOMAIN pos = Rec!Thread /\ seen \in [Rec!Thread -> [ctx : Nat, exit : Nat]]
         /\ exitCh \in Nat
  BY DEF PInv, Rec!RecursorAssumption, Rec!Epoch, Rec!Thread, RecType

\* Start gives up: only the thread itself is concerned.
LEMMA FailedStep ==
  ASSUME PInv, NEW t \in Rec!Thread, Rec!Failed(t), epoch' \in Nat, exitCh' \in Nat
  PROVE  /\ \E l \in {"idle", "select"} : pos' = [pos EXCEPT ![t] = l]
         /\ seen' \in [Rec!Thread -> [ctx : Nat, exit : Nat]]
         /\ \A c \in Caller : seen'[c] = seen[c]
  <1>1. CASE t \in Caller
    <2>1. pos' = [pos EXCEPT ![t] = "idle"] /\ UNCHANGED seen
      BY <1>1 DEF Rec!Failed, Rec!Goto
    <2>2. QED
      BY <2>1, RecFacts
  <1>2. CASE t \notin Caller
    <2>1. /\ pos' = [pos EXCEPT ![t] = "select"]
          /\ seen' = [seen EXCEPT ![t] = [ctx |-> epoch', exit |-> exitCh']]
      BY <1>2 DEF Rec!Failed, Rec!Goto
    <2>2. QED
      BY <1>2, <2>1, RecFacts
  <1>3. QED
    BY <1>1, <1>2

\* Thread t goes where it holds nothing.
Moves(t) ==
    /\ DOMAIN pos' = Rec!Thread /\ pos'[t] \notin {"port", "ready", "close"}
    /\ \A u \in Rec!Thread : u # t => pos'[u] = pos[u]

\* The steps that neither start a process nor close a channel.
LEMMA QuietCalls ==
  ASSUME PInv, NEW t \in Rec!Thread,
         \/ t \in Caller /\ Rec!CallStart(t)
         \/ Rec!StartCheck(t) \/ Rec!Initialize(t)
         \/ Rec!Begin(t) /\ epoch = Epochs
         \/ t \in Caller /\ (Rec!StopExited(t) \/ Rec!StopFinish(t))
         \/ t \in Rec!Epoch /\ (Rec!Loop(t) \/ Rec!LoopTick(t))
  PROVE  PInv'
  <1>0. enabled' => enabled
    BY Zenon DEF Rec!CallStart, Rec!StartCheck, Rec!Initialize, Rec!Begin, Rec!StopExited,
       Rec!StopFinish, Rec!Loop, Rec!LoopQuit, Rec!LoopExit, Rec!LoopStart, Rec!LoopTick
  <1>1. UNCHANGED <<epoch, cmd, closes, mu, proc, exitCh>>
    BY DEF Rec!CallStart, Rec!StartCheck, Rec!Initialize, Rec!Begin, Rec!StopExited,
       Rec!StopFinish, Rec!Loop, Rec!LoopQuit, Rec!LoopExit, Rec!LoopStart, Rec!LoopTick,
       Rec!procVars
  <1>2. epoch' \in Nat /\ exitCh' \in Nat
    BY <1>1, RecFacts
  <1>3. /\ seen' \in [Rec!Thread -> [ctx : Nat, exit : Nat]]
        /\ \A c \in Caller : seen'[c] = seen[c]
        /\ pos[t] \notin {"port", "ready"}
        /\ Moves(t)
    <2>a. ASSUME NEW l, pos' = [pos EXCEPT ![t] = l], l \notin {"port", "ready", "close"}
          PROVE  Moves(t)
      BY <2>a, RecFacts DEF Moves
    <2>b. ASSUME NEW l, Rec!Goto(t, l), l \notin {"port", "ready", "close"}
          PROVE  Moves(t)
      BY <2>a, <2>b DEF Rec!Goto
    <2>c. ASSUME Rec!Failed(t)
          PROVE  /\ seen' \in [Rec!Thread -> [ctx : Nat, exit : Nat]]
                 /\ \A c \in Caller : seen'[c] = seen[c]
                 /\ Moves(t)
      <3>1. PICK l \in {"idle", "select"} : pos' = [pos EXCEPT ![t] = l]
        BY <1>2, <2>c, FailedStep
      <3>2. Moves(t)
        BY <3>1, RecFacts DEF Moves
      <3>3. QED
        BY <1>2, <2>c, <3>2, FailedStep
    <2>s. UNCHANGED seen => /\ seen' \in [Rec!Thread -> [ctx : Nat, exit : Nat]]
                            /\ \A c \in Caller : seen'[c] = seen[c]
      BY RecFacts
    <2>1. CASE Rec!CallStart(t)
      BY <2>b, <2>s, <2>1 DEF Rec!CallStart
    <2>2. CASE Rec!StartCheck(t)
      <3>1. CASE Rec!Failed(t)
        BY <2>c, <2>2, <3>1 DEF Rec!StartCheck
      <3>2. CASE /\ Rec!Goto(t, IF install \in {"no", "retryable"} THEN "init" ELSE "begin")
                 /\ UNCHANGED seen
        BY <2>b, <2>s, <2>2, <3>2 DEF Rec!StartCheck
      <3>3. QED
        BY <2>2, <3>1, <3>2 DEF Rec!StartCheck
    <2>3. CASE Rec!Initialize(t)
      BY <2>b, <2>c, <2>s, <2>3 DEF Rec!Initialize
    <2>4. CASE Rec!Begin(t) /\ epoch = Epochs
      BY <2>c, <2>4 DEF Rec!Begin
    <2>5. CASE Rec!StopExited(t) \/ Rec!StopFinish(t)
      BY <2>b, <2>s, <2>5 DEF Rec!StopExited, Rec!StopFinish
    <2>6. CASE t \in Rec!Epoch /\ (Rec!LoopQuit(t) \/ Rec!LoopStart(t))
      BY <2>b, <2>s, <2>6 DEF Rec!LoopQuit, Rec!LoopStart
    <2>7. CASE t \in Rec!Epoch /\ Rec!LoopExit(t)
      <3>1. /\ pos[t] = "select" /\ Rec!Goto(t, IF enabled' THEN "backoff" ELSE "ended")
            /\ seen' = [seen EXCEPT ![t] = [ctx |-> epoch, exit |-> exitCh]]
        BY <2>7 DEF Rec!LoopExit, Rec!Current
      <3>2. Moves(t)
        BY <2>b, <3>1
      <3>3. t \notin Caller
        BY <2>7, RecFacts
      <3>4. QED
        BY <3>1, <3>2, <3>3, RecFacts
    <2>8. CASE t \in Rec!Epoch /\ Rec!LoopTick(t)
      <3>1. /\ pos[t] = "select" /\ UNCHANGED pos
            /\ seen' = [seen EXCEPT ![t] = [ctx |-> epoch, exit |-> exitCh]]
        BY <2>8 DEF Rec!LoopTick, Rec!Current
      <3>2. Moves(t)
        BY <3>1, RecFacts DEF Moves
      <3>3. t \notin Caller
        BY <2>8, RecFacts
      <3>4. QED
        BY <3>1, <3>2, <3>3, RecFacts
    <2>9. QED
      BY <2>1, <2>2, <2>3, <2>4, <2>5, <2>6, <2>7, <2>8 DEF Rec!Loop
  <1>4. RecType'
    BY <1>1, <1>3, RecFacts DEF RecType, Moves
  <1>5. Quiet
    BY <1>0, <1>1, <1>3, RecFacts DEF Quiet, Moves
  <1>6. NoStart
    BY <1>1 DEF NoStart, Live
  <1>7. QED
    BY <1>4, <1>5, <1>6, QuietStep

\* Signals, timeouts and the processes themselves start nothing.
LEMMA QuietProcesses ==
  ASSUME PInv,
         \/ \E c \in Caller : Rec!StopSignal(c) \/ Rec!StopTimeout(c)
         \/ \E e \in Rec!Epoch : Rec!ProcessListens(e) \/ Rec!ProcessExits(e) \/ Rec!Waited(e)
  PROVE  PInv'
  <1>1. UNCHANGED <<epoch, cmd, closes, mu, enabled, exitCh>>
    BY DEF Rec!StopSignal, Rec!StopTimeout, Rec!ProcessListens, Rec!ProcessExits, Rec!Waited
  <1>2. /\ DOMAIN pos' = Rec!Thread /\ seen' \in [Rec!Thread -> [ctx : Nat, exit : Nat]]
        /\ Quiet
    <2>1. CASE UNCHANGED <<pos, seen>>
      BY <1>1, <2>1, RecFacts DEF Quiet
    <2>2. ASSUME NEW c \in Caller, Rec!StopSignal(c)
          PROVE  /\ DOMAIN pos' = Rec!Thread /\ seen' \in [Rec!Thread -> [ctx : Nat, exit : Nat]]
                 /\ Quiet
      <3>1. /\ pos[c] = "signal" /\ \E l \in {"finish", "wait"} : pos' = [pos EXCEPT ![c] = l]
            /\ seen' = [seen EXCEPT ![c] = [seen[c] EXCEPT !.exit = exitCh]]
        BY <2>2, RecFacts DEF Rec!StopSignal, Rec!Goto
      <3>2. [seen[c] EXCEPT !.exit = exitCh] \in [ctx : Nat, exit : Nat]
            /\ [seen[c] EXCEPT !.exit = exitCh].ctx = seen[c].ctx
        BY RecFacts
      <3>3. QED
        BY <1>1, <3>1, <3>2, RecFacts DEF Quiet
    <2>3. ASSUME NEW c \in Caller, Rec!StopTimeout(c)
          PROVE  /\ DOMAIN pos' = Rec!Thread /\ seen' \in [Rec!Thread -> [ctx : Nat, exit : Nat]]
                 /\ Quiet
      <3>1. pos[c] = "wait" /\ pos' = [pos EXCEPT ![c] = "finish"] /\ UNCHANGED seen
        BY <2>3 DEF Rec!StopTimeout, Rec!Goto
      <3>2. QED
        BY <1>1, <3>1, RecFacts DEF Quiet
    <2>4. QED
      BY <2>1, <2>2, <2>3 DEF Rec!ProcessListens, Rec!ProcessExits, Rec!Waited
  <1>3. proc' \in [Rec!Epoch -> Process] /\ NoStart
    <2>1. ASSUME NEW e \in Rec!Epoch, NEW s \in {"up", "signalled", "killed", "dead"},
                 s \in {"up", "signalled"} => e \in Live, proc' = [proc EXCEPT ![e] = s]
          PROVE  proc' \in [Rec!Epoch -> Process] /\ NoStart
      BY <2>1, RecFacts DEF NoStart, Live, Process
    <2>2. CASE UNCHANGED proc
      BY <2>2, RecFacts DEF NoStart, Live
    <2>3. ASSUME NEW c \in Caller, Rec!StopSignal(c)
          PROVE  proc' \in [Rec!Epoch -> Process] /\ NoStart
      <3>1. CASE UNCHANGED proc
        BY <2>2, <3>1
      <3>2. CASE cmd # 0 /\ proc' = [proc EXCEPT ![cmd] = IF @ = "up" THEN "signalled" ELSE @]
        <4>1. cmd \in Rec!Epoch
          BY <3>2, RecFacts
        <4>2. CASE proc[cmd] = "up"
          <5>1. proc' = [proc EXCEPT ![cmd] = "signalled"] /\ cmd \in Live
            BY <3>2, <4>1, <4>2, RecFacts DEF Live
          <5>2. QED
            BY <2>1, <4>1, <5>1
        <4>3. CASE proc[cmd] # "up"
          <5>1. UNCHANGED proc
            BY <3>2, <4>1, <4>3, RecFacts
          <5>2. QED
            BY <2>2, <5>1
        <4>4. QED
          BY <4>2, <4>3
      <3>3. QED
        BY <2>3, <3>1, <3>2 DEF Rec!StopSignal
    <2>4. ASSUME NEW c \in Caller, Rec!StopTimeout(c)
          PROVE  proc' \in [Rec!Epoch -> Process] /\ NoStart
      BY <2>1, <2>2, <2>4 DEF Rec!StopTimeout, Rec!Kill
    <2>5. ASSUME NEW e \in Rec!Epoch, Rec!ProcessListens(e)
          PROVE  proc' \in [Rec!Epoch -> Process] /\ NoStart
      BY <2>1, <2>5 DEF Rec!ProcessListens, Live
    <2>6. ASSUME NEW e \in Rec!Epoch, Rec!ProcessExits(e)
          PROVE  proc' \in [Rec!Epoch -> Process] /\ NoStart
      BY <2>1, <2>6 DEF Rec!ProcessExits
    <2>7. ASSUME NEW e \in Rec!Epoch, Rec!Waited(e)
          PROVE  proc' \in [Rec!Epoch -> Process] /\ NoStart
      BY <2>2, <2>7 DEF Rec!Waited
    <2>8. QED
      BY <2>3, <2>4, <2>5, <2>6, <2>7
  <1>4. RecType'
    BY <1>1, <1>2, <1>3, RecFacts DEF RecType
  <1>5. QED
    BY <1>2, <1>3, <1>4, QuietStep

\* Start takes m.mu and makes the channel of a new epoch.
LEMMA BeginStep ==
  ASSUME PInv, NEW t \in Rec!Thread, Rec!Begin(t), epoch # Epochs
  PROVE  PInv'
  <1>1. /\ pos[t] = "begin" /\ mu = None /\ mu' = t /\ epoch' = epoch + 1
        /\ pos' = [pos EXCEPT ![t] = "port"]
        /\ UNCHANGED <<enabled, closes, proc, cmd, exitCh, seen>>
    BY DEF Rec!Begin, Rec!Goto, Rec!procVars
  <1>2. /\ \A u \in Rec!Thread : pos[u] \notin {"port", "ready"}
        /\ \A u \in Rec!Thread : u # t => pos'[u] = pos[u]
        /\ pos'[t] = "port" /\ DOMAIN pos' = Rec!Thread
    BY <1>1, RecFacts DEF PInv, Locked
  <1>3. epoch' \in 1 .. Epochs /\ epoch' \in Rec!Epoch /\ epoch' > epoch
    BY <1>1, RecFacts
  <1>4. RecType'
    BY <1>1, <1>2, <1>3, RecFacts DEF RecType
  <1>5. Locked'
    BY <1>1, <1>2 DEF Locked
  <1>6. Starting'
    <2>1. Live' = Live
      BY <1>1 DEF Live
    <2>2. \A u \in Rec!Thread : pos'[u] # "ready"
      BY <1>2
    <2>3. \A e \in Rec!Epoch : proc'[e] # "starting"
      BY <1>1, <1>2 DEF PInv, Starting
    <2>4. QED
      BY <2>1, <2>2, <2>3 DEF PInv, Starting
  <1>7. ClosedOnce'
    <2>1. \A c \in Caller : (pos'[c] = "close" <=> pos[c] = "close")
      BY <1>1, <1>2, RecFacts
    <2>2. \A c \in Caller : \A e : Closer(c, e)' <=> Closer(c, e)
      BY <1>1, <2>1 DEF Closer
    <2>3. \A e \in Rec!Epoch : Untouched(e)' <=> Untouched(e)
      BY <1>1, <2>2 DEF Untouched
    <2>4. Untouched(epoch)'
      <3>1. Untouched(epoch')
        BY <1>3 DEF PInv, ClosedOnce
      <3>2. QED
        BY <1>1, <2>2, <3>1 DEF Untouched
    <2>5. /\ \A e \in Rec!Epoch : closes'[e] <= 1 /\ (e > epoch' => Untouched(e)')
          /\ \A c, d \in Caller : \A e \in Rec!Epoch : Closer(c, e)' /\ Closer(d, e)' => c = d
      <3>1. \A e \in Rec!Epoch : e > epoch' => e > epoch
        BY <1>1, RecFacts
      <3>2. QED
        BY <1>1, <2>2, <2>3, <3>1 DEF PInv, ClosedOnce
    <2>6. \A c \in Caller : pos'[c] = "close" =>
                                seen'[c].ctx \in Rec!Epoch /\ closes'[seen'[c].ctx] = 0
      BY <1>1, <2>1 DEF PInv, ClosedOnce
    <2>7. epoch' > 0
      BY <1>3
    <2>8. QED
      BY <1>2, <2>4, <2>5, <2>6, <2>7 DEF ClosedOnce
  <1>8. QED
    BY <1>4, <1>5, <1>6, <1>7 DEF PInv, Rec!RecursorAssumption

\* The process is started.
LEMMA ExecStep ==
  ASSUME PInv, NEW t \in Rec!Thread, Rec!Exec(t)
  PROVE  PInv'
  <1>1. /\ pos[t] = "port" /\ Rec!Listening = {} /\ cmd' = epoch
        /\ proc' = [proc EXCEPT ![epoch] = "starting"] /\ enabled' = TRUE
        /\ pos' = [pos EXCEPT ![t] = "ready"]
        /\ UNCHANGED <<mu, epoch, closes, exitCh, seen>>
    BY DEF Rec!Exec, Rec!PortTaken, Rec!Goto
  <1>2. /\ mu = t /\ epoch > 0 /\ Untouched(epoch) /\ epoch \in Rec!Epoch
        /\ \A u \in Rec!Thread : u # t => pos[u] \notin {"port", "ready"} /\ pos'[u] = pos[u]
        /\ pos'[t] = "ready" /\ DOMAIN pos' = Rec!Thread
    BY <1>1, RecFacts DEF PInv, Locked, ClosedOnce
  <1>3. RecType'
    BY <1>1, <1>2, RecFacts DEF RecType, Process
  <1>4. Locked'
    BY <1>1, <1>2 DEF Locked
  <1>5. Live = {}
    <2>1. \A e \in Rec!Epoch : proc[e] # "starting"
      BY <1>1, <1>2 DEF PInv, Starting
    <2>2. QED
      BY <1>1, <2>1 DEF Live, Rec!Listening
  <1>6. Live' \subseteq {epoch}
    BY <1>1, <1>2, <1>5, RecFacts DEF Live
  <1>7. Starting'
    BY <1>1, <1>2, <1>6 DEF Starting
  <1>8. ClosedOnce'
    <2>1. \A c \in Caller : (pos'[c] = "close" <=> pos[c] = "close")
      BY <1>1, <1>2, RecFacts
    <2>2. \A c \in Caller : \A e : Closer(c, e)' <=> Closer(c, e)
      BY <1>1, <2>1 DEF Closer
    <2>3. \A e \in Rec!Epoch : Untouched(e)' <=> Untouched(e)
      BY <1>1, <2>2 DEF Untouched
    <2>4. Untouched(epoch)'
      BY <1>1, <1>2, <2>2 DEF Untouched
    <2>5. /\ \A e \in Rec!Epoch : closes'[e] <= 1 /\ (e > epoch' => Untouched(e)')
          /\ \A c, d \in Caller : \A e \in Rec!Epoch : Closer(c, e)' /\ Closer(d, e)' => c = d
      BY <1>1, <2>2, <2>3 DEF PInv, ClosedOnce
    <2>6. \A c \in Caller : pos'[c] = "close" =>
                                seen'[c].ctx \in Rec!Epoch /\ closes'[seen'[c].ctx] = 0
      BY <1>1, <2>1 DEF PInv, ClosedOnce
    <2>7. epoch' > 0
      BY <1>1, <1>2
    <2>8. QED
      BY <1>2, <2>4, <2>5, <2>6, <2>7 DEF ClosedOnce
  <1>9. QED
    BY <1>3, <1>4, <1>7, <1>8 DEF PInv, Rec!RecursorAssumption

\* Start ends and gives up m.mu; a process that did not become ready is killed first.
LEMMA StartEnds ==
  ASSUME PInv, NEW t \in Rec!Thread, Rec!StartFails(t) \/ Rec!Ready(t) \/ Rec!NotReady(t)
  PROVE  PInv'
  <1>1. /\ pos[t] \in {"port", "ready"} /\ mu' = None /\ UNCHANGED <<epoch, closes>>
        /\ cmd' \in {cmd, epoch} /\ exitCh' \in {exitCh, epoch}
    BY DEF Rec!StartFails, Rec!Ready, Rec!NotReady
  <1>2. enabled' => enabled
    BY Zenon DEF Rec!StartFails, Rec!Ready, Rec!NotReady
  <1>3. /\ mu = t /\ epoch > 0 /\ epoch \in Rec!Epoch
        /\ \A u \in Rec!Thread : u # t => pos[u] \notin {"port", "ready"}
    BY <1>1, RecFacts DEF PInv, Locked, ClosedOnce
  <1>4. epoch' \in Nat /\ exitCh' \in Nat
    BY <1>1, RecFacts
  <1>5. /\ DOMAIN pos' = Rec!Thread /\ seen' \in [Rec!Thread -> [ctx : Nat, exit : Nat]]
        /\ \A u \in Rec!Thread : pos'[u] \notin {"port", "ready"}
        /\ \A c \in Caller : pos'[c] = "close" => pos[c] = "close" /\ seen'[c] = seen[c]
    <2>1. CASE Rec!Failed(t)
      <3>1. PICK l \in {"idle", "select"} : pos' = [pos EXCEPT ![t] = l]
        BY <1>4, <2>1, FailedStep
      <3>2. /\ seen' \in [Rec!Thread -> [ctx : Nat, exit : Nat]]
            /\ \A c \in Caller : seen'[c] = seen[c]
        BY <1>4, <2>1, FailedStep
      <3>3. QED
        BY <1>3, <3>1, <3>2, RecFacts
    <2>2. CASE Rec!Ready(t)
      <3>1. /\ \E l \in {"idle", "ended"} : pos' = [pos EXCEPT ![t] = l, ![epoch] = "select"]
            /\ seen' = [seen EXCEPT ![epoch] = [ctx |-> epoch, exit |-> epoch]]
        BY <2>2 DEF Rec!Ready
      <3>2. epoch \in Rec!Thread /\ epoch \notin Caller /\ epoch \in Nat
        BY <1>3, RecFacts
      <3>3. /\ DOMAIN pos' = Rec!Thread
            /\ \A u \in Rec!Thread : \/ (pos'[u] = pos[u] /\ u # t)
                                     \/ pos'[u] \in {"idle", "ended", "select"}
        BY <3>1, <3>2, RecFacts
      <3>4. /\ seen' \in [Rec!Thread -> [ctx : Nat, exit : Nat]]
            /\ \A c \in Caller : seen'[c] = seen[c]
        BY <3>1, <3>2, RecFacts
      <3>5. QED
        BY <1>3, <3>3, <3>4, RecFacts
    <2>3. QED
      BY <2>1, <2>2 DEF Rec!StartFails, Rec!NotReady
  <1>6. /\ proc' \in [Rec!Epoch -> Process] /\ Live' \subseteq Live
        /\ \A e \in Rec!Epoch : proc'[e] # "starting"
    <2>0. pos[t] = "port" => \A e \in Rec!Epoch : proc[e] # "starting"
      BY <1>3 DEF PInv, Starting
    <2>1. CASE Rec!StartFails(t)
      <3>1. pos[t] = "port" /\ UNCHANGED proc
        BY <2>1 DEF Rec!StartFails
      <3>2. QED
        BY <2>0, <3>1, RecFacts DEF Live
    <2>2. CASE Rec!Ready(t)
      <3>1. pos[t] = "ready" /\ UNCHANGED proc /\ Rec!Listening # {}
        BY <2>2 DEF Rec!Ready
      <3>2. PICK l \in Rec!Epoch : proc[l] \in {"up", "signalled"}
        BY <3>1 DEF Rec!Listening
      <3>3. Live \subseteq {epoch} /\ l \in Live
        BY <3>1, <3>2 DEF PInv, Starting, Live
      <3>4. \A e \in Rec!Epoch : proc[e] = "starting" => e = l
        BY <3>3 DEF Live
      <3>5. QED
        BY <3>1, <3>2, <3>4, RecFacts DEF Live
    <2>3. CASE Rec!NotReady(t)
      <3>1. pos[t] = "ready" /\ Rec!Kill(cmd)
        BY <2>3 DEF Rec!NotReady
      <3>2. cmd = epoch /\ Live \subseteq {epoch}
        BY <3>1 DEF PInv, Starting
      <3>3. CASE proc[epoch] \in {"starting", "up", "signalled"}
        <4>1. proc' = [proc EXCEPT ![epoch] = "killed"]
          BY <1>3, <3>1, <3>2, <3>3 DEF Rec!Kill
        <4>2. QED
          BY <1>3, <3>2, <4>1, RecFacts DEF Live, Process
      <3>4. CASE proc[epoch] \notin {"starting", "up", "signalled"}
        <4>1. UNCHANGED proc
          BY <3>1, <3>2, <3>4 DEF Rec!Kill
        <4>2. QED
          BY <3>2, <3>4, <4>1, RecFacts DEF Live
      <3>5. QED
        BY <3>3, <3>4
    <2>4. QED
      BY <2>1, <2>2, <2>3
  <1>7. RecType'
    BY <1>1, <1>4, <1>5, <1>6, RecFacts DEF RecType
  <1>8. Locked' /\ Starting'
    BY <1>5, <1>6 DEF PInv, Locked, Starting
  <1>9. ClosedOnce'
    <2>1. \A c \in Caller : \A e : Closer(c, e)' => Closer(c, e)
      BY <1>5 DEF Closer
    <2>2. \A e \in Rec!Epoch : Untouched(e) => Untouched(e)'
      BY <1>1, <2>1 DEF Untouched
    <2>3. enabled => epoch' > 0 /\ Untouched(epoch)'
      BY <1>1, <1>3, <2>1 DEF PInv, ClosedOnce, Untouched
    <2>4. /\ \A e \in Rec!Epoch : closes'[e] <= 1 /\ (e > epoch' => Untouched(e)')
          /\ \A c, d \in Caller : \A e \in Rec!Epoch : Closer(c, e)' /\ Closer(d, e)' => c = d
      BY <1>1, <2>1, <2>2 DEF PInv, ClosedOnce
    <2>5. \A c \in Caller : pos'[c] = "close" =>
                                seen'[c].ctx \in Rec!Epoch /\ closes'[seen'[c].ctx] = 0
      BY <1>1, <1>5 DEF PInv, ClosedOnce
    <2>6. QED
      BY <1>2, <1>5, <2>3, <2>4, <2>5 DEF ClosedOnce
  <1>10. QED
    BY <1>7, <1>8, <1>9 DEF PInv, Rec!RecursorAssumption

\* Stop: the channel is chosen under m.mu and closed without it.
LEMMA StopSteps ==
  ASSUME PInv, NEW c \in Caller, Rec!CallStop(c) \/ Rec!StopClose(c)
  PROVE  PInv'
  <1>0. c \in Rec!Thread
    BY RecFacts
  <1>1. CASE Rec!CallStop(c)
    <2>1. /\ pos[c] = "idle" /\ mu = None /\ enabled /\ enabled' = FALSE
          /\ pos' = [pos EXCEPT ![c] = "close"]
          /\ seen' = [seen EXCEPT ![c] = [seen[c] EXCEPT !.ctx = epoch]]
          /\ UNCHANGED <<mu, epoch, closes, proc, cmd, exitCh>>
      BY <1>0, <1>1, RecFacts DEF Rec!CallStop, Rec!Goto, Rec!procVars
    <2>2. [seen[c] EXCEPT !.ctx = epoch] \in [ctx : Nat, exit : Nat]
          /\ [seen[c] EXCEPT !.ctx = epoch].ctx = epoch
      BY <1>0, RecFacts
    <2>3. /\ DOMAIN pos' = Rec!Thread /\ pos'[c] = "close"
          /\ \A u \in Rec!Thread : pos[u] \notin {"port", "ready"}
          /\ \A u \in Rec!Thread : u # c => pos'[u] = pos[u] /\ seen'[u] = seen[u]
          /\ seen'[c].ctx = epoch /\ seen' \in [Rec!Thread -> [ctx : Nat, exit : Nat]]
      BY <1>0, <2>1, <2>2, RecFacts DEF PInv, Locked
    <2>4. epoch > 0 /\ epoch \in Rec!Epoch /\ Untouched(epoch)
      BY <2>1, RecFacts DEF PInv, ClosedOnce
    <2>5. RecType'
      BY <2>1, <2>3, RecFacts DEF RecType
    <2>6. Locked' /\ Starting'
      BY <2>1, <2>3 DEF PInv, Locked, Starting, Live
    <2>7. ClosedOnce'
      <3>1. \A d \in Caller : \A e : Closer(d, e)' <=> IF d = c THEN e = epoch ELSE Closer(d, e)
        BY <1>0, <2>3, RecFacts DEF Closer
      <3>2. \A e \in Rec!Epoch : Untouched(e) /\ e # epoch => Untouched(e)'
        BY <2>1, <3>1 DEF Untouched
      <3>3. \A e \in Rec!Epoch : closes'[e] <= 1 /\ (e > epoch' => Untouched(e)')
        <4>1. \A e \in Rec!Epoch : e > epoch => e # epoch
          BY RecFacts
        <4>2. QED
          BY <2>1, <3>2, <4>1 DEF PInv, ClosedOnce
      <3>4. \A d, f \in Caller : \A e \in Rec!Epoch : Closer(d, e)' /\ Closer(f, e)' => d = f
        BY <2>4, <3>1 DEF PInv, ClosedOnce, Untouched
      <3>5. ASSUME NEW d \in Caller, pos'[d] = "close"
            PROVE  seen'[d].ctx \in Rec!Epoch /\ closes'[seen'[d].ctx] = 0
        <4>1. CASE d = c
          BY <2>1, <2>3, <2>4, <4>1 DEF Untouched
        <4>2. CASE d # c
          BY <2>1, <2>3, <3>5, <4>2, RecFacts DEF PInv, ClosedOnce
        <4>3. QED
          BY <4>1, <4>2
      <3>6. \A u \in Rec!Thread : pos'[u] \notin {"port", "ready"}
        BY <2>3
      <3>7. ~enabled'
        BY <2>1
      <3>8. QED
        BY <3>3, <3>4, <3>5, <3>6, <3>7 DEF ClosedOnce
    <2>8. QED
      BY <2>5, <2>6, <2>7 DEF PInv, Rec!RecursorAssumption
  <1>2. CASE Rec!StopClose(c)
    <2> DEFINE x == seen[c].ctx
    <2>1. /\ pos[c] = "close" /\ closes' = [closes EXCEPT ![x] = @ + 1]
          /\ pos' = [pos EXCEPT ![c] = "signal"]
          /\ UNCHANGED <<enabled, mu, epoch, proc, cmd, exitCh, seen>>
      BY <1>2 DEF Rec!StopClose, Rec!Goto
    <2>2. x \in Rec!Epoch /\ closes[x] = 0 /\ Closer(c, x)
      BY <2>1 DEF PInv, ClosedOnce, Closer
    <2>3. /\ DOMAIN pos' = Rec!Thread /\ pos'[c] = "signal"
          /\ \A u \in Rec!Thread : u # c => pos'[u] = pos[u]
          /\ closes' \in [Rec!Epoch -> Nat] /\ closes'[x] = 1
          /\ \A e \in Rec!Epoch : e # x => closes'[e] = closes[e]
      BY <1>0, <2>1, <2>2, RecFacts
    <2> HIDE DEF x
    <2>4. RecType'
      BY <2>1, <2>3, RecFacts DEF RecType
    <2>5. \A u \in Rec!Thread : /\ pos'[u] = "port" <=> pos[u] = "port"
                                /\ pos'[u] = "ready" <=> pos[u] = "ready"
      BY <1>0, <2>1, <2>3
    <2>6. Locked' /\ Starting'
      BY <2>1, <2>5 DEF PInv, Locked, Starting, Live
    <2>7. ClosedOnce'
      <3>1. \A d \in Caller : \A e : Closer(d, e)' => Closer(d, e) /\ d # c
        BY <1>0, <2>1, <2>3, RecFacts DEF Closer
      <3>2. \A e \in Rec!Epoch : Untouched(e) => e # x /\ Untouched(e)'
        BY <2>2, <2>3, <3>1 DEF Untouched
      <3>3. \A e \in Rec!Epoch : closes'[e] <= 1 /\ (e > epoch' => Untouched(e)')
        BY <2>1, <2>2, <2>3, <3>2 DEF PInv, ClosedOnce
      <3>4. \A d, f \in Caller : \A e \in Rec!Epoch : Closer(d, e)' /\ Closer(f, e)' => d = f
        BY <3>1 DEF PInv, ClosedOnce
      <3>5. ASSUME NEW d \in Caller, pos'[d] = "close"
            PROVE  seen'[d].ctx \in Rec!Epoch /\ closes'[seen'[d].ctx] = 0
        <4>1. d # c /\ pos[d] = "close" /\ seen'[d] = seen[d]
          BY <1>0, <2>1, <2>3, <3>5, RecFacts
        <4>2. seen[d].ctx \in Rec!Epoch /\ closes[seen[d].ctx] = 0
          BY <4>1 DEF PInv, ClosedOnce
        <4>3. seen[d].ctx # x
          BY <2>2, <4>1 DEF PInv, ClosedOnce, Closer
        <4>4. QED
          BY <2>3, <4>1, <4>2, <4>3
      <3>6. epoch > 0 /\ Untouched(epoch) => epoch' > 0 /\ Untouched(epoch)'
        <4>1. epoch > 0 /\ Untouched(epoch) => epoch \in Rec!Epoch /\ epoch # x
          BY <3>2, RecFacts
        <4>2. QED
          BY <2>1, <2>3, <3>1, <4>1 DEF Untouched
      <3>7. QED
        BY <2>1, <2>5, <3>3, <3>4, <3>5, <3>6 DEF PInv, ClosedOnce
    <2>8. QED
      BY <2>4, <2>6, <2>7 DEF PInv, Rec!RecursorAssumption
  <1>3. QED
    BY <1>1, <1>2

\* Every step keeps the invariant.
LEMMA NextRecursor == PInv /\ [Rec!Next]_(Rec!recVars) => PInv'
  <1> SUFFICES ASSUME PInv, [Rec!Next]_(Rec!recVars) PROVE PInv'
    OBVIOUS
  <1>0. Caller \subseteq Rec!Thread /\ Rec!Epoch \subseteq Rec!Thread
    BY RecFacts
  <1>1. ASSUME NEW c \in Caller, Rec!CallStart(c) \/ Rec!CallStop(c) \/ Rec!Stop(c)
        PROVE  PInv'
    <2>0. c \in Rec!Thread
      BY <1>0
    <2>1. CASE Rec!CallStart(c) \/ Rec!StopExited(c) \/ Rec!StopFinish(c)
      BY <2>0, <2>1, QuietCalls
    <2>2. CASE Rec!CallStop(c) \/ Rec!StopClose(c)
      BY <2>2, StopSteps
    <2>3. CASE Rec!StopSignal(c) \/ Rec!StopTimeout(c)
      BY <2>3, QuietProcesses
    <2>4. QED
      BY <1>1, <2>1, <2>2, <2>3 DEF Rec!Stop
  <1>2. ASSUME NEW t \in Rec!Thread, Rec!Start(t) PROVE PInv'
    <2>1. CASE Rec!StartCheck(t) \/ Rec!Initialize(t) \/ (Rec!Begin(t) /\ epoch = Epochs)
      BY <2>1, QuietCalls
    <2>2. CASE Rec!Begin(t) /\ epoch # Epochs
      BY <2>2, BeginStep
    <2>3. CASE Rec!StartFails(t) \/ Rec!Ready(t) \/ Rec!NotReady(t)
      BY <2>3, StartEnds
    <2>4. CASE Rec!Exec(t)
      BY <2>4, ExecStep
    <2>5. QED
      BY <1>2, <2>1, <2>2, <2>3, <2>4 DEF Rec!Start
  <1>3. ASSUME NEW l \in Rec!Epoch, Rec!Loop(l) \/ Rec!LoopTick(l) PROVE PInv'
    <2>1. l \in Rec!Thread
      BY <1>0
    <2>2. QED
      BY <1>3, <2>1, QuietCalls
  <1>4. CASE \E e \in Rec!Epoch : Rec!ProcessListens(e) \/ Rec!ProcessExits(e) \/ Rec!Waited(e)
    BY <1>4, QuietProcesses
  <1>5. CASE UNCHANGED Rec!recVars
    <2>1. UNCHANGED <<enabled, mu, epoch, closes, proc, cmd, exitCh, pos, seen>>
      BY <1>5 DEF Rec!recVars
    <2>2. RecType'
      BY <2>1 DEF PInv, RecType
    <2>3. Quiet /\ NoStart
      BY <2>1 DEF Quiet, NoStart, Live
    <2>4. QED
      BY <2>2, <2>3, QuietStep
  <1>6. QED
    BY <1>1, <1>2, <1>3, <1>4, <1>5 DEF Rec!Next

\* However the calls of Start and Stop, the health loops, the process and its waiters
\* interleave, and however often the recursor is started: at most one unbound process
\* lives, and no stop channel is closed twice, though neither Start nor Stop holds m.mu
\* throughout.
THEOREM OneRecursor == Rec!RecursorAssumption /\ Rec!Spec => []OneProcess
  <1>1. Rec!RecursorAssumption /\ Rec!Init => PInv
    <2> SUFFICES ASSUME Rec!RecursorAssumption, Rec!Init PROVE PInv
      OBVIOUS
    <2>1. /\ Epochs \in Nat /\ enabled = FALSE /\ mu = None /\ epoch = 0 /\ cmd = 0 /\ exitCh = 0
          /\ closes = [e \in Rec!Epoch |-> 0] /\ proc = [e \in Rec!Epoch |-> "none"]
          /\ pos = [t \in Rec!Thread |-> IF t \in Caller THEN "idle" ELSE "none"]
          /\ seen = [t \in Rec!Thread |-> [ctx |-> 0, exit |-> 0]]
          /\ Caller \subseteq Rec!Thread
      BY DEF Rec!Init, Rec!RecursorAssumption, Rec!Thread
    <2>2. RecType
      BY <2>1 DEF RecType, Process
    <2>3. \A t \in Rec!Thread : pos[t] \in {"idle", "none"}
      BY <2>1
    <2>4. Locked
      BY <2>3 DEF Locked
    <2>5. Starting
      BY <2>1, <2>3 DEF Starting, Live
    <2>6. \A e \in Rec!Epoch : closes[e] = 0 /\ Untouched(e)
      BY <2>1, <2>3 DEF Untouched, Closer
    <2>7. ClosedOnce
      BY <2>1, <2>3, <2>6 DEF ClosedOnce, Closer
    <2>8. QED
      BY <2>2, <2>4, <2>5, <2>7 DEF PInv
  <1>2. PInv => OneProcess
    <2> SUFFICES ASSUME PInv PROVE Cardinality(Live) <= 1
      BY DEF PInv, ClosedOnce, OneProcess, Rec!OneProcess, Live, Cardinality, Rec!Cardinality
    <2>1. CASE Live = {}
      BY <2>1, FS_EmptySet
    <2>2. CASE Live # {}
      <3>1. PICK e \in Live : TRUE
        BY <2>2
      <3>2. Live = {e}
        BY <3>1 DEF PInv, Starting
      <3>3. QED
        BY <3>2, FS_Singleton
    <2>3. QED
      BY <2>1, <2>2
  <1>3. QED
    BY <1>1, <1>2, NextRecursor, PTL DEF Rec!Spec

-----------------------------------------------------------------------------
(***************************************************************************)
(* The update of the block lists.                                          *)
(***************************************************************************)
UnderWay == {"try", "copy", "rename"}
Flying(j) == {s \in Source : j[s] \in UnderWay}

RuleTypes ==
    /\ step \in [Builder -> {"idle", "start", "download", "save", "load", "swap"}]
    /\ job \in [Builder -> [Source -> Rules!Job]] /\ slots \in [Builder -> Nat]
    /\ file \in [Source -> Rules!Content]
    /\ tmp \in [Source -> Rules!Content]

\* Only an update downloads, and it waits for its downloads.
Placed ==
    \A u \in Builder : /\ \A s \in Source : job[u][s] # "done" => step[u] = "download"
                       /\ step[u] \in {"start", "download"} => u \in Updater

\* The slots taken are those of the downloads under way.
Slotted ==
    \A u \in Builder : slots[u] = Cardinality(Flying(job[u])) /\ slots[u] <= MaxConcurrent

\* What an update is about to rename is no unfinished download of its own.
Whole ==
    \A s \in Source : /\ file[s] # "part"
                      /\ \A u \in Builder : job[u][s] = "rename" => tmp[s] # "part"

RuInv ==
    /\ Rules!RuleAssumption
    /\ RuleTypes /\ Placed /\ Slotted /\ Whole

\* Downloads under way are finitely many.
LEMMA FlyingFinite ==
  ASSUME Rules!RuleAssumption, NEW j
  PROVE  IsFiniteSet(Flying(j)) /\ Cardinality(Flying(j)) \in Nat
  <1>1. IsFiniteSet(Source)
    BY DEF Rules!RuleAssumption, IsFiniteSet, Rules!IsFiniteSet
  <1>2. Flying(j) \in SUBSET Source
    BY DEF Flying
  <1>3. QED
    BY <1>1, <1>2, FS_Subset, FS_CardinalityType

\* One download moves: how many are under way then.
LEMMA FlyingMoves ==
  ASSUME Rules!RuleAssumption, NEW j \in [Source -> Rules!Job], NEW s \in Source, NEW p \in Rules!Job
  PROVE  LET k == [j EXCEPT ![s] = p]
         IN  /\ (j[s] \in UnderWay <=> p \in UnderWay)
                   => Cardinality(Flying(k)) = Cardinality(Flying(j))
             /\ j[s] \in UnderWay /\ p \notin UnderWay
                   => Cardinality(Flying(k)) = Cardinality(Flying(j)) - 1
             /\ j[s] \notin UnderWay /\ p \in UnderWay
                   => Cardinality(Flying(k)) = Cardinality(Flying(j)) + 1
  <1> DEFINE k == [j EXCEPT ![s] = p]
  <1>0. IsFiniteSet(Flying(j)) /\ Cardinality(Flying(j)) \in Nat
    BY FlyingFinite
  <1>1. k[s] = p /\ \A t \in Source \ {s} : k[t] = j[t]
    OBVIOUS
  <1> HIDE DEF k
  <1>2. (j[s] \in UnderWay <=> p \in UnderWay) => Flying(k) = Flying(j)
    BY <1>1 DEF Flying
  <1>3. ASSUME j[s] \in UnderWay, p \notin UnderWay
        PROVE  Cardinality(Flying(k)) = Cardinality(Flying(j)) - 1
    <2>1. Flying(k) = Flying(j) \ {s} /\ s \in Flying(j)
      BY <1>1, <1>3 DEF Flying
    <2>2. QED
      BY <1>0, <2>1, FS_RemoveElement
  <1>4. ASSUME j[s] \notin UnderWay, p \in UnderWay
        PROVE  Cardinality(Flying(k)) = Cardinality(Flying(j)) + 1
    <2>1. Flying(k) = Flying(j) \cup {s} /\ s \notin Flying(j)
      BY <1>1, <1>4 DEF Flying
    <2>2. QED
      BY <1>0, <2>1, FS_AddElement
  <1>5. QED
    BY <1>2, <1>3, <1>4 DEF k

\* The part of the invariant that a step of a download leaves to be shown.
Counted == /\ job \in [Builder -> [Source -> Rules!Job]] /\ slots \in [Builder -> Nat]
           /\ Placed /\ Slotted

\* A download that takes, keeps or gives back its slot.
LEMMA JobMoves ==
  ASSUME RuInv, NEW u \in Builder, NEW s \in Source, NEW p \in Rules!Job,
         job[u][s] # "done", job' = [job EXCEPT ![u][s] = p], UNCHANGED step,
         \/ /\ job[u][s] \in UnderWay /\ p \in UnderWay /\ UNCHANGED slots
         \/ /\ job[u][s] \in UnderWay /\ p \notin UnderWay
            /\ slots' = [slots EXCEPT ![u] = slots[u] - 1]
         \/ /\ job[u][s] \notin UnderWay /\ p \in UnderWay /\ slots[u] < MaxConcurrent
            /\ slots' = [slots EXCEPT ![u] = slots[u] + 1]
  PROVE  Counted'
  <1> DEFINE k == [job[u] EXCEPT ![s] = p]
  <1>0. Rules!RuleAssumption /\ RuleTypes /\ Placed /\ Slotted
    BY DEF RuInv
  <1>1. job[u] \in [Source -> Rules!Job] /\ k \in [Source -> Rules!Job]
    BY <1>0 DEF RuleTypes
  <1>2. job' = [job EXCEPT ![u] = k]
    BY <1>0 DEF RuleTypes
  <1>3. job' \in [Builder -> [Source -> Rules!Job]] /\ job'[u] = k
    BY <1>0, <1>1, <1>2 DEF RuleTypes
  <1>4. \A v \in Builder \ {u} : job'[v] = job[v] /\ slots'[v] = slots[v]
    BY <1>0, <1>2 DEF RuleTypes
  <1>5. Cardinality(Flying(job[u])) \in Nat /\ Cardinality(Flying(k)) \in Nat
    BY <1>0, FlyingFinite
  <1>6. slots[u] = Cardinality(Flying(job[u])) /\ slots[u] <= MaxConcurrent /\ MaxConcurrent \in Nat
    BY <1>0 DEF Slotted, Rules!RuleAssumption
  <1>7. slots'[u] = Cardinality(Flying(k)) /\ slots'[u] <= MaxConcurrent
    <2>1. CASE job[u][s] \in UnderWay /\ p \in UnderWay /\ UNCHANGED slots
      BY <1>0, <1>1, <1>6, <2>1, FlyingMoves
    <2>2. CASE /\ job[u][s] \in UnderWay /\ p \notin UnderWay
               /\ slots' = [slots EXCEPT ![u] = slots[u] - 1]
      <3>1. slots'[u] = slots[u] - 1
        BY <1>0, <2>2 DEF RuleTypes
      <3>2. Cardinality(Flying(k)) = Cardinality(Flying(job[u])) - 1
        BY <1>0, <1>1, <2>2, FlyingMoves
      <3>3. QED
        BY <1>5, <1>6, <3>1, <3>2
    <2>3. CASE /\ job[u][s] \notin UnderWay /\ p \in UnderWay /\ slots[u] < MaxConcurrent
               /\ slots' = [slots EXCEPT ![u] = slots[u] + 1]
      <3>1. slots'[u] = slots[u] + 1
        BY <1>0, <2>3 DEF RuleTypes
      <3>2. Cardinality(Flying(k)) = Cardinality(Flying(job[u])) + 1
        BY <1>0, <1>1, <2>3, FlyingMoves
      <3>3. QED
        BY <1>5, <1>6, <2>3, <3>1, <3>2
    <2>4. QED
      BY <2>1, <2>2, <2>3
  <1>8. slots' \in [Builder -> Nat]
    <2>1. DOMAIN slots' = Builder /\ slots' = [v \in Builder |-> slots'[v]]
      BY <1>0 DEF RuleTypes
    <2>2. \A v \in Builder : slots'[v] \in Nat
      BY <1>0, <1>4, <1>5, <1>7 DEF RuleTypes
    <2>3. QED
      BY <2>1, <2>2
  <1>9. Slotted'
    BY <1>0, <1>3, <1>4, <1>7 DEF Slotted
  <1>10. Placed'
    <2>1. step[u] = "download"
      BY <1>0 DEF Placed
    <2>2. QED
      BY <1>0, <1>3, <1>4, <2>1 DEF Placed
  <1>11. QED
    BY <1>3, <1>8, <1>9, <1>10 DEF Counted

\* A builder moves on without a download.
LEMMA StepMoves ==
  ASSUME RuInv, NEW u \in Builder, NEW l \in {"idle", "save", "load", "swap"},
         step' = [step EXCEPT ![u] = l], UNCHANGED <<job, slots, file, tmp>>,
         \A s \in Source : job[u][s] = "done"
  PROVE  RuleTypes' /\ Counted' /\ Whole'
  <1>1. step' \in [Builder -> {"idle", "start", "download", "save", "load", "swap"}]
    BY DEF RuInv, RuleTypes
  <1>2. step'[u] = l /\ \A v \in Builder \ {u} : step'[v] = step[v]
    BY DEF RuInv, RuleTypes
  <1>3. Placed'
    BY <1>2 DEF RuInv, Placed
  <1>4. Slotted' /\ Whole'
    BY DEF RuInv, Slotted, Whole
  <1>5. QED
    BY <1>1, <1>3, <1>4 DEF RuInv, RuleTypes, Counted

\* An update begins: everybody waits, and no slot is taken.
LEMMA DownloadBegins ==
  ASSUME RuInv, NEW u \in Updater, NEW todo, step[u] \in {"idle", "start"},
         Rules!Downloading(u, todo)
  PROVE  RuleTypes' /\ Counted' /\ Whole'
  <1> DEFINE k == [s \in Source |-> IF s \in todo THEN "wait" ELSE "done"]
  <1>0. Rules!RuleAssumption /\ RuleTypes /\ Placed /\ Slotted /\ u \in Builder
    BY DEF RuInv, Rules!RuleAssumption
  <1>1. /\ step' = [step EXCEPT ![u] = "download"] /\ job' = [job EXCEPT ![u] = k]
        /\ UNCHANGED <<file, tmp, slots>>
    BY DEF Rules!Downloading, Rules!SetStep
  <1>2. k \in [Source -> Rules!Job]
    BY DEF Rules!Job
  <1>3. job' \in [Builder -> [Source -> Rules!Job]] /\ job'[u] = k
    BY <1>0, <1>1, <1>2 DEF RuleTypes
  <1>4. step' \in [Builder -> {"idle", "start", "download", "save", "load", "swap"}]
        /\ step'[u] = "download"
    BY <1>0, <1>1 DEF RuleTypes
  <1>5. \A v \in Builder \ {u} : job'[v] = job[v] /\ step'[v] = step[v]
    BY <1>0, <1>1 DEF RuleTypes
  <1>6. Flying(job[u]) = {} /\ Flying(k) = {}
    BY <1>0 DEF Flying, UnderWay, Placed
  <1> HIDE DEF k
  <1>7. Slotted'
    <2>1. slots'[u] = Cardinality(Flying(job'[u])) /\ slots'[u] <= MaxConcurrent
      BY <1>0, <1>1, <1>3, <1>6 DEF Slotted
    <2>2. \A v \in Builder \ {u} : slots'[v] = Cardinality(Flying(job'[v])) /\ slots'[v] <= MaxConcurrent
      BY <1>0, <1>1, <1>5 DEF Slotted
    <2>3. QED
      BY <2>1, <2>2 DEF Slotted
  <1>8. Placed'
    BY <1>0, <1>4, <1>5 DEF Placed
  <1>9. Whole'
    <2>1. \A s \in Source : job'[u][s] # "rename"
      BY <1>3 DEF k
    <2>2. QED
      BY <1>1, <1>5, <2>1 DEF RuInv, Whole
  <1>10. QED
    BY <1>0, <1>1, <1>3, <1>4, <1>7, <1>8, <1>9 DEF RuleTypes, Counted

\* What a download may do to the files: while somebody is about to rename, a
\* temporary file does not become an unfinished download.
LEMMA FilesMove ==
  ASSUME RuInv, NEW u \in Builder, NEW s \in Source, NEW p \in Rules!Job,
         job' = [job EXCEPT ![u][s] = p],
         NEW c \in Rules!Content, tmp' = [tmp EXCEPT ![s] = c],
         c = "part" => \A v \in Builder : job'[v][s] # "rename",
         \/ UNCHANGED file
         \/ \E d \in Rules!Content \ {"part"} : file' = [file EXCEPT ![s] = d]
  PROVE  tmp' \in [Source -> Rules!Content] /\ file' \in [Source -> Rules!Content] /\ Whole'
  <1>0. RuleTypes /\ Whole
    BY DEF RuInv
  <1>1. tmp' \in [Source -> Rules!Content] /\ file' \in [Source -> Rules!Content]
    BY <1>0 DEF RuleTypes
  <1>2. \A t \in Source : file'[t] # "part"
    BY <1>0 DEF Whole, RuleTypes
  <1>3. tmp'[s] = c /\ \A t \in Source \ {s} : tmp'[t] = tmp[t]
    BY <1>0 DEF RuleTypes
  <1>4. \A v \in Builder : \A t \in Source \ {s} : job'[v][t] = job[v][t]
    BY <1>0 DEF RuleTypes
  <1>5. \A t \in Source : \A v \in Builder : job'[v][t] = "rename" => tmp'[t] # "part"
    BY <1>0, <1>3, <1>4 DEF Whole
  <1>6. QED
    BY <1>1, <1>2, <1>5 DEF Whole

\* A download that waits, tries again or has ended leaves a temporary file as it
\* was, or removes it.
LEMMA FilesStay ==
  ASSUME RuInv, NEW u \in Builder, NEW s \in Source, NEW p \in {"try", "done"},
         job' = [job EXCEPT ![u][s] = p],
         UNCHANGED tmp \/ tmp' = [tmp EXCEPT ![s] = "none"],
         \/ UNCHANGED file
         \/ \E d \in Rules!Content \ {"part"} : file' = [file EXCEPT ![s] = d]
  PROVE  tmp' \in [Source -> Rules!Content] /\ file' \in [Source -> Rules!Content] /\ Whole'
  <1>0. RuleTypes /\ Whole
    BY DEF RuInv
  <1>1. p \in Rules!Job /\ "none" \in Rules!Content /\ tmp[s] \in Rules!Content
    BY <1>0 DEF RuleTypes, Rules!Job, Rules!Content
  <1>2. \A v \in Builder : job'[v][s] = "rename" => job[v][s] = "rename"
    BY <1>0 DEF RuleTypes
  <1>3. CASE UNCHANGED tmp
    <2>1. tmp' = [tmp EXCEPT ![s] = tmp[s]]
      BY <1>0, <1>3 DEF RuleTypes
    <2>2. tmp[s] = "part" => \A v \in Builder : job'[v][s] # "rename"
      BY <1>0, <1>2 DEF Whole
    <2>3. QED
      BY <1>1, <2>1, <2>2, FilesMove
  <1>4. CASE tmp' = [tmp EXCEPT ![s] = "none"]
    BY <1>1, <1>4, FilesMove
  <1>5. QED
    BY <1>3, <1>4

\* UpdateSourceStatus and the release of the slot; a failed attempt that is
\* repeated.
LEMMA Ends ==
  ASSUME RuInv, NEW u \in Builder, NEW s \in Source, job[u][s] \in UnderWay,
         (\E ok \in BOOLEAN : Rules!Finish(u, s, ok)) \/ Rules!Attempted(u, s)
  PROVE  /\ Counted' /\ UNCHANGED step
         /\ \E p \in {"try", "done"} : job' = [job EXCEPT ![u][s] = p]
  <1>1. CASE \E ok \in BOOLEAN : Rules!Finish(u, s, ok)
    <2>1. /\ job' = [job EXCEPT ![u][s] = "done"] /\ slots' = [slots EXCEPT ![u] = slots[u] - 1]
          /\ UNCHANGED step
      BY <1>1 DEF Rules!Finish, Rules!SetJob
    <2>2. "done" \in Rules!Job /\ "done" \notin UnderWay /\ job[u][s] # "done"
      BY DEF Rules!Job, UnderWay
    <2>3. QED
      BY <2>1, <2>2, JobMoves
  <1>2. CASE job' = [job EXCEPT ![u][s] = "try"] /\ UNCHANGED <<step, slots>>
    <2>1. "try" \in Rules!Job /\ "try" \in UnderWay /\ job[u][s] # "done"
      BY DEF Rules!Job, UnderWay
    <2>2. QED
      BY <1>2, <2>1, JobMoves
  <1>3. QED
    BY <1>1, <1>2 DEF Rules!Attempted, Rules!SetJob

\* Every step of a download keeps the invariant.
LEMMA DownloadStep ==
  ASSUME RuInv, NEW u \in Builder, NEW s \in Source, Rules!Download(u, s)
  PROVE  RuleTypes' /\ Counted' /\ Whole'
<1> USE DEF RuleTypes, Counted
<1>0. RuleTypes /\ Whole /\ tmp[s] \in Rules!Content /\ file[s] \in Rules!Content
  BY DEF RuInv
<1>1. CASE Rules!Acquire(u, s)
  <2>1. /\ job' = [job EXCEPT ![u][s] = "try"] /\ slots' = [slots EXCEPT ![u] = slots[u] + 1]
        /\ UNCHANGED <<step, file, tmp>> /\ job[u][s] = "wait" /\ slots[u] < MaxConcurrent
    BY <1>1 DEF Rules!Acquire, Rules!SetJob
  <2>2. "try" \in Rules!Job /\ "try" \in UnderWay /\ "wait" \notin UnderWay
    BY DEF Rules!Job, UnderWay
  <2>3. Counted'
    BY <2>1, <2>2, JobMoves
  <2>4. Whole'
    BY <2>1, FilesStay
  <2>5. QED
    BY <1>0, <2>1, <2>3, <2>4
<1>2. CASE Rules!loadLocalFile(u, s) \/ Rules!NoAnswer(u, s) \/ Rules!NotModified(u, s)
  <2>1. job[u][s] = "try" /\ UNCHANGED <<file, tmp>> /\ job[u][s] \in UnderWay
    BY <1>2 DEF Rules!loadLocalFile, Rules!NoAnswer, Rules!NotModified, UnderWay
  <2>2. (\E ok \in BOOLEAN : Rules!Finish(u, s, ok)) \/ Rules!Attempted(u, s)
    BY <1>2 DEF Rules!loadLocalFile, Rules!NoAnswer, Rules!NotModified
  <2>3. PICK p \in {"try", "done"} : job' = [job EXCEPT ![u][s] = p]
    BY <2>1, <2>2, Ends
  <2>4. Counted' /\ UNCHANGED step
    BY <2>1, <2>2, Ends
  <2>5. Whole'
    BY <2>1, <2>3, FilesStay
  <2>6. QED
    BY <1>0, <2>1, <2>4, <2>5
<1>3. CASE Rules!Create(u, s)
  <2>1. /\ job[u][s] = "try" /\ UNCHANGED <<file, step, slots>>
        /\ job' = [job EXCEPT ![u][s] = "copy"]
        /\ tmp' = [tmp EXCEPT ![s] = IF Rules!Holders(s) = {} THEN "part" ELSE "shared"]
    BY <1>3 DEF Rules!Create, Rules!SetJob
  <2>2. "copy" \in Rules!Job /\ "copy" \in UnderWay /\ "try" \in UnderWay
    BY DEF Rules!Job, UnderWay
  <2>3. Counted'
    BY <2>1, <2>2, JobMoves
  <2>4. PICK c \in {"part", "shared"} : /\ tmp' = [tmp EXCEPT ![s] = c]
                                        /\ c = "part" => Rules!Holders(s) = {}
    BY <2>1
  <2>5. c = "part" => \A v \in Builder : job'[v][s] # "rename"
    BY <1>0, <2>1, <2>4 DEF Rules!Holders
  <2>6. tmp' \in [Source -> Rules!Content] /\ Whole'
    BY <2>1, <2>2, <2>4, <2>5, FilesMove DEF Rules!Content
  <2>7. QED
    BY <1>0, <2>1, <2>3, <2>6
<1>4. CASE Rules!Copied(u, s)
  <2>1. /\ job[u][s] = "copy" /\ UNCHANGED <<step, slots>>
        /\ job' = [job EXCEPT ![u][s] = "rename"]
    BY <1>4 DEF Rules!Copied, Rules!SetJob
  <2>2. "rename" \in Rules!Job /\ "rename" \in UnderWay /\ "copy" \in UnderWay
    BY DEF Rules!Job, UnderWay
  <2>3. Counted'
    BY <2>1, <2>2, JobMoves
  <2>4. \A d \in Rules!Content : Rules!Completed(u, s, d) \subseteq Rules!Content \ {"part"}
    BY DEF Rules!Completed, Rules!Content
  <2>5. PICK c \in Rules!Content \ {"part"} : tmp' = [tmp EXCEPT ![s] = c]
    BY <1>0, <1>4, <2>4 DEF Rules!Copied
  <2>6. \E d \in Rules!Content \ {"part"} : file' = [file EXCEPT ![s] = d]
    BY <1>0, <1>4, <2>4 DEF Rules!Copied
  <2>7. /\ tmp' \in [Source -> Rules!Content] /\ file' \in [Source -> Rules!Content]
        /\ Whole'
    BY <2>1, <2>2, <2>5, <2>6, FilesMove
  <2>8. QED
    BY <1>0, <2>1, <2>3, <2>7
<1>5. CASE Rules!CopyFails(u, s) \/ Rules!Rename(u, s)
  <2>1. /\ job[u][s] \in {"copy", "rename"} /\ tmp' = [tmp EXCEPT ![s] = "none"]
        /\ job[u][s] \in UnderWay
    BY <1>5 DEF Rules!CopyFails, Rules!Rename, UnderWay
  <2>2. (\E ok \in BOOLEAN : Rules!Finish(u, s, ok)) \/ Rules!Attempted(u, s)
    BY <1>5 DEF Rules!CopyFails, Rules!Rename
  <2>3. UNCHANGED file \/ (job[u][s] = "rename" /\ file' = [file EXCEPT ![s] = tmp[s]])
    BY <1>5 DEF Rules!CopyFails, Rules!Rename
  <2>4. UNCHANGED file \/ \E d \in Rules!Content \ {"part"} : file' = [file EXCEPT ![s] = d]
    BY <1>0, <2>3 DEF Whole
  <2>5. PICK p \in {"try", "done"} : job' = [job EXCEPT ![u][s] = p]
    BY <2>1, <2>2, Ends
  <2>6. Counted' /\ UNCHANGED step
    BY <2>1, <2>2, Ends
  <2>7. /\ tmp' \in [Source -> Rules!Content] /\ file' \in [Source -> Rules!Content]
        /\ Whole'
    BY <2>1, <2>4, <2>5, FilesStay
  <2>8. QED
    BY <1>0, <2>6, <2>7
<1>6. QED
  BY <1>1, <1>2, <1>3, <1>4, <1>5 DEF Rules!Download

\* The first state and the one after a restart: nobody downloads.
LEMMA Idles ==
  ASSUME Rules!RuleAssumption
  PROVE  LET j == [u \in Builder |-> [s \in Source |-> "done"]]
         IN  /\ j \in [Builder -> [Source -> Rules!Job]]
             /\ \A u \in Builder : Cardinality(Flying(j[u])) = 0 /\ \A s \in Source : j[u][s] = "done"
  <1>1. \A u \in Builder : Flying([s \in Source |-> "done"]) = {}
    BY DEF Flying, UnderWay
  <1>2. QED
    BY <1>1, FS_EmptySet DEF Rules!Job

\* Every step keeps the invariant.
LEMMA UpdateStep ==
  ASSUME RuInv, [Rules!Next]_Rules!ruleVars
  PROVE  RuleTypes' /\ Counted' /\ Whole'
<1>0. RuleTypes /\ Placed /\ Slotted /\ Whole /\ Rules!RuleAssumption
        /\ Updater \subseteq Builder /\ Managed \subseteq Source
  BY DEF RuInv, Rules!RuleAssumption
<1>1. ASSUME NEW u \in Updater, Rules!UpdateRules(u) PROVE RuleTypes' /\ Counted' /\ Whole'
  BY <1>1, DownloadBegins DEF Rules!UpdateRules
<1>2. ASSUME NEW u \in Builder, Rules!FirstUpdate(u) PROVE RuleTypes' /\ Counted' /\ Whole'
  <2>1. step[u] = "start" /\ u \in Updater
    BY <1>0, <1>2 DEF Rules!FirstUpdate, Placed
  <2>2. QED
    BY <1>2, <2>1, DownloadBegins DEF Rules!FirstUpdate
<1>3. ASSUME NEW u \in Builder,
             \/ Rules!LoadRulesFromCache(u) \/ Rules!AllDownloaded(u) \/ Rules!saveMeta(u)
             \/ Rules!LoadAllRules(u) \/ Rules!Swap(u)
             \/ \E s \in Source : Rules!SetSourceEnabled(u, s)
      PROVE  RuleTypes' /\ Counted' /\ Whole'
  <2>1. \A s \in Source : job[u][s] = "done"
    BY <1>0, <1>3 DEF Placed, Rules!LoadRulesFromCache, Rules!AllDownloaded, Rules!saveMeta,
                      Rules!LoadAllRules, Rules!Swap, Rules!SetSourceEnabled
  <2>2. /\ \E l \in {"idle", "save", "load", "swap"} : step' = [step EXCEPT ![u] = l]
        /\ UNCHANGED <<job, slots, file, tmp>>
    BY <1>3 DEF Rules!LoadRulesFromCache, Rules!AllDownloaded, Rules!saveMeta, Rules!SetStep,
                Rules!LoadAllRules, Rules!Swap, Rules!SetSourceEnabled
  <2>3. QED
    BY <2>1, <2>2, StepMoves
<1>4. ASSUME NEW s \in Source, Rules!AddSource(s) \/ Rules!RemoveSource(s)
      PROVE  RuleTypes' /\ Counted' /\ Whole'
  <2>1. UNCHANGED <<step, job, slots, tmp>>
    BY <1>4 DEF Rules!AddSource, Rules!RemoveSource, Rules!buildVars
  <2>2. UNCHANGED file \/ file' = [file EXCEPT ![s] = "none"]
    BY <1>4 DEF Rules!AddSource, Rules!RemoveSource
  <2>3. /\ file' \in [Source -> Rules!Content]
        /\ \A t \in Source : file'[t] \in {file[t], "none"}
    BY <1>0, <2>2 DEF RuleTypes, Rules!Content
  <2>4. Whole'
    BY <2>1, <2>3 DEF RuInv, Whole
  <2>5. QED
    BY <1>0, <2>1, <2>3, <2>4 DEF RuleTypes, Counted, Placed, Slotted
<1>5. CASE Rules!Restart
  <2>1. /\ job' = [u \in Builder |-> [s \in Source |-> "done"]] /\ slots' = [u \in Builder |-> 0]
        /\ UNCHANGED <<file, tmp>>
    BY <1>5 DEF Rules!Restart
  <2>2. PICK u \in Updater : step' = [v \in Builder |-> IF v = u THEN "start" ELSE "idle"]
    BY <1>5 DEF Rules!Restart
  <2>3. /\ job' \in [Builder -> [Source -> Rules!Job]]
        /\ \A v \in Builder : Cardinality(Flying(job'[v])) = 0 /\ \A s \in Source : job'[v][s] = "done"
    BY <1>0, <2>1, Idles
  <2>4. slots' \in [Builder -> Nat] /\ \A v \in Builder : slots'[v] = 0
    BY <2>1
  <2>5. Slotted'
    BY <1>0, <2>3, <2>4 DEF Slotted, Rules!RuleAssumption
  <2>6. Placed'
    BY <2>2, <2>3 DEF Placed
  <2>7. Whole'
    BY <2>1, <2>3 DEF RuInv, Whole
  <2>8. step' \in [Builder -> {"idle", "start", "download", "save", "load", "swap"}]
    BY <2>2
  <2>9. QED
    BY <1>0, <2>1, <2>3, <2>4, <2>5, <2>6, <2>7, <2>8 DEF RuleTypes, Counted
<1>6. CASE UNCHANGED Rules!ruleVars
  BY <1>0, <1>6 DEF Rules!ruleVars, Rules!buildVars, RuInv, RuleTypes, Counted, Placed, Slotted, Whole
<1>7. CASE Rules!Next
  <2>1. \A u \in Builder : Rules!Build(u) => RuleTypes' /\ Counted' /\ Whole'
    BY <1>2, <1>3, DownloadStep DEF Rules!Build
  <2>2. \A u \in Builder, s \in Managed :
            Rules!SetSourceEnabled(u, s) => RuleTypes' /\ Counted' /\ Whole'
    BY <1>0, <1>3
  <2>3. \A s \in Managed : Rules!AddSource(s) \/ Rules!RemoveSource(s)
                            => RuleTypes' /\ Counted' /\ Whole'
    BY <1>0, <1>4
  <2>4. QED
    BY <1>1, <1>5, <1>7, <2>1, <2>2, <2>3 DEF Rules!Next
<1>8. QED
  BY <1>6, <1>7

\* The invariant of the updates holds in every state, crashes and restarts included.
THEOREM RulesInvariant == Rules!RuleAssumption /\ Rules!Spec => []RuInv
<1>1. Rules!RuleAssumption /\ Rules!Init => RuInv
  <2> SUFFICES ASSUME Rules!RuleAssumption, Rules!Init PROVE RuInv
    OBVIOUS
  <2>1. /\ job = [u \in Builder |-> [s \in Source |-> "done"]] /\ slots = [u \in Builder |-> 0]
        /\ file = [s \in Source |-> IF s \in Local THEN "whole" ELSE "none"]
        /\ tmp = [s \in Source |-> "none"]
    BY DEF Rules!Init, Rules!Idle
  <2>2. PICK u \in Updater : step = [v \in Builder |-> IF v = u THEN "start" ELSE "idle"]
    BY DEF Rules!Init, Rules!Idle
  <2>3. /\ job \in [Builder -> [Source -> Rules!Job]]
        /\ \A v \in Builder : Cardinality(Flying(job[v])) = 0 /\ \A s \in Source : job[v][s] = "done"
    BY <2>1, Idles
  <2>4. slots \in [Builder -> Nat] /\ \A v \in Builder : slots[v] = 0
    BY <2>1
  <2>5. Slotted
    BY <2>3, <2>4 DEF Slotted, Rules!RuleAssumption
  <2>6. Placed
    BY <2>2, <2>3 DEF Placed
  <2>7. Whole
    BY <2>1, <2>3 DEF Whole
  <2>8. step \in [Builder -> {"idle", "start", "download", "save", "load", "swap"}]
    BY <2>2
  <2>9. file \in [Source -> Rules!Content] /\ tmp \in [Source -> Rules!Content]
    BY <2>1 DEF Rules!Content
  <2>10. QED
    BY <2>3, <2>4, <2>5, <2>6, <2>7, <2>8, <2>9 DEF RuInv, RuleTypes
<1>2. RuInv /\ [Rules!Next]_Rules!ruleVars => RuInv'
  <2> SUFFICES ASSUME RuInv, [Rules!Next]_Rules!ruleVars PROVE RuInv'
    OBVIOUS
  <2>1. RuleTypes' /\ Counted' /\ Whole'
    BY UpdateStep
  <2>2. Rules!RuleAssumption'
    BY DEF RuInv, Rules!RuleAssumption, Rules!IsFiniteSet
  <2>3. QED
    BY <2>1, <2>2 DEF RuInv, Counted
<1>3. QED
  BY <1>1, <1>2, PTL DEF Rules!Spec

\* rule_loader.go: whatever the servers answer, however many updates run at once
\* and whenever the process dies, a cache file is half a list only if several
\* updates had its temporary file in hand at once; and the slots of sem that an
\* update has taken are those of its downloads under way.
THEOREM ListsAreWhole == Rules!RuleAssumption /\ Rules!Spec => []FilesAreWhole
<1>1. RuInv => FilesAreWhole
  <2> SUFFICES ASSUME RuInv PROVE FilesAreWhole
    OBVIOUS
  <2>1. \A u \in Builder : Rules!InFlight(u) = Flying(job[u])
    BY DEF Rules!InFlight, Flying, UnderWay
  <2>2. \A S : Rules!Cardinality(S) = Cardinality(S)
    BY DEF Cardinality, Rules!Cardinality
  <2>3. QED
    BY <2>1, <2>2 DEF RuInv, Slotted, Whole, FilesAreWhole, Rules!FilesAreWhole
<1>2. QED
  BY <1>1, RulesInvariant, PTL

-----------------------------------------------------------------------------
(***************************************************************************)
(* The connectivity checker.                                               *)
(***************************************************************************)

ProbeTypes ==
    /\ prober \in [Addr -> {"start", "icmp", "again", "tcp", "success", "failure", "done"}]
    /\ results \in [Addr -> {"none", "success", "failure"}]
    /\ \A a \in Addr : results[a] # "none" => prober[a] = "done"
    /\ loop \in {"probe", "record", "wait", "ended"}
    /\ failures \in Nat

\* An answer is at a goroutine or in resultCh for as long as the loop may still
\* take it; nothing but Stop makes a goroutine drop it before.
AnswerKept ==
    /\ loop = "probe" => ~over
    /\ loop = "probe" /\ answered /\ stop = "no"
          => \E a \in Addr : prober[a] = "success" \/ results[a] = "success"

\* A probe that failed has no goroutine left that could still be answered.
AllSilent ==
    loop = "record" /\ ~verdict => \A a \in Addr : prober[a] = "done"

ProbeInv ==
    /\ Check!CheckerAssumption
    /\ ProbeTypes /\ AnswerKept /\ AllSilent /\ Check!OnlySilenceFails

\* Every step of the checker keeps the invariant.
LEMMA ProbeStep ==
  ASSUME ProbeInv, [Check!Next]_Check!chkVars
  PROVE  ProbeInv'
<1> USE DEF ProbeInv, ProbeTypes, AnswerKept, AllSilent, Check!OnlySilenceFails
<1>0. Check!CheckerAssumption'
  BY DEF Check!CheckerAssumption, Check!IsFiniteSet
<1>1. CASE Check!Collect
  BY <1>0, <1>1 DEF Check!Collect
<1>2. CASE Check!performProbe
  <2>1. ProbeThreshold \in Nat \ {0}
    BY DEF Check!CheckerAssumption
  <2>2. failures' \in Nat
    BY <1>2, <2>1 DEF Check!performProbe
  <2>3. CASE verdict
    <3>1. healthy' /\ failures' = 0
      BY <1>2, <2>3 DEF Check!performProbe
    <3>2. QED
      BY <1>0, <1>2, <2>1, <2>2, <3>1 DEF Check!performProbe
  <2>4. CASE ~verdict
    <3>1. /\ healthy' = (healthy /\ failures' < ProbeThreshold)
          /\ failures' = IF failures < ProbeThreshold THEN failures + 1 ELSE failures
      BY <1>2, <2>4 DEF Check!performProbe
    <3>2. failures < ProbeThreshold => healthy
      OBVIOUS
    <3>3. healthy' <=> failures' < ProbeThreshold
      BY <2>1, <3>1, <3>2
    <3>4. QED
      BY <1>0, <1>2, <2>2, <3>3 DEF Check!performProbe
  <2>5. QED
    BY <2>3, <2>4
<1>3. CASE Check!Ticker
  BY <1>0, <1>3 DEF Check!Ticker
<1>4. CASE Check!LoopEnds
  BY <1>0, <1>4 DEF Check!LoopEnds
<1>5. CASE Check!Stop
  BY <1>0, <1>5 DEF Check!Stop
<1>6. CASE Check!StopReturns
  BY <1>0, <1>6 DEF Check!StopReturns
<1>7. CASE Check!NetworkChanges
  BY <1>0, <1>7 DEF Check!NetworkChanges
<1>8. ASSUME NEW a \in Addr, Check!Look(a) PROVE ProbeInv'
  BY <1>0, <1>8 DEF Check!Look, Check!Goto, Check!Done
<1>9. ASSUME NEW a \in Addr, Check!probeIP(a) PROVE ProbeInv'
  BY <1>0, <1>9 DEF Check!probeIP, Check!Goto
<1>10. ASSUME NEW a \in Addr, Check!probeIPWithTCP(a) PROVE ProbeInv'
  BY <1>0, <1>10 DEF Check!probeIPWithTCP, Check!Goto
<1>11. ASSUME NEW a \in Addr, Check!Send(a) PROVE ProbeInv'
  <2>1. /\ prober[a] \in {"success", "failure"} /\ prober' = [prober EXCEPT ![a] = "done"]
        /\ UNCHANGED <<reachable, healthy, failures, stop, loop, verdict, over, answered>>
    BY <1>11 DEF Check!Send, Check!Goto
  <2>2. results' \in [Addr -> {"none", "success", "failure"}]
    BY <1>11, <2>1 DEF Check!Send
  <2>3. ProbeTypes' /\ AllSilent' /\ Check!OnlySilenceFails'
    <3>1. \A b \in Addr \ {a} : results'[b] = results[b] /\ prober'[b] = prober[b]
      BY <1>11, <2>1 DEF Check!Send
    <3>2. prober'[a] = "done"
      BY <2>1
    <3>3. \A b \in Addr : results'[b] # "none" => prober'[b] = "done"
      BY <3>1, <3>2
    <3>4. \A b \in Addr : prober[b] = "done" => prober'[b] = "done"
      BY <3>1, <3>2
    <3>5. ProbeTypes'
      BY <2>1, <2>2, <3>3
    <3>6. AllSilent'
      BY <2>1, <3>4
    <3>7. QED
      BY <2>1, <3>5, <3>6
  <2>4. CASE results' = [results EXCEPT ![a] = prober[a]]
    <3>1. /\ results'[a] = prober[a]
          /\ \A b \in Addr \ {a} : results'[b] = results[b] /\ prober'[b] = prober[b]
      BY <2>1, <2>4
    <3>2. \A b \in Addr : (prober[b] = "success" \/ results[b] = "success") /\ b # a
             => prober'[b] = "success" \/ results'[b] = "success"
      BY <3>1
    <3>3. prober[a] = "success" => results'[a] = "success"
      BY <3>1
    <3>4. results[a] = "success" => loop # "probe" \/ prober[a] = "done"
      OBVIOUS
    <3>5. QED
      BY <1>0, <2>1, <2>3, <3>2, <3>3, <3>4
  <2>5. CASE Check!Done /\ UNCHANGED results
    BY <1>0, <2>1, <2>3, <2>5 DEF Check!Done
  <2>6. QED
    BY <1>11, <2>4, <2>5 DEF Check!Send
<1>12. CASE UNCHANGED Check!chkVars
  BY <1>0, <1>12 DEF Check!chkVars
<1>13. QED
  BY <1>1, <1>2, <1>3, <1>4, <1>5, <1>6, <1>7, <1>8, <1>9, <1>10, <1>11, <1>12
  DEF Check!Next, Check!Prober

\* checker.go: a probe fails only when no address has answered it, unless Stop cut
\* it short, and IsNetworkHealthy agrees with the failures counted.
THEOREM SilenceAlone == Check!CheckerAssumption /\ Check!Spec => []OnlySilenceFails
<1>1. Check!CheckerAssumption /\ Check!Init => ProbeInv
  BY DEF Check!Init, Check!CheckerAssumption, ProbeInv, ProbeTypes, AnswerKept, AllSilent,
         Check!OnlySilenceFails
<1>2. ProbeInv /\ [Check!Next]_Check!chkVars => ProbeInv'
  BY ProbeStep
<1>3. ProbeInv => OnlySilenceFails
  BY DEF ProbeInv, OnlySilenceFails
<1>4. QED
  BY <1>1, <1>2, <1>3, PTL DEF Check!Spec
==============================================================================
