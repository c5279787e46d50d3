------------------------ MODULE SequentialQueryProofs ------------------------
(***************************************************************************)
(* Proofs about SequentialQuery, for any servers, queries and thresholds.  *)
(* TypeOK and BreakerConsistent need each other, as in ServerHealthProofs. *)
(***************************************************************************)
EXTENDS SequentialQuery, ServerHealthProofs, FiniteSetTheorems, TLAPS

\* Recording any outcome keeps a server's status in agreement with its counters.
LEMMA MarkedConsistent ==
  ASSUME NEW h \in Health, Consistent(h), NEW a
  PROVE  Marked(h, a) \in Health /\ Consistent(Marked(h, a))
  BY SuccessConsistent, FailureConsistent, TimeoutConsistent DEF Marked

IInv == TypeOK /\ BreakerConsistent

QueryType ==
    [step : {"idle", "loop", "exchange", "wait", "record"},
     todo : Seq(Server), at : Server \cup {NoServer}, answer : Answers \cup {"none", "offline"},
     asked : SUBSET Server, usable : SUBSET Server]

\* A query that is at a server knows which.
AtServer(r) == r.step \in {"exchange", "wait", "record"} => r.at \in Server

\* The typing of one query.
LEMMA QueryTyped ==
  TypeOK <=> /\ net \in BOOLEAN
             /\ health \in [Server -> Health]
             /\ query \in [Query -> QueryType]
             /\ \A q \in Query : AtServer(query[q])
  BY DEF TypeOK, QueryType, AtServer

\* What a goroutine without a query looks like is well typed.
LEMMA NoQueryTyped == NoQuery \in QueryType /\ AtServer(NoQuery)
  <1>1. <<>> \in Seq(Server)
    OBVIOUS
  <1>2. QED
    BY <1>1 DEF NoQuery, QueryType, AtServer, Answers

\* Steps of one query that leave everything else alone.
LEMMA QueryStep ==
  ASSUME IInv, NEW q \in Query, NEW r \in QueryType, AtServer(r),
         query' = [query EXCEPT ![q] = r], UNCHANGED <<net, health>>
  PROVE  IInv'
  <1>1. query' \in [Query -> QueryType] /\ \A p \in Query : AtServer(query'[p])
    BY QueryTyped DEF IInv
  <1>2. net' \in BOOLEAN /\ health' \in [Server -> Health]
    BY QueryTyped DEF IInv
  <1>3. TypeOK'
    BY <1>1, <1>2 DEF TypeOK, QueryType, AtServer
  <1>4. BreakerConsistent'
    BY DEF IInv, BreakerConsistent
  <1>5. QED
    BY <1>3, <1>4 DEF IInv

\* The invariant holds at the start.
LEMMA InitInv == Init => IInv
  <1> SUFFICES ASSUME Init PROVE IInv
    OBVIOUS
  <1>1. TypeOK
    BY NewIsConsistent, NoQueryTyped, QueryTyped DEF Init
  <1>2. BreakerConsistent
    BY NewIsConsistent DEF Init, BreakerConsistent
  <1>3. QED
    BY <1>1, <1>2 DEF IInv

\* A query that has something to do next has a server to do it with.
LEMMA HeadTyped ==
  ASSUME TypeOK, NEW q \in Query, Looping(q)
  PROVE  /\ query[q] \in QueryType
         /\ Head(query[q].todo) \in Server
         /\ Tail(query[q].todo) \in Seq(Server)
  <1>1. query[q] \in QueryType
    BY QueryTyped
  <1>2. query[q].todo \in Seq(Server) /\ query[q].todo # <<>>
    BY <1>1 DEF QueryType, Looping
  <1>3. QED
    BY <1>1, <1>2

\* Every step of the system keeps the invariant.
LEMMA NextInv == IInv /\ [Next]_vars => IInv'
  <1> SUFFICES ASSUME IInv, [Next]_vars PROVE IInv'
    OBVIOUS
  <1> USE DEF IInv
  <1>1. ASSUME NEW q \in Query, Begin(q) PROVE IInv'
    <2>1. PICK order \in SortedHealthyServers :
            query' = [query EXCEPT ![q] = [NoQuery EXCEPT !.step = "loop", !.todo = order,
                        !.usable = {s \in Server : ~Skip(s)}]]
      BY <1>1 DEF Begin
    <2>2. order \in Seq(Server)
      BY ServersAssumption DEF SortedHealthyServers
    <2> DEFINE r == [NoQuery EXCEPT !.step = "loop", !.todo = order,
                        !.usable = {s \in Server : ~Skip(s)}]
    <2>3. r \in QueryType /\ AtServer(r)
      BY <2>2 DEF NoQuery, QueryType, AtServer, Answers
    <2>4. QED
      BY <1>1, <2>1, <2>3, QueryStep DEF Begin
  <1>2. ASSUME NEW q \in Query, SkipServer(q) PROVE IInv'
    <2> DEFINE r == [query[q] EXCEPT !.todo = Tail(query[q].todo)]
    <2>1. r \in QueryType /\ AtServer(r)
      BY <1>2, HeadTyped DEF SkipServer, Looping, QueryType, AtServer
    <2>2. query' = [query EXCEPT ![q] = r]
      BY <1>2 DEF SkipServer
    <2>3. QED
      BY <1>2, <2>1, <2>2, QueryStep DEF SkipServer
  <1>3. ASSUME NEW q \in Query, Ask(q) PROVE IInv'
    <2> DEFINE s == Head(query[q].todo)
    <2> DEFINE r == [query[q] EXCEPT !.todo = Tail(query[q].todo), !.at = s,
                                     !.step = "exchange", !.asked = query[q].asked \cup {s}]
    <2>1. r \in QueryType /\ AtServer(r)
      BY <1>3, HeadTyped DEF Ask, QueryType, AtServer
    <2>2. query' = [query EXCEPT ![q] = r]
      BY <1>3 DEF Ask
    <2>3. QED
      BY <1>3, <2>1, <2>2, QueryStep DEF Ask
  <1>4. ASSUME NEW q \in Query, Exchange(q) PROVE IInv'
    <2> DEFINE r == [query[q] EXCEPT !.step = IF net THEN "wait" ELSE "record",
                                     !.answer = IF net THEN "none" ELSE "offline"]
    <2>1. r \in QueryType /\ AtServer(r)
      BY <1>4, QueryTyped DEF Exchange, QueryType, AtServer
    <2>2. query' = [query EXCEPT ![q] = r]
      BY <1>4 DEF Exchange
    <2>3. QED
      BY <1>4, <2>1, <2>2, QueryStep DEF Exchange
  <1>5. ASSUME NEW q \in Query, NEW a \in Answers, Answer(q, a) PROVE IInv'
    <2> DEFINE r == [query[q] EXCEPT !.step = "record", !.answer = a]
    <2>1. r \in QueryType /\ AtServer(r)
      BY <1>5, QueryTyped DEF Answer, QueryType, AtServer
    <2>2. query' = [query EXCEPT ![q] = r]
      BY <1>5 DEF Answer
    <2>3. QED
      BY <1>5, <2>1, <2>2, QueryStep DEF Answer
  <1>6. ASSUME NEW q \in Query, Record(q) PROVE IInv'
    <2> DEFINE a == query[q].answer
    <2> DEFINE s == query[q].at
    <2> DEFINE r == IF a \in Definite THEN NoQuery
                    ELSE [query[q] EXCEPT !.step = "loop", !.at = NoServer, !.answer = "none"]
    <2>1. s \in Server /\ health' = [health EXCEPT ![s] = Marked(@, a)] /\ UNCHANGED net
      BY <1>6, QueryTyped DEF Record, AtServer
    <2>2. Marked(health[s], a) \in Health /\ Consistent(Marked(health[s], a))
      BY <2>1, QueryTyped, MarkedConsistent DEF BreakerConsistent
    <2>3. health' \in [Server -> Health] /\ BreakerConsistent'
      BY <2>1, <2>2, QueryTyped DEF BreakerConsistent
    <2>4. r \in QueryType /\ AtServer(r)
      BY QueryTyped, NoQueryTyped DEF QueryType, AtServer
    <2>5. query' = [p \in Query |->
              LET next == IF p = q THEN r ELSE query[p]
              IN  [next EXCEPT !.usable = {t \in @ : ~ShouldSkipTemporarily(health'[t])}]]
      BY <1>6 DEF Record, Move
    <2>6. ASSUME NEW p \in Query PROVE query'[p] \in QueryType /\ AtServer(query'[p])
      <3> DEFINE next == IF p = q THEN r ELSE query[p]
      <3>1. next \in QueryType /\ AtServer(next)
        BY <2>4, QueryTyped
      <3>2. query'[p] = [next EXCEPT !.usable =
                            {t \in @ : ~ShouldSkipTemporarily(health'[t])}]
        BY <2>5
      <3> HIDE DEF next
      <3>3. QED
        BY <3>1, <3>2 DEF QueryType, AtServer
    <2>7. query' \in [Query -> QueryType]
      BY <2>5, <2>6
    <2>8. TypeOK'
      BY <2>1, <2>3, <2>6, <2>7, QueryTyped DEF TypeOK, QueryType, AtServer
    <2>9. QED
      BY <2>3, <2>8
  <1>7. ASSUME NEW q \in Query, Exhausted(q) PROVE IInv'
    BY <1>7, NoQueryTyped, QueryStep DEF Exhausted
  <1>8. ASSUME NEW q \in Query, Cancelled(q) PROVE IInv'
    BY <1>8, NoQueryTyped, QueryStep DEF Cancelled
  <1>9. CASE NetChange
    <2>1. TypeOK'
      BY <1>9 DEF NetChange, TypeOK
    <2>2. BreakerConsistent'
      BY <1>9 DEF NetChange, BreakerConsistent
    <2>3. QED
      BY <2>1, <2>2
  <1>10. CASE Tick
    <2>1. \A s \in Server : health'[s] = Elapse(health[s])
                               /\ health'[s] \in Health /\ Consistent(health'[s])
      BY <1>10, ElapseConsistent, QueryTyped DEF Tick, BreakerConsistent
    <2>2. health' \in [Server -> Health]
      BY <1>10, <2>1 DEF Tick
    <2>3. TypeOK'
      BY <1>10, <2>2 DEF Tick, TypeOK
    <2>4. BreakerConsistent'
      BY <2>1 DEF BreakerConsistent
    <2>5. QED
      BY <2>3, <2>4
  <1>11. CASE UNCHANGED vars
    BY <1>11 DEF vars, TypeOK, BreakerConsistent
  <1>12. QED
    BY <1>1, <1>2, <1>3, <1>4, <1>5, <1>6, <1>7, <1>8, <1>9, <1>10, <1>11 DEF Next, Step

\* Every variable of the sequential strategy keeps its type, for any servers,
\* queries and thresholds.
THEOREM SequentialTypeCorrect == Spec => []TypeOK
  <1>1. IInv => TypeOK
    BY DEF IInv
  <1>2. QED
    BY <1>1, InitInv, NextInv, PTL DEF Spec

\* Whatever the interleaving of queries, network changes and time, every
\* server's status agrees with its counters; in particular an open breaker has
\* counted one recovery attempt, so its backoff is always 20 seconds.
THEOREM BreakersAgree == Spec => []BreakerConsistent
  <1>1. IInv => BreakerConsistent
    BY DEF IInv
  <1>2. QED
    BY <1>1, InitInv, NextInv, PTL DEF Spec
-----------------------------------------------------------------------------
(***************************************************************************)
(* No server is left out.  The invariant behind it: a server that a query  *)
(* could have asked all along is not skipped now, and the query has asked  *)
(* it or has it still to come.                                             *)
(***************************************************************************)
Coming(r, s) == \E i \in 1 .. Len(r.todo) : r.todo[i] = s

Covers(r) == \A s \in r.usable : s \in r.asked \/ Coming(r, s)

UsableNotSkipped == \A q \in Query : \A s \in query[q].usable : ~Skip(s)

Covered == UsableNotSkipped /\ \A q \in Query : Covers(query[q])

\* The configuration names no server twice, so it has as many places as servers.
LEMMA ServerCount == IsFiniteSet(Server) /\ Cardinality(Server) = Len(Servers)
  <1> DEFINE n == Len(Servers)
  <1> DEFINE f == [i \in 1 .. n |-> Servers[i]]
  <1>1. n \in Nat /\ \A i, j \in 1 .. n : Servers[i] = Servers[j] => i = j
    BY ServersAssumption
  <1>2. f \in Injection(1 .. n, Server)
    BY <1>1 DEF Server, Injection, IsInjective
  <1>3. f \in Surjection(1 .. n, Server)
    BY <1>1 DEF Server, Surjection
  <1>4. ExistsBijection(1 .. n, Server)
    BY <1>2, <1>3 DEF ExistsBijection, Bijection
  <1>5. QED
    BY <1>1, <1>4, FS_CountingElements, FS_NatBijection

\* Whatever order getSortedHealthyServers chooses, every server is in it.
LEMMA OrderIsComplete ==
  ASSUME NEW order \in SortedHealthyServers, NEW s \in Server
  PROVE  \E i \in 1 .. Len(Servers) : order[i] = s
  <1> DEFINE n == Len(Servers)
  <1>1. n \in Nat /\ IsFiniteSet(1 .. n) /\ Cardinality(1 .. n) = n
    BY ServersAssumption, FS_Interval
  <1>2. order \in [1 .. n -> Server] /\ \A i, j \in 1 .. n : i < j => order[i] # order[j]
    BY DEF SortedHealthyServers
  <1>3. order \in Injection(1 .. n, Server)
    BY <1>1, <1>2 DEF Injection, IsInjective
  <1>4. order \in Surjection(1 .. n, Server)
    BY <1>1, <1>3, ServerCount, FS_Injection
  <1>5. QED
    BY <1>4 DEF Surjection

\* What is still to come is the next server or comes after it.
LEMMA NextOrLater ==
  ASSUME NEW t \in Seq(Server), t # <<>>, NEW i \in 1 .. Len(t), t[i] # Head(t)
  PROVE  \E j \in 1 .. Len(Tail(t)) : Tail(t)[j] = t[i]
  <1>1. i # 1 /\ i - 1 \in 1 .. Len(Tail(t)) /\ Tail(t)[i - 1] = t[i]
    OBVIOUS
  <1>2. QED
    BY <1>1

\* A step of one query that touches no breaker.
LEMMA CoveredStep ==
  ASSUME IInv, Covered, NEW q \in Query, NEW r,
         query' = [query EXCEPT ![q] = r], UNCHANGED health,
         \A s \in r.usable : ~Skip(s), Covers(r)
  PROVE  Covered'
  <1>1. \A p \in Query : query'[p] = IF p = q THEN r ELSE query[p]
    BY QueryTyped DEF IInv
  <1>2. UsableNotSkipped'
    BY <1>1 DEF Covered, UsableNotSkipped, Skip
  <1>3. \A p \in Query : Covers(query'[p])
    BY <1>1 DEF Covered
  <1>4. QED
    BY <1>2, <1>3 DEF Covered, Covers, Coming

\* A goroutine without a query owes nothing to anybody.
LEMMA NoQueryCovers == NoQuery.usable = {} /\ Covers(NoQuery)
  BY DEF NoQuery, Covers

\* Every step of the system keeps Covered.
LEMMA NextCovered == IInv /\ Covered /\ [Next]_vars => Covered'
  <1> SUFFICES ASSUME IInv, Covered, [Next]_vars PROVE Covered'
    OBVIOUS
  <1>t. \A q \in Query : query[q] \in QueryType
    BY QueryTyped DEF IInv
  <1>1. ASSUME NEW q \in Query, Begin(q) PROVE Covered'
    <2>1. PICK order \in SortedHealthyServers :
            query' = [query EXCEPT ![q] = [NoQuery EXCEPT !.step = "loop", !.todo = order,
                        !.usable = {s \in Server : ~Skip(s)}]]
      BY <1>1 DEF Begin
    <2> DEFINE r == [NoQuery EXCEPT !.step = "loop", !.todo = order,
                        !.usable = {s \in Server : ~Skip(s)}]
    <2>2. order \in [1 .. Len(Servers) -> Server] /\ Len(Servers) \in Nat
      BY ServersAssumption DEF SortedHealthyServers
    <2>3. Len(order) = Len(Servers)
      BY <2>2
    <2>4. r.todo = order /\ r.usable = {s \in Server : ~Skip(s)}
      BY DEF NoQuery
    <2>5. Covers(r)
      BY <2>3, <2>4, OrderIsComplete DEF Covers, Coming
    <2>6. UNCHANGED health
      BY <1>1 DEF Begin
    <2>7. QED
      BY <2>1, <2>4, <2>5, <2>6, CoveredStep
  <1>2. ASSUME NEW q \in Query, SkipServer(q) PROVE Covered'
    <2> DEFINE t == query[q].todo
    <2> DEFINE r == [query[q] EXCEPT !.todo = Tail(t)]
    <2>1. t \in Seq(Server) /\ t # <<>> /\ Skip(Head(t))
      BY <1>2, <1>t DEF SkipServer, Looping, QueryType
    <2>2. r.todo = Tail(t) /\ r.usable = query[q].usable /\ r.asked = query[q].asked
      BY <1>t DEF QueryType
    <2>3. \A s \in query[q].usable : ~Skip(s) /\ (s \in query[q].asked \/ Coming(query[q], s))
      BY DEF Covered, UsableNotSkipped, Covers
    <2>4. Covers(r)
      <3>1. ASSUME NEW s \in query[q].usable, s \notin query[q].asked
            PROVE  \E j \in 1 .. Len(Tail(t)) : Tail(t)[j] = s
        <4>1. PICK i \in 1 .. Len(t) : t[i] = s
          BY <2>3, <3>1 DEF Coming
        <4>2. s # Head(t)
          BY <2>1, <2>3, <3>1
        <4>3. QED
          BY <2>1, <4>1, <4>2, NextOrLater
      <3> HIDE DEF r
      <3>2. QED
        BY <2>2, <3>1 DEF Covers, Coming
    <2>5. query' = [query EXCEPT ![q] = r] /\ UNCHANGED health
      BY <1>2 DEF SkipServer
    <2> HIDE DEF r
    <2>6. QED
      BY <2>2, <2>3, <2>4, <2>5, CoveredStep
  <1>3. ASSUME NEW q \in Query, Ask(q) PROVE Covered'
    <2> DEFINE t == query[q].todo
    <2> DEFINE r == [query[q] EXCEPT !.todo = Tail(t), !.at = Head(t), !.step = "exchange",
                                     !.asked = query[q].asked \cup {Head(t)}]
    <2>1. t \in Seq(Server) /\ t # <<>>
      BY <1>3, <1>t DEF Ask, Looping, QueryType
    <2>2. /\ r.todo = Tail(t) /\ r.usable = query[q].usable
          /\ r.asked = query[q].asked \cup {Head(t)}
      BY <1>t DEF QueryType
    <2>3. \A s \in query[q].usable : ~Skip(s) /\ (s \in query[q].asked \/ Coming(query[q], s))
      BY DEF Covered, UsableNotSkipped, Covers
    <2>4. Covers(r)
      BY <2>1, <2>2, <2>3, NextOrLater DEF Covers, Coming
    <2>5. query' = [query EXCEPT ![q] = r] /\ UNCHANGED health
      BY <1>3 DEF Ask
    <2> HIDE DEF r
    <2>6. QED
      BY <2>2, <2>3, <2>4, <2>5, CoveredStep
  <1>4. ASSUME NEW q \in Query, Exchange(q) PROVE Covered'
    <2> DEFINE r == [query[q] EXCEPT !.step = IF net THEN "wait" ELSE "record",
                                     !.answer = IF net THEN "none" ELSE "offline"]
    <2>1. r.todo = query[q].todo /\ r.usable = query[q].usable /\ r.asked = query[q].asked
      BY <1>t DEF QueryType
    <2>2. query' = [query EXCEPT ![q] = r] /\ UNCHANGED health
      BY <1>4 DEF Exchange
    <2> HIDE DEF r
    <2>3. (\A s \in r.usable : ~Skip(s)) /\ Covers(r)
      BY <2>1 DEF Covered, UsableNotSkipped, Covers, Coming
    <2>4. QED
      BY <2>2, <2>3, CoveredStep
  <1>5. ASSUME NEW q \in Query, NEW a \in Answers, Answer(q, a) PROVE Covered'
    <2> DEFINE r == [query[q] EXCEPT !.step = "record", !.answer = a]
    <2>1. r.todo = query[q].todo /\ r.usable = query[q].usable /\ r.asked = query[q].asked
      BY <1>t DEF QueryType
    <2>2. query' = [query EXCEPT ![q] = r] /\ UNCHANGED health
      BY <1>5 DEF Answer
    <2> HIDE DEF r
    <2>3. (\A s \in r.usable : ~Skip(s)) /\ Covers(r)
      BY <2>1 DEF Covered, UsableNotSkipped, Covers, Coming
    <2>4. QED
      BY <2>2, <2>3, CoveredStep
  <1>6. ASSUME NEW q \in Query, Record(q) PROVE Covered'
    <2> DEFINE r == IF query[q].answer \in Definite THEN NoQuery
                    ELSE [query[q] EXCEPT !.step = "loop", !.at = NoServer, !.answer = "none"]
    <2>1. query' = [p \in Query |->
              LET next == IF p = q THEN r ELSE query[p]
              IN  [next EXCEPT !.usable = {s \in @ : ~ShouldSkipTemporarily(health'[s])}]]
      BY <1>6 DEF Record, Move
    <2>2. r \in QueryType /\ Covers(r)
      <3>1. CASE query[q].answer \in Definite
        BY <3>1, NoQueryTyped, NoQueryCovers
      <3>2. CASE query[q].answer \notin Definite
        <4>1. r \in QueryType
          BY <3>2, <1>t DEF QueryType
        <4>2. r.todo = query[q].todo /\ r.usable = query[q].usable /\ r.asked = query[q].asked
          BY <3>2, <1>t DEF QueryType
        <4>3. Covers(query[q])
          BY DEF Covered
        <4> HIDE DEF r
        <4>4. QED
          BY <4>1, <4>2, <4>3 DEF Covers, Coming
      <3>3. QED
        BY <3>1, <3>2
    <2>3. ASSUME NEW p \in Query
          PROVE  (\A s \in query'[p].usable : ~ShouldSkipTemporarily(health'[s])) /\ Covers(query'[p])
      <3> DEFINE next == IF p = q THEN r ELSE query[p]
      <3>1. next \in QueryType /\ Covers(next)
        BY <2>2, <1>t DEF Covered
      <3>2. query'[p] = [next EXCEPT !.usable =
                            {s \in @ : ~ShouldSkipTemporarily(health'[s])}]
        BY <2>1
      <3> HIDE DEF next
      <3>3. /\ query'[p].usable = {s \in next.usable : ~ShouldSkipTemporarily(health'[s])}
            /\ query'[p].todo = next.todo /\ query'[p].asked = next.asked
        BY <3>1, <3>2 DEF QueryType
      <3>4. QED
        BY <3>1, <3>3 DEF Covers, Coming
    <2>4. QED
      BY <2>3 DEF Covered, UsableNotSkipped, Skip, Covers, Coming
  <1>7. ASSUME NEW q \in Query, Exhausted(q) \/ Cancelled(q) PROVE Covered'
    <2>1. query' = [query EXCEPT ![q] = NoQuery] /\ UNCHANGED health
      BY <1>7 DEF Exhausted, Cancelled
    <2>2. QED
      BY <2>1, NoQueryCovers, CoveredStep
  <1>8. CASE NetChange \/ UNCHANGED vars
    BY <1>8 DEF NetChange, vars, Covered, UsableNotSkipped, Skip, Covers, Coming
  <1>9. CASE Tick
    <2>1. ASSUME NEW s \in Server, ~Skip(s) PROVE ~Skip(s)'
      <3>1. health[s] \in Health /\ health'[s] = Elapse(health[s])
        BY <1>9, QueryTyped DEF Tick, IInv
      <3>2. QED
        BY <2>1, <3>1 DEF Skip, ShouldSkipTemporarily, Elapse, Health
    <2>2. UNCHANGED query /\ \A q \in Query : query[q].usable \subseteq Server
      BY <1>9, <1>t DEF Tick, QueryType
    <2>3. UsableNotSkipped'
      BY <2>1, <2>2 DEF Covered, UsableNotSkipped
    <2>4. QED
      BY <2>2, <2>3 DEF Covered, Covers, Coming
  <1>10. QED
    BY <1>1, <1>2, <1>3, <1>4, <1>5, <1>6, <1>7, <1>8, <1>9 DEF Next, Step

\* A query that gives up has asked every server whose breaker stayed closed from
\* the query's beginning to its end, for any number of servers, whatever the
\* other queries did to the breakers and whatever order the sort produced.
THEOREM NobodyLeftOut == Spec => []NoServerLeftOut
  <1>1. Init => Covered
    BY NoQueryCovers DEF Init, Covered, UsableNotSkipped
  <1>2. IInv /\ Covered => NoServerLeftOut
    BY DEF Covered, Covers, Coming, NoServerLeftOut
  <1>3. QED
    BY <1>1, <1>2, InitInv, NextInv, NextCovered, PTL DEF Spec
=============================================================================
