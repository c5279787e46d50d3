------------------------- MODULE RefreshQueueProofs --------------------------
(***************************************************************************)
(* Proofs about the goroutines behind the cache.  RefreshQueue, for any    *)
(* keys, callers, workers and capacity: accepted refreshes are neither     *)
(* lost nor run twice, and every flight has one leader.  CacheLock, for    *)
(* any number of query handlers: c.mu has one writer or readers.           *)
(***************************************************************************)
EXTENDS Upkeep, FiniteSetTheorems, TLAPS

\* Where a key is in the queue, and who runs it.
Places(k) == {i \in 1 .. Len(queue) : queue[i] = k}
Runners(k) == {w \in Worker : work[w] = k}
Leaders(k) == {c \in flight[k] : call[c].step \in {"send", "sent"}}

\* A call has a key from beginning to end.
Keyed == \A c \in Caller : call[c].step # "idle" => call[c].key \in Key

Led ==
    \A k \in Key :
        /\ flight[k] = {c \in Caller : call[c].key = k}
        /\ flight[k] # {} => \E c \in flight[k] : Leaders(k) = {c}

Assumptions == CapAssumption /\ KeyAssumption /\ WorkerAssumption

QInv == Assumptions /\ TypeOK /\ Conserved /\ Keyed /\ Led

-----------------------------------------------------------------------------
(***************************************************************************)
(* Counting.                                                               *)
(***************************************************************************)
\* The places in a queue, and the workers of a key, are finitely many.
LEMMA CountsFinite ==
  ASSUME WorkerAssumption, queue \in Seq(Key), NEW k
  PROVE  /\ IsFiniteSet(Places(k)) /\ IsFiniteSet(Runners(k))
         /\ Count(k) = Cardinality(Places(k)) /\ Running(k) = Cardinality(Runners(k))
         /\ Count(k) \in Nat /\ Running(k) \in Nat
  <1>1. IsFiniteSet(1 .. Len(queue)) /\ Places(k) \subseteq 1 .. Len(queue)
    BY FS_Interval DEF Places
  <1>2. IsFiniteSet(Worker) /\ Runners(k) \subseteq Worker
    BY DEF WorkerAssumption, Runners
  <1>3. IsFiniteSet(Places(k)) /\ IsFiniteSet(Runners(k))
    BY <1>1, <1>2, FS_Subset
  <1>4. Count(k) = Cardinality(Places(k)) /\ Running(k) = Cardinality(Runners(k))
    BY DEF Count, Running, Places, Runners
  <1>5. QED
    BY <1>3, <1>4, FS_CardinalityType

\* A task sent is counted once more.
LEMMA CountAppend ==
  ASSUME queue \in Seq(Key), NEW k \in Key, NEW h \in Key, queue' = Append(queue, h)
  PROVE  Cardinality(Places(k)') = Cardinality(Places(k)) + (IF k = h THEN 1 ELSE 0)
  <1> DEFINE n == Len(queue)
  <1>1. /\ n \in Nat /\ Len(queue') = n + 1 /\ queue'[n + 1] = h
        /\ \A i \in 1 .. n : queue'[i] = queue[i]
    OBVIOUS
  <1>2. IsFiniteSet(Places(k)) /\ Cardinality(Places(k)) \in Nat
    <2>1. IsFiniteSet(1 .. n) /\ Places(k) \subseteq 1 .. n
      BY <1>1, FS_Interval DEF Places
    <2>2. QED
      BY <2>1, FS_Subset, FS_CardinalityType
  <1> HIDE DEF n
  <1>3. Places(k)' = {i \in 1 .. (n + 1) : queue'[i] = k}
    BY <1>1 DEF Places
  <1>4. Places(k) = {i \in 1 .. n : queue[i] = k}
    BY DEF Places, n
  <1>5. n + 1 \notin Places(k)
    BY <1>1, <1>4
  <1>6. CASE k = h
    <2>1. Places(k)' = Places(k) \cup {n + 1}
      BY <1>1, <1>3, <1>4, <1>6
    <2>2. QED
      BY <1>2, <1>5, <1>6, <2>1, FS_AddElement
  <1>7. CASE k # h
    <2>1. Places(k)' = Places(k)
      BY <1>1, <1>3, <1>4, <1>7
    <2>2. QED
      BY <1>2, <1>7, <2>1
  <1>8. QED
    BY <1>6, <1>7

\* A task received is counted once less; the others move up by one.
LEMMA CountTail ==
  ASSUME queue \in Seq(Key), queue # <<>>, NEW k \in Key, queue' = Tail(queue)
  PROVE  Cardinality(Places(k)) = Cardinality(Places(k)') + (IF k = Head(queue) THEN 1 ELSE 0)
  <1> DEFINE n == Len(queue)
             T == Places(k)'
             S == Places(k) \ {1}
             f == [i \in T |-> i + 1]
  <1>1. /\ n \in Nat /\ n >= 1 /\ Len(queue') = n - 1 /\ Head(queue) = queue[1]
        /\ \A i \in 1 .. (n - 1) : queue'[i] = queue[i + 1]
    OBVIOUS
  <1> HIDE DEF n
  <1>2. T = {i \in 1 .. (n - 1) : queue[i + 1] = k}
    BY <1>1 DEF Places
  <1>3. Places(k) = {i \in 1 .. n : queue[i] = k}
    BY DEF Places, n
  <1>4. IsFiniteSet(Places(k)) /\ IsFiniteSet(T)
    <2>1. IsFiniteSet(1 .. n) /\ IsFiniteSet(1 .. (n - 1))
      BY <1>1, FS_Interval
    <2>2. Places(k) \subseteq 1 .. n /\ T \subseteq 1 .. (n - 1)
      BY <1>2, <1>3
    <2>3. QED
      BY <2>1, <2>2, FS_Subset
  <1>5. f \in Bijection(T, S)
    <2> HIDE DEF T
    <2>1. \A i \in T : i \in Int /\ i + 1 \in S
      BY <1>1, <1>2, <1>3
    <2>2. \A j \in S : j - 1 \in T /\ j \in Int
      BY <1>1, <1>2, <1>3
    <2>3. f \in [T -> S]
      BY <2>1
    <2>4. \A a, b \in T : f[a] = f[b] => a = b
      BY <2>1
    <2>5. \A j \in S : \E i \in T : f[i] = j
      <3>1. SUFFICES ASSUME NEW j \in S PROVE f[j - 1] = j /\ j - 1 \in T
        OBVIOUS
      <3>2. QED
        BY <2>2
    <2>6. QED
      <3> HIDE DEF f, S
      <3>1. QED
        BY <2>3, <2>4, <2>5 DEF Bijection, Injection, Surjection, IsInjective
  <1>6. Cardinality(S) = Cardinality(T)
    <2>1. ExistsBijection(T, S)
      BY <1>5 DEF ExistsBijection
    <2> HIDE DEF S, T
    <2>2. QED
      BY <1>4, <2>1, FS_Bijection
  <1>7. Cardinality(S) = IF 1 \in Places(k) THEN Cardinality(Places(k)) - 1
                                            ELSE Cardinality(Places(k))
    BY <1>4, FS_RemoveElement
  <1>8. 1 \in Places(k) <=> k = Head(queue)
    BY <1>1, <1>3
  <1>9. Cardinality(Places(k)) \in Nat
    BY <1>4, FS_CardinalityType
  <1>10. Cardinality(Places(k)') = Cardinality(Places(k) \ {1})
    BY <1>6
  <1>11. CASE k = Head(queue)
    <2>1. Cardinality(Places(k) \ {1}) = Cardinality(Places(k)) - 1
      BY <1>7, <1>8, <1>11
    <2>2. QED
      BY <1>9, <1>10, <1>11, <2>1
  <1>12. CASE k # Head(queue)
    <2>1. Cardinality(Places(k) \ {1}) = Cardinality(Places(k))
      BY <1>7, <1>8, <1>12
    <2>2. QED
      BY <1>9, <1>10, <1>12, <2>1
  <1>13. QED
    BY <1>11, <1>12
-----------------------------------------------------------------------------
(***************************************************************************)
(* The steps.                                                              *)
(***************************************************************************)
\* A worker that gets a key, or gives it up, changes the count of that key alone.
LEMMA RunningMoves ==
  ASSUME WorkerAssumption, work \in [Worker -> Key \cup {NoKey}], NEW w \in Worker,
         NEW v \in Key \cup {NoKey}, work' = [work EXCEPT ![w] = v], NEW k
  PROVE  Cardinality(Runners(k)') = IF v = work[w] THEN Cardinality(Runners(k))
                                    ELSE IF k = v THEN Cardinality(Runners(k)) + 1
                                    ELSE IF k = work[w] THEN Cardinality(Runners(k)) - 1
                                    ELSE Cardinality(Runners(k))
  <1>1. IsFiniteSet(Runners(k))
    <2>1. IsFiniteSet(Worker) /\ Runners(k) \subseteq Worker
      BY DEF WorkerAssumption, Runners
    <2>2. QED
      BY <2>1, FS_Subset
  <1>2. CASE v = work[w] \/ (k # v /\ k # work[w])
    <2>1. Runners(k)' = Runners(k)
      BY <1>2 DEF Runners
    <2>2. QED
      BY <1>2, <2>1
  <1>3. CASE v # work[w] /\ k = v
    <2>1. Runners(k)' = Runners(k) \cup {w} /\ w \notin Runners(k)
      BY <1>3 DEF Runners
    <2>2. QED
      BY <1>1, <1>3, <2>1, FS_AddElement
  <1>4. CASE v # work[w] /\ k # v /\ k = work[w]
    <2>1. Runners(k)' = Runners(k) \ {w} /\ w \in Runners(k)
      BY <1>4 DEF Runners
    <2>2. QED
      BY <1>1, <1>4, <2>1, FS_RemoveElement
  <1>5. QED
    BY <1>2, <1>3, <1>4

\* Conserved in terms of the sets that are counted, before and after a step.
LEMMA ConservedSets ==
  ASSUME Assumptions, TypeOK
  PROVE  /\ Conserved <=> \A k \in Key : accepted[k] = Cardinality(Places(k))
                                            + Cardinality(Runners(k)) + done[k]
         /\ \A k \in Key : Cardinality(Places(k)) \in Nat /\ Cardinality(Runners(k)) \in Nat
  <1>1. WorkerAssumption /\ queue \in Seq(Key)
    BY DEF Assumptions, TypeOK
  <1>2. \A k \in Key : /\ Count(k) = Cardinality(Places(k)) /\ Running(k) = Cardinality(Runners(k))
                       /\ Count(k) \in Nat /\ Running(k) \in Nat
    BY <1>1, CountsFinite
  <1>3. QED
    BY <1>2 DEF Conserved

Call == [step : {"idle", "send", "join", "sent"}, key : Key \cup {NoKey},
         res : {"none", "ok", "full"}]

\* The record of a call that begins.
LEMMA NewCall ==
  ASSUME NEW s, NEW k
  PROVE  [NoCall EXCEPT !.key = k, !.step = s] = [step |-> s, key |-> k, res |-> "none"]
  <1> DEFINE r == [step |-> "idle", key |-> k, res |-> "none"]
  <1>1. [NoCall EXCEPT !.key = k] = r
    BY DEF NoCall
  <1>2. [r EXCEPT !.step = s] = [step |-> s, key |-> k, res |-> "none"]
    OBVIOUS
  <1>3. QED
    BY <1>1, <1>2

\* A step that leaves tasks and calls alone.
LEMMA Unmoved ==
  ASSUME QInv, UNCHANGED <<queue, call, flight, work, accepted, done>>,
         quit' \in BOOLEAN, gone' \subseteq Worker
  PROVE  QInv'
  <1>1. TypeOK'
    BY DEF QInv, TypeOK
  <1>2. Conserved'
    BY DEF QInv, Conserved, Count, Running
  <1>3. Keyed' /\ Led'
    BY DEF QInv, Keyed, Led, Leaders
  <1>4. QED
    BY <1>1, <1>2, <1>3 DEF QInv, Assumptions, CapAssumption, KeyAssumption, WorkerAssumption

\* Submit: a flight begins, is joined, and ends.
LEMMA DoStep ==
  ASSUME QInv, NEW c \in Caller, NEW k \in Key, Do(c, k)
  PROVE  QInv'
  <1> DEFINE s == IF flight[k] = {} THEN "send" ELSE "join"
  <1>1. /\ call[c] = NoCall
        /\ call' = [call EXCEPT ![c] = [step |-> s, key |-> k, res |-> "none"]]
        /\ flight' = [flight EXCEPT ![k] = @ \cup {c}]
        /\ UNCHANGED <<queue, work, quit, gone, accepted, done>>
    BY NewCall DEF Do
  <1>2. call \in [Caller -> Call] /\ flight \in [Key -> SUBSET Caller] /\ NoKey \notin Key
    BY DEF QInv, TypeOK, Call, Assumptions, KeyAssumption
  <1>3. TypeOK'
    <2>1. call' \in [Caller -> Call]
      BY <1>1, <1>2 DEF Call
    <2>2. QED
      BY <1>1, <1>2, <2>1 DEF QInv, TypeOK, Call
  <1>4. Conserved'
    BY <1>1 DEF QInv, Conserved, Count, Running
  <1>5. Keyed'
    BY <1>1, <1>2 DEF QInv, Keyed
  <1>6. ASSUME NEW j \in Key
        PROVE  /\ flight'[j] = {d \in Caller : call'[d].key = j}
               /\ flight'[j] # {} => \E d \in flight'[j] : Leaders(j)' = {d}
    <2>0. call[c].key = NoKey
      BY <1>1 DEF NoCall
    <2>1. /\ flight[j] = {d \in Caller : call[d].key = j} /\ c \notin flight[j]
          /\ flight[j] # {} => \E d \in flight[j] : Leaders(j) = {d}
      BY <1>2, <2>0 DEF QInv, Led
    <2>2. CASE j # k
      <3>1. flight'[j] = flight[j] /\ \A d \in Caller : d # c => call'[d] = call[d]
        BY <1>1, <1>2, <2>2
      <3>2. Leaders(j)' = Leaders(j)
        BY <2>1, <3>1 DEF Leaders
      <3>3. call'[c].key = k
        BY <1>1, <1>2
      <3>4. QED
        BY <2>1, <2>2, <3>1, <3>2, <3>3
    <2>3. CASE j = k
      <3>1. /\ flight'[k] = flight[k] \cup {c} /\ call'[c].key = k /\ call'[c].step = s
            /\ \A d \in Caller : d # c => call'[d] = call[d]
        BY <1>1, <1>2
      <3>2. flight'[k] = {d \in Caller : call'[d].key = k}
        BY <2>1, <2>3, <3>1
      <3>3. CASE flight[k] = {}
        <4>1. Leaders(k)' = {c}
          BY <3>1, <3>3 DEF Leaders
        <4>2. QED
          BY <2>3, <3>1, <3>2, <4>1
      <3>4. CASE flight[k] # {}
        <4>1. Leaders(k)' = Leaders(k)
          BY <1>2, <2>1, <2>3, <3>1, <3>4 DEF Leaders
        <4>2. QED
          BY <2>1, <2>3, <3>1, <3>2, <3>4, <4>1
      <3>5. QED
        BY <3>3, <3>4
    <2>4. QED
      BY <2>2, <2>3
  <1>7. QED
    BY <1>3, <1>4, <1>5, <1>6 DEF QInv, Led, Assumptions, CapAssumption, KeyAssumption,
       WorkerAssumption

\* Send: the leader's task goes into the queue, or is refused by a full one.
LEMMA SendStep ==
  ASSUME QInv, NEW c \in Caller, Send(c)
  PROVE  QInv'
  <1> DEFINE k == call[c].key
  <1>1. call \in [Caller -> Call] /\ flight \in [Key -> SUBSET Caller]
    BY DEF QInv, TypeOK, Call
  <1>2. k \in Key /\ call[c].step = "send" /\ UNCHANGED <<flight, work, quit, gone, done>>
    BY DEF Send, QInv, Keyed
  <1>3. PICK r \in {"ok", "full"} :
          call' = [call EXCEPT ![c] = [call[c] EXCEPT !.step = "sent", !.res = r]]
    BY <1>1 DEF Send
  <1>4. /\ call' \in [Caller -> Call] /\ call'[c].step = "sent" /\ call'[c].key = k
        /\ \A d \in Caller : d # c => call'[d] = call[d]
    BY <1>1, <1>3 DEF Call
  <1>5. Keyed'
    BY <1>2, <1>4 DEF QInv, Keyed
  <1>6. Led'
    <2>1. \A d \in Caller : call'[d].key = call[d].key
      BY <1>4
    <2>2. \A d \in Caller : call'[d].step \in {"send", "sent"} <=> call[d].step \in {"send", "sent"}
      BY <1>2, <1>4
    <2>3. \A j \in Key : flight'[j] = flight[j] /\ Leaders(j)' = Leaders(j)
      BY <1>1, <1>2, <2>2 DEF Leaders
    <2>4. \A j \in Key : {d \in Caller : call'[d].key = j} = {d \in Caller : call[d].key = j}
      BY <2>1
    <2>5. QED
      BY <2>3, <2>4 DEF QInv, Led
  <1>7. TypeOK' /\ Conserved'
    <2> HIDE DEF k
    <2>1. CASE /\ Len(queue) < QueueCap /\ queue' = Append(queue, k)
               /\ accepted' = [accepted EXCEPT ![k] = @ + 1]
      <3>1. queue \in Seq(Key) /\ accepted \in [Key -> Nat] /\ done \in [Key -> Nat] /\ QueueCap \in Nat
        BY DEF QInv, TypeOK, Assumptions, CapAssumption
      <3>2. queue' \in Seq(Key) /\ Len(queue') <= QueueCap /\ accepted' \in [Key -> Nat]
        BY <1>2, <2>1, <3>1
      <3>3. TypeOK'
        BY <1>2, <1>4, <3>2 DEF QInv, TypeOK, Call
      <3>4. ASSUME NEW j \in Key
            PROVE  accepted'[j] = Count(j)' + Running(j)' + done'[j]
        <4>1. /\ accepted[j] = Cardinality(Places(j)) + Cardinality(Runners(j)) + done[j]
              /\ Cardinality(Places(j)) \in Nat /\ Cardinality(Runners(j)) \in Nat
          BY ConservedSets DEF QInv
        <4>2. Count(j)' = Cardinality(Places(j)) + (IF j = k THEN 1 ELSE 0)
          <5>1. Count(j)' = Cardinality(Places(j)')
            BY DEF Count, Places
          <5>2. QED
            BY <1>2, <2>1, <3>1, <5>1, CountAppend
        <4>3. Running(j)' = Cardinality(Runners(j))
          BY <1>2 DEF Running, Runners
        <4>4. accepted'[j] = accepted[j] + (IF j = k THEN 1 ELSE 0)
          BY <2>1, <3>1
        <4>5. done'[j] = done[j] /\ done[j] \in Nat
          BY <1>2, <3>1
        <4>6. QED
          BY <4>1, <4>2, <4>3, <4>4, <4>5
      <3>5. QED
        BY <3>3, <3>4 DEF Conserved
    <2>2. CASE UNCHANGED <<queue, accepted>>
      BY <1>2, <1>4, <2>2 DEF QInv, TypeOK, Call, Conserved, Count, Running
    <2>3. QED
      BY <2>1, <2>2 DEF Send, k
  <1>8. QED
    BY <1>5, <1>6, <1>7 DEF QInv, Assumptions, CapAssumption, KeyAssumption, WorkerAssumption

\* DoReturns: a caller leaves its flight.
LEMMA DoReturnsStep ==
  ASSUME QInv, NEW c \in Caller, DoReturns(c)
  PROVE  QInv'
  <1> DEFINE k == call[c].key
  <1>1. /\ call \in [Caller -> Call] /\ flight \in [Key -> SUBSET Caller] /\ NoKey \notin Key
        /\ \A j \in Key : /\ flight[j] = {d \in Caller : call[d].key = j}
                          /\ flight[j] # {} => \E d \in flight[j] : Leaders(j) = {d}
    BY DEF QInv, TypeOK, Call, Assumptions, KeyAssumption, Led
  <1>2. /\ k \in Key /\ flight' = [flight EXCEPT ![k] = {}]
        /\ call' = [d \in Caller |-> IF d \in flight[k] THEN NoCall ELSE call[d]]
        /\ UNCHANGED <<queue, work, quit, gone, accepted, done>>
    BY DEF DoReturns, QInv, Keyed
  <1> HIDE DEF k
  <1>3. NoCall \in Call /\ NoCall.key = NoKey /\ NoCall.step = "idle"
    BY DEF NoCall, Call
  <1>4. call' \in [Caller -> Call] /\ flight' \in [Key -> SUBSET Caller]
    BY <1>1, <1>2, <1>3
  <1>5. TypeOK' /\ Conserved'
    BY <1>2, <1>4 DEF QInv, TypeOK, Call, Conserved, Count, Running
  <1>6. Keyed'
    BY <1>2, <1>3 DEF QInv, Keyed
  <1>7. ASSUME NEW j \in Key
        PROVE  /\ flight'[j] = {d \in Caller : call'[d].key = j}
               /\ flight'[j] # {} => \E d \in flight'[j] : Leaders(j)' = {d}
    <2>1. CASE j = k
      <3>1. flight'[j] = {}
        BY <1>1, <1>2, <2>1
      <3>2. \A d \in Caller : call'[d].key # j
        BY <1>1, <1>2, <1>3, <2>1
      <3>3. QED
        BY <3>1, <3>2
    <2>2. CASE j # k
      <3>1. flight'[j] = flight[j]
        BY <1>1, <1>2, <2>2
      <3>2. \A d \in Caller : (call'[d].key = j <=> call[d].key = j)
                              /\ (call[d].key = j => call'[d] = call[d])
        BY <1>1, <1>2, <1>3, <2>2
      <3>3. Leaders(j)' = Leaders(j)
        BY <1>1, <3>1, <3>2 DEF Leaders
      <3>4. QED
        BY <1>1, <3>1, <3>2, <3>3
    <2>3. QED
      BY <2>1, <2>2
  <1>8. QED
    BY <1>5, <1>6, <1>7 DEF QInv, Led, Assumptions, CapAssumption, KeyAssumption, WorkerAssumption

\* The workers: a task goes from the queue to a worker and to the tasks done.
LEMMA WorkerStep ==
  ASSUME QInv, NEW w \in Worker, Run(w)
  PROVE  QInv'
  <1>1. /\ queue \in Seq(Key) /\ Len(queue) <= QueueCap /\ QueueCap \in Nat
        /\ work \in [Worker -> Key \cup {NoKey}] /\ NoKey \notin Key /\ WorkerAssumption
        /\ accepted \in [Key -> Nat] /\ done \in [Key -> Nat]
    BY DEF QInv, TypeOK, Assumptions, CapAssumption, KeyAssumption
  <1>2. \A j \in Key :
          /\ accepted[j] = Cardinality(Places(j)) + Cardinality(Runners(j)) + done[j]
          /\ Cardinality(Places(j)) \in Nat /\ Cardinality(Runners(j)) \in Nat
    BY ConservedSets DEF QInv
  <1>3. \A j : Count(j)' = Cardinality(Places(j)') /\ Running(j)' = Cardinality(Runners(j)')
    BY DEF Count, Running, Places, Runners
  <1>4. CASE Take(w)
    <2> DEFINE h == Head(queue)
    <2>1. /\ work[w] = NoKey /\ queue # <<>> /\ work' = [work EXCEPT ![w] = h]
          /\ queue' = Tail(queue) /\ UNCHANGED <<call, flight, quit, gone, accepted, done>>
      BY <1>4 DEF Take, Free
    <2>2. h \in Key /\ queue' \in Seq(Key) /\ Len(queue') <= QueueCap
      BY <1>1, <2>1
    <2>3. work' \in [Worker -> Key \cup {NoKey}]
      BY <1>1, <2>1, <2>2
    <2>4. TypeOK'
      BY <2>1, <2>2, <2>3 DEF QInv, TypeOK
    <2>5. ASSUME NEW j \in Key
          PROVE  accepted'[j] = Count(j)' + Running(j)' + done'[j]
      <3>1. Cardinality(Places(j)) = Cardinality(Places(j)') + (IF j = h THEN 1 ELSE 0)
        BY <1>1, <2>1, CountTail
      <3>2. Cardinality(Runners(j)') = Cardinality(Runners(j)) + (IF j = h THEN 1 ELSE 0)
        <4> HIDE DEF h
        <4>1. h # work[w] /\ j # work[w]
          BY <1>1, <2>1, <2>2
        <4>2. h \in Key \cup {NoKey}
          BY <2>2
        <4>3. Cardinality(Runners(j)') = IF h = work[w] THEN Cardinality(Runners(j))
                                         ELSE IF j = h THEN Cardinality(Runners(j)) + 1
                                         ELSE IF j = work[w] THEN Cardinality(Runners(j)) - 1
                                         ELSE Cardinality(Runners(j))
          BY <1>1, <2>1, <4>2, RunningMoves
        <4>4. CASE j = h
          BY <4>1, <4>3, <4>4
        <4>5. CASE j # h
          BY <1>2, <4>1, <4>3, <4>5
        <4>6. QED
          BY <4>4, <4>5
      <3>3. Cardinality(Places(j)') \in Nat
        <4>1. IsFiniteSet(1 .. Len(queue')) /\ Places(j)' \subseteq 1 .. Len(queue')
          BY <2>2, FS_Interval DEF Places
        <4>2. QED
          BY <4>1, FS_Subset, FS_CardinalityType
      <3>4. accepted'[j] = accepted[j] /\ done'[j] = done[j] /\ done[j] \in Nat
        BY <1>1, <2>1
      <3>5. QED
        <4> HIDE DEF h
        <4>1. QED
          BY <1>2, <1>3, <3>1, <3>2, <3>3, <3>4
    <2>6. Keyed' /\ Led'
      BY <2>1 DEF QInv, Keyed, Led, Leaders
    <2>7. QED
      BY <2>4, <2>5, <2>6 DEF QInv, Conserved, Assumptions, CapAssumption, KeyAssumption,
         WorkerAssumption
  <1>5. CASE Complete(w)
    <2> DEFINE h == work[w]
    <2>1. /\ h # NoKey /\ done' = [done EXCEPT ![h] = @ + 1] /\ work' = [work EXCEPT ![w] = NoKey]
          /\ UNCHANGED <<queue, call, flight, quit, gone, accepted>>
      BY <1>5 DEF Complete
    <2>2. h \in Key
      BY <1>1, <2>1
    <2>3. TypeOK'
      BY <1>1, <2>1, <2>2 DEF QInv, TypeOK
    <2>4. ASSUME NEW j \in Key
          PROVE  accepted'[j] = Count(j)' + Running(j)' + done'[j]
      <3>1. Cardinality(Places(j)') = Cardinality(Places(j)) /\ accepted'[j] = accepted[j]
        BY <2>1 DEF Places
      <3>2. Cardinality(Runners(j)') = IF NoKey = h THEN Cardinality(Runners(j))
                                       ELSE IF j = NoKey THEN Cardinality(Runners(j)) + 1
                                       ELSE IF j = h THEN Cardinality(Runners(j)) - 1
                                       ELSE Cardinality(Runners(j))
        BY <1>1, <2>1, RunningMoves
      <3>3. j # NoKey
        BY <1>1
      <3>4. done'[j] = (IF j = h THEN done[j] + 1 ELSE done[j]) /\ done[j] \in Nat
        BY <1>1, <2>1
      <3>5. QED
        <4> HIDE DEF h
        <4>1. CASE j = h
          BY <1>2, <1>3, <2>1, <3>1, <3>2, <3>3, <3>4, <4>1
        <4>2. CASE j # h
          BY <1>2, <1>3, <2>1, <3>1, <3>2, <3>3, <3>4, <4>2
        <4>3. QED
          BY <4>1, <4>2
    <2>5. Keyed' /\ Led'
      BY <2>1 DEF QInv, Keyed, Led, Leaders
    <2>6. QED
      BY <2>3, <2>4, <2>5 DEF QInv, Conserved, Assumptions, CapAssumption, KeyAssumption,
         WorkerAssumption
  <1>6. CASE WorkerExit(w)
    <2>1. gone' = gone \cup {w} /\ UNCHANGED <<queue, call, flight, work, quit, accepted, done>>
      BY <1>6 DEF WorkerExit
    <2>2. gone' \subseteq Worker /\ quit' \in BOOLEAN
      BY <2>1 DEF QInv, TypeOK
    <2>3. QED
      BY <2>1, <2>2, Unmoved
  <1>7. QED
    BY <1>4, <1>5, <1>6 DEF Run

\* Every step keeps the invariant.
LEMMA NextQueue == QInv /\ [Next]_vars => QInv'
  <1> SUFFICES ASSUME QInv, [Next]_vars PROVE QInv'
    OBVIOUS
  <1>1. CASE \E c \in Caller : Submit(c)
    BY <1>1, DoStep, SendStep, DoReturnsStep DEF Submit
  <1>2. CASE \E w \in Worker : Run(w)
    BY <1>2, WorkerStep
  <1>3. CASE Stop
    <2>1. quit' = TRUE /\ UNCHANGED <<queue, call, flight, work, gone, accepted, done>>
      BY <1>3 DEF Stop
    <2>2. gone' \subseteq Worker /\ quit' \in BOOLEAN
      BY <2>1 DEF QInv, TypeOK
    <2>3. QED
      BY <2>1, <2>2, Unmoved
  <1>4. CASE UNCHANGED vars
    <2>1. UNCHANGED <<queue, call, flight, work, quit, gone, accepted, done>>
      BY <1>4 DEF vars
    <2>2. gone' \subseteq Worker /\ quit' \in BOOLEAN
      BY <2>1 DEF QInv, TypeOK
    <2>3. QED
      BY <2>1, <2>2, Unmoved
  <1>5. QED
    BY <1>1, <1>2, <1>3, <1>4 DEF Next

\* Whatever the callers, the workers and Stop do, every refresh that Submit accepted is in
\* the queue, with one worker or done, exactly once; the queue keeps to its capacity; and
\* callers that share a flight have one leader, so no caller waits for nobody.
THEOREM QueueIsConsistent == Assumptions /\ Spec => []QueueConsistent
  <1>1. Assumptions /\ Init => QInv
    <2> SUFFICES ASSUME Assumptions, Init PROVE QInv
      OBVIOUS
    <2>1. /\ queue = <<>> /\ call = [c \in Caller |-> NoCall] /\ flight = [k \in Key |-> {}]
          /\ work = [w \in Worker |-> NoKey] /\ quit = FALSE /\ gone = {}
          /\ accepted = [k \in Key |-> 0] /\ done = [k \in Key |-> 0] /\ NoKey \notin Key
          /\ QueueCap \in Nat
      BY DEF Init, Assumptions, KeyAssumption, CapAssumption
    <2>2. NoCall \in Call /\ NoCall.key = NoKey /\ NoCall.step = "idle"
      BY DEF NoCall, Call
    <2>3. TypeOK
      <3>1. call \in [Caller -> Call]
        BY <2>1, <2>2
      <3>2. queue \in Seq(Key) /\ Len(queue) <= QueueCap
        BY <2>1
      <3>3. flight \in [Key -> SUBSET Caller] /\ work \in [Worker -> Key \cup {NoKey}]
        BY <2>1
      <3>4. accepted \in [Key -> Nat] /\ done \in [Key -> Nat]
        BY <2>1
      <3>5. quit \in BOOLEAN /\ gone \subseteq Worker
        BY <2>1
      <3>6. QED
        BY <3>1, <3>2, <3>3, <3>4, <3>5 DEF TypeOK, Call
    <2>4. Keyed /\ Led
      BY <2>1, <2>2 DEF Keyed, Led
    <2>5. Conserved
      <3>1. \A k \in Key : Places(k) = {} /\ Runners(k) = {}
        BY <2>1 DEF Places, Runners
      <3>2. \A k \in Key : Cardinality(Places(k)) = 0 /\ Cardinality(Runners(k)) = 0
        BY <3>1, FS_EmptySet
      <3>3. \A k \in Key : accepted[k] = 0 /\ done[k] = 0
        BY <2>1
      <3>4. \A k \in Key : accepted[k] = Cardinality(Places(k)) + Cardinality(Runners(k)) + done[k]
        BY <3>2, <3>3
      <3>5. QED
        BY <2>3, <3>4, ConservedSets
    <2>6. QED
      BY <2>3, <2>4, <2>5 DEF QInv
  <1>2. QInv => QueueConsistent
    <2> SUFFICES ASSUME QInv PROVE FlightHasLeader
      BY DEF QInv, QueueConsistent
    <2>1. ASSUME NEW k \in Key, flight[k] # {}
          PROVE  Cardinality({c \in flight[k] : call[c].step \in {"send", "sent"}}) = 1
      <3>1. PICK c : Leaders(k) = {c}
        BY <2>1 DEF QInv, Led
      <3>2. QED
        BY <3>1, FS_Singleton DEF Leaders
    <2>2. QED
      BY <2>1 DEF QInv, Led, FlightHasLeader
  <1>3. QED
    BY <1>1, <1>2, NextQueue, PTL DEF Spec

-----------------------------------------------------------------------------
(***************************************************************************)
(* The lock of the cache.                                                  *)
(***************************************************************************)
Place == Lock!Locking \cup {"idle", "locked", "drain", "drainLocked", "rlock", "rwait",
                           "reading", "gone"}
Holding == {"locked", "drainLocked", "relock"}

LInv == Lock!ConfigAssumption /\ Lock!ProcAssumption /\ Lock!TypeOK

\* The goroutines that are not query handlers.
LEMMA ProcsOfTheCache ==
  /\ Lock!Pusher \in Lock!Proc /\ Lock!Cleaner \in Lock!Proc /\ Lock!Closer \in Lock!Proc
  /\ Query \subseteq Lock!Proc
  BY DEF Lock!Proc

\* A goroutine that neither holds c.mu nor comes to hold it changes nothing about it.
LEMMA MovesAside ==
  ASSUME LInv, NEW p \in Lock!Proc, NEW l \in Place \ (Holding \cup {"reading"}),
         pc[p] \notin Holding \cup {"reading"}, pc' = [pc EXCEPT ![p] = l],
         UNCHANGED <<writer, readers>>, chan' \in 0 .. ChanCap,
         msg' \in {"none", "fresh", "expired"}, stop' \in BOOLEAN
  PROVE  Lock!TypeOK'
  <1> USE DEF LInv, Lock!TypeOK, Place, Holding
  <1>1. pc' \in [Lock!Proc -> Place] /\ \A r \in Lock!Proc \ {p} : pc'[r] = pc[r]
    OBVIOUS
  <1>2. pc'[p] = l
    OBVIOUS
  <1>3. readers' = {r \in Lock!Proc : pc'[r] = "reading"}
    BY <1>1, <1>2
  <1>4. \A r \in Lock!Proc : pc'[r] \in Holding => writer' = r /\ readers' = {}
    BY <1>1, <1>2
  <1>5. QED
    BY <1>1, <1>3, <1>4

\* Whoever holds c.mu hands it over to all readers that wait for it.
LEMMA Unlocks ==
  ASSUME LInv, NEW p \in Lock!Proc, NEW l \in {"idle", "drain", "gone"},
         pc[p] \in {"locked", "drainLocked"}, Lock!Unlock(p, l), UNCHANGED chan,
         msg' \in {"none", "fresh", "expired"}, UNCHANGED stop
  PROVE  Lock!TypeOK'
  <1> USE DEF LInv, Lock!TypeOK
  <1> DEFINE W == {r \in Lock!Proc : pc[r] = "rwait"}
  <1>1. writer = p /\ readers = {} /\ p # Nobody
    BY DEF Lock!ProcAssumption
  <1>2. /\ writer' = Nobody /\ readers' = W
        /\ pc' = [r \in Lock!Proc |-> IF r = p THEN l ELSE IF r \in W THEN "reading" ELSE pc[r]]
    BY DEF Lock!Unlock
  <1>3. \A r \in Lock!Proc : pc[r] # "reading" /\ (pc[r] \in Holding => r = p)
    BY <1>1 DEF Holding
  <1>4. pc' \in [Lock!Proc -> Place]
    BY <1>2 DEF Place
  <1>5. readers' = {r \in Lock!Proc : pc'[r] = "reading"}
    BY <1>2, <1>3
  <1>6. \A r \in Lock!Proc : pc'[r] \notin Holding
    BY <1>2, <1>3 DEF Holding
  <1>7. QED
    BY <1>2, <1>4, <1>5, <1>6 DEF Place, Holding

\* Every step keeps c.mu to one writer or to readers.
LEMMA LockStep ==
  ASSUME LInv, [Lock!Next]_Lock!vars
  PROVE  Lock!TypeOK'
<1> USE ProcsOfTheCache DEF LInv, Lock!TypeOK
<1>0. \A r \in Lock!Proc : r # Nobody
  BY DEF Lock!ProcAssumption
<1>1. ASSUME NEW p \in Lock!Proc, Lock!Announce(p) PROVE Lock!TypeOK'
  BY <1>0, <1>1 DEF Lock!Announce
<1>2. ASSUME NEW p \in Lock!Proc, Lock!Acquire(p) PROVE Lock!TypeOK'
  <2>1. /\ \/ pc' = [pc EXCEPT ![p] = "locked"]
           \/ pc' = [pc EXCEPT ![p] = "drainLocked"]
        /\ writer = p /\ readers = {} /\ pc[p] # "reading"
        /\ UNCHANGED <<writer, readers, chan, msg, stop>>
    BY <1>2 DEF Lock!Acquire, Lock!Goto, Lock!Locking
  <2>2. pc' \in [Lock!Proc -> Place] /\ \A r \in Lock!Proc \ {p} : pc'[r] = pc[r]
    BY <2>1 DEF Place
  <2>3. pc'[p] # "reading"
    BY <2>1
  <2>4. readers' = {r \in Lock!Proc : pc'[r] = "reading"}
    BY <2>1, <2>2, <2>3
  <2>5. \A r \in Lock!Proc : pc'[r] \in Holding => r = p
    BY <2>1, <2>2 DEF Holding
  <2>6. QED
    BY <2>1, <2>2, <2>4, <2>5 DEF Place, Holding
<1>3. ASSUME NEW p \in Lock!Proc, Lock!RLock(p) PROVE Lock!TypeOK'
  <2>1. CASE writer = Nobody
    <3>1. /\ pc' = [pc EXCEPT ![p] = "reading"] /\ readers' = readers \cup {p}
          /\ UNCHANGED <<writer, chan, msg, stop>> /\ pc[p] = "rlock"
      BY <1>3, <2>1 DEF Lock!RLock, Lock!Goto
    <3>2. pc' \in [Lock!Proc -> Place] /\ \A r \in Lock!Proc \ {p} : pc'[r] = pc[r]
      BY <3>1 DEF Place
    <3>3. pc'[p] = "reading"
      BY <3>1
    <3>4. readers' = {r \in Lock!Proc : pc'[r] = "reading"}
      BY <3>1, <3>2, <3>3
    <3>5. \A r \in Lock!Proc : pc'[r] \notin Holding
      BY <1>0, <2>1, <3>2, <3>3 DEF Holding
    <3>6. QED
      BY <3>1, <3>2, <3>4, <3>5 DEF Place, Holding
  <2>2. CASE writer # Nobody
    <3>1. pc' = [pc EXCEPT ![p] = "rwait"] /\ pc[p] = "rlock"
          /\ UNCHANGED <<writer, readers, chan, msg, stop>>
      BY <1>3, <2>2 DEF Lock!RLock, Lock!Goto
    <3>2. QED
      BY <3>1, MovesAside DEF Place, Holding, Lock!Locking
  <2>3. QED
    BY <2>1, <2>2
<1>4. ASSUME NEW q \in Query, Lock!SetRaw(q) PROVE Lock!TypeOK'
  <2>1. chan' \in 0 .. ChanCap
    BY <1>4 DEF Lock!SetRaw, Lock!ConfigAssumption
  <2>2. QED
    BY <1>4, <2>1 DEF Lock!SetRaw
<1>5. ASSUME NEW q \in Query, Lock!CallLocked(q) \/ Lock!CallRLocked(q) PROVE Lock!TypeOK'
  <2>1. \E l \in {"lock", "rlock"} : pc' = [pc EXCEPT ![q] = l]
    BY <1>5 DEF Lock!CallLocked, Lock!CallRLocked, Lock!Goto
  <2>2. pc[q] = "idle" /\ UNCHANGED <<writer, readers, chan, msg, stop>> /\ q \in Lock!Proc
    BY <1>5 DEF Lock!CallLocked, Lock!CallRLocked
  <2>3. QED
    BY <2>1, <2>2, MovesAside DEF Place, Holding, Lock!Locking
<1>6. ASSUME NEW q \in Query, Lock!LeaveLocked(q) PROVE Lock!TypeOK'
  BY <1>6, Unlocks DEF Lock!LeaveLocked
<1>7. ASSUME NEW q \in Query, Lock!LeaveRLocked(q) PROVE Lock!TypeOK'
  <2>1. /\ pc[q] = "reading" /\ readers' = readers \ {q} /\ pc' = [pc EXCEPT ![q] = "idle"]
        /\ UNCHANGED <<writer, chan, stop>> /\ q \in Lock!Proc
    BY <1>7 DEF Lock!LeaveRLocked, Lock!Goto
  <2>2. msg' \in {"none", "fresh", "expired"}
    BY <1>7 DEF Lock!LeaveRLocked
  <2>3. pc' \in [Lock!Proc -> Place] /\ \A r \in Lock!Proc \ {q} : pc'[r] = pc[r]
    BY <2>1 DEF Place
  <2>4. pc'[q] = "idle"
    BY <2>1
  <2>5. readers' = {r \in Lock!Proc : pc'[r] = "reading"}
    BY <2>1, <2>3, <2>4
  <2>6. \A r \in Lock!Proc : pc'[r] \notin Holding
    BY <2>1, <2>3, <2>4 DEF Holding
  <2>7. QED
    BY <2>1, <2>2, <2>3, <2>5, <2>6 DEF Place, Holding
<1>8. CASE Lock!Expire
  BY <1>8 DEF Lock!Expire
<1>9. CASE Lock!CleanTick \/ Lock!CleanerExit
  <2>1. \E l \in {"lock", "gone"} : pc' = [pc EXCEPT ![Lock!Cleaner] = l]
    BY <1>9 DEF Lock!CleanTick, Lock!CleanerExit, Lock!Goto
  <2>2. pc[Lock!Cleaner] = "idle" /\ UNCHANGED <<writer, readers, chan, msg, stop>>
    BY <1>9 DEF Lock!CleanTick, Lock!CleanerExit
  <2>3. QED
    BY <2>1, <2>2, MovesAside DEF Place, Holding, Lock!Locking
<1>10. CASE Lock!CleanNothing
  BY <1>10, Unlocks DEF Lock!CleanNothing
<1>11. CASE Lock!CleanMessages
  <2>1. /\ pc[Lock!Cleaner] = "locked" /\ pc' = [pc EXCEPT ![Lock!Cleaner] = "relock"]
        /\ UNCHANGED <<writer, readers, chan, stop>> /\ msg' = "none"
    BY <1>11 DEF Lock!CleanMessages, Lock!Goto
  <2>2. pc' \in [Lock!Proc -> Place] /\ \A r \in Lock!Proc \ {Lock!Cleaner} : pc'[r] = pc[r]
    BY <2>1 DEF Place, Lock!Locking
  <2>3. pc'[Lock!Cleaner] = "relock"
    BY <2>1
  <2>4. readers' = {r \in Lock!Proc : pc'[r] = "reading"}
    BY <2>1, <2>2, <2>3
  <2>5. \A r \in Lock!Proc : pc'[r] \in Holding => writer' = r /\ readers' = {}
    BY <2>1, <2>2, <2>3 DEF Holding
  <2>6. QED
    BY <2>1, <2>2, <2>4, <2>5 DEF Place, Holding
<1>12. CASE Lock!Receive \/ Lock!StopReceived \/ Lock!Drain
  <2>1. \E l \in {"lock", "drain", "drainLock", "gone"} : pc' = [pc EXCEPT ![Lock!Pusher] = l]
    BY <1>12 DEF Lock!Receive, Lock!StopReceived, Lock!Drain, Lock!Goto
  <2>2. pc[Lock!Pusher] \in {"idle", "drain"} /\ UNCHANGED <<writer, readers, msg, stop>>
    BY <1>12 DEF Lock!Receive, Lock!StopReceived, Lock!Drain
  <2>3. chan' \in 0 .. ChanCap
    BY <1>12 DEF Lock!Receive, Lock!StopReceived, Lock!Drain, Lock!ConfigAssumption
  <2>4. QED
    BY <2>1, <2>2, <2>3, MovesAside DEF Place, Holding, Lock!Locking
<1>13. CASE Lock!Pushed
  BY <1>13, Unlocks DEF Lock!Pushed
<1>14. CASE Lock!CallClose
  <2>1. pc' = [pc EXCEPT ![Lock!Closer] = "lock"] /\ pc[Lock!Closer] = "idle"
        /\ UNCHANGED <<writer, readers, chan, msg, stop>>
    BY <1>14 DEF Lock!CallClose, Lock!Goto
  <2>2. QED
    BY <2>1, MovesAside DEF Place, Holding, Lock!Locking
<1>15. CASE Lock!CloseStop
  <2>1. stop' = TRUE /\ UNCHANGED <<writer, readers, pc, chan, msg>>
    BY <1>15 DEF Lock!CloseStop
  <2>2. QED
    BY <2>1
<1>16. CASE Lock!CloseWait
  BY <1>16, Unlocks DEF Lock!CloseWait
<1>17. CASE UNCHANGED Lock!vars
  BY <1>17 DEF Lock!vars
<1>18. QED
  BY <1>1, <1>2, <1>3, <1>4, <1>5, <1>6, <1>7, <1>8, <1>9, <1>10, <1>11, <1>12, <1>13,
     <1>14, <1>15, <1>16, <1>17
  DEF Lock!Next, Lock!Mutex, Lock!Handle, Lock!Clean, Lock!HeapWorker, Lock!Close

\* c.mu has one writer or readers, and addHeapChan stays within its capacity,
\* whoever meets at the lock.
THEOREM OneWriterOrReaders ==
  Lock!ConfigAssumption /\ Lock!ProcAssumption /\ Lock!Spec => []Lock!TypeOK
<1>1. Lock!ConfigAssumption /\ Lock!ProcAssumption /\ Lock!Init => LInv
  <2> SUFFICES ASSUME Lock!ConfigAssumption, Lock!ProcAssumption, Lock!Init PROVE Lock!TypeOK
    BY DEF LInv
  <2>1. stop \in BOOLEAN
    BY DEF Lock!Init
  <2>2. pc \in [Lock!Proc -> {"idle"}] /\ \A r \in Lock!Proc : pc[r] = "idle"
    BY DEF Lock!Init
  <2>3. chan \in 0 .. ChanCap
    BY DEF Lock!Init, Lock!ConfigAssumption
  <2>4. QED
    BY <2>1, <2>2, <2>3 DEF Lock!Init, Lock!TypeOK
<1>2. LInv /\ [Lock!Next]_Lock!vars => LInv'
  <2> SUFFICES ASSUME LInv, [Lock!Next]_Lock!vars PROVE LInv'
    OBVIOUS
  <2>1. Lock!TypeOK'
    BY LockStep
  <2>2. Lock!ConfigAssumption' /\ Lock!ProcAssumption'
    BY DEF LInv, Lock!ConfigAssumption, Lock!ProcAssumption, Lock!Proc, Lock!Pusher,
           Lock!Cleaner, Lock!Closer
  <2>3. QED
    BY <2>1, <2>2 DEF LInv
<1>3. LInv => Lock!TypeOK
  BY DEF LInv
<1>4. QED
  BY <1>1, <1>2, <1>3, PTL DEF Lock!Spec

\* Both together: whatever happens at c.mu and in the queue, refreshes are neither
\* lost nor run twice, every flight has one leader, and the lock keeps writers apart.
THEOREM UpkeepIsConsistent ==
  /\ Assumptions /\ Spec
  /\ Lock!ConfigAssumption /\ Lock!ProcAssumption /\ Lock!Spec
  => []UpkeepConsistent
  <1>1. Lock!TypeOK /\ QueueConsistent => UpkeepConsistent
    BY DEF UpkeepConsistent
  <1>2. QED
    BY <1>1, QueueIsConsistent, OneWriterOrReaders, PTL
=============================================================================
