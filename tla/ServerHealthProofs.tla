------------------------- MODULE ServerHealthProofs --------------------------
(***************************************************************************)
(* The operators of ServerHealth keep a breaker's type, and its status in  *)
(* agreement with its counters, for any thresholds.  The two need each     *)
(* other: that left is a natural number when a breaker opens rests on the  *)
(* attempts counted so far.                                                *)
(***************************************************************************)
EXTENDS ServerHealth, TLAPS

\* A server starts out consistent.
LEMMA NewIsConsistent == NewServerHealth \in Health /\ Consistent(NewServerHealth)
  BY ThresholdAssumption DEF NewServerHealth, Health, Status, Consistent

\* MarkSuccess keeps a server's status in agreement with its counters.
LEMMA SuccessConsistent ==
  ASSUME NEW h \in Health, Consistent(h)
  PROVE  MarkSuccess(h) \in Health /\ Consistent(MarkSuccess(h))
  <1>0. h.succs + 1 \in Nat
    BY DEF Health
  <1> DEFINE recovered == h.succs + 1 >= SuccessThreshold /\ h.status # "healthy"
  <1>1. CASE recovered
    <2> DEFINE e == [h EXCEPT !.status = "healthy", !.fails = 0, !.succs = 0, !.attempts = 0]
    <2>1. MarkSuccess(h) = e
      BY <1>1 DEF MarkSuccess, Health, Status
    <2>2. e \in Health
      BY <1>0 DEF Health, Status
    <2>3. e.status = "healthy" /\ e.fails = 0 /\ e.succs = 0 /\ e.attempts = 0
      BY DEF Health, Status
    <2> HIDE DEF e
    <2>4. Consistent(e)
      BY <1>1, <2>2, <2>3, ThresholdAssumption DEF Consistent, Health
    <2>5. QED
      BY <2>1, <2>2, <2>4
  <1>2. CASE ~recovered
    <2> DEFINE e == [h EXCEPT !.fails = 0, !.succs = h.succs + 1]
    <2>1. MarkSuccess(h) = e
      BY <1>2 DEF MarkSuccess, Health, Status
    <2>2. e \in Health
      BY <1>0 DEF Health, Status
    <2>3. e.status = h.status /\ e.fails = 0 /\ e.succs = h.succs + 1 /\ e.attempts = h.attempts
      BY DEF Health, Status
    <2> HIDE DEF e
    <2>4. Consistent(e)
      BY <1>2, <2>2, <2>3, ThresholdAssumption DEF Consistent, Health
    <2>5. QED
      BY <2>1, <2>2, <2>4
  <1>3. QED
    BY <1>1, <1>2

\* The backoff of a first attempt, 20 seconds.
LEMMA FirstBackoff == Backoff(1) \in Nat
  BY DEF Backoff

\* MarkFailure keeps a server's status in agreement with its counters.
LEMMA FailureConsistent ==
  ASSUME NEW h \in Health, Consistent(h)
  PROVE  MarkFailure(h) \in Health /\ Consistent(MarkFailure(h))
  <1>0. h.fails + 1 \in Nat
    BY DEF Health
  <1> DEFINE fails == h.fails + 1
  <1> DEFINE opens == fails >= CircuitBreakerThreshold /\ h.status # "unhealthy"
  <1> DEFINE degrades == fails < CircuitBreakerThreshold /\ fails >= FailureThreshold
                            /\ h.status = "healthy"
  <1>1. CASE opens
    <2> DEFINE e == [h EXCEPT !.status = "unhealthy", !.fails = h.fails + 1, !.succs = 0,
                                !.attempts = 1, !.left = Backoff(1)]
    <2>1. h.attempts = 0
      BY <1>1 DEF Consistent
    <2>2. h.attempts + 1 = 1 /\ Backoff(1) \in Nat
      BY <1>1, <2>1, FirstBackoff
    <2>3. MarkFailure(h) = e
      BY <2>1, <2>2, <1>1 DEF MarkFailure, Health, Status
    <2>4. e \in Health
      BY <1>0, <2>1, <2>2 DEF Health, Status
    <2>5. e.status = "unhealthy" /\ e.fails = h.fails + 1 /\ e.succs = 0 /\ e.attempts = 1
      BY <2>1, <2>2 DEF Health, Status
    <2> HIDE DEF e
    <2>6. Consistent(e)
      BY <2>1, <2>2, <1>1, <2>4, <2>5, ThresholdAssumption DEF Consistent, Health
    <2>7. QED
      BY <2>3, <2>4, <2>6
  <1>2. CASE ~opens /\ degrades
    <2> DEFINE e == [h EXCEPT !.status = "degraded", !.fails = h.fails + 1, !.succs = 0]
    <2>1. h.attempts = 0 /\ ~(h.fails + 1 >= CircuitBreakerThreshold)
      BY <1>2, ThresholdAssumption DEF Consistent, Health
    <2>2. MarkFailure(h) = e
      BY <2>1, <1>2 DEF MarkFailure, Health, Status
    <2>3. e \in Health
      BY <1>0, <2>1 DEF Health, Status
    <2>4. e.status = "degraded" /\ e.fails = h.fails + 1 /\ e.succs = 0 /\ e.attempts = h.attempts
      BY <2>1 DEF Health, Status
    <2> HIDE DEF e
    <2>5. Consistent(e)
      BY <2>1, <1>2, <2>3, <2>4, ThresholdAssumption DEF Consistent, Health
    <2>6. QED
      BY <2>2, <2>3, <2>5
  <1>3. CASE ~opens /\ ~degrades
    <2> DEFINE e == [h EXCEPT !.fails = h.fails + 1, !.succs = 0]
    <2>1. MarkFailure(h) = e
      BY <1>3 DEF MarkFailure, Health, Status
    <2>2. e \in Health
      BY <1>0 DEF Health, Status
    <2>3. e.status = h.status /\ e.fails = h.fails + 1 /\ e.succs = 0 /\ e.attempts = h.attempts
      BY DEF Health, Status
    <2> HIDE DEF e
    <2>4. Consistent(e)
      BY <1>3, <2>2, <2>3, ThresholdAssumption DEF Consistent, Health
    <2>5. QED
      BY <2>1, <2>2, <2>4
  <1>4. QED
    BY <1>1, <1>2, <1>3

\* MarkTimeout keeps a server's status in agreement with its counters.
LEMMA TimeoutConsistent ==
  ASSUME NEW h \in Health, Consistent(h)
  PROVE  MarkTimeout(h) \in Health /\ Consistent(MarkTimeout(h))
  BY ThresholdAssumption DEF MarkTimeout, Health, Status, Consistent

\* Time keeps a server's status in agreement with its counters.
LEMMA ElapseConsistent ==
  ASSUME NEW h \in Health, Consistent(h)
  PROVE  Elapse(h) \in Health /\ Consistent(Elapse(h))
  BY DEF Elapse, Health, Status, Consistent
=============================================================================
