--------------------------- MODULE UpstreamProofs ----------------------------
(***************************************************************************)
(* Proofs about the strategies of the upstream manager and the manager     *)
(* itself: RacingQuery, and ParallelQuery, RandomQuery and UpstreamManager *)
(* as Upstream has them.  They hold for any number of servers and callers, *)
(* any concurrency, tiers, batches and thresholds.                         *)
(***************************************************************************)
EXTENDS RacingQuery, Upstream, ServerHealthProofs, FiniteSetTheorems, TLAPS

-----------------------------------------------------------------------------
(* RacingQuery.                                                            *)

\* The servers whose doQuery has returned.
Finished == {s \in Server : req[s] = "done"}

\* The starter stays within its limit, and only servers up to its place have
\* been started.
PlaceInv ==
    /\ delay = "wait" => next = 1
    /\ delay \in {"batch", "stagger"} => next <= Limit
    /\ \A s \in Server : s > next => req[s] = "none"

\* Every buffered error comes from a doQuery that has returned.
ErrorInv == errs <= Cardinality(Finished)

\* Breakers are consistent.
HealthInv == \A s \in Server : Consistent(health[s])

\* What the query has in hand, or is woken by, before the deadline comes from a
\* server that has answered.
AnswerInv ==
    /\ result \/ main = "got" \/ (cancelled /\ main # "done") => once # "unused"
    /\ main = "collect" /\ once = "unused" => ctxDone
    /\ NoAnswerNoEarlyEnd

IInv == TypeOK /\ PlaceInv /\ ErrorInv /\ HealthInv /\ AnswerInv /\ CountedMeetsOpenChannel

\* The disjuncts of Next, one by one.
LEMMA NextCases ==
  ASSUME Next
  PROVE  \/ Select \/ Return \/ ReceiveError \/ ReturnError \/ CtxExpires \/ CloseErrors
         \/ DelayOver \/ StartServer \/ StaggerOver \/ DelayCancelled
         \/ \E s \in Server : Answered(s) \/ Failed(s) \/ Report(s) \/ Win(s) \/ Won(s) \/ Lost(s)
  BY DEF Next, QueryStep, Starter, DoQuery

\* Every step keeps the types.
LEMMA TypeStep ==
  ASSUME IInv, [Next]_vars
  PROVE  TypeOK'
<1> USE RaceAssumption DEF IInv, Server
<1>1. CASE Select
  <2>1. CASE result /\ main' = "got" /\ result' = FALSE
    BY <1>1, <2>1 DEF Select, TypeOK
  <2>2. CASE main' \in {"collect", "parked"} /\ UNCHANGED result
    BY <1>1, <2>2 DEF Select, TypeOK
  <2>3. QED
    BY <1>1, <2>1, <2>2 DEF Select
<1>2. CASE Return
  BY <1>2 DEF Return, TypeOK
<1>3. CASE ReceiveError
  BY <1>3 DEF ReceiveError, TypeOK
<1>4. CASE ReturnError
  BY <1>4 DEF ReturnError, TypeOK
<1>5. CASE CtxExpires
  BY <1>5 DEF CtxExpires, TypeOK, Wake
<1>6. CASE CloseErrors
  BY <1>6 DEF CloseErrors, TypeOK
<1>7. CASE DelayOver
  BY <1>7 DEF DelayOver, TypeOK
<1>8. CASE StartServer
  <2>1. next + 1 \in 1 .. MaxConcurrent /\ next + 1 \in Server
    BY <1>8 DEF StartServer, TypeOK, PlaceInv, Limit
  <2>2. req' \in [Server -> {"none", "exchange", "answered", "won", "report", "done"}]
    BY <1>8, <2>1 DEF StartServer, TypeOK
  <2>3. late' \subseteq Server
    BY <1>8, <2>1 DEF StartServer, TypeOK
  <2>4. delay' \in {"wait", "batch", "stagger", "gone"} /\ next' \in 1 .. MaxConcurrent
    BY <1>8, <2>1 DEF StartServer
  <2>5. QED
    BY <1>8, <2>2, <2>3, <2>4 DEF StartServer, TypeOK
<1>9. CASE StaggerOver
  BY <1>9 DEF StaggerOver, TypeOK
<1>10. CASE DelayCancelled
  BY <1>10 DEF DelayCancelled, TypeOK
<1>11. ASSUME NEW s \in Server, Answered(s) PROVE TypeOK'
  BY <1>11 DEF Answered, TypeOK
<1>12. ASSUME NEW s \in Server, Failed(s) PROVE TypeOK'
  <2>1. health[s] \in Health /\ Consistent(health[s])
    BY DEF TypeOK, HealthInv
  <2>2. MarkFailure(health[s]) \in Health /\ Consistent(MarkFailure(health[s]))
    BY <2>1, FailureConsistent
  <2>3. QED
    BY <1>12, <2>2 DEF Failed, TypeOK
<1>13. ASSUME NEW s \in Server, Report(s) PROVE TypeOK'
  <2>1. req' \in [Server -> {"none", "exchange", "answered", "won", "report", "done"}]
    BY <1>13 DEF Report, TypeOK
  <2>2. errs' \in 0 .. MaxConcurrent
    BY <1>13 DEF Report, TypeOK
  <2>3. crashed' \in BOOLEAN
    BY <1>13 DEF Report, TypeOK
  <2>4. QED
    BY <1>13, <2>1, <2>2, <2>3 DEF Report, TypeOK
<1>14. ASSUME NEW s \in Server, Win(s) PROVE TypeOK'
  <2>1. req' \in [Server -> {"none", "exchange", "answered", "won", "report", "done"}]
    BY <1>14 DEF Win, TypeOK
  <2>2. main' \in {"start", "parked", "got", "collect", "done"}
    BY <1>14 DEF Win, TypeOK
  <2>3. result' \in BOOLEAN
    BY <1>14 DEF Win, TypeOK
  <2>4. QED
    BY <1>14, <2>1, <2>2, <2>3 DEF Win, TypeOK
<1>15. ASSUME NEW s \in Server, Won(s) PROVE TypeOK'
  <2>1. health[s] \in Health /\ Consistent(health[s])
    BY DEF TypeOK, HealthInv
  <2>2. MarkSuccess(health[s]) \in Health /\ Consistent(MarkSuccess(health[s]))
    BY <2>1, SuccessConsistent
  <2>3. QED
    BY <1>15, <2>2 DEF Won, TypeOK, Wake
<1>16. ASSUME NEW s \in Server, Lost(s) PROVE TypeOK'
  BY <1>16 DEF Lost, TypeOK
<1>17. CASE UNCHANGED vars
  BY <1>17 DEF vars, TypeOK
<1>18. QED
  BY <1>1, <1>2, <1>3, <1>4, <1>5, <1>6, <1>7, <1>8, <1>9, <1>10, <1>11, <1>12,
     <1>13, <1>14, <1>15, <1>16, <1>17, NextCases

\* Every step keeps the starter in its place.
LEMMA PlaceStep ==
  ASSUME IInv, [Next]_vars
  PROVE  PlaceInv'
<1> USE RaceAssumption DEF IInv, Server
<1>1. CASE Select
  BY <1>1 DEF Select, TypeOK, PlaceInv
<1>2. CASE Return
  BY <1>2 DEF Return, TypeOK, PlaceInv
<1>3. CASE ReceiveError
  BY <1>3 DEF ReceiveError, TypeOK, PlaceInv
<1>4. CASE ReturnError
  BY <1>4 DEF ReturnError, TypeOK, PlaceInv
<1>5. CASE CtxExpires
  BY <1>5 DEF CtxExpires, TypeOK, PlaceInv
<1>6. CASE CloseErrors
  BY <1>6 DEF CloseErrors, TypeOK, PlaceInv
<1>7. CASE DelayOver
  BY <1>7 DEF DelayOver, TypeOK, PlaceInv, Limit
<1>8. CASE StartServer
  BY <1>8 DEF StartServer, TypeOK, PlaceInv, Limit
<1>9. CASE StaggerOver
  BY <1>9 DEF StaggerOver, TypeOK, PlaceInv
<1>10. CASE DelayCancelled
  BY <1>10 DEF DelayCancelled, TypeOK, PlaceInv
<1>11. ASSUME NEW s \in Server, Answered(s) PROVE PlaceInv'
  BY <1>11 DEF Answered, TypeOK, PlaceInv
<1>12. ASSUME NEW s \in Server, Failed(s) PROVE PlaceInv'
  BY <1>12 DEF Failed, TypeOK, PlaceInv
<1>13. ASSUME NEW s \in Server, Report(s) PROVE PlaceInv'
  BY <1>13 DEF Report, TypeOK, PlaceInv
<1>14. ASSUME NEW s \in Server, Win(s) PROVE PlaceInv'
  BY <1>14 DEF Win, TypeOK, PlaceInv
<1>15. ASSUME NEW s \in Server, Won(s) PROVE PlaceInv'
  BY <1>15 DEF Won, TypeOK, PlaceInv
<1>16. ASSUME NEW s \in Server, Lost(s) PROVE PlaceInv'
  BY <1>16 DEF Lost, TypeOK, PlaceInv
<1>17. CASE UNCHANGED vars
  BY <1>17 DEF vars, TypeOK, PlaceInv
<1>18. QED
  BY <1>1, <1>2, <1>3, <1>4, <1>5, <1>6, <1>7, <1>8, <1>9, <1>10, <1>11, <1>12,
     <1>13, <1>14, <1>15, <1>16, <1>17, NextCases

\* Every step keeps the breakers consistent.
LEMMA HealthStep ==
  ASSUME IInv, [Next]_vars
  PROVE  HealthInv'
<1> USE RaceAssumption DEF IInv, Server
<1>1. CASE Select
  BY <1>1 DEF Select, TypeOK, HealthInv
<1>2. CASE Return
  BY <1>2 DEF Return, TypeOK, HealthInv
<1>3. CASE ReceiveError
  BY <1>3 DEF ReceiveError, TypeOK, HealthInv
<1>4. CASE ReturnError
  BY <1>4 DEF ReturnError, TypeOK, HealthInv
<1>5. CASE CtxExpires
  BY <1>5 DEF CtxExpires, TypeOK, HealthInv
<1>6. CASE CloseErrors
  BY <1>6 DEF CloseErrors, TypeOK, HealthInv
<1>7. CASE DelayOver
  BY <1>7 DEF DelayOver, TypeOK, HealthInv
<1>8. CASE StartServer
  BY <1>8 DEF StartServer, TypeOK, HealthInv
<1>9. CASE StaggerOver
  BY <1>9 DEF StaggerOver, TypeOK, HealthInv
<1>10. CASE DelayCancelled
  BY <1>10 DEF DelayCancelled, TypeOK, HealthInv
<1>11. ASSUME NEW s \in Server, Answered(s) PROVE HealthInv'
  BY <1>11 DEF Answered, TypeOK, HealthInv
<1>12. ASSUME NEW s \in Server, Failed(s) PROVE HealthInv'
  <2>1. health[s] \in Health /\ Consistent(health[s])
    BY DEF TypeOK, HealthInv
  <2>2. MarkFailure(health[s]) \in Health /\ Consistent(MarkFailure(health[s]))
    BY <2>1, FailureConsistent
  <2>3. QED
    BY <1>12, <2>2 DEF Failed, TypeOK, HealthInv
<1>13. ASSUME NEW s \in Server, Report(s) PROVE HealthInv'
  BY <1>13 DEF Report, TypeOK, HealthInv
<1>14. ASSUME NEW s \in Server, Win(s) PROVE HealthInv'
  BY <1>14 DEF Win, TypeOK, HealthInv
<1>15. ASSUME NEW s \in Server, Won(s) PROVE HealthInv'
  <2>1. health[s] \in Health /\ Consistent(health[s])
    BY DEF TypeOK, HealthInv
  <2>2. MarkSuccess(health[s]) \in Health /\ Consistent(MarkSuccess(health[s]))
    BY <2>1, SuccessConsistent
  <2>3. QED
    BY <1>15, <2>2 DEF Won, TypeOK, HealthInv
<1>16. ASSUME NEW s \in Server, Lost(s) PROVE HealthInv'
  BY <1>16 DEF Lost, TypeOK, HealthInv
<1>17. CASE UNCHANGED vars
  BY <1>17 DEF vars, TypeOK, HealthInv
<1>18. QED
  BY <1>1, <1>2, <1>3, <1>4, <1>5, <1>6, <1>7, <1>8, <1>9, <1>10, <1>11, <1>12,
     <1>13, <1>14, <1>15, <1>16, <1>17, NextCases

\* Every step keeps what is known of answers.
LEMMA AnswerStep ==
  ASSUME IInv, [Next]_vars
  PROVE  AnswerInv'
<1> USE RaceAssumption DEF IInv, Server
<1>1. CASE Select
  BY <1>1 DEF Select, TypeOK, AnswerInv, NoAnswerNoEarlyEnd, RaceDone
<1>2. CASE Return
  BY <1>2 DEF Return, TypeOK, AnswerInv, NoAnswerNoEarlyEnd
<1>3. CASE ReceiveError
  BY <1>3 DEF ReceiveError, TypeOK, AnswerInv, NoAnswerNoEarlyEnd
<1>4. CASE ReturnError
  BY <1>4 DEF ReturnError, TypeOK, AnswerInv, NoAnswerNoEarlyEnd
<1>5. CASE CtxExpires
  BY <1>5 DEF CtxExpires, TypeOK, AnswerInv, NoAnswerNoEarlyEnd, Wake
<1>6. CASE CloseErrors
  BY <1>6 DEF CloseErrors, TypeOK, AnswerInv, NoAnswerNoEarlyEnd
<1>7. CASE DelayOver
  BY <1>7 DEF DelayOver, TypeOK, AnswerInv, NoAnswerNoEarlyEnd
<1>8. CASE StartServer
  BY <1>8 DEF StartServer, TypeOK, AnswerInv, NoAnswerNoEarlyEnd
<1>9. CASE StaggerOver
  BY <1>9 DEF StaggerOver, TypeOK, AnswerInv, NoAnswerNoEarlyEnd
<1>10. CASE DelayCancelled
  BY <1>10 DEF DelayCancelled, TypeOK, AnswerInv, NoAnswerNoEarlyEnd
<1>11. ASSUME NEW s \in Server, Answered(s) PROVE AnswerInv'
  BY <1>11 DEF Answered, TypeOK, AnswerInv, NoAnswerNoEarlyEnd
<1>12. ASSUME NEW s \in Server, Failed(s) PROVE AnswerInv'
  BY <1>12 DEF Failed, TypeOK, AnswerInv, NoAnswerNoEarlyEnd
<1>13. ASSUME NEW s \in Server, Report(s) PROVE AnswerInv'
  BY <1>13 DEF Report, TypeOK, AnswerInv, NoAnswerNoEarlyEnd
<1>14. ASSUME NEW s \in Server, Win(s) PROVE AnswerInv'
  BY <1>14 DEF Win, TypeOK, AnswerInv, NoAnswerNoEarlyEnd
<1>15. ASSUME NEW s \in Server, Won(s) PROVE AnswerInv'
  BY <1>15 DEF Won, TypeOK, AnswerInv, NoAnswerNoEarlyEnd, Wake
<1>16. ASSUME NEW s \in Server, Lost(s) PROVE AnswerInv'
  BY <1>16 DEF Lost, TypeOK, AnswerInv, NoAnswerNoEarlyEnd
<1>17. CASE UNCHANGED vars
  BY <1>17 DEF vars, TypeOK, AnswerInv, NoAnswerNoEarlyEnd
<1>18. QED
  BY <1>1, <1>2, <1>3, <1>4, <1>5, <1>6, <1>7, <1>8, <1>9, <1>10, <1>11, <1>12,
     <1>13, <1>14, <1>15, <1>16, <1>17, NextCases

\* Every step keeps counted servers away from the closed channel.
LEMMA CountedStep ==
  ASSUME IInv, [Next]_vars
  PROVE  CountedMeetsOpenChannel'
<1> USE RaceAssumption DEF IInv, Server
<1>1. CASE Select
  BY <1>1 DEF Select, TypeOK, CountedMeetsOpenChannel, Active
<1>2. CASE Return
  BY <1>2 DEF Return, TypeOK, CountedMeetsOpenChannel, Active
<1>3. CASE ReceiveError
  BY <1>3 DEF ReceiveError, TypeOK, CountedMeetsOpenChannel, Active
<1>4. CASE ReturnError
  BY <1>4 DEF ReturnError, TypeOK, CountedMeetsOpenChannel, Active
<1>5. CASE CtxExpires
  BY <1>5 DEF CtxExpires, TypeOK, CountedMeetsOpenChannel, Active
<1>6. CASE CloseErrors
  BY <1>6 DEF CloseErrors, TypeOK, CountedMeetsOpenChannel, Active
<1>7. CASE DelayOver
  BY <1>7 DEF DelayOver, TypeOK, CountedMeetsOpenChannel, Active
<1>8. CASE StartServer
  BY <1>8 DEF StartServer, TypeOK, CountedMeetsOpenChannel, Active
<1>9. CASE StaggerOver
  BY <1>9 DEF StaggerOver, TypeOK, CountedMeetsOpenChannel, Active
<1>10. CASE DelayCancelled
  BY <1>10 DEF DelayCancelled, TypeOK, CountedMeetsOpenChannel, Active
<1>11. ASSUME NEW s \in Server, Answered(s) PROVE CountedMeetsOpenChannel'
  BY <1>11 DEF Answered, TypeOK, CountedMeetsOpenChannel, Active
<1>12. ASSUME NEW s \in Server, Failed(s) PROVE CountedMeetsOpenChannel'
  BY <1>12 DEF Failed, TypeOK, CountedMeetsOpenChannel, Active
<1>13. ASSUME NEW s \in Server, Report(s) PROVE CountedMeetsOpenChannel'
  BY <1>13 DEF Report, TypeOK, CountedMeetsOpenChannel, Active
<1>14. ASSUME NEW s \in Server, Win(s) PROVE CountedMeetsOpenChannel'
  BY <1>14 DEF Win, TypeOK, CountedMeetsOpenChannel, Active
<1>15. ASSUME NEW s \in Server, Won(s) PROVE CountedMeetsOpenChannel'
  BY <1>15 DEF Won, TypeOK, CountedMeetsOpenChannel, Active
<1>16. ASSUME NEW s \in Server, Lost(s) PROVE CountedMeetsOpenChannel'
  BY <1>16 DEF Lost, TypeOK, CountedMeetsOpenChannel, Active
<1>17. CASE UNCHANGED vars
  BY <1>17 DEF vars, TypeOK, CountedMeetsOpenChannel, Active
<1>18. QED
  BY <1>1, <1>2, <1>3, <1>4, <1>5, <1>6, <1>7, <1>8, <1>9, <1>10, <1>11, <1>12,
     <1>13, <1>14, <1>15, <1>16, <1>17, NextCases

\* There are finitely many servers.
LEMMA FinishedFinite == IsFiniteSet(Finished) /\ Cardinality(Finished) \in Nat
<1>1. IsFiniteSet(Server)
  BY FS_Interval, RaceAssumption DEF Server
<1>2. QED
  BY <1>1, FS_Subset, FS_CardinalityType DEF Finished

\* Every step keeps the count of errors.
LEMMA ErrorStep ==
  ASSUME IInv, [Next]_vars
  PROVE  ErrorInv'
<1> USE RaceAssumption DEF IInv, Server
<1>1. CASE Select
  BY <1>1 DEF Select, ErrorInv, Finished
<1>2. CASE Return
  BY <1>2 DEF Return, ErrorInv, Finished
<1>3. CASE ReceiveError
  <2>1. Finished' = Finished
    BY <1>3 DEF ReceiveError, Finished
  <2>2. Cardinality(Finished) \in Nat
    BY FinishedFinite, FS_CardinalityType
  <2>3. QED
    BY <1>3, <2>1, <2>2 DEF ReceiveError, ErrorInv, TypeOK
<1>4. CASE ReturnError
  BY <1>4 DEF ReturnError, ErrorInv, Finished
<1>5. CASE CtxExpires
  BY <1>5 DEF CtxExpires, ErrorInv, Finished
<1>6. CASE CloseErrors
  BY <1>6 DEF CloseErrors, ErrorInv, Finished
<1>7. CASE DelayOver
  BY <1>7 DEF DelayOver, ErrorInv, Finished
<1>8. CASE StartServer
  <2>1. Finished' = Finished
    BY <1>8 DEF StartServer, TypeOK, Finished, PlaceInv, Limit
  <2>2. QED
    BY <1>8, <2>1 DEF StartServer, ErrorInv
<1>9. CASE StaggerOver
  BY <1>9 DEF StaggerOver, ErrorInv, Finished
<1>10. CASE DelayCancelled
  BY <1>10 DEF DelayCancelled, ErrorInv, Finished
<1>11. ASSUME NEW s \in Server, Answered(s) PROVE ErrorInv'
  <2>1. Finished' = Finished
    BY <1>11 DEF Answered, TypeOK, Finished
  <2>2. QED
    BY <1>11, <2>1 DEF Answered, ErrorInv
<1>12. ASSUME NEW s \in Server, Failed(s) PROVE ErrorInv'
  <2>1. Finished' = Finished
    BY <1>12 DEF Failed, TypeOK, Finished
  <2>2. QED
    BY <1>12, <2>1 DEF Failed, ErrorInv
<1>13. ASSUME NEW s \in Server, Report(s) PROVE ErrorInv'
  <2>1. Finished' = Finished \cup {s} /\ s \notin Finished
    BY <1>13 DEF Report, TypeOK, Finished
  <2>2. Cardinality(Finished') = Cardinality(Finished) + 1 /\ Cardinality(Finished) \in Nat
    BY <2>1, FinishedFinite, FS_AddElement
  <2>3. errs' \in {errs, errs + 1} /\ errs \in Nat
    BY <1>13 DEF Report, TypeOK
  <2>4. QED
    BY <2>2, <2>3 DEF ErrorInv
<1>14. ASSUME NEW s \in Server, Win(s) PROVE ErrorInv'
  <2>1. Finished' = Finished
    BY <1>14 DEF Win, TypeOK, Finished
  <2>2. QED
    BY <1>14, <2>1 DEF Win, ErrorInv
<1>15. ASSUME NEW s \in Server, Won(s) PROVE ErrorInv'
  <2>1. Finished' = Finished \cup {s} /\ s \notin Finished
    BY <1>15 DEF Won, TypeOK, Finished
  <2>2. Cardinality(Finished') = Cardinality(Finished) + 1 /\ Cardinality(Finished) \in Nat
    BY <2>1, FinishedFinite, FS_AddElement
  <2>3. errs' \in {errs, errs + 1} /\ errs \in Nat
    BY <1>15 DEF Won, TypeOK
  <2>4. QED
    BY <2>2, <2>3 DEF ErrorInv
<1>16. ASSUME NEW s \in Server, Lost(s) PROVE ErrorInv'
  <2>1. Finished' = Finished \cup {s} /\ s \notin Finished
    BY <1>16 DEF Lost, TypeOK, Finished
  <2>2. Cardinality(Finished') = Cardinality(Finished) + 1 /\ Cardinality(Finished) \in Nat
    BY <2>1, FinishedFinite, FS_AddElement
  <2>3. errs' \in {errs, errs + 1} /\ errs \in Nat
    BY <1>16 DEF Lost, TypeOK
  <2>4. QED
    BY <2>2, <2>3 DEF ErrorInv
<1>17. CASE UNCHANGED vars
  BY <1>17 DEF vars, ErrorInv, Finished
<1>18. QED
  BY <1>1, <1>2, <1>3, <1>4, <1>5, <1>6, <1>7, <1>8, <1>9, <1>10, <1>11, <1>12,
     <1>13, <1>14, <1>15, <1>16, <1>17, NextCases

\* The breakers a race may start with are consistent.
LEMMA StartIsConsistent == \A h \in StartHealth : h \in Health /\ Consistent(h)
<1> DEFINE open == [NewServerHealth EXCEPT !.fails = CircuitBreakerThreshold,
                                           !.status = "unhealthy", !.attempts = 1]
<1>1. CircuitBreakerThreshold \in Nat
  BY ThresholdAssumption
<1>2. open \in Health
  BY <1>1, NewIsConsistent DEF Health, Status
<1>3. /\ open.status = "unhealthy" /\ open.attempts = 1 /\ open.succs = 0
      /\ open.fails = CircuitBreakerThreshold
  BY NewIsConsistent DEF Health, NewServerHealth
<1>4. StartHealth = {NewServerHealth, open}
  BY DEF StartHealth
<1> HIDE DEF open
<1>5. Consistent(open)
  BY <1>2, <1>3, ThresholdAssumption DEF Consistent, Health
<1>6. QED
  BY <1>2, <1>4, <1>5, NewIsConsistent

\* The inductive invariant holds in every state of every race.
THEOREM RaceInvariant == Spec => []IInv
<1>1. Init => IInv
  <2> SUFFICES ASSUME Init PROVE IInv
    OBVIOUS
  <2>1. health \in [Server -> Health] /\ HealthInv
    BY StartIsConsistent DEF Init, HealthInv
  <2>2. req \in [Server -> {"none", "exchange", "answered", "won", "report", "done"}]
    BY DEF Init
  <2>3. TypeOK
    <3>1. next \in 1 .. MaxConcurrent /\ errs \in 0 .. MaxConcurrent
      BY RaceAssumption DEF Init
    <3>2. /\ ctxDone \in BOOLEAN /\ cancelled \in BOOLEAN /\ result \in BOOLEAN
          /\ gotErr \in BOOLEAN /\ closed \in BOOLEAN /\ crashed \in BOOLEAN
      BY DEF Init
    <3>3. QED
      BY <2>1, <2>2, <3>1, <3>2 DEF Init, TypeOK
  <2>4. PlaceInv /\ AnswerInv /\ CountedMeetsOpenChannel
    BY RaceAssumption
    DEF Init, PlaceInv, AnswerInv, NoAnswerNoEarlyEnd, CountedMeetsOpenChannel, Server
  <2>5. ErrorInv
    BY FinishedFinite DEF Init, ErrorInv
  <2>6. QED
    BY <2>1, <2>3, <2>4, <2>5 DEF IInv
<1>2. IInv /\ [Next]_vars => IInv'
  BY TypeStep, PlaceStep, HealthStep, AnswerStep, CountedStep, ErrorStep DEF IInv
<1>3. QED
  BY <1>1, <1>2, PTL DEF Spec

\* queryRacing: every reachable state of a race is type-correct.
THEOREM RaceTypeCorrect == Spec => []TypeOK
<1>1. IInv => TypeOK
  BY DEF IInv
<1>2. QED
  BY <1>1, RaceInvariant, PTL

\* queryRacing never asks more than racingMaxConcurrent servers, so errorChan has
\* room for every error and no doQuery waits at it.
THEOREM ReportsNeverBlock == Spec => []NoReportBlocks
<1>1. IInv => NoReportBlocks
  <2> SUFFICES ASSUME IInv PROVE NoReportBlocks
    OBVIOUS
  <2>1. next \in 1 .. MaxConcurrent /\ MaxConcurrent \in Nat /\ errs \in Nat
    BY RaceAssumption DEF IInv, TypeOK
  <2>2. IsFiniteSet(1 .. next) /\ Cardinality(1 .. next) = next
    BY <2>1, FS_Interval
  <2>3. Active \cup Finished \in SUBSET (1 .. next) /\ Active \in SUBSET (1 .. next)
    BY <2>1, RaceAssumption DEF IInv, PlaceInv, Active, Finished, Server, TypeOK
  <2>4. IsFiniteSet(Active) /\ Cardinality(Active) \in Nat
    BY <2>2, <2>3, FS_Subset, FS_CardinalityType
  <2>5. Cardinality(Active \cup Finished) <= next
    BY <2>2, <2>3, FS_Subset
  <2>6. Active \cap Finished = {}
    BY DEF Active, Finished
  <2>7. Cardinality(Active \cap Finished) = 0
    BY <2>6, FS_EmptySet
  <2>8. Cardinality(Active \cup Finished)
            = Cardinality(Active) + Cardinality(Finished) - Cardinality(Active \cap Finished)
    BY <2>4, FinishedFinite, FS_Union
  <2>9. QED
    BY <2>1, <2>4, <2>5, <2>7, <2>8, FinishedFinite DEF IInv, ErrorInv, NoReportBlocks
<1>2. QED
  BY <1>1, RaceInvariant, PTL

\* close(errorChan) in queryRacing meets no doQuery that wg.Wait has counted.
THEOREM CountedIsSafe == Spec => []CountedMeetsOpenChannel
<1>1. IInv => CountedMeetsOpenChannel
  BY DEF IInv
<1>2. QED
  BY <1>1, RaceInvariant, PTL

\* A race that nobody has answered goes on until its context is done.
THEOREM OnlyTheDeadlineEnds == Spec => []NoAnswerNoEarlyEnd
<1>1. IInv => NoAnswerNoEarlyEnd
  BY DEF IInv, AnswerInv
<1>2. QED
  BY <1>1, RaceInvariant, PTL

-----------------------------------------------------------------------------
(* ParallelQuery.                                                          *)

\* Servers are started in order, and none twice.
ParTypes ==
    /\ query \in {"select", "again", "got", "leave", "drain", "done"}
    /\ returned \in {"none", "result", "error"}
    /\ collector \in {"none", "collect", "done"}
    /\ timedOut \in BOOLEAN /\ cancelAll \in BOOLEAN /\ fastOnce \in BOOLEAN
    /\ started \in Nat
    /\ call \in [Parallel!Srv -> {"none", "exchange", "reply", "send", "sent", "done"}]
    /\ reply \in [Parallel!Srv -> Parallel!Reply]
    /\ resultChan \subseteq Parallel!Srv /\ successes \subseteq Parallel!Srv
    /\ \A s \in Parallel!Srv : s > started => call[s] = "none"

\* What is in the channel or collected was sent, and its reply stands.
Sent ==
    /\ \A s \in resultChan \cup successes : call[s] \in {"sent", "done"}
    /\ \A s \in Parallel!Srv : call[s] = "sent" => reply[s] = "ip"
    /\ \A s \in successes : reply[s] # "error"

\* The fast response is an answer with addresses, and fixed once offered.
Offered ==
    fastOnce => fast \in Parallel!Srv /\ reply[fast] = "ip" /\ call[fast] = "done"

\* The collector runs for a query that leaves with the fast response, and counts
\* that response apart from the others.
Collected ==
    /\ collector # "none" => /\ fastOnce
                             /\ query = "leave" \/ (query = "done" /\ returned = "result")
    /\ successes # {} => collector # "none" /\ fast \notin successes
    /\ merged # {} => collector = "done" /\ successes # {} /\ merged = successes \cup {fast}

\* The query is cancelled only by its own end, so that one which waits for the
\* errors has timed out.
Ended ==
    /\ cancelAll => query = "done"
    /\ query = "drain" => timedOut
    /\ query \in {"got", "leave"} => fastOnce
    /\ query # "done" => returned = "none"
    /\ query = "got" => collector = "none"
    /\ Parallel!FailsAtDeadline

ParInv == ParTypes /\ Sent /\ Offered /\ Collected /\ Ended

\* The disjuncts of Next, one by one.
LEMMA ParallelCases ==
  ASSUME Parallel!Next
  PROVE  \/ Parallel!GotFast \/ Parallel!FallbackFires \/ Parallel!GiveUp \/ Parallel!NoResponse \/ Parallel!Failed
         \/ Parallel!StartCollector \/ Parallel!Return \/ Parallel!CallerDone \/ Parallel!CollectTimeout
         \/ Parallel!StartNext \/ Parallel!Stagger \/ Parallel!CloseChannels \/ Parallel!CollectorEnds
         \/ \E s \in Parallel!Srv : Parallel!Collect(s) \/ Parallel!Exchange(s) \/ Parallel!CheckCtx(s)
                  \/ Parallel!Send(s) \/ Parallel!OfferFast(s)
  BY DEF Parallel!Next, Parallel!QuerySteps, Parallel!Timers, Parallel!Tier, Parallel!Collector,
         Parallel!Call

\* Every step keeps the types, and starts servers in order.
LEMMA ParTypesStep ==
  ASSUME Parallel!ParallelAssumption, ParInv, [Parallel!Next]_Parallel!parVars
  PROVE  ParTypes'
<1> USE DEF ParInv, ParTypes
<1>1. CASE Parallel!GotFast
  BY <1>1 DEF Parallel!GotFast, Parallel!Reply
<1>2. CASE Parallel!FallbackFires
  BY <1>2 DEF Parallel!FallbackFires, Parallel!Reply
<1>3. CASE Parallel!GiveUp
  BY <1>3 DEF Parallel!GiveUp, Parallel!Reply
<1>4. CASE Parallel!NoResponse
  BY <1>4 DEF Parallel!NoResponse, Parallel!Reply
<1>5. CASE Parallel!Failed
  BY <1>5 DEF Parallel!Failed, Parallel!Reply
<1>6. CASE Parallel!StartCollector
  BY <1>6 DEF Parallel!StartCollector, Parallel!Reply
<1>7. CASE Parallel!Return
  BY <1>7 DEF Parallel!Return, Parallel!Reply
<1>8. CASE Parallel!CallerDone
  BY <1>8 DEF Parallel!CallerDone, Parallel!Reply
<1>9. CASE Parallel!CollectTimeout
  BY <1>9 DEF Parallel!CollectTimeout, Parallel!Reply
<1>10. CASE Parallel!StartNext
  <2>1. started + 1 \in Nat
    OBVIOUS
  <2>2. call' \in [Parallel!Srv -> {"none", "exchange", "reply", "send", "sent", "done"}]
    BY <1>10 DEF Parallel!StartNext
  <2>3. \A s \in Parallel!Srv : s > started' => call'[s] = "none"
    BY <1>10 DEF Parallel!StartNext, Parallel!Srv
  <2>4. QED
    BY <1>10, <2>1, <2>2, <2>3 DEF Parallel!StartNext
<1>11. CASE Parallel!Stagger
  BY <1>11 DEF Parallel!Stagger, Parallel!Reply
<1>12. CASE Parallel!CloseChannels
  BY <1>12 DEF Parallel!CloseChannels, Parallel!Reply
<1>13. CASE Parallel!CollectorEnds
  BY <1>13 DEF Parallel!CollectorEnds, Parallel!Reply
<1>14. ASSUME NEW s \in Parallel!Srv, Parallel!Collect(s) PROVE ParTypes'
  BY <1>14 DEF Parallel!Collect, Parallel!Reply
<1>15. ASSUME NEW s \in Parallel!Srv, Parallel!Exchange(s) PROVE ParTypes'
  BY <1>15 DEF Parallel!Exchange, Parallel!Reply
<1>16. ASSUME NEW s \in Parallel!Srv, Parallel!CheckCtx(s) PROVE ParTypes'
  BY <1>16 DEF Parallel!CheckCtx, Parallel!Reply
<1>17. ASSUME NEW s \in Parallel!Srv, Parallel!Send(s) PROVE ParTypes'
  BY <1>17 DEF Parallel!Send, Parallel!Reply
<1>18. ASSUME NEW s \in Parallel!Srv, Parallel!OfferFast(s) PROVE ParTypes'
  BY <1>18 DEF Parallel!OfferFast, Parallel!Reply
<1>19. CASE UNCHANGED Parallel!parVars
  BY <1>19 DEF Parallel!parVars, Parallel!Reply
<1>20. QED
  BY <1>1, <1>2, <1>3, <1>4, <1>5, <1>6, <1>7, <1>8, <1>9, <1>10, <1>11, <1>12,
     <1>13, <1>14, <1>15, <1>16, <1>17, <1>18, <1>19, ParallelCases

\* Every step keeps what was sent.
LEMMA SentStep ==
  ASSUME Parallel!ParallelAssumption, ParInv, [Parallel!Next]_Parallel!parVars
  PROVE  Sent'
<1> USE DEF ParInv, ParTypes
<1>1. CASE Parallel!GotFast
  BY <1>1 DEF Parallel!GotFast, Sent
<1>2. CASE Parallel!FallbackFires
  BY <1>2 DEF Parallel!FallbackFires, Sent
<1>3. CASE Parallel!GiveUp
  BY <1>3 DEF Parallel!GiveUp, Sent
<1>4. CASE Parallel!NoResponse
  BY <1>4 DEF Parallel!NoResponse, Sent
<1>5. CASE Parallel!Failed
  BY <1>5 DEF Parallel!Failed, Sent
<1>6. CASE Parallel!StartCollector
  BY <1>6 DEF Parallel!StartCollector, Sent
<1>7. CASE Parallel!Return
  BY <1>7 DEF Parallel!Return, Sent
<1>8. CASE Parallel!CallerDone
  BY <1>8 DEF Parallel!CallerDone, Sent
<1>9. CASE Parallel!CollectTimeout
  BY <1>9 DEF Parallel!CollectTimeout, Sent
<1>10. CASE Parallel!StartNext
  BY <1>10 DEF Parallel!StartNext, Sent, Parallel!Srv
<1>11. CASE Parallel!Stagger
  BY <1>11 DEF Parallel!Stagger, Sent
<1>12. CASE Parallel!CloseChannels
  BY <1>12 DEF Parallel!CloseChannels, Sent
<1>13. CASE Parallel!CollectorEnds
  BY <1>13 DEF Parallel!CollectorEnds, Sent
<1>14. ASSUME NEW s \in Parallel!Srv, Parallel!Collect(s) PROVE Sent'
  BY <1>14 DEF Parallel!Collect, Sent
<1>15. ASSUME NEW s \in Parallel!Srv, Parallel!Exchange(s) PROVE Sent'
  BY <1>15 DEF Parallel!Exchange, Sent
<1>16. ASSUME NEW s \in Parallel!Srv, Parallel!CheckCtx(s) PROVE Sent'
  BY <1>16 DEF Parallel!CheckCtx, Sent
<1>17. ASSUME NEW s \in Parallel!Srv, Parallel!Send(s) PROVE Sent'
  BY <1>17 DEF Parallel!Send, Sent
<1>18. ASSUME NEW s \in Parallel!Srv, Parallel!OfferFast(s) PROVE Sent'
  BY <1>18 DEF Parallel!OfferFast, Sent
<1>19. CASE UNCHANGED Parallel!parVars
  BY <1>19 DEF Parallel!parVars, Sent
<1>20. QED
  BY <1>1, <1>2, <1>3, <1>4, <1>5, <1>6, <1>7, <1>8, <1>9, <1>10, <1>11, <1>12,
     <1>13, <1>14, <1>15, <1>16, <1>17, <1>18, <1>19, ParallelCases

\* Every step keeps the fast response.
LEMMA OfferedStep ==
  ASSUME Parallel!ParallelAssumption, ParInv, [Parallel!Next]_Parallel!parVars
  PROVE  Offered'
<1> USE DEF ParInv, ParTypes
<1>1. CASE Parallel!GotFast
  BY <1>1 DEF Parallel!GotFast, Offered
<1>2. CASE Parallel!FallbackFires
  BY <1>2 DEF Parallel!FallbackFires, Offered
<1>3. CASE Parallel!GiveUp
  BY <1>3 DEF Parallel!GiveUp, Offered
<1>4. CASE Parallel!NoResponse
  BY <1>4 DEF Parallel!NoResponse, Offered
<1>5. CASE Parallel!Failed
  BY <1>5 DEF Parallel!Failed, Offered
<1>6. CASE Parallel!StartCollector
  BY <1>6 DEF Parallel!StartCollector, Offered
<1>7. CASE Parallel!Return
  BY <1>7 DEF Parallel!Return, Offered
<1>8. CASE Parallel!CallerDone
  BY <1>8 DEF Parallel!CallerDone, Offered
<1>9. CASE Parallel!CollectTimeout
  BY <1>9 DEF Parallel!CollectTimeout, Offered
<1>10. CASE Parallel!StartNext
  BY <1>10 DEF Parallel!StartNext, Offered, Parallel!Srv
<1>11. CASE Parallel!Stagger
  BY <1>11 DEF Parallel!Stagger, Offered
<1>12. CASE Parallel!CloseChannels
  BY <1>12 DEF Parallel!CloseChannels, Offered
<1>13. CASE Parallel!CollectorEnds
  BY <1>13 DEF Parallel!CollectorEnds, Offered
<1>14. ASSUME NEW s \in Parallel!Srv, Parallel!Collect(s) PROVE Offered'
  BY <1>14 DEF Parallel!Collect, Offered
<1>15. ASSUME NEW s \in Parallel!Srv, Parallel!Exchange(s) PROVE Offered'
  BY <1>15 DEF Parallel!Exchange, Offered
<1>16. ASSUME NEW s \in Parallel!Srv, Parallel!CheckCtx(s) PROVE Offered'
  BY <1>16 DEF Parallel!CheckCtx, Offered
<1>17. ASSUME NEW s \in Parallel!Srv, Parallel!Send(s) PROVE Offered'
  BY <1>17 DEF Parallel!Send, Offered
<1>18. ASSUME NEW s \in Parallel!Srv, Parallel!OfferFast(s) PROVE Offered'
  BY <1>18 DEF Parallel!OfferFast, Offered, Sent
<1>19. CASE UNCHANGED Parallel!parVars
  BY <1>19 DEF Parallel!parVars, Offered
<1>20. QED
  BY <1>1, <1>2, <1>3, <1>4, <1>5, <1>6, <1>7, <1>8, <1>9, <1>10, <1>11, <1>12,
     <1>13, <1>14, <1>15, <1>16, <1>17, <1>18, <1>19, ParallelCases

\* Every step keeps the fast response apart from the others.
LEMMA CollectedStep ==
  ASSUME Parallel!ParallelAssumption, ParInv, [Parallel!Next]_Parallel!parVars
  PROVE  Collected'
<1> USE DEF ParInv, ParTypes
<1>1. CASE Parallel!GotFast
  BY <1>1 DEF Parallel!GotFast, Collected, Ended
<1>2. CASE Parallel!FallbackFires
  BY <1>2 DEF Parallel!FallbackFires, Collected, Ended
<1>3. CASE Parallel!GiveUp
  BY <1>3 DEF Parallel!GiveUp, Collected, Ended
<1>4. CASE Parallel!NoResponse
  BY <1>4 DEF Parallel!NoResponse, Collected, Ended
<1>5. CASE Parallel!Failed
  BY <1>5 DEF Parallel!Failed, Collected, Ended
<1>6. CASE Parallel!StartCollector
  BY <1>6 DEF Parallel!StartCollector, Collected, Ended
<1>7. CASE Parallel!Return
  BY <1>7 DEF Parallel!Return, Collected, Ended
<1>8. CASE Parallel!CallerDone
  BY <1>8 DEF Parallel!CallerDone, Collected, Ended
<1>9. CASE Parallel!CollectTimeout
  BY <1>9 DEF Parallel!CollectTimeout, Collected, Ended
<1>10. CASE Parallel!StartNext
  BY <1>10 DEF Parallel!StartNext, Collected, Ended
<1>11. CASE Parallel!Stagger
  BY <1>11 DEF Parallel!Stagger, Collected, Ended
<1>12. CASE Parallel!CloseChannels
  BY <1>12 DEF Parallel!CloseChannels, Collected, Ended
<1>13. CASE Parallel!CollectorEnds
  BY <1>13 DEF Parallel!CollectorEnds, Collected, Ended
<1>14. ASSUME NEW s \in Parallel!Srv, Parallel!Collect(s) PROVE Collected'
  BY <1>14 DEF Parallel!Collect, Collected, Ended
<1>15. ASSUME NEW s \in Parallel!Srv, Parallel!Exchange(s) PROVE Collected'
  BY <1>15 DEF Parallel!Exchange, Collected, Ended
<1>16. ASSUME NEW s \in Parallel!Srv, Parallel!CheckCtx(s) PROVE Collected'
  BY <1>16 DEF Parallel!CheckCtx, Collected, Ended
<1>17. ASSUME NEW s \in Parallel!Srv, Parallel!Send(s) PROVE Collected'
  BY <1>17 DEF Parallel!Send, Collected, Ended
<1>18. ASSUME NEW s \in Parallel!Srv, Parallel!OfferFast(s) PROVE Collected'
  BY <1>18 DEF Parallel!OfferFast, Collected, Ended
<1>19. CASE UNCHANGED Parallel!parVars
  BY <1>19 DEF Parallel!parVars, Collected, Ended
<1>20. QED
  BY <1>1, <1>2, <1>3, <1>4, <1>5, <1>6, <1>7, <1>8, <1>9, <1>10, <1>11, <1>12,
     <1>13, <1>14, <1>15, <1>16, <1>17, <1>18, <1>19, ParallelCases

\* Every step keeps what is known of the end of the query.
LEMMA EndedStep ==
  ASSUME Parallel!ParallelAssumption, ParInv, [Parallel!Next]_Parallel!parVars
  PROVE  Ended'
<1> USE DEF ParInv, ParTypes
<1>1. CASE Parallel!GotFast
  BY <1>1 DEF Parallel!GotFast, Ended, Collected, Parallel!FailsAtDeadline, Parallel!QueryCtxDone
<1>2. CASE Parallel!FallbackFires
  BY <1>2 DEF Parallel!FallbackFires, Ended, Collected, Parallel!FailsAtDeadline, Parallel!QueryCtxDone
<1>3. CASE Parallel!GiveUp
  BY <1>3 DEF Parallel!GiveUp, Ended, Collected, Parallel!FailsAtDeadline, Parallel!QueryCtxDone
<1>4. CASE Parallel!NoResponse
  BY <1>4 DEF Parallel!NoResponse, Ended, Collected, Parallel!FailsAtDeadline, Parallel!QueryCtxDone
<1>5. CASE Parallel!Failed
  BY <1>5 DEF Parallel!Failed, Ended, Collected, Parallel!FailsAtDeadline, Parallel!QueryCtxDone
<1>6. CASE Parallel!StartCollector
  BY <1>6 DEF Parallel!StartCollector, Ended, Collected, Parallel!FailsAtDeadline, Parallel!QueryCtxDone
<1>7. CASE Parallel!Return
  BY <1>7 DEF Parallel!Return, Ended, Collected, Parallel!FailsAtDeadline, Parallel!QueryCtxDone
<1>8. CASE Parallel!CallerDone
  BY <1>8 DEF Parallel!CallerDone, Ended, Collected, Parallel!FailsAtDeadline, Parallel!QueryCtxDone
<1>9. CASE Parallel!CollectTimeout
  BY <1>9 DEF Parallel!CollectTimeout, Ended, Collected, Parallel!FailsAtDeadline, Parallel!QueryCtxDone
<1>10. CASE Parallel!StartNext
  BY <1>10 DEF Parallel!StartNext, Ended, Collected, Parallel!FailsAtDeadline, Parallel!QueryCtxDone
<1>11. CASE Parallel!Stagger
  BY <1>11 DEF Parallel!Stagger, Ended, Collected, Parallel!FailsAtDeadline, Parallel!QueryCtxDone
<1>12. CASE Parallel!CloseChannels
  BY <1>12 DEF Parallel!CloseChannels, Ended, Collected, Parallel!FailsAtDeadline, Parallel!QueryCtxDone
<1>13. CASE Parallel!CollectorEnds
  BY <1>13 DEF Parallel!CollectorEnds, Ended, Collected, Parallel!FailsAtDeadline, Parallel!QueryCtxDone
<1>14. ASSUME NEW s \in Parallel!Srv, Parallel!Collect(s) PROVE Ended'
  BY <1>14 DEF Parallel!Collect, Ended, Collected, Parallel!FailsAtDeadline, Parallel!QueryCtxDone
<1>15. ASSUME NEW s \in Parallel!Srv, Parallel!Exchange(s) PROVE Ended'
  BY <1>15 DEF Parallel!Exchange, Ended, Collected, Parallel!FailsAtDeadline, Parallel!QueryCtxDone
<1>16. ASSUME NEW s \in Parallel!Srv, Parallel!CheckCtx(s) PROVE Ended'
  BY <1>16 DEF Parallel!CheckCtx, Ended, Collected, Parallel!FailsAtDeadline, Parallel!QueryCtxDone
<1>17. ASSUME NEW s \in Parallel!Srv, Parallel!Send(s) PROVE Ended'
  BY <1>17 DEF Parallel!Send, Ended, Collected, Parallel!FailsAtDeadline, Parallel!QueryCtxDone
<1>18. ASSUME NEW s \in Parallel!Srv, Parallel!OfferFast(s) PROVE Ended'
  BY <1>18 DEF Parallel!OfferFast, Ended, Collected, Parallel!FailsAtDeadline, Parallel!QueryCtxDone
<1>19. CASE UNCHANGED Parallel!parVars
  BY <1>19 DEF Parallel!parVars, Ended, Collected, Parallel!FailsAtDeadline, Parallel!QueryCtxDone
<1>20. QED
  BY <1>1, <1>2, <1>3, <1>4, <1>5, <1>6, <1>7, <1>8, <1>9, <1>10, <1>11, <1>12,
     <1>13, <1>14, <1>15, <1>16, <1>17, <1>18, <1>19, ParallelCases

\* Every step keeps the channels open for whom wg.Wait has counted.
LEMMA ClosedStep ==
  ASSUME Parallel!ParallelAssumption, ParInv, Parallel!ClosedBehindCounted, [Parallel!Next]_Parallel!parVars
  PROVE  Parallel!ClosedBehindCounted'
<1> USE DEF ParInv, ParTypes
<1>1. CASE Parallel!GotFast
  BY <1>1 DEF Parallel!GotFast, Parallel!ClosedBehindCounted, Parallel!InFlight
<1>2. CASE Parallel!FallbackFires
  BY <1>2 DEF Parallel!FallbackFires, Parallel!ClosedBehindCounted, Parallel!InFlight
<1>3. CASE Parallel!GiveUp
  BY <1>3 DEF Parallel!GiveUp, Parallel!ClosedBehindCounted, Parallel!InFlight
<1>4. CASE Parallel!NoResponse
  BY <1>4 DEF Parallel!NoResponse, Parallel!ClosedBehindCounted, Parallel!InFlight
<1>5. CASE Parallel!Failed
  BY <1>5 DEF Parallel!Failed, Parallel!ClosedBehindCounted, Parallel!InFlight
<1>6. CASE Parallel!StartCollector
  BY <1>6 DEF Parallel!StartCollector, Parallel!ClosedBehindCounted, Parallel!InFlight
<1>7. CASE Parallel!Return
  BY <1>7 DEF Parallel!Return, Parallel!ClosedBehindCounted, Parallel!InFlight
<1>8. CASE Parallel!CallerDone
  BY <1>8 DEF Parallel!CallerDone, Parallel!ClosedBehindCounted, Parallel!InFlight
<1>9. CASE Parallel!CollectTimeout
  BY <1>9 DEF Parallel!CollectTimeout, Parallel!ClosedBehindCounted, Parallel!InFlight
<1>10. CASE Parallel!StartNext
  BY <1>10 DEF Parallel!StartNext, Parallel!ClosedBehindCounted, Parallel!InFlight
<1>11. CASE Parallel!Stagger
  BY <1>11 DEF Parallel!Stagger, Parallel!ClosedBehindCounted, Parallel!InFlight
<1>12. CASE Parallel!CloseChannels
  BY <1>12 DEF Parallel!CloseChannels, Parallel!ClosedBehindCounted, Parallel!InFlight
<1>13. CASE Parallel!CollectorEnds
  BY <1>13 DEF Parallel!CollectorEnds, Parallel!ClosedBehindCounted, Parallel!InFlight
<1>14. ASSUME NEW s \in Parallel!Srv, Parallel!Collect(s) PROVE Parallel!ClosedBehindCounted'
  BY <1>14 DEF Parallel!Collect, Parallel!ClosedBehindCounted, Parallel!InFlight
<1>15. ASSUME NEW s \in Parallel!Srv, Parallel!Exchange(s) PROVE Parallel!ClosedBehindCounted'
  BY <1>15 DEF Parallel!Exchange, Parallel!ClosedBehindCounted, Parallel!InFlight
<1>16. ASSUME NEW s \in Parallel!Srv, Parallel!CheckCtx(s) PROVE Parallel!ClosedBehindCounted'
  BY <1>16 DEF Parallel!CheckCtx, Parallel!ClosedBehindCounted, Parallel!InFlight
<1>17. ASSUME NEW s \in Parallel!Srv, Parallel!Send(s) PROVE Parallel!ClosedBehindCounted'
  BY <1>17 DEF Parallel!Send, Parallel!ClosedBehindCounted, Parallel!InFlight
<1>18. ASSUME NEW s \in Parallel!Srv, Parallel!OfferFast(s) PROVE Parallel!ClosedBehindCounted'
  BY <1>18 DEF Parallel!OfferFast, Parallel!ClosedBehindCounted, Parallel!InFlight
<1>19. CASE UNCHANGED Parallel!parVars
  BY <1>19 DEF Parallel!parVars, Parallel!ClosedBehindCounted, Parallel!InFlight
<1>20. QED
  BY <1>1, <1>2, <1>3, <1>4, <1>5, <1>6, <1>7, <1>8, <1>9, <1>10, <1>11, <1>12,
     <1>13, <1>14, <1>15, <1>16, <1>17, <1>18, <1>19, ParallelCases

\* The inductive invariant holds in every state of every parallel query.
THEOREM ParallelInvariant ==
  Parallel!ParallelAssumption /\ Parallel!Spec => [](ParInv /\ Parallel!ClosedBehindCounted)
<1>1. Parallel!ParallelAssumption /\ Parallel!Init => ParInv /\ Parallel!ClosedBehindCounted
  <2> SUFFICES ASSUME Parallel!ParallelAssumption, Parallel!Init
               PROVE  ParInv /\ Parallel!ClosedBehindCounted
    OBVIOUS
  <2>1. Parallel!FirstTier \in Nat
    BY DEF Parallel!ParallelAssumption, Parallel!FirstTier
  <2>2. ParTypes
    <3>1. timedOut \in BOOLEAN /\ cancelAll \in BOOLEAN /\ fastOnce \in BOOLEAN
      BY DEF Parallel!Init
    <3>2. call \in [Parallel!Srv -> {"none", "exchange", "reply", "send", "sent", "done"}]
      BY DEF Parallel!Init
    <3>3. reply \in [Parallel!Srv -> Parallel!Reply]
      BY DEF Parallel!Init, Parallel!Reply
    <3>4. \A s \in Parallel!Srv : s > started => call[s] = "none"
      BY <2>1 DEF Parallel!Init, Parallel!Srv
    <3>5. QED
      BY <2>1, <3>1, <3>2, <3>3, <3>4 DEF Parallel!Init, ParTypes
  <2>3. Sent
    BY DEF Parallel!Init, Sent
  <2>4. Offered /\ Collected /\ Ended /\ Parallel!ClosedBehindCounted
    BY DEF Parallel!Init, Offered, Collected, Ended, Parallel!FailsAtDeadline,
           Parallel!ClosedBehindCounted
  <2>5. QED
    BY <2>2, <2>3, <2>4 DEF ParInv
<1>2. Parallel!ParallelAssumption /\ (ParInv /\ Parallel!ClosedBehindCounted)
          /\ [Parallel!Next]_Parallel!parVars
        => (ParInv /\ Parallel!ClosedBehindCounted)'
  <2> SUFFICES ASSUME Parallel!ParallelAssumption, ParInv, Parallel!ClosedBehindCounted,
                      [Parallel!Next]_Parallel!parVars
               PROVE  ParInv' /\ Parallel!ClosedBehindCounted'
    OBVIOUS
  <2>1. ParTypes' /\ Sent' /\ Offered'
    BY ParTypesStep, SentStep, OfferedStep
  <2>2. Collected' /\ Ended' /\ Parallel!ClosedBehindCounted'
    BY CollectedStep, EndedStep, ClosedStep
  <2>3. QED
    BY <2>1, <2>2 DEF ParInv
<1>3. Parallel!ParallelAssumption => []Parallel!ParallelAssumption
  <2>1. Parallel!ParallelAssumption => Parallel!ParallelAssumption'
    BY DEF Parallel!ParallelAssumption
  <2>2. QED
    BY <2>1, PTL
<1>4. QED
  BY <1>1, <1>2, <1>3, PTL DEF Parallel!Spec

\* queryParallel: close(resultChan) meets no doQuery that wg.Wait has counted.
THEOREM ClosedBehindTheCounted ==
  Parallel!ParallelAssumption /\ Parallel!Spec => []ClosedBehindCounted
<1>1. Parallel!ClosedBehindCounted => ClosedBehindCounted
  BY DEF ClosedBehindCounted
<1>2. QED
  BY <1>1, ParallelInvariant, PTL

\* collectRemainingResponses hands on two answers at least.
LEMMA MergedTwo ==
  ASSUME Parallel!ParallelAssumption, ParInv
  PROVE  Parallel!MergedWithAnswer
<1> SUFFICES ASSUME merged # {}
             PROVE  /\ returned # "error" /\ fast \in merged
                    /\ Parallel!Cardinality(merged) > 1 /\ \A s \in merged : reply[s] # "error"
  BY DEF Parallel!MergedWithAnswer
<1>1. /\ collector = "done" /\ successes # {} /\ merged = successes \cup {fast}
      /\ fast \notin successes /\ fastOnce
  BY DEF ParInv, Collected
<1>2. returned # "error"
  BY <1>1 DEF ParInv, Collected, Ended
<1>3. \A s \in merged : reply[s] # "error"
  BY <1>1 DEF ParInv, Sent, Offered
<1>4. IsFiniteSet(Parallel!Srv)
  BY FS_Interval DEF Parallel!Srv, Parallel!ParallelAssumption
<1>5. IsFiniteSet(successes)
  BY <1>4, FS_Subset DEF ParInv, ParTypes
<1>6. Cardinality(successes) \in Nat /\ Cardinality(successes) # 0
  BY <1>1, <1>5, FS_CardinalityType, FS_EmptySet
<1>7. Cardinality(merged) = Cardinality(successes) + 1
  BY <1>1, <1>5, FS_AddElement
<1>8. Parallel!Cardinality(merged) = Cardinality(merged)
  BY DEF Cardinality, Parallel!Cardinality
<1>9. QED
  BY <1>1, <1>2, <1>3, <1>6, <1>7, <1>8

\* queryParallel fails at a deadline only, and collectRemainingResponses gives the
\* cache the client's answer together with others.
THEOREM ParallelOutcomeHolds ==
  Parallel!ParallelAssumption /\ Parallel!Spec => []ParallelOutcome
<1>1. Parallel!ParallelAssumption /\ ParInv => ParallelOutcome
  BY MergedTwo DEF ParInv, Ended, ParallelOutcome, Parallel!ParallelOutcome
<1>2. Parallel!ParallelAssumption => []Parallel!ParallelAssumption
  <2>1. Parallel!ParallelAssumption => Parallel!ParallelAssumption'
    BY DEF Parallel!ParallelAssumption
  <2>2. QED
    BY <2>1, PTL
<1>3. QED
  BY <1>1, <1>2, ParallelInvariant, PTL

-----------------------------------------------------------------------------
(* RandomQuery.                                                            *)

\* Whom the loop has left behind has failed in this query or is in its backoff:
\* the query asks nobody twice, so that no later step touches its breaker.
Behind ==
    \A s \in RandomServer \ rest :
        \/ passed[s] = "failed"
        \/ passed[s] = "skipped" /\ breaker[s].left > 0

\* Short of an answer or the deadline the loop goes through all servers.
WentThrough ==
    ended # Random!Running /\ ended # <<TRUE, FALSE>> /\ ~rndCtx => rest = {}

RndInv ==
    /\ DOMAIN passed = RandomServer /\ DOMAIN breaker = RandomServer
    /\ passed = [s \in RandomServer |-> passed[s]]
    /\ breaker = [s \in RandomServer |-> breaker[s]]
    /\ Behind /\ WentThrough

\* Every step keeps the invariant of the random strategy.
LEMMA RandomStep ==
  ASSUME RndInv, [Random!Next]_Random!rndVars
  PROVE  RndInv'
<1> USE DEF RndInv, Behind, WentThrough
<1>1. CASE Random!AllFailed
  BY <1>1 DEF Random!AllFailed
<1>2. CASE Random!RndDeadline
  BY <1>2 DEF Random!RndDeadline
<1>3. ASSUME NEW s \in RandomServer, Random!Skip(s) PROVE RndInv'
  BY <1>3 DEF Random!Skip, Random!Goes, Random!Leaves, Random!ShouldSkipTemporarily
<1>4. ASSUME NEW s \in RandomServer, Random!StopAtDeadline(s) PROVE RndInv'
  BY <1>4 DEF Random!StopAtDeadline, Random!Goes
<1>5. ASSUME NEW s \in RandomServer, Random!TryFails(s) PROVE RndInv'
  <2>1. /\ s \in rest /\ ended = Random!Running /\ ended' = ended /\ rest' = rest \ {s}
        /\ passed' = [passed EXCEPT ![s] = "failed"]
        /\ breaker' = [breaker EXCEPT ![s] = Random!MarkFailure(breaker[s])]
    BY <1>5 DEF Random!TryFails, Random!Asks, Random!Goes, Random!Leaves
  <2>2. passed'[s] = "failed"
    BY <2>1
  <2>3. \A t \in RandomServer \ {s} : passed'[t] = passed[t] /\ breaker'[t] = breaker[t]
    BY <2>1
  <2>4. Behind'
    BY <2>1, <2>2, <2>3
  <2>5. QED
    BY <2>1, <2>4
<1>6. ASSUME NEW s \in RandomServer, Random!TrySucceeds(s) PROVE RndInv'
  BY <1>6 DEF Random!TrySucceeds, Random!Asks, Random!Goes
<1>7. CASE UNCHANGED Random!rndVars
  BY <1>7 DEF Random!rndVars
<1>8. QED
  BY <1>1, <1>2, <1>3, <1>4, <1>5, <1>6, <1>7 DEF Random!Next

\* queryRandom: before its deadline a query fails only when every server has
\* failed in it or is in its backoff.
THEOREM EverybodyIsAsked == Random!Spec => []RandomAsksEverybody
<1>1. Random!Init => RndInv
  BY DEF Random!Init, RndInv, Behind, WentThrough
<1>2. RndInv /\ [Random!Next]_Random!rndVars => RndInv'
  BY RandomStep
<1>3. RndInv => RandomAsksEverybody
  BY DEF RndInv, Behind, WentThrough, RandomAsksEverybody, Random!RandomAsksEverybody
<1>4. QED
  BY <1>1, <1>2, <1>3, PTL DEF Random!Spec

-----------------------------------------------------------------------------
(* UpstreamManager.                                                        *)

Counters == [requests : Nat, successes : Nat, errors : Nat]

\* Only a named strategy is ever used, and its counters agree.
ManInv ==
    /\ strategy \in Manager!Strategy /\ used \in Manager!Strategy
    /\ stats \in [Manager!Strategy -> Counters]
    /\ Manager!CountsAgree

\* Half of a number, rounded down.
LEMMA Half ==
  ASSUME NEW n \in Nat
  PROVE  n \div 2 \in Nat /\ (n = 2 * (n \div 2) \/ n = 2 * (n \div 2) + 1)
  OBVIOUS

\* RecordStrategyResult: counters that are halved one by one still agree, and
\* leave room for one more request.
LEMMA DecayedAgrees ==
  ASSUME Manager!ManagerAssumption, NEW c \in Counters,
         c.requests = c.successes + c.errors, c.requests <= DecayAt + 1
  PROVE  /\ Manager!Decayed(c) \in Counters
         /\ Manager!Decayed(c).requests = Manager!Decayed(c).successes + Manager!Decayed(c).errors
         /\ Manager!Decayed(c).requests <= DecayAt
<1>1. c.requests \in Nat /\ c.successes \in Nat /\ c.errors \in Nat
  BY DEF Counters
<1>2. CASE c.requests > DecayAt
  <2>1. Manager!Decayed(c) = [requests |-> c.requests \div 2, successes |-> c.successes \div 2,
                              errors |-> c.errors \div 2]
    BY <1>2 DEF Manager!Decayed
  <2>2. c.requests = DecayAt + 1 /\ DecayAt \in Nat
    BY <1>1, <1>2 DEF Manager!ManagerAssumption
  <2>3. DecayAt = 2 * (DecayAt \div 2)
    BY <2>2 DEF Manager!ManagerAssumption
  <2>4. c.requests = 2 * (c.requests \div 2) + 1
    BY <1>1, <2>2, <2>3, Half
  <2>5. c.requests \div 2 = c.successes \div 2 + c.errors \div 2
    <3> DEFINE x == c.requests \div 2
    <3> DEFINE y == c.successes \div 2
    <3> DEFINE z == c.errors \div 2
    <3>1. x \in Nat /\ y \in Nat /\ z \in Nat
      BY <1>1, Half
    <3>2. /\ c.successes = 2 * y \/ c.successes = 2 * y + 1
          /\ c.errors = 2 * z \/ c.errors = 2 * z + 1
      BY <1>1, Half
    <3>3. c.successes + c.errors = 2 * x + 1
      BY <2>4
    <3> HIDE DEF x, y, z
    <3>4. x = y + z
      BY <3>1, <3>2, <3>3
    <3>5. QED
      BY <3>4 DEF x, y, z
  <2>6. c.requests \div 2 <= DecayAt
    BY <1>1, <2>2, <2>4, Half
  <2>7. Manager!Decayed(c) \in Counters
    BY <1>1, <2>1, Half DEF Counters
  <2>8. QED
    BY <2>1, <2>5, <2>6, <2>7
<1>3. CASE c.requests <= DecayAt
  BY <1>1, <1>3 DEF Manager!Decayed, Manager!ManagerAssumption
<1>4. QED
  BY <1>1, <1>2, <1>3 DEF Manager!ManagerAssumption

\* Every step keeps the counters in agreement.
LEMMA ManagerStep ==
  ASSUME Manager!ManagerAssumption, ManInv, [Manager!Next]_Manager!manVars
  PROVE  ManInv'
<1> USE DEF ManInv
<1>1. CASE UNCHANGED <<strategy, used, stats>>
  BY <1>1 DEF Manager!CountsAgree
<1>2. ASSUME NEW c \in Caller, Manager!CheckNetwork(c) PROVE ManInv'
  <2>1. used' \in Manager!Strategy
    BY <1>2 DEF Manager!CheckNetwork, Manager!SelectOptimalStrategy, Manager!Strategy
  <2>2. QED
    BY <1>2, <2>1 DEF Manager!CheckNetwork, Manager!CountsAgree
<1>3. ASSUME NEW c \in Caller, Manager!Record(c) PROVE ManInv'
  <2> DEFINE d == Manager!Decayed(stats[used])
  <2> DEFINE ok == IF flightEnd # "error" THEN 1 ELSE 0
  <2> DEFINE e == [requests |-> d.requests + 1, successes |-> d.successes + ok,
                   errors |-> d.errors + 1 - ok]
  <2>1. stats' = stats \/ stats' = [stats EXCEPT ![used] = e]
    BY <1>3 DEF Manager!Record
  <2>2. d \in Counters /\ d.requests = d.successes + d.errors /\ d.requests <= DecayAt
    BY DecayedAgrees DEF Manager!CountsAgree
  <2>3. ok \in {0, 1}
    OBVIOUS
  <2> HIDE DEF d, ok
  <2>4. d.requests \in Nat /\ d.successes \in Nat /\ d.errors \in Nat
    BY <2>2 DEF Counters
  <2>5. d.requests + 1 \in Nat /\ d.successes + ok \in Nat /\ d.errors + 1 - ok \in Nat
    BY <2>3, <2>4
  <2>6. e \in Counters
    BY <2>5 DEF Counters
  <2>7. e.requests = e.successes + e.errors /\ e.requests <= DecayAt + 1
    BY <2>2, <2>3, <2>4 DEF Manager!ManagerAssumption
  <2> HIDE DEF e
  <2>8. CASE stats' = stats
    BY <1>3, <2>8 DEF Manager!Record, Manager!CountsAgree
  <2>9. CASE stats' = [stats EXCEPT ![used] = e]
    <3>1. stats' \in [Manager!Strategy -> Counters]
      BY <2>6, <2>9
    <3>2. \A t \in Manager!Strategy : stats'[t] = e \/ stats'[t] = stats[t]
      BY <2>9
    <3>3. Manager!CountsAgree'
      BY <2>7, <3>2 DEF Manager!CountsAgree
    <3>4. QED
      BY <1>3, <3>1, <3>3 DEF Manager!Record
  <2>10. QED
    BY <2>1, <2>8, <2>9
<1>4. QED
  BY <1>1, <1>2, <1>3
  DEF Manager!Next, Manager!FlightStep, Manager!NetworkChanges, Manager!Lead, Manager!Join,
      Manager!StrategyEnds, Manager!Return, Manager!Again, Manager!ContextDone,
      Manager!manVars

\* RecordStrategyResult: the requests counted for a strategy are its successes and
\* its errors, however often they have been halved, and stay bounded.
THEOREM CountersAgree == Manager!ManagerAssumption /\ Manager!Spec => []CountsAgree
<1>1. Manager!ManagerAssumption /\ Manager!Init => ManInv
  <2> SUFFICES ASSUME Manager!ManagerAssumption, Manager!Init PROVE ManInv
    OBVIOUS
  <2>1. strategy \in Manager!Strategy /\ used \in Manager!Strategy
    BY DEF Manager!Init, Manager!selectInitialStrategy, Manager!Configured, Manager!Strategy
  <2>2. stats \in [Manager!Strategy -> Counters]
    BY DEF Manager!Init, Manager!NoStats, Counters
  <2>3. Manager!CountsAgree
    BY DEF Manager!Init, Manager!NoStats, Manager!CountsAgree, Manager!ManagerAssumption
  <2>4. QED
    BY <2>1, <2>2, <2>3 DEF ManInv
<1>2. Manager!ManagerAssumption /\ ManInv /\ [Manager!Next]_Manager!manVars => ManInv'
  BY ManagerStep
<1>3. Manager!ManagerAssumption => []Manager!ManagerAssumption
  <2>1. Manager!ManagerAssumption => Manager!ManagerAssumption'
    BY DEF Manager!ManagerAssumption
  <2>2. QED
    BY <2>1, PTL
<1>4. ManInv => CountsAgree
  BY DEF ManInv, CountsAgree
<1>5. QED
  BY <1>1, <1>2, <1>3, <1>4, PTL DEF Manager!Spec
=============================================================================
