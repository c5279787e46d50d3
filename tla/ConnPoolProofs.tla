--------------------------- MODULE ConnPoolProofs ----------------------------
(***************************************************************************)
(* Proofs about ConnPool, for any number of requests and connections and   *)
(* any limits: a request never returns somebody else's reply, and          *)
(* activeCount stays in step with the connections there are.  Both rest on *)
(* the ownership of connections: a connection is in the hands of one       *)
(* request, of the clean-up loop, or of nobody.                            *)
(***************************************************************************)
EXTENDS ConnPool, FiniteSetTheorems, TLAPS

Place == {"new", "idle", "busy", "held", "gone"}
Position == {"start", "empty", "dial", "wait", "busy", "retry", "done", "failed"}

\* The shape of what the two invariants depend on.
PoolType ==
    /\ network \in Network
    /\ where \in [Conn -> Place]
    /\ owed \in [Conn -> SUBSET Req]
    /\ activeCount \in Int
    /\ pc \in [Req -> Position]
    /\ use \in [Req -> Conn \cup {None}]
    /\ got \in [Req -> Req \cup {None}]
    /\ counting \in [Warmer -> BOOLEAN]
    /\ held \in Conn \cup {None}

\* Who has which connection.
Owned ==
    /\ \A r \in Req : pc[r] = "busy" => use[r] \in Conn /\ where[use[r]] = "busy"
    /\ \A r, q \in Req : pc[r] = "busy" /\ pc[q] = "busy" /\ use[r] = use[q] => r = q
    /\ held # None => where[held] = "held"

\* Over TCP and TLS a connection nobody uses owes no reply, and one in use owes
\* at most the reply to its user: what has failed is closed and not put back.
Settled ==
    network # "udp" =>
        /\ \A c \in Conn : where[c] # "busy" => owed[c] = {}
        /\ \A r \in Req : pc[r] = "busy" => owed[use[r]] \subseteq {r}

IInv == PoolType /\ Owned /\ Settled /\ OwnReply

-----------------------------------------------------------------------------
(* What the steps have in common.                                          *)

\* A request obtains a connection that nobody had.
LEMMA ObtainKeeps ==
  ASSUME IInv, NEW r \in Req, NEW c \in Conn, pc[r] # "busy", where[c] \in {"new", "idle"},
         Obtain(r, c), UNCHANGED <<network, activeCount, got, counting, held>>
  PROVE  IInv'
  <1> USE DEF IInv, Obtain, Goto
  <1>1. PoolType'
    BY DEF PoolType, Position, Place
  <1>2. \A q \in Req : pc'[q] = "busy" => use'[q] \in Conn /\ where'[use'[q]] = "busy"
    BY DEF PoolType, Owned
  <1>3. \A q \in Req : q # r /\ pc'[q] = "busy" => use'[q] = use[q] /\ use[q] # c
    BY DEF PoolType, Owned
  <1>4. Owned'
    <2>1. \A p, q \in Req : pc'[p] = "busy" /\ pc'[q] = "busy" /\ use'[p] = use'[q] => p = q
      BY <1>3 DEF PoolType, Owned
    <2>2. held' # None => where'[held'] = "held"
      BY DEF PoolType, Owned
    <2>3. QED
      BY <1>2, <2>1, <2>2 DEF Owned
  <1>5. Settled'
    <2>1. network # "udp" => owed[c] = {}
      BY DEF Settled
    <2>2. network # "udp" => \A d \in Conn : where'[d] # "busy" => owed'[d] = {}
      BY DEF PoolType, Settled
    <2>3. network # "udp" => \A q \in Req : pc'[q] = "busy" => owed'[use'[q]] \subseteq {q}
      BY <1>3, <2>1 DEF PoolType, Settled, Owned
    <2>4. QED
      BY <2>2, <2>3 DEF Settled
  <1>6. QED
    BY <1>1, <1>4, <1>5 DEF OwnReply

\* A request is done with its connection, which is put back or closed.
LEMMA ReleaseKeeps ==
  ASSUME IInv, NEW r \in Req, pc[r] = "busy", NEW l \in Position \ {"busy"}, Goto(r, l),
         use' = [use EXCEPT ![r] = None],
         NEW w \in {"idle", "gone"}, where' = [where EXCEPT ![use[r]] = w],
         NEW pending \in SUBSET Req, owed' = [owed EXCEPT ![use[r]] = pending],
         network # "udp" => pending = {},
         got' \in [Req -> Req \cup {None}], OwnReply', activeCount' \in Int,
         UNCHANGED <<network, counting, held>>
  PROVE  IInv'
  <1> USE DEF IInv, Goto
  <1>1. use[r] \in Conn /\ where[use[r]] = "busy"
    BY DEF Owned
  <1>2. PoolType'
    BY <1>1 DEF PoolType, Position, Place
  <1>3. \A q \in Req : pc'[q] = "busy" =>
            q # r /\ pc[q] = "busy" /\ use'[q] = use[q] /\ use[q] # use[r] /\ use[q] \in Conn
    BY DEF PoolType, Owned
  <1>4. Owned'
    <2>1. \A q \in Req : pc'[q] = "busy" => use'[q] \in Conn /\ where'[use'[q]] = "busy"
      BY <1>3 DEF PoolType, Owned
    <2>2. \A p, q \in Req : pc'[p] = "busy" /\ pc'[q] = "busy" /\ use'[p] = use'[q] => p = q
      BY <1>3 DEF Owned
    <2>3. held' # None => where'[held'] = "held"
      BY <1>1 DEF PoolType, Owned
    <2>4. QED
      BY <2>1, <2>2, <2>3 DEF Owned
  <1>5. Settled'
    BY <1>1, <1>3 DEF PoolType, Settled
  <1>6. QED
    BY <1>2, <1>4, <1>5

\* A request closes its connection.
LEMMA CloseKeeps ==
  ASSUME IInv, NEW r \in Req, pc[r] = "busy", NEW l \in Position \ {"busy"}, Goto(r, l),
         use' = [use EXCEPT ![r] = None], Destroy(use[r]),
         got' \in [Req -> Req \cup {None}], OwnReply', UNCHANGED <<network, counting, held>>
  PROVE  IInv'
  <1> DEFINE pending == {}
  <1>1. /\ where' = [where EXCEPT ![use[r]] = "gone"]
        /\ owed' = [owed EXCEPT ![use[r]] = pending] /\ activeCount' \in Int
    BY DEF Destroy, IInv, PoolType
  <1>2. pending \in SUBSET Req /\ (network # "udp" => pending = {})
    OBVIOUS
  <1> HIDE DEF pending
  <1>3. QED
    BY <1>1, <1>2, ReleaseKeeps

\* Nothing changes hands.
LEMMA OthersKeep ==
  ASSUME IInv, NEW r \in Req, NEW l \in Position \ {"busy"}, pc[r] # "busy",
         pc' = [pc EXCEPT ![r] = l] \/ UNCHANGED pc,
         activeCount' \in Int, counting' \in [Warmer -> BOOLEAN],
         UNCHANGED <<network, where, owed, use, got, held>>
  PROVE  IInv'
  <1> USE DEF IInv
  <1>1. PoolType'
    BY DEF PoolType
  <1>2. \A q \in Req : pc'[q] = "busy" => pc[q] = "busy"
    BY DEF PoolType
  <1>3. Owned' /\ Settled'
    BY <1>2 DEF Owned, Settled
  <1>4. QED
    BY <1>1, <1>3 DEF OwnReply

\* A connection that no request uses moves between the channel, the clean-up
\* loop and the outside.
LEMMA MoveKeeps ==
  ASSUME IInv, NEW c \in Conn, where[c] # "busy", NEW w \in Place \ {"busy"},
         where' = [where EXCEPT ![c] = w],
         owed' = owed \/ owed' = [owed EXCEPT ![c] = {}],
         held' \in Conn \cup {None}, held' # None => where'[held'] = "held",
         activeCount' \in Int, counting' \in [Warmer -> BOOLEAN],
         UNCHANGED <<network, pc, use, got>>
  PROVE  IInv'
  <1> USE DEF IInv
  <1>1. PoolType'
    BY DEF PoolType
  <1>2. \A q \in Req : pc[q] = "busy" => use[q] \in Conn /\ use[q] # c
    BY DEF Owned
  <1>3. \A d \in Conn : d # c => where'[d] = where[d] /\ owed'[d] = owed[d]
    BY DEF PoolType
  <1>4. where'[c] # "busy" /\ owed'[c] \subseteq owed[c]
    BY DEF PoolType
  <1>5. Owned'
    BY <1>2, <1>3 DEF Owned
  <1>6. Settled'
    BY <1>2, <1>3, <1>4 DEF Settled
  <1>7. QED
    BY <1>1, <1>5, <1>6 DEF OwnReply

\* A connection that no request uses is closed.
LEMMA DropKeeps ==
  ASSUME IInv, NEW c \in Conn, where[c] # "busy", Destroy(c),
         held' = None \/ (held' = held /\ held # c), UNCHANGED <<network, pc, use, got, counting>>
  PROVE  IInv'
  <1>1. /\ where' = [where EXCEPT ![c] = "gone"]
        /\ owed' = [owed EXCEPT ![c] = {}] /\ activeCount' \in Int
    BY DEF Destroy, IInv, PoolType
  <1>2. /\ held' \in Conn \cup {None} /\ counting' \in [Warmer -> BOOLEAN]
        /\ held' # None => where'[held'] = "held"
    BY <1>1 DEF IInv, PoolType, Owned
  <1>3. "gone" \in Place \ {"busy"}
    BY DEF Place
  <1>4. QED
    BY <1>1, <1>2, <1>3, MoveKeeps

-----------------------------------------------------------------------------
(* Ownership.                                                              *)

\* A new pool owns nothing.
LEMMA InitInv == Init => IInv
  BY PoolAssumption DEF Init, IInv, PoolType, Owned, Settled, OwnReply, Place, Position, Network

\* Requests.
LEMMA ExchangeInv ==
  ASSUME IInv, UNCHANGED network, NEW r \in Req, Exchange(r)
  PROVE  IInv'
  <1>t. /\ pc \in [Req -> Position] /\ use \in [Req -> Conn \cup {None}]
        /\ owed \in [Conn -> SUBSET Req] /\ got \in [Req -> Req \cup {None}]
        /\ activeCount \in Int /\ counting \in [Warmer -> BOOLEAN]
        /\ held \in Conn \cup {None} /\ where \in [Conn -> Place]
    BY DEF IInv, PoolType
  <1>1. CASE FindEmpty(r) \/ Reserve(r) \/ DialFails(r) \/ Queue(r) \/ WaitTimesOut(r)
                \/ WaitCancelled(r) \/ NoRetry(r)
    <2>1. PICK l \in Position \ {"busy"} : pc' = [pc EXCEPT ![r] = l]
      BY <1>1 DEF FindEmpty, Reserve, DialFails, Queue, WaitTimesOut, WaitCancelled, NoRetry,
                  Goto, Position
    <2>2. pc[r] # "busy"
      BY <1>1 DEF FindEmpty, Reserve, DialFails, Queue, WaitTimesOut, WaitCancelled, NoRetry
    <2>3. activeCount' \in Int
      BY <1>1, <1>t DEF FindEmpty, Reserve, DialFails, Queue, WaitTimesOut, WaitCancelled, NoRetry,
                        poolVars
    <2>4. UNCHANGED <<where, owed, use, got, held, counting>>
      BY <1>1 DEF FindEmpty, Reserve, DialFails, Queue, WaitTimesOut, WaitCancelled, NoRetry,
                  poolVars, warmVars, cleanVars
    <2>5. QED
      BY <1>t, <2>1, <2>2, <2>3, <2>4, OthersKeep
  <1>2. ASSUME NEW c \in Conn, TakeIdle(r, c) \/ Dial(r, c) \/ TakeWaited(r, c) PROVE IInv'
    <2>1. pc[r] # "busy" /\ where[c] \in {"new", "idle"} /\ Obtain(r, c)
      BY <1>2 DEF TakeIdle, Dial, TakeWaited, Fresh
    <2>2. UNCHANGED <<network, activeCount, got, counting, held>>
      BY <1>2 DEF TakeIdle, Dial, TakeWaited, warmVars, cleanVars
    <2>3. QED
      BY <2>1, <2>2, ObtainKeeps
  <1>3. ASSUME NEW c \in Conn, TakeStale(r, c) PROVE IInv'
    <2>1. where[c] = "idle" /\ Destroy(c) /\ UNCHANGED <<pc, use, got, counting, held>>
      BY <1>3 DEF TakeStale, reqVars, warmVars, cleanVars
    <2>2. held' = None \/ (held' = held /\ held # c)
      BY <2>1 DEF IInv, Owned
    <2>3. QED
      BY <2>1, <2>2, DropKeeps
  <1>4. CASE Reply(r)
    <2>1. pc[r] = "busy" /\ use' = [use EXCEPT ![r] = None]
            /\ UNCHANGED <<network, counting, held>>
      BY <1>4 DEF Reply, warmVars, cleanVars
    <2>2. PICK q \in owed[use[r]], twice \in BOOLEAN :
            /\ twice => network = "udp"
            /\ IF Accepts(r, q)
               THEN /\ got' = [got EXCEPT ![r] = q]
                    /\ Goto(r, "done")
                    /\ PutBack(use[r], IF twice THEN owed[use[r]] ELSE owed[use[r]] \ {q})
               ELSE /\ Goto(r, "failed") /\ Destroy(use[r])
                    /\ UNCHANGED got
      BY <1>4 DEF Reply
    <2>3. use[r] \in Conn /\ owed[use[r]] \in SUBSET Req
      BY <2>1, <1>t DEF IInv, Owned
    <2>4. CASE Accepts(r, q)
      <3> DEFINE pending == IF twice THEN owed[use[r]] ELSE owed[use[r]] \ {q}
      <3>1. q = r
        BY <2>1, <2>2, <2>4 DEF Accepts, IInv, Settled
      <3>2. got' \in [Req -> Req \cup {None}] /\ OwnReply'
        BY <1>t, <2>2, <2>4, <3>1 DEF IInv, OwnReply
      <3>3. pending \in SUBSET Req /\ (network # "udp" => pending = {})
        BY <2>1, <2>2, <2>3, <3>1 DEF IInv, Settled
      <3>4. Goto(r, "done") /\ PutBack(use[r], pending)
        BY <2>2, <2>4
      <3> HIDE DEF pending
      <3>5. CASE Room
        <4>1. /\ where' = [where EXCEPT ![use[r]] = "idle"]
              /\ owed' = [owed EXCEPT ![use[r]] = pending] /\ activeCount' \in Int
          BY <1>t, <3>4, <3>5 DEF PutBack
        <4>2. QED
          BY <2>1, <3>2, <3>3, <3>4, <4>1, ReleaseKeeps DEF Position
      <3>6. CASE ~Room
        <4>1. Destroy(use[r])
          BY <3>4, <3>6 DEF PutBack
        <4>2. QED
          BY <2>1, <3>2, <3>4, <4>1, CloseKeeps DEF Position
      <3>7. QED
        BY <3>5, <3>6
    <2>5. CASE ~Accepts(r, q)
      <3>1. Goto(r, "failed") /\ Destroy(use[r]) /\ UNCHANGED got
        BY <2>2, <2>5
      <3>2. OwnReply' /\ got' \in [Req -> Req \cup {None}]
        BY <1>t, <3>1 DEF IInv, OwnReply
      <3>3. QED
        BY <2>1, <3>1, <3>2, CloseKeeps DEF Position
    <2>6. QED
      BY <2>4, <2>5
  <1>5. CASE ExchangeFails(r)
    <2>1. /\ pc[r] = "busy" /\ use' = [use EXCEPT ![r] = None]
          /\ UNCHANGED <<network, got, counting, held>>
      BY <1>5 DEF ExchangeFails, warmVars, cleanVars
    <2>2. PICK kind \in {"timeout"} \cup IF use[r] \in dead THEN {"broken"} ELSE {} :
            LET temporary == isTemporaryError(ErrorOf(kind)) IN
            /\ IF temporary /\ network # "udp" /\ ~again[r]
               THEN PutBack(use[r], owed[use[r]]) ELSE Destroy(use[r])
            /\ IF kind = "broken" /\ network = "tcp" /\ ~again[r]
               THEN /\ Goto(r, "retry") /\ again' = [again EXCEPT ![r] = TRUE]
               ELSE /\ Goto(r, "failed") /\ UNCHANGED again
      BY <1>5 DEF ExchangeFails
    <2>3. Destroy(use[r])
      BY <2>2 DEF isTemporaryError, ErrorOf
    <2>4. PICK l \in Position \ {"busy"} : Goto(r, l)
      BY <2>2 DEF Position
    <2>5. OwnReply' /\ got' \in [Req -> Req \cup {None}]
      BY <1>t, <2>1 DEF IInv, OwnReply
    <2>6. QED
      BY <2>1, <2>3, <2>4, <2>5, CloseKeeps
  <1>6. QED
    BY <1>1, <1>2, <1>3, <1>4, <1>5 DEF Exchange

\* Warm-up, clean-up, Close and the remote side.
LEMMA LoopsInv ==
  ASSUME IInv, UNCHANGED network,
         \/ \E w \in Warmer : WarmStep(w)
         \/ StartWarmup \/ performHealthCheck
         \/ \E c \in Conn : RemoteClose(c)
         \/ cleanupTick \/ CleanStep \/ adjustPoolSizeNow
         \/ Close \/ closeAll \/ CloseReturns
  PROVE  IInv'
  <1>t. /\ pc \in [Req -> Position] /\ use \in [Req -> Conn \cup {None}]
        /\ owed \in [Conn -> SUBSET Req] /\ got \in [Req -> Req \cup {None}]
        /\ activeCount \in Int /\ counting \in [Warmer -> BOOLEAN]
        /\ held \in Conn \cup {None} /\ where \in [Conn -> Place]
    BY DEF IInv, PoolType
  <1>1. CASE \/ \E w \in Warmer : WarmupCounts(w) \/ WarmupFails(w)
             \/ StartWarmup \/ performHealthCheck \/ cleanupTick \/ CleanEnd
             \/ adjustPoolSizeNow \/ Close \/ CloseReturns
             \/ \E c \in Conn : RemoteClose(c)
    <2>1. UNCHANGED <<where, owed, pc, use, got, held>>
      BY <1>1 DEF WarmupCounts, WarmupFails, StartWarmup, performHealthCheck, cleanupTick, CleanEnd,
                  adjustPoolSizeNow, Close, CloseReturns, RemoteClose, poolVars, reqVars, cleanVars
    <2>2. activeCount' \in Int /\ counting' \in [Warmer -> BOOLEAN]
      <3>1. CASE \E w \in Warmer : WarmupCounts(w)
        BY <3>1, <1>t DEF WarmupCounts
      <3>2. CASE ~\E w \in Warmer : WarmupCounts(w)
        <4>1. UNCHANGED <<activeCount, counting>>
          BY <1>1, <3>2 DEF WarmupFails, StartWarmup, performHealthCheck, cleanupTick, CleanEnd,
                  adjustPoolSizeNow, Close, CloseReturns, RemoteClose, poolVars, warmVars
        <4>2. QED
          BY <1>t, <4>1
      <3>3. QED
        BY <3>1, <3>2
    <2>3. QED
      BY <2>1, <2>2 DEF IInv, PoolType, Owned, Settled, OwnReply
  <1>2. ASSUME NEW w \in Warmer, NEW c \in Conn, Warmup(w, c) PROVE IInv'
    <2>1. where[c] = "new" /\ UNCHANGED <<owed, activeCount, pc, use, got, held>>
      BY <1>2 DEF Warmup, Fresh, reqVars, cleanVars
    <2>2. PICK p \in {"idle", "gone"} : where' = [where EXCEPT ![c] = p]
      BY <1>2 DEF Warmup
    <2>3. counting' = [counting EXCEPT ![w] = Room]
      BY <1>2 DEF Warmup
    <2>r. Room \in BOOLEAN
      BY DEF Room
    <2>4. counting' \in [Warmer -> BOOLEAN]
      BY <1>t, <2>3, <2>r, Zenon
    <2>5. held # None => held # c /\ where[held] = "held"
      BY <2>1 DEF IInv, Owned
    <2>6. held' # None => where'[held'] = "held"
      BY <1>t, <2>1, <2>2, <2>5
    <2>7. QED
      BY <1>t, <2>1, <2>2, <2>4, <2>6, MoveKeeps DEF Place
  <1>3. ASSUME NEW c \in Conn, CleanTake(c) PROVE IInv'
    <2>1. /\ where[c] = "idle" /\ where' = [where EXCEPT ![c] = "held"] /\ held' = c
          /\ UNCHANGED <<owed, activeCount, pc, use, got, counting>>
      BY <1>3 DEF CleanTake, reqVars, warmVars
    <2>2. where'[held'] = "held"
      BY <1>t, <2>1
    <2>3. QED
      BY <1>t, <2>1, <2>2, MoveKeeps DEF Place
  <1>4. CASE CleanKeep
    <2>1. /\ held \in Conn /\ where[held] = "held" /\ held' = None
          /\ where' = [where EXCEPT ![held] = "idle"]
          /\ UNCHANGED <<owed, activeCount, pc, use, got, counting>>
      BY <1>4, <1>t DEF CleanKeep, reqVars, warmVars, IInv, Owned
    <2>2. QED
      BY <1>t, <2>1, MoveKeeps DEF Place
  <1>5. CASE CleanDrop
    <2>1. /\ held \in Conn /\ where[held] = "held" /\ held' = None /\ Destroy(held)
          /\ UNCHANGED <<pc, use, got, counting>>
      BY <1>5, <1>t DEF CleanDrop, reqVars, warmVars, IInv, Owned
    <2>2. QED
      BY <2>1, DropKeeps
  <1>6. CASE closeAll
    <2>1. /\ where' = [c \in Conn |-> IF c \in Idle THEN "gone" ELSE where[c]]
          /\ owed' = [c \in Conn |-> IF c \in Idle THEN {} ELSE owed[c]]
          /\ activeCount' = activeCount - Cardinality(Idle)
          /\ UNCHANGED <<pc, use, got, counting, held>>
      BY <1>6 DEF closeAll, reqVars, warmVars, cleanVars
    <2>2. Cardinality(Idle) \in Nat
      <3>1. IsFiniteSet(Conn) /\ Idle \in SUBSET Conn
        BY PoolAssumption, FS_Interval DEF Conn, Idle, At
      <3>2. QED
        BY <3>1, FS_Subset, FS_CardinalityType
    <2>3. \A c \in Conn : where[c] \in {"busy", "held"} =>
              where'[c] = where[c] /\ owed'[c] = owed[c]
      BY <2>1 DEF Idle, At
    <2>4. \A c \in Conn : where'[c] # "busy" =>
              where[c] # "busy" /\ owed'[c] \subseteq owed[c]
      BY <1>t, <2>1 DEF Idle, At
    <2>5. PoolType'
      <3>1. where' \in [Conn -> Place] /\ owed' \in [Conn -> SUBSET Req]
        BY <1>t, <2>1 DEF Place
      <3>2. QED
        BY <2>1, <2>2, <3>1 DEF IInv, PoolType
    <2>6. Owned'
      BY <1>t, <2>1, <2>3 DEF IInv, Owned
    <2>7. Settled'
      <3>1. \A c \in Conn : network # "udp" /\ where'[c] # "busy" => owed'[c] = {}
        BY <2>4 DEF IInv, Settled
      <3>2. \A r \in Req : network # "udp" /\ pc[r] = "busy" => owed'[use[r]] \subseteq {r}
        BY <2>3 DEF IInv, Settled, Owned
      <3>3. QED
        BY <2>1, <3>1, <3>2 DEF Settled
    <2>8. QED
      BY <2>1, <2>5, <2>6, <2>7 DEF IInv, OwnReply
  <1>7. QED
    BY <1>1, <1>2, <1>3, <1>4, <1>5, <1>6 DEF WarmStep, CleanStep

\* Every step keeps ownership.
LEMMA NextInv == IInv /\ [Next]_vars => IInv'
  <1> SUFFICES ASSUME IInv, [Next]_vars PROVE IInv'
    OBVIOUS
  <1>1. CASE UNCHANGED vars
    BY <1>1 DEF vars, poolVars, reqVars, warmVars, cleanVars, IInv, PoolType, Owned, Settled, OwnReply
  <1>2. CASE Next
    BY <1>2, ExchangeInv, LoopsInv DEF Next
  <1>3. QED
    BY <1>1, <1>2

\* No request ever returns the reply to another request: over UDP because ids are
\* compared, over TLS, where they are not, because no reply outlives its request's
\* hold on the connection.
THEOREM RepliesAreOwn == Spec => []OwnReply
  <1>1. IInv => OwnReply
    BY DEF IInv
  <1>2. QED
    BY <1>1, InitInv, NextInv, PTL DEF Spec

-----------------------------------------------------------------------------
(***************************************************************************)
(* activeCount.  A step adds at most one connection, reservation or due    *)
(* increment or takes one away, except closeAll, which closes what is in   *)
(* the channel at once.                                                    *)
(***************************************************************************)

\* There are finitely many of everything that is counted.
LEMMA AllFinite ==
  /\ IsFiniteSet(Open) /\ IsFiniteSet(Dialling) /\ IsFiniteSet(Uncounted) /\ IsFiniteSet(Idle)
  /\ Cardinality(Open) \in Nat /\ Cardinality(Dialling) \in Nat
  /\ Cardinality(Uncounted) \in Nat /\ Cardinality(Idle) \in Nat
  <1>1. IsFiniteSet(Conn) /\ IsFiniteSet(Req)
    BY PoolAssumption, FS_Interval DEF Conn
  <1>2. IsFiniteSet(Warmer)
    <2>1. Warmer = {"start"} \cup {"health"}
      BY DEF Warmer
    <2>2. QED
      BY <2>1, FS_Singleton, FS_AddElement
  <1>3. Open \in SUBSET Conn /\ Idle \in SUBSET Conn /\ Dialling \in SUBSET Req
          /\ Uncounted \in SUBSET Warmer
    BY DEF Open, Idle, At, Dialling, Uncounted
  <1>4. IsFiniteSet(Open) /\ IsFiniteSet(Dialling) /\ IsFiniteSet(Uncounted) /\ IsFiniteSet(Idle)
    BY <1>1, <1>2, <1>3, FS_Subset
  <1>5. QED
    BY <1>4, FS_CardinalityType

\* Nothing that is counted changes.
LEMMA Quiet ==
  ASSUME Accounted, Open' = Open, Dialling' = Dialling, Uncounted' = Uncounted,
         UNCHANGED activeCount
  PROVE  Accounted'
  BY DEF Accounted

\* An open connection is closed and counted out.
LEMMA CountedOut ==
  ASSUME IInv, Accounted, NEW c \in Conn, where[c] \in {"idle", "busy", "held"}, Destroy(c),
         Dialling' = Dialling, Uncounted' = Uncounted
  PROVE  Accounted'
  <1>1. c \in Open /\ Open' = Open \ {c} /\ activeCount' = activeCount - 1 /\ activeCount \in Int
    BY DEF Open, Destroy, IInv, PoolType
  <1>2. Cardinality(Open') = Cardinality(Open) - 1
    BY <1>1, AllFinite, FS_RemoveElement
  <1>3. QED
    BY <1>1, <1>2, AllFinite DEF Accounted

\* A request that neither leaves nor enters "dial".
LEMMA SameDialling ==
  ASSUME IInv, NEW r \in Req, pc[r] # "dial", NEW l, l # "dial", Goto(r, l)
  PROVE  Dialling' = Dialling
  BY DEF Dialling, Goto, IInv, PoolType

\* Requests.
LEMMA ExchangeAccounted ==
  ASSUME IInv, Accounted, NEW r \in Req, Exchange(r)
  PROVE  Accounted'
  <1>t. /\ pc \in [Req -> Position] /\ where \in [Conn -> Place] /\ activeCount \in Int
    BY DEF IInv, PoolType
  <1>w. Uncounted' = Uncounted
    BY DEF Exchange, FindEmpty, Reserve, DialFails, Queue, WaitTimesOut, WaitCancelled, Reply,
           ExchangeFails, NoRetry, TakeIdle, TakeStale, Dial, TakeWaited, warmVars, Uncounted
  <1>1. CASE FindEmpty(r) \/ Queue(r) \/ WaitTimesOut(r) \/ WaitCancelled(r) \/ NoRetry(r)
    <2>1. Dialling' = Dialling
      BY <1>1, SameDialling DEF FindEmpty, Queue, WaitTimesOut, WaitCancelled, NoRetry
    <2>2. Open' = Open /\ UNCHANGED activeCount
      BY <1>1 DEF FindEmpty, Queue, WaitTimesOut, WaitCancelled, NoRetry, poolVars, Open
    <2>3. QED
      BY <1>w, <2>1, <2>2, Quiet
  <1>2. CASE Reserve(r)
    <2>1. r \notin Dialling /\ Dialling' = Dialling \cup {r}
      BY <1>2, <1>t DEF Reserve, Goto, Dialling
    <2>2. Cardinality(Dialling') = Cardinality(Dialling) + 1
      BY <2>1, AllFinite, FS_AddElement
    <2>3. Open' = Open /\ activeCount' = activeCount + 1
      BY <1>2 DEF Reserve, Open
    <2>4. QED
      BY <1>t, <1>w, <2>2, <2>3, AllFinite DEF Accounted
  <1>3. CASE DialFails(r)
    <2>1. r \in Dialling /\ Dialling' = Dialling \ {r}
      BY <1>3, <1>t DEF DialFails, Goto, Dialling
    <2>2. Cardinality(Dialling') = Cardinality(Dialling) - 1
      BY <2>1, AllFinite, FS_RemoveElement
    <2>3. Open' = Open /\ activeCount' = activeCount - 1
      BY <1>3 DEF DialFails, Open
    <2>4. QED
      BY <1>t, <1>w, <2>2, <2>3, AllFinite DEF Accounted
  <1>4. ASSUME NEW c \in Conn, TakeIdle(r, c) \/ TakeWaited(r, c) PROVE Accounted'
    <2>1. /\ pc[r] # "dial" /\ where[c] = "idle" /\ Obtain(r, c)
          /\ UNCHANGED activeCount
      BY <1>4 DEF TakeIdle, TakeWaited
    <2>2. Dialling' = Dialling
      BY <2>1, SameDialling DEF Obtain
    <2>3. Open' = Open
      BY <1>t, <2>1 DEF Obtain, Open
    <2>4. QED
      BY <1>w, <2>1, <2>2, <2>3, Quiet
  <1>5. ASSUME NEW c \in Conn, Dial(r, c) PROVE Accounted'
    <2>1. c \notin Open /\ Open' = Open \cup {c}
      BY <1>5, <1>t DEF Dial, Fresh, Obtain, Open
    <2>2. r \in Dialling /\ Dialling' = Dialling \ {r}
      BY <1>5, <1>t DEF Dial, Obtain, Goto, Dialling
    <2>3. Cardinality(Open') = Cardinality(Open) + 1
      BY <2>1, AllFinite, FS_AddElement
    <2>4. Cardinality(Dialling') = Cardinality(Dialling) - 1
      BY <2>2, AllFinite, FS_RemoveElement
    <2>5. UNCHANGED activeCount
      BY <1>5 DEF Dial
    <2>6. QED
      BY <1>t, <1>w, <2>3, <2>4, <2>5, AllFinite DEF Accounted
  <1>6. ASSUME NEW c \in Conn, TakeStale(r, c) PROVE Accounted'
    <2>1. where[c] = "idle" /\ Destroy(c) /\ Dialling' = Dialling
      BY <1>6 DEF TakeStale, reqVars, Dialling
    <2>2. QED
      BY <1>w, <2>1, CountedOut
  <1>7. CASE Reply(r)
    <2>1. pc[r] = "busy" /\ use[r] \in Conn /\ where[use[r]] = "busy"
      BY <1>7 DEF Reply, IInv, Owned
    <2>2. PICK q, twice :
            IF Accepts(r, q)
            THEN /\ Goto(r, "done")
                 /\ PutBack(use[r], IF twice THEN owed[use[r]] ELSE owed[use[r]] \ {q})
            ELSE Goto(r, "failed") /\ Destroy(use[r])
      BY <1>7 DEF Reply
    <2>3. Dialling' = Dialling
      BY <2>1, <2>2, SameDialling
    <2>4. CASE Destroy(use[r])
      BY <1>w, <2>1, <2>3, <2>4, CountedOut
    <2>5. CASE ~Destroy(use[r])
      <3>1. where' = [where EXCEPT ![use[r]] = "idle"] /\ UNCHANGED activeCount
        BY <2>2, <2>5 DEF PutBack
      <3>2. Open' = Open
        BY <1>t, <2>1, <3>1 DEF Open
      <3>3. QED
        BY <1>w, <2>3, <3>1, <3>2, Quiet
    <2>6. QED
      BY <2>4, <2>5
  <1>8. CASE ExchangeFails(r)
    <2>1. pc[r] = "busy" /\ use[r] \in Conn /\ where[use[r]] = "busy"
      BY <1>8 DEF ExchangeFails, IInv, Owned
    <2>2. Destroy(use[r])
      BY <1>8 DEF ExchangeFails, isTemporaryError, ErrorOf
    <2>3. Dialling' = Dialling
      BY <1>8, <2>1, SameDialling DEF ExchangeFails
    <2>4. QED
      BY <1>w, <2>1, <2>2, <2>3, CountedOut
  <1>9. QED
    BY <1>1, <1>2, <1>3, <1>4, <1>5, <1>6, <1>7, <1>8 DEF Exchange

\* Warm-up, clean-up, Close and the remote side.
LEMMA LoopsAccounted ==
  ASSUME IInv, Accounted,
         \/ \E w \in Warmer : WarmStep(w)
         \/ StartWarmup \/ performHealthCheck
         \/ \E c \in Conn : RemoteClose(c)
         \/ cleanupTick \/ CleanStep \/ adjustPoolSizeNow
         \/ Close \/ closeAll \/ CloseReturns
  PROVE  Accounted'
  <1>t. /\ where \in [Conn -> Place] /\ activeCount \in Int /\ counting \in [Warmer -> BOOLEAN]
        /\ held \in Conn \cup {None}
    BY DEF IInv, PoolType
  <1>d. Dialling' = Dialling
    BY DEF WarmStep, WarmupCounts, WarmupFails, Warmup, StartWarmup, performHealthCheck, RemoteClose,
           cleanupTick, CleanStep, CleanKeep, CleanDrop, CleanEnd, CleanTake, adjustPoolSizeNow,
           Close, closeAll, CloseReturns, reqVars, Dialling
  <1>1. CASE \/ \E w \in Warmer : WarmupFails(w)
             \/ StartWarmup \/ performHealthCheck \/ cleanupTick \/ CleanEnd
             \/ adjustPoolSizeNow \/ Close \/ CloseReturns
             \/ \E c \in Conn : RemoteClose(c)
    <2>1. UNCHANGED <<where, activeCount, counting>>
      BY <1>1 DEF WarmupFails, StartWarmup, performHealthCheck, cleanupTick, CleanEnd,
                  adjustPoolSizeNow, Close, CloseReturns, RemoteClose, poolVars, warmVars
    <2>2. Open' = Open /\ Uncounted' = Uncounted
      BY <2>1 DEF Open, Uncounted
    <2>3. QED
      BY <1>d, <2>1, <2>2, Quiet
  <1>2. ASSUME NEW w \in Warmer, WarmupCounts(w) PROVE Accounted'
    <2>1. w \in Uncounted /\ Uncounted' = Uncounted \ {w}
      BY <1>2, <1>t DEF WarmupCounts, Uncounted
    <2>2. Cardinality(Uncounted') = Cardinality(Uncounted) - 1
      BY <2>1, AllFinite, FS_RemoveElement
    <2>3. Open' = Open /\ activeCount' = activeCount + 1
      BY <1>2 DEF WarmupCounts, Open
    <2>4. QED
      BY <1>t, <1>d, <2>2, <2>3, AllFinite DEF Accounted
  <1>3. ASSUME NEW w \in Warmer, NEW c \in Conn, Warmup(w, c) PROVE Accounted'
    <2>1. where[c] = "new" /\ ~counting[w] /\ UNCHANGED activeCount
      BY <1>3 DEF Warmup, Fresh
    <2>2. CASE Room
      <3>1. /\ where' = [where EXCEPT ![c] = "idle"]
            /\ counting' = [counting EXCEPT ![w] = TRUE]
        BY <1>3, <2>2 DEF Warmup
      <3>2. c \notin Open /\ Open' = Open \cup {c}
        BY <1>t, <2>1, <3>1 DEF Open
      <3>3. w \notin Uncounted /\ Uncounted' = Uncounted \cup {w}
        BY <1>t, <2>1, <3>1 DEF Uncounted
      <3>4. Cardinality(Open') = Cardinality(Open) + 1
        BY <3>2, AllFinite, FS_AddElement
      <3>5. Cardinality(Uncounted') = Cardinality(Uncounted) + 1
        BY <3>3, AllFinite, FS_AddElement
      <3>6. QED
        BY <1>t, <1>d, <2>1, <3>4, <3>5, AllFinite DEF Accounted
    <2>3. CASE ~Room
      <3>r. Room = FALSE
        BY <2>3 DEF Room
      <3>1. /\ where' = [where EXCEPT ![c] = "gone"]
            /\ counting' = [counting EXCEPT ![w] = FALSE]
        BY <1>3, <3>r, Zenon DEF Warmup
      <3>2. Open' = Open
        BY <1>t, <2>1, <3>1 DEF Open
      <3>3. Uncounted' = Uncounted
        BY <1>t, <2>1, <3>1 DEF Uncounted
      <3>4. QED
        BY <1>d, <2>1, <3>2, <3>3, Quiet
    <2>4. QED
      BY <2>2, <2>3
  <1>4. CASE CleanKeep \/ \E c \in Conn : CleanTake(c)
    <2>1. PICK c \in Conn, w \in {"idle", "held"} :
            where[c] \in {"idle", "held"} /\ where' = [where EXCEPT ![c] = w]
      BY <1>4, <1>t DEF CleanKeep, CleanTake, IInv, Owned
    <2>2. UNCHANGED <<activeCount, counting>>
      BY <1>4 DEF CleanKeep, CleanTake, warmVars
    <2>3. Open' = Open /\ Uncounted' = Uncounted
      BY <1>t, <2>1, <2>2 DEF Open, Uncounted
    <2>4. QED
      BY <1>d, <2>2, <2>3, Quiet
  <1>5. CASE CleanDrop
    <2>1. held \in Conn /\ where[held] = "held" /\ Destroy(held) /\ Uncounted' = Uncounted
      BY <1>5, <1>t DEF CleanDrop, warmVars, Uncounted, IInv, Owned
    <2>2. QED
      BY <1>d, <2>1, CountedOut
  <1>6. CASE closeAll
    <2>1. /\ where' = [c \in Conn |-> IF c \in Idle THEN "gone" ELSE where[c]]
          /\ activeCount' = activeCount - Cardinality(Idle) /\ UNCHANGED counting
      BY <1>6 DEF closeAll, warmVars
    <2>2. Open' = Open \ Idle /\ Open \cap Idle = Idle /\ Uncounted' = Uncounted
      BY <1>t, <2>1 DEF Open, Idle, At, Uncounted
    <2>3. Cardinality(Open') = Cardinality(Open) - Cardinality(Idle)
      <3>1. Cardinality(Open \ Idle) = Cardinality(Open) - Cardinality(Open \cap Idle)
        BY AllFinite, FS_Difference
      <3>2. QED
        BY <2>2, <3>1
    <2>4. QED
      BY <1>t, <1>d, <2>1, <2>2, <2>3, AllFinite DEF Accounted
  <1>7. QED
    BY <1>1, <1>2, <1>3, <1>4, <1>5, <1>6 DEF WarmStep, CleanStep

\* activeCount counts every open connection and every reservation exactly once,
\* for any number of requests, connections and limits, on every path out of
\* Exchange, through warm-up, clean-up and Close.
THEOREM CountIsExact == Spec => []Accounted
  <1>1. Init => Accounted
    <2> SUFFICES ASSUME Init PROVE Accounted
      OBVIOUS
    <2>1. Open = {} /\ Dialling = {} /\ Uncounted = {} /\ activeCount = 0
      BY DEF Init, Open, Dialling, Uncounted
    <2>2. QED
      BY <2>1, FS_EmptySet DEF Accounted
  <1>2. IInv /\ Accounted /\ [Next]_vars => Accounted'
    <2> SUFFICES ASSUME IInv, Accounted, [Next]_vars PROVE Accounted'
      OBVIOUS
    <2>1. CASE UNCHANGED vars
      <3>1. Open' = Open /\ Dialling' = Dialling /\ Uncounted' = Uncounted /\ UNCHANGED activeCount
        BY <2>1 DEF vars, poolVars, reqVars, warmVars, Open, Dialling, Uncounted
      <3>2. QED
        BY <3>1, Quiet
    <2>2. CASE Next
      BY <2>2, ExchangeAccounted, LoopsAccounted DEF Next
    <2>3. QED
      BY <2>1, <2>2
  <1>3. QED
    BY <1>1, <1>2, InitInv, NextInv, PTL DEF Spec

-----------------------------------------------------------------------------
(***************************************************************************)
(* The pool of a DoT server is the pool with network = "tls": a step of    *)
(* TLSPool is a step of ConnPool, so that both theorems hold of it too.    *)
(***************************************************************************)
TLS == INSTANCE TLSPool

TLSSpec == Init /\ network = "tls" /\ [][TLS!Next /\ UNCHANGED network]_vars

\* Both modules mean the same by the operators the steps share.
LEMMA TLSWords ==
  /\ TLS!Pool!Conn = Conn /\ TLS!Conn = Conn
  /\ \A S : TLS!Pool!Cardinality(S) = Cardinality(S)
  /\ TLS!Pool!Idle = Idle
  /\ TLS!Pool!Room = Room
  /\ TLS!Pool!adjustPoolSize <=> adjustPoolSize
  /\ \A c : TLS!Pool!Destroy(c) <=> Destroy(c)
  /\ \A c : TLS!Pool!Fresh(c) <=> Fresh(c)
  /\ \A r, l : TLS!Pool!Goto(r, l) <=> Goto(r, l)
  /\ \A r, c : TLS!Pool!Obtain(r, c) <=> Obtain(r, c)
  /\ \A c, pending : TLS!Pool!PutBack(c, pending) <=> PutBack(c, pending)
  <1>1. TLS!Pool!Conn = Conn /\ TLS!Conn = Conn
    BY DEF Conn, TLS!Conn, TLS!Pool!Conn
  <1>2. TLS!Pool!Idle = Idle
    BY <1>1 DEF Idle, At, TLS!Pool!Idle, TLS!Pool!At
  <1>c. \A S : TLS!Pool!Cardinality(S) = Cardinality(S)
    BY DEF Cardinality, TLS!Pool!Cardinality
  <1>3. TLS!Pool!Room = Room
    BY <1>2, <1>c DEF Room, TLS!Pool!Room
  <1>4. TLS!Pool!adjustPoolSize <=> adjustPoolSize
    BY DEF adjustPoolSize, Adjusted, Saturated, Underused, Lesser, TLS!Pool!adjustPoolSize,
           TLS!Pool!Adjusted, TLS!Pool!Saturated, TLS!Pool!Underused, TLS!Pool!Lesser
  <1>5. \A c : TLS!Pool!Destroy(c) <=> Destroy(c)
    BY DEF Destroy, TLS!Pool!Destroy
  <1>6. \A c : TLS!Pool!Fresh(c) <=> Fresh(c)
    BY <1>1 DEF Fresh, TLS!Pool!Fresh
  <1>7. \A r, l : TLS!Pool!Goto(r, l) <=> Goto(r, l)
    BY DEF Goto, TLS!Pool!Goto
  <1>8. \A r, c : TLS!Pool!Obtain(r, c) <=> Obtain(r, c)
    BY <1>7 DEF Obtain, TLS!Pool!Obtain
  <1>9. \A c, pending : TLS!Pool!PutBack(c, pending) <=> PutBack(c, pending)
    BY <1>3, <1>5 DEF PutBack, TLS!Pool!PutBack
  <1>10. QED
    BY <1>1, <1>2, <1>c, <1>3, <1>4, <1>5, <1>6, <1>7, <1>8, <1>9

\* A request of the TLS pool moves as one of ConnPool.
LEMMA TLSExchange ==
  ASSUME network = "tls", NEW r \in Req, TLS!Exchange(r)
  PROVE  Exchange(r)
  <1> USE TLSWords DEF poolVars, tuning, reqVars, warmVars, cleanVars, TLS!Pool!poolVars,
          TLS!Pool!tuning, TLS!Pool!reqVars, TLS!Pool!warmVars, TLS!Pool!cleanVars
  <1>1. TLS!Pool!FindEmpty(r) => FindEmpty(r)
    BY DEF FindEmpty, TLS!Pool!FindEmpty
  <1>2. TLS!Pool!Reserve(r) => Reserve(r)
    BY DEF Reserve, TLS!Pool!Reserve
  <1>3. TLS!Pool!Queue(r) => Queue(r)
    BY DEF Queue, TLS!Pool!Queue
  <1>4. TLS!Pool!WaitTimesOut(r) => WaitTimesOut(r)
    BY DEF WaitTimesOut, recordCongestion, TLS!Pool!WaitTimesOut, TLS!Pool!recordCongestion
  <1>5. TLS!Pool!WaitCancelled(r) => WaitCancelled(r)
    BY DEF WaitCancelled, TLS!Pool!WaitCancelled
  <1>6. TLS!Pool!DialFails(r) => DialFails(r)
    BY DEF DialFails, TLS!Pool!DialFails
  <1>7. TLS!Pool!Reply(r) => Reply(r)
    BY DEF Reply, Accepts, TLS!Pool!Reply, TLS!Pool!Accepts
  <1>8. TLS!Pool!ExchangeFails(r) => ExchangeFails(r)
    BY DEF ExchangeFails, ErrorOf, isTemporaryError, TLS!Pool!ExchangeFails, TLS!Pool!ErrorOf,
           TLS!Pool!isTemporaryError
  <1>9. ASSUME NEW c \in Conn
        PROVE  /\ TLS!Pool!TakeIdle(r, c) => TakeIdle(r, c)
               /\ TLS!Pool!TakeWaited(r, c) => TakeWaited(r, c)
               /\ TLS!Pool!Dial(r, c) => Dial(r, c)
    BY DEF TakeIdle, TakeWaited, Dial, TLS!Pool!TakeIdle, TLS!Pool!TakeWaited, TLS!Pool!Dial
  <1>10. QED
    BY <1>1, <1>2, <1>3, <1>4, <1>5, <1>6, <1>7, <1>8, <1>9
       DEF Exchange, TLS!Exchange, TLS!Acquire, TLS!createConnection, TLS!exchangeOnConnection

\* Every step of the TLS pool is one of ConnPool.
LEMMA TLSStep ==
  ASSUME network = "tls", TLS!Next, UNCHANGED network
  PROVE  Next
  <1> USE TLSWords DEF poolVars, tuning, reqVars, warmVars, cleanVars, TLS!Pool!poolVars,
          TLS!Pool!tuning, TLS!Pool!reqVars, TLS!Pool!warmVars, TLS!Pool!cleanVars
  <1>1. ASSUME NEW r \in Req, TLS!Exchange(r) PROVE Exchange(r)
    BY <1>1, TLSExchange
  <1>2. TLS!NewTLSConnectionPool => StartWarmup
    BY DEF StartWarmup, Lesser, TLS!NewTLSConnectionPool, TLS!Pool!StartWarmup, TLS!Pool!Lesser
  <1>3. TLS!Warmup => WarmStep("start")
    <2>1. TLS!Pool!WarmupCounts("start") => WarmupCounts("start")
      BY DEF WarmupCounts, TLS!Pool!WarmupCounts
    <2>2. TLS!Pool!WarmupFails("start") => WarmupFails("start")
      BY DEF WarmupFails, TLS!Pool!WarmupFails
    <2>3. ASSUME NEW c \in Conn, TLS!Pool!Warmup("start", c) PROVE Warmup("start", c)
      <3>1. /\ left["start"] > 0 /\ ~counting["start"] /\ Fresh(c)
            /\ where' = [where EXCEPT ![c] = IF Room THEN "idle" ELSE "gone"]
            /\ counting' = [counting EXCEPT !["start"] = Room]
            /\ left' = IF Room THEN left ELSE [left EXCEPT !["start"] = @ - 1]
        BY <2>3, Zenon DEF TLS!Pool!Warmup
      <3>2. QED
        BY <2>3, <3>1 DEF Warmup, TLS!Pool!Warmup
    <2>4. QED
      BY <2>1, <2>2, <2>3 DEF TLS!Warmup, WarmStep
  <1>4. TLS!cleanupLoop => cleanupTick \/ CleanStep \/ closeAll
    <2>1. TLS!Pool!cleanupTick => cleanupTick
      BY DEF cleanupTick, TLS!Pool!cleanupTick
    <2>2. TLS!Pool!CleanEnd => CleanEnd
      BY DEF CleanEnd, TLS!Pool!CleanEnd
    <2>3. TLS!Pool!closeAll => closeAll
      BY DEF closeAll, TLS!Pool!closeAll
    <2>4. QED
      BY <2>1, <2>2, <2>3 DEF TLS!cleanupLoop, CleanStep
  <1>5. TLS!cleanupExpiried => CleanStep
    <2>1. TLS!Pool!CleanKeep => CleanKeep
      BY DEF CleanKeep, TLS!Pool!CleanKeep
    <2>2. TLS!Pool!CleanDrop => CleanDrop
      BY DEF CleanDrop, TLS!Pool!CleanDrop
    <2>3. \A c \in Conn : TLS!Pool!CleanTake(c) => CleanTake(c)
      BY DEF CleanTake, TLS!Pool!CleanTake
    <2>4. QED
      BY <2>1, <2>2, <2>3 DEF TLS!cleanupExpiried, CleanStep
  <1>6. TLS!adjustPoolSizeNow => adjustPoolSizeNow
    BY DEF adjustPoolSizeNow, TLS!adjustPoolSizeNow, TLS!Pool!adjustPoolSizeNow
  <1>7. TLS!Close => Close \/ CloseReturns
    BY DEF Close, CloseReturns, TLS!Close, TLS!Pool!Close, TLS!Pool!CloseReturns
  <1>8. \A c \in Conn : TLS!Pool!RemoteClose(c) => RemoteClose(c)
    BY DEF RemoteClose, TLS!Pool!RemoteClose
  <1>9. "start" \in Warmer
    BY DEF Warmer
  <1>10. QED
    BY <1>1, <1>2, <1>3, <1>4, <1>5, <1>6, <1>7, <1>8, <1>9 DEF Next, TLS!Next

\* A request to a DoT server never returns somebody else's answer, although
\* exchangeOnConnection compares no ids, and its pool counts exactly as well.
THEOREM TLSPoolCorrect == TLSSpec => [](OwnReply /\ Accounted)
  <1>1. network = "tls" /\ [TLS!Next /\ UNCHANGED network]_vars =>
            [Next]_vars /\ (network = "tls")'
    BY TLSStep DEF vars
  <1>2. TLSSpec => Spec
    BY <1>1, PTL DEF TLSSpec, Spec
  <1>3. QED
    BY <1>2, RepliesAreOwn, CountIsExact, PTL
=============================================================================
