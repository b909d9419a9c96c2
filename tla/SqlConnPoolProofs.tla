------------------------- MODULE SqlConnPoolProofs -------------------------
(***************************************************************************)
(* Proofs about SqlConnPool: the permits of the semaphore and the queue    *)
(* agree, the pool never grows and shrinks only with the drops of the      *)
(* database, no connection is used twice at a time, and nested guards      *)
(* wedge it only when it has no more connections than there are workers.   *)
(***************************************************************************)
EXTENDS SqlConnPool, FiniteSetTheorems, FunctionTheorems, TLAPS

USE WorkersAssumption, PoolSizeAssumption, MaxDropsAssumption

\* The types of the pool, the guards and the workers that use them.
LEMMA TypedCorrect == Spec => []Typed
<1>1. Init => Typed
  <2> SUFFICES ASSUME Init PROVE Typed OBVIOUS
  <2>1. conn_queue_ \in Seq(Conn) BY DEF Init, Conn, NoConn
  <2> QED BY <2>1 DEF Init, Typed, NoConn, TaskKinds
<1>2. Typed /\ [Next]_vars => Typed'
  <2> SUFFICES ASSUME Typed, [Next]_vars PROVE Typed' OBVIOUS
  <2> USE DEF Typed, NoConn, TaskKinds
  <2>1. ASSUME NEW w \in Workers, NEW k \in TaskKinds, Begin(w, k) PROVE Typed'
    BY <2>1 DEF Begin
  <2>2. ASSUME NEW w \in Workers, TryAcquire(w) PROVE Typed'
    <3>1. smph' \in Nat BY <2>2 DEF TryAcquire
    <3>2. pc' \in [Workers -> {"idle", "get", "wait", "pop", "check", "run", "unwind"}]
      BY <2>2 DEF TryAcquire
    <3> QED BY <2>2, <3>1, <3>2 DEF TryAcquire
  <2>3. ASSUME NEW w \in Workers, Acquire(w) PROVE Typed' BY <2>3 DEF Acquire
  <2>4. ASSUME NEW w \in Workers, PopConn(w) PROVE Typed'
    <3>1. CASE conn_queue_ = <<>> BY <2>4, <3>1 DEF PopConn
    <3>2. CASE conn_queue_ # <<>>
      <4>1. Head(conn_queue_) \in Nat /\ Tail(conn_queue_) \in Seq(Conn)
        BY <3>2 DEF Conn
      <4> QED BY <2>4, <3>2, <4>1 DEF PopConn
    <3> QED BY <3>1, <3>2
  <2>5. ASSUME NEW w \in Workers, CheckValid(w) PROVE Typed' BY <2>5 DEF CheckValid, Install
  <2>6. ASSUME NEW w \in Workers, CheckReconnect(w) PROVE Typed'
    BY <2>6 DEF CheckReconnect, Install
  <2>7. ASSUME NEW w \in Workers, CheckConnectFails(w) PROVE Typed'
    BY <2>7 DEF CheckConnectFails
  <2>8. ASSUME NEW w \in Workers, Revalidate(w) PROVE Typed'
    <3>1. outer' \in [Workers -> Nat] /\ inner' \in [Workers -> Nat]
      <4>1. CASE stage[w] = "inner" BY <2>8, <4>1 DEF Revalidate
      <4>2. CASE stage[w] # "inner" BY <2>8, <4>2 DEF Revalidate
      <4> QED BY <4>1, <4>2
    <3>2. pc' \in [Workers -> {"idle", "get", "wait", "pop", "check", "run", "unwind"}]
      BY <2>8 DEF Revalidate
    <3> QED BY <2>8, <3>1, <3>2 DEF Revalidate
  <2>9. ASSUME NEW w \in Workers, ExecuteNoSchema(w) PROVE Typed' BY <2>9 DEF ExecuteNoSchema
  <2>10. ASSUME NEW w \in Workers, OpenInner(w) PROVE Typed' BY <2>10 DEF OpenInner
  <2>11. ASSUME NEW c \in Nat, Destroy(c)
         PROVE  smph' \in Nat /\ conn_queue_' \in Seq(Conn)
    <3>1. CASE c \in valid
      <4>1. c \in Conn BY <3>1 DEF Conn
      <4>2. conn_queue_' = Append(conn_queue_, c) /\ smph' = smph + 1
        BY <2>11, <3>1 DEF Destroy, freeConn
      <4>3. Append(conn_queue_, c) \in Seq(Conn) BY <4>1
      <4> QED BY <4>2, <4>3
    <3>2. CASE c \notin valid BY <2>11, <3>2 DEF Destroy
    <3> QED BY <3>1, <3>2
  <2>12. ASSUME NEW w \in Workers, CloseInner(w) PROVE Typed' BY <2>11, <2>12 DEF CloseInner
  <2>13. ASSUME NEW w \in Workers, CloseOuter(w) PROVE Typed' BY <2>11, <2>13 DEF CloseOuter
  <2>14. ASSUME NEW c \in 1..made, Drop(c) PROVE Typed' BY <2>14 DEF Drop
  <2>15. CASE UNCHANGED vars BY <2>15 DEF vars
  <2> QED BY <2>1, <2>2, <2>3, <2>4, <2>5, <2>6, <2>7, <2>8, <2>9, <2>10, <2>12, <2>13,
             <2>14, <2>15 DEF Next, Step
<1> QED BY <1>1, <1>2, PTL DEF Spec

-----------------------------------------------------------------------------
\* Cardinalities of the sets of workers, and how one worker changes them.
LEMMA WorkerSets ==
  ASSUME NEW S, S \subseteq Workers
  PROVE  /\ IsFiniteSet(S)
         /\ Cardinality(S) \in Nat
         /\ Cardinality(S) <= Cardinality(Workers)
         /\ \A w \in Workers \ S : Cardinality(S \cup {w}) = Cardinality(S) + 1
         /\ \A w \in S : Cardinality(S \ {w}) = Cardinality(S) - 1 /\ Cardinality(S) > 0
<1>1. IsFiniteSet(S) /\ Cardinality(S) <= Cardinality(Workers) BY FS_Subset
<1>2. Cardinality(S) \in Nat BY <1>1, FS_CardinalityType
<1>3. \A w \in Workers \ S : Cardinality(S \cup {w}) = Cardinality(S) + 1
  BY <1>1, FS_AddElement
<1>4. ASSUME NEW w \in S PROVE Cardinality(S \ {w}) = Cardinality(S) - 1 /\ Cardinality(S) > 0
  <2>1. Cardinality(S \ {w}) = Cardinality(S) - 1 BY <1>1, FS_RemoveElement
  <2>2. Cardinality(S) # 0 BY <1>1, FS_EmptySet
  <2> QED BY <2>1, <2>2, <1>2
<1> QED BY <1>1, <1>2, <1>3, <1>4

\* ~SqlConnRAII() gives back a permit exactly when it gives back a connection.
LEMMA DestroyBalanced ==
  ASSUME Typed, NEW c \in Nat, Destroy(c)
  PROVE  \/ smph' = smph /\ Len(conn_queue_') = Len(conn_queue_)
         \/ c \in valid /\ smph' = smph + 1 /\ Len(conn_queue_') = Len(conn_queue_) + 1
BY DEF Typed, Destroy, freeConn, Conn

\* The permits of smph_ and the connections of conn_queue_ agree at every step of
\* getConn(), getSql() and freeConn(), for any number of workers, connections
\* and drops.
THEOREM PermitsCorrect == Spec => []PermitsMatchQueue
<1>1. Init => PermitsMatchQueue
  <2> SUFFICES ASSUME Init PROVE PermitsMatchQueue OBVIOUS
  <2>1. Popping = {} BY DEF Init, Popping
  <2>2. Len(conn_queue_) = PoolSize BY DEF Init
  <2> QED BY <2>1, <2>2, FS_EmptySet DEF PermitsMatchQueue, Init
<1>2. Typed /\ PermitsMatchQueue /\ [Next]_vars => PermitsMatchQueue'
  <2> SUFFICES ASSUME Typed, PermitsMatchQueue, [Next]_vars PROVE PermitsMatchQueue' OBVIOUS
  <2>0. Popping \subseteq Workers /\ Cardinality(Popping) \in Nat /\ Len(conn_queue_) \in Nat
        /\ smph \in Nat
    BY WorkerSets DEF Popping, Typed
  <2>q. ASSUME smph' = smph, conn_queue_' = conn_queue_, Popping' = Popping
        PROVE  PermitsMatchQueue'
    BY <2>q DEF PermitsMatchQueue
  <2>1. ASSUME NEW w \in Workers, NEW k \in TaskKinds, Begin(w, k) PROVE PermitsMatchQueue'
    BY <2>1, <2>q DEF Begin, Popping, Typed
  <2>a. ASSUME NEW w \in Workers, pc[w] # "pop", smph > 0, smph' = smph - 1,
               pc' = [pc EXCEPT ![w] = "pop"], conn_queue_' = conn_queue_
        PROVE  PermitsMatchQueue'
    <3>1. Popping' = Popping \cup {w} /\ w \notin Popping BY <2>a DEF Popping, Typed
    <3>2. Cardinality(Popping') = Cardinality(Popping) + 1 BY <3>1, <2>0, WorkerSets
    <3> QED BY <2>0, <2>a, <3>2 DEF PermitsMatchQueue
  <2>2. ASSUME NEW w \in Workers, TryAcquire(w) PROVE PermitsMatchQueue'
    <3>1. CASE smph > 0 BY <2>2, <2>a, <3>1, <2>0 DEF TryAcquire
    <3>2. CASE smph = 0
      BY <2>2, <2>q, <3>2 DEF TryAcquire, Popping, Typed
    <3> QED BY <3>1, <3>2, <2>0
  <2>3. ASSUME NEW w \in Workers, Acquire(w) PROVE PermitsMatchQueue' BY <2>3, <2>a DEF Acquire
  <2>4. ASSUME NEW w \in Workers, PopConn(w) PROVE PermitsMatchQueue'
    <3>1. w \in Popping BY <2>4 DEF PopConn, Popping
    <3>2. Cardinality(Popping) > 0 BY <3>1, <2>0, WorkerSets
    <3>3. conn_queue_ # <<>> BY <3>2, <2>0 DEF PermitsMatchQueue
    <3>4. Popping' = Popping \ {w} BY <2>4, <3>3 DEF PopConn, Popping, Typed
    <3>5. Cardinality(Popping') = Cardinality(Popping) - 1 BY <3>1, <3>4, <2>0, WorkerSets
    <3>6. Len(conn_queue_') = Len(conn_queue_) - 1 BY <2>4, <3>3 DEF PopConn, Typed
    <3>7. smph' = smph BY <2>4 DEF PopConn
    <3> QED BY <2>0, <3>5, <3>6, <3>7 DEF PermitsMatchQueue
  <2>5. ASSUME NEW w \in Workers, CheckValid(w) PROVE PermitsMatchQueue'
    BY <2>5, <2>q DEF CheckValid, Install, Popping, Typed
  <2>6. ASSUME NEW w \in Workers, CheckReconnect(w) PROVE PermitsMatchQueue'
    BY <2>6, <2>q DEF CheckReconnect, Install, Popping, Typed
  <2>7. ASSUME NEW w \in Workers, CheckConnectFails(w) PROVE PermitsMatchQueue'
    BY <2>7, <2>q DEF CheckConnectFails, Popping, Typed
  <2>8. ASSUME NEW w \in Workers, Revalidate(w) PROVE PermitsMatchQueue'
    BY <2>8, <2>q DEF Revalidate, Popping, Typed
  <2>9. ASSUME NEW w \in Workers, ExecuteNoSchema(w) PROVE PermitsMatchQueue'
    BY <2>9, <2>q DEF ExecuteNoSchema, Popping, Typed
  <2>10. ASSUME NEW w \in Workers, OpenInner(w) PROVE PermitsMatchQueue'
    BY <2>10, <2>q DEF OpenInner, Popping, Typed
  <2>d. ASSUME NEW c \in Nat, Destroy(c), Popping' = Popping PROVE PermitsMatchQueue'
    BY <2>d, <2>0, DestroyBalanced DEF PermitsMatchQueue
  <2>11. ASSUME NEW w \in Workers, CloseInner(w) PROVE PermitsMatchQueue'
    <3>1. Popping' = Popping BY <2>11 DEF CloseInner, Popping
    <3>2. inner[w] \in Nat /\ Destroy(inner[w]) BY <2>11 DEF CloseInner, Typed
    <3> QED BY <3>1, <3>2, <2>d
  <2>12. ASSUME NEW w \in Workers, CloseOuter(w) PROVE PermitsMatchQueue'
    <3>1. Popping' = Popping BY <2>12 DEF CloseOuter, Popping, Typed
    <3>2. outer[w] \in Nat /\ Destroy(outer[w]) BY <2>12 DEF CloseOuter, Typed
    <3> QED BY <3>1, <3>2, <2>d
  <2>13. ASSUME NEW c \in 1..made, Drop(c) PROVE PermitsMatchQueue'
    BY <2>13, <2>q DEF Drop, Popping
  <2>14. CASE UNCHANGED vars BY <2>14, <2>q DEF vars, Popping
  <2> QED BY <2>1, <2>2, <2>3, <2>4, <2>5, <2>6, <2>7, <2>8, <2>9, <2>10, <2>11, <2>12,
             <2>13, <2>14 DEF Next, Step
<1> QED BY <1>1, <1>2, TypedCorrect, PTL DEF Spec

\* The "CRITICAL" branch of getSql() is never taken: a worker that has a permit
\* finds a connection in the queue.
THEOREM PopNeverEmptyCorrect == Spec => []PopNeverEmpty
<1>1. Typed /\ PermitsMatchQueue => PopNeverEmpty
  <2> SUFFICES ASSUME Typed, PermitsMatchQueue, NEW w \in Popping PROVE conn_queue_ # <<>>
    BY DEF PopNeverEmpty
  <2>1. Popping \subseteq Workers BY DEF Popping
  <2>2. Cardinality(Popping) \in Nat /\ Cardinality(Popping) > 0 BY <2>1, WorkerSets
  <2> QED BY <2>2 DEF PermitsMatchQueue, Typed
<1> QED BY <1>1, TypedCorrect, PermitsCorrect, PTL

-----------------------------------------------------------------------------
\* getConn() always starts with the calling guard empty, and a guard is empty
\* once it is out of scope.
LEMMA FramesCorrect == Spec => []FramesAgree
<1>1. Init => FramesAgree BY DEF Init, FramesAgree, Current
<1>2. Typed /\ FramesAgree /\ [Next]_vars => FramesAgree'
  <2> SUFFICES ASSUME Typed, FramesAgree, [Next]_vars PROVE FramesAgree' OBVIOUS
  <2>c. NoConn \notin valid BY DEF Typed, NoConn
  <2> USE DEF Typed, FramesAgree, Current, TaskKinds
  <2>1. ASSUME NEW w \in Workers, NEW k \in TaskKinds, Begin(w, k) PROVE FramesAgree'
    BY <2>1 DEF Begin
  <2>2. ASSUME NEW w \in Workers, TryAcquire(w) PROVE FramesAgree'
    <3>1. pc' \in {[pc EXCEPT ![w] = "pop"], [pc EXCEPT ![w] = "wait"]} BY <2>2 DEF TryAcquire
    <3> QED BY <2>2, <3>1 DEF TryAcquire
  <2>3. ASSUME NEW w \in Workers, Acquire(w) PROVE FramesAgree' BY <2>3 DEF Acquire
  <2>4. ASSUME NEW w \in Workers, PopConn(w) PROVE FramesAgree'
    <3>1. CASE conn_queue_ = <<>>
      <4>1. pc' = [pc EXCEPT ![w] = "unwind"] /\ UNCHANGED <<task, stage, got, outer, inner>>
        BY <2>4, <3>1 DEF PopConn
      <4>2. pc[w] = "pop" BY <2>4 DEF PopConn
      <4> QED BY <4>1, <4>2
    <3>2. CASE conn_queue_ # <<>>
      <4>1. Head(conn_queue_) # NoConn BY <3>2 DEF Conn
      <4> QED BY <2>4, <3>2, <4>1 DEF PopConn
    <3> QED BY <3>1, <3>2
  <2>5. ASSUME NEW w \in Workers, CheckValid(w) PROVE FramesAgree'
    BY <2>5, <2>c DEF CheckValid, Install
  <2>6. ASSUME NEW w \in Workers, CheckReconnect(w) PROVE FramesAgree'
    <3>1. made + 1 # NoConn BY DEF NoConn
    <3>2. CASE stage[w] = "inner" BY <2>6, <3>1, <3>2 DEF CheckReconnect, Install
    <3>3. CASE stage[w] # "inner" BY <2>6, <3>1, <3>3 DEF CheckReconnect, Install
    <3> QED BY <3>2, <3>3
  <2>7. ASSUME NEW w \in Workers, CheckConnectFails(w) PROVE FramesAgree'
    BY <2>7 DEF CheckConnectFails
  <2>8. ASSUME NEW w \in Workers, Revalidate(w) PROVE FramesAgree'
    <3>1. CASE stage[w] = "inner" BY <2>8, <3>1 DEF Revalidate
    <3>2. CASE stage[w] # "inner" BY <2>8, <3>2 DEF Revalidate
    <3> QED BY <3>1, <3>2
  <2>9. ASSUME NEW w \in Workers, ExecuteNoSchema(w) PROVE FramesAgree'
    BY <2>9 DEF ExecuteNoSchema
  <2>10. ASSUME NEW w \in Workers, OpenInner(w) PROVE FramesAgree' BY <2>10 DEF OpenInner
  <2>11. ASSUME NEW w \in Workers, CloseInner(w) PROVE FramesAgree' BY <2>11 DEF CloseInner
  <2>12. ASSUME NEW w \in Workers, CloseOuter(w) PROVE FramesAgree' BY <2>12 DEF CloseOuter
  <2>13. ASSUME NEW c \in 1..made, Drop(c) PROVE FramesAgree' BY <2>13 DEF Drop
  <2>14. CASE UNCHANGED vars BY <2>14 DEF vars
  <2> QED BY <2>1, <2>2, <2>3, <2>4, <2>5, <2>6, <2>7, <2>8, <2>9, <2>10, <2>11, <2>12,
             <2>13, <2>14 DEF Next, Step
<1> QED BY <1>1, <1>2, TypedCorrect, PTL DEF Spec

\* Type correctness, with what a worker's program counter, task and stage say of the
\* connections it holds: every guard a statement runs on has a connection, and no
\* connection stays behind in a guard that is gone or about to be filled again.
THEOREM TypeCorrect == Spec => []TypeOK
BY TypedCorrect, FramesCorrect, PTL DEF TypeOK

\* The hold-and-wait of handle_message and write_to_room can wedge the pool only
\* when it has at most as many connections left as there are workers: a pool
\* larger than the thread pool is safe for every size of the two.
THEOREM WedgeCorrect == Spec => []WedgeOnlyWhenShort
<1>1. Typed /\ PermitsMatchQueue /\ FramesAgree => WedgeOnlyWhenShort
  <2> SUFFICES ASSUME Typed, PermitsMatchQueue, FramesAgree, Wedged
               PROVE  Capacity <= Cardinality(Workers)
    BY DEF WedgeOnlyWhenShort
  <2>1. Popping = {} /\ Checking = {} /\ HasInner = {}
    BY DEF Wedged, Popping, Checking, HasInner, FramesAgree
  <2>2. Len(conn_queue_) = 0 BY <2>1, FS_EmptySet DEF PermitsMatchQueue, Wedged, Typed
  <2>3. HasOuter \subseteq Workers BY DEF HasOuter
  <2>4. Cardinality(HasOuter) \in Nat /\ Cardinality(HasOuter) <= Cardinality(Workers)
    BY <2>3, WorkerSets
  <2>5. Cardinality(Checking) = 0 /\ Cardinality(HasInner) = 0 BY <2>1, FS_EmptySet
  <2> QED BY <2>2, <2>4, <2>5 DEF Capacity
<1> QED BY <1>1, TypedCorrect, PermitsCorrect, FramesCorrect, PTL

-----------------------------------------------------------------------------
\* No path makes the pool larger than init() made it.
PoolNeverGrows == Capacity <= PoolSize

\* A step that moves a connection, or loses one, does not raise the capacity.
LEMMA CapacityStep ==
  ASSUME Typed, PoolNeverGrows,
         conn_queue_' \in Seq(Conn),
         Checking' \subseteq Workers, HasOuter' \subseteq Workers, HasInner' \subseteq Workers,
         Len(conn_queue_') + Cardinality(Checking') + Cardinality(HasOuter')
           + Cardinality(HasInner')
         <= Len(conn_queue_) + Cardinality(Checking) + Cardinality(HasOuter)
           + Cardinality(HasInner)
  PROVE  PoolNeverGrows'
<1>1. Checking \subseteq Workers /\ HasOuter \subseteq Workers /\ HasInner \subseteq Workers
  BY DEF Checking, HasOuter, HasInner
<1>2. /\ Cardinality(Checking) \in Nat /\ Cardinality(HasOuter) \in Nat
      /\ Cardinality(HasInner) \in Nat
  BY <1>1, WorkerSets
<1>3. /\ Cardinality(Checking') \in Nat /\ Cardinality(HasOuter') \in Nat
      /\ Cardinality(HasInner') \in Nat
  BY WorkerSets
<1>4. Len(conn_queue_) \in Nat /\ Len(conn_queue_') \in Nat BY DEF Typed
<1> QED BY <1>2, <1>3, <1>4 DEF PoolNeverGrows, Capacity

\* The pool never holds more connections than init() created, whatever is
\* replaced by getSql() or leaked by the guards.
THEOREM PoolNeverGrowsCorrect == Spec => []PoolNeverGrows
<1>1. Init => PoolNeverGrows
  <2> SUFFICES ASSUME Init PROVE PoolNeverGrows OBVIOUS
  <2>1. Checking = {} /\ HasOuter = {} /\ HasInner = {}
    BY DEF Init, Checking, HasOuter, HasInner
  <2>2. Len(conn_queue_) = PoolSize BY DEF Init
  <2> QED BY <2>1, <2>2, FS_EmptySet DEF PoolNeverGrows, Capacity
<1>2. Typed /\ Typed' /\ FramesAgree /\ PoolNeverGrows /\ [Next]_vars => PoolNeverGrows'
  <2> SUFFICES ASSUME Typed, Typed', FramesAgree, PoolNeverGrows, [Next]_vars
               PROVE  PoolNeverGrows'
    OBVIOUS
  <2>0. /\ Checking \subseteq Workers /\ HasOuter \subseteq Workers /\ HasInner \subseteq Workers
        /\ Checking' \subseteq Workers /\ HasOuter' \subseteq Workers
        /\ HasInner' \subseteq Workers
    BY DEF Checking, HasOuter, HasInner
  <2>n. /\ Cardinality(Checking) \in Nat /\ Cardinality(HasOuter) \in Nat
        /\ Cardinality(HasInner) \in Nat /\ Len(conn_queue_) \in Nat
        /\ conn_queue_' \in Seq(Conn)
    BY <2>0, WorkerSets DEF Typed
  <2>q. ASSUME UNCHANGED <<conn_queue_, got, outer, inner>> PROVE PoolNeverGrows'
    BY <2>q DEF PoolNeverGrows, Capacity, Checking, HasOuter, HasInner
  <2>1. ASSUME NEW w \in Workers, NEW k \in TaskKinds, Begin(w, k) PROVE PoolNeverGrows'
    BY <2>1, <2>q DEF Begin
  <2>2. ASSUME NEW w \in Workers, TryAcquire(w) PROVE PoolNeverGrows'
    BY <2>2, <2>q DEF TryAcquire
  <2>3. ASSUME NEW w \in Workers, Acquire(w) PROVE PoolNeverGrows' BY <2>3, <2>q DEF Acquire
  <2>4. ASSUME NEW w \in Workers, PopConn(w) PROVE PoolNeverGrows'
    <3>1. CASE conn_queue_ = <<>> BY <2>4, <3>1, <2>q DEF PopConn
    <3>2. CASE conn_queue_ # <<>>
      <4>1. got[w] = NoConn BY <2>4 DEF PopConn, FramesAgree
      <4>2. Head(conn_queue_) # NoConn BY <3>2 DEF Typed, Conn
      <4>3. Checking' = Checking \cup {w} /\ w \in Workers \ Checking
        BY <2>4, <3>2, <4>1, <4>2 DEF PopConn, Checking, Typed
      <4>4. Cardinality(Checking') = Cardinality(Checking) + 1 BY <4>3, <2>0, WorkerSets
      <4>5. HasOuter' = HasOuter /\ HasInner' = HasInner BY <2>4 DEF PopConn, HasOuter, HasInner
      <4>6. Len(conn_queue_') = Len(conn_queue_) - 1 BY <2>4, <3>2 DEF PopConn, Typed
      <4> QED BY <2>0, <2>n, <4>4, <4>5, <4>6, CapacityStep
    <3> QED BY <3>1, <3>2
  <2>i. ASSUME NEW w \in Workers, NEW c \in Nat, c # NoConn, pc[w] = "check", Install(w, c),
               UNCHANGED conn_queue_
        PROVE  PoolNeverGrows'
    <3>1. w \in Checking BY <2>i DEF FramesAgree, Checking
    <3>2. Checking' = Checking \ {w} BY <2>i DEF Install, Checking, Typed
    <3>3. Cardinality(Checking') = Cardinality(Checking) - 1 BY <3>1, <3>2, <2>0, WorkerSets
    <3>4. CASE stage[w] = "inner"
      <4>1. w \in Workers \ HasInner BY <2>i DEF FramesAgree, HasInner
      <4>2. HasInner' = HasInner \cup {w} /\ HasOuter' = HasOuter
        BY <2>i, <3>4 DEF Install, HasInner, HasOuter, Typed
      <4>3. Cardinality(HasInner') = Cardinality(HasInner) + 1 BY <4>1, <4>2, <2>0, WorkerSets
      <4> QED BY <2>0, <2>i, <2>n, <3>3, <4>2, <4>3, CapacityStep
    <3>5. CASE stage[w] # "inner"
      <4>1. w \in Workers \ HasOuter BY <2>i, <3>5 DEF FramesAgree, HasOuter
      <4>2. HasOuter' = HasOuter \cup {w} /\ HasInner' = HasInner
        BY <2>i, <3>5 DEF Install, HasInner, HasOuter, Typed
      <4>3. Cardinality(HasOuter') = Cardinality(HasOuter) + 1 BY <4>1, <4>2, <2>0, WorkerSets
      <4> QED BY <2>0, <2>i, <2>n, <3>3, <4>2, <4>3, CapacityStep
    <3> QED BY <3>4, <3>5
  <2>5. ASSUME NEW w \in Workers, CheckValid(w) PROVE PoolNeverGrows'
    <3>1. got[w] \in Nat /\ got[w] # NoConn BY <2>5 DEF CheckValid, Typed, FramesAgree
    <3> QED BY <2>5, <2>i, <3>1 DEF CheckValid
  <2>6. ASSUME NEW w \in Workers, CheckReconnect(w) PROVE PoolNeverGrows'
    <3>1. made + 1 \in Nat /\ made + 1 # NoConn BY DEF Typed, NoConn
    <3> QED BY <2>6, <2>i, <3>1 DEF CheckReconnect
  <2>7. ASSUME NEW w \in Workers, CheckConnectFails(w) PROVE PoolNeverGrows'
    <3>1. w \in Checking BY <2>7 DEF CheckConnectFails, FramesAgree, Checking
    <3>2. Checking' = Checking \ {w} /\ HasOuter' = HasOuter /\ HasInner' = HasInner
      BY <2>7 DEF CheckConnectFails, Checking, HasOuter, HasInner, Typed
    <3>3. Cardinality(Checking') = Cardinality(Checking) - 1 BY <3>1, <3>2, <2>0, WorkerSets
    <3>4. conn_queue_' = conn_queue_ BY <2>7 DEF CheckConnectFails
    <3> QED BY <2>0, <2>n, <3>2, <3>3, <3>4, CapacityStep
  <2>o. ASSUME NEW w \in Workers, outer' = [outer EXCEPT ![w] = NoConn], UNCHANGED <<got, inner>>,
               \/ Len(conn_queue_') = Len(conn_queue_)
               \/ outer[w] # NoConn /\ Len(conn_queue_') = Len(conn_queue_) + 1
        PROVE  PoolNeverGrows'
    <3>1. HasOuter' = HasOuter \ {w} /\ Checking' = Checking /\ HasInner' = HasInner
      BY <2>o DEF HasOuter, HasInner, Checking, Typed
    <3>2. CASE w \in HasOuter
      <4>1. Cardinality(HasOuter') = Cardinality(HasOuter) - 1 BY <3>1, <3>2, <2>0, WorkerSets
      <4>2. Len(conn_queue_') <= Len(conn_queue_) + 1 BY <2>n, <2>o
      <4>3. Len(conn_queue_') \in Nat BY <2>n
      <4>4. Len(conn_queue_') + Cardinality(Checking') + Cardinality(HasOuter')
              + Cardinality(HasInner')
            <= Len(conn_queue_) + Cardinality(Checking) + Cardinality(HasOuter)
              + Cardinality(HasInner)
        BY <2>n, <3>1, <4>1, <4>2, <4>3
      <4> QED BY <2>0, <2>n, <4>4, CapacityStep
    <3>3. CASE w \notin HasOuter
      <4>1. HasOuter' = HasOuter /\ Len(conn_queue_') = Len(conn_queue_)
        BY <2>o, <3>1, <3>3 DEF HasOuter
      <4> QED BY <3>1, <4>1 DEF PoolNeverGrows, Capacity
    <3> QED BY <3>2, <3>3
  <2>p. ASSUME NEW w \in Workers, inner' = [inner EXCEPT ![w] = NoConn], UNCHANGED <<got, outer>>,
               \/ Len(conn_queue_') = Len(conn_queue_)
               \/ inner[w] # NoConn /\ Len(conn_queue_') = Len(conn_queue_) + 1
        PROVE  PoolNeverGrows'
    <3>1. HasInner' = HasInner \ {w} /\ Checking' = Checking /\ HasOuter' = HasOuter
      BY <2>p DEF HasOuter, HasInner, Checking, Typed
    <3>2. CASE w \in HasInner
      <4>1. Cardinality(HasInner') = Cardinality(HasInner) - 1 BY <3>1, <3>2, <2>0, WorkerSets
      <4>2. Len(conn_queue_') <= Len(conn_queue_) + 1 BY <2>n, <2>p
      <4>3. Len(conn_queue_') \in Nat BY <2>n
      <4>4. Len(conn_queue_') + Cardinality(Checking') + Cardinality(HasOuter')
              + Cardinality(HasInner')
            <= Len(conn_queue_) + Cardinality(Checking) + Cardinality(HasOuter)
              + Cardinality(HasInner)
        BY <2>n, <3>1, <4>1, <4>2, <4>3
      <4> QED BY <2>0, <2>n, <4>4, CapacityStep
    <3>3. CASE w \notin HasInner
      <4>1. HasInner' = HasInner /\ Len(conn_queue_') = Len(conn_queue_)
        BY <2>p, <3>1, <3>3 DEF HasInner
      <4> QED BY <3>1, <4>1 DEF PoolNeverGrows, Capacity
    <3> QED BY <3>2, <3>3
  <2>8. ASSUME NEW w \in Workers, Revalidate(w) PROVE PoolNeverGrows'
    <3>1. CASE stage[w] = "inner" BY <2>8, <3>1, <2>p DEF Revalidate
    <3>2. CASE stage[w] # "inner" BY <2>8, <3>2, <2>o DEF Revalidate
    <3> QED BY <3>1, <3>2
  <2>9. ASSUME NEW w \in Workers, ExecuteNoSchema(w) PROVE PoolNeverGrows'
    BY <2>9, <2>q DEF ExecuteNoSchema
  <2>10. ASSUME NEW w \in Workers, OpenInner(w) PROVE PoolNeverGrows' BY <2>10, <2>q DEF OpenInner
  <2>v. NoConn \notin valid BY DEF Typed, NoConn
  <2>11. ASSUME NEW w \in Workers, CloseInner(w) PROVE PoolNeverGrows'
    <3>1. inner[w] \in Nat /\ Destroy(inner[w]) BY <2>11 DEF CloseInner, Typed
    <3> QED BY <2>11, <2>p, <2>v, <3>1, DestroyBalanced DEF CloseInner
  <2>12. ASSUME NEW w \in Workers, CloseOuter(w) PROVE PoolNeverGrows'
    <3>1. outer[w] \in Nat /\ Destroy(outer[w]) BY <2>12 DEF CloseOuter, Typed
    <3> QED BY <2>12, <2>o, <2>v, <3>1, DestroyBalanced DEF CloseOuter
  <2>13. ASSUME NEW c \in 1..made, Drop(c) PROVE PoolNeverGrows' BY <2>13, <2>q DEF Drop
  <2>14. CASE UNCHANGED vars BY <2>14, <2>q DEF vars
  <2> QED BY <2>1, <2>2, <2>3, <2>4, <2>5, <2>6, <2>7, <2>8, <2>9, <2>10, <2>11, <2>12,
             <2>13, <2>14 DEF Next, Step
<1> QED BY <1>1, <1>2, TypedCorrect, FramesCorrect, PTL DEF Spec

\* freeConn() never releases more permits than smph_ was created with.
THEOREM PermitBoundCorrect == Spec => []PermitBound
<1>1. Typed /\ PermitsMatchQueue /\ PoolNeverGrows => PermitBound
  <2> SUFFICES ASSUME Typed, PermitsMatchQueue, PoolNeverGrows PROVE PermitBound OBVIOUS
  <2>1. /\ Popping \subseteq Workers /\ Checking \subseteq Workers
        /\ HasOuter \subseteq Workers /\ HasInner \subseteq Workers
    BY DEF Popping, Checking, HasOuter, HasInner
  <2>2. /\ Cardinality(Popping) \in Nat /\ Cardinality(Checking) \in Nat
        /\ Cardinality(HasOuter) \in Nat /\ Cardinality(HasInner) \in Nat
    BY <2>1, WorkerSets
  <2>3. Len(conn_queue_) \in Nat /\ smph \in Nat BY DEF Typed
  <2> QED BY <2>2, <2>3 DEF PermitsMatchQueue, PoolNeverGrows, Capacity, PermitBound
<1> QED BY <1>1, TypedCorrect, PermitsCorrect, PoolNeverGrowsCorrect, PTL

-----------------------------------------------------------------------------
(***************************************************************************)
(* Exclusive use of the connections                                        *)
(***************************************************************************)

\* The queue holds connections that were made, each once.
QueueOnce ==
  /\ \A i \in 1..Len(conn_queue_) : conn_queue_[i] \in 1..made
  /\ \A i, j \in 1..Len(conn_queue_) : conn_queue_[i] = conn_queue_[j] => i = j

\* A connection in the hands of a worker is not in the queue.
QueueApart ==
  \A i \in 1..Len(conn_queue_), w \in Workers :
    conn_queue_[i] \notin {got[w], outer[w], inner[w]}

\* ... and is in no other hand.
GuardsApart ==
  \A v, w \in Workers :
    /\ got[v] \in 0..made /\ outer[v] \in 0..made /\ inner[v] \in 0..made
    /\ got[v] # NoConn => got[v] \notin {outer[w], inner[w]}
    /\ outer[v] # NoConn => outer[v] # inner[w]
    /\ got[v] # NoConn /\ got[v] = got[w] => v = w
    /\ outer[v] # NoConn /\ outer[v] = outer[w] => v = w
    /\ inner[v] # NoConn /\ inner[v] = inner[w] => v = w

ExclInv == QueueOnce /\ QueueApart /\ GuardsApart

\* Workers let connections go, and nothing else happens.
LetGo ==
  \A w \in Workers :
    got'[w] \in {got[w], NoConn} /\ outer'[w] \in {outer[w], NoConn}
    /\ inner'[w] \in {inner[w], NoConn}

\* Guards that let go of connections stay apart.
LEMMA LetGoGuards ==
  ASSUME made \in Nat, made' = made, GuardsApart, LetGo
  PROVE  GuardsApart'
BY DEF GuardsApart, LetGo, NoConn

\* Letting go of a connection without a push shares nothing.
LEMMA LetGoExcl ==
  ASSUME Typed, ExclInv, LetGo, UNCHANGED conn_queue_, made' = made
  PROVE  ExclInv'
<1>0. \A i \in 1..Len(conn_queue_) : conn_queue_[i] # NoConn BY DEF Typed, Conn
<1>1. QueueOnce' BY DEF ExclInv, QueueOnce
<1>2. QueueApart' BY <1>0 DEF ExclInv, QueueApart, LetGo
<1>3. made \in Nat BY DEF Typed
<1>4. GuardsApart' BY <1>3, LetGoGuards DEF ExclInv
<1> QED BY <1>1, <1>2, <1>4 DEF ExclInv

\* A connection that a worker has let go of is pushed into the queue.
LEMMA PushExcl ==
  ASSUME Typed, ExclInv, LetGo, made' = made,
         NEW c \in 1..made, conn_queue_' = Append(conn_queue_, c),
         \A i \in 1..Len(conn_queue_) : conn_queue_[i] # c,
         \A w \in Workers : c \notin {got'[w], outer'[w], inner'[w]}
  PROVE  ExclInv'
<1>0. made \in Nat /\ Len(conn_queue_) \in Nat
      /\ \A i \in 1..Len(conn_queue_) : conn_queue_[i] # NoConn
  BY DEF Typed, Conn
<1>1. /\ Len(conn_queue_') = Len(conn_queue_) + 1
      /\ \A i \in 1..Len(conn_queue_) : conn_queue_'[i] = conn_queue_[i]
      /\ conn_queue_'[Len(conn_queue_) + 1] = c
  <2>1. c \in Conn BY <1>0 DEF Conn, NoConn
  <2> QED BY <2>1 DEF Typed
<1>2. QueueOnce' BY <1>0, <1>1 DEF ExclInv, QueueOnce
<1>3. QueueApart' BY <1>0, <1>1 DEF ExclInv, QueueApart, LetGo
<1>4. GuardsApart' BY <1>0, LetGoGuards DEF ExclInv
<1> QED BY <1>2, <1>3, <1>4 DEF ExclInv

\* A connection that nobody else has is stored in a guard.
LEMMA InstallExcl ==
  ASSUME Typed, ExclInv, NEW w \in Workers, NEW c \in 1..made', Install(w, c),
         made' \in {made, made + 1}, UNCHANGED conn_queue_,
         \A i \in 1..Len(conn_queue_) : conn_queue_[i] # c,
         \A v \in Workers : c \notin {outer[v], inner[v]} /\ (v # w => c # got[v])
  PROVE  ExclInv'
<1>0. made \in Nat /\ \A i \in 1..Len(conn_queue_) : conn_queue_[i] # NoConn
  BY DEF Typed, Conn
<1>1. QueueOnce' BY <1>0 DEF ExclInv, QueueOnce
<1>2. CASE stage[w] = "inner"
  <2>1. \A v \in Workers : /\ got'[v] = IF v = w THEN NoConn ELSE got[v]
                           /\ inner'[v] = IF v = w THEN c ELSE inner[v]
                           /\ outer'[v] = outer[v]
    BY <1>2 DEF Install, Typed
  <2>2. QueueApart' BY <1>0, <2>1 DEF ExclInv, QueueApart
  <2>3. GuardsApart' BY <1>0, <2>1 DEF ExclInv, GuardsApart, NoConn
  <2> QED BY <1>1, <2>2, <2>3 DEF ExclInv
<1>3. CASE stage[w] # "inner"
  <2>1. \A v \in Workers : /\ got'[v] = IF v = w THEN NoConn ELSE got[v]
                           /\ outer'[v] = IF v = w THEN c ELSE outer[v]
                           /\ inner'[v] = inner[v]
    BY <1>3 DEF Install, Typed
  <2>2. QueueApart' BY <1>0, <2>1 DEF ExclInv, QueueApart
  <2>3. GuardsApart' BY <1>0, <2>1 DEF ExclInv, GuardsApart, NoConn
  <2> QED BY <1>1, <2>2, <2>3 DEF ExclInv
<1> QED BY <1>2, <1>3

\* No step of a worker or of the database makes two holders of one connection.
LEMMA ExclStep == Typed /\ FramesAgree /\ ExclInv /\ [Next]_vars => ExclInv'
<1> SUFFICES ASSUME Typed, FramesAgree, ExclInv, [Next]_vars PROVE ExclInv' OBVIOUS
<1>0. made \in Nat /\ valid \subseteq 1..made BY DEF Typed
<1>q. ASSUME UNCHANGED <<conn_queue_, made, got, outer, inner>> PROVE ExclInv'
  BY <1>q, LetGoExcl DEF LetGo
<1>1. ASSUME NEW w \in Workers, NEW k \in TaskKinds, Begin(w, k) PROVE ExclInv'
  BY <1>1, <1>q DEF Begin
<1>2. ASSUME NEW w \in Workers, TryAcquire(w) PROVE ExclInv' BY <1>2, <1>q DEF TryAcquire
<1>3. ASSUME NEW w \in Workers, Acquire(w) PROVE ExclInv' BY <1>3, <1>q DEF Acquire
<1>4. ASSUME NEW w \in Workers, PopConn(w) PROVE ExclInv'
  <2>1. CASE conn_queue_ = <<>> BY <1>4, <2>1, <1>q DEF PopConn
  <2>2. CASE conn_queue_ # <<>>
    <3>1. /\ conn_queue_' = Tail(conn_queue_) /\ made' = made
          /\ \A v \in Workers : /\ got'[v] = IF v = w THEN Head(conn_queue_) ELSE got[v]
                                /\ outer'[v] = outer[v] /\ inner'[v] = inner[v]
      BY <1>4, <2>2 DEF PopConn, Typed
    <3>2. Len(conn_queue_) \in Nat \ {0} BY <2>2 DEF Typed
    <3>3. /\ Len(conn_queue_') = Len(conn_queue_) - 1
          /\ \A i \in 1..Len(conn_queue_') : conn_queue_'[i] = conn_queue_[i + 1]
          /\ Head(conn_queue_) = conn_queue_[1]
      BY <2>2, <3>1 DEF Typed
    <3>4. QueueOnce'
      <4>1. \A i \in 1..Len(conn_queue_') : i + 1 \in 1..Len(conn_queue_) BY <3>2, <3>3
      <4> QED BY <3>1, <3>3, <4>1 DEF ExclInv, QueueOnce
    <3>5. QueueApart'
      <4>1. \A i \in 1..Len(conn_queue_') : i + 1 \in 1..Len(conn_queue_) /\ i + 1 # 1
        BY <3>2, <3>3
      <4>2. 1 \in 1..Len(conn_queue_) BY <3>2
      <4>3. \A i \in 1..Len(conn_queue_') : conn_queue_'[i] # conn_queue_[1]
        BY <3>3, <4>1, <4>2 DEF ExclInv, QueueOnce
      <4> QED BY <3>1, <3>3, <4>1, <4>3 DEF ExclInv, QueueApart
    <3>6. GuardsApart'
      <4>1. /\ conn_queue_[1] \in 1..made
            /\ \A v \in Workers : conn_queue_[1] \notin {got[v], outer[v], inner[v]}
        BY <3>2 DEF ExclInv, QueueOnce, QueueApart
      <4> QED BY <1>0, <3>1, <3>3, <4>1 DEF ExclInv, GuardsApart, NoConn
    <3> QED BY <3>4, <3>5, <3>6 DEF ExclInv
  <2> QED BY <2>1, <2>2
<1>5. ASSUME NEW w \in Workers, CheckValid(w) PROVE ExclInv'
  <2>1. got[w] # NoConn /\ got[w] \in 1..made BY <1>5, <1>0 DEF CheckValid, FramesAgree
  <2>2. /\ \A i \in 1..Len(conn_queue_) : conn_queue_[i] # got[w]
        /\ \A v \in Workers : got[w] \notin {outer[v], inner[v]} /\ (v # w => got[w] # got[v])
    BY <2>1 DEF ExclInv, QueueApart, GuardsApart
  <2>3. Install(w, got[w]) /\ made' = made /\ conn_queue_' = conn_queue_
    BY <1>5 DEF CheckValid
  <2> QED BY <2>1, <2>2, <2>3, InstallExcl
<1>6. ASSUME NEW w \in Workers, CheckReconnect(w) PROVE ExclInv'
  <2>1. Install(w, made + 1) /\ made' = made + 1 /\ conn_queue_' = conn_queue_
    BY <1>6 DEF CheckReconnect
  <2>2. made + 1 \in 1..made' BY <1>0, <2>1
  <2>3. \A i \in 1..Len(conn_queue_) : conn_queue_[i] # made + 1
    BY <1>0 DEF ExclInv, QueueOnce
  <2>4. \A v \in Workers :
          made + 1 \notin {outer[v], inner[v]} /\ (v # w => made + 1 # got[v])
    BY <1>0 DEF ExclInv, GuardsApart
  <2> QED BY <2>1, <2>2, <2>3, <2>4, InstallExcl
<1>7. ASSUME NEW w \in Workers, CheckConnectFails(w) PROVE ExclInv'
  BY <1>7, LetGoExcl DEF CheckConnectFails, LetGo, Typed
<1>8. ASSUME NEW w \in Workers, Revalidate(w) PROVE ExclInv'
  <2>1. CASE stage[w] = "inner" BY <1>8, <2>1, LetGoExcl DEF Revalidate, LetGo, Typed
  <2>2. CASE stage[w] # "inner" BY <1>8, <2>2, LetGoExcl DEF Revalidate, LetGo, Typed
  <2> QED BY <2>1, <2>2
<1>9. ASSUME NEW w \in Workers, ExecuteNoSchema(w) PROVE ExclInv'
  BY <1>9, <1>q DEF ExecuteNoSchema
<1>10. ASSUME NEW w \in Workers, OpenInner(w) PROVE ExclInv' BY <1>10, <1>q DEF OpenInner
<1>11. ASSUME NEW w \in Workers, CloseInner(w) PROVE ExclInv'
  <2>1. /\ made' = made /\ got' = got /\ outer' = outer
        /\ \A v \in Workers : inner'[v] = IF v = w THEN NoConn ELSE inner[v]
    BY <1>11 DEF CloseInner, Typed
  <2>2. LetGo BY <2>1 DEF LetGo
  <2>3. CASE inner[w] \in valid
    <3>0. inner[w] \in 1..made BY <1>0, <2>3
    <3>1. inner[w] \in 1..made /\ inner[w] # NoConn BY <1>0, <3>0 DEF NoConn
    <3>2. conn_queue_' = Append(conn_queue_, inner[w])
      BY <1>11, <2>3 DEF CloseInner, Destroy, freeConn
    <3>3. \A i \in 1..Len(conn_queue_) : conn_queue_[i] # inner[w] BY DEF ExclInv, QueueApart
    <3>4. \A v \in Workers : inner[w] \notin {got'[v], outer'[v], inner'[v]}
      BY <2>1, <3>1 DEF ExclInv, GuardsApart
    <3> QED BY <2>1, <2>2, <3>1, <3>2, <3>3, <3>4, PushExcl
  <2>4. CASE inner[w] \notin valid
    <3>1. conn_queue_' = conn_queue_ BY <1>11, <2>4 DEF CloseInner, Destroy
    <3> QED BY <2>1, <2>2, <3>1, LetGoExcl
  <2> QED BY <2>3, <2>4
<1>12. ASSUME NEW w \in Workers, CloseOuter(w) PROVE ExclInv'
  <2>1. /\ made' = made /\ got' = got /\ inner' = inner
        /\ \A v \in Workers : outer'[v] = IF v = w THEN NoConn ELSE outer[v]
    BY <1>12 DEF CloseOuter, Typed
  <2>2. LetGo BY <2>1 DEF LetGo
  <2>3. CASE outer[w] \in valid
    <3>0. outer[w] \in 1..made BY <1>0, <2>3
    <3>1. outer[w] \in 1..made /\ outer[w] # NoConn BY <1>0, <3>0 DEF NoConn
    <3>2. conn_queue_' = Append(conn_queue_, outer[w])
      BY <1>12, <2>3 DEF CloseOuter, Destroy, freeConn
    <3>3. \A i \in 1..Len(conn_queue_) : conn_queue_[i] # outer[w] BY DEF ExclInv, QueueApart
    <3>4. \A v \in Workers : outer[w] \notin {got'[v], outer'[v], inner'[v]}
      BY <2>1, <3>1 DEF ExclInv, GuardsApart
    <3> QED BY <2>1, <2>2, <3>1, <3>2, <3>3, <3>4, PushExcl
  <2>4. CASE outer[w] \notin valid
    <3>1. conn_queue_' = conn_queue_ BY <1>12, <2>4 DEF CloseOuter, Destroy
    <3> QED BY <2>1, <2>2, <3>1, LetGoExcl
  <2> QED BY <2>3, <2>4
<1>13. ASSUME NEW c \in 1..made, Drop(c) PROVE ExclInv' BY <1>13, <1>q DEF Drop
<1>14. CASE UNCHANGED vars BY <1>14, <1>q DEF vars
<1> QED BY <1>1, <1>2, <1>3, <1>4, <1>5, <1>6, <1>7, <1>8, <1>9, <1>10, <1>11, <1>12,
           <1>13, <1>14 DEF Next, Step

\* Exclusive ownership holds of every reachable state.
LEMMA ExclCorrect == Spec => []ExclInv
<1>1. Init => ExclInv
  <2> SUFFICES ASSUME Init PROVE ExclInv OBVIOUS
  <2>1. Len(conn_queue_) = PoolSize /\ \A i \in 1..PoolSize : conn_queue_[i] = i BY DEF Init
  <2>2. made = PoolSize /\ \A w \in Workers : got[w] = 0 /\ outer[w] = 0 /\ inner[w] = 0
    BY DEF Init, NoConn
  <2> QED BY <2>1, <2>2 DEF ExclInv, QueueOnce, QueueApart, GuardsApart, NoConn
<1> QED BY <1>1, ExclStep, TypedCorrect, FramesCorrect, PTL DEF Spec

\* No two threads ever use a connection at a time, and none uses one that the queue can
\* hand out: however getConn(), the reconnection of getSql(), the nested guards and their
\* destructors interleave.
THEOREM ConnExclusiveCorrect == Spec => []ConnExclusive
<1>1. Typed /\ ExclInv => ConnExclusive
  <2> SUFFICES ASSUME Typed, ExclInv, NEW c \in 1..made PROVE Cardinality(Places(c)) <= 1
    BY DEF ConnExclusive
  <2>0. c # NoConn BY DEF NoConn
  <2> DEFINE Q == {j \in 1..Len(conn_queue_) : conn_queue_[j] = c}
             G == {v \in Workers : got[v] = c}
             O == {v \in Workers : outer[v] = c}
             I == {v \in Workers : inner[v] = c}
  <2>1. /\ \A i, j \in Q : i = j
        /\ \A v, w \in G : v = w
        /\ \A v, w \in O : v = w
        /\ \A v, w \in I : v = w
    BY <2>0 DEF ExclInv, QueueOnce, GuardsApart
  <2>2. \A i \in Q : G = {} /\ O = {} /\ I = {} BY DEF ExclInv, QueueApart
  <2>3. /\ \A v \in G : O = {} /\ I = {}
        /\ \A v \in O : I = {}
    BY <2>0 DEF ExclInv, GuardsApart
  <2>4. Places(c) = {<<"queue", i>> : i \in Q} \cup {<<"got", w>> : w \in G}
                    \cup {<<"outer", w>> : w \in O} \cup {<<"inner", w>> : w \in I}
    BY DEF Places
  <2> HIDE DEF Q, G, O, I
  <2>5. \A x, y \in Places(c) : x = y BY <2>1, <2>2, <2>3, <2>4
  <2>6. CASE Places(c) = {} BY <2>6, FS_EmptySet
  <2>7. CASE Places(c) # {}
    <3>1. PICK x : x \in Places(c) BY <2>7
    <3>2. Places(c) = {x} BY <2>5, <3>1
    <3>3. Cardinality(Places(c)) = 1 BY <3>2, FS_Singleton
    <3> QED BY <3>3
  <2> QED BY <2>6, <2>7
<1> QED BY <1>1, TypedCorrect, ExclCorrect, PTL

-----------------------------------------------------------------------------
(***************************************************************************)
(* The capacity that is left                                               *)
(***************************************************************************)

\* A connection becomes invalid by a drop only, and every other one is still counted.
ValidCount == IsFiniteSet(valid) /\ PoolSize <= Cardinality(valid) + drops

\* No valid connection is forgotten: it is in the queue or in the hands of a worker.
ValidHeld ==
  \A c \in valid :
    \/ \E i \in 1..Len(conn_queue_) : conn_queue_[i] = c
    \/ \E w \in Workers : c \in {got[w], outer[w], inner[w]}

\* Each drop costs at most one valid connection.
LEMMA ValidCountStep == Typed /\ ValidCount /\ [Next]_vars => ValidCount'
<1> SUFFICES ASSUME Typed, ValidCount, [Next]_vars PROVE ValidCount' OBVIOUS
<1>q. ASSUME UNCHANGED <<valid, drops>> PROVE ValidCount' BY <1>q DEF ValidCount
<1>n. Cardinality(valid) \in Nat /\ drops \in Nat BY FS_CardinalityType DEF ValidCount, Typed
<1>1. ASSUME NEW w \in Workers, NEW k \in TaskKinds, Begin(w, k) PROVE ValidCount'
  BY <1>1, <1>q DEF Begin
<1>2. ASSUME NEW w \in Workers, CheckReconnect(w) PROVE ValidCount'
  <2>1. valid' = valid \cup {made + 1} /\ drops' = drops BY <1>2 DEF CheckReconnect
  <2>2. made + 1 \notin valid BY DEF Typed
  <2>3. IsFiniteSet(valid') /\ Cardinality(valid') = Cardinality(valid) + 1
    BY <2>1, <2>2, FS_AddElement DEF ValidCount
  <2> QED BY <1>n, <2>1, <2>3 DEF ValidCount
<1>3. ASSUME NEW w \in Workers, Step(w), ~CheckReconnect(w) PROVE UNCHANGED <<valid, drops>>
  BY <1>3 DEF Step, TryAcquire, Acquire, PopConn, CheckValid, CheckConnectFails, Revalidate,
              ExecuteNoSchema, OpenInner, CloseInner, CloseOuter
<1>4. ASSUME NEW c \in 1..made, Drop(c) PROVE ValidCount'
  <2>1. valid' = valid \ {c} /\ drops' = drops + 1 /\ c \in valid BY <1>4 DEF Drop
  <2>2. IsFiniteSet(valid') /\ Cardinality(valid') = Cardinality(valid) - 1
    BY <2>1, FS_RemoveElement DEF ValidCount
  <2> QED BY <1>n, <2>1, <2>2 DEF ValidCount
<1>5. CASE UNCHANGED vars BY <1>5, <1>q DEF vars
<1> QED BY <1>1, <1>2, <1>3, <1>4, <1>5, <1>q DEF Next

\* No step loses a valid connection.
LEMMA ValidHeldStep == Typed /\ FramesAgree /\ ValidHeld /\ [Next]_vars => ValidHeld'
<1> SUFFICES ASSUME Typed, FramesAgree, ValidHeld, [Next]_vars PROVE ValidHeld' OBVIOUS
<1>0. NoConn \notin valid BY DEF Typed, NoConn
<1>q. ASSUME UNCHANGED <<conn_queue_, got, outer, inner>>, valid' \subseteq valid
      PROVE  ValidHeld'
  BY <1>q DEF ValidHeld
<1>1. ASSUME NEW w \in Workers, NEW k \in TaskKinds, Begin(w, k) PROVE ValidHeld'
  BY <1>1, <1>q DEF Begin
<1>2. ASSUME NEW w \in Workers, TryAcquire(w) PROVE ValidHeld' BY <1>2, <1>q DEF TryAcquire
<1>3. ASSUME NEW w \in Workers, Acquire(w) PROVE ValidHeld' BY <1>3, <1>q DEF Acquire
<1>4. ASSUME NEW w \in Workers, PopConn(w) PROVE ValidHeld'
  <2>1. CASE conn_queue_ = <<>> BY <1>4, <2>1, <1>q DEF PopConn
  <2>2. CASE conn_queue_ # <<>>
    <3>1. /\ conn_queue_' = Tail(conn_queue_) /\ valid' = valid
          /\ \A v \in Workers : /\ got'[v] = IF v = w THEN conn_queue_[1] ELSE got[v]
                                /\ outer'[v] = outer[v] /\ inner'[v] = inner[v]
      BY <1>4, <2>2 DEF PopConn, Typed
    <3>2. got[w] = NoConn BY <1>4 DEF PopConn, FramesAgree
    <3>3. Len(conn_queue_) \in Nat \ {0} BY <2>2 DEF Typed
    <3>4. /\ Len(conn_queue_') = Len(conn_queue_) - 1
          /\ \A i \in 1..Len(conn_queue_') : conn_queue_'[i] = conn_queue_[i + 1]
      BY <2>2, <3>1 DEF Typed
    <3> SUFFICES ASSUME NEW c \in valid
                 PROVE  \/ \E i \in 1..Len(conn_queue_') : conn_queue_'[i] = c
                        \/ \E v \in Workers : c \in {got'[v], outer'[v], inner'[v]}
      BY <3>1 DEF ValidHeld
    <3>5. CASE \E i \in 1..Len(conn_queue_) : conn_queue_[i] = c
      <4>1. PICK i \in 1..Len(conn_queue_) : conn_queue_[i] = c BY <3>5
      <4>2. CASE i = 1 BY <3>1, <4>1, <4>2
      <4>3. CASE i # 1
        <5>1. i - 1 \in 1..Len(conn_queue_') /\ (i - 1) + 1 = i BY <3>3, <3>4, <4>3
        <5>2. conn_queue_'[i - 1] = c BY <3>4, <4>1, <5>1
        <5> QED BY <5>1, <5>2
      <4> QED BY <4>2, <4>3
    <3>6. CASE \E v \in Workers : c \in {got[v], outer[v], inner[v]}
      <4>1. PICK v \in Workers : c \in {got[v], outer[v], inner[v]} BY <3>6
      <4>2. c # got[w] BY <1>0, <3>2
      <4> QED BY <3>1, <4>1, <4>2
    <3> QED BY <3>5, <3>6 DEF ValidHeld
  <2> QED BY <2>1, <2>2
<1>i. ASSUME NEW w \in Workers, NEW c, pc[w] = "check", Install(w, c), UNCHANGED conn_queue_,
             valid' \subseteq valid \cup {c},
             got[w] \in valid => got[w] = c
      PROVE  ValidHeld'
  <2>1. inner[w] = NoConn BY <1>i DEF FramesAgree
  <2>2. CASE stage[w] = "inner"
    <3>1. \A v \in Workers : /\ got'[v] = IF v = w THEN NoConn ELSE got[v]
                             /\ inner'[v] = IF v = w THEN c ELSE inner[v]
                             /\ outer'[v] = outer[v]
      BY <1>i, <2>2 DEF Install, Typed
    <3> QED BY <1>0, <1>i, <2>1, <3>1 DEF ValidHeld
  <2>3. CASE stage[w] # "inner"
    <3>1. outer[w] = NoConn BY <1>i, <2>3 DEF FramesAgree
    <3>2. \A v \in Workers : /\ got'[v] = IF v = w THEN NoConn ELSE got[v]
                             /\ outer'[v] = IF v = w THEN c ELSE outer[v]
                             /\ inner'[v] = inner[v]
      BY <1>i, <2>3 DEF Install, Typed
    <3> QED BY <1>0, <1>i, <3>1, <3>2 DEF ValidHeld
  <2> QED BY <2>2, <2>3
<1>5. ASSUME NEW w \in Workers, CheckValid(w) PROVE ValidHeld' BY <1>5, <1>i DEF CheckValid
<1>6. ASSUME NEW w \in Workers, CheckReconnect(w) PROVE ValidHeld'
  BY <1>6, <1>i DEF CheckReconnect
<1>h. ASSUME valid' = valid, UNCHANGED conn_queue_,
             \A x \in valid, v \in Workers :
               x \in {got[v], outer[v], inner[v]} => x \in {got'[v], outer'[v], inner'[v]}
      PROVE  ValidHeld'
  BY <1>h DEF ValidHeld
<1>7. ASSUME NEW w \in Workers, CheckConnectFails(w) PROVE ValidHeld'
  <2>1. /\ got[w] \notin valid /\ UNCHANGED <<valid, conn_queue_, outer, inner>>
        /\ \A v \in Workers : got'[v] = IF v = w THEN NoConn ELSE got[v]
    BY <1>7 DEF CheckConnectFails, Typed
  <2> QED BY <2>1, <1>h
<1>8. ASSUME NEW w \in Workers, Revalidate(w) PROVE ValidHeld'
  <2>1. CASE stage[w] = "inner"
    <3>1. /\ inner[w] \notin valid /\ UNCHANGED <<valid, conn_queue_, outer, got>>
          /\ \A v \in Workers : inner'[v] = IF v = w THEN NoConn ELSE inner[v]
      BY <1>8, <2>1 DEF Revalidate, Current, Typed
    <3> QED BY <3>1, <1>h
  <2>2. CASE stage[w] # "inner"
    <3>1. /\ outer[w] \notin valid /\ UNCHANGED <<valid, conn_queue_, inner, got>>
          /\ \A v \in Workers : outer'[v] = IF v = w THEN NoConn ELSE outer[v]
      BY <1>8, <2>2 DEF Revalidate, Current, Typed
    <3> QED BY <3>1, <1>h
  <2> QED BY <2>1, <2>2
<1>9. ASSUME NEW w \in Workers, ExecuteNoSchema(w) PROVE ValidHeld'
  BY <1>9, <1>q DEF ExecuteNoSchema
<1>10. ASSUME NEW w \in Workers, OpenInner(w) PROVE ValidHeld' BY <1>10, <1>q DEF OpenInner
<1>d. ASSUME NEW c, Destroy(c), valid' = valid,
             \A x \in valid : x = c \/ \A v \in Workers :
               x \in {got[v], outer[v], inner[v]} => x \in {got'[v], outer'[v], inner'[v]}
      PROVE  ValidHeld'
  <2>1. CASE c \in valid
    <3>1. conn_queue_' = Append(conn_queue_, c) BY <1>d, <2>1 DEF Destroy, freeConn
    <3>2. c \in Conn BY <2>1 DEF Typed, Conn, NoConn
    <3>3. /\ Len(conn_queue_') = Len(conn_queue_) + 1 /\ Len(conn_queue_) \in Nat
          /\ \A i \in 1..Len(conn_queue_) : conn_queue_'[i] = conn_queue_[i]
          /\ conn_queue_'[Len(conn_queue_) + 1] = c
      BY <3>1, <3>2 DEF Typed
    <3>4. /\ \A i \in 1..Len(conn_queue_) : i \in 1..Len(conn_queue_')
          /\ Len(conn_queue_) + 1 \in 1..Len(conn_queue_')
      BY <3>3
    <3> QED BY <1>d, <3>3, <3>4 DEF ValidHeld
  <2>2. CASE c \notin valid
    <3>1. conn_queue_' = conn_queue_ BY <1>d, <2>2 DEF Destroy
    <3> QED BY <1>d, <2>2, <3>1 DEF ValidHeld
  <2> QED BY <2>1, <2>2
<1>11. ASSUME NEW w \in Workers, CloseInner(w) PROVE ValidHeld'
  <2>1. /\ Destroy(inner[w]) /\ valid' = valid /\ got' = got /\ outer' = outer
        /\ \A v \in Workers : inner'[v] = IF v = w THEN NoConn ELSE inner[v]
    BY <1>11 DEF CloseInner, Typed
  <2> QED BY <2>1, <1>d
<1>12. ASSUME NEW w \in Workers, CloseOuter(w) PROVE ValidHeld'
  <2>1. /\ Destroy(outer[w]) /\ valid' = valid /\ got' = got /\ inner' = inner
        /\ \A v \in Workers : outer'[v] = IF v = w THEN NoConn ELSE outer[v]
    BY <1>12 DEF CloseOuter, Typed
  <2> QED BY <2>1, <1>d
<1>13. ASSUME NEW c \in 1..made, Drop(c) PROVE ValidHeld' BY <1>13, <1>q DEF Drop
<1>14. CASE UNCHANGED vars BY <1>14, <1>q DEF vars
<1> QED BY <1>1, <1>2, <1>3, <1>4, <1>5, <1>6, <1>7, <1>8, <1>9, <1>10, <1>11, <1>12,
           <1>13, <1>14 DEF Next, Step

\* What a function takes a finite set to has no more elements than the set.
LEMMA ImageCardinality ==
  ASSUME NEW S, IsFiniteSet(S), NEW f, NEW T, T = {f[x] : x \in S}
  PROVE  IsFiniteSet(T) /\ Cardinality(T) \in Nat /\ Cardinality(T) <= Cardinality(S)
<1> DEFINE g == [x \in S |-> f[x]]
<1>1. g \in Surjection(S, T) BY DEF Surjection
<1>2. IsFiniteSet(T) /\ Cardinality(T) <= Cardinality(S) BY <1>1, FS_Surjection
<1> QED BY <1>2, FS_CardinalityType

\* A union has at most as many elements as its parts together.
LEMMA UnionCardinality ==
  ASSUME NEW S, NEW T, IsFiniteSet(S), IsFiniteSet(T)
  PROVE  /\ IsFiniteSet(S \cup T) /\ Cardinality(S \cup T) \in Nat
         /\ Cardinality(S \cup T) <= Cardinality(S) + Cardinality(T)
<1>1. IsFiniteSet(S \cup T)
      /\ Cardinality(S \cup T) = Cardinality(S) + Cardinality(T) - Cardinality(S \cap T)
  BY FS_Union
<1>2. IsFiniteSet(S \cap T) BY FS_Intersection
<1>3. /\ Cardinality(S \cap T) \in Nat /\ Cardinality(S) \in Nat /\ Cardinality(T) \in Nat
      /\ Cardinality(S \cup T) \in Nat
  BY <1>1, <1>2, FS_CardinalityType
<1> QED BY <1>1, <1>3

\* The only way for the pool to shrink is a connection dropped by the database: no path of
\* getConn(), the guards and the exceptions leaks a connection that is still valid.
THEOREM CapacityLossCorrect == Spec => []CapacityLossExplained
<1>1. Init => ValidCount /\ ValidHeld
  <2> SUFFICES ASSUME Init PROVE ValidCount /\ ValidHeld OBVIOUS
  <2>1. IsFiniteSet(1..PoolSize) /\ Cardinality(1..PoolSize) = PoolSize BY FS_Interval
  <2>2. ValidCount BY <2>1 DEF Init, ValidCount
  <2>3. ValidHeld BY DEF Init, ValidHeld
  <2> QED BY <2>2, <2>3
<1>2. Typed /\ ValidCount /\ ValidHeld => CapacityLossExplained
  <2> SUFFICES ASSUME Typed, ValidCount, ValidHeld PROVE PoolSize <= Capacity + drops
    BY DEF CapacityLossExplained
  <2> DEFINE Q == {conn_queue_[i] : i \in 1..Len(conn_queue_)}
             G == {got[w] : w \in Checking}
             O == {outer[w] : w \in HasOuter}
             I == {inner[w] : w \in HasInner}
  <2>1. valid \subseteq ((Q \cup G) \cup O) \cup I
    <3> SUFFICES ASSUME NEW c \in valid PROVE c \in Q \/ c \in G \/ c \in O \/ c \in I OBVIOUS
    <3>1. c # NoConn BY DEF Typed, NoConn
    <3>2. CASE \E i \in 1..Len(conn_queue_) : conn_queue_[i] = c BY <3>2
    <3>3. CASE \E w \in Workers : c \in {got[w], outer[w], inner[w]}
      BY <3>1, <3>3 DEF Checking, HasOuter, HasInner
    <3> QED BY <3>2, <3>3 DEF ValidHeld
  <2>2. Len(conn_queue_) \in Nat BY DEF Typed
  <2>3. IsFiniteSet(1..Len(conn_queue_)) /\ Cardinality(1..Len(conn_queue_)) = Len(conn_queue_)
    <3> DEFINE n == Len(conn_queue_)
    <3>1. n \in Nat BY <2>2
    <3> HIDE DEF n
    <3>2. IsFiniteSet(1..n) /\ Cardinality(1..n) = n BY <3>1, FS_Interval
    <3> QED BY <3>2 DEF n
  <2>4. Checking \subseteq Workers /\ HasOuter \subseteq Workers /\ HasInner \subseteq Workers
    BY DEF Checking, HasOuter, HasInner
  <2>5. /\ IsFiniteSet(Checking) /\ Cardinality(Checking) \in Nat
        /\ IsFiniteSet(HasOuter) /\ Cardinality(HasOuter) \in Nat
        /\ IsFiniteSet(HasInner) /\ Cardinality(HasInner) \in Nat
    BY <2>4, WorkerSets
  <2>6. IsFiniteSet(Q) /\ Cardinality(Q) \in Nat /\ Cardinality(Q) <= Len(conn_queue_)
    BY <2>3, ImageCardinality
  <2>7. IsFiniteSet(G) /\ Cardinality(G) \in Nat /\ Cardinality(G) <= Cardinality(Checking)
    BY <2>5, ImageCardinality
  <2>8. IsFiniteSet(O) /\ Cardinality(O) \in Nat /\ Cardinality(O) <= Cardinality(HasOuter)
    BY <2>5, ImageCardinality
  <2>9. IsFiniteSet(I) /\ Cardinality(I) \in Nat /\ Cardinality(I) <= Cardinality(HasInner)
    BY <2>5, ImageCardinality
  <2> HIDE DEF Q, G, O, I
  <2>10. /\ IsFiniteSet(Q \cup G) /\ Cardinality(Q \cup G) \in Nat
         /\ Cardinality(Q \cup G) <= Cardinality(Q) + Cardinality(G)
    BY <2>6, <2>7, UnionCardinality
  <2>11. /\ IsFiniteSet((Q \cup G) \cup O) /\ Cardinality((Q \cup G) \cup O) \in Nat
         /\ Cardinality((Q \cup G) \cup O) <= Cardinality(Q \cup G) + Cardinality(O)
    BY <2>8, <2>10, UnionCardinality
  <2>12. /\ IsFiniteSet(((Q \cup G) \cup O) \cup I)
         /\ Cardinality(((Q \cup G) \cup O) \cup I) \in Nat
         /\ Cardinality(((Q \cup G) \cup O) \cup I)
              <= Cardinality((Q \cup G) \cup O) + Cardinality(I)
    BY <2>9, <2>11, UnionCardinality
  <2>13. Cardinality(valid) \in Nat
         /\ Cardinality(valid) <= Cardinality(((Q \cup G) \cup O) \cup I)
    BY <2>1, <2>12, FS_Subset, FS_CardinalityType DEF ValidCount
  <2>14. Cardinality(valid) <= Capacity
    BY <2>2, <2>5, <2>6, <2>7, <2>8, <2>9, <2>10, <2>11, <2>12, <2>13 DEF Capacity
  <2>15. drops \in Nat /\ Capacity \in Nat BY <2>2, <2>5 DEF Typed, Capacity
  <2> QED BY <2>13, <2>14, <2>15 DEF ValidCount
<1> QED BY <1>1, <1>2, ValidCountStep, ValidHeldStep, TypedCorrect, FramesCorrect, PTL DEF Spec
=============================================================================
