----------------------------- MODULE SqlConnPool -----------------------------
(***************************************************************************)
(* The database connection pool and its RAII guard:                        *)
(*   src/db/sql_conn_pool.cpp   SqlConnPool: a queue of connections guarded *)
(*                              by mtx_, and a counting semaphore smph_;    *)
(*   src/db/sql_conn_RAII.*     SqlConnRAII: takes a connection when it is  *)
(*                              constructed, revalidates it before every    *)
(*                              statement, gives it back when destroyed.    *)
(*                                                                         *)
(* The users are the threads of the worker pool.  A task holds one guard    *)
(* ("outer"); WSHandler::handle_message on a group message calls            *)
(* WSSessionMgr::write_to_room while its own guard is alive, and that       *)
(* function constructs a second one ("inner").                              *)
(*                                                                         *)
(* The critical sections of mtx_ are single steps.  Everything that can     *)
(* interleave is a step of its own: taking a permit, popping the queue,     *)
(* the isValid() check after the pop, a statement, a destructor.            *)
(***************************************************************************)
EXTENDS Naturals, Sequences, FiniteSets

CONSTANTS
  Workers,    \* the threads of pool::ThreadPool
  PoolSize,   \* sqlconnpool_max_size
  MaxDrops    \* bound: how many connections the database may drop

ASSUME WorkersAssumption == IsFiniteSet(Workers)
\* AppConfig::Database::sqlconnpool_max_size(int) refuses a size <= 0.
ASSUME PoolSizeAssumption == PoolSize \in Nat \ {0}
ASSUME MaxDropsAssumption == MaxDrops \in Nat

NoConn == 0
Conn == Nat \ {NoConn}

VARIABLES
  smph,         \* permits of smph_
  conn_queue_,  \* idle connections
  valid,        \* connections for which isValid() holds
  schema,       \* connections opened with a default schema
  made,         \* connections created so far: 1..made
  drops,        \* connections dropped so far (bounded by MaxDrops)
  pc,           \* where each worker is in the pool's code
  task,         \* what each worker is running
  stage,        \* which guard of the task is current
  got,          \* connection popped by getSql(), not yet checked
  outer,        \* connection of the handler's guard
  inner         \* connection of write_to_room's guard

vars == <<smph, conn_queue_, valid, schema, made, drops,
          pc, task, stage, got, outer, inner>>

TaskKinds == {"single", "group"}

Init ==
  /\ smph = PoolSize
  /\ conn_queue_ = [i \in 1..PoolSize |-> i]
  /\ valid = 1..PoolSize
  /\ schema = 1..PoolSize
  /\ made = PoolSize
  /\ drops = 0
  /\ pc = [w \in Workers |-> "idle"]
  /\ task = [w \in Workers |-> "none"]
  /\ stage = [w \in Workers |-> "outer"]
  /\ got = [w \in Workers |-> NoConn]
  /\ outer = [w \in Workers |-> NoConn]
  /\ inner = [w \in Workers |-> NoConn]

-----------------------------------------------------------------------------
(***************************************************************************)
(* SqlConnPool::getConn and getSql                                         *)
(***************************************************************************)

\* The worker takes a task from the thread pool; its handler's first act in
\* this model is the SqlConnRAII constructor, which calls getConn().
Begin(w, kind) ==
  /\ pc[w] = "idle"
  /\ pc' = [pc EXCEPT ![w] = "get"]
  /\ task' = [task EXCEPT ![w] = kind]
  /\ stage' = [stage EXCEPT ![w] = "outer"]
  /\ UNCHANGED <<smph, conn_queue_, valid, schema, made, drops, got, outer, inner>>

\* getConn(): try_acquire() either takes a permit at once or falls through to
\* the blocking acquire().
TryAcquire(w) ==
  /\ pc[w] = "get"
  /\ \/ /\ smph > 0
        /\ smph' = smph - 1
        /\ pc' = [pc EXCEPT ![w] = "pop"]
     \/ /\ smph = 0
        /\ pc' = [pc EXCEPT ![w] = "wait"]
        /\ UNCHANGED smph
  /\ UNCHANGED <<conn_queue_, valid, schema, made, drops, task, stage, got, outer, inner>>

\* getConn(): smph_->acquire() returns once a permit is there.
Acquire(w) ==
  /\ pc[w] = "wait"
  /\ smph > 0
  /\ smph' = smph - 1
  /\ pc' = [pc EXCEPT ![w] = "pop"]
  /\ UNCHANGED <<conn_queue_, valid, schema, made, drops, task, stage, got, outer, inner>>

\* Mutation: front() without pop().
PopConnNoPop(w) ==
  /\ pc[w] = "pop"
  /\ conn_queue_ # <<>>
  /\ got' = [got EXCEPT ![w] = Head(conn_queue_)]
  /\ pc' = [pc EXCEPT ![w] = "check"]
  /\ UNCHANGED <<smph, conn_queue_, valid, schema, made, drops, task, stage, outer, inner>>

\* getSql(), under mtx_: pop the front; an empty queue is the "CRITICAL" branch,
\* which throws.
PopConn(w) ==
  /\ pc[w] = "pop"
  /\ IF conn_queue_ = <<>>
     THEN /\ pc' = [pc EXCEPT ![w] = "unwind"]
          /\ UNCHANGED <<got, conn_queue_>>
     ELSE /\ got' = [got EXCEPT ![w] = Head(conn_queue_)]
          /\ conn_queue_' = Tail(conn_queue_)
          /\ pc' = [pc EXCEPT ![w] = "check"]
  /\ UNCHANGED <<smph, valid, schema, made, drops, task, stage, outer, inner>>

\* Mutation: the connection is stored in the handler's guard whichever guard asked for it.
InstallOuter(w, c) ==
  /\ outer' = [outer EXCEPT ![w] = c]
  /\ got' = [got EXCEPT ![w] = NoConn]
  /\ pc' = [pc EXCEPT ![w] = "run"]
  /\ UNCHANGED inner

\* The guard that called getConn() stores the connection in its sql_.
Install(w, c) ==
  /\ IF stage[w] = "inner"
     THEN inner' = [inner EXCEPT ![w] = c] /\ UNCHANGED outer
     ELSE outer' = [outer EXCEPT ![w] = c] /\ UNCHANGED inner
  /\ got' = [got EXCEPT ![w] = NoConn]
  /\ pc' = [pc EXCEPT ![w] = "run"]

\* getSql(), after the unlock: a valid connection is returned.
CheckValid(w) ==
  /\ pc[w] = "check"
  /\ got[w] \in valid
  /\ Install(w, got[w])
  /\ UNCHANGED <<smph, conn_queue_, valid, schema, made, drops, task, stage>>

\* getSql(): an invalid connection is replaced by a new one, opened with server,
\* user and password only.
CheckReconnect(w) ==
  /\ pc[w] = "check"
  /\ got[w] \notin valid
  /\ made' = made + 1
  /\ valid' = valid \cup {made + 1}
  /\ Install(w, made + 1)
  /\ UNCHANGED <<smph, conn_queue_, schema, drops, task, stage>>

\* getSql(): driver->connect throws (database unreachable).  The popped
\* connection and the permit are gone.  The HTTP handlers catch the exception;
\* out of the constructor in handle_message it ends the process, and the model
\* goes on all the same.
CheckConnectFails(w) ==
  /\ pc[w] = "check"
  /\ got[w] \notin valid
  /\ got' = [got EXCEPT ![w] = NoConn]
  /\ pc' = [pc EXCEPT ![w] = "unwind"]
  /\ UNCHANGED <<smph, conn_queue_, valid, schema, made, drops, task, stage, outer, inner>>

-----------------------------------------------------------------------------
(***************************************************************************)
(* SqlConnRAII                                                             *)
(***************************************************************************)

\* The connection of the guard the worker is currently using.
Current(w) == IF stage[w] = "inner" THEN inner[w] ELSE outer[w]

\* execute_query / execute_update call SqlConnRAII::getSql(): when the guard's
\* connection is no longer valid it asks the pool for another one, and the old
\* pointer is overwritten without freeConn().  The model forgets the old one at
\* once: if getConn() throws it is still in sql_, where the destructor finds it invalid
\* and leaves it alone, as it does with NoConn.
Revalidate(w) ==
  /\ pc[w] = "run"
  /\ stage[w] # "done"
  /\ Current(w) # NoConn
  /\ Current(w) \notin valid
  /\ IF stage[w] = "inner"
     THEN inner' = [inner EXCEPT ![w] = NoConn] /\ UNCHANGED outer
     ELSE outer' = [outer EXCEPT ![w] = NoConn] /\ UNCHANGED inner
  /\ pc' = [pc EXCEPT ![w] = "get"]
  /\ UNCHANGED <<smph, conn_queue_, valid, schema, made, drops, task, stage, got>>

\* A statement on a connection without a default schema throws.
ExecuteNoSchema(w) ==
  /\ pc[w] = "run"
  /\ stage[w] # "done"
  /\ Current(w) \in valid
  /\ Current(w) \notin schema
  /\ pc' = [pc EXCEPT ![w] = "unwind"]
  /\ UNCHANGED <<smph, conn_queue_, valid, schema, made, drops, task, stage, got, outer, inner>>

\* handle_message, group branch: after the commit, write_to_room constructs a
\* second guard while the first one is alive.
OpenInner(w) ==
  /\ pc[w] = "run"
  /\ task[w] = "group"
  /\ stage[w] = "outer"
  /\ stage' = [stage EXCEPT ![w] = "inner"]
  /\ pc' = [pc EXCEPT ![w] = "get"]
  /\ UNCHANGED <<smph, conn_queue_, valid, schema, made, drops, task, got, outer, inner>>

\* Mutation: the connection is pushed but the permit is not released.
freeConnNoRelease(c) ==
  /\ conn_queue_' = Append(conn_queue_, c)
  /\ UNCHANGED smph

\* Mutation: the permit is released twice.
freeConnTwice(c) ==
  /\ conn_queue_' = Append(conn_queue_, c)
  /\ smph' = smph + 2

\* freeConn(), under mtx_: push, then release().
freeConn(c) ==
  /\ conn_queue_' = Append(conn_queue_, c)
  /\ smph' = smph + 1

\* Mutation: the destructor gives the permit back for an invalid connection
\* that it does not return.
DestroyReleasesInvalid(c) ==
  \/ /\ c \in valid
     /\ freeConn(c)
  \/ /\ c \notin valid
     /\ smph' = smph + 1
     /\ UNCHANGED conn_queue_

\* Mutation: the destructor never returns the connection.
DestroyKeeps(c) == UNCHANGED <<smph, conn_queue_>> /\ c \in Nat

\* ~SqlConnRAII(): a valid connection goes back to the pool; an invalid one (or
\* none, when getConn() threw) does not, and neither does its permit.
Destroy(c) ==
  \/ /\ c \in valid
     /\ freeConn(c)
  \/ /\ c \notin valid
     /\ UNCHANGED <<smph, conn_queue_>>

\* write_to_room's guard goes out of scope, on return or on an exception.
CloseInner(w) ==
  /\ pc[w] \in {"run", "unwind"}
  /\ stage[w] = "inner"
  /\ Destroy(inner[w])
  /\ inner' = [inner EXCEPT ![w] = NoConn]
  /\ stage' = [stage EXCEPT ![w] = "done"]
  /\ UNCHANGED <<valid, schema, made, drops, pc, task, got, outer>>

\* The handler's guard goes out of scope, on return (also an early one) or on
\* an exception, and the worker's task is over.
CloseOuter(w) ==
  /\ pc[w] \in {"run", "unwind"}
  /\ stage[w] # "inner"
  /\ Destroy(outer[w])
  /\ outer' = [outer EXCEPT ![w] = NoConn]
  /\ pc' = [pc EXCEPT ![w] = "idle"]
  /\ task' = [task EXCEPT ![w] = "none"]
  /\ UNCHANGED <<valid, schema, made, drops, stage, got, inner>>

-----------------------------------------------------------------------------
\* External: the database closes a connection (restart, idle timeout, network).
Drop(c) ==
  /\ drops < MaxDrops
  /\ c \in valid
  /\ valid' = valid \ {c}
  /\ drops' = drops + 1
  /\ UNCHANGED <<smph, conn_queue_, schema, made, pc, task, stage, got, outer, inner>>

\* The steps a worker takes by itself once it has a task.
Step(w) ==
  \/ TryAcquire(w)
  \/ Acquire(w)
  \/ PopConn(w)
  \/ CheckValid(w)
  \/ CheckReconnect(w)
  \/ CheckConnectFails(w)
  \/ Revalidate(w)
  \/ ExecuteNoSchema(w)
  \/ OpenInner(w)
  \/ CloseInner(w)
  \/ CloseOuter(w)

Next ==
  \/ \E w \in Workers, kind \in TaskKinds : Begin(w, kind)
  \/ \E w \in Workers : Step(w)
  \/ \E c \in 1..made : Drop(c)

Spec == Init /\ [][Next]_vars

\* The operating system runs every thread that can run.
FairSpec == Spec /\ \A w \in Workers : WF_vars(Step(w))

\* A semaphore that also never starves a waiter, stronger than the standard
\* guarantees for std::counting_semaphore: what still fails under it is not a
\* matter of scheduling.
StrongFairSpec == FairSpec /\ \A w \in Workers : SF_vars(Acquire(w))

-----------------------------------------------------------------------------
(***************************************************************************)
(* Properties                                                              *)
(***************************************************************************)

Popping  == {w \in Workers : pc[w] = "pop"}
Checking == {w \in Workers : got[w] # NoConn}
HasOuter == {w \in Workers : outer[w] # NoConn}
HasInner == {w \in Workers : inner[w] # NoConn}

\* Connections the pool can still hand out, now or when their users are done.
Capacity == Len(conn_queue_) + Cardinality(Checking)
            + Cardinality(HasOuter) + Cardinality(HasInner)

Typed ==
  /\ smph \in Nat
  /\ conn_queue_ \in Seq(Conn)
  /\ valid \subseteq 1..made
  /\ schema \subseteq 1..made
  /\ made \in Nat
  /\ drops \in 0..MaxDrops
  /\ pc \in [Workers -> {"idle", "get", "wait", "pop", "check", "run", "unwind"}]
  /\ task \in [Workers -> TaskKinds \cup {"none"}]
  /\ stage \in [Workers -> {"outer", "inner", "done"}]
  /\ got \in [Workers -> Nat]
  /\ outer \in [Workers -> Nat]
  /\ inner \in [Workers -> Nat]

\* How a worker's program counter, task and stage agree with the connections it has: what
\* getSql() has popped is on its way to a guard, getConn() is called for an empty guard, a
\* guard in use has a connection, a second guard exists only in a group message, and
\* nothing is left in a guard that is out of scope.
FramesAgree ==
  \A w \in Workers :
    /\ got[w] # NoConn <=> pc[w] = "check"
    /\ task[w] = "none" <=> pc[w] = "idle"
    /\ pc[w] = "idle" => outer[w] = NoConn
    /\ pc[w] # "idle" /\ stage[w] # "outer" => task[w] = "group"
    /\ pc[w] = "run" /\ stage[w] # "done" => Current(w) # NoConn
    /\ inner[w] # NoConn => stage[w] = "inner" /\ pc[w] \in {"run", "unwind"}
    /\ (pc[w] \in {"get", "wait", "pop", "check"} /\ stage[w] # "inner") => outer[w] = NoConn
    /\ stage[w] = "done" => pc[w] \in {"run", "unwind", "idle"}

\* Every variable stays in its type, and a worker's program counter, task, stage and
\* connections agree, through swaps of lost connections, nested guards and exceptions.
TypeOK == Typed /\ FramesAgree

\* A worker that has taken a permit and not yet popped finds a connection: the
\* "CRITICAL: Semaphore acquired but connection queue is empty!" branch of
\* getSql() is never taken, whatever the interleaving of getConn() and
\* freeConn(), with connections dropping and guards nested.
PopNeverEmpty == Popping # {} => conn_queue_ # <<>>

\* The permits and the queue agree at every moment: a permit is either free or in the
\* hands of a worker that has not popped yet.
PermitsMatchQueue == smph + Cardinality(Popping) = Len(conn_queue_)

\* smph_ never counts more permits than the pool was built with, so release()
\* never exceeds counting_semaphore's maximum.
PermitBound == smph <= PoolSize

\* Where a connection is: in the queue, popped, or in a guard.
Places(c) ==
  {<<"queue", i>> : i \in {j \in 1..Len(conn_queue_) : conn_queue_[j] = c}}
  \cup {<<"got", w>> : w \in {v \in Workers : got[v] = c}}
  \cup {<<"outer", w>> : w \in {v \in Workers : outer[v] = c}}
  \cup {<<"inner", w>> : w \in {v \in Workers : inner[v] = c}}

\* A connection is never used by two guards at a time, nor used while it sits
\* in the queue: sql::Connection is not safe for concurrent use.
ConnExclusive == \A c \in 1..made : Cardinality(Places(c)) <= 1

\* The pool loses a connection only to a drop by the database: no path through
\* getConn(), the guards and the exceptions leaks more than one permit per
\* dropped connection.
CapacityLossExplained == PoolSize <= Capacity + drops

\* The pool is wedged: somebody waits for a permit, nobody holds one that it
\* could give back without getting another first.
Wedged ==
  /\ smph = 0
  /\ \E w \in Workers : pc[w] = "wait"
  /\ \A w \in Workers : pc[w] \in {"idle", "wait"}

\* Nested guards cannot wedge the pool while it has more connections than there
\* are workers: hold-and-wait in handle_message/write_to_room needs as many
\* waiting workers as connections.
WedgeOnlyWhenShort == Wedged => Capacity <= Cardinality(Workers)

\* Whatever the workers run, they do not all stay busy for ever: the pool always comes back
\* to a state where some worker is free, unless it has been left with no more connections
\* than there are workers.
SomeWorkerFree ==
  []<>((\E w \in Workers : pc[w] = "idle") \/ Capacity <= Cardinality(Workers))

\* A group message, once taken by a worker, is brought to its end, the broadcast
\* of ws_handler.cpp:151 included.
GroupMessageCompletes ==
  \A w \in Workers : task[w] = "group" ~> task[w] = "none"
=============================================================================
