---------------------------- MODULE ServerProofs ----------------------------
(***************************************************************************)
(* Proofs about ThreadPool and Server, for any number of workers, io       *)
(* threads, connections and tasks.  The steps of the server are steps of   *)
(* the pool, so what is proved of PoolSpec holds of the server.            *)
(***************************************************************************)
EXTENDS Server, SequenceTheorems, FiniteSetTheorems, TLAPS

USE WorkersAssumption, MaxTasksAssumption, MaxConnsAssumption

-----------------------------------------------------------------------------
(***************************************************************************)
(* The pool: types                                                         *)
(***************************************************************************)

\* The pool starts with its variables in their types.
LEMMA PoolTypeInit == PoolInit => PoolTypeOK
<1> SUFFICES ASSUME PoolInit PROVE PoolTypeOK OBVIOUS
<1>1. tasks \in Seq(1..MaxTasks) BY EmptySeq DEF PoolInit
<1>2. /\ added \in 0..MaxTasks
      /\ worker \in [Workers -> {"check", "wait", "run", "exit"}]
      /\ current \in [Workers -> 0..MaxTasks]
      /\ \A w \in Workers : worker[w] = "run" <=> current[w] # 0
  BY DEF PoolInit
<1> QED BY <1>1, <1>2 DEF PoolInit, PoolTypeOK

\* Every step of the pool keeps the types.
LEMMA PoolTypeStep == PoolTypeOK /\ [PoolNext]_poolVars => PoolTypeOK'
<1> SUFFICES ASSUME PoolTypeOK, [PoolNext]_poolVars PROVE PoolTypeOK' OBVIOUS
<1> USE DEF PoolTypeOK
<1>1. ASSUME NEW p \in Producers, addTask(p) PROVE PoolTypeOK'
  <2>1. CASE stop BY <1>1, <2>1 DEF addTask
  <2>2. CASE ~stop
    <3>1. added + 1 \in 1..MaxTasks BY <1>1 DEF addTask
    <3>2. tasks' = Append(tasks, added + 1) BY <1>1, <2>2 DEF addTask
    <3>3. tasks' \in Seq(1..MaxTasks) BY <3>1, <3>2, AppendProperties
    <3> QED BY <1>1, <2>2, <3>1, <3>3 DEF addTask
  <2> QED BY <2>1, <2>2
<1>2. ASSUME NEW p \in Producers, notify_one(p) PROVE PoolTypeOK'
  BY <1>2 DEF notify_one, Waiting
<1>3. ASSUME NEW w \in Workers, Wait(w) PROVE PoolTypeOK' BY <1>3 DEF Wait
<1>4. ASSUME NEW w \in Workers, Take(w) PROVE PoolTypeOK'
  <2>1. Head(tasks) \in 1..MaxTasks /\ Tail(tasks) \in Seq(1..MaxTasks)
    BY <1>4, HeadTailProperties DEF Take
  <2>2. Head(tasks) # 0 BY <2>1
  <2>3. current' \in [Workers -> 0..MaxTasks] BY <1>4, <2>1 DEF Take
  <2>4. \A v \in Workers : worker'[v] = "run" <=> current'[v] # 0 BY <1>4, <2>2 DEF Take
  <2> QED BY <1>4, <2>1, <2>3, <2>4 DEF Take
<1>5. ASSUME NEW w \in Workers, Exit(w) PROVE PoolTypeOK' BY <1>5 DEF Exit
<1>6. ASSUME NEW w \in Workers, Finish(w) PROVE PoolTypeOK'
  <2>1. current[w] \in 1..MaxTasks BY <1>6 DEF Finish
  <2>2. finished' \subseteq 1..MaxTasks BY <1>6, <2>1 DEF Finish
  <2>3. /\ worker' \in [Workers -> {"check", "wait", "run", "exit"}]
        /\ current' \in [Workers -> 0..MaxTasks]
        /\ \A v \in Workers : worker'[v] = "run" <=> current'[v] # 0
    BY <1>6 DEF Finish
  <2> QED BY <1>6, <2>2, <2>3 DEF Finish
<1>7. ASSUME NEW w \in Workers, TaskThrows(w) PROVE PoolTypeOK' BY <1>7 DEF TaskThrows
<1>8. ASSUME NEW w \in Workers, SpuriousWakeup(w) PROVE PoolTypeOK' BY <1>8 DEF SpuriousWakeup
<1>9. CASE Stop BY <1>9 DEF Stop
<1>10. CASE NotifyAll BY <1>10 DEF NotifyAll, Waiting
<1>11. CASE Join BY <1>11 DEF Join
<1>12. CASE ProcessEnds BY <1>12 DEF ProcessEnds
<1>13. CASE UNCHANGED poolVars BY <1>13 DEF poolVars
<1> QED
  BY <1>1, <1>2, <1>3, <1>4, <1>5, <1>6, <1>7, <1>8, <1>9, <1>10, <1>11, <1>12, <1>13
  DEF PoolNext, WorkerStep, DtorStep

-----------------------------------------------------------------------------
(***************************************************************************)
(* The pool: no lost wakeup                                                *)
(***************************************************************************)

\* stop is set by the destructor's first step; a worker leaves only when it is set and the
\* queue is empty, and then the queue stays empty.
StopInv ==
  /\ stop <=> dtor # "none"
  /\ \A w \in Workers : worker[w] = "exit" => stop /\ tasks = <<>>
  /\ dtor = "done" => \A w \in Workers : worker[w] = "exit"

WakeInv == StopInv /\ NoLostWakeup

\* Nobody waits at the start.
LEMMA WakeInit == PoolInit => WakeInv
BY DEF PoolInit, WakeInv, StopInv, NoLostWakeup, Waiting

\* A worker waits only when the queue is empty and the pool not stopped; what makes the
\* queue longer leaves a notification behind, and the notification wakes a worker.
LEMMA WakeStep == PoolTypeOK /\ WakeInv /\ [PoolNext]_poolVars => WakeInv'
<1> SUFFICES ASSUME PoolTypeOK, WakeInv, [PoolNext]_poolVars PROVE WakeInv' OBVIOUS
<1> USE DEF PoolTypeOK, WakeInv, StopInv, NoLostWakeup, Waiting
<1>1. ASSUME NEW p \in Producers, addTask(p) PROVE WakeInv' BY <1>1 DEF addTask
<1>2. ASSUME NEW p \in Producers, notify_one(p) PROVE WakeInv'
  <2>1. CASE Waiting = {}
    BY <1>2, <2>1 DEF notify_one
  <2>2. ASSUME NEW w \in Waiting, worker' = [worker EXCEPT ![w] = "check"] PROVE WakeInv'
    BY <1>2, <2>2 DEF notify_one
  <2> QED BY <1>2, <2>1, <2>2 DEF notify_one
<1>3. ASSUME NEW w \in Workers, Wait(w) PROVE WakeInv' BY <1>3 DEF Wait
<1>4. ASSUME NEW w \in Workers, Take(w) PROVE WakeInv' BY <1>4 DEF Take
<1>5. ASSUME NEW w \in Workers, Exit(w) PROVE WakeInv' BY <1>5 DEF Exit
<1>6. ASSUME NEW w \in Workers, Finish(w) PROVE WakeInv' BY <1>6 DEF Finish
<1>7. ASSUME NEW w \in Workers, TaskThrows(w) PROVE WakeInv' BY <1>7 DEF TaskThrows
<1>8. ASSUME NEW w \in Workers, SpuriousWakeup(w) PROVE WakeInv' BY <1>8 DEF SpuriousWakeup
<1>9. CASE Stop BY <1>9 DEF Stop
<1>10. CASE NotifyAll BY <1>10 DEF NotifyAll
<1>11. CASE Join BY <1>11 DEF Join
<1>12. CASE ProcessEnds BY <1>12 DEF ProcessEnds
<1>13. CASE UNCHANGED poolVars BY <1>13 DEF poolVars
<1> QED
  BY <1>1, <1>2, <1>3, <1>4, <1>5, <1>6, <1>7, <1>8, <1>9, <1>10, <1>11, <1>12, <1>13
  DEF PoolNext, WorkerStep, DtorStep

-----------------------------------------------------------------------------
(***************************************************************************)
(* The pool: tasks                                                         *)
(***************************************************************************)

\* Tasks started so far.
Started == added - Len(tasks)

Running == {current[w] : w \in Workers} \ {0}

\* TaskOnce with the queue read element by element, and that only started tasks are over.
TaskInv ==
  /\ Started \in Nat
  /\ \A i \in 1..Len(tasks) : tasks[i] = Started + i
  /\ finished \subseteq 1..Started
  /\ Running = (1..Started) \ finished
  /\ \A v, w \in Workers : current[v] = current[w] /\ current[v] # 0 => v = w

\* There are no tasks at the start.
LEMMA TaskInit == PoolInit => TaskInv
BY EmptySeq DEF PoolInit, TaskInv, Started, Running

\* addTask() appends the next number, a worker takes the smallest one that is left, and
\* what it finishes is what it took.
LEMMA TaskStep == PoolTypeOK /\ TaskInv /\ [PoolNext]_poolVars => TaskInv'
<1> SUFFICES ASSUME PoolTypeOK, TaskInv, [PoolNext]_poolVars PROVE TaskInv' OBVIOUS
<1> USE DEF PoolTypeOK
<1>0. Len(tasks) \in Nat /\ added \in Nat OBVIOUS
<1>1. CASE UNCHANGED <<tasks, added, finished, current>>
  BY <1>1 DEF TaskInv, Started, Running
<1>2. ASSUME NEW p \in Producers, addTask(p), ~stop PROVE TaskInv'
  <2>1. tasks' = Append(tasks, added + 1) /\ added' = added + 1 BY <1>2 DEF addTask
  <2>2. added + 1 \in 1..MaxTasks BY <1>2 DEF addTask
  <2>3. /\ Len(tasks') = Len(tasks) + 1
        /\ \A i \in 1..Len(tasks) : tasks'[i] = tasks[i]
        /\ tasks'[Len(tasks) + 1] = added + 1
    BY <2>1, <2>2, AppendProperties
  <2>4. Started' = Started BY <1>0, <2>1, <2>3 DEF Started
  <2>5. \A i \in 1..Len(tasks') : tasks'[i] = Started + i
    <3> SUFFICES ASSUME NEW i \in 1..Len(tasks') PROVE tasks'[i] = Started + i OBVIOUS
    <3>1. CASE i \in 1..Len(tasks) BY <3>1, <2>3 DEF TaskInv
    <3>2. CASE i = Len(tasks) + 1
      <4>1. tasks'[i] = added + 1 BY <2>3, <3>2
      <4>2. Started + i = added + 1 BY <1>0, <3>2 DEF Started
      <4> QED BY <4>1, <4>2
    <3> QED BY <1>0, <2>3, <3>1, <3>2
  <2>6. UNCHANGED <<finished, current>> BY <1>2 DEF addTask
  <2> QED BY <2>4, <2>5, <2>6 DEF TaskInv, Running
<1>3. ASSUME NEW w \in Workers, Take(w) PROVE TaskInv'
  <2>1. tasks # <<>> /\ tasks' = Tail(tasks) /\ added' = added BY <1>3 DEF Take
  <2>2. /\ Len(tasks') = Len(tasks) - 1
        /\ \A i \in 1..Len(tasks') : tasks'[i] = tasks[i + 1]
        /\ Len(tasks) \in Nat \ {0}
    BY <2>1, HeadTailProperties, EmptySeq
  <2>3. Head(tasks) = Started + 1 BY <2>2 DEF TaskInv
  <2>4. Started' = Started + 1 BY <1>0, <2>1, <2>2 DEF Started
  <2>5. \A i \in 1..Len(tasks') : tasks'[i] = Started' + i
    BY <1>0, <2>2, <2>4 DEF TaskInv
  <2>6. current[w] = 0 BY <1>3 DEF Take
  <2>7. current' = [current EXCEPT ![w] = Started + 1] /\ finished' = finished
    BY <1>3, <2>3 DEF Take
  <2>8. Running' = Running \cup {Started + 1} BY <2>6, <2>7 DEF Running, TaskInv
  <2>9. Started + 1 \notin Running /\ Started + 1 \notin finished BY DEF TaskInv
  <2>10. \A u, v \in Workers : current'[u] = current'[v] /\ current'[u] # 0 => u = v
    BY <2>7, <2>9 DEF TaskInv, Running
  <2>11. (1..(Started + 1)) \ finished = ((1..Started) \ finished) \cup {Started + 1}
    BY <2>9 DEF TaskInv
  <2> QED BY <2>4, <2>5, <2>7, <2>8, <2>10, <2>11 DEF TaskInv
<1>4. ASSUME NEW w \in Workers, Finish(w) PROVE TaskInv'
  <2>1. /\ tasks' = tasks /\ added' = added
        /\ finished' = finished \cup {current[w]}
        /\ current' = [current EXCEPT ![w] = 0]
    BY <1>4 DEF Finish
  <2>2. current[w] # 0 BY <1>4 DEF Finish
  <2>3. current[w] \in Running BY <2>2 DEF Running
  <2>4. Running' = Running \ {current[w]} BY <2>1, <2>2 DEF Running, TaskInv
  <2>5. Started' = Started BY <2>1 DEF Started
  <2>6. \A u, v \in Workers : current'[u] = current'[v] /\ current'[u] # 0 => u = v
    BY <2>1 DEF TaskInv
  <2> QED BY <2>1, <2>3, <2>4, <2>5, <2>6 DEF TaskInv
<1> QED
  BY <1>1, <1>2, <1>3, <1>4
  DEF PoolNext, WorkerStep, DtorStep, addTask, notify_one, Wait, Exit, TaskThrows,
      SpuriousWakeup, Stop, NotifyAll, Join, ProcessEnds, poolVars

\* The invariant of the proof gives the property of the run.
LEMMA TaskInvTaskOnce == PoolTypeOK /\ TaskInv => TaskOnce
<1> SUFFICES ASSUME PoolTypeOK, TaskInv PROVE TaskOnce OBVIOUS
<1>1. tasks \in Seq(1..MaxTasks) BY DEF PoolTypeOK
<1>2. tasks = [i \in 1..Len(tasks) |-> tasks[i]] BY <1>1, LenProperties
<1>3. tasks = [i \in 1..Len(tasks) |-> added - Len(tasks) + i]
  BY <1>2 DEF TaskInv, Started
<1> QED BY <1>3 DEF TaskInv, TaskOnce, Started, Running

-----------------------------------------------------------------------------
(***************************************************************************)
(* The pool implements TaskQueue                                           *)
(***************************************************************************)

\* The pool starts as an open queue without tasks.
LEMMA QueueInit == PoolInit => Queue!Init
<1> SUFFICES ASSUME PoolInit PROVE Queue!Init OBVIOUS
<1>1. added = 0 /\ Len(tasks) = 0 BY EmptySeq DEF PoolInit
<1>2. added - Len(tasks) = 0 BY <1>1
<1> QED BY <1>2 DEF PoolInit, Queue!Init

\* addTask() is Add, taking is Start, returning is Finish, the destructor is Stop and Leave.
LEMMA QueueStep ==
  PoolTypeOK /\ WakeInv /\ TaskInv /\ [PoolNext]_poolVars => [Queue!Next]_(Queue!vars)
<1> SUFFICES ASSUME PoolTypeOK, WakeInv, TaskInv, [PoolNext]_poolVars
             PROVE  [Queue!Next]_(Queue!vars)
  OBVIOUS
<1> USE DEF PoolTypeOK, WakeInv, StopInv, Queue!Next, Queue!vars
<1>0. Len(tasks) \in Nat /\ added \in Nat OBVIOUS
<1>1. ASSUME NEW p \in Producers, addTask(p) PROVE Queue!Add \/ Queue!Terminate
  <2>1. CASE stop BY <1>1, <2>1 DEF addTask, Queue!Terminate
  <2>2. CASE ~stop
    <3>1. tasks' = Append(tasks, added + 1) /\ added' = added + 1 BY <1>1, <2>2 DEF addTask
    <3>2. Len(tasks') = Len(tasks) + 1
      BY <1>1, <3>1, AppendProperties DEF addTask
    <3>3. added' - Len(tasks') = added - Len(tasks) BY <1>0, <3>1, <3>2
    <3> QED BY <1>1, <2>2, <3>1, <3>3 DEF addTask, Queue!Add
  <2> QED BY <2>1, <2>2
<1>2. ASSUME NEW w \in Workers, Take(w) PROVE Queue!Start
  <2>1. tasks # <<>> /\ tasks' = Tail(tasks) /\ added' = added BY <1>2 DEF Take
  <2>2. Len(tasks') = Len(tasks) - 1 /\ Len(tasks) \in Nat \ {0}
    BY <2>1, HeadTailProperties, EmptySeq
  <2>3. added' - Len(tasks') = added - Len(tasks) + 1 /\ added - Len(tasks) < added
    BY <1>0, <2>1, <2>2
  <2>4. dtor # "done" BY <1>2 DEF Take
  <2> QED BY <1>2, <2>3, <2>4 DEF Take, Queue!Start
<1>3. ASSUME NEW w \in Workers, Finish(w) PROVE Queue!Finish
  <2>1. current[w] \in (1..(added - Len(tasks))) \ finished
    BY <1>3 DEF Finish, TaskInv, Running, Started
  <2>2. dtor # "done" BY <1>3 DEF Finish
  <2> QED BY <1>3, <2>1, <2>2 DEF Finish, Queue!Finish
<1>4. CASE Stop BY <1>4 DEF Stop, Queue!Stop
<1>5. CASE Join
  <2>1. tasks = <<>> BY <1>5 DEF Join
  <2>2. Len(tasks) = 0 BY <2>1, EmptySeq
  <2>3. \A w \in Workers : current[w] = 0 BY <1>5 DEF Join
  <2>4. Running = {} BY <2>3 DEF Running
  <2>5. Started = added BY <1>0, <2>2 DEF Started
  <2>6. finished \subseteq 1..added /\ {} = (1..added) \ finished BY <2>4, <2>5 DEF TaskInv
  <2>7. finished = 1..added BY <2>6
  <2> QED BY <1>5, <2>7 DEF Join, Queue!Leave
<1>6. ASSUME NEW w \in Workers, TaskThrows(w) PROVE Queue!Terminate
  BY <1>6 DEF TaskThrows, Queue!Terminate
<1>7. CASE ProcessEnds BY <1>7 DEF ProcessEnds, Queue!Terminate
<1>8. ASSUME NEW p \in Producers, notify_one(p) PROVE UNCHANGED Queue!vars BY <1>8 DEF notify_one
<1>9. ASSUME NEW w \in Workers, Wait(w) \/ Exit(w) \/ SpuriousWakeup(w)
      PROVE UNCHANGED Queue!vars
  <2>1. UNCHANGED <<tasks, stop, added, finished, dtor, terminated>>
    BY <1>9 DEF Wait, Exit, SpuriousWakeup
  <2> QED BY <2>1
<1>10. CASE NotifyAll BY <1>10 DEF NotifyAll
<1>11. CASE UNCHANGED poolVars BY <1>11 DEF poolVars
<1> QED
  BY <1>1, <1>2, <1>3, <1>4, <1>5, <1>6, <1>7, <1>8, <1>9, <1>10, <1>11
  DEF PoolNext, WorkerStep, DtorStep

-----------------------------------------------------------------------------
(***************************************************************************)
(* The server                                                              *)
(***************************************************************************)

\* Every step of the server is a step of the pool or leaves it alone.
LEMMA ServerStepPool == Next => PoolNext \/ UNCHANGED poolVars
<1> SUFFICES ASSUME Next PROVE PoolNext \/ UNCHANGED poolVars OBVIOUS
<1> USE DEF PoolNext
<1>1. CASE Exiting
  BY <1>1 DEF Exiting, Construct, run, JoinIo, CloseLog, DestroyServer, DestroyLocals,
              DestroyConfig, DestroyPool, Ended
<1>2. CASE ConfigUnreadable \/ ConfigRefused \/ ConstructFails
  BY <1>2 DEF ConfigUnreadable, ConfigRefused, ConstructFails
<1>t. CASE ConstructTerminates BY <1>t DEF ConstructTerminates
<1>3. ASSUME NEW p \in Producers,
             on_accept(p) \/ on_accept_error(p) \/ on_read(p) \/ on_signal(p) \/ IoReturns(p)
      PROVE  UNCHANGED poolVars
  BY <1>3 DEF on_accept, on_accept_error, on_read, on_signal, IoReturns
<1>4. ASSUME NEW p \in Producers, SessionThrows(p) \/ on_read_adds(p) \/ Notifies(p)
      PROVE  PoolNext
  BY <1>4 DEF SessionThrows, on_read_adds, Notifies
<1>5. ASSUME NEW w \in Workers, Works(w) \/ Fault(w) PROVE PoolNext
  BY <1>5 DEF Works, Fault
<1>6. ASSUME NEW w \in Workers, NEW c \in TaskUses, Use(w, c) PROVE UNCHANGED poolVars
  BY <1>6 DEF Use
<1> QED BY <1>1, <1>2, <1>3, <1>4, <1>5, <1>6, <1>t DEF Next

\* The server, seen at its pool, is the pool: start-up, signal and destruction only
\* restrict when tasks are added and when the destructor runs.
THEOREM ServerImplementsPool == Spec => PoolSpec
<1>1. Init => PoolInit BY DEF Init
<1>2. [Next]_vars => [PoolNext]_poolVars BY ServerStepPool DEF vars
<1> QED BY <1>1, <1>2, PTL DEF Spec, PoolSpec

\* The pool's types, for any number of threads and tasks.
THEOREM PoolTypeCorrect == PoolSpec => []PoolTypeOK
BY PoolTypeInit, PoolTypeStep, PTL DEF PoolSpec

\* No wakeup is lost in the server: while a task is queued and every worker waits, its
\* notification is still to come, and ~ThreadPool() leaves no worker waiting.
THEOREM NoLostWakeupCorrect == Spec => []NoLostWakeup
<1>1. PoolSpec => []WakeInv
  BY PoolTypeCorrect, WakeInit, WakeStep, PTL DEF PoolSpec
<1>2. WakeInv => NoLostWakeup BY DEF WakeInv
<1> QED BY <1>1, <1>2, ServerImplementsPool, PTL

\* Each task is queued, running or finished exactly once, in the order of addTask().
THEOREM TaskOnceCorrect == Spec => []TaskOnce
<1>1. PoolSpec => []TaskInv
  BY PoolTypeCorrect, TaskInit, TaskStep, PTL DEF PoolSpec
<1> QED BY <1>1, PoolTypeCorrect, TaskInvTaskOnce, ServerImplementsPool, PTL

\* The thread pool of the server implements TaskQueue: tasks start once and in order,
\* none is added after the stop, and the pool is gone only when all are finished.
THEOREM QueueRefinement == Spec => ImplementsTaskQueue
<1>1. PoolSpec => []WakeInv
  BY PoolTypeCorrect, WakeInit, WakeStep, PTL DEF PoolSpec
<1>2. PoolSpec => []TaskInv
  BY PoolTypeCorrect, TaskInit, TaskStep, PTL DEF PoolSpec
<1>3. PoolSpec => Queue!Spec
  BY <1>1, <1>2, PoolTypeCorrect, QueueInit, QueueStep, PTL DEF PoolSpec, Queue!Spec
<1> QED BY <1>3, ServerImplementsPool, PTL DEF ImplementsTaskQueue

-----------------------------------------------------------------------------
(***************************************************************************)
(* The server: types                                                       *)
(***************************************************************************)

Components == {Boot[i] : i \in 1..Len(Boot)}

\* The components that exist can be counted, and when there are as many as Boot has, all exist.
LEMMA UpCounted ==
  ASSUME up \subseteq Components
  PROVE  Cardinality(up) \in Nat /\ (Cardinality(up) = Len(Boot) => up = Components)
<1>1. Len(Boot) = 8 /\ DOMAIN Boot = 1..8 BY DEF Boot
<1>2. IsFiniteSet(1..8)
  <2>1. 1 \in Int /\ 8 \in Int OBVIOUS
  <2> QED BY <2>1, FS_Interval
<1>3. Boot \in Surjection(1..8, Components) BY <1>1 DEF Surjection, Components, Boot
<1>4. /\ IsFiniteSet(Components) /\ Cardinality(Components) <= Cardinality(1..8)
      /\ Cardinality(Components) \in Nat
  BY <1>2, <1>3, FS_Surjection, FS_CardinalityType
<1>5. Cardinality(1..8) = 8
  <2>1. 1 \in Int /\ 8 \in Int /\ 8 - 1 + 1 = 8 /\ ~(1 > 8) OBVIOUS
  <2> QED BY <2>1, FS_Interval
<1>6. /\ IsFiniteSet(up) /\ Cardinality(up) <= Cardinality(Components)
      /\ Cardinality(Components) = Cardinality(up) => Components = up
  BY <1>4, FS_Subset
<1>7. Cardinality(up) \in Nat BY <1>6, FS_CardinalityType
<1>8. Cardinality(up) = 8 => Cardinality(Components) = Cardinality(up)
  BY <1>4, <1>5, <1>6, <1>7
<1> QED BY <1>1, <1>6, <1>7, <1>8

\* The part of the state that is not the pool's.
ServerTypeOK ==
  /\ main \in {"boot", "run", "~server", "exit", "ended"}
  /\ up \subseteq Components
  /\ failed \in BOOLEAN /\ listening \in BOOLEAN /\ accepting \in BOOLEAN
  /\ conns \in 0..MaxConns
  /\ io \in [Producers -> {"none", "run", "read", "out"}]
  /\ stopped \in BOOLEAN
  /\ misuse \subseteq TaskUses

\* The server starts with its variables in their types.
LEMMA ServerTypeInit == Init => ServerTypeOK
<1> SUFFICES ASSUME Init PROVE ServerTypeOK OBVIOUS
<1>1. conns \in 0..MaxConns BY DEF Init
<1>2. io \in [Producers -> {"none", "run", "read", "out"}] BY DEF Init
<1> QED BY <1>1, <1>2 DEF Init, ServerTypeOK

\* Every step of the server keeps the types.
LEMMA ServerTypeStep == ServerTypeOK /\ [Next]_vars => ServerTypeOK'
<1> SUFFICES ASSUME ServerTypeOK, [Next]_vars PROVE ServerTypeOK' OBVIOUS
<1> USE DEF ServerTypeOK
<1>1. CASE Construct
  <2>1. Cardinality(up) + 1 \in 1..Len(Boot) BY <1>1, UpCounted DEF Construct, Boot
  <2>2. NextComponent \in Components BY <2>1 DEF NextComponent, Components
  <2> QED BY <1>1, <2>2 DEF Construct
<1>2. CASE run \/ JoinIo BY <1>2 DEF run, JoinIo
<1>3. CASE CloseLog \/ DestroyLocals \/ DestroyConfig \/ Ended
  BY <1>3 DEF CloseLog, DestroyLocals, DestroyConfig, Ended
<1>4. CASE DestroyServer BY <1>4 DEF DestroyServer, TaskUses
<1>5. CASE DestroyPool \/ (DtorStep /\ UNCHANGED serverVars)
  BY <1>5 DEF DestroyPool, serverVars
<1>6. CASE ConfigUnreadable \/ ConstructFails BY <1>6 DEF ConfigUnreadable, ConstructFails
<1>t. CASE ConstructTerminates BY <1>t DEF ConstructTerminates, serverVars
<1>7. CASE ConfigRefused
  <2>1. Boot[1] = "config" /\ 1 \in 1..Len(Boot) BY DEF Boot
  <2>2. "config" \in Components BY <2>1 DEF Components
  <2> QED BY <1>7, <2>2 DEF ConfigRefused
<1>8. ASSUME NEW p \in Producers, on_accept(p) \/ on_accept_error(p) \/ on_signal(p)
      PROVE  ServerTypeOK'
  <2>1. CASE on_accept(p)
    <3>1. conns' \in 0..MaxConns BY <2>1 DEF on_accept
    <3> QED BY <2>1, <3>1 DEF on_accept
  <2>2. CASE on_accept_error(p) \/ on_signal(p)
    BY <2>2 DEF on_accept_error, on_signal
  <2> QED BY <1>8, <2>1, <2>2
<1>9. ASSUME NEW p \in Producers, SessionThrows(p) \/ Notifies(p) PROVE ServerTypeOK'
  BY <1>9 DEF SessionThrows, Notifies, serverVars
<1>10. ASSUME NEW p \in Producers, on_read(p) \/ on_read_adds(p) \/ IoReturns(p)
       PROVE  ServerTypeOK'
  BY <1>10 DEF on_read, on_read_adds, IoReturns
<1>11. ASSUME NEW w \in Workers, Works(w) \/ Fault(w) PROVE ServerTypeOK'
  BY <1>11 DEF Works, Fault, serverVars
<1>12. ASSUME NEW w \in Workers, NEW c \in TaskUses, Use(w, c) PROVE ServerTypeOK'
  BY <1>12 DEF Use
<1>13. CASE UNCHANGED vars BY <1>13 DEF vars, serverVars
<1> QED
  BY <1>1, <1>2, <1>3, <1>4, <1>5, <1>6, <1>7, <1>8, <1>9, <1>10, <1>11, <1>12, <1>13, <1>t
  DEF Next, Exiting

\* Type correctness of the whole server, its pool included.
THEOREM TypeCorrect == Spec => []TypeOK
<1>1. Spec => []ServerTypeOK BY ServerTypeInit, ServerTypeStep, PTL DEF Spec
<1>2. PoolTypeOK /\ ServerTypeOK => TypeOK BY DEF TypeOK, ServerTypeOK, Components
<1> QED BY <1>1, <1>2, PoolTypeCorrect, ServerImplementsPool, PTL

-----------------------------------------------------------------------------
(***************************************************************************)
(* No task is added to a stopped pool                                      *)
(***************************************************************************)

\* The io threads are inside ioc_.run() only while main() is in run(), and the pool is
\* stopped only when main() has returned.
IoInv ==
  /\ main # "run" => \A p \in Producers : io[p] \in {"none", "out"}
  /\ stop => main \in {"exit", "ended"}
  /\ ~refused

\* No io thread runs at the start.
LEMMA IoInit == Init => IoInv
BY DEF Init, PoolInit, IoInv

\* run() brackets the io threads, and the stop comes after it.
LEMMA IoStep == IoInv /\ [Next]_vars => IoInv'
<1> SUFFICES ASSUME IoInv, [Next]_vars PROVE IoInv' OBVIOUS
<1> USE DEF IoInv, poolVars
<1>1. CASE Construct \/ CloseLog \/ DestroyServer \/ DestroyLocals \/ DestroyConfig
  BY <1>1 DEF Construct, CloseLog, DestroyServer, DestroyLocals, DestroyConfig
<1>2. CASE run BY <1>2 DEF run
<1>3. CASE JoinIo BY <1>3 DEF JoinIo
<1>4. CASE DestroyPool BY <1>4 DEF DestroyPool, Stop, LocalsGone, serverVars
<1>5. CASE Ended BY <1>5 DEF Ended, LocalsGone
<1>6. CASE DtorStep /\ UNCHANGED serverVars
  BY <1>6 DEF DtorStep, NotifyAll, Join, serverVars
<1>7. CASE ConfigUnreadable \/ ConfigRefused \/ ConstructFails
  BY <1>7 DEF ConfigUnreadable, ConfigRefused, ConstructFails
<1>t. CASE ConstructTerminates BY <1>t DEF ConstructTerminates, ProcessEnds, serverVars
<1>8. ASSUME NEW p \in Producers, on_accept(p) \/ on_accept_error(p) \/ on_signal(p)
      PROVE  IoInv'
  BY <1>8 DEF on_accept, on_accept_error, on_signal
<1>9. ASSUME NEW p \in Producers, SessionThrows(p) \/ Notifies(p) PROVE IoInv'
  BY <1>9 DEF SessionThrows, ProcessEnds, Notifies, notify_one, serverVars
<1>10. ASSUME NEW p \in Producers, on_read(p) PROVE IoInv'
  <2>1. main = "run" BY <1>10 DEF on_read, Free
  <2> QED BY <1>10, <2>1 DEF on_read
<1>11. ASSUME NEW p \in Producers, on_read_adds(p) PROVE IoInv'
  <2>1. main = "run" /\ ~stop BY <1>11 DEF on_read_adds
  <2> QED BY <1>11, <2>1 DEF on_read_adds, addTask
<1>12. ASSUME NEW p \in Producers, IoReturns(p) PROVE IoInv'
  <2>1. main = "run" BY <1>12 DEF IoReturns
  <2> QED BY <1>12, <2>1 DEF IoReturns
<1>13. ASSUME NEW w \in Workers, Works(w) PROVE IoInv'
  BY <1>13 DEF Works, WorkerStep, Wait, Take, Exit, Finish, serverVars
<1>14. ASSUME NEW w \in Workers, Fault(w) PROVE IoInv'
  BY <1>14 DEF Fault, TaskThrows, SpuriousWakeup, serverVars
<1>15. ASSUME NEW w \in Workers, NEW c \in TaskUses, Use(w, c) PROVE IoInv'
  BY <1>15 DEF Use
<1>16. CASE UNCHANGED vars BY <1>16 DEF vars, serverVars
<1> QED
  BY <1>1, <1>2, <1>3, <1>4, <1>5, <1>6, <1>7, <1>8, <1>9, <1>10, <1>11, <1>12, <1>13,
     <1>14, <1>15, <1>16, <1>t
  DEF Next, Exiting

\* A handler never adds a task to a stopped pool, whenever the signal comes: run() joins
\* the io threads before main() returns and the pool can be destroyed.
THEOREM NeverRefusedCorrect == Spec => []NeverRefused
<1>1. IoInv => NeverRefused BY DEF IoInv, NeverRefused
<1> QED BY <1>1, IoInit, IoStep, PTL DEF Spec

-----------------------------------------------------------------------------
(***************************************************************************)
(* No component is missing before the signal                               *)
(***************************************************************************)

\* Tasks and connections exist only once run() was entered, with every component made;
\* run() is left only after the signal, because an io thread leaves ioc_.run() only then.
UpInv ==
  /\ main = "run" => up = Components
  /\ main = "boot" \/ failed => added = 0 /\ \A p \in Producers : io[p] = "none"
  /\ failed => main \in {"exit", "ended"}
  /\ main \in {"~server", "exit", "ended"} => failed \/ stopped
  /\ \A p \in Producers : io[p] = "out" => stopped
  /\ MisuseOnlyAfterSignal

\* Nothing exists and nothing is used at the start.
LEMMA UpInit == Init => UpInv
BY DEF Init, PoolInit, UpInv, MisuseOnlyAfterSignal

\* A task that is running was added.
LEMMA RunningAdded ==
  ASSUME PoolTypeOK, TaskInv, NEW w \in Workers, worker[w] = "run"
  PROVE  added # 0
<1>1. current[w] \in Running BY DEF PoolTypeOK, Running
<1>2. current[w] \in 1..Started BY <1>1 DEF TaskInv
<1>3. Started \in Nat /\ Len(tasks) \in Nat /\ added \in Nat BY DEF PoolTypeOK, TaskInv
<1>4. Started >= 1 BY <1>2, <1>3
<1> QED BY <1>3, <1>4 DEF Started

\* Components go only after run(), and tasks come only in it.
LEMMA UpStep ==
  TypeOK /\ TaskInv /\ IoInv /\ UpInv /\ [Next]_vars => UpInv'
<1> SUFFICES ASSUME TypeOK, TaskInv, IoInv, UpInv, [Next]_vars PROVE UpInv' OBVIOUS
<1> USE DEF UpInv, MisuseOnlyAfterSignal, poolVars
<1>1. CASE Construct BY <1>1 DEF Construct
<1>2. CASE run
  <2>1. up = Components BY <1>2, UpCounted DEF run, TypeOK, Components
  <2> QED BY <1>2, <2>1 DEF run
<1>3. CASE JoinIo BY <1>3, ProducersAssumption DEF JoinIo
<1>4. CASE CloseLog \/ DestroyLocals \/ DestroyConfig
  BY <1>4 DEF CloseLog, DestroyLocals, DestroyConfig, LocalsGone
<1>5. CASE DestroyServer BY <1>5 DEF DestroyServer
<1>6. CASE DestroyPool \/ (DtorStep /\ UNCHANGED serverVars)
  BY <1>6 DEF DestroyPool, Stop, DtorStep, NotifyAll, Join, serverVars
<1>7. CASE Ended BY <1>7 DEF Ended, LocalsGone
<1>8. CASE ConfigUnreadable \/ ConfigRefused \/ ConstructFails
  BY <1>8 DEF ConfigUnreadable, ConfigRefused, ConstructFails
<1>t. CASE ConstructTerminates BY <1>t DEF ConstructTerminates, ProcessEnds, serverVars
<1>9. ASSUME NEW p \in Producers, on_accept(p) \/ on_accept_error(p) \/ on_signal(p)
      PROVE  UpInv'
  BY <1>9 DEF on_accept, on_accept_error, on_signal
<1>10. ASSUME NEW p \in Producers, SessionThrows(p) \/ Notifies(p) PROVE UpInv'
  BY <1>10 DEF SessionThrows, ProcessEnds, Notifies, notify_one, serverVars
<1>11. ASSUME NEW p \in Producers, on_read(p) \/ IoReturns(p) PROVE UpInv'
  <2>1. main = "run" /\ ~failed BY <1>11 DEF on_read, Free, IoReturns, IoInv
  <2> QED BY <1>11, <2>1 DEF on_read, IoReturns, TypeOK
<1>12. ASSUME NEW p \in Producers, on_read_adds(p) PROVE UpInv'
  <2>1. main = "run" /\ ~failed BY <1>12 DEF on_read_adds, IoInv
  <2> QED BY <1>12, <2>1 DEF on_read_adds, TypeOK
<1>13. ASSUME NEW w \in Workers, Works(w) \/ Fault(w) PROVE UpInv'
  BY <1>13 DEF Works, WorkerStep, Wait, Take, Exit, Finish, Fault, TaskThrows,
               SpuriousWakeup, serverVars
<1>14. ASSUME NEW w \in Workers, NEW c \in TaskUses, Use(w, c) PROVE UpInv'
  <2>1. added # 0 BY <1>14, RunningAdded DEF Use, TypeOK
  <2>2. main # "boot" /\ ~failed BY <2>1
  <2>3. c \in Components
    <3>1. /\ Boot[1] = "config" /\ Boot[2] = "ioc" /\ Boot[3] = "log" /\ Boot[4] = "sql"
          /\ Boot[6] = "ids" /\ Boot[8] = "sessions"
      BY DEF Boot
    <3>2. \A i \in {1, 2, 3, 4, 6, 8} : Boot[i] \in Components BY DEF Components, Boot
    <3> QED BY <3>1, <3>2 DEF TaskUses
  <2>4. stopped BY <1>14, <2>2, <2>3 DEF Use, TypeOK
  <2> QED BY <1>14, <2>4 DEF Use
<1>15. CASE UNCHANGED vars BY <1>15 DEF vars, serverVars
<1> QED
  BY <1>1, <1>2, <1>3, <1>4, <1>5, <1>6, <1>7, <1>8, <1>9, <1>10, <1>11, <1>12, <1>13,
     <1>14, <1>15, <1>t
  DEF Next, Exiting

\* Until the signal no task or session finds a component missing, however many threads
\* and connections there are: run() starts the io threads when all of them are made.
THEOREM MisuseCorrect == Spec => []MisuseOnlyAfterSignal
<1>1. Spec => []TaskInv
  <2>1. PoolSpec => []TaskInv BY PoolTypeCorrect, TaskInit, TaskStep, PTL DEF PoolSpec
  <2> QED BY <2>1, ServerImplementsPool, PTL
<1>2. Spec => []IoInv BY IoInit, IoStep, PTL DEF Spec
<1>3. UpInv => MisuseOnlyAfterSignal BY DEF UpInv
<1> QED BY <1>1, <1>2, <1>3, TypeCorrect, UpInit, UpStep, PTL DEF Spec
=============================================================================
