----------------------------- MODULE ThreadPool -----------------------------
(***************************************************************************)
(* src/pool/thread_pool.{hpp,cpp}  ThreadPool: a queue of tasks guarded by *)
(* queue_mutex, a condition variable, worker threads, and a destructor     *)
(* that stops and joins them.                                              *)
(*                                                                         *)
(* A critical section of queue_mutex is one step; a notification, which    *)
(* happens after the mutex is released, is another.  Waiting releases the  *)
(* mutex in the same step as the predicate was found false.                *)
(***************************************************************************)
EXTENDS Naturals, Sequences, FiniteSets

CONSTANTS
  Workers,    \* the threads of the pool
  Producers,  \* the threads that add tasks
  MaxTasks    \* bound: tasks added

ASSUME WorkersAssumption == Workers # {} /\ IsFiniteSet(Workers)
ASSUME MaxTasksAssumption == MaxTasks \in Nat

VARIABLES
  tasks,       \* the queue; a task is its number
  stop,
  added,       \* tasks added so far: 1..added
  finished,    \* the tasks that are over
  worker,      \* where each worker is: "check" (about to lock the mutex and evaluate the
               \* predicate), "wait", "run" or "exit"
  current,     \* the task each worker is running
  adding,      \* the producers between the push and notify_one()
  dtor,        \* ~ThreadPool(): "none", "notify", "join" or "done"
  refused,     \* history: a task was added to a stopped pool
  terminated   \* an exception has ended the process

poolVars == <<tasks, stop, added, finished, worker, current, adding, dtor, refused, terminated>>

PoolInit ==
  /\ tasks = <<>>
  /\ stop = FALSE
  /\ added = 0
  /\ finished = {}
  /\ worker = [w \in Workers |-> "check"]
  /\ current = [w \in Workers |-> 0]
  /\ adding = {}
  /\ dtor = "none"
  /\ refused = FALSE
  /\ terminated = FALSE

Waiting == {w \in Workers : worker[w] = "wait"}

\* addTask(), under queue_mutex: the task is pushed, or the pool is stopped and the
\* exception "AddTask on a stopped ThreadPool" leaves the caller, which does not catch it.
addTask(p) ==
  /\ ~terminated /\ p \notin adding /\ dtor # "done"
  /\ added < MaxTasks
  /\ IF stop
     THEN refused' = TRUE /\ terminated' = TRUE /\ UNCHANGED <<tasks, added, adding>>
     ELSE /\ tasks' = Append(tasks, added + 1)
          /\ added' = added + 1
          /\ adding' = adding \cup {p}
          /\ UNCHANGED <<refused, terminated>>
  /\ UNCHANGED <<stop, finished, worker, current, dtor>>

\* Mutation: no notification.
notify_oneLost(p) ==
  /\ ~terminated /\ p \in adding
  /\ adding' = adding \ {p}
  /\ UNCHANGED <<tasks, stop, added, finished, worker, current, dtor, refused, terminated>>

\* addTask(): condition.notify_one() wakes a waiting worker, if there is one.
notify_one(p) ==
  /\ ~terminated /\ p \in adding
  /\ adding' = adding \ {p}
  /\ \/ \E w \in Waiting : worker' = [worker EXCEPT ![w] = "check"]
     \/ Waiting = {} /\ UNCHANGED worker
  /\ UNCHANGED <<tasks, stop, added, finished, current, dtor, refused, terminated>>

\* The worker's loop, under queue_mutex: the predicate is false.
Wait(w) ==
  /\ ~terminated /\ worker[w] = "check"
  /\ ~stop /\ tasks = <<>>
  /\ worker' = [worker EXCEPT ![w] = "wait"]
  /\ UNCHANGED <<tasks, stop, added, finished, current, adding, dtor, refused, terminated>>

\* Mutation: the front of the queue is read and not popped.
TakeNoPop(w) ==
  /\ ~terminated /\ worker[w] = "check"
  /\ tasks # <<>>
  /\ current' = [current EXCEPT ![w] = Head(tasks)]
  /\ worker' = [worker EXCEPT ![w] = "run"]
  /\ UNCHANGED <<tasks, stop, added, finished, adding, dtor, refused, terminated>>

\* Mutation: a stack instead of a queue.
TakeLast(w) ==
  /\ ~terminated /\ worker[w] = "check"
  /\ tasks # <<>>
  /\ tasks' = SubSeq(tasks, 1, Len(tasks) - 1)
  /\ current' = [current EXCEPT ![w] = tasks[Len(tasks)]]
  /\ worker' = [worker EXCEPT ![w] = "run"]
  /\ UNCHANGED <<stop, added, finished, adding, dtor, refused, terminated>>

\* The worker's loop, under queue_mutex: it takes the first task, stopped or not.
Take(w) ==
  /\ ~terminated /\ worker[w] = "check"
  /\ tasks # <<>>
  /\ tasks' = Tail(tasks)
  /\ current' = [current EXCEPT ![w] = Head(tasks)]
  /\ worker' = [worker EXCEPT ![w] = "run"]
  /\ UNCHANGED <<stop, added, finished, adding, dtor, refused, terminated>>

\* The worker's loop, under queue_mutex: stopped and nothing left to do.
Exit(w) ==
  /\ ~terminated /\ worker[w] = "check"
  /\ stop /\ tasks = <<>>
  /\ worker' = [worker EXCEPT ![w] = "exit"]
  /\ UNCHANGED <<tasks, stop, added, finished, current, adding, dtor, refused, terminated>>

\* Mutation: the worker waits for a notification before it looks at the queue again.
FinishWaits(w) ==
  /\ ~terminated /\ worker[w] = "run"
  /\ finished' = finished \cup {current[w]}
  /\ current' = [current EXCEPT ![w] = 0]
  /\ worker' = [worker EXCEPT ![w] = "wait"]
  /\ UNCHANGED <<tasks, stop, added, adding, dtor, refused, terminated>>

\* Mutation: the task outlives its run.
FinishKeepsTask(w) ==
  /\ ~terminated /\ worker[w] = "run"
  /\ finished' = finished \cup {current[w]}
  /\ worker' = [worker EXCEPT ![w] = "check"]
  /\ UNCHANGED <<tasks, stop, added, current, adding, dtor, refused, terminated>>

\* task() returns.
Finish(w) ==
  /\ ~terminated /\ worker[w] = "run"
  /\ finished' = finished \cup {current[w]}
  /\ current' = [current EXCEPT ![w] = 0]
  /\ worker' = [worker EXCEPT ![w] = "check"]
  /\ UNCHANGED <<tasks, stop, added, adding, dtor, refused, terminated>>

\* An exception leaves task() and so the thread function: std::terminate().
TaskThrows(w) ==
  /\ ~terminated /\ worker[w] = "run"
  /\ terminated' = TRUE
  /\ UNCHANGED <<tasks, stop, added, finished, worker, current, adding, dtor, refused>>

\* An exception that leaves another thread, or main(), ends the process too.
ProcessEnds ==
  /\ ~terminated
  /\ terminated' = TRUE
  /\ UNCHANGED <<tasks, stop, added, finished, worker, current, adding, dtor, refused>>

\* External: condition_variable::wait() may return without a notification.
SpuriousWakeup(w) ==
  /\ ~terminated /\ worker[w] = "wait"
  /\ worker' = [worker EXCEPT ![w] = "check"]
  /\ UNCHANGED <<tasks, stop, added, finished, current, adding, dtor, refused, terminated>>

\* ~ThreadPool(), under queue_mutex.
Stop ==
  /\ ~terminated /\ dtor = "none"
  /\ stop' = TRUE
  /\ dtor' = "notify"
  /\ UNCHANGED <<tasks, added, finished, worker, current, adding, refused, terminated>>

\* Mutation: the destructor wakes one worker only.
NotifyAllOne ==
  /\ ~terminated /\ dtor = "notify"
  /\ \/ \E w \in Waiting : worker' = [worker EXCEPT ![w] = "check"]
     \/ Waiting = {} /\ UNCHANGED worker
  /\ dtor' = "join"
  /\ UNCHANGED <<tasks, stop, added, finished, current, adding, refused, terminated>>

\* ~ThreadPool(): condition.notify_all().
NotifyAll ==
  /\ ~terminated /\ dtor = "notify"
  /\ worker' = [w \in Workers |-> IF w \in Waiting THEN "check" ELSE worker[w]]
  /\ dtor' = "join"
  /\ UNCHANGED <<tasks, stop, added, finished, current, adding, refused, terminated>>

\* ~ThreadPool(): every worker has been joined.
Join ==
  /\ ~terminated /\ dtor = "join"
  /\ \A w \in Workers : worker[w] = "exit"
  /\ dtor' = "done"
  /\ UNCHANGED <<tasks, stop, added, finished, worker, current, adding, refused, terminated>>

WorkerStep(w) == Wait(w) \/ Take(w) \/ Exit(w) \/ Finish(w)

DtorStep == NotifyAll \/ Join

PoolNext ==
  \/ \E p \in Producers : addTask(p) \/ notify_one(p)
  \/ \E w \in Workers : WorkerStep(w) \/ TaskThrows(w) \/ SpuriousWakeup(w)
  \/ Stop \/ DtorStep \/ ProcessEnds

PoolSpec == PoolInit /\ [][PoolNext]_poolVars

-----------------------------------------------------------------------------
(***************************************************************************)
(* Properties                                                              *)
(***************************************************************************)

\* Every variable stays in its type, and a worker has a task exactly while it runs it.
PoolTypeOK ==
  /\ tasks \in Seq(1..MaxTasks)
  /\ stop \in BOOLEAN
  /\ added \in 0..MaxTasks
  /\ finished \subseteq 1..MaxTasks
  /\ worker \in [Workers -> {"check", "wait", "run", "exit"}]
  /\ current \in [Workers -> 0..MaxTasks]
  /\ \A w \in Workers : worker[w] = "run" <=> current[w] # 0
  /\ adding \subseteq Producers
  /\ dtor \in {"none", "notify", "join", "done"}
  /\ refused \in BOOLEAN
  /\ terminated \in BOOLEAN

\* No wakeup is lost.  While a task is queued and every worker waits, a notification for it
\* is still to come; and once the destructor has notified, no worker waits.
NoLostWakeup ==
  /\ tasks # <<>> /\ Waiting = Workers => adding # {}
  /\ dtor \in {"join", "done"} => Waiting = {}

\* A task is in the queue, running or finished, exactly once and in order: none is lost,
\* none is run twice, also while the pool is being destroyed.
TaskOnce ==
  /\ tasks = [i \in 1..Len(tasks) |-> added - Len(tasks) + i]
  /\ {current[w] : w \in Workers} \ {0} = (1..(added - Len(tasks))) \ finished
  /\ \A v, w \in Workers : current[v] = current[w] /\ current[v] # 0 => v = w

Queue == INSTANCE TaskQueue WITH
  started <- added - Len(tasks),
  state <- IF dtor = "done" THEN "gone"
           ELSE IF terminated THEN "terminated"
           ELSE IF stop THEN "stopping" ELSE "open"

\* The pool implements TaskQueue.
ImplementsTaskQueue == Queue!Spec
=============================================================================
