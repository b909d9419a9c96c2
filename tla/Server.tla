------------------------------- MODULE Server -------------------------------
(***************************************************************************)
(* The life of the process, around the thread pool:                        *)
(*   src/main.cpp                configuration, construction, run, exit;   *)
(*   src/tinychat_server.cpp     the order in which the components are     *)
(*                               made, the signal, the io threads;         *)
(*   src/core/listener.cpp       the accept loop;                          *)
(*   src/utils/config.*          AppConfig::init and its refusals;         *)
(*   src/db/sql_conn_pool.cpp    SqlConnPool::closePool at exit.           *)
(*                                                                         *)
(* The producers of the thread pool are the io threads, main() in          *)
(* ioc_.run() included.  At exit the function-local statics (WSSessionMgr, *)
(* SqlConnPool) are destroyed first, in the reverse order of their         *)
(* construction, then the static members of ThreadPool and AppConfig,      *)
(* which are in different files, in either order.                          *)
(***************************************************************************)
EXTENDS ThreadPool

CONSTANT MaxConns   \* bound: connections accepted

ASSUME ProducersAssumption == Producers # {}
ASSUME MaxConnsAssumption == MaxConns \in Nat

VARIABLES
  main,        \* where main() is
  up,          \* the components that exist
  failed,      \* the constructor of the server threw
  listening,   \* bind() and listen() succeeded
  accepting,   \* an async_accept is outstanding
  conns,       \* connections accepted so far
  io,          \* where each io thread is: "none", "run" (in ioc_.run(), between handlers),
               \* "read" (in the handler of a completed read) or "out" of ioc_.run()
  stopped,     \* ioc_.stop() has been called
  misuse       \* history: components that were used when they did not exist

serverVars == <<main, up, failed, listening, accepting, conns, io, stopped, misuse>>
vars == <<poolVars, serverVars>>

\* The order of construction: AppConfig::init(), then TinychatServer::TinychatServer().
Boot == <<"config", "ioc", "log", "sql", "pool", "ids", "listener", "sessions">>

\* What the tasks of the HTTP and websocket sessions use.
TaskUses == {"config", "ioc", "log", "sql", "ids", "sessions"}

Init ==
  /\ PoolInit
  /\ main = "boot"
  /\ up = {}
  /\ failed = FALSE
  /\ listening = FALSE
  /\ accepting = FALSE
  /\ conns = 0
  /\ io = [p \in Producers |-> "none"]
  /\ stopped = FALSE
  /\ misuse = {}

-----------------------------------------------------------------------------
(***************************************************************************)
(* Construction                                                            *)
(***************************************************************************)

NextComponent == Boot[Cardinality(up) + 1]

\* The next component is made.  Listener's constructor only logs that it could not bind.
Construct ==
  /\ ~terminated /\ main = "boot" /\ Cardinality(up) < Len(Boot)
  /\ up' = up \cup {NextComponent}
  /\ listening' \in IF NextComponent = "listener" THEN BOOLEAN ELSE {listening}
  /\ UNCHANGED <<poolVars, main, failed, accepting, conns, io, stopped, misuse>>

\* AppConfig::init() throws before it makes the configuration: no such file, no ini file.
ConfigUnreadable ==
  /\ main = "boot" /\ up = {}
  /\ failed' = TRUE
  /\ main' = "exit"
  /\ UNCHANGED <<poolVars, up, listening, accepting, conns, io, stopped, misuse>>

\* AppConfig::init() throws while it fills it: a missing key, or a value its setter refuses.
ConfigRefused ==
  /\ main = "boot" /\ up = {}
  /\ up' = {"config"}
  /\ failed' = TRUE
  /\ main' = "exit"
  /\ UNCHANGED <<poolVars, listening, accepting, conns, io, stopped, misuse>>

\* The constructor throws: the log file cannot be opened, the database is unreachable, the
\* system starts no worker thread at all, the address is malformed.  The destructor of a
\* server that was not made does not run, but those of its members do.
ConstructFails ==
  /\ ~terminated /\ main = "boot" /\ Cardinality(up) < Len(Boot)
  /\ NextComponent \in {"log", "sql", "pool", "listener"}
  /\ failed' = TRUE
  /\ up' = up \ {"ioc"}
  /\ main' = "exit"
  /\ UNCHANGED <<poolVars, listening, accepting, conns, io, stopped, misuse>>

\* ThreadPool's constructor throws after it has started some of its threads: its vector is
\* destroyed with threads nobody joined, which ends the process.
ConstructTerminates ==
  /\ main = "boot" /\ Cardinality(up) < Len(Boot)
  /\ NextComponent = "pool" /\ Cardinality(Workers) > 1
  /\ ProcessEnds
  /\ UNCHANGED serverVars

\* Mutation: the listener starts in its constructor.
runEarly ==
  /\ main = "boot" /\ "listener" \in up /\ ~accepting
  /\ accepting' = TRUE
  /\ io' = [p \in Producers |-> "run"]
  /\ UNCHANGED <<poolVars, main, up, failed, listening, conns, stopped, misuse>>

\* run(): the wait for a signal, listener_->run(), the io threads.
run ==
  /\ ~terminated /\ main = "boot" /\ Cardinality(up) = Len(Boot)
  /\ main' = "run"
  /\ accepting' = TRUE
  /\ io' = [p \in Producers |-> "run"]
  /\ UNCHANGED <<poolVars, up, failed, listening, conns, stopped, misuse>>

-----------------------------------------------------------------------------
(***************************************************************************)
(* The io threads                                                          *)
(***************************************************************************)

\* An io thread is free to run the next handler.
Free(p) == ~terminated /\ io[p] = "run" /\ ~stopped /\ p \notin adding

\* on_accept(): a session is made and the next accept started.
on_accept(p) ==
  /\ Free(p) /\ accepting /\ listening
  /\ conns < MaxConns
  /\ conns' = conns + 1
  /\ UNCHANGED <<poolVars, main, up, failed, listening, accepting, io, stopped, misuse>>

\* on_accept() with an error, also because there is no listening socket: it returns, and
\* nobody accepts any more.
on_accept_error(p) ==
  /\ Free(p) /\ accepting
  /\ accepting' = FALSE
  /\ UNCHANGED <<poolVars, main, up, failed, listening, conns, io, stopped, misuse>>

\* The constructor of a session asks for the remote endpoint of its socket, and throws when
\* the client is gone already: nothing catches it in an io thread, or in main() before the
\* io threads are joined.
SessionThrows(p) ==
  /\ Free(p) /\ accepting /\ listening
  /\ ProcessEnds
  /\ UNCHANGED serverVars

\* The handler of a read starts: a session has received a request or a frame.
on_read(p) ==
  /\ Free(p) /\ conns > 0
  /\ added + Cardinality({q \in Producers : io[q] = "read"}) < MaxTasks
  /\ io' = [io EXCEPT ![p] = "read"]
  /\ UNCHANGED <<poolVars, main, up, failed, listening, accepting, conns, stopped, misuse>>

\* The handler adds its task, which it also does when ioc_ was stopped in the meantime.
on_read_adds(p) ==
  /\ io[p] = "read" /\ addTask(p)
  /\ io' = [io EXCEPT ![p] = "run"]
  /\ UNCHANGED <<main, up, failed, listening, accepting, conns, stopped, misuse>>

\* SIGINT or SIGTERM: an io thread calls ioc_.stop().
on_signal(p) ==
  /\ Free(p)
  /\ stopped' = TRUE
  /\ UNCHANGED <<poolVars, main, up, failed, listening, accepting, conns, io, misuse>>

\* ioc_.run() returns once its thread is out of its last handler.
IoReturns(p) ==
  /\ ~terminated /\ io[p] = "run" /\ stopped /\ p \notin adding
  /\ io' = [io EXCEPT ![p] = "out"]
  /\ UNCHANGED <<poolVars, main, up, failed, listening, accepting, conns, stopped, misuse>>

-----------------------------------------------------------------------------
(***************************************************************************)
(* Destruction                                                             *)
(***************************************************************************)

\* Mutation: main() does not join the io threads.
JoinIoNone ==
  /\ ~terminated /\ main = "run"
  /\ \E p \in Producers : io[p] = "out"
  /\ main' = "~server"
  /\ UNCHANGED <<poolVars, up, failed, listening, accepting, conns, io, stopped, misuse>>

\* run(): every io thread has been joined.
JoinIo ==
  /\ ~terminated /\ main = "run"
  /\ \A p \in Producers : io[p] = "out"
  /\ main' = "~server"
  /\ UNCHANGED <<poolVars, up, failed, listening, accepting, conns, io, stopped, misuse>>

\* ~TinychatServer(): spdlog::shutdown().
CloseLog ==
  /\ ~terminated /\ main = "~server" /\ "log" \in up
  /\ up' = up \ {"log"}
  /\ UNCHANGED <<poolVars, main, failed, listening, accepting, conns, io, stopped, misuse>>

\* Then the members of the server go.  ioc_ takes the handlers that are left with it, and
\* those their sessions; the destructor of a websocket session writes to the log.
DestroyServer ==
  /\ ~terminated /\ main = "~server" /\ "log" \notin up
  /\ up' = up \ {"ioc", "listener"}
  /\ accepting' = FALSE
  /\ misuse' \in {misuse} \cup (IF conns > 0 THEN {misuse \cup {"log"}} ELSE {})
  /\ main' = "exit"
  /\ UNCHANGED <<poolVars, failed, listening, conns, io, stopped>>

\* exit(): ~WSSessionMgr(), then ~SqlConnPool(), which closes the idle connections.
DestroyLocals ==
  /\ ~terminated /\ main = "exit"
  /\ \/ "sessions" \in up /\ up' = up \ {"sessions"}
     \/ "sessions" \notin up /\ "sql" \in up /\ up' = up \ {"sql"}
  /\ UNCHANGED <<poolVars, main, failed, listening, accepting, conns, io, stopped, misuse>>

LocalsGone == main = "exit" /\ up \cap {"sessions", "sql"} = {}

\* exit(): the configuration goes, before or after the thread pool.
DestroyConfig ==
  /\ ~terminated /\ LocalsGone /\ "config" \in up
  /\ dtor \in {"none", "done"}
  /\ up' = up \ {"config"}
  /\ UNCHANGED <<poolVars, main, failed, listening, accepting, conns, io, stopped, misuse>>

\* exit(): ~ThreadPool().
DestroyPool ==
  /\ LocalsGone /\ "pool" \in up
  /\ Stop
  /\ UNCHANGED serverVars

\* The process is gone.
Ended ==
  /\ ~terminated /\ LocalsGone
  /\ "config" \notin up
  /\ "pool" \in up => dtor = "done"
  /\ main' = "ended"
  /\ UNCHANGED <<poolVars, up, failed, listening, accepting, conns, io, stopped, misuse>>

\* A task uses a component that does not exist.
Use(w, c) ==
  /\ ~terminated /\ worker[w] = "run"
  /\ c \notin up
  /\ misuse' = misuse \cup {c}
  /\ UNCHANGED <<poolVars, main, up, failed, listening, accepting, conns, io, stopped>>

-----------------------------------------------------------------------------
Exiting ==
  \/ Construct \/ run \/ JoinIo \/ CloseLog \/ DestroyServer \/ DestroyLocals
  \/ DestroyConfig \/ DestroyPool \/ Ended
  \/ DtorStep /\ UNCHANGED serverVars

\* The workers exist once the pool has been made.
Works(w) == "pool" \in up /\ WorkerStep(w) /\ UNCHANGED serverVars

Notifies(p) == notify_one(p) /\ UNCHANGED serverVars

Fault(w) == "pool" \in up /\ (TaskThrows(w) \/ SpuriousWakeup(w)) /\ UNCHANGED serverVars

Next ==
  \/ Exiting \/ ConfigUnreadable \/ ConfigRefused \/ ConstructFails \/ ConstructTerminates
  \/ \E p \in Producers :
       \/ on_accept(p) \/ on_accept_error(p) \/ SessionThrows(p) \/ on_read(p) \/ on_read_adds(p)
       \/ on_signal(p) \/ IoReturns(p) \/ Notifies(p)
  \/ \E w \in Workers : Works(w) \/ Fault(w)
  \/ \E w \in Workers, c \in TaskUses : Use(w, c)

Spec == Init /\ [][Next]_vars

\* The operating system runs every thread, and a task ends; nothing makes a client connect,
\* a signal arrive or a thread wake up by itself.
FairSpec ==
  /\ Spec
  /\ WF_vars(Exiting)
  /\ \A p \in Producers :
       WF_vars(IoReturns(p)) /\ WF_vars(on_read_adds(p)) /\ WF_vars(Notifies(p))
  /\ \A w \in Workers : WF_vars(Works(w))

-----------------------------------------------------------------------------
(***************************************************************************)
(* Properties                                                              *)
(***************************************************************************)

\* Every variable stays in its type.
TypeOK ==
  /\ PoolTypeOK
  /\ main \in {"boot", "run", "~server", "exit", "ended"}
  /\ up \subseteq {Boot[i] : i \in 1..Len(Boot)}
  /\ failed \in BOOLEAN /\ listening \in BOOLEAN /\ accepting \in BOOLEAN
  /\ conns \in 0..MaxConns
  /\ io \in [Producers -> {"none", "run", "read", "out"}]
  /\ stopped \in BOOLEAN
  /\ misuse \subseteq TaskUses

\* No task is added to a stopped pool, which would throw in an io thread and end the
\* process: the io threads are joined before the pool's destructor can run.
NeverRefused == ~refused

\* Until a signal arrives every task and session finds all the components it uses: they are all made
\* before the first connection is accepted.  After the signal it need not: the log, ioc_
\* and the statics are destroyed before ~ThreadPool() waits for the tasks.
MisuseOnlyAfterSignal == misuse # {} => stopped

\* A task that was added is finished or the process is terminated, however the tasks, the
\* signal and the destruction of the pool interleave.
EveryTaskEnds ==
  \A t \in 1..MaxTasks : added >= t ~> (t \in finished \/ terminated)

\* A signal, and a failed construction, end the process.
SignalEnds == (stopped \/ failed) ~> (main = "ended" \/ terminated)
=============================================================================
