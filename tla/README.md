# Verification of tinychat_server

TLA+ models of tinychat_server (a Boost.Beast chat server: HTTP API, websocket messaging,
MySQL): its pools, sessions, id generator, the transactions of its handlers and the life of
its process, checked with TLC, their safety proved with TLAPS. Paths below are relative to the
repository root.

## 1. The system

| Component | Source | State | Operations |
|---|---|---|---|
| Connection pool | `src/db/sql_conn_pool.*`, `src/db/sql_conn_RAII.*` | queue of idle connections under `mtx_`, counting semaphore `smph_`, one connection per guard | `init`, `getConn`/`getSql`, `freeConn`; guard: constructor, `getSql` before each statement, destructor |
| Id generator | `src/utils/snowflake.*` | `last_timestamp_`, `sequence_id_` under one mutex | `init`, `next_id`, `wait_till_next_ms` |
| HTTP session | `src/core/http_session.*` | outstanding read and write, `inflight_requests_`, `response_queue_`, 30 s deadline | `run`, `do_read`, `on_read`, worker task, `queue_write`, `do_write`, `on_write`, `do_close` |
| Websocket session | `src/core/websocket_session.*` | claims, read buffer, `message_queue_`, outstanding operations | `do_accept`, `on_accept`, `on_read`, `send`/`on_send`, `on_write`, destructor |
| Session registry | `src/core/ws_session_mgr.*` | user id -> `weak_ptr` under `mtx_` | `add_session`, `remove_session`, `write_to`, `write_to_room` |
| Websocket handler | `src/core/ws_handler.cpp` | rows of `messages`, `rooms.last_message_id` | `handle_message` |
| Request handler | `src/core/request_handler.*` | rows of `rooms`, `room_members`, `users` | `create_g_room`, `create_p_room`, `delete_room`, `invite_member`, login, register, queries |
| Thread pool | `src/pool/thread_pool.*` | task queue and `stop` under `queue_mutex`, condition variable | `addTask`, worker loop, destructor |
| Listener | `src/core/listener.*` | acceptor | bind, accept loop |
| Server, `main` | `src/tinychat_server.*`, `src/main.cpp` | the components, `io_context`, io threads | construction, `run`, signal, destruction |
| Configuration | `src/utils/config.*` | settings | `init` |

How they interact. The io threads run one strand per connection. `HttpSession::on_read` hands
each request to the thread pool; the worker posts the response back to the strand. An upgrade
request moves the socket to a `WebsocketSession`, which registers itself in the registry and
hands each frame to the pool. `handle_message` takes a connection from the pool, an id from
the generator, commits, and sends through the registry to the sessions of other users; for a
group message it takes a second connection while holding the first. Sessions are owned by
`shared_ptr`s in their pending operations: a session disappears when the last one completes,
in whichever thread that is. After a signal `main` joins the io threads, destroys the server
and leaves the statics (registry, connection pool, thread pool, configuration) to `exit()`.

What is hard. Permits and connections are handed over in separate steps; guards nest;
connections drop at any time; the clock moves between two readings and backwards; strands,
workers and destructors interleave; user sessions overlap on a reconnect; error paths leave
counters and queues as they are; a transaction that loses its connection goes on in autocommit
mode on another one; notifications come after the unlock; tasks outlive the components they use. `PROJECT.json` lists these hazards with their lines and the
properties aimed at them.

What makes each component correct. *Pool*: a permit stands for a connection; a
connection has one user; nothing is lost but what the database drops; nobody waits for ever.
*Ids*: unique and increasing. *HTTP session*: responses in the order of the requests, one write at a
time, a kept-alive connection goes on being read. *Websocket session and registry*: one write at a
time, messages in order, entries name the right and current session. *Handlers*: a request
changes the tables as a whole or not at all, rooms have their owner or their two members, the
last message of a room exists, what is announced or answered with Success is stored. *Thread pool*:
each task is run once, in order, also during destruction. *Process*: a signal ends it, no
component is used before it exists.

## 2. Modules

| Module | Models |
|---|---|
| `SqlConnPool` | the pool, the guard, workers with single and nested guards, drops |
| `SnowFlake` | the generator, its callers, the clock, restarts |
| `HttpSession` | one HTTP connection with its client, its strand and the workers |
| `HttpExchange` | abstract: what an HTTP connection promises; implemented by `HttpSession` |
| `WSSessions` | websocket sessions, the registry, workers that send |
| `ChatRooms` | the handlers that change rooms, members and messages, statement by statement, over connections with transactions |
| `ChatStore` | abstract: each request is one change of the tables; implemented by `ChatRooms`; with the proof that such requests keep the tables in order |
| `ThreadPool` | queue, condition variable, workers, destructor |
| `TaskQueue` | abstract: tasks start once and in order and are drained; implemented by `ThreadPool` |
| `Server` | extends `ThreadPool`: configuration, construction, accept loop, io threads, signal, destruction |
| `MC*` | instances for TLC |
| `SqlConnPoolProofs`, `SnowFlakeProofs`, `HttpSessionProofs`, `WSSessionsProofs`, `ChatRoomsProofs`, `ServerProofs` | theorems about the module of that name and their proofs |

Definitions keep the names of the source (`conn_queue_`, `sequence_id_`, `on_write`);
`PROJECT.json` maps each of them to its lines. An operator whose comment starts with
"Mutation" is a wrong variant of the definition that follows it: with it in place of the
definition, TLC must refute the property `PROJECT.json` names, which shows that the property
depends on that code.

**SqlConnPool.** One step each: taking a permit, popping the queue, the validity check after
the unlock (with its three outcomes), a statement, a destructor. `Begin` starts a task with one guard
("single") or a group message ("group") whose guard is still alive when `write_to_room`
constructs another (`OpenInner`). A handler may return or throw at any point, so `CloseOuter` is
enabled whenever no inner guard is alive. Connections are numbered; `valid` and `schema` say for which ones `isValid()`
holds and which were opened with a default schema. A dropped connection stays invalid
(`OPT_RECONNECT` failing). An exception out of the guard's constructor in `handle_message` ends the
process; the model goes on, which only adds behaviours.

**SnowFlake.** A call that does not wait reads the clock once under the mutex and is one
step. A call that exhausts the millisecond keeps the mutex and each later reading of the clock is
a step, so the clock can move, forward or back, between them. `issued` records the ids over
all restarts. `exposed` records that the clock went back where the code cannot notice: during
the wait, or below `last_timestamp_` over a restart. A restart takes at least a millisecond.

**HttpSession.** Handlers on the strand are steps. `Holders` counts what keeps the
session alive. The deadline is set by `do_read` and also applies to the write. Requests are
numbered in the order they are read; a response carries the number of its request and its
keep-alive flag, which the worker chooses.

**WSSessions.** `Referenced(s)` says that a `shared_ptr` exists: `weak_ptr::lock()` succeeds
exactly then, and the destructor runs some time after it became false. `do_accept` is one
step with `auth_user` and `add_session`; a refused session has an uninitialised user id, any value
of `Garbage`. A write begun before the handshake is over may fail (external: Beast). A frame
is a well-formed message; a buffer with more than one frame does not parse. Of
`handle_message` the module keeps to whom it sends and in which order (`Rounds`: a private
message goes to the other user, then a notice to the sender; a group message to a set of users;
a refusal to the sender; nothing after an error); its statements are in `ChatRooms`.

**ChatRooms.** A worker takes a request (`Asks`) and executes one statement per step. `db` is
the set of committed rows, `tx[w]` what the connection of `w` has inserted and deleted and not
committed, `auto[w]` its autocommit mode, `live[w]` whether it is still valid. A statement on a lost connection takes another one, in autocommit mode,
as `SqlConnRAII::getSql` does; the destructor's `setAutoCommit(true)` commits what is pending.
`torn` is history: the rooms of requests whose transaction lost its connection. So is `late`:
the members invited since the last deletion of their room read its members (`MembersRead`). Other users of
the database are not modelled. External, from how the code uses MySQL: a statement sees
committed rows and its own transaction's; a row changed by an open transaction makes others who
change it wait (`Unlocked`); the keys of `rooms`, `messages` and (`room_id`, `user_id`) are unique
(the comment in `invite_member` relies on the last one); no foreign keys (the repository contains no
schema); a lost connection and the end of the process roll back. `commit()` or `rollback()`
on a lost connection may do nothing or throw. An exception that leaves a task ends the
process (`Escape`).

**ChatStore.** A creation makes a room no row of which exists, with its owner or its two
members; a message comes with the room's `last_message_id`, from a member; an invitation adds a member
to a group, or to a room that is gone; a deletion takes a group, its owner and any of its plain
members. Which of them stay is left open here: a deletion is one step, and "invited
meanwhile" cannot be said of it. `OrphansAreInvited` of `ChatRooms` closes it: those the deletion's
`DELETE FROM room_members` read all go. These guards are what the handlers' checks and the transactions
around them come to; that they do is `ImplementsStore`.

**ThreadPool.** A critical section of `queue_mutex` is one step, a notification another; a
waiting worker may wake up by itself. A task is its number in the order of `addTask`.

**Server.** `up` is the set of components that exist, in the order `AppConfig::init`,
`TinychatServer()`; construction may fail at the configuration, the log, the database, the thread pool and the
listener. A thread pool that fails after it started some of its threads destroys threads nobody joined, which
ends the process (`ConstructTerminates`). That `run()` cannot start an io thread is not modelled. The producers of the pool are the threads in `ioc_.run()`: a read handler that began
before `ioc_.stop()` still adds its task (`on_read`, `on_read_adds`). Destruction follows the
language: the server's destructor, its members, the function-local statics in reverse order, then
the static members of `ThreadPool` and `AppConfig`, whose order is unspecified. `misuse` records
components that were used while they did not exist. Sessions are counted, not modelled: their
behaviour is in `HttpSession` and `WSSessions`.

## 3. Runs

| Run | Shows | Bounds |
|---|---|---|
| `pool` | a worker has the connections its place in the code says (`TypeOK`), permits match the queue, the queue is never empty after a permit, permits bounded, no connection shared, no loss but by drops; a wedge needs as few connections as workers, and with more of them some worker is always free again | 2 workers, 4 connections, 2 drops: 4, 3 and 2 connections remain, so the pool gets from safe to short |
| `pool_wedge` | violated: group messages wait for each other's connections | 2 and 2, as 20 and 20 in `doc/config.ini` |
| `ids_order` | sequence bounded, ids increasing unless exposed | limit 2, 3 milliseconds, 2 set-backs by any amount, 1 restart: milliseconds are exhausted, missed and revisited |
| `ids_back` | violated: a set-back during the wait gives a duplicate | 1 set-back |
| `http_loop` | with limit 1: serial, exact count, keep-alive honoured, every request answered, implements `HttpExchange` | 4 pipelined requests: three full rounds and a last one. Larger limits: `Serial` and the refinement are proved for all of them, and `http_keepalive` shows what they break |
| `http_keepalive` | violated with limit 2: the kept-alive connection is dropped | 2 requests |
| `ws_safety` | entries name a session of the user, never a destroyed one; one write at a time, FIFO, mute only after an error | 2 users, 2 sessions, 2 workers, 2 messages: an old and a new, or a refused and a registered session overlap, and two workers send to one session |
| `ws_live` | handed messages are written unless a write fails or the client goes | 2 sessions, 1 worker, 2 messages |
| `ws_reconnect` | violated: the old session's destructor removes the new session | 2 sessions |
| `ws_frames` | violated: the second frame of a session is dropped | 1 session, 2 frames |
| `rooms` | each request changes the tables as a whole or not at all (`ImplementsStore`), rooms have their owner or members, the only members that outlive a room were invited after its deletion had read the members, `last_message_id` exists, what is announced is stored, and so is what is answered with Success, of all five requests (an invitation unless the room was deleted before the answer), requests end | 2 workers, 2 users, 3 requests, 1 lost connection or crash: a room is created and two requests then meet on it, or two creations and a third request overlap |
| `server` | no wakeup and no task lost, none refused, the pool implements `TaskQueue`, components are missing only after a signal, every task and every signal ends | 2 workers, 2 io threads, 3 tasks, 1 accepted connection: a queue with waiting and busy workers, both handlers adding, a stop at any moment |

The five violated runs are findings; `PROJECT.json` quotes the comment each one contradicts.
Deadlock is switched off in every cfg, because each of these systems may come to rest (a client that
sends no more, a clock at its bound, a wedged pool, requests used up, the process ended); a rest
that is none of these is caught by the liveness properties.

**Fairness.** `pool`: weak fairness of each worker's steps (the operating system runs
every runnable thread); `pool_wedge` adds strong fairness of `acquire()`, so that the
counterexample is not a matter of scheduling. `http_loop` and `ws_live`: weak fairness of the strands and
of the workers. `rooms`: weak fairness of each worker's steps, the database answers; requests, failing
statements, lost connections and crashes are not fair. `server`: weak fairness of each thread,
and tasks end (the handlers' own ends are `EveryRequestEnds` and, with its exception,
`GroupMessageCompletes`); connections, signals, exceptions and spurious wakeups are not fair. Nothing is
assumed of clients or of the deadline.

**What the rooms run does not promise.** Of a torn room nothing is promised, and in the model it
does go wrong: `create_g_room` can answer Success for a group whose first INSERT was rolled back
with the connection, `handle_message` can store a message without updating the room. No comment
of the code speaks of this case, so it is not a finding. The same holds of two facts the other
models show: a replaced pool connection has no default schema (`schema` in `SqlConnPool`), and
after a signal tasks run on without log, registry or connection pool (`misuse` in `Server`).

## 4. Proofs

Proved for every value of the constants, under the assumptions named in the modules: every
invariant and every action property the runs check, and the three refinements.

**SqlConnPoolProofs.** `PermitsMatchQueue` is inductive with `TypeOK`: each step changes
permits, popping workers and the queue together; from it `PopNeverEmpty`. `FramesAgree` (how a
worker's program counter, stage and connections agree, a part of `TypeOK`) gives `WedgeOnlyWhenShort`: in a
wedged pool queue, popped and inner connections are empty, so the connections left are in
distinct workers. `PoolNeverGrows` with `PermitsMatchQueue` gives `PermitBound`.
`ConnExclusive` follows from `ExclInv`, the same fact hand by hand: the queue
names no connection twice (`QueueOnce`), none that a worker has (`QueueApart`), and no
connection is in two hands (`GuardsApart`). `CapacityLossExplained` needs that a
drop costs one valid connection (`ValidCount`) and that every valid connection is in the queue or with
a worker (`ValidHeld`): the capacity is then at least the number of valid connections. Assumed: finitely
many workers, a positive pool size.

**SnowFlakeProofs.** `SequenceBounded` by `SeqInv` (when the mutex is free and the clock is
not past the last id, the sequence number is strictly below the bound; a wait always leaves
the clock ahead); `IncreasingUnlessExposed` by `OrderInv` (the last millisecond and sequence
number bound every id issued; while a call waits, one less), with three lemmas on how `Id`
orders milliseconds and sequence numbers. Assumed: the service id fits its field, the clock stays within the
range of the time field, the sequence limit is half of its field.

**HttpSessionProofs.** `SerialInv` (the session is resting, handling, posted or writing, and in
the last three the last request read is the one unanswered) gives `Serial` and the
refinement `Spec => Exchange!Spec`. `CountInv` (`inflight_requests_` is what was read less what
was answered, as long as the session is open) gives `TypeOK` and `InflightExact`.
`KeepAliveCorrect` says for every limit when keep-alive works: either the connection is kept, or the
limit is above one and exactly the first request was read and answered (`DroppedAfterFirst`), the
failure `http_keepalive` shows. It rests on `ReadInv`: an open session at rest is reading unless it
is in that case, and above a limit of one nothing is read after the first request, which
`OneReadAboveOne` states by itself (`doc/config.ini` sets 35). All of them assume a positive limit only,
which is what the setter in `config.hpp` enforces.

**WSSessionsProofs.** `WriteInv` (one write at most, of the head of the queue; a queue without
a write only after an error) gives `OneWrite` and `MuteOnlyAfterError`; with `HeldInv` (a
worker that holds sessions has a message for them) also that what `on_write` removes exists.
`RegistryInv` strengthens `EntryOwner` and `NoStaleEntry`: the session an entry names is of that
user, was accepted and is not destroyed. That it was accepted is what makes it inductive:
a refused session may carry the id of anybody, and must not be in the registry when it gets it.
`DeliveryFifo` is inductive with the types; its steps are facts about concatenation.
Assumed: only that `None` is no user and no session, and that an uninitialised id is a user or
`None`.

**ChatStore.** `TablesCorrect`: a room has one row, a group exactly one owner, a private room exactly two
members, only plain members are left of a room that is gone, the last message exists. `OneRoom` reduces a
step to the room it changes.

**ChatRoomsProofs.** The handlers implement `ChatStore` (`Refinement`) for any number of workers,
users, requests, lost connections and crashes. Three invariants:

* `TypeInv`: which statements a request consists of (`Place`), where nothing is pending,
  when a connection is in autocommit mode, that rows and requests carry ids that were handed out, that ids are
  handed out once per request at most (`IdsOK`), and that two transactions never hold the same row
  (`LockInv`).
* `TableInv`: what each worker relies on in its room (`Local`), given the committed rows of the
  room and its own pending changes. After the membership check of a message the
  sender is a member *or the room is gone*; after `DELETE FROM room_members` only plain
  members are left *or the room is gone*; after an invitation's INSERT the row is there *or the room is gone*; at `commit()` the row of the room is
  locked, so it is there and has not changed. A room being created has no row yet and nobody
  else has got past a check on it (`RoomFresh`); message ids are fresh (`MsgFresh`); and `ChatStore`'s `Inv` holds.
* `LateInv`: who is left where the room is gone is in `late`, and between a deletion's `DELETE FROM
  room_members` and its end every member it does not remove is. It is inductive because two deletions of one
  room cannot both be past that statement: the second would have to remove the row of the owner,
  which the first one holds locked. So no other deletion empties `late` in between, and an invitation
  only adds to it (`KeepsLate`).

Each action is `Simulated`: it is a step of `ChatStore`, or changes no promised row, and keeps
`TableInv`. The work is in what one worker's commit does to the others in the same room
(`LocalPost`, `LocalInvite`, `LocalDelete`): the locks exclude the combinations that would break
what another one relies on. `RoomHasMembers` and `LastMessageExists` are
`ChatStore`'s `Inv` read in the tables; `OrphansAreInvited` follows from it and `LateInv`; `AnnouncedIsStored` and `SuccessIsStored` are parts of
`Local` at the last labels. The proof made two guards of `ChatStore` explicit that had been
implicit: a creation finds no row of its room, an invitation to an existing room is to a group.
Assumed: finitely many workers, users are numbers, as in the tables. The external behaviour of MySQL in section 2 is
part of the model, not of the proof.

**ServerProofs.** Each step of `Server` is a step of `ThreadPool` or leaves it alone
(`ServerImplementsPool`), so the pool's theorems hold of the server. `WakeInv` adds to
`NoLostWakeup` that `stop` is set exactly from the destructor's first step on and that a
worker leaves only with the queue empty; `TaskInv` is `TaskOnce` element by element, with the
finished tasks among the started ones. Both together give the refinement of `TaskQueue`.
`NeverRefused` rests on `IoInv` (io threads are in `ioc_.run()` only while `main` is in
`run()`, the pool stops only after it); `MisuseOnlyAfterSignal` on `UpInv` (in `run()` every
component exists, tasks exist only from there on, and `run()` is left only after the signal).
Assumed: finitely many and at least one worker, at least one io thread.

Only model-checked: the liveness properties (`SomeWorkerFree`, `RequestAnswered`,
`HandedIsDelivered`, `EveryRequestEnds`, `EveryTaskEnds`, `SignalEnds`): the prover has
no rules for fairness and `ENABLED`.

## 5. Not modelled, and the plan

Not modelled, because they have no state that outlives a call: ini parsing beyond its refusal,
JSON conversions, routing, `extract_target_param`, static files, tokens, password hashing, logging,
`handle_login` and `query_rooms` (read only). `handle_register` inserts one row in autocommit mode; the
uniqueness of user names is the database's. `src/websocket_session.cpp` is not compiled.
`ThreadPool::shutdown`, the futures of `addTask`, `HttpSession::send_response` and
`WSSessionMgr::broadcast` have no callers or no body.

Not composed: `ChatRooms` with `WSSessions`. The code orders the broadcasts of two workers
in no way (the commit and the lookup of sessions are separate steps without a common lock), so
the order in which members see messages is not a property it could have; what the composition
could still say is said in each half (`AnnouncedIsStored`, `DeliveryFifo`).

Order of the plan:

1. done: `SqlConnPool`, `SnowFlake`, `HttpSession` with `HttpExchange`, `WSSessions`, and the
   proofs above;
2. done: `ChatRooms` with `ChatStore`, `ThreadPool` with `TaskQueue`, `Server`, and the safety
   of the last three proved;
3. done: the remaining safety of `SqlConnPool` and `HttpSession`, all of `WSSessions` and
   `ChatRooms` proved, with the refinement of `ChatStore`;
4. to come: the safety steps the liveness properties rest on, as theorems (a request at a
   statement is never blocked by a cycle of row locks; a handed message has a write, a post or an
   error ahead of it; a wedged pool has no other cause than nested guards), so that TLC is
   needed for the fairness argument only.
