----------------------------- MODULE WSSessions -----------------------------
(***************************************************************************)
(* Websocket sessions and their registry:                                  *)
(*   src/core/websocket_session.{hpp,cpp}  WebsocketSession: the life of a *)
(*                    connection, its read loop and its write queue;       *)
(*   src/core/ws_session_mgr.{hpp,cpp}     WSSessionMgr: user id ->        *)
(*                    weak_ptr of the session, guarded by mtx_;            *)
(*   src/core/ws_handler.cpp               only which users a message is   *)
(*                    sent to, and in which order.                         *)
(*                                                                         *)
(* Steps: a handler on a session's strand, a critical section of mtx_, a   *)
(* send() by a worker thread, the destructor of a session.  A session is   *)
(* destroyed some time after its last shared_ptr is gone; from that moment *)
(* on weak_ptr::lock() fails.                                              *)
(***************************************************************************)
EXTENDS Naturals, Sequences, FiniteSets

CONSTANTS
  Users,        \* user ids
  Sessions,     \* session objects
  Workers,      \* worker threads
  None,         \* no session, no user
  Garbage,      \* what a user id that was never written may be
  MaxFrames     \* bound: frames read from all clients together

ASSUME NoneAssumption == None \notin Users /\ None \notin Sessions
ASSUME GarbageAssumption == Garbage \subseteq Users \cup {None}
ASSUME FramesAssumption == MaxFrames \in Nat

VARIABLES
  phase,           \* how far each session is
  id,              \* user_claims_.id of each session
  peer,            \* whether the client is still there
  reading,         \* an async_read is outstanding
  buffer_,         \* frames in the read buffer
  posted,          \* messages posted to the strand by send()
  message_queue_,
  writes,          \* outstanding async_write operations
  broken,          \* history: a write of the session failed
  wire,            \* history: messages written to the client
  handed,          \* history: messages handed to send()
  sessions_,       \* WSSessionMgr: the session registered for each user
  frames,          \* frames read so far; a frame's number is its message
  tasks,           \* tasks in the thread pool
  rounds,          \* worker: the message for each set of users it still has to look up
  held,            \* worker: shared_ptrs it holds
  tosend,          \* worker: sessions it still has to send() to
  dropped          \* history: messages of well-formed frames that were rejected

sessionVars == <<phase, id, peer, reading, buffer_, message_queue_, writes, broken, wire>>
workerVars == <<rounds, held, tosend>>
vars == <<sessionVars, posted, handed, sessions_, frames, tasks, workerVars, dropped>>

Init ==
  /\ phase = [s \in Sessions |-> "none"]
  /\ id = [s \in Sessions |-> None]
  /\ peer = [s \in Sessions |-> TRUE]
  /\ reading = [s \in Sessions |-> FALSE]
  /\ buffer_ = [s \in Sessions |-> 0]
  /\ posted = [s \in Sessions |-> <<>>]
  /\ message_queue_ = [s \in Sessions |-> <<>>]
  /\ writes = [s \in Sessions |-> 0]
  /\ broken = [s \in Sessions |-> FALSE]
  /\ wire = [s \in Sessions |-> <<>>]
  /\ handed = [s \in Sessions |-> <<>>]
  /\ sessions_ = [u \in Users |-> None]
  /\ frames = 0
  /\ tasks = <<>>
  /\ rounds = [w \in Workers |-> <<>>]
  /\ held = [w \in Workers |-> {}]
  /\ tosend = [w \in Workers |-> {}]
  /\ dropped = {}

\* The shared_ptrs to a session: the handshake, a read or a write under way, a posted
\* message, a pointer in a worker.
Referenced(s) ==
  \/ phase[s] = "handshake"
  \/ reading[s]
  \/ writes[s] > 0
  \/ posted[s] # <<>>
  \/ \E w \in Workers : s \in held[w]

-----------------------------------------------------------------------------
(***************************************************************************)
(* The life of a session                                                   *)
(***************************************************************************)

\* Mutation: auth_user() registers the session before it has stored the claims.
do_acceptRegisterFirst(s, u) ==
  /\ phase[s] = "none"
  /\ id' = [id EXCEPT ![s] = u]
  /\ \E g \in Garbage \ {None} : sessions_' = [sessions_ EXCEPT ![g] = s]
  /\ phase' = [phase EXCEPT ![s] = "handshake"]
  /\ UNCHANGED <<peer, reading, buffer_, posted, message_queue_, writes, broken, wire,
                 handed, frames, tasks, workerVars, dropped>>

\* do_accept() with a valid token: auth_user() stores the claims and registers the
\* session, replacing an older one of the user; then async_accept starts.
do_accept(s, u) ==
  /\ phase[s] = "none"
  /\ id' = [id EXCEPT ![s] = u]
  /\ sessions_' = [sessions_ EXCEPT ![u] = s]
  /\ phase' = [phase EXCEPT ![s] = "handshake"]
  /\ UNCHANGED <<peer, reading, buffer_, posted, message_queue_, writes, broken, wire,
                 handed, frames, tasks, workerVars, dropped>>

\* do_accept() without a valid token: it returns and the session is dropped.
\* user_claims_.id was never written: it is whatever was in memory, the id of a
\* user or of nobody (None).
do_accept_refused(s, garbage) ==
  /\ phase[s] = "none"
  /\ id' = [id EXCEPT ![s] = garbage]
  /\ phase' = [phase EXCEPT ![s] = "over"]
  /\ UNCHANGED <<peer, reading, buffer_, posted, message_queue_, writes, broken, wire,
                 handed, sessions_, frames, tasks, workerVars, dropped>>

\* on_accept(): the read loop starts, or the handshake failed.
on_accept(s) ==
  /\ phase[s] = "handshake"
  /\ \/ /\ phase' = [phase EXCEPT ![s] = "open"]
        /\ reading' = [reading EXCEPT ![s] = TRUE]
     \/ /\ ~peer[s]
        /\ phase' = [phase EXCEPT ![s] = "over"]
        /\ UNCHANGED reading
  /\ UNCHANGED <<id, peer, buffer_, posted, message_queue_, writes, broken, wire,
                 handed, sessions_, frames, tasks, workerVars, dropped>>

\* on_read() of a frame: the whole buffer_, from which nothing is ever consumed, is
\* the message of a new task; the next read is started.
on_read(s) ==
  /\ reading[s] /\ peer[s]
  /\ frames < MaxFrames
  /\ frames' = frames + 1
  /\ buffer_' = [buffer_ EXCEPT ![s] = @ + 1]
  /\ tasks' = Append(tasks, [from |-> id[s], msg |-> frames + 1, parses |-> buffer_[s] = 0])
  /\ UNCHANGED <<phase, id, peer, reading, posted, message_queue_, writes, broken, wire,
                 handed, sessions_, workerVars, dropped>>

\* on_read() with an error or a close: the handler returns.
on_read_error(s) ==
  /\ reading[s] /\ ~peer[s]
  /\ reading' = [reading EXCEPT ![s] = FALSE]
  /\ phase' = [phase EXCEPT ![s] = "over"]
  /\ UNCHANGED <<id, peer, buffer_, posted, message_queue_, writes, broken, wire,
                 handed, sessions_, frames, tasks, workerVars, dropped>>

\* Mutation: on_send() starts a write whether or not one is under way.
on_sendNoCheck(s) ==
  /\ posted[s] # <<>>
  /\ posted' = [posted EXCEPT ![s] = Tail(@)]
  /\ message_queue_' = [message_queue_ EXCEPT ![s] = Append(@, Head(posted[s]))]
  /\ writes' = [writes EXCEPT ![s] = @ + 1]
  /\ UNCHANGED <<phase, id, peer, reading, buffer_, broken, wire, handed, sessions_,
                 frames, tasks, workerVars, dropped>>

\* on_send(): the first message of the queue starts the write loop.
on_send(s) ==
  /\ posted[s] # <<>>
  /\ posted' = [posted EXCEPT ![s] = Tail(@)]
  /\ message_queue_' = [message_queue_ EXCEPT ![s] = Append(@, Head(posted[s]))]
  /\ writes' = [writes EXCEPT ![s] = IF message_queue_[s] = <<>> THEN @ + 1 ELSE @]
  /\ UNCHANGED <<phase, id, peer, reading, buffer_, broken, wire, handed, sessions_,
                 frames, tasks, workerVars, dropped>>

\* Mutation: on_write() starts the next write without popping the message.
on_writeNoPop(s) ==
  /\ writes[s] > 0 /\ peer[s]
  /\ wire' = [wire EXCEPT ![s] = Append(@, Head(message_queue_[s]))]
  /\ UNCHANGED <<phase, id, peer, reading, buffer_, posted, message_queue_, writes, broken,
                 handed, sessions_, frames, tasks, workerVars, dropped>>

\* Mutation: on_write() does not go on with the rest of the queue.
on_writeOnce(s) ==
  /\ writes[s] > 0 /\ peer[s]
  /\ wire' = [wire EXCEPT ![s] = Append(@, Head(message_queue_[s]))]
  /\ message_queue_' = [message_queue_ EXCEPT ![s] = Tail(@)]
  /\ writes' = [writes EXCEPT ![s] = @ - 1]
  /\ UNCHANGED <<phase, id, peer, reading, buffer_, posted, broken, handed, sessions_,
                 frames, tasks, workerVars, dropped>>

\* on_write(): pop, and go on while there are messages.
on_write(s) ==
  /\ writes[s] > 0 /\ peer[s]
  /\ wire' = [wire EXCEPT ![s] = Append(@, Head(message_queue_[s]))]
  /\ message_queue_' = [message_queue_ EXCEPT ![s] = Tail(@)]
  /\ writes' = [writes EXCEPT ![s] = IF Len(message_queue_[s]) > 1 THEN @ ELSE @ - 1]
  /\ UNCHANGED <<phase, id, peer, reading, buffer_, posted, broken, handed, sessions_,
                 frames, tasks, workerVars, dropped>>

\* on_write() with an error, because the client is gone or because the write
\* was started before the handshake was over: the handler returns and the
\* message stays in the queue.
on_write_error(s) ==
  /\ writes[s] > 0
  /\ ~peer[s] \/ phase[s] = "handshake"
  /\ writes' = [writes EXCEPT ![s] = @ - 1]
  /\ broken' = [broken EXCEPT ![s] = TRUE]
  /\ UNCHANGED <<phase, id, peer, reading, buffer_, posted, message_queue_, wire,
                 handed, sessions_, frames, tasks, workerVars, dropped>>

\* Mutation: the destructor leaves the registry alone.
DestroyKeepsEntry(s) ==
  /\ phase[s] \in {"open", "over"}
  /\ ~Referenced(s)
  /\ phase' = [phase EXCEPT ![s] = "destroyed"]
  /\ UNCHANGED <<id, peer, reading, buffer_, posted, message_queue_, writes, broken, wire,
                 handed, sessions_, frames, tasks, workerVars, dropped>>

\* ~WebsocketSession(): remove_session(user_claims_.id) erases the entry of that
\* user, whichever session it names; what the session held, and its history, go with it.
Destroy(s) ==
  /\ phase[s] \in {"open", "over"}
  /\ ~Referenced(s)
  /\ phase' = [phase EXCEPT ![s] = "destroyed"]
  /\ sessions_' = [u \in Users |-> IF u = id[s] THEN None ELSE sessions_[u]]
  /\ buffer_' = [buffer_ EXCEPT ![s] = 0]
  /\ message_queue_' = [message_queue_ EXCEPT ![s] = <<>>]
  /\ wire' = [wire EXCEPT ![s] = <<>>]
  /\ handed' = [handed EXCEPT ![s] = <<>>]
  /\ broken' = [broken EXCEPT ![s] = FALSE]
  /\ id' = [id EXCEPT ![s] = None]
  /\ peer' = [peer EXCEPT ![s] = TRUE]
  /\ UNCHANGED <<reading, posted, writes, frames, tasks, workerVars, dropped>>

-----------------------------------------------------------------------------
(***************************************************************************)
(* The worker threads: WSHandler::handle_message, write_to, write_to_room  *)
(***************************************************************************)

Idle(w) == rounds[w] = <<>> /\ held[w] = {}

\* The users handle_message writes to, by what the frame turns out to be: the other user
\* and then the sender for a private message; the members of the room at once, as
\* write_to_room reads them, for a group message; the sender alone when it is not a member
\* of the room; nobody when the type is unknown, the data is not as expected or the
\* database throws.
Rounds(from, m) ==
  LET To(users) == [users |-> users, msg |-> m] IN
  {<<To({u}), To({from})>> : u \in Users} \cup {<<To(members)>> : members \in SUBSET Users}
    \cup {<<To({from})>>, <<>>}

\* A worker takes the next task.  A buffer that holds more than one frame is not
\* one JSON value: json::parse throws and the message goes nowhere.
handle_message(w) ==
  /\ Idle(w) /\ tasks # <<>>
  /\ tasks' = Tail(tasks)
  /\ LET task == Head(tasks) IN
     IF task.parses
     THEN /\ \E todo \in Rounds(task.from, task.msg) : rounds' = [rounds EXCEPT ![w] = todo]
          /\ UNCHANGED dropped
     ELSE /\ dropped' = dropped \cup {task.msg}
          /\ UNCHANGED rounds
  /\ UNCHANGED <<sessionVars, posted, handed, sessions_, frames, held, tosend>>

\* write_to() and write_to_room(), under mtx_: the sessions of the users that can
\* still be locked; the entries of those that cannot are erased.  With no session to send
\* to the call returns.
Lookup(w) ==
  /\ rounds[w] # <<>> /\ held[w] = {}
  /\ LET users == Head(rounds[w]).users
         found == {sessions_[u] : u \in users} \ {None}
         alive == {s \in found : Referenced(s)}
     IN /\ held' = [held EXCEPT ![w] = alive]
        /\ tosend' = [tosend EXCEPT ![w] = alive]
        /\ rounds' = [rounds EXCEPT ![w] = IF alive = {} THEN Tail(@) ELSE @]
        /\ sessions_' = [u \in Users |->
                           IF u \in users /\ sessions_[u] \notin alive THEN None
                           ELSE sessions_[u]]
  /\ UNCHANGED <<sessionVars, posted, handed, frames, tasks, dropped>>

\* WebsocketSession::send() by a worker: post on_send() to the session's strand.
send(w, s) ==
  /\ s \in tosend[w]
  /\ tosend' = [tosend EXCEPT ![w] = @ \ {s}]
  /\ posted' = [posted EXCEPT ![s] = Append(@, Head(rounds[w]).msg)]
  /\ handed' = [handed EXCEPT ![s] = Append(@, Head(rounds[w]).msg)]
  /\ UNCHANGED <<sessionVars, sessions_, frames, tasks, rounds, held, dropped>>

\* Mutation: the pointers go before every message is posted.
ReleaseEarly(w) ==
  /\ held[w] # {}
  /\ held' = [held EXCEPT ![w] = {}]
  /\ rounds' = [rounds EXCEPT ![w] = Tail(@)]
  /\ UNCHANGED <<sessionVars, posted, handed, sessions_, frames, tasks, tosend, dropped>>

\* write_to() or write_to_room() returns and its shared_ptrs go.
Release(w) ==
  /\ held[w] # {} /\ tosend[w] = {}
  /\ held' = [held EXCEPT ![w] = {}]
  /\ rounds' = [rounds EXCEPT ![w] = Tail(@)]
  /\ UNCHANGED <<sessionVars, posted, handed, sessions_, frames, tasks, tosend, dropped>>

-----------------------------------------------------------------------------
\* External: the client of a session goes away.
ClientGone(s) ==
  /\ phase[s] \in {"handshake", "open"} /\ peer[s]
  /\ peer' = [peer EXCEPT ![s] = FALSE]
  /\ UNCHANGED <<phase, id, reading, buffer_, posted, message_queue_, writes, broken, wire,
                 handed, sessions_, frames, tasks, workerVars, dropped>>

\* What the server does for a session by itself, whatever the clients do.
Serve(s) ==
  on_accept(s) \/ on_read_error(s) \/ on_send(s) \/ on_write(s) \/ on_write_error(s) \/ Destroy(s)

Work(w) ==
  \/ handle_message(w)
  \/ Lookup(w)
  \/ \E s \in Sessions : send(w, s)
  \/ Release(w)

Next ==
  \/ \E s \in Sessions, u \in Users : do_accept(s, u)
  \/ \E s \in Sessions, garbage \in Garbage : do_accept_refused(s, garbage)
  \/ \E s \in Sessions : on_read(s)
  \/ \E s \in Sessions : Serve(s)
  \/ \E w \in Workers : Work(w)
  \/ \E s \in Sessions : ClientGone(s)

Spec == Init /\ [][Next]_vars

\* The io threads run every strand, and the worker threads run.
FairSpec ==
  Spec /\ (\A s \in Sessions : WF_vars(Serve(s))) /\ (\A w \in Workers : WF_vars(Work(w)))

-----------------------------------------------------------------------------
(***************************************************************************)
(* Properties                                                              *)
(***************************************************************************)

Message == 1..MaxFrames
Task == [from : Users, msg : Message, parses : BOOLEAN]
Round == [users : SUBSET Users, msg : Message]

\* Every variable stays in its type, and a worker sends only to sessions whose
\* pointers it holds.
TypeOK ==
  /\ phase \in [Sessions -> {"none", "handshake", "open", "over", "destroyed"}]
  /\ id \in [Sessions -> Users \cup {None}]
  /\ peer \in [Sessions -> BOOLEAN]
  /\ reading \in [Sessions -> BOOLEAN]
  /\ buffer_ \in [Sessions -> 0..MaxFrames]
  /\ posted \in [Sessions -> Seq(Message)]
  /\ message_queue_ \in [Sessions -> Seq(Message)]
  /\ writes \in [Sessions -> Nat]
  /\ broken \in [Sessions -> BOOLEAN]
  /\ wire \in [Sessions -> Seq(Message)]
  /\ handed \in [Sessions -> Seq(Message)]
  /\ sessions_ \in [Users -> Sessions \cup {None}]
  /\ frames \in 0..MaxFrames
  /\ tasks \in Seq(Task)
  /\ rounds \in [Workers -> Seq(Round)]
  /\ held \in [Workers -> SUBSET Sessions]
  /\ tosend \in [Workers -> SUBSET Sessions]
  /\ \A w \in Workers : tosend[w] \subseteq held[w]
  /\ dropped \subseteq Message

\* A message for a user never goes to another user's session: the registry names
\* for a user only sessions authenticated as that user, even after the destructor of
\* a session that was never authenticated has erased the entry of somebody else.
EntryOwner == \A u \in Users : sessions_[u] # None => id[sessions_[u]] = u

\* Once the destructor of a session has run, the registry does not name it any more: no
\* entry is left behind for ever.
NoStaleEntry == \A u \in Users : sessions_[u] # None => phase[sessions_[u]] # "destroyed"

\* A session never has two async_writes under way, which Beast does not allow,
\* whatever the worker threads send meanwhile.
OneWrite == \A s \in Sessions : writes[s] <= 1

\* The messages handed to a session reach the client in that order, none twice and none
\* skipped: at every moment they are what was written, then what is queued, then what
\* is posted.
DeliveryFifo ==
  \A s \in Sessions : handed[s] = wire[s] \o message_queue_[s] \o posted[s]

\* The write loop stops with messages in the queue only after a failed write.
MuteOnlyAfterError ==
  \A s \in Sessions : message_queue_[s] # <<>> /\ writes[s] = 0 => broken[s]

\* A message handed to a session is written, or a write of the session fails, or its
\* client goes away.
HandedIsDelivered ==
  \A s \in Sessions : \A m \in Message :
    (\E i \in 1..Len(handed[s]) : handed[s][i] = m)
      ~> ((\E i \in 1..Len(wire[s]) : wire[s][i] = m) \/ broken[s] \/ ~peer[s])

\* A user with one open session is registered with it: when a session exists
\* already, add_session() "updates to the new weak_ptr" (ws_session_mgr.cpp:20).
OnlineReachable ==
  \A s \in Sessions :
    (/\ phase[s] = "open" /\ peer[s]
     /\ \A r \in Sessions \ {s} : id[r] = id[s] => phase[r] = "destroyed")
      => sessions_[id[s]] = s

\* The message of every frame read from an authenticated session is processed: a
\* group message is "broadcast to all members of the group" (ws_handler.cpp:151).
EveryFrameHandled == dropped = {}
=============================================================================
