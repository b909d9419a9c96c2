------------------------------ MODULE ChatRooms ------------------------------
(***************************************************************************)
(* The requests that change rooms, members and messages, statement by      *)
(* statement:                                                              *)
(*   src/core/request_handler.hpp  create_g_room, create_p_room,           *)
(*                                 delete_room, invite_member;             *)
(*   src/core/ws_handler.cpp       handle_message;                         *)
(*   src/db/sql_conn_RAII.*        begin_transaction, commit, rollback,    *)
(*                                 the swap of a lost connection before a  *)
(*                                 statement, and the destructor.          *)
(*                                                                         *)
(* The database is external.  A statement outside a transaction is         *)
(* committed at once; inside one it is pending, and its rows are locked    *)
(* until the transaction ends.  A lock is a row: the gap locks InnoDB may  *)
(* take besides only make an invitation wait for a deletion, after which   *)
(* it goes on as it does here.  The only constraints assumed are the       *)
(* primary keys and that a user is in a room once, which invite_member     *)
(* relies on.  Ids come from SnowFlake and are fresh.                      *)
(***************************************************************************)
EXTENDS Naturals, FiniteSets

CONSTANTS
  Workers,      \* the threads of pool::ThreadPool
  Users,        \* user ids
  MaxRequests,  \* bound: requests taken by the workers
  MaxFaults     \* bound: connections dropped under a guard, and crashes of the server

ASSUME WorkersAssumption == IsFiniteSet(Workers)
ASSUME UsersAssumption == Users \subseteq Nat
ASSUME BoundsAssumption == MaxRequests \in Nat /\ MaxFaults \in Nat

VARIABLES
  db,           \* the committed rows
  tx,           \* rows inserted and deleted by each worker's open transaction
  auto,         \* the connection of each worker's guard is in autocommit mode
  live,         \* ... and is still valid
  pc,           \* the statement each worker is about to execute
  req,          \* the request each worker is handling
  ids,          \* ids handed out so far: 1..ids
  requests,     \* requests taken so far
  faults,       \* drops and crashes so far
  torn,         \* history: rooms on which a request lost the connection of its transaction
  late          \* history: members invited since a deletion last read those of their room

connVars == <<tx, auto, live>>
boundVars == <<requests, faults>>
vars == <<db, connVars, pc, req, ids, boundVars, torn, late>>

\* The tables, and what the handlers promise of them.
Store == INSTANCE ChatStore WITH
  Ids <- 1..MaxRequests,
  rows <- {x \in db : x.room \notin torn},
  lost <- torn

NoTx == [ins |-> {}, del |-> {}]
NoReq == [kind |-> "none", room |-> 0, user |-> 0, other |-> 0, msg |-> 0]

Init ==
  /\ db = {}
  /\ tx = [w \in Workers |-> NoTx]
  /\ auto = [w \in Workers |-> TRUE]
  /\ live = [w \in Workers |-> TRUE]
  /\ pc = [w \in Workers |-> "idle"]
  /\ req = [w \in Workers |-> NoReq]
  /\ ids = 0
  /\ requests = 0
  /\ faults = 0
  /\ torn = {}
  /\ late = {}

-----------------------------------------------------------------------------
(***************************************************************************)
(* The database and the guard                                              *)
(***************************************************************************)

Goto(w, label) == pc' = [pc EXCEPT ![w] = label]

\* The rows a statement of w finds: the committed ones with its own changes.
View(w) == (db \ tx[w].del) \cup tx[w].ins

SameKey(x, y) ==
  x.table = y.table /\ x.room = y.room /\ (x.table # "rooms" => x.key = y.key)

\* No other transaction holds the lock of one of the rows.
Unlocked(w, rows) ==
  \A v \in Workers \ {w} : \A x \in tx[v].ins \cup tx[v].del, y \in rows : ~SameKey(x, y)

\* Mutation: the loss of the connection goes unnoticed.
ExecuteNoSwap(w, ins, del) ==
  /\ Unlocked(w, ins \cup del)
  /\ tx' = [tx EXCEPT ![w] = [ins |-> (@.ins \ del) \cup ins, del |-> @.del \cup del]]
  /\ UNCHANGED <<db, auto, live>>

\* execute_update: SqlConnRAII::getSql() first swaps a lost connection for another one
\* of the pool, which is in autocommit mode.
Execute(w, ins, del) ==
  /\ Unlocked(w, ins \cup del)
  /\ IF auto[w] \/ ~live[w]
     THEN /\ db' = (db \ del) \cup ins
          /\ auto' = [auto EXCEPT ![w] = TRUE]
          /\ live' = [live EXCEPT ![w] = TRUE]
          /\ UNCHANGED tx
     ELSE /\ tx' = [tx EXCEPT ![w] = [ins |-> (@.ins \ del) \cup ins, del |-> @.del \cup del]]
          /\ UNCHANGED <<db, auto, live>>

\* execute_query swaps a lost connection as well.
Query(w) ==
  /\ auto' = [auto EXCEPT ![w] = @ \/ ~live[w]]
  /\ live' = [live EXCEPT ![w] = TRUE]

\* ~SqlConnRAII(): setAutoCommit(true), which commits what is pending; then the task is over.
\* A lost connection has nothing pending.
Destroy(w) ==
  /\ db' = View(w)
  /\ tx' = [tx EXCEPT ![w] = NoTx]
  /\ auto' = [auto EXCEPT ![w] = TRUE]
  /\ live' = [live EXCEPT ![w] = TRUE]
  /\ req' = [req EXCEPT ![w] = NoReq]
  /\ Goto(w, "idle")

\* The destructor after a rollback, or when nothing was changed.
Leave(w) ==
  /\ tx' = [tx EXCEPT ![w] = NoTx]
  /\ auto' = [auto EXCEPT ![w] = TRUE]
  /\ live' = [live EXCEPT ![w] = TRUE]
  /\ req' = [req EXCEPT ![w] = NoReq]
  /\ Goto(w, "idle")
  /\ UNCHANGED db

\* Mutation: the catch block answers without rollback(), and the destructor commits.
CatchNoRollback(w) == Destroy(w) /\ UNCHANGED <<ids, boundVars, torn, late>>

\* Mutation: the catch block tries the request again.
CatchRetries(w) ==
  /\ tx' = [tx EXCEPT ![w] = NoTx]
  /\ Goto(w, "begin")
  /\ UNCHANGED <<db, auto, live, req, ids, boundVars, torn, late>>

\* An exception is caught: rollback(), a response that is not Success, the destructor.
\* invite_member has no transaction; what it throws is caught by handle_chat_room.
Catch(w) == Leave(w) /\ UNCHANGED <<ids, boundVars, torn, late>>

\* The process ends and is started again: the database rolls every transaction back.
Terminate ==
  /\ tx' = [v \in Workers |-> NoTx]
  /\ auto' = [v \in Workers |-> TRUE]
  /\ live' = [v \in Workers |-> TRUE]
  /\ pc' = [v \in Workers |-> "idle"]
  /\ req' = [v \in Workers |-> NoReq]
  /\ UNCHANGED <<db, ids, requests, torn, late>>

-----------------------------------------------------------------------------
(***************************************************************************)
(* The handlers                                                            *)
(***************************************************************************)

Kinds == {"g_room", "p_room", "message", "delete", "invite"}

\* A worker takes a request and constructs its guard.  The room of a request is any id
\* handed out so far, of a room or not.
Request(w, kind, room, user, other) ==
  /\ pc[w] = "idle"
  /\ requests < MaxRequests
  /\ requests' = requests + 1
  /\ req' = [req EXCEPT ![w] = [kind |-> kind, room |-> room, user |-> user,
                                other |-> other, msg |-> 0]]
  /\ Goto(w, IF kind = "invite" THEN "check" ELSE "begin")
  /\ UNCHANGED <<db, connVars, ids, faults, torn, late>>

\* begin_transaction(); the creations then take the id of their room.  On a connection
\* that is lost already no transaction begins.
Begin(w) ==
  LET creates == req[w].kind \in {"g_room", "p_room"}
      room == IF creates THEN ids + 1 ELSE req[w].room
  IN /\ pc[w] = "begin"
     /\ auto' = [auto EXCEPT ![w] = ~live[w]]
     /\ ids' = IF creates THEN ids + 1 ELSE ids
     /\ req' = [req EXCEPT ![w].room = room]
     /\ Goto(w, IF creates THEN "insert_room" ELSE "check")
     /\ torn' = IF live[w] THEN torn ELSE torn \cup {room}
     /\ UNCHANGED <<db, tx, live, boundVars, late>>

RoomType(kind) == IF kind = "g_room" THEN Store!GROUP ELSE Store!PRIVATE

\* create_g_room, create_p_room: INSERT INTO rooms.
InsertRoom(w) ==
  /\ pc[w] = "insert_room"
  /\ Execute(w, {Store!RoomRow(req[w].room, RoomType(req[w].kind), 0)}, {})
  /\ Goto(w, "insert_members")
  /\ UNCHANGED <<req, ids, boundVars, torn, late>>

\* create_g_room adds the owner and returns; create_p_room adds two different users and
\* commits.
InsertMembers(w) ==
  LET q == req[w] IN
  /\ pc[w] = "insert_members"
  /\ \/ /\ q.kind = "g_room"
        /\ Execute(w, {Store!MemberRow(q.room, q.user, Store!OWNER)}, {})
        /\ Goto(w, "close")
     \/ /\ q.kind = "p_room" /\ q.user # q.other
        /\ Execute(w, {Store!MemberRow(q.room, u, Store!PRIVATE_MEMBER) :
                         u \in {q.user, q.other}}, {})
        /\ Goto(w, "commit")
  /\ UNCHANGED <<req, ids, boundVars, torn, late>>

\* The question each handler asks before it changes anything: whether the sender is a
\* member, whether the user is the owner, whether the room is a group.
Allowed(w) ==
  LET q == req[w] IN
  CASE q.kind = "message" -> \E x \in Store!In(View(w), "room_members", q.room) : x.key = q.user
    [] q.kind = "delete"  -> Store!MemberRow(q.room, q.user, Store!OWNER) \in View(w)
    [] q.kind = "invite"  -> \E x \in Store!In(View(w), "rooms", q.room) : x.key = Store!GROUP

AfterCheck(kind) ==
  CASE kind = "message" -> "insert_message"
    [] kind = "delete"  -> "delete_members"
    [] kind = "invite"  -> "insert_member"

\* Mutation: anybody may delete.
CheckNoOwner(w) ==
  /\ pc[w] = "check"
  /\ IF Allowed(w) \/ req[w].kind = "delete"
     THEN Query(w) /\ Goto(w, AfterCheck(req[w].kind)) /\ UNCHANGED <<db, tx, req>>
     ELSE Leave(w)
  /\ UNCHANGED <<ids, boundVars, torn, late>>

\* The SELECT, and the early return with an error response.
Check(w) ==
  /\ pc[w] = "check"
  /\ IF Allowed(w)
     THEN Query(w) /\ Goto(w, AfterCheck(req[w].kind)) /\ UNCHANGED <<db, tx, req>>
     ELSE Leave(w)
  /\ UNCHANGED <<ids, boundVars, torn, late>>

\* handle_message: next_id() and INSERT INTO messages.
InsertMessage(w) ==
  LET q == req[w] IN
  /\ pc[w] = "insert_message"
  /\ Execute(w, {Store!MessageRow(q.room, ids + 1, q.user)}, {})
  /\ ids' = ids + 1
  /\ req' = [req EXCEPT ![w].msg = ids + 1]
  /\ Goto(w, "update_room")
  /\ UNCHANGED <<boundVars, torn, late>>

\* Mutation: the UPDATE is executed by a guard of its own.
UpdateRoomOwnGuard(w) ==
  LET q == req[w] IN
  /\ pc[w] = "update_room"
  /\ \E x \in Store!In(db, "rooms", q.room) :
       /\ Unlocked(w, {x})
       /\ db' = (db \ {x}) \cup {Store!RoomRow(q.room, x.key, q.msg)}
  /\ Goto(w, "commit")
  /\ UNCHANGED <<connVars, req, ids, boundVars, torn, late>>

\* Mutation: the members are told before the commit.
UpdateRoomNoCommit(w) ==
  LET q == req[w] IN
  /\ pc[w] = "update_room"
  /\ \E x \in Store!In(View(w), "rooms", q.room) :
       Execute(w, {Store!RoomRow(q.room, x.key, q.msg)}, {x})
  /\ Goto(w, "broadcast")
  /\ UNCHANGED <<req, ids, boundVars, torn, late>>

\* handle_message: UPDATE rooms SET last_message_id, of one room.
UpdateRoom(w) ==
  LET q == req[w] IN
  /\ pc[w] = "update_room"
  /\ \E x \in Store!In(View(w), "rooms", q.room) :
       Execute(w, {Store!RoomRow(q.room, x.key, q.msg)}, {x})
  /\ Goto(w, "commit")
  /\ UNCHANGED <<req, ids, boundVars, torn, late>>

\* The deletion of a room that is there has read the room's members.
MembersRead(r) ==
  late' = IF Store!In(db, "rooms", r) = {} THEN late ELSE {y \in late : y.room # r}

\* Mutation: only the user who asked is deleted.
DeleteMembersOwnerOnly(w) ==
  /\ pc[w] = "delete_members"
  /\ Execute(w, {}, {x \in Store!In(View(w), "room_members", req[w].room) :
                       x.key = req[w].user})
  /\ MembersRead(req[w].room)
  /\ Goto(w, "delete_room")
  /\ UNCHANGED <<req, ids, boundVars, torn>>

\* delete_room: DELETE FROM room_members, at least one.
DeleteMembers(w) ==
  /\ pc[w] = "delete_members"
  /\ Store!In(View(w), "room_members", req[w].room) # {}
  /\ Execute(w, {}, Store!In(View(w), "room_members", req[w].room))
  /\ MembersRead(req[w].room)
  /\ Goto(w, "delete_room")
  /\ UNCHANGED <<req, ids, boundVars, torn>>

\* delete_room: DELETE FROM rooms, the room.
DeleteRoom(w) ==
  /\ pc[w] = "delete_room"
  /\ Store!In(View(w), "rooms", req[w].room) # {}
  /\ Execute(w, {}, Store!In(View(w), "rooms", req[w].room))
  /\ Goto(w, "commit")
  /\ UNCHANGED <<req, ids, boundVars, torn, late>>

Invited(w) == {x \in Store!In(View(w), "room_members", req[w].room) : x.key = req[w].other}

\* invite_member: INSERT INTO room_members of a user who is not in the room.
InsertMember(w) ==
  LET row == Store!MemberRow(req[w].room, req[w].other, Store!MEMBER) IN
  /\ pc[w] = "insert_member"
  /\ Invited(w) = {}
  /\ Execute(w, {row}, {})
  /\ late' = late \cup {row}
  /\ Goto(w, "close")
  /\ UNCHANGED <<req, ids, boundVars, torn>>

\* A statement that changed no row, where the handler throws, or that broke the
\* uniqueness of room members, where the driver does.
Reject(w) ==
  /\ \/ pc[w] = "insert_members" /\ req[w].kind = "p_room" /\ req[w].user = req[w].other
     \/ pc[w] = "update_room" /\ Store!In(View(w), "rooms", req[w].room) = {}
     \/ pc[w] = "delete_members" /\ Store!In(View(w), "room_members", req[w].room) = {}
     \/ pc[w] = "delete_room" /\ Store!In(View(w), "rooms", req[w].room) = {}
     \/ pc[w] = "insert_member" /\ Invited(w) # {} /\ Unlocked(w, Invited(w))
  /\ Catch(w)

\* commit().  On a lost connection it has nothing to commit.
Commit(w) ==
  /\ pc[w] = "commit"
  /\ db' = View(w)
  /\ tx' = [tx EXCEPT ![w] = NoTx]
  /\ Goto(w, IF req[w].kind = "message" THEN "broadcast" ELSE "close")
  /\ UNCHANGED <<auto, live, req, ids, boundVars, torn, late>>

\* write_to() or write_to_room(), with MsgSentInfo or the message itself for the sender.
Broadcast(w) ==
  /\ pc[w] = "broadcast"
  /\ Goto(w, "close")
  /\ UNCHANGED <<db, connVars, req, ids, boundVars, torn, late>>

\* Mutation: the destructor returns the connection without setAutoCommit(true).
ReturnNoCommit(w) == pc[w] = "close" /\ Leave(w) /\ UNCHANGED <<ids, boundVars, torn, late>>

\* The handler returns a response that says Success.
Return(w) == pc[w] = "close" /\ Destroy(w) /\ UNCHANGED <<ids, boundVars, torn, late>>

Inside(w) == pc[w] \notin {"idle", "close"}

\* A driver call throws: the connection is lost, a lock is waited for too long, the
\* request cannot be parsed.  Before the first statement handle_message and delete_room
\* only call begin_transaction().
Throw(w) ==
  /\ Inside(w)
  /\ pc[w] = "begin" => ~live[w] \/ req[w].kind \in {"g_room", "p_room"}
  /\ pc[w] = "begin" => req[w].kind # "message"
  /\ Catch(w)

\* On a lost connection rollback() may throw again, out of the catch block, and
\* begin_transaction() throws outside the try of handle_message: nothing catches the
\* exception before the thread function of the worker.  handle_chat_room would.
Escape(w) ==
  /\ Inside(w) /\ ~live[w]
  /\ req[w].kind \in {"g_room", "p_room", "message"}
  /\ Terminate
  /\ UNCHANGED faults

-----------------------------------------------------------------------------
\* External: the server is killed.
Crash ==
  /\ faults < MaxFaults
  /\ faults' = faults + 1
  /\ Terminate

\* External: the connection of a guard is lost, and its transaction rolled back.
Drop(w) ==
  /\ faults < MaxFaults
  /\ pc[w] # "idle" /\ live[w]
  /\ live' = [live EXCEPT ![w] = FALSE]
  /\ tx' = [tx EXCEPT ![w] = NoTx]
  /\ torn' = IF ~auto[w] /\ (tx[w] # NoTx \/ pc[w] \notin {"broadcast", "close"})
             THEN torn \cup {req[w].room} ELSE torn
  /\ faults' = faults + 1
  /\ UNCHANGED <<db, auto, pc, req, ids, requests, late>>

\* What a worker does without an error of the driver.
Step(w) ==
  \/ Begin(w) \/ Check(w)
  \/ InsertRoom(w) \/ InsertMembers(w)
  \/ InsertMessage(w) \/ UpdateRoom(w)
  \/ DeleteMembers(w) \/ DeleteRoom(w)
  \/ InsertMember(w) \/ Reject(w)
  \/ Commit(w) \/ Broadcast(w) \/ Return(w)

\* A creation names no room, and only a private room and an invitation name another user.
Asks(w) ==
  \E user \in Users :
    \/ Request(w, "g_room", 0, user, user)
    \/ \E other \in Users : Request(w, "p_room", 0, user, other)
    \/ \E room \in 1..ids :
         \/ \E kind \in {"message", "delete"} : Request(w, kind, room, user, user)
         \/ \E other \in Users : Request(w, "invite", room, user, other)

Next ==
  \/ \E w \in Workers : Asks(w) \/ Step(w) \/ Throw(w) \/ Escape(w) \/ Drop(w)
  \/ Crash

Spec == Init /\ [][Next]_vars

\* The operating system runs the workers, and the database answers.
FairSpec == Spec /\ \A w \in Workers : WF_vars(Step(w))

-----------------------------------------------------------------------------
(***************************************************************************)
(* Properties                                                              *)
(***************************************************************************)

Labels ==
  {"idle", "begin", "check", "insert_room", "insert_members", "insert_message", "update_room",
   "delete_members", "delete_room", "insert_member", "commit", "broadcast", "close"}

Row ==
  [table : {"rooms", "room_members", "messages"}, room : 1..MaxRequests,
   key : Nat, val : Nat]

Tx == [ins : SUBSET Row, del : SUBSET Row]

Req ==
  [kind : Kinds \cup {"none"}, room : 0..MaxRequests, user : Users \cup {0},
   other : Users \cup {0}, msg : 0..MaxRequests]

\* Every variable stays in its type, and a transaction is pending only on a valid
\* connection that is not in autocommit mode.
TypeOK ==
  /\ db \subseteq Row
  /\ tx \in [Workers -> Tx]
  /\ auto \in [Workers -> BOOLEAN]
  /\ live \in [Workers -> BOOLEAN]
  /\ pc \in [Workers -> Labels]
  /\ req \in [Workers -> Req]
  /\ \A w \in Workers : tx[w] # NoTx => live[w] /\ ~auto[w]
  /\ \A w \in Workers : pc[w] = "idle" => tx[w] = NoTx /\ req[w] = NoReq
  /\ ids \in 0..MaxRequests
  /\ requests \in 0..MaxRequests
  /\ faults \in 0..MaxFaults
  /\ torn \subseteq 1..MaxRequests
  /\ late \subseteq Row

\* Whatever fails or is interrupted, a request changes the tables as a whole or not at all,
\* unless its transaction lost its connection.
ImplementsStore == Store!Spec

Members(r) == Store!In(db, "room_members", r)

\* "A group without members is a server error" (delete_room, request_handler.hpp:326): a
\* committed group has exactly one owner and a private room exactly its two members,
\* whoever creates, invites and deletes at the same time.
RoomHasMembers ==
  \A x \in db : x.table = "rooms" /\ x.room \notin torn =>
    IF x.key = Store!GROUP
    THEN Cardinality({y \in Members(x.room) : y.val = Store!OWNER}) = 1
    ELSE /\ Cardinality(Members(x.room)) = 2
         /\ \A y \in Members(x.room) : y.val = Store!PRIVATE_MEMBER

\* A deletion takes every member its DELETE FROM room_members read (request_handler.hpp:324):
\* who is left of a room that is gone was invited after that statement, as a plain member.
OrphansAreInvited ==
  \A y \in db :
    (y.table = "room_members" /\ y.room \notin torn /\ Store!In(db, "rooms", y.room) = {})
      => y \in late /\ y.val = Store!MEMBER

\* last_message_id names a message of the room: the two statements of handle_message are
\* seen together.
LastMessageExists ==
  \A x \in db : x.table = "rooms" /\ x.room \notin torn /\ x.val # 0 =>
    \E y \in Store!In(db, "messages", x.room) : y.key = x.val

\* A message is shown to the members only when it is in the database to stay.
AnnouncedIsStored ==
  \A w \in Workers : pc[w] = "broadcast" /\ req[w].room \notin torn =>
    Store!MessageRow(req[w].room, req[w].msg, req[w].user) \in db

\* What a response with Success promises, at the moment its guard is gone.  Nothing holds
\* the room of an invitation, so a deletion may have taken it, and the new member, since.
Promised(q, d) ==
  CASE q.kind = "g_room"  -> /\ Store!RoomRow(q.room, Store!GROUP, 0) \in d
                             /\ Store!MemberRow(q.room, q.user, Store!OWNER) \in d
    [] q.kind = "p_room"  -> /\ \E x \in Store!In(d, "rooms", q.room) : x.key = Store!PRIVATE
                             /\ \A u \in {q.user, q.other} :
                                  Store!MemberRow(q.room, u, Store!PRIVATE_MEMBER) \in d
    [] q.kind = "message" -> Store!MessageRow(q.room, q.msg, q.user) \in d
    [] q.kind = "delete"  -> Store!In(d, "rooms", q.room) = {}
    [] q.kind = "invite"  -> \/ Store!MemberRow(q.room, q.other, Store!MEMBER) \in d
                             \/ Store!In(d, "rooms", q.room) = {}

\* A request that is answered with Success is in the database when its guard is gone, also
\* create_g_room's, which never calls commit(): missing is only what a transaction that
\* lost its connection did, and an invitation to a room that was deleted before its answer.
SuccessIsStored ==
  [][\A w \in Workers :
       Return(w) /\ req[w].room \notin torn => Promised(req[w], db')]_vars

\* Every request ends: no two handlers wait for each other's rows, and none is tried again
\* for ever.
EveryRequestEnds == \A w \in Workers : pc[w] # "idle" ~> pc[w] = "idle"
=============================================================================
