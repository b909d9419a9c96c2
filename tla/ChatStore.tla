------------------------------ MODULE ChatStore ------------------------------
(***************************************************************************)
(* What the handlers promise of the tables rooms, room_members and         *)
(* messages: each request changes them in one step or not at all.  A room  *)
(* is lost when a request on it lost its database connection in the middle *)
(* of a transaction; nothing is promised of lost rooms.  ChatRooms         *)
(* implements this specification.                                          *)
(***************************************************************************)
EXTENDS TLAPS

CONSTANTS
  Users,    \* user ids
  Ids       \* ids of rooms and messages

VARIABLES
  rows,     \* the rows of the rooms that are not lost
  lost      \* the rooms nothing is promised of

vars == <<rows, lost>>

\* RoomType and GroupRole of utils/enums.hpp.
GROUP == 1
PRIVATE == 2
OWNER == 3
MEMBER == 1
PRIVATE_MEMBER == 0

\* A row of rooms: type and last_message_id (0 for NULL).  A row of room_members: user and
\* role.  A row of messages: id and sender.
RoomRow(r, type, last) == [table |-> "rooms", room |-> r, key |-> type, val |-> last]
MemberRow(r, u, role) == [table |-> "room_members", room |-> r, key |-> u, val |-> role]
MessageRow(r, m, u) == [table |-> "messages", room |-> r, key |-> m, val |-> u]

In(d, table, r) == {x \in d : x.table = table /\ x.room = r}

Init == rows = {} /\ lost = {}

\* A group room begins with its owner, a private room with its two members.
FirstMembers(r, type) ==
  IF type = GROUP
  THEN {{MemberRow(r, u, OWNER)} : u \in Users}
  ELSE {{MemberRow(r, p[1], PRIVATE_MEMBER), MemberRow(r, p[2], PRIVATE_MEMBER)} :
          p \in {q \in Users \X Users : q[1] # q[2]}}

Create(r) ==
  /\ r \notin lost
  /\ \A x \in rows : x.room # r
  /\ \E type \in {GROUP, PRIVATE} : \E first \in FirstMembers(r, type) :
       rows' = rows \cup {RoomRow(r, type, 0)} \cup first
  /\ UNCHANGED lost

\* A message and the room's last_message_id change together, in a room that exists, and the
\* sender is a member at that moment.
Post(r, m) ==
  /\ \A x \in rows : x.table = "messages" => x.key # m
  /\ \E member \in In(rows, "room_members", r), x \in In(rows, "rooms", r) :
       rows' = (rows \ {x}) \cup {RoomRow(r, x.key, m), MessageRow(r, m, member.key)}
  /\ UNCHANGED lost

\* A user is added once, to a group.  The room may be gone: nothing holds it while its
\* invitation is handled.
Invite(r, u) ==
  /\ r \notin lost
  /\ \A x \in In(rows, "rooms", r) : x.key = GROUP
  /\ \A x \in In(rows, "room_members", r) : x.key # u
  /\ rows' = rows \cup {MemberRow(r, u, MEMBER)}
  /\ UNCHANGED lost

\* A group goes with its owner, and any of its plain members may be left.  The handler leaves
\* only those invited after it read the members; that cannot be said where a deletion is one
\* step, and ChatRooms!OrphansAreInvited says it of the handlers.  A private room stays.
Delete(r) ==
  /\ \E x \in In(rows, "rooms", r) : \E members \in SUBSET In(rows, "room_members", r) :
       /\ x.key = GROUP
       /\ \A y \in In(rows, "room_members", r) \ members : y.val = MEMBER
       /\ rows' = rows \ ({x} \cup members)
  /\ UNCHANGED lost

Lose(r) ==
  /\ r \notin lost
  /\ rows' = {x \in rows : x.room # r}
  /\ lost' = lost \cup {r}

Next ==
  \E r \in Ids :
    \/ Create(r)
    \/ \E m \in Ids : Post(r, m)
    \/ \E u \in Users : Invite(r, u)
    \/ Delete(r)
    \/ Lose(r)

Spec == Init /\ [][Next]_vars

-----------------------------------------------------------------------------
(***************************************************************************)
(* What holds of the tables whatever requests are made                     *)
(***************************************************************************)

\* A room has one row.
RoomOnce ==
  \A x, y \in rows : x.table = "rooms" /\ y.table = "rooms" /\ x.room = y.room => x = y

IsGroup(x) ==
  /\ x.key = GROUP
  /\ \E y \in In(rows, "room_members", x.room) :
       /\ y.val = OWNER
       /\ \A z \in In(rows, "room_members", x.room) : z.val = OWNER => z = y

IsPrivate(x) ==
  /\ x.key = PRIVATE
  /\ \E y, z \in In(rows, "room_members", x.room) :
       /\ y # z
       /\ In(rows, "room_members", x.room) = {y, z}
       /\ y.val = PRIVATE_MEMBER /\ z.val = PRIVATE_MEMBER

\* A room is a group with one owner or a private room with two members.
RoomShape == \A x \in rows : x.table = "rooms" => IsGroup(x) \/ IsPrivate(x)

\* Who is left of a room that is gone is a plain member: no owner, nobody of a private room.
OrphanShape ==
  \A y \in rows : y.table = "room_members" /\ In(rows, "rooms", y.room) = {} => y.val = MEMBER

\* The last message of a room is one of its messages.
LastShape ==
  \A x \in rows : x.table = "rooms" /\ x.val # 0 =>
    \E y \in In(rows, "messages", x.room) : y.key = x.val

Inv == RoomOnce /\ RoomShape /\ OrphanShape /\ LastShape

\* What a step has to show: only rows of one room change, and that room is in order after it.
LEMMA OneRoom ==
  ASSUME Inv, NEW r,
         \A x : x.room # r => (x \in rows' <=> x \in rows),
         \A x, y \in In(rows', "rooms", r) : x = y,
         \A x \in In(rows', "rooms", r) : (IsGroup(x) \/ IsPrivate(x))',
         \A x \in In(rows', "rooms", r) :
           x.val # 0 => \E y \in In(rows', "messages", r) : y.key = x.val,
         In(rows', "rooms", r) = {}
           => \A y \in In(rows', "room_members", r) : y.val = MEMBER
  PROVE  Inv'
<1>1. ASSUME NEW s, s # r, NEW t PROVE In(rows', t, s) = In(rows, t, s) BY <1>1 DEF In
<1>2. RoomOnce'
  <2> SUFFICES ASSUME NEW x \in rows', NEW y \in rows', x.table = "rooms", y.table = "rooms",
                      x.room = y.room
               PROVE  x = y
    BY DEF RoomOnce
  <2>1. CASE x.room = r BY <2>1 DEF In
  <2>2. CASE x.room # r BY <2>2 DEF Inv, RoomOnce
  <2> QED BY <2>1, <2>2
<1>3. RoomShape'
  <2> SUFFICES ASSUME NEW x \in rows', x.table = "rooms" PROVE (IsGroup(x) \/ IsPrivate(x))'
    BY DEF RoomShape
  <2>1. CASE x.room = r BY <2>1 DEF In
  <2>2. CASE x.room # r
    <3>1. IsGroup(x) \/ IsPrivate(x) BY <2>2 DEF Inv, RoomShape
    <3>2. In(rows', "room_members", x.room) = In(rows, "room_members", x.room) BY <1>1, <2>2
    <3> QED BY <3>1, <3>2 DEF IsGroup, IsPrivate
  <2> QED BY <2>1, <2>2
<1>4. OrphanShape'
  <2> SUFFICES ASSUME NEW y \in rows', y.table = "room_members", In(rows', "rooms", y.room) = {}
               PROVE  y.val = MEMBER
    BY DEF OrphanShape
  <2>1. CASE y.room = r BY <2>1 DEF In
  <2>2. CASE y.room # r BY <1>1, <2>2 DEF Inv, OrphanShape
  <2> QED BY <2>1, <2>2
<1>5. LastShape'
  <2> SUFFICES ASSUME NEW x \in rows', x.table = "rooms", x.val # 0
               PROVE  \E y \in In(rows', "messages", x.room) : y.key = x.val
    BY DEF LastShape
  <2>1. CASE x.room = r BY <2>1 DEF In
  <2>2. CASE x.room # r BY <1>1, <2>2 DEF Inv, LastShape
  <2> QED BY <2>1, <2>2
<1> QED BY <1>2, <1>3, <1>4, <1>5 DEF Inv

\* The columns of the three kinds of rows.
LEMMA Columns ==
  \A r, a, b :
    /\ RoomRow(r, a, b).table = "rooms" /\ RoomRow(r, a, b).room = r
    /\ RoomRow(r, a, b).key = a /\ RoomRow(r, a, b).val = b
    /\ MemberRow(r, a, b).table = "room_members" /\ MemberRow(r, a, b).room = r
    /\ MemberRow(r, a, b).key = a /\ MemberRow(r, a, b).val = b
    /\ MessageRow(r, a, b).table = "messages" /\ MessageRow(r, a, b).room = r
    /\ MessageRow(r, a, b).key = a /\ MessageRow(r, a, b).val = b
BY DEF RoomRow, MemberRow, MessageRow

\* Every request leaves the tables in order.
LEMMA InvStep == Inv /\ [Next]_vars => Inv'
<1> SUFFICES ASSUME Inv, [Next]_vars PROVE Inv' OBVIOUS
<1>1. ASSUME NEW r, Create(r) PROVE Inv'
  <2>0. PICK type \in {GROUP, PRIVATE} : \E first \in FirstMembers(r, type) :
               rows' = rows \cup {RoomRow(r, type, 0)} \cup first
    BY <1>1 DEF Create
  <2>1. PICK first \in FirstMembers(r, type) : rows' = rows \cup {RoomRow(r, type, 0)} \cup first
    BY <2>0
  <2> DEFINE x0 == RoomRow(r, type, 0)
  <2>2. \A x \in rows : x.room # r BY <1>1 DEF Create
  <2>3. x0.table = "rooms" /\ x0.room = r /\ x0.key = type /\ x0.val = 0 BY Columns
  <2>4. \A y \in first : y.table = "room_members" /\ y.room = r
    <3>1. CASE type = GROUP BY <2>1, <3>1, Columns DEF FirstMembers
    <3>2. CASE type # GROUP BY <2>1, <3>2, Columns DEF FirstMembers
    <3> QED BY <3>1, <3>2
  <2> HIDE DEF x0
  <2>r. rows' = rows \cup {x0} \cup first BY <2>1 DEF x0
  <2>5. In(rows', "rooms", r) = {x0} BY <2>2, <2>3, <2>4, <2>r DEF In
  <2>6. In(rows', "room_members", r) = first BY <2>2, <2>3, <2>4, <2>r DEF In
  <2>7. (IsGroup(x0) \/ IsPrivate(x0))'
    <3>1. CASE type = GROUP
      <4>1. PICK u \in Users : first = {MemberRow(r, u, OWNER)} BY <2>1, <3>1 DEF FirstMembers
      <4>2. MemberRow(r, u, OWNER).val = OWNER BY Columns
      <4> QED BY <2>3, <2>6, <3>1, <4>1, <4>2 DEF IsGroup
    <3>2. CASE type = PRIVATE
      <4>1. PICK p \in Users \X Users :
                   /\ p[1] # p[2]
                   /\ first = {MemberRow(r, p[1], PRIVATE_MEMBER), MemberRow(r, p[2], PRIVATE_MEMBER)}
        BY <2>1, <3>2 DEF FirstMembers, GROUP, PRIVATE
      <4> DEFINE y == MemberRow(r, p[1], PRIVATE_MEMBER)
                 z == MemberRow(r, p[2], PRIVATE_MEMBER)
      <4>2. y.key = p[1] /\ z.key = p[2] /\ y.val = PRIVATE_MEMBER /\ z.val = PRIVATE_MEMBER
        BY Columns
      <4>3. first = {y, z} BY <4>1
      <4> HIDE DEF y, z
      <4>4. y # z BY <4>1, <4>2
      <4> QED BY <2>3, <2>6, <3>2, <4>2, <4>3, <4>4 DEF IsPrivate
    <3> QED BY <3>1, <3>2
  <2>8. \A x : x.room # r => (x \in rows' <=> x \in rows) BY <2>3, <2>4, <2>r
  <2>9. /\ \A x, y \in In(rows', "rooms", r) : x = y
        /\ \A x \in In(rows', "rooms", r) : (IsGroup(x) \/ IsPrivate(x))'
        /\ \A x \in In(rows', "rooms", r) :
             x.val # 0 => \E y \in In(rows', "messages", r) : y.key = x.val
        /\ In(rows', "rooms", r) # {}
    BY <2>3, <2>5, <2>7
  <2> QED BY <2>8, <2>9, OneRoom
<1>2. ASSUME NEW r, NEW m, Post(r, m) PROVE Inv'
  <2>1. PICK member \in In(rows, "room_members", r), x \in In(rows, "rooms", r) :
               rows' = (rows \ {x}) \cup {RoomRow(r, x.key, m), MessageRow(r, m, member.key)}
    BY <1>2 DEF Post
  <2> DEFINE n == RoomRow(r, x.key, m)
             msg == MessageRow(r, m, member.key)
  <2>2. /\ n.table = "rooms" /\ n.room = r /\ n.key = x.key /\ n.val = m
        /\ msg.table = "messages" /\ msg.room = r /\ msg.key = m
    BY Columns
  <2>3. rows' = (rows \ {x}) \cup {n, msg} BY <2>1
  <2> HIDE DEF n, msg
  <2>4. x \in rows /\ x.table = "rooms" /\ x.room = r BY DEF In
  <2>5. In(rows', "rooms", r) = {n} BY <2>2, <2>3, <2>4 DEF In, Inv, RoomOnce
  <2>6. In(rows', "room_members", r) = In(rows, "room_members", r) BY <2>2, <2>3, <2>4 DEF In
  <2>7. (IsGroup(n) \/ IsPrivate(n))'
    <3>1. IsGroup(x) \/ IsPrivate(x) BY <2>4 DEF Inv, RoomShape
    <3> QED BY <2>2, <2>4, <2>6, <3>1 DEF IsGroup, IsPrivate
  <2>8. \A y : y.room # r => (y \in rows' <=> y \in rows) BY <2>2, <2>3, <2>4
  <2>9. msg \in In(rows', "messages", r) BY <2>2, <2>3 DEF In
  <2>10. /\ \A y, z \in In(rows', "rooms", r) : y = z
         /\ \A y \in In(rows', "rooms", r) : (IsGroup(y) \/ IsPrivate(y))'
         /\ \A y \in In(rows', "rooms", r) :
              y.val # 0 => \E z \in In(rows', "messages", r) : z.key = y.val
         /\ In(rows', "rooms", r) # {}
    BY <2>2, <2>5, <2>7, <2>9
  <2> QED BY <2>8, <2>10, OneRoom
<1>3. ASSUME NEW r, NEW u, Invite(r, u) PROVE Inv'
  <2> DEFINE n == MemberRow(r, u, MEMBER)
  <2>1. rows' = rows \cup {n} BY <1>3 DEF Invite
  <2>2. n.table = "room_members" /\ n.room = r /\ n.val = MEMBER BY Columns
  <2> HIDE DEF n
  <2>3. In(rows', "rooms", r) = In(rows, "rooms", r) BY <2>1, <2>2 DEF In
  <2>4. In(rows', "messages", r) = In(rows, "messages", r) BY <2>1, <2>2 DEF In
  <2>5. In(rows', "room_members", r) = In(rows, "room_members", r) \cup {n}
    BY <2>1, <2>2 DEF In
  <2>6. \A x \in In(rows', "rooms", r) : (IsGroup(x) \/ IsPrivate(x))'
    <3> SUFFICES ASSUME NEW x \in In(rows, "rooms", r) PROVE IsGroup(x)' BY <2>3
    <3>1. x.room = r /\ x.key = GROUP BY <1>3 DEF Invite, In
    <3>2. IsGroup(x) BY <3>1 DEF Inv, RoomShape, IsPrivate, In, GROUP, PRIVATE
    <3> QED BY <2>2, <2>5, <3>1, <3>2 DEF IsGroup, MEMBER, OWNER
  <2>7. \A x : x.room # r => (x \in rows' <=> x \in rows) BY <2>1, <2>2
  <2>8. /\ \A x, y \in In(rows', "rooms", r) : x = y
        /\ \A x \in In(rows', "rooms", r) :
             x.val # 0 => \E y \in In(rows', "messages", r) : y.key = x.val
    BY <2>3, <2>4 DEF In, Inv, RoomOnce, LastShape
  <2>9. In(rows', "rooms", r) = {} => \A y \in In(rows', "room_members", r) : y.val = MEMBER
    BY <2>2, <2>3, <2>5 DEF In, Inv, OrphanShape
  <2> QED BY <2>6, <2>7, <2>8, <2>9, OneRoom
<1>4. ASSUME NEW r, Delete(r) PROVE Inv'
  <2>1. PICK x \in In(rows, "rooms", r), members \in SUBSET In(rows, "room_members", r) :
               /\ \A y \in In(rows, "room_members", r) \ members : y.val = MEMBER
               /\ rows' = rows \ ({x} \cup members)
    BY <1>4 DEF Delete
  <2>2. In(rows', "rooms", r) = {} BY <2>1 DEF In, Inv, RoomOnce
  <2>3. \A y \in In(rows', "room_members", r) : y.val = MEMBER BY <2>1 DEF In
  <2>4. \A y : y.room # r => (y \in rows' <=> y \in rows) BY <2>1 DEF In
  <2> QED BY <2>2, <2>3, <2>4, OneRoom
<1>5. ASSUME NEW r, Lose(r) PROVE Inv'
  <2>1. rows' = {x \in rows : x.room # r} BY <1>5 DEF Lose
  <2>2. In(rows', "rooms", r) = {} /\ In(rows', "room_members", r) = {} BY <2>1 DEF In
  <2>3. \A y : y.room # r => (y \in rows' <=> y \in rows) BY <2>1
  <2> QED BY <2>2, <2>3, OneRoom
<1>6. CASE UNCHANGED vars
  BY <1>6 DEF vars, Inv, RoomOnce, RoomShape, OrphanShape, LastShape, IsGroup, IsPrivate
<1> QED BY <1>1, <1>2, <1>3, <1>4, <1>5, <1>6 DEF Next

\* Rooms, members and messages belong together, for any users and any ids: a room is a
\* group with one owner or a private room with two members, only plain members are left of
\* a deleted room, and the last message of a room exists.
THEOREM TablesCorrect == Spec => []Inv
<1>1. Init => Inv BY DEF Init, Inv, RoomOnce, RoomShape, OrphanShape, LastShape
<1> QED BY <1>1, InvStep, PTL DEF Spec
=============================================================================
