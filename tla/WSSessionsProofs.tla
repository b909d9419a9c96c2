-------------------------- MODULE WSSessionsProofs --------------------------
(***************************************************************************)
(* Proofs about WSSessions: for any number of users, sessions, workers and *)
(* frames the registry names for a user only living sessions of that user, *)
(* a session has one write under way at most, and the messages handed to   *)
(* it reach the wire in order, each once.                                  *)
(***************************************************************************)
EXTENDS WSSessions, SequenceTheorems, TLAPS

USE NoneAssumption, GarbageAssumption, FramesAssumption

-----------------------------------------------------------------------------
(***************************************************************************)
(* The inductive invariant of the types                                    *)
(***************************************************************************)

\* A session that is still up is authenticated, and only an open one reads.
LifeInv ==
  \A s \in Sessions :
    /\ reading[s] => phase[s] = "open"
    /\ phase[s] \in {"handshake", "open"} => id[s] \in Users
    /\ buffer_[s] <= frames

\* A worker that holds sessions has the message for them.
HeldInv == \A w \in Workers : held[w] # {} => rounds[w] # <<>>

\* At most one write is under way, of the first message of the queue; without one
\* the queue is empty or a write has failed.
WriteInv ==
  \A s \in Sessions :
    /\ writes[s] \in {0, 1}
    /\ writes[s] = 1 => message_queue_[s] # <<>>
    /\ message_queue_[s] # <<>> /\ writes[s] = 0 => broken[s]

TypeInv == TypeOK /\ LifeInv /\ HeldInv /\ WriteInv

\* A sequence that is not empty has a head and a tail, and the tail is empty when there
\* was one element.
LEMMA NonEmptySeq ==
  ASSUME NEW S, NEW q \in Seq(S), q # <<>>
  PROVE  /\ Head(q) \in S
         /\ Tail(q) \in Seq(S)
         /\ Len(q) \in Nat
         /\ Len(q) > 1 => Tail(q) # <<>>
         /\ ~(Len(q) > 1) => Tail(q) = <<>>
<1>1. Head(q) \in S /\ Tail(q) \in Seq(S) /\ Len(Tail(q)) = Len(q) - 1 BY HeadTailProperties
<1>2. Len(q) \in Nat \ {0} BY EmptySeq
<1>3. Len(q) > 1 => Tail(q) # <<>>
  <2>1. Tail(q) = <<>> => Len(Tail(q)) = 0 BY EmptySeq
  <2> QED BY <1>1, <1>2, <2>1
<1>4. ~(Len(q) > 1) => Tail(q) = <<>>
  <2>1. Tail(q) # <<>> => Len(Tail(q)) \in Nat \ {0} BY <1>1, EmptySeq
  <2> QED BY <1>1, <1>2, <2>1
<1> QED BY <1>1, <1>2, <1>3, <1>4

\* A message appended to a queue.
LEMMA AppendSeq ==
  \A S : \A q \in Seq(S), m \in S : Append(q, m) \in Seq(S) /\ Append(q, m) # <<>>
BY AppendProperties

\* What a worker is to do for a message is a list of rounds.
LEMMA RoundsType ==
  ASSUME NEW from \in Users, NEW m \in Message, NEW todo \in Rounds(from, m)
  PROVE  todo \in Seq(Round)
<1> DEFINE To(users) == [users |-> users, msg |-> m]
<1>1. \A us \in SUBSET Users : To(us) \in Round BY DEF Round
<1>2. To({from}) \in Round BY <1>1
<1>3. CASE todo \in {<<To({u}), To({from})>> : u \in Users}
  <2>1. PICK u \in Users : todo = <<To({u}), To({from})>> BY <1>3
  <2>2. To({u}) \in Round BY <1>1
  <2> HIDE DEF To
  <2> QED BY <1>2, <2>1, <2>2
<1>4. CASE todo \in {<<To(members)>> : members \in SUBSET Users}
  <2>1. PICK members \in SUBSET Users : todo = <<To(members)>> BY <1>4
  <2>2. To(members) \in Round BY <1>1
  <2> HIDE DEF To
  <2> QED BY <2>1, <2>2
<1>5. CASE todo \in {<<To({from})>>, <<>>}
  <2> HIDE DEF To
  <2>1. <<To({from})>> \in Seq(Round) BY <1>2
  <2>2. <<>> \in Seq(Round) BY EmptySeq
  <2> QED BY <1>5, <2>1, <2>2
<1> QED BY <1>3, <1>4, <1>5 DEF Rounds

\* The invariant holds before the first connection.
LEMMA TypeInvInit == Init => TypeInv
<1> SUFFICES ASSUME Init PROVE TypeInv OBVIOUS
<1>1. <<>> \in Seq(Message) /\ <<>> \in Seq(Task) /\ <<>> \in Seq(Round) BY EmptySeq
<1>2. TypeOK BY <1>1 DEF Init, TypeOK
<1> QED BY <1>2 DEF Init, TypeInv, LifeInv, HeldInv, WriteInv

\* Every step of a strand, a worker or a client keeps the types.
LEMMA TypeInvStep == TypeInv /\ [Next]_vars => TypeInv'
<1> SUFFICES ASSUME TypeInv, [Next]_vars PROVE TypeInv' OBVIOUS
<1> USE DEF TypeInv, TypeOK, LifeInv, HeldInv, WriteInv
<1>1. ASSUME NEW s \in Sessions, NEW u \in Users, do_accept(s, u) PROVE TypeInv'
  BY <1>1 DEF do_accept, workerVars
<1>2. ASSUME NEW s \in Sessions, NEW g \in Garbage, do_accept_refused(s, g) PROVE TypeInv'
  BY <1>2 DEF do_accept_refused, workerVars
<1>3. ASSUME NEW s \in Sessions, on_accept(s) PROVE TypeInv'
  <2>1. CASE phase' = [phase EXCEPT ![s] = "open"] /\ reading' = [reading EXCEPT ![s] = TRUE]
    BY <1>3, <2>1 DEF on_accept, workerVars
  <2>2. CASE phase' = [phase EXCEPT ![s] = "over"] /\ UNCHANGED reading
    BY <1>3, <2>2 DEF on_accept, workerVars
  <2> QED BY <1>3, <2>1, <2>2 DEF on_accept
<1>4. ASSUME NEW s \in Sessions, on_read(s) PROVE TypeInv'
  <2>1. frames' \in 0..MaxFrames /\ frames + 1 \in 1..MaxFrames /\ frames' = frames + 1
    BY <1>4 DEF on_read
  <2>2. id[s] \in Users /\ (buffer_[s] = 0) \in BOOLEAN BY <1>4 DEF on_read
  <2>3. [from |-> id[s], msg |-> frames + 1, parses |-> buffer_[s] = 0] \in Task
    BY <2>1, <2>2 DEF Task, Message
  <2>4. tasks' \in Seq(Task) BY <1>4, <2>3, AppendProperties DEF on_read
  <2>5. buffer_' \in [Sessions -> 0..MaxFrames] /\ \A r \in Sessions : buffer_'[r] <= frames'
    <3>1. buffer_[s] + 1 \in 0..MaxFrames /\ buffer_[s] + 1 <= frames' BY <2>1, <1>4
    <3>2. \A r \in Sessions : buffer_'[r] = IF r = s THEN buffer_[s] + 1 ELSE buffer_[r]
      BY <1>4 DEF on_read
    <3>3. \A r \in Sessions : buffer_[r] <= frames' BY <2>1
    <3>4. buffer_' \in [Sessions -> 0..MaxFrames] BY <1>4, <3>1 DEF on_read
    <3> QED BY <3>1, <3>2, <3>3, <3>4
  <2> QED BY <1>4, <2>1, <2>4, <2>5 DEF on_read, workerVars
<1>5. ASSUME NEW s \in Sessions, on_read_error(s) PROVE TypeInv'
  BY <1>5 DEF on_read_error, workerVars
<1>6. ASSUME NEW s \in Sessions, on_send(s) PROVE TypeInv'
  <2>1. Head(posted[s]) \in Message /\ Tail(posted[s]) \in Seq(Message)
    BY <1>6, NonEmptySeq DEF on_send
  <2>2. /\ Append(message_queue_[s], Head(posted[s])) \in Seq(Message)
        /\ Append(message_queue_[s], Head(posted[s])) # <<>>
    <3>1. message_queue_[s] \in Seq(Message) OBVIOUS
    <3>2. Head(posted[s]) \in Message BY <2>1
    <3> QED BY <3>1, <3>2, AppendSeq
  <2>3. posted' \in [Sessions -> Seq(Message)] /\ message_queue_' \in [Sessions -> Seq(Message)]
    BY <1>6, <2>1, <2>2 DEF on_send
  <2>5. /\ message_queue_'[s] # <<>> /\ broken' = broken
        /\ \A r \in Sessions \ {s} : message_queue_'[r] = message_queue_[r]
    BY <1>6, <2>2 DEF on_send
  <2>4. writes' \in [Sessions -> Nat] /\ WriteInv'
    <3>1. CASE message_queue_[s] = <<>>
      <4>1. writes[s] = 0 BY <3>1
      <4>2. writes' = [writes EXCEPT ![s] = 1] BY <1>6, <3>1, <4>1 DEF on_send
      <4>3. writes' \in [Sessions -> Nat] BY <4>2
      <4> QED BY <4>2, <4>3, <2>5
    <3>2. CASE message_queue_[s] # <<>>
      <4>1. writes' = writes BY <1>6, <3>2 DEF on_send
      <4> QED BY <3>2, <4>1, <2>5
    <3> QED BY <3>1, <3>2
  <2> QED BY <1>6, <2>3, <2>4 DEF on_send, workerVars
<1>7. ASSUME NEW s \in Sessions, on_write(s) PROVE TypeInv'
  <2>1. writes[s] = 1 /\ message_queue_[s] # <<>> BY <1>7 DEF on_write
  <2>2. /\ Head(message_queue_[s]) \in Message /\ Tail(message_queue_[s]) \in Seq(Message)
        /\ Len(message_queue_[s]) > 1 => Tail(message_queue_[s]) # <<>>
        /\ ~(Len(message_queue_[s]) > 1) => Tail(message_queue_[s]) = <<>>
    <3>1. message_queue_[s] \in Seq(Message) OBVIOUS
    <3> QED BY <2>1, <3>1, NonEmptySeq
  <2>3. Append(wire[s], Head(message_queue_[s])) \in Seq(Message) BY <2>2, AppendProperties
  <2>4. wire' \in [Sessions -> Seq(Message)] /\ message_queue_' \in [Sessions -> Seq(Message)]
    BY <1>7, <2>2, <2>3 DEF on_write
  <2>5. writes' \in [Sessions -> Nat] /\ WriteInv'
    <3>1. CASE Len(message_queue_[s]) > 1
      <4>1. writes' = writes BY <1>7, <3>1 DEF on_write
      <4> QED BY <1>7, <2>1, <2>2, <3>1, <4>1 DEF on_write
    <3>2. CASE ~(Len(message_queue_[s]) > 1)
      <4>1. writes' = [writes EXCEPT ![s] = 0] BY <1>7, <2>1, <3>2 DEF on_write
      <4>2. /\ message_queue_'[s] = <<>>
            /\ \A r \in Sessions \ {s} : message_queue_'[r] = message_queue_[r]
        BY <1>7, <2>2, <3>2 DEF on_write
      <4>3. broken' = broken /\ writes' \in [Sessions -> Nat] BY <1>7, <4>1 DEF on_write
      <4> QED BY <4>1, <4>2, <4>3
    <3> QED BY <3>1, <3>2
  <2> QED BY <1>7, <2>4, <2>5 DEF on_write, workerVars
<1>8. ASSUME NEW s \in Sessions, on_write_error(s) PROVE TypeInv'
  BY <1>8 DEF on_write_error, workerVars
<1>9. ASSUME NEW s \in Sessions, Destroy(s) PROVE TypeInv'
  <2>1. <<>> \in Seq(Message) BY EmptySeq
  <2>2. ~reading[s] /\ writes[s] = 0 BY <1>9 DEF Destroy, Referenced
  <2> QED BY <1>9, <2>1, <2>2 DEF Destroy, workerVars
<1>10. ASSUME NEW w \in Workers, handle_message(w) PROVE TypeInv'
  <2>1. Head(tasks) \in Task /\ Tail(tasks) \in Seq(Task)
    BY <1>10, NonEmptySeq DEF handle_message
  <2>2. Head(tasks).from \in Users /\ Head(tasks).msg \in Message BY <2>1 DEF Task
  <2>3. ASSUME NEW todo \in Rounds(Head(tasks).from, Head(tasks).msg) PROVE todo \in Seq(Round)
    BY <2>2, <2>3, RoundsType
  <2>4. rounds' \in [Workers -> Seq(Round)] /\ dropped' \subseteq Message
    <3>1. CASE Head(tasks).parses
      <4>1. PICK todo \in Rounds(Head(tasks).from, Head(tasks).msg) :
                   rounds' = [rounds EXCEPT ![w] = todo]
        BY <1>10, <3>1 DEF handle_message
      <4>2. todo \in Seq(Round) BY <2>3
      <4> QED BY <1>10, <3>1, <4>1, <4>2 DEF handle_message
    <3>2. CASE ~Head(tasks).parses BY <1>10, <2>2, <3>2 DEF handle_message
    <3> QED BY <3>1, <3>2
  <2>5. HeldInv'
    <3>1. held[w] = {} /\ UNCHANGED held BY <1>10 DEF handle_message, Idle
    <3>2. \A v \in Workers \ {w} : rounds'[v] = rounds[v] BY <1>10 DEF handle_message
    <3> QED BY <3>1, <3>2
  <2> QED BY <1>10, <2>1, <2>4, <2>5 DEF handle_message, sessionVars
<1>11. ASSUME NEW w \in Workers, Lookup(w) PROVE TypeInv'
  <2> DEFINE users == Head(rounds[w]).users
             alive == {s \in ({sessions_[u] : u \in users} \ {None}) : Referenced(s)}
  <2>1. Head(rounds[w]) \in Round /\ Tail(rounds[w]) \in Seq(Round)
    BY <1>11, NonEmptySeq DEF Lookup
  <2>2. users \subseteq Users BY <2>1 DEF Round
  <2>3. alive \subseteq Sessions BY <2>2
  <2>4. /\ held' = [held EXCEPT ![w] = alive] /\ tosend' = [tosend EXCEPT ![w] = alive]
        /\ rounds' = [rounds EXCEPT ![w] = IF alive = {} THEN Tail(@) ELSE @]
        /\ sessions_' = [u \in Users |->
                           IF u \in users /\ sessions_[u] \notin alive THEN None
                           ELSE sessions_[u]]
    BY <1>11 DEF Lookup
  <2> HIDE DEF users, alive
  <2>5. /\ held' \in [Workers -> SUBSET Sessions] /\ tosend' \in [Workers -> SUBSET Sessions]
        /\ \A v \in Workers : tosend'[v] \subseteq held'[v]
    BY <2>3, <2>4
  <2>6. rounds' \in [Workers -> Seq(Round)] /\ HeldInv'
    <3>1. CASE alive = {} BY <1>11, <2>1, <2>4, <3>1 DEF Lookup
    <3>2. CASE alive # {} BY <1>11, <2>1, <2>4, <3>2 DEF Lookup
    <3> QED BY <3>1, <3>2
  <2>7. sessions_' \in [Users -> Sessions \cup {None}] BY <2>4
  <2> QED BY <1>11, <2>5, <2>6, <2>7 DEF Lookup, sessionVars
<1>12. ASSUME NEW w \in Workers, NEW s \in Sessions, send(w, s) PROVE TypeInv'
  <2>1. rounds[w] # <<>> BY <1>12 DEF send
  <2>2. Head(rounds[w]).msg \in Message
    <3>1. rounds[w] \in Seq(Round) OBVIOUS
    <3>2. Head(rounds[w]) \in Round BY <2>1, <3>1, NonEmptySeq
    <3> QED BY <3>2 DEF Round
  <2>3. /\ Append(posted[s], Head(rounds[w]).msg) \in Seq(Message)
        /\ Append(handed[s], Head(rounds[w]).msg) \in Seq(Message)
    BY <2>2, AppendProperties
  <2> QED BY <1>12, <2>3 DEF send, sessionVars
<1>13. ASSUME NEW w \in Workers, Release(w) PROVE TypeInv'
  <2>1. Tail(rounds[w]) \in Seq(Round) BY <1>13, NonEmptySeq DEF Release
  <2> QED BY <1>13, <2>1 DEF Release, sessionVars
<1>14. ASSUME NEW s \in Sessions, ClientGone(s) PROVE TypeInv' BY <1>14 DEF ClientGone, workerVars
<1>15. CASE UNCHANGED vars BY <1>15 DEF vars, sessionVars, workerVars
<1> QED BY <1>1, <1>2, <1>3, <1>4, <1>5, <1>6, <1>7, <1>8, <1>9, <1>10, <1>11, <1>12, <1>13,
           <1>14, <1>15 DEF Next, Serve, Work

\* Type correctness of the sessions, the registry and the workers.
THEOREM TypeCorrect == Spec => []TypeOK
<1>1. TypeInv => TypeOK BY DEF TypeInv
<1> QED BY <1>1, TypeInvInit, TypeInvStep, PTL DEF Spec

\* The invariant holds of every reachable state.
LEMMA TypeInvCorrect == Spec => []TypeInv
BY TypeInvInit, TypeInvStep, PTL DEF Spec

\* Beast's rule of one async_write at a time: on_send() starts a write only on an empty
\* queue, and on_write() only after it has popped.
THEOREM OneWriteCorrect == Spec => []OneWrite
<1>1. TypeInv => OneWrite BY DEF TypeInv, WriteInv, OneWrite
<1> QED BY <1>1, TypeInvCorrect, PTL

\* The write loop never stops by itself while there are messages in the queue.
THEOREM MuteCorrect == Spec => []MuteOnlyAfterError
<1>1. TypeInv => MuteOnlyAfterError BY DEF TypeInv, WriteInv, MuteOnlyAfterError
<1> QED BY <1>1, TypeInvCorrect, PTL

-----------------------------------------------------------------------------
(***************************************************************************)
(* The registry                                                            *)
(***************************************************************************)

\* The registry names sessions that exist, under the user they are authenticated as.  That
\* a session is not registered before do_accept() is what makes EntryOwner inductive:
\* do_accept_refused() may leave any id in the claims.
RegistryInv ==
  \A u \in Users : sessions_[u] # None =>
    id[sessions_[u]] = u /\ phase[sessions_[u]] \notin {"none", "destroyed"}

\* A step that adds no entry, and keeps the claims and the existence of the sessions that
\* stay registered, keeps the registry in order.
LEMMA RegistryKept ==
  ASSUME TypeOK, RegistryInv,
         \A u \in Users : sessions_'[u] \in {None, sessions_[u]},
         \A u \in Users : sessions_'[u] # None =>
           /\ id'[sessions_[u]] = id[sessions_[u]]
           /\ \/ phase'[sessions_[u]] = phase[sessions_[u]]
              \/ phase'[sessions_[u]] \in {"open", "over"}
  PROVE  RegistryInv'
BY DEF RegistryInv, TypeOK

\* Every step keeps what the registry relies on.
LEMMA RegistryStep == TypeOK /\ RegistryInv /\ [Next]_vars => RegistryInv'
<1> SUFFICES ASSUME TypeOK, RegistryInv, [Next]_vars PROVE RegistryInv' OBVIOUS
<1> USE DEF TypeOK
<1>0. \A u \in Users : sessions_[u] # None => sessions_[u] \in Sessions OBVIOUS
<1>q. ASSUME UNCHANGED <<sessions_, id, phase>> PROVE RegistryInv' BY <1>q, RegistryKept
<1>1. ASSUME NEW s \in Sessions, NEW u \in Users, do_accept(s, u) PROVE RegistryInv'
  <2>1. \A v \in Users : sessions_[v] # s BY <1>1 DEF do_accept, RegistryInv
  <2> QED BY <1>0, <1>1, <2>1 DEF do_accept, RegistryInv
<1>2. ASSUME NEW s \in Sessions, NEW g \in Garbage, do_accept_refused(s, g) PROVE RegistryInv'
  <2>1. \A v \in Users : sessions_[v] # s BY <1>2 DEF do_accept_refused, RegistryInv
  <2> QED BY <1>0, <1>2, <2>1, RegistryKept DEF do_accept_refused
<1>3. ASSUME NEW s \in Sessions, on_accept(s) PROVE RegistryInv'
  <2>1. phase' \in {[phase EXCEPT ![s] = "open"], [phase EXCEPT ![s] = "over"]}
        /\ UNCHANGED <<sessions_, id>>
    BY <1>3 DEF on_accept
  <2> QED BY <1>0, <2>1, RegistryKept
<1>4. ASSUME NEW s \in Sessions, on_read(s) PROVE RegistryInv' BY <1>4, <1>q DEF on_read
<1>5. ASSUME NEW s \in Sessions, on_read_error(s) PROVE RegistryInv'
  BY <1>0, <1>5, RegistryKept DEF on_read_error
<1>6. ASSUME NEW s \in Sessions, on_send(s) PROVE RegistryInv' BY <1>6, <1>q DEF on_send
<1>7. ASSUME NEW s \in Sessions, on_write(s) PROVE RegistryInv' BY <1>7, <1>q DEF on_write
<1>8. ASSUME NEW s \in Sessions, on_write_error(s) PROVE RegistryInv'
  BY <1>8, <1>q DEF on_write_error
<1>9. ASSUME NEW s \in Sessions, Destroy(s) PROVE RegistryInv'
  <2>1. \A u \in Users : sessions_'[u] = IF u = id[s] THEN None ELSE sessions_[u]
    BY <1>9 DEF Destroy
  <2>2. \A u \in Users : sessions_'[u] # s
    <3> SUFFICES ASSUME NEW u \in Users, sessions_'[u] = s PROVE FALSE OBVIOUS
    <3>1. u # id[s] /\ sessions_[u] = s BY <2>1
    <3> QED BY <3>1 DEF RegistryInv
  <2>3. \A r \in Sessions \ {s} : id'[r] = id[r] /\ phase'[r] = phase[r] BY <1>9 DEF Destroy
  <2>4. \A u \in Users : sessions_'[u] \in {None, sessions_[u]} BY <2>1
  <2>5. ASSUME NEW u \in Users, sessions_'[u] # None
        PROVE  id'[sessions_[u]] = id[sessions_[u]] /\ phase'[sessions_[u]] = phase[sessions_[u]]
    <3>1. sessions_'[u] = sessions_[u] BY <2>4, <2>5
    <3>2. sessions_[u] \in Sessions \ {s} BY <1>0, <2>2, <2>5, <3>1
    <3> QED BY <2>3, <3>2
  <2> QED BY <2>4, <2>5, RegistryKept
<1>10. ASSUME NEW w \in Workers, handle_message(w) PROVE RegistryInv'
  BY <1>10, <1>q DEF handle_message, sessionVars
<1>11. ASSUME NEW w \in Workers, Lookup(w) PROVE RegistryInv'
  <2>1. \A u \in Users : sessions_'[u] \in {None, sessions_[u]} BY <1>11 DEF Lookup
  <2>2. UNCHANGED <<id, phase>> BY <1>11 DEF Lookup, sessionVars
  <2> QED BY <2>1, <2>2, RegistryKept
<1>12. ASSUME NEW w \in Workers, NEW s \in Sessions, send(w, s) PROVE RegistryInv'
  BY <1>12, <1>q DEF send, sessionVars
<1>13. ASSUME NEW w \in Workers, Release(w) PROVE RegistryInv'
  BY <1>13, <1>q DEF Release, sessionVars
<1>14. ASSUME NEW s \in Sessions, ClientGone(s) PROVE RegistryInv' BY <1>14, <1>q DEF ClientGone
<1>15. CASE UNCHANGED vars BY <1>15, <1>q DEF vars, sessionVars
<1> QED BY <1>1, <1>2, <1>3, <1>4, <1>5, <1>6, <1>7, <1>8, <1>9, <1>10, <1>11, <1>12, <1>13,
           <1>14, <1>15 DEF Next, Serve, Work

\* The registry invariant holds of every reachable state.
LEMMA RegistryCorrect == Spec => []RegistryInv
<1>1. Init => RegistryInv BY DEF Init, RegistryInv
<1> QED BY <1>1, RegistryStep, TypeCorrect, PTL DEF Spec

\* No message for a user is handed to a session of another user, although remove_session()
\* of a session that was never authenticated erases whatever user its claims happen to name.
THEOREM EntryOwnerCorrect == Spec => []EntryOwner
<1>1. RegistryInv => EntryOwner BY DEF RegistryInv, EntryOwner
<1> QED BY <1>1, RegistryCorrect, PTL

\* remove_session() in the destructor is enough: no entry outlives its session.
THEOREM NoStaleEntryCorrect == Spec => []NoStaleEntry
<1>1. RegistryInv => NoStaleEntry BY DEF RegistryInv, NoStaleEntry
<1> QED BY <1>1, RegistryCorrect, PTL

-----------------------------------------------------------------------------
(***************************************************************************)
(* The order of delivery                                                   *)
(***************************************************************************)

\* Moving the head of one queue to the end of the one before it does not change their
\* concatenation.
LEMMA MoveHead ==
  \A p, q \in Seq(Message) : q # <<>> => Append(p, Head(q)) \o Tail(q) = p \o q
OBVIOUS

\* Concatenation of messages is associative.
LEMMA Associative == \A p, q, r \in Seq(Message) : (p \o q) \o r = p \o (q \o r)
OBVIOUS

\* Moving the head of the queue to the end of what was sent before it keeps the order.
LEMMA MoveHeadMiddle ==
  \A p, q, r \in Seq(Message) :
    r # <<>> => (p \o Append(q, Head(r))) \o Tail(r) = (p \o q) \o r
<1> TAKE p, q, r \in Seq(Message)
<1>1. (p \o q) \o r = p \o (q \o r) BY Associative
<1> HAVE r # <<>>
<1>2. Head(r) \in Message /\ Tail(r) \in Seq(Message) BY HeadTailProperties
<1>3. Append(q, Head(r)) \in Seq(Message) BY <1>2, AppendProperties
<1>4. (p \o Append(q, Head(r))) \o Tail(r) = p \o (Append(q, Head(r)) \o Tail(r))
  BY <1>2, <1>3, Associative
<1>5. Append(q, Head(r)) \o Tail(r) = q \o r BY MoveHead
<1> QED BY <1>1, <1>4, <1>5

\* A message added at the end of the last queue is added at the end of them all.
LEMMA AppendConcat ==
  ASSUME NEW S, NEW p \in Seq(S), NEW q \in Seq(S), NEW m \in S
  PROVE  p \o Append(q, m) = Append(p \o q, m)
OBVIOUS

\* Every step keeps written, queued and posted messages in the order they were handed over.
LEMMA DeliveryStep == TypeInv /\ DeliveryFifo /\ [Next]_vars => DeliveryFifo'
<1> SUFFICES ASSUME TypeInv, DeliveryFifo, [Next]_vars PROVE DeliveryFifo' OBVIOUS
<1>t. \A s \in Sessions : /\ wire[s] \in Seq(Message) /\ message_queue_[s] \in Seq(Message)
                          /\ posted[s] \in Seq(Message) /\ handed[s] \in Seq(Message)
  BY DEF TypeInv, TypeOK
<1>q. ASSUME UNCHANGED <<handed, wire, message_queue_, posted>> PROVE DeliveryFifo'
  BY <1>q DEF DeliveryFifo
<1>s. ASSUME NEW s \in Sessions,
             \A r \in Sessions \ {s} :
               /\ handed'[r] = handed[r] /\ wire'[r] = wire[r]
               /\ message_queue_'[r] = message_queue_[r] /\ posted'[r] = posted[r],
             handed'[s] = wire'[s] \o message_queue_'[s] \o posted'[s]
      PROVE  DeliveryFifo'
  BY <1>s DEF DeliveryFifo
<1>1. ASSUME NEW s \in Sessions, NEW u \in Users, do_accept(s, u) PROVE DeliveryFifo'
  BY <1>1, <1>q DEF do_accept
<1>2. ASSUME NEW s \in Sessions, NEW g \in Garbage, do_accept_refused(s, g) PROVE DeliveryFifo'
  BY <1>2, <1>q DEF do_accept_refused
<1>3. ASSUME NEW s \in Sessions, on_accept(s) PROVE DeliveryFifo' BY <1>3, <1>q DEF on_accept
<1>4. ASSUME NEW s \in Sessions, on_read(s) PROVE DeliveryFifo' BY <1>4, <1>q DEF on_read
<1>5. ASSUME NEW s \in Sessions, on_read_error(s) PROVE DeliveryFifo'
  BY <1>5, <1>q DEF on_read_error
<1>6. ASSUME NEW s \in Sessions, on_send(s) PROVE DeliveryFifo'
  <2>1. posted[s] # <<>> BY <1>6 DEF on_send
  <2>2. (wire[s] \o Append(message_queue_[s], Head(posted[s]))) \o Tail(posted[s])
          = (wire[s] \o message_queue_[s]) \o posted[s]
    <3>1. /\ wire[s] \in Seq(Message)
          /\ message_queue_[s] \in Seq(Message)
          /\ posted[s] \in Seq(Message)
      BY <1>t
    <3> QED BY <2>1, <3>1, MoveHeadMiddle
  <2>3. /\ handed' = handed /\ wire' = wire
        /\ message_queue_'[s] = Append(message_queue_[s], Head(posted[s]))
        /\ posted'[s] = Tail(posted[s])
        /\ \A r \in Sessions \ {s} :
             message_queue_'[r] = message_queue_[r] /\ posted'[r] = posted[r]
    BY <1>6 DEF on_send, TypeInv, TypeOK
  <2>4. handed[s] = (wire[s] \o message_queue_[s]) \o posted[s] BY DEF DeliveryFifo
  <2> QED BY <1>s, <2>2, <2>3, <2>4
<1>7. ASSUME NEW s \in Sessions, on_write(s) PROVE DeliveryFifo'
  <2>1. message_queue_[s] # <<>> BY <1>7 DEF on_write, TypeInv, WriteInv
  <2>2. Append(wire[s], Head(message_queue_[s])) \o Tail(message_queue_[s])
          = wire[s] \o message_queue_[s]
    BY <1>t, <2>1, MoveHead
  <2>3. /\ handed' = handed /\ posted' = posted
        /\ wire'[s] = Append(wire[s], Head(message_queue_[s]))
        /\ message_queue_'[s] = Tail(message_queue_[s])
        /\ \A r \in Sessions \ {s} :
             message_queue_'[r] = message_queue_[r] /\ wire'[r] = wire[r]
    BY <1>7 DEF on_write, TypeInv, TypeOK
  <2>4. handed[s] = (wire[s] \o message_queue_[s]) \o posted[s] BY DEF DeliveryFifo
  <2> QED BY <1>s, <2>2, <2>3, <2>4
<1>8. ASSUME NEW s \in Sessions, on_write_error(s) PROVE DeliveryFifo'
  BY <1>8, <1>q DEF on_write_error
<1>9. ASSUME NEW s \in Sessions, Destroy(s) PROVE DeliveryFifo'
  <2>1. posted'[s] = <<>> BY <1>9 DEF Destroy, Referenced, TypeInv, TypeOK
  <2>2. /\ handed'[s] = <<>> /\ wire'[s] = <<>> /\ message_queue_'[s] = <<>>
        /\ \A r \in Sessions \ {s} :
             /\ handed'[r] = handed[r] /\ wire'[r] = wire[r]
             /\ message_queue_'[r] = message_queue_[r] /\ posted'[r] = posted[r]
    BY <1>9 DEF Destroy, TypeInv, TypeOK
  <2>3. <<>> \o <<>> \o <<>> = <<>> BY ConcatEmptySeq, EmptySeq
  <2> QED BY <1>s, <2>1, <2>2, <2>3
<1>10. ASSUME NEW w \in Workers, handle_message(w) PROVE DeliveryFifo'
  BY <1>10, <1>q DEF handle_message, sessionVars
<1>11. ASSUME NEW w \in Workers, Lookup(w) PROVE DeliveryFifo'
  BY <1>11, <1>q DEF Lookup, sessionVars
<1>12. ASSUME NEW w \in Workers, NEW s \in Sessions, send(w, s) PROVE DeliveryFifo'
  <2> DEFINE m == Head(rounds[w]).msg
             b == wire[s] \o message_queue_[s]
  <2>1. rounds[w] # <<>> /\ rounds[w] \in Seq(Round) BY <1>12 DEF send, TypeInv, TypeOK, HeldInv
  <2>2. Head(rounds[w]) \in Round BY <2>1, NonEmptySeq
  <2>3. m \in Message BY <2>2 DEF Round
  <2>4. /\ wire' = wire /\ message_queue_' = message_queue_
        /\ handed'[s] = Append(handed[s], m) /\ posted'[s] = Append(posted[s], m)
        /\ \A r \in Sessions \ {s} : handed'[r] = handed[r] /\ posted'[r] = posted[r]
    BY <1>12 DEF send, sessionVars, TypeInv, TypeOK
  <2>5. b \in Seq(Message) BY <1>t, ConcatProperties
  <2>6. handed[s] = b \o posted[s] BY DEF DeliveryFifo
  <2> HIDE DEF m, b
  <2>7. b \o Append(posted[s], m) = Append(b \o posted[s], m) BY <1>t, <2>3, <2>5, AppendConcat
  <2> QED BY <1>s, <2>4, <2>6, <2>7 DEF b
<1>13. ASSUME NEW w \in Workers, Release(w) PROVE DeliveryFifo'
  BY <1>13, <1>q DEF Release, sessionVars
<1>14. ASSUME NEW s \in Sessions, ClientGone(s) PROVE DeliveryFifo' BY <1>14, <1>q DEF ClientGone
<1>15. CASE UNCHANGED vars BY <1>15, <1>q DEF vars, sessionVars
<1> QED BY <1>1, <1>2, <1>3, <1>4, <1>5, <1>6, <1>7, <1>8, <1>9, <1>10, <1>11, <1>12, <1>13,
           <1>14, <1>15 DEF Next, Serve, Work

\* The write queue and the strand keep the messages of a session in the order in which
\* send() was called, none lost or doubled, whatever the workers and the client do.
THEOREM DeliveryFifoCorrect == Spec => []DeliveryFifo
<1>1. Init => DeliveryFifo
  <2>1. <<>> \o <<>> \o <<>> = <<>> BY ConcatEmptySeq, EmptySeq
  <2> QED BY <2>1 DEF Init, DeliveryFifo
<1> QED BY <1>1, DeliveryStep, TypeInvCorrect, PTL DEF Spec
=============================================================================
