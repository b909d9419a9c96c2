------------------------- MODULE HttpSessionProofs -------------------------
(***************************************************************************)
(* Proofs about HttpSession: for every queue limit and any number of       *)
(* requests the session is serial, counts its requests right, implements   *)
(* HttpExchange, and keeps a connection or drops it after one answer.      *)
(***************************************************************************)
EXTENDS HttpSession, FiniteSetTheorems, TLAPS

USE LimitAssumption, RequestsAssumption

-----------------------------------------------------------------------------
(***************************************************************************)
(* The inductive invariant: the session is always in one of four phases,   *)
(* and in each of them it is known where the last request read is.         *)
(***************************************************************************)

\* Nothing is being handled; a read may be outstanding.
Resting ==
  /\ reads \in {0, 1} /\ writes = 0 /\ tasks = {} /\ posted = <<>>
  /\ status \in {"new", "open"} => response_queue_ = <<>> /\ Len(wire) = taken

\* The last request read is not answered, and no read is outstanding.
Pending == reads = 0 /\ status = "open" /\ taken = Len(wire) + 1

Handling ==
  /\ Pending
  /\ writes = 0 /\ tasks = {taken} /\ posted = <<>> /\ response_queue_ = <<>>

Posted ==
  /\ Pending
  /\ writes = 0 /\ tasks = {} /\ response_queue_ = <<>>
  /\ \E k \in BOOLEAN : posted = <<[req |-> taken, keep_alive |-> k]>>

Writing ==
  /\ Pending
  /\ writes = 1 /\ tasks = {} /\ posted = <<>>
  /\ \E k \in BOOLEAN : response_queue_ = <<[req |-> taken, keep_alive |-> k]>>

SerialInv ==
  /\ taken \in Nat
  /\ wire \in Seq(Nat)
  /\ status \in {"new", "open", "closed", "failed", "upgraded"}
  /\ status = "new" => reads = 0
  /\ Resting \/ Handling \/ Posted \/ Writing

\* The session goes from phase to phase: do_read, on_read, the worker, queue_write,
\* on_write, and round again.
LEMMA SerialInvStep == SerialInv /\ [Next]_vars => SerialInv'
<1> SUFFICES ASSUME SerialInv, [Next]_vars PROVE SerialInv' OBVIOUS
<1> USE DEF SerialInv, Pending
<1>1. CASE run
  <2>1. Resting BY <1>1 DEF run, Handling, Posted, Writing
  <2>2. reads' \in {0, 1} BY <1>1 DEF run, do_read
  <2>3. Resting' BY <1>1, <2>1, <2>2 DEF run, Resting
  <2> QED BY <1>1, <2>3 DEF run
<1>2. CASE on_read
  <2>1. Resting /\ reads = 1 BY <1>2 DEF on_read, RequestReady, Resting, Handling, Posted, Writing
  <2>2. Handling' BY <1>2, <2>1 DEF on_read, RequestReady, Resting, Handling
  <2> QED BY <1>2, <2>2 DEF on_read, RequestReady
<1>3. CASE on_read_upgrade
  <2>1. Resting BY <1>3 DEF on_read_upgrade, RequestReady, Handling, Posted, Writing
  <2>2. Resting' BY <1>3, <2>1 DEF on_read_upgrade, RequestReady, Resting
  <2> QED BY <1>3, <2>2 DEF on_read_upgrade, RequestReady
<1>4. CASE on_read_end
  <2>1. Resting BY <1>4 DEF on_read_end, Handling, Posted, Writing
  <2>2. Resting' BY <1>4, <2>1 DEF on_read_end, Resting
  <2> QED BY <1>4, <2>2 DEF on_read_end
<1>5. CASE on_read_error
  <2>1. Resting BY <1>5 DEF on_read_error, Handling, Posted, Writing
  <2>2. Resting' BY <1>5, <2>1 DEF on_read_error, Resting
  <2> QED BY <1>5, <2>2 DEF on_read_error
<1>6. CASE queue_write
  <2>1. Posted BY <1>6 DEF queue_write, Resting, Handling, Writing
  <2>2. PICK k \in BOOLEAN : posted = <<[req |-> taken, keep_alive |-> k]>> BY <2>1 DEF Posted
  <2>3. /\ Head(posted) = [req |-> taken, keep_alive |-> k] /\ Tail(posted) = <<>>
        /\ Append(<<>>, Head(posted)) = <<[req |-> taken, keep_alive |-> k]>>
    BY <2>2
  <2>4. Writing' BY <1>6, <2>1, <2>3 DEF queue_write, Posted, Writing
  <2> QED BY <1>6, <2>4 DEF queue_write
<1>7. CASE on_write_error
  <2>1. Writing BY <1>7 DEF on_write_error, Resting, Handling, Posted
  <2>2. Resting' BY <1>7, <2>1 DEF on_write_error, Writing, Resting
  <2> QED BY <1>7, <2>2 DEF on_write_error
<1>8. CASE on_write_close
  <2>1. Writing BY <1>8 DEF on_write_close, Resting, Handling, Posted
  <2>2. Head(response_queue_).req \in Nat BY <2>1 DEF Writing
  <2>3. Resting' BY <1>8, <2>1 DEF on_write_close, Writing, Resting
  <2> QED BY <1>8, <2>2, <2>3 DEF on_write_close
<1>9. CASE on_write
  <2>1. Writing BY <1>9 DEF on_write, Resting, Handling, Posted
  <2>2. PICK k \in BOOLEAN : response_queue_ = <<[req |-> taken, keep_alive |-> k]>>
    BY <2>1 DEF Writing
  <2>3. /\ Head(response_queue_).req = taken /\ Tail(response_queue_) = <<>>
        /\ Len(response_queue_) = 1
    BY <2>2
  <2>4. wire' \in Seq(Nat) /\ Len(wire') = taken' BY <1>9, <2>1, <2>3 DEF on_write, Writing
  <2>5. reads' \in {0, 1} BY <1>9, <2>1 DEF on_write, do_read, Writing
  <2>6. Resting' BY <1>9, <2>1, <2>3, <2>4, <2>5 DEF on_write, Writing, Resting
  <2> QED BY <1>9, <2>4, <2>6 DEF on_write
<1>10. ASSUME NEW r \in tasks, queue_response_from_worker(r) PROVE SerialInv'
  <2>1. Handling /\ r = taken BY <1>10 DEF Resting, Handling, Posted, Writing
  <2>2. PICK k \in BOOLEAN : posted' = Append(posted, [req |-> r, keep_alive |-> k])
    BY <1>10 DEF queue_response_from_worker
  <2>3. posted' = <<[req |-> taken', keep_alive |-> k]>>
    BY <1>10, <2>1, <2>2 DEF Handling, queue_response_from_worker
  <2>4. Posted' BY <1>10, <2>1, <2>3 DEF queue_response_from_worker, Handling, Posted
  <2> QED BY <1>10, <2>4 DEF queue_response_from_worker
<1>11. CASE ClientSend BY <1>11 DEF ClientSend, Resting, Handling, Posted, Writing
<1>12. CASE ClientClose BY <1>12 DEF ClientClose, Resting, Handling, Posted, Writing
<1>13. CASE DeadlinePasses BY <1>13 DEF DeadlinePasses, Resting, Handling, Posted, Writing
<1>14. CASE UNCHANGED vars BY <1>14 DEF vars, Resting, Handling, Posted, Writing
<1> QED BY <1>1, <1>2, <1>3, <1>4, <1>5, <1>6, <1>7, <1>8, <1>9, <1>10, <1>11, <1>12, <1>13,
           <1>14 DEF Next, Strand, Worker

\* A session that was not run yet is resting.
LEMMA SerialInvInit == Init => SerialInv
BY DEF Init, SerialInv, Resting

\* The session does one thing at a time for every queue limit.
THEOREM SerialCorrect == Spec => []Serial
<1>1. SerialInv => Serial
  <2> SUFFICES ASSUME SerialInv PROVE Holders <= 1 BY DEF Serial
  <2>1. Cardinality({}) = 0 /\ Cardinality({taken}) = 1 BY FS_EmptySet, FS_Singleton
  <2>2. CASE Resting BY <2>1, <2>2 DEF Resting, Holders
  <2>3. CASE Handling BY <2>1, <2>3 DEF Handling, Pending, Holders
  <2>4. CASE Posted BY <2>1, <2>4 DEF Posted, Pending, Holders
  <2>5. CASE Writing BY <2>1, <2>5 DEF Writing, Pending, Holders
  <2> QED BY <2>2, <2>3, <2>4, <2>5 DEF SerialInv
<1> QED BY <1>1, SerialInvInit, SerialInvStep, PTL DEF Spec

\* The session implements HttpExchange: a read is a Take or a stutter, the end of a
\* write is an Answer, and everything that ends the HTTP loop is an End.
THEOREM Refinement == Spec => ImplementsExchange
<1>1. Init => Exchange!Init BY DEF Init, Exchange!Init
<1>2. SerialInv /\ [Next]_vars => [Exchange!Next]_(Exchange!vars)
  <2> SUFFICES ASSUME SerialInv, [Next]_vars PROVE [Exchange!Next]_(Exchange!vars) OBVIOUS
  <2> USE DEF SerialInv, Pending
  <2>1. CASE run BY <2>1 DEF run, Exchange!vars
  <2>2. CASE on_read
    <3>1. Resting BY <2>2 DEF on_read, RequestReady, Handling, Posted, Writing
    <3>2. Exchange!Take BY <2>2, <3>1 DEF on_read, RequestReady, Resting, Exchange!Take
    <3> QED BY <3>2 DEF Exchange!Next
  <2>3. CASE on_read_upgrade
    BY <2>3 DEF on_read_upgrade, RequestReady, Exchange!Next, Exchange!End
  <2>4. CASE on_read_end BY <2>4 DEF on_read_end, Exchange!Next, Exchange!End
  <2>5. CASE on_read_error BY <2>5 DEF on_read_error, Exchange!Next, Exchange!End
  <2>6. CASE queue_write BY <2>6 DEF queue_write, Exchange!vars
  <2>7. CASE on_write_error BY <2>7 DEF on_write_error, Exchange!Next, Exchange!End
  <2>8. CASE on_write_close
    <3>1. Writing BY <2>8 DEF on_write_close, Resting, Handling, Posted
    <3>2. Head(response_queue_).req = Len(wire) + 1 BY <3>1 DEF Writing
    <3>3. Exchange!Answer BY <2>8, <3>1, <3>2 DEF on_write_close, Writing, Exchange!Answer
    <3> QED BY <3>3 DEF Exchange!Next
  <2>9. CASE on_write
    <3>1. Writing BY <2>9 DEF on_write, Resting, Handling, Posted
    <3>2. Head(response_queue_).req = Len(wire) + 1 BY <3>1 DEF Writing
    <3>3. Exchange!Answer BY <2>9, <3>1, <3>2 DEF on_write, Writing, Exchange!Answer
    <3> QED BY <3>3 DEF Exchange!Next
  <2>10. ASSUME NEW r \in tasks, queue_response_from_worker(r) PROVE UNCHANGED Exchange!vars
    BY <2>10 DEF queue_response_from_worker, Exchange!vars
  <2>11. CASE ClientSend BY <2>11 DEF ClientSend, Exchange!vars
  <2>12. CASE ClientClose BY <2>12 DEF ClientClose, Exchange!vars
  <2>13. CASE DeadlinePasses BY <2>13 DEF DeadlinePasses, Exchange!vars
  <2>14. CASE UNCHANGED vars BY <2>14 DEF vars, Exchange!vars
  <2> QED BY <2>1, <2>2, <2>3, <2>4, <2>5, <2>6, <2>7, <2>8, <2>9, <2>10, <2>11, <2>12,
             <2>13, <2>14 DEF Next, Strand, Worker
<1> QED BY <1>1, <1>2, SerialInvInit, SerialInvStep, PTL
        DEF Spec, ImplementsExchange, Exchange!Spec

-----------------------------------------------------------------------------
(***************************************************************************)
(* The counters                                                            *)
(***************************************************************************)

\* While the connection is up inflight_requests_ is what was read and not yet written.
CountInv ==
  /\ sent \in 0..MaxRequests
  /\ taken \in 0..sent
  /\ peer \in {"open", "closed"}
  /\ deadline \in {"none", "armed", "passed"}
  /\ response_queue_ \in Seq(Response)
  /\ inflight_requests_ \in Nat
  /\ status \in {"new", "open"} => inflight_requests_ = taken - Len(wire)

\* Each handler keeps inflight_requests_ equal to the requests read and not answered.
LEMMA CountInvStep == SerialInv /\ CountInv /\ [Next]_vars => CountInv'
<1> SUFFICES ASSUME SerialInv, CountInv, [Next]_vars PROVE CountInv' OBVIOUS
<1> USE DEF CountInv
<1>t. taken \in Nat /\ wire \in Seq(Nat) /\ Len(wire) \in Nat BY DEF SerialInv
<1>1. CASE run BY <1>1 DEF run, do_read
<1>2. CASE on_read
  <2>1. status = "open" /\ sent > taken BY <1>2 DEF on_read, RequestReady
  <2>2. /\ taken' = taken + 1 /\ inflight_requests_' = inflight_requests_ + 1
        /\ UNCHANGED <<sent, peer, deadline, response_queue_, status, wire>>
    BY <1>2 DEF on_read
  <2> QED BY <1>t, <2>1, <2>2
<1>3. CASE on_read_upgrade BY <1>3 DEF on_read_upgrade
<1>4. CASE on_read_end BY <1>4 DEF on_read_end
<1>5. CASE on_read_error BY <1>5 DEF on_read_error
<1>6. CASE queue_write
  <2>1. Posted BY <1>6 DEF queue_write, SerialInv, Resting, Handling, Writing
  <2>2. PICK k \in BOOLEAN : posted = <<[req |-> taken, keep_alive |-> k]>> BY <2>1 DEF Posted
  <2>3. taken # 0 BY <1>t, <2>1 DEF Posted, Pending
  <2>4. Head(posted) \in Response BY <1>t, <2>2, <2>3 DEF Response
  <2>5. response_queue_' \in Seq(Response) BY <1>6, <2>4 DEF queue_write
  <2> QED BY <1>6, <2>5 DEF queue_write
<1>7. CASE on_write_error BY <1>7 DEF on_write_error
<1>8. CASE on_write_close BY <1>8 DEF on_write_close
<1>9. CASE on_write
  <2>1. Writing BY <1>9 DEF on_write, SerialInv, Resting, Handling, Posted
  <2>2. PICK k \in BOOLEAN : response_queue_ = <<[req |-> taken, keep_alive |-> k]>>
    BY <2>1 DEF Writing
  <2>3. response_queue_' = <<>> /\ Head(response_queue_).req = taken BY <1>9, <2>2 DEF on_write
  <2>4. <<>> \in Seq(Response) OBVIOUS
  <2>5. inflight_requests_ = 1 /\ taken = Len(wire) + 1 BY <1>t, <2>1 DEF Writing, Pending
  <2>6. Len(wire') = Len(wire) + 1 BY <1>9, <1>t, <2>3 DEF on_write
  <2>7. deadline' \in {"none", "armed", "passed"} BY <1>9 DEF on_write, do_read
  <2>8. /\ inflight_requests_' = inflight_requests_ - 1
        /\ UNCHANGED <<sent, peer, taken, status>>
    BY <1>9 DEF on_write
  <2> QED BY <1>t, <2>3, <2>4, <2>5, <2>6, <2>7, <2>8
<1>10. ASSUME NEW r \in tasks, queue_response_from_worker(r) PROVE CountInv'
  BY <1>10 DEF queue_response_from_worker
<1>11. CASE ClientSend BY <1>t, <1>11 DEF ClientSend
<1>12. CASE ClientClose BY <1>12 DEF ClientClose
<1>13. CASE DeadlinePasses BY <1>13 DEF DeadlinePasses
<1>14. CASE UNCHANGED vars BY <1>14 DEF vars
<1> QED BY <1>1, <1>2, <1>3, <1>4, <1>5, <1>6, <1>7, <1>8, <1>9, <1>10, <1>11, <1>12, <1>13,
           <1>14 DEF Next, Strand, Worker

\* Both invariants hold of every reachable state.
LEMMA CountCorrect == Spec => [](SerialInv /\ CountInv)
<1>1. Init => CountInv
  <2> SUFFICES ASSUME Init PROVE CountInv OBVIOUS
  <2>1. response_queue_ \in Seq(Response) /\ Len(wire) = 0 BY DEF Init
  <2>2. inflight_requests_ = 0 /\ taken = 0 /\ sent = 0 BY DEF Init
  <2>3. inflight_requests_ = taken - Len(wire) BY <2>1, <2>2
  <2>4. sent \in 0..MaxRequests /\ taken \in 0..sent BY <2>2
  <2>5. peer \in {"open", "closed"} /\ deadline \in {"none", "armed", "passed"} BY DEF Init
  <2> QED BY <2>1, <2>2, <2>3, <2>4, <2>5 DEF CountInv
<1> QED BY <1>1, CountInvStep, SerialInvInit, SerialInvStep, PTL DEF Spec

\* Type correctness of the session; a write is under way only for a response of the queue.
THEOREM TypeCorrect == Spec => []TypeOK
<1>1. SerialInv /\ CountInv => TypeOK
  <2> SUFFICES ASSUME SerialInv, CountInv PROVE TypeOK OBVIOUS
  <2>1. taken \in Nat /\ wire \in Seq(Nat) /\ taken \in 0..MaxRequests
    BY DEF SerialInv, CountInv
  <2>2. <<>> \in Seq(Response) OBVIOUS
  <2>3. /\ reads \in Nat /\ writes \in Nat /\ tasks \subseteq 1..taken
        /\ posted \in Seq(Response)
        /\ writes > 0 => response_queue_ # <<>>
    <3>1. CASE Resting BY <2>2, <3>1 DEF Resting
    <3>2. CASE Handling
      <4>1. taken > 0 BY <2>1, <3>2 DEF Handling, Pending
      <4> QED BY <2>1, <2>2, <3>2, <4>1 DEF Handling, Pending
    <3>3. CASE Posted
      <4>1. taken \in Nat \ {0} BY <2>1, <3>3 DEF Posted, Pending
      <4>2. \A k \in BOOLEAN : [req |-> taken, keep_alive |-> k] \in Response
        BY <4>1 DEF Response
      <4> QED BY <3>3, <4>2 DEF Posted, Pending
    <3>4. CASE Writing BY <2>2, <3>4 DEF Writing, Pending
    <3> QED BY <3>1, <3>2, <3>3, <3>4 DEF SerialInv
  <2> QED BY <2>1, <2>3 DEF TypeOK, SerialInv, CountInv
<1> QED BY <1>1, CountCorrect, PTL

\* The increments of on_read() and the decrements of on_write(), made on the strand with a
\* worker thread in between, never drift apart, so the comparison in do_read() is with
\* the requests that are really being handled.
THEOREM InflightCorrect == Spec => []InflightExact
<1>1. SerialInv /\ CountInv => InflightExact
  <2> SUFFICES ASSUME SerialInv, CountInv, status = "open"
               PROVE  inflight_requests_
                        = Cardinality(tasks) + Len(posted) + Len(response_queue_)
    BY DEF InflightExact
  <2>0. Cardinality({}) = 0 /\ Cardinality({taken}) = 1 BY FS_EmptySet, FS_Singleton
  <2>1. /\ taken \in Nat /\ Len(wire) \in Nat /\ Len(<<>>) = 0
        /\ inflight_requests_ = taken - Len(wire)
    BY DEF SerialInv, CountInv
  <2>2. CASE Resting BY <2>0, <2>1, <2>2 DEF Resting
  <2>3. CASE Handling BY <2>0, <2>1, <2>3 DEF Handling, Pending
  <2>4. CASE Posted BY <2>0, <2>1, <2>4 DEF Posted, Pending
  <2>5. CASE Writing BY <2>0, <2>1, <2>5 DEF Writing, Pending
  <2> QED BY <2>2, <2>3, <2>4, <2>5 DEF SerialInv
<1> QED BY <1>1, CountCorrect, PTL

-----------------------------------------------------------------------------
(***************************************************************************)
(* Keep-alive                                                              *)
(***************************************************************************)

\* The one way in which keep-alive fails: on_write() finds the queue below a limit above
\* one and does not resume reading, when the first request of the connection is answered.
DroppedAfterFirst == QueueLimit > 1 /\ taken = 1 /\ wire = <<1>>

\* Between two requests an open session has a read outstanding, or will never read again;
\* with a limit above one nothing is read after the first request.
ReadInv ==
  /\ status = "new" => taken = 0
  /\ QueueLimit > 1 => taken <= 1 /\ (reads > 0 => taken = 0)
  /\ status = "open" /\ Resting => reads = 1 \/ DroppedAfterFirst

\* With a limit of one every handler that leaves an open session resting reads again, and
\* with a greater one only run() does.
LEMMA ReadInvStep == SerialInv /\ CountInv /\ ReadInv /\ [Next]_vars => ReadInv'
<1> SUFFICES ASSUME SerialInv, CountInv, ReadInv, [Next]_vars PROVE ReadInv' OBVIOUS
<1>t. taken \in Nat /\ wire \in Seq(Nat) /\ Len(wire) \in Nat BY DEF SerialInv
<1>l. QueueLimit = 1 \/ QueueLimit > 1 OBVIOUS
<1>q. ASSUME UNCHANGED <<status, reads, writes, tasks, posted, response_queue_, wire, taken>>
      PROVE  ReadInv'
  BY <1>q DEF ReadInv, Resting, DroppedAfterFirst
<1>1. CASE run
  <2>1. Resting /\ reads = 0 BY <1>1 DEF run, SerialInv, Handling, Posted, Writing, Pending
  <2>2. inflight_requests_ = 0 BY <1>1, <1>t, <2>1 DEF run, CountInv, Resting
  <2>3. reads' = 1 /\ taken = 0 /\ UNCHANGED taken
    BY <1>1, <2>1, <2>2 DEF run, do_read, ReadInv
  <2> QED BY <1>1, <2>3 DEF run, ReadInv
<1>2. CASE on_read
  <2>1. tasks' # {} /\ reads \in {1} /\ status' = "open"
    BY <1>2 DEF on_read, RequestReady, SerialInv, Resting, Handling, Posted, Writing, Pending
  <2>2. taken' = taken + 1 /\ reads' = reads - 1 BY <1>2 DEF on_read
  <2> QED BY <1>t, <2>1, <2>2 DEF ReadInv, Resting
<1>s. ASSUME status' \in {"closed", "failed", "upgraded"}, UNCHANGED taken,
             reads' = reads \/ reads' = reads - 1
      PROVE  ReadInv'
  <2>1. reads \in {0, 1} BY DEF SerialInv, Resting, Handling, Posted, Writing, Pending
  <2> QED BY <1>s, <2>1 DEF ReadInv
<1>3. CASE on_read_upgrade BY <1>3, <1>s DEF on_read_upgrade
<1>4. CASE on_read_end BY <1>4, <1>s DEF on_read_end
<1>5. CASE on_read_error BY <1>5, <1>s DEF on_read_error
<1>6. CASE queue_write
  <2>1. Posted BY <1>6 DEF queue_write, SerialInv, Resting, Handling, Writing
  <2>2. response_queue_ = <<>> /\ writes = 0 BY <2>1 DEF Posted
  <2>3. writes' = 1 /\ UNCHANGED <<reads, taken, status>> BY <1>6, <2>2 DEF queue_write
  <2> QED BY <2>3 DEF ReadInv, Resting
<1>7. CASE on_write_error BY <1>7, <1>s DEF on_write_error
<1>8. CASE on_write_close BY <1>8, <1>s DEF on_write_close
<1>9. CASE on_write
  <2>1. Writing BY <1>9 DEF on_write, SerialInv, Resting, Handling, Posted
  <2>2. PICK k \in BOOLEAN : response_queue_ = <<[req |-> taken, keep_alive |-> k]>>
    BY <2>1 DEF Writing
  <2>3. Len(response_queue_) = 1 /\ Head(response_queue_).req = taken BY <2>2
  <2>4. /\ inflight_requests_ = 1 /\ reads = 0 /\ taken = Len(wire) + 1
        /\ UNCHANGED <<taken, status>> /\ status = "open"
    BY <1>9, <1>t, <2>1 DEF on_write, Writing, Pending, CountInv
  <2>5. CASE QueueLimit = 1
    <3>1. reads' = 1 BY <1>9, <2>3, <2>4, <2>5 DEF on_write, do_read
    <3> QED BY <2>4, <2>5, <3>1 DEF ReadInv
  <2>6. CASE QueueLimit > 1
    <3>1. reads' = 0 BY <1>9, <2>3, <2>4, <2>6 DEF on_write
    <3>2. taken = 1 /\ Len(wire) = 0 BY <1>t, <2>4, <2>6 DEF ReadInv
    <3>3. wire = <<>> BY <1>t, <3>2
    <3>4. wire' = <<1>> BY <1>9, <2>3, <3>2, <3>3 DEF on_write
    <3> QED BY <2>4, <2>6, <3>1, <3>2, <3>4 DEF ReadInv, DroppedAfterFirst
  <2> QED BY <1>l, <2>5, <2>6
<1>10. ASSUME NEW r \in tasks, queue_response_from_worker(r) PROVE ReadInv'
  <2>1. Handling BY <1>10 DEF SerialInv, Resting, Posted, Writing
  <2>2. posted' # <<>> BY <1>10, <2>1 DEF queue_response_from_worker, Handling
  <2>3. UNCHANGED <<reads, taken, status>> BY <1>10 DEF queue_response_from_worker
  <2> QED BY <2>2, <2>3 DEF ReadInv, Resting
<1>11. CASE ClientSend BY <1>11, <1>q DEF ClientSend
<1>12. CASE ClientClose BY <1>12, <1>q DEF ClientClose
<1>13. CASE DeadlinePasses BY <1>13, <1>q DEF DeadlinePasses
<1>14. CASE UNCHANGED vars BY <1>14, <1>q DEF vars
<1> QED BY <1>1, <1>2, <1>3, <1>4, <1>5, <1>6, <1>7, <1>8, <1>9, <1>10, <1>11, <1>12, <1>13,
           <1>14 DEF Next, Strand, Worker

\* What holds of reading in every reachable state.
LEMMA ReadCorrect == Spec => [](SerialInv /\ ReadInv)
<1>1. Init => ReadInv BY DEF Init, ReadInv
<1> QED BY <1>1, ReadInvStep, CountCorrect, PTL DEF Spec

\* For every limit the setter of config.hpp accepts: a connection the client may go on using
\* is kept, or the limit is above one and the connection is dropped when exactly its first
\* request has been read and answered.  With the limit one, keep-alive works for any
\* number of requests.
THEOREM KeepAliveCorrect == Spec => [](KeepAliveHonoured \/ DroppedAfterFirst)
<1>1. SerialInv /\ ReadInv => KeepAliveHonoured \/ DroppedAfterFirst
  <2> SUFFICES ASSUME SerialInv, ReadInv, status = "open", ~DroppedAfterFirst
               PROVE  Holders # 0
    BY DEF KeepAliveHonoured, Destroyed
  <2>1. Cardinality({}) = 0 /\ Cardinality({taken}) = 1 /\ Len(<<>>) = 0
    BY FS_EmptySet, FS_Singleton
  <2>2. CASE Resting BY <2>1, <2>2 DEF Resting, ReadInv, Holders
  <2>3. CASE Handling BY <2>1, <2>3 DEF Handling, Pending, Holders
  <2>4. CASE Posted BY <2>1, <2>4 DEF Posted, Pending, Holders
  <2>5. CASE Writing BY <2>1, <2>5 DEF Writing, Pending, Holders
  <2> QED BY <2>2, <2>3, <2>4, <2>5 DEF SerialInv
<1> QED BY <1>1, ReadCorrect, PTL

\* With any limit above one, the 35 of doc/config.ini among them, a session reads no second
\* request, however many the client sends and however long it keeps the connection.
THEOREM OneReadAboveOne == Spec => [](QueueLimit > 1 => taken <= 1)
<1>1. ReadInv => (QueueLimit > 1 => taken <= 1) BY DEF ReadInv
<1> QED BY <1>1, ReadCorrect, PTL
=============================================================================
