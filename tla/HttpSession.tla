----------------------------- MODULE HttpSession -----------------------------
(***************************************************************************)
(* One HTTP connection, src/core/http_session.{hpp,cpp}: the read loop, the *)
(* hand-over of requests to the worker threads, the responses posted back  *)
(* to the connection's strand and the write loop.                          *)
(*                                                                         *)
(* The handlers of a strand (do_read, on_read, queue_write, on_write) are  *)
(* steps that do not overlap.  Between them, in any order, the worker      *)
(* threads finish requests, the client sends and closes, and the 30 s      *)
(* deadline of the stream passes.                                          *)
(*                                                                         *)
(* The session is a shared_ptr: each outstanding operation, task and       *)
(* posted handler holds a reference, and when the last one goes the        *)
(* session is destroyed and its socket closed.                             *)
(***************************************************************************)
EXTENDS Naturals, Sequences, FiniteSets

CONSTANTS
  QueueLimit,    \* Server.queue_limit
  MaxRequests    \* bound: requests the client sends on this connection

\* AppConfig::Server::queue_limit(unsigned) refuses 0.
ASSUME LimitAssumption == QueueLimit \in Nat \ {0}
ASSUME RequestsAssumption == MaxRequests \in Nat

VARIABLES
  sent,                \* requests the client has sent
  peer,                \* whether the client still has its side open
  deadline,            \* the deadline set by stream_.expires_after
  reads, writes,       \* outstanding async_read and async_write operations
  inflight_requests_,
  taken,               \* requests read so far: 1..taken
  tasks,               \* requests in the thread pool
  posted,              \* responses posted to the strand
  response_queue_,
  status,              \* how far the connection is
  wire                 \* history: responses written, as numbers of requests

vars == <<sent, peer, deadline, reads, writes, inflight_requests_, taken,
          tasks, posted, response_queue_, status, wire>>

\* A response: the request it answers and whether it keeps the connection.
Response == [req : Nat \ {0}, keep_alive : BOOLEAN]

Init ==
  /\ sent = 0
  /\ peer = "open"
  /\ deadline = "none"
  /\ reads = 0
  /\ writes = 0
  /\ inflight_requests_ = 0
  /\ taken = 0
  /\ tasks = {}
  /\ posted = <<>>
  /\ response_queue_ = <<>>
  /\ status = "new"
  /\ wire = <<>>

-----------------------------------------------------------------------------
\* do_read(): the deadline is renewed in any case; at the limit nothing is read.
\* Called with the number of requests in flight and of reads outstanding at that point.
do_read(inflight, outstanding) ==
  /\ deadline' = "armed"
  /\ reads' = IF inflight >= QueueLimit THEN outstanding ELSE outstanding + 1

\* run(): the dispatched do_read().
run ==
  /\ status = "new"
  /\ status' = "open"
  /\ do_read(inflight_requests_, reads)
  /\ UNCHANGED <<sent, peer, writes, inflight_requests_, taken, tasks, posted,
                 response_queue_, wire>>

\* A complete request is in the socket or in buffer_, and a read is outstanding.
RequestReady == status = "open" /\ reads > 0 /\ sent > taken

\* Mutation: on_read() starts the next read at once, as pipelining would need.
on_readPipelined ==
  /\ RequestReady
  /\ inflight_requests_' = inflight_requests_ + 1
  /\ taken' = taken + 1
  /\ tasks' = tasks \cup {taken + 1}
  /\ UNCHANGED <<sent, peer, deadline, reads, writes, posted, response_queue_, status, wire>>

\* on_read() with a request: it is handed to the thread pool, and no new read is
\* started.
on_read ==
  /\ RequestReady
  /\ reads' = reads - 1
  /\ inflight_requests_' = inflight_requests_ + 1
  /\ taken' = taken + 1
  /\ tasks' = tasks \cup {taken + 1}
  /\ UNCHANGED <<sent, peer, deadline, writes, posted, response_queue_, status, wire>>

\* on_read() with a websocket upgrade: the socket goes to a WebsocketSession.
on_read_upgrade ==
  /\ RequestReady
  /\ reads' = reads - 1
  /\ status' = "upgraded"
  /\ UNCHANGED <<sent, peer, deadline, writes, inflight_requests_, taken, tasks,
                 posted, response_queue_, wire>>

\* on_read() with end_of_stream: do_close().
on_read_end ==
  /\ status = "open" /\ reads > 0
  /\ sent = taken /\ peer = "closed"
  /\ reads' = reads - 1
  /\ status' = "closed"
  /\ UNCHANGED <<sent, peer, deadline, writes, inflight_requests_, taken, tasks,
                 posted, response_queue_, wire>>

\* on_read() with another error: a request that is malformed or too large, a
\* reset by the client, or the deadline.  The handler just returns.
on_read_error ==
  /\ status = "open" /\ reads > 0
  /\ sent > taken \/ peer = "closed" \/ deadline = "passed"
  /\ reads' = reads - 1
  /\ status' = "failed"
  /\ UNCHANGED <<sent, peer, deadline, writes, inflight_requests_, taken, tasks,
                 posted, response_queue_, wire>>

\* The task of on_read() in a worker thread: handle_request(), then the response is
\* posted to the strand by queue_response_from_worker().
queue_response_from_worker(r) ==
  /\ r \in tasks
  /\ tasks' = tasks \ {r}
  /\ \E k \in BOOLEAN : posted' = Append(posted, [req |-> r, keep_alive |-> k])
  /\ UNCHANGED <<sent, peer, deadline, reads, writes, inflight_requests_, taken,
                 response_queue_, status, wire>>

\* Mutation: the size of the queue is compared before the push.
queue_writeOffByOne ==
  /\ posted # <<>>
  /\ response_queue_' = Append(response_queue_, Head(posted))
  /\ posted' = Tail(posted)
  /\ writes' = IF Len(response_queue_) = 1 THEN writes + 1 ELSE writes
  /\ UNCHANGED <<sent, peer, deadline, reads, inflight_requests_, taken, tasks,
                 status, wire>>

\* queue_write(): the first response of the queue starts the write loop.
queue_write ==
  /\ posted # <<>>
  /\ response_queue_' = Append(response_queue_, Head(posted))
  /\ posted' = Tail(posted)
  /\ writes' = IF Len(response_queue_) = 0 THEN writes + 1 ELSE writes
  /\ UNCHANGED <<sent, peer, deadline, reads, inflight_requests_, taken, tasks,
                 status, wire>>

\* on_write() with an error: the client is gone or the deadline of the last
\* do_read() has passed.  The response stays at the head of the queue.
on_write_error ==
  /\ status = "open" /\ writes > 0
  /\ peer = "closed" \/ deadline = "passed"
  /\ writes' = writes - 1
  /\ status' = "failed"
  /\ UNCHANGED <<sent, peer, deadline, reads, inflight_requests_, taken, tasks,
                 posted, response_queue_, wire>>

\* on_write() of a response with "Connection: close": do_close().
on_write_close ==
  /\ status = "open" /\ writes > 0
  /\ ~Head(response_queue_).keep_alive
  /\ writes' = writes - 1
  /\ wire' = Append(wire, Head(response_queue_).req)
  /\ status' = "closed"
  /\ UNCHANGED <<sent, peer, deadline, reads, inflight_requests_, taken, tasks,
                 posted, response_queue_>>

\* Mutation: the request is still counted as in flight after its response.
on_writeNoDecrement ==
  /\ status = "open" /\ writes > 0
  /\ Head(response_queue_).keep_alive
  /\ wire' = Append(wire, Head(response_queue_).req)
  /\ IF Len(response_queue_) = QueueLimit
     THEN do_read(inflight_requests_, reads)
     ELSE UNCHANGED <<deadline, reads>>
  /\ response_queue_' = Tail(response_queue_)
  /\ writes' = IF Len(response_queue_) > 1 THEN writes ELSE writes - 1
  /\ UNCHANGED <<sent, peer, inflight_requests_, taken, tasks, posted, status>>

\* Mutation: the size of the queue is compared after the pop.
on_writePopFirst ==
  /\ status = "open" /\ writes > 0
  /\ Head(response_queue_).keep_alive
  /\ wire' = Append(wire, Head(response_queue_).req)
  /\ inflight_requests_' = inflight_requests_ - 1
  /\ IF Len(response_queue_) - 1 = QueueLimit
     THEN do_read(inflight_requests_ - 1, reads)
     ELSE UNCHANGED <<deadline, reads>>
  /\ response_queue_' = Tail(response_queue_)
  /\ writes' = IF Len(response_queue_) > 1 THEN writes ELSE writes - 1
  /\ UNCHANGED <<sent, peer, taken, tasks, posted, status>>

\* Mutation: on_write() starts the next write without looking whether there is a response.
on_writeKeepsWriting ==
  /\ status = "open" /\ writes > 0
  /\ Head(response_queue_).keep_alive
  /\ wire' = Append(wire, Head(response_queue_).req)
  /\ inflight_requests_' = inflight_requests_ - 1
  /\ IF Len(response_queue_) = QueueLimit
     THEN do_read(inflight_requests_ - 1, reads)
     ELSE UNCHANGED <<deadline, reads>>
  /\ response_queue_' = Tail(response_queue_)
  /\ UNCHANGED <<sent, peer, writes, taken, tasks, posted, status>>

\* on_write() of a response that keeps the connection: reading is resumed if the
\* queue is at the limit, compared before the pop; then the next response.
on_write ==
  /\ status = "open" /\ writes > 0
  /\ Head(response_queue_).keep_alive
  /\ wire' = Append(wire, Head(response_queue_).req)
  /\ inflight_requests_' = inflight_requests_ - 1
  /\ IF Len(response_queue_) = QueueLimit
     THEN do_read(inflight_requests_ - 1, reads)
     ELSE UNCHANGED <<deadline, reads>>
  /\ response_queue_' = Tail(response_queue_)
  /\ writes' = IF Len(response_queue_) > 1 THEN writes ELSE writes - 1
  /\ UNCHANGED <<sent, peer, taken, tasks, posted, status>>

-----------------------------------------------------------------------------
\* External: the client sends a request; it need not wait for a response.
ClientSend ==
  /\ peer = "open" /\ sent < MaxRequests
  /\ sent' = sent + 1
  /\ UNCHANGED <<peer, deadline, reads, writes, inflight_requests_, taken, tasks,
                 posted, response_queue_, status, wire>>

\* External: the client closes its side.
ClientClose ==
  /\ peer = "open"
  /\ peer' = "closed"
  /\ UNCHANGED <<sent, deadline, reads, writes, inflight_requests_, taken, tasks,
                 posted, response_queue_, status, wire>>

\* External: thirty seconds since the last do_read() have passed.
DeadlinePasses ==
  /\ deadline = "armed"
  /\ deadline' = "passed"
  /\ UNCHANGED <<sent, peer, reads, writes, inflight_requests_, taken, tasks,
                 posted, response_queue_, status, wire>>

Strand == run \/ on_read \/ on_read_upgrade \/ on_read_end \/ on_read_error
          \/ queue_write \/ on_write_error \/ on_write_close \/ on_write

Worker == \E r \in tasks : queue_response_from_worker(r)

Next == Strand \/ Worker \/ ClientSend \/ ClientClose \/ DeadlinePasses

Spec == Init /\ [][Next]_vars

\* The io threads run the strand and the worker threads their queue; a write
\* completes one way or the other.
FairSpec == Spec /\ WF_vars(Strand) /\ WF_vars(Worker)

-----------------------------------------------------------------------------
(***************************************************************************)
(* Properties                                                              *)
(***************************************************************************)

\* Every variable stays in its type; in particular a write is outstanding only
\* for a response in the queue.
TypeOK ==
  /\ sent \in 0..MaxRequests
  /\ peer \in {"open", "closed"}
  /\ deadline \in {"none", "armed", "passed"}
  /\ reads \in Nat /\ writes \in Nat
  /\ inflight_requests_ \in Nat
  /\ taken \in 0..MaxRequests
  /\ tasks \subseteq 1..taken
  /\ posted \in Seq(Response)
  /\ response_queue_ \in Seq(Response)
  /\ status \in {"new", "open", "closed", "failed", "upgraded"}
  /\ wire \in Seq(Nat)
  /\ writes > 0 => response_queue_ # <<>>

\* What holds a shared_ptr to the session while it is open: an outstanding read or
\* write, a task, a posted handler.
Holders == reads + Cardinality(tasks) + Len(posted) + writes

\* The session does one thing at a time, whatever the client pipelines: it reads,
\* or a worker handles the request, or the response waits for the strand, or
\* it is written.  This, not the queue, is what keeps the responses in order.
Serial == Holders <= 1

\* inflight_requests_ is the number of requests read and not yet answered: the
\* increments of on_read() and the decrements of on_write() match whatever the
\* worker threads do in between.
InflightExact ==
  status = "open" =>
    inflight_requests_ = Cardinality(tasks) + Len(posted) + Len(response_queue_)

\* The session was started and nothing refers to it any more.
Destroyed == status # "new" /\ Holders = 0

\* A connection the client may go on using is not dropped: the session is
\* destroyed only after it was closed, failed or became a websocket.
KeepAliveHonoured == Destroyed => status # "open"

\* Every request that was read is answered, or the connection is over.
RequestAnswered ==
  \A r \in 1..MaxRequests :
    taken >= r ~> (Len(wire) >= r \/ status \in {"closed", "failed"})

Exchange == INSTANCE HttpExchange
              WITH answers <- wire, over <- status \notin {"new", "open"}

\* The session implements the exchange of requests and responses of HTTP/1.1.
ImplementsExchange == Exchange!Spec
=============================================================================
