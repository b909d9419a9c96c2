--------------------------- MODULE ChatRoomsProofs ---------------------------
(***************************************************************************)
(* Proofs about ChatRooms, for any number of workers, users, requests and  *)
(* faults: the types, that the handlers implement ChatStore, and what      *)
(* follows for the tables and for the answers.                             *)
(***************************************************************************)
EXTENDS ChatRooms, FiniteSetTheorems, TLAPS

-----------------------------------------------------------------------------
(***************************************************************************)
(* The types                                                               *)
(***************************************************************************)

\* Which statements a request of each kind consists of.
Place ==
  {<<"none", "idle">>} \cup
  ({"g_room", "p_room"} \X {"begin", "insert_room", "insert_members", "close"}) \cup
  {<<"p_room", "commit">>} \cup
  ({"message"} \X {"begin", "check", "insert_message", "update_room", "commit", "broadcast", "close"}) \cup
  ({"delete"} \X {"begin", "check", "delete_members", "delete_room", "commit", "close"}) \cup
  ({"invite"} \X {"check", "insert_member", "close"})

\* The labels at which nothing is pending, and the requests that never have a transaction.
NothingPending(p, kind) ==
  \/ p \in {"idle", "begin", "check", "insert_room", "insert_message", "delete_members", "broadcast"}
  \/ p = "close" /\ kind # "g_room"
  \/ kind = "invite"

\* What holds of a worker at label p with request q, pending changes t and connection a, l
\* when n ids are handed out.
WorkerOK(p, q, t, a, l, n) ==
  /\ t \in Tx /\ a \in BOOLEAN /\ l \in BOOLEAN /\ p \in Labels /\ q \in Req
  /\ <<q.kind, p>> \in Place
  /\ p = "idle" => q = NoReq
  /\ p # "idle" => q.user \in Users /\ q.other \in Users
  /\ q.room <= n /\ q.msg <= n
  /\ q.room = 0 => p = "idle" \/ (p = "begin" /\ q.kind \in {"g_room", "p_room"})
  /\ t # NoTx => l /\ ~a
  /\ NothingPending(p, q.kind) => t = NoTx
  /\ p \in {"idle", "begin"} \/ q.kind = "invite" => a
  /\ \A x \in t.ins \cup t.del : x.room = q.room /\ (x.table = "messages" => x.key <= n)

WorkersOK == \A w \in Workers : WorkerOK(pc[w], req[w], tx[w], auto[w], live[w], ids)

\* The rows of the tables carry ids that were handed out.
DbOK == \A x \in db : x.room <= ids /\ (x.table = "messages" => x.key <= ids)

\* The rows locked by two transactions are different.
LockInv ==
  \A v, w \in Workers : v # w =>
    \A x \in tx[v].ins \cup tx[v].del, y \in tx[w].ins \cup tx[w].del : ~SameKey(x, y)

\* A request that has not taken its id yet.
Will(p, kind) ==
  \/ p = "begin" /\ kind \in {"g_room", "p_room", "message"}
  \/ p \in {"check", "insert_message"} /\ kind = "message"

\* Every request takes one id at most.
IdsOK == ids + Cardinality({w \in Workers : Will(pc[w], req[w].kind)}) <= requests

TypeInv == TypeOK /\ WorkersOK /\ DbOK /\ LockInv /\ IdsOK

\* A request that still takes its id.
Cost(p, kind) == IF Will(p, kind) THEN 1 ELSE 0

\* A set of workers is finite, and one worker counts for one.
LEMMA Counting ==
  ASSUME NEW S \in SUBSET Workers, NEW v \in Workers
  PROVE  /\ Cardinality(S) \in Nat
         /\ Cardinality(S) = Cardinality(S \ {v}) + (IF v \in S THEN 1 ELSE 0)
<1>1. IsFiniteSet(S) BY WorkersAssumption, FS_Subset
<1>2. Cardinality(S) \in Nat BY <1>1, FS_CardinalityType
<1>3. IsFiniteSet(S \ {v}) BY <1>1, FS_Subset
<1>4. CASE v \in S
  <2>1. Cardinality(S \ {v}) = Cardinality(S) - 1 BY <1>1, <1>4, FS_RemoveElement
  <2> QED BY <1>2, <1>4, <2>1
<1>5. CASE v \notin S
  <2>1. S \ {v} = S BY <1>5
  <2> QED BY <1>2, <1>5, <2>1
<1> QED BY <1>2, <1>4, <1>5

\* A request that still takes its id finds one.
LEMMA IdLeft ==
  ASSUME TypeInv, NEW v \in Workers, Will(pc[v], req[v].kind)
  PROVE  ids + 1 <= requests /\ ids + 1 \in 1..MaxRequests
<1> DEFINE S == {w \in Workers : Will(pc[w], req[w].kind)}
<1>1. v \in S OBVIOUS
<1>2. ids + Cardinality(S) <= requests BY DEF TypeInv, IdsOK
<1> HIDE DEF S
<1>3. S \in SUBSET Workers BY DEF S
<1>4. Cardinality(S \ {v}) \in Nat BY <1>3, Counting
<1>5. Cardinality(S) = Cardinality(S \ {v}) + 1 BY <1>1, <1>3, Counting
<1>6. ids \in Nat /\ requests \in Nat /\ requests <= MaxRequests
  BY BoundsAssumption DEF TypeInv, TypeOK
<1>7. ids + 1 <= requests BY <1>2, <1>4, <1>5, <1>6
<1> QED BY <1>6, <1>7, BoundsAssumption

\* What a step of one worker has to show.
LEMMA OneWorker ==
  ASSUME TypeInv, late' \subseteq Row, NEW v \in Workers, NEW p, NEW q, NEW t, NEW a, NEW l,
         pc' = [pc EXCEPT ![v] = p], req' = [req EXCEPT ![v] = q], tx' = [tx EXCEPT ![v] = t],
         auto' = [auto EXCEPT ![v] = a], live' = [live EXCEPT ![v] = l],
         WorkerOK(p, q, t, a, l, ids'),
         ids' \in Nat, ids <= ids', requests' \in 0..MaxRequests, faults' \in 0..MaxFaults,
         ids' + Cost(p, q.kind) + requests <= ids + Cost(pc[v], req[v].kind) + requests',
         db' \subseteq Row, DbOK', torn' \subseteq 1..MaxRequests,
         \A w \in Workers \ {v} :
           \A x \in t.ins \cup t.del, y \in tx[w].ins \cup tx[w].del : ~SameKey(x, y)
  PROVE  TypeInv'
<1>1. /\ pc \in [Workers -> Labels] /\ req \in [Workers -> Req] /\ tx \in [Workers -> Tx]
      /\ auto \in [Workers -> BOOLEAN] /\ live \in [Workers -> BOOLEAN]
  BY DEF TypeInv, TypeOK
<1>2. p \in Labels /\ q \in Req /\ t \in Tx /\ a \in BOOLEAN /\ l \in BOOLEAN BY DEF WorkerOK
<1>3. \A w \in Workers :
        /\ pc'[w] = IF w = v THEN p ELSE pc[w]
        /\ req'[w] = IF w = v THEN q ELSE req[w]
        /\ tx'[w] = IF w = v THEN t ELSE tx[w]
        /\ auto'[w] = IF w = v THEN a ELSE auto[w]
        /\ live'[w] = IF w = v THEN l ELSE live[w]
  BY <1>1
<1>4. ids \in Nat BY DEF TypeInv, TypeOK
<1>5. WorkersOK'
  <2> SUFFICES ASSUME NEW w \in Workers
               PROVE  WorkerOK(pc'[w], req'[w], tx'[w], auto'[w], live'[w], ids')
    BY DEF WorkersOK
  <2>1. CASE w = v BY <1>3, <2>1
  <2>2. CASE w # v
    <3>1. WorkerOK(pc[w], req[w], tx[w], auto[w], live[w], ids) BY DEF TypeInv, WorkersOK
    <3>2. \A x \in tx[w].ins \cup tx[w].del : x.room \in Nat /\ x.key \in Nat
      BY <3>1 DEF WorkerOK, Tx, Row
    <3>3. req[w].room \in Nat /\ req[w].msg \in Nat BY <1>1, BoundsAssumption DEF Req
    <3>4. WorkerOK(pc[w], req[w], tx[w], auto[w], live[w], ids')
      BY <1>4, <3>1, <3>2, <3>3 DEF WorkerOK
    <3> QED BY <1>3, <2>2, <3>4
  <2> QED BY <2>1, <2>2
<1>6. LockInv'
  <2> SUFFICES ASSUME NEW u \in Workers, NEW w \in Workers, u # w,
                      NEW x \in tx'[u].ins \cup tx'[u].del, NEW y \in tx'[w].ins \cup tx'[w].del
               PROVE  ~SameKey(x, y)
    BY DEF LockInv
  <2>1. CASE u # v /\ w # v BY <1>3, <2>1 DEF TypeInv, LockInv
  <2>2. CASE u = v BY <1>3, <2>2
  <2>3. CASE w = v
    <3>1. ~SameKey(y, x) BY <1>3, <2>3
    <3> QED BY <3>1 DEF SameKey
  <2> QED BY <2>1, <2>2, <2>3
<1>7. IdsOK'
  <2> DEFINE S == {w \in Workers : Will(pc[w], req[w].kind)}
             T == {w \in Workers : Will(pc'[w], req'[w].kind)}
  <2>1. S \ {v} = T \ {v} BY <1>3
  <2>2. v \in S <=> Will(pc[v], req[v].kind) OBVIOUS
  <2>3. v \in T <=> Will(p, q.kind) BY <1>3
  <2>4. ids + Cardinality(S) <= requests BY DEF TypeInv, IdsOK
  <2>5. SUFFICES ids' + Cardinality(T) <= requests' BY DEF IdsOK
  <2>6. S \in SUBSET Workers /\ T \in SUBSET Workers OBVIOUS
  <2> HIDE DEF S, T
  <2>7. Cardinality(S) = Cardinality(S \ {v}) + Cost(pc[v], req[v].kind)
    BY <2>2, <2>6, Counting DEF Cost
  <2>8. Cardinality(T) = Cardinality(S \ {v}) + Cost(p, q.kind)
    BY <2>1, <2>3, <2>6, Counting DEF Cost
  <2>9. S \ {v} \in SUBSET Workers BY <2>6
  <2>10. Cardinality(S \ {v}) \in Nat BY <2>9, Counting
  <2>11. Cost(p, q.kind) \in Nat /\ Cost(pc[v], req[v].kind) \in Nat BY DEF Cost
  <2>12. requests \in Nat /\ requests' \in Nat BY BoundsAssumption DEF TypeInv, TypeOK
  <2> QED BY <1>4, <2>4, <2>7, <2>8, <2>10, <2>11, <2>12
<1>8. ids' \in 0..MaxRequests
  <2> DEFINE T == {w \in Workers : Will(pc'[w], req'[w].kind)}
  <2>1. ids' + Cardinality(T) <= requests' BY <1>7 DEF IdsOK
  <2>2. T \in SUBSET Workers OBVIOUS
  <2> HIDE DEF T
  <2>3. Cardinality(T) \in Nat BY <2>2, Counting
  <2> QED BY <2>1, <2>3, BoundsAssumption
<1>9. TypeOK'
  <2>1. /\ pc' \in [Workers -> Labels] /\ req' \in [Workers -> Req] /\ tx' \in [Workers -> Tx]
        /\ auto' \in [Workers -> BOOLEAN] /\ live' \in [Workers -> BOOLEAN]
    BY <1>1, <1>2
  <2>2. \A w \in Workers : tx'[w] # NoTx => live'[w] /\ ~auto'[w] BY <1>5 DEF WorkersOK, WorkerOK
  <2>3. \A w \in Workers : pc'[w] = "idle" => tx'[w] = NoTx /\ req'[w] = NoReq
    BY <1>5 DEF WorkersOK, WorkerOK, NothingPending
  <2> QED BY <1>8, <2>1, <2>2, <2>3 DEF TypeOK
<1> QED BY <1>5, <1>6, <1>7, <1>9 DEF TypeInv

\* What is known of one worker.
LEMMA Known ==
  ASSUME TypeInv, NEW v \in Workers
  PROVE  /\ WorkerOK(pc[v], req[v], tx[v], auto[v], live[v], ids)
         /\ tx[v] \in Tx /\ tx[v].ins \subseteq Row /\ tx[v].del \subseteq Row
         /\ req[v] \in Req /\ req[v].kind \in Kinds \cup {"none"}
         /\ <<req[v].kind, pc[v]>> \in Place
         /\ pc[v] # "idle" => req[v].user \in Users /\ req[v].other \in Users
<1>1. WorkerOK(pc[v], req[v], tx[v], auto[v], live[v], ids) BY DEF TypeInv, WorkersOK
<1>2. req[v] \in Req /\ tx[v] \in Tx BY <1>1 DEF WorkerOK
<1>3. /\ tx[v].ins \subseteq Row /\ tx[v].del \subseteq Row BY <1>2 DEF Tx
<1>4. req[v].kind \in Kinds \cup {"none"} BY <1>2 DEF Req
<1> QED BY <1>1, <1>2, <1>3, <1>4 DEF WorkerOK

\* The ids a request carries are numbers already handed out.
LEMMA KnownIds ==
  ASSUME TypeInv, NEW v \in Workers
  PROVE  /\ req[v].room \in Nat /\ req[v].msg \in Nat /\ req[v].user \in Nat /\ req[v].other \in Nat
         /\ req[v].room <= ids /\ req[v].msg <= ids
<1>1. req[v] \in Req BY DEF TypeInv, TypeOK
<1>2. /\ req[v].room \in 0..MaxRequests /\ req[v].msg \in 0..MaxRequests
      /\ req[v].user \in Users \cup {0} /\ req[v].other \in Users \cup {0}
  BY <1>1 DEF Req
<1>3. Users \cup {0} \subseteq Nat BY UsersAssumption
<1>4. req[v].user \in Nat /\ req[v].other \in Nat BY <1>2, <1>3
<1>5. req[v].room \in Nat /\ req[v].msg \in Nat BY <1>2, BoundsAssumption
<1>6. req[v].room <= ids /\ req[v].msg <= ids BY DEF TypeInv, WorkersOK, WorkerOK
<1> QED BY <1>4, <1>5, <1>6

\* The counters stay in their bounds.
LEMMA KnownBounds ==
  ASSUME TypeInv
  PROVE  /\ ids \in Nat /\ ids <= MaxRequests /\ requests \in Nat
         /\ requests \in 0..MaxRequests /\ faults \in 0..MaxFaults /\ torn \subseteq 1..MaxRequests
<1>1. ids \in 0..MaxRequests /\ requests \in 0..MaxRequests /\ faults \in 0..MaxFaults
  BY DEF TypeInv, TypeOK
<1>2. torn \subseteq 1..MaxRequests BY DEF TypeInv, TypeOK
<1> QED BY <1>1, <1>2, BoundsAssumption

\* Which request is at a label.
LEMMA KindAt ==
  ASSUME TypeInv, NEW v \in Workers
  PROVE  /\ pc[v] = "begin" => req[v].kind \in {"g_room", "p_room", "message", "delete"}
         /\ pc[v] \in {"insert_room", "insert_members"} => req[v].kind \in {"g_room", "p_room"}
         /\ pc[v] = "check" => req[v].kind \in {"message", "delete", "invite"}
         /\ pc[v] \in {"insert_message", "update_room", "broadcast"} => req[v].kind = "message"
         /\ pc[v] \in {"delete_members", "delete_room"} => req[v].kind = "delete"
         /\ pc[v] = "insert_member" => req[v].kind = "invite"
         /\ pc[v] = "commit" => req[v].kind \in {"p_room", "message", "delete"}
         /\ pc[v] = "close" => req[v].kind \in Kinds
         /\ pc[v] = "idle" => req[v].kind = "none"
BY Known DEF Place, Kinds

\* The room of a request is known, except before a creation has taken its id.
LEMMA RoomKnown ==
  ASSUME TypeInv, NEW v \in Workers, pc[v] \notin {"idle", "begin"}
  PROVE  req[v].room \in 1..MaxRequests /\ req[v].room # 0
<1>1. req[v].room # 0 BY Known DEF WorkerOK
<1> QED BY <1>1, KnownIds, KnownBounds, BoundsAssumption

\* The ids a row carries are handed out.
IdsIn(x, n) == x.room <= n /\ (x.table = "messages" => x.key <= n)

\* What a statement of a worker does to its transaction and to the tables.
LEMMA ExecuteEffect ==
  ASSUME TypeInv, NEW v \in Workers, NEW ins \in SUBSET Row, NEW del \in SUBSET Row,
         Execute(v, ins, del), NEW n \in Nat, ids <= n,
         \A x \in ins \cup del : x.room = req[v].room /\ IdsIn(x, n)
  PROVE  \E t \in Tx, a \in BOOLEAN, l \in BOOLEAN :
           /\ tx' = [tx EXCEPT ![v] = t]
           /\ auto' = [auto EXCEPT ![v] = a]
           /\ live' = [live EXCEPT ![v] = l]
           /\ t # NoTx => l /\ ~a
           /\ auto[v] => a /\ t = tx[v]
           /\ \A x \in t.ins \cup t.del : x.room = req[v].room /\ IdsIn(x, n)
           /\ \A w \in Workers \ {v} :
                \A x \in t.ins \cup t.del, y \in tx[w].ins \cup tx[w].del : ~SameKey(x, y)
           /\ db' \subseteq Row
           /\ \A x \in db' : IdsIn(x, n)
<1>1. /\ tx \in [Workers -> Tx] /\ auto \in [Workers -> BOOLEAN] /\ live \in [Workers -> BOOLEAN]
      /\ db \subseteq Row /\ ids \in Nat
  BY DEF TypeInv, TypeOK
<1>2. tx[v] \in Tx /\ auto[v] \in BOOLEAN /\ live[v] \in BOOLEAN BY <1>1
<1>3. /\ tx[v].ins \subseteq Row /\ tx[v].del \subseteq Row BY <1>2 DEF Tx
<1>4. \A x \in Row : x.room \in Nat /\ x.key \in Nat BY DEF Row
<1>5. \A x \in tx[v].ins \cup tx[v].del : x.room = req[v].room /\ IdsIn(x, n)
  <2>1. WorkerOK(pc[v], req[v], tx[v], auto[v], live[v], ids) BY DEF TypeInv, WorkersOK
  <2>2. \A x \in tx[v].ins \cup tx[v].del :
          x.room = req[v].room /\ (x.table = "messages" => x.key <= ids)
    BY <2>1 DEF WorkerOK
  <2>3. req[v].room <= ids /\ req[v].room \in Nat BY <2>1, BoundsAssumption DEF WorkerOK, Req
  <2> QED BY <1>1, <1>3, <1>4, <2>2, <2>3 DEF IdsIn
<1>6. \A x \in db : IdsIn(x, n) BY <1>1, <1>4 DEF TypeInv, DbOK, IdsIn
<1>7. tx[v] # NoTx => live[v] /\ ~auto[v] BY DEF TypeInv, TypeOK
<1>8. \A w \in Workers \ {v} :
        \A x \in tx[v].ins \cup tx[v].del, y \in tx[w].ins \cup tx[w].del : ~SameKey(x, y)
  BY DEF TypeInv, LockInv
<1>9. CASE auto[v] \/ ~live[v]
  <2>1. /\ tx' = [tx EXCEPT ![v] = tx[v]]
        /\ auto' = [auto EXCEPT ![v] = TRUE]
        /\ live' = [live EXCEPT ![v] = TRUE]
        /\ db' = (db \ del) \cup ins
    BY <1>1, <1>9 DEF Execute
  <2>2. tx[v] = NoTx BY <1>7, <1>9
  <2> QED BY <1>1, <1>2, <1>5, <1>6, <1>8, <2>1, <2>2
<1>10. CASE ~auto[v] /\ live[v]
  <2> DEFINE t == [ins |-> (tx[v].ins \ del) \cup ins, del |-> tx[v].del \cup del]
  <2>1. tx' = [tx EXCEPT ![v] = t] /\ UNCHANGED <<db, auto, live>> BY <1>10 DEF Execute
  <2>2. auto' = [auto EXCEPT ![v] = auto[v]] /\ live' = [live EXCEPT ![v] = live[v]]
    BY <1>1, <2>1
  <2>3. t \in Tx BY <1>3 DEF Tx
  <2>4. t.ins \cup t.del \subseteq (tx[v].ins \cup tx[v].del) \cup (ins \cup del) OBVIOUS
  <2>5. \A w \in Workers \ {v} :
          \A x \in ins \cup del, y \in tx[w].ins \cup tx[w].del : ~SameKey(x, y)
    BY DEF Execute, Unlocked, SameKey
  <2> HIDE DEF t
  <2>6. \A x \in t.ins \cup t.del : x.room = req[v].room /\ IdsIn(x, n) BY <1>5, <2>4
  <2>7. \A w \in Workers \ {v} :
          \A x \in t.ins \cup t.del, y \in tx[w].ins \cup tx[w].del : ~SameKey(x, y)
    BY <1>8, <2>4, <2>5
  <2> QED BY <1>1, <1>2, <1>6, <1>10, <2>1, <2>2, <2>3, <2>6, <2>7
<1> QED BY <1>2, <1>9, <1>10

\* A statement keeps the types, for the request q and the label p that follow it.
LEMMA ExecuteTypes ==
  ASSUME TypeInv, late' \subseteq Row, NEW v \in Workers, NEW ins \in SUBSET Row, NEW del \in SUBSET Row,
         Execute(v, ins, del), NEW p \in Labels \ {"idle", "begin"}, NEW q \in Req,
         pc' = [pc EXCEPT ![v] = p], req' = [req EXCEPT ![v] = q],
         UNCHANGED <<boundVars, torn>>, ids' \in Nat, ids <= ids',
         \A x \in ins \cup del : x.room = req[v].room /\ (x.table = "messages" => x.key <= ids'),
         ids' + Cost(p, q.kind) <= ids + Cost(pc[v], req[v].kind),
         pc[v] \notin {"idle", "begin"}, <<q.kind, p>> \in Place, q.kind = req[v].kind,
         q.user = req[v].user, q.other = req[v].other, q.room = req[v].room, q.msg <= ids',
         NothingPending(p, q.kind) => q.kind = "invite"
  PROVE  TypeInv'
<1>0. /\ ids \in Nat /\ req[v].room \in Nat /\ req[v].room <= ids /\ req[v].room # 0
      /\ req[v].room <= ids'
  BY KnownIds, KnownBounds, RoomKnown
<1>1. PICK t \in Tx, a \in BOOLEAN, l \in BOOLEAN :
           /\ tx' = [tx EXCEPT ![v] = t]
           /\ auto' = [auto EXCEPT ![v] = a]
           /\ live' = [live EXCEPT ![v] = l]
           /\ t # NoTx => l /\ ~a
           /\ auto[v] => a /\ t = tx[v]
           /\ \A x \in t.ins \cup t.del : x.room = req[v].room /\ IdsIn(x, ids')
           /\ \A w \in Workers \ {v} :
                \A x \in t.ins \cup t.del, y \in tx[w].ins \cup tx[w].del : ~SameKey(x, y)
           /\ db' \subseteq Row
           /\ \A x \in db' : IdsIn(x, ids')
  <2>1. \A x \in ins \cup del : x.room = req[v].room /\ IdsIn(x, ids') BY <1>0 DEF IdsIn
  <2> QED BY <2>1, ExecuteEffect
<1>2. WorkerOK(p, q, t, a, l, ids')
  <2>1. q.user \in Users /\ q.other \in Users BY Known
  <2>2. req[v].kind = "invite" => auto[v] /\ tx[v] = NoTx BY Known DEF WorkerOK, NothingPending
  <2> QED BY <1>0, <1>1, <2>1, <2>2 DEF WorkerOK, IdsIn
<1>3. DbOK' BY <1>1 DEF DbOK, IdsIn
<1>4. /\ requests' = requests /\ requests \in 0..MaxRequests
      /\ faults' = faults /\ faults \in 0..MaxFaults
      /\ torn' = torn /\ torn \subseteq 1..MaxRequests
  BY DEF TypeInv, TypeOK, boundVars
<1>5. Cost(p, q.kind) \in Nat /\ Cost(pc[v], req[v].kind) \in Nat BY DEF Cost
<1>6. ids' + Cost(p, q.kind) + requests <= ids + Cost(pc[v], req[v].kind) + requests'
  BY <1>0, <1>4, <1>5, BoundsAssumption
<1> QED BY <1>1, <1>2, <1>3, <1>4, <1>6, OneWorker

\* The same, for a statement after which the request is as it was.
LEMMA StatementTypes ==
  ASSUME TypeInv, late' \subseteq Row, NEW v \in Workers, NEW ins \in SUBSET Row, NEW del \in SUBSET Row,
         Execute(v, ins, del), NEW p \in Labels \ {"idle", "begin", "check", "insert_message"},
         Goto(v, p), UNCHANGED <<req, ids, boundVars, torn>>,
         \A x \in ins \cup del : x.room = req[v].room /\ (x.table = "messages" => x.key <= ids),
         pc[v] \notin {"idle", "begin"}, <<req[v].kind, p>> \in Place,
         NothingPending(p, req[v].kind) => req[v].kind = "invite"
  PROVE  TypeInv'
<1>1. req' = [req EXCEPT ![v] = req[v]] /\ req[v] \in Req BY DEF TypeInv, TypeOK
<1>2. pc' = [pc EXCEPT ![v] = p] /\ ids' = ids BY DEF Goto
<1>3. Cost(p, req[v].kind) = 0 BY DEF Cost, Will
<1>4. Cost(pc[v], req[v].kind) \in Nat BY DEF Cost
<1>5. ids \in Nat /\ req[v].msg \in Nat /\ req[v].msg <= ids BY KnownIds, KnownBounds
<1>6. ids' \in Nat /\ ids <= ids' /\ req[v].msg <= ids' BY <1>2, <1>5
<1>7. ids' + Cost(p, req[v].kind) <= ids + Cost(pc[v], req[v].kind) BY <1>2, <1>3, <1>4, <1>5
<1>8. \A x \in ins \cup del : x.room = req[v].room /\ (x.table = "messages" => x.key <= ids')
  BY <1>2
<1> QED BY <1>1, <1>2, <1>6, <1>7, <1>8, ExecuteTypes

\* The rows the handlers write are rows of the tables.
LEMMA RowTypes ==
  \A r \in 1..MaxRequests, k \in Nat, n \in Nat :
    Store!RoomRow(r, k, n) \in Row /\ Store!MemberRow(r, k, n) \in Row /\ Store!MessageRow(r, k, n) \in Row
BY DEF Store!RoomRow, Store!MemberRow, Store!MessageRow, Row

\* The codes of utils/enums.hpp are numbers.
LEMMA Enums ==
  /\ Store!GROUP \in Nat /\ Store!PRIVATE \in Nat /\ Store!OWNER \in Nat /\ Store!MEMBER \in Nat
  /\ Store!PRIVATE_MEMBER \in Nat /\ \A kind : RoomType(kind) \in Nat
BY DEF Store!GROUP, Store!PRIVATE, Store!OWNER, Store!MEMBER, Store!PRIVATE_MEMBER, RoomType

\* The rows a statement of a worker finds are rows of the tables.
LEMMA ViewTypes ==
  ASSUME TypeInv, NEW v \in Workers
  PROVE  View(v) \subseteq Row /\ \A x \in View(v) : IdsIn(x, ids)
<1>1. db \subseteq Row BY DEF TypeInv, TypeOK
<1>2. \A x \in db : IdsIn(x, ids) BY DEF TypeInv, DbOK, IdsIn
<1>3. \A x \in tx[v].ins : IdsIn(x, ids) BY Known DEF WorkerOK, IdsIn
<1> QED BY <1>1, <1>2, <1>3, Known DEF View

\* A worker whose request is over.
LEMMA EndTypes ==
  ASSUME TypeInv, late' \subseteq Row, NEW v \in Workers, db' = db \/ db' = View(v),
         pc' = [pc EXCEPT ![v] = "idle"], req' = [req EXCEPT ![v] = NoReq],
         tx' = [tx EXCEPT ![v] = NoTx], auto' = [auto EXCEPT ![v] = TRUE],
         live' = [live EXCEPT ![v] = TRUE], UNCHANGED <<ids, boundVars, torn>>
  PROVE  TypeInv'
<1>1. NoReq \in Req BY BoundsAssumption DEF NoReq, Req
<1>2. NoTx \in Tx /\ NoTx.ins = {} /\ NoTx.del = {} BY DEF NoTx, Tx
<1>3. <<NoReq.kind, "idle">> \in Place /\ NoReq.room = 0 /\ NoReq.msg = 0 /\ NoReq.kind = "none"
  BY DEF NoReq, Place
<1>4. ids \in Nat /\ ids' \in Nat /\ ids' = ids /\ ids <= ids' /\ 0 <= ids'
  BY BoundsAssumption DEF TypeInv, TypeOK
<1>5. WorkerOK("idle", NoReq, NoTx, TRUE, TRUE, ids')
  BY <1>1, <1>2, <1>3, <1>4 DEF WorkerOK, Labels
<1>6. db' \subseteq Row BY ViewTypes DEF TypeInv, TypeOK
<1>7. \A x \in db' : IdsIn(x, ids) BY ViewTypes DEF TypeInv, DbOK, IdsIn
<1>8. DbOK' BY <1>4, <1>7 DEF DbOK, IdsIn
<1>9. /\ requests' = requests /\ faults' = faults /\ torn' = torn BY DEF boundVars
<1>10. Cost("idle", NoReq.kind) = 0 BY DEF Cost, Will
<1>11. Cost(pc[v], req[v].kind) \in Nat BY DEF Cost
<1>12. requests \in Nat BY BoundsAssumption DEF TypeInv, TypeOK
<1>13. ids' + Cost("idle", NoReq.kind) + requests <= ids + Cost(pc[v], req[v].kind) + requests'
  BY <1>4, <1>9, <1>10, <1>11, <1>12
<1>14. /\ requests' \in 0..MaxRequests /\ faults' \in 0..MaxFaults /\ torn' \subseteq 1..MaxRequests
  BY <1>9, KnownBounds
<1>15. \A w \in Workers \ {v} :
        \A x \in NoTx.ins \cup NoTx.del, y \in tx[w].ins \cup tx[w].del : ~SameKey(x, y)
  BY <1>2
<1> QED BY <1>4, <1>5, <1>6, <1>8, <1>13, <1>14, <1>15, OneWorker

\* The end of a handler that rolls back.
LEMMA LeaveTypes ==
  ASSUME TypeInv, late' \subseteq Row, NEW v \in Workers, Leave(v), UNCHANGED <<ids, boundVars, torn>>
  PROVE  TypeInv'
BY EndTypes DEF Leave, Goto

\* The end of the process.
LEMMA TerminateTypes ==
  ASSUME TypeInv, late' \subseteq Row, Terminate, faults' \in 0..MaxFaults
  PROVE  TypeInv'
<1>1. NoReq \in Req BY BoundsAssumption DEF NoReq, Req
<1>2. NoTx \in Tx /\ NoTx.ins = {} /\ NoTx.del = {} BY DEF NoTx, Tx
<1>3. <<NoReq.kind, "idle">> \in Place /\ NoReq.room = 0 /\ NoReq.msg = 0 /\ NoReq.kind = "none"
  BY DEF NoReq, Place
<1>4. /\ ids \in Nat /\ ids' = ids /\ 0 <= ids' /\ requests' = requests
      /\ db' = db /\ torn' = torn
  BY DEF TypeInv, TypeOK, Terminate
<1>5. WorkerOK("idle", NoReq, NoTx, TRUE, TRUE, ids')
  BY <1>1, <1>2, <1>3, <1>4 DEF WorkerOK, Labels
<1>6. WorkersOK' BY <1>5 DEF WorkersOK, Terminate
<1>7. DbOK' BY <1>4 DEF TypeInv, DbOK
<1>8. LockInv' BY <1>2 DEF LockInv, Terminate
<1>9. IdsOK'
  <2> DEFINE S == {w \in Workers : Will(pc[w], req[w].kind)}
  <2>1. {w \in Workers : Will(pc'[w], req'[w].kind)} = {} BY DEF Terminate, Will
  <2>2. Cardinality({}) = 0 BY FS_EmptySet
  <2>3. ids + Cardinality(S) <= requests BY DEF TypeInv, IdsOK
  <2>4. S \in SUBSET Workers OBVIOUS
  <2> HIDE DEF S
  <2>5. IsFiniteSet(S) BY <2>4, WorkersAssumption, FS_Subset
  <2>6. Cardinality(S) \in Nat BY <2>5, FS_CardinalityType
  <2>7. requests \in Nat BY BoundsAssumption DEF TypeInv, TypeOK
  <2>8. ids <= requests BY <1>4, <2>3, <2>6, <2>7
  <2>9. ids' + 0 <= requests' BY <1>4, <2>8
  <2> QED BY <2>1, <2>2, <2>9, Zenon DEF IdsOK
<1>10. TypeOK'
  <2>1. /\ tx' \in [Workers -> Tx] /\ auto' \in [Workers -> BOOLEAN] /\ live' \in [Workers -> BOOLEAN]
        /\ pc' \in [Workers -> Labels] /\ req' \in [Workers -> Req]
    BY <1>1, <1>2 DEF Terminate, Labels
  <2>2. \A w \in Workers : tx'[w] = NoTx /\ req'[w] = NoReq BY DEF Terminate
  <2>3. db \subseteq Row /\ ids \in 0..MaxRequests /\ requests \in 0..MaxRequests
        /\ torn \subseteq 1..MaxRequests
    BY DEF TypeInv, TypeOK
  <2> QED BY <1>4, <2>1, <2>2, <2>3 DEF TypeOK
<1> QED BY <1>6, <1>7, <1>8, <1>9, <1>10 DEF TypeInv

\* The rows of a room a statement finds.
LEMMA FoundTypes ==
  ASSUME TypeInv, NEW v \in Workers, NEW r, NEW table
  PROVE  /\ Store!In(View(v), table, r) \in SUBSET Row
         /\ \A x \in Store!In(View(v), table, r) : x.table = table /\ x.room = r
BY ViewTypes DEF Store!In

\* Each INSERT, UPDATE and DELETE of the handlers but the one of a message.
LEMMA StatementsTypes ==
  ASSUME TypeInv, late' \subseteq Row, NEW v \in Workers,
         \/ InsertRoom(v) \/ InsertMembers(v) \/ UpdateRoom(v) \/ DeleteMembers(v)
         \/ DeleteRoom(v) \/ InsertMember(v)
  PROVE  TypeInv'
<1> DEFINE q == req[v]
<1>1. CASE InsertRoom(v)
  <2> DEFINE ins == {Store!RoomRow(q.room, RoomType(q.kind), 0)}
  <2>1. /\ pc[v] = "insert_room" /\ Execute(v, ins, {}) /\ Goto(v, "insert_members")
        /\ UNCHANGED <<req, ids, boundVars, torn>>
    BY <1>1 DEF InsertRoom
  <2>2. ins \in SUBSET Row BY <2>1, RoomKnown, RowTypes, Enums
  <2>3. \A x \in ins \cup {} : x.room = q.room /\ (x.table = "messages" => x.key <= ids)
    BY Store!Columns
  <2>4. /\ <<q.kind, "insert_members">> \in Place /\ ~NothingPending("insert_members", q.kind)
        /\ "insert_members" \in Labels \ {"idle", "begin", "check", "insert_message"}
    BY <2>1, KindAt DEF Place, NothingPending, Labels
  <2> HIDE DEF ins
  <2> QED BY <2>1, <2>2, <2>3, <2>4, StatementTypes
<1>2. CASE InsertMembers(v)
  <2>1. CASE q.kind = "g_room"
    <3> DEFINE ins == {Store!MemberRow(q.room, q.user, Store!OWNER)}
    <3>1. /\ pc[v] = "insert_members" /\ Execute(v, ins, {}) /\ Goto(v, "close")
          /\ UNCHANGED <<req, ids, boundVars, torn>>
      BY <1>2, <2>1 DEF InsertMembers
    <3>2. ins \in SUBSET Row BY <3>1, RoomKnown, KnownIds, RowTypes, Enums
    <3>3. \A x \in ins \cup {} : x.room = q.room /\ (x.table = "messages" => x.key <= ids)
      BY Store!Columns
    <3>4. /\ <<q.kind, "close">> \in Place /\ ~NothingPending("close", q.kind)
          /\ "close" \in Labels \ {"idle", "begin", "check", "insert_message"}
      BY <2>1 DEF Place, NothingPending, Labels
    <3> HIDE DEF ins
    <3> QED BY <3>1, <3>2, <3>3, <3>4, StatementTypes
  <2>2. CASE q.kind = "p_room"
    <3> DEFINE ins == {Store!MemberRow(q.room, u, Store!PRIVATE_MEMBER) : u \in {q.user, q.other}}
    <3>1. /\ pc[v] = "insert_members" /\ Execute(v, ins, {}) /\ Goto(v, "commit")
          /\ UNCHANGED <<req, ids, boundVars, torn>>
      BY <1>2, <2>2 DEF InsertMembers
    <3>2. ins \in SUBSET Row BY <3>1, RoomKnown, KnownIds, RowTypes, Enums
    <3>3. \A x \in ins \cup {} : x.room = q.room /\ (x.table = "messages" => x.key <= ids)
      BY Store!Columns
    <3>4. /\ <<q.kind, "commit">> \in Place /\ ~NothingPending("commit", q.kind)
          /\ "commit" \in Labels \ {"idle", "begin", "check", "insert_message"}
      BY <2>2 DEF Place, NothingPending, Labels
    <3> HIDE DEF ins
    <3> QED BY <3>1, <3>2, <3>3, <3>4, StatementTypes
  <2> QED BY <1>2, <2>1, <2>2 DEF InsertMembers
<1>3. CASE UpdateRoom(v)
  <2>1. PICK x \in Store!In(View(v), "rooms", q.room) :
               Execute(v, {Store!RoomRow(q.room, x.key, q.msg)}, {x})
    BY <1>3 DEF UpdateRoom
  <2> DEFINE n == Store!RoomRow(q.room, x.key, q.msg)
  <2>2. /\ pc[v] = "update_room" /\ Goto(v, "commit") /\ UNCHANGED <<req, ids, boundVars, torn>>
    BY <1>3 DEF UpdateRoom
  <2>3. x \in Row /\ x.table = "rooms" /\ x.room = q.room /\ x.key \in Nat BY FoundTypes DEF Row
  <2>4. n \in Row BY <2>2, <2>3, RoomKnown, KnownIds, RowTypes
  <2>5. n.table = "rooms" /\ n.room = q.room BY Store!Columns
  <2>6. /\ <<q.kind, "commit">> \in Place /\ ~NothingPending("commit", q.kind)
        /\ "commit" \in Labels \ {"idle", "begin", "check", "insert_message"}
    BY <2>2, KindAt DEF Place, NothingPending, Labels
  <2> HIDE DEF n
  <2>7. \A y \in {n} \cup {x} : y.room = q.room /\ (y.table = "messages" => y.key <= ids)
    BY <2>3, <2>5
  <2>8. {n} \in SUBSET Row /\ {x} \in SUBSET Row BY <2>3, <2>4
  <2>9. Execute(v, {n}, {x}) BY <2>1 DEF n
  <2> QED BY <2>2, <2>6, <2>7, <2>8, <2>9, StatementTypes
<1>4. CASE DeleteMembers(v)
  <2> DEFINE del == Store!In(View(v), "room_members", q.room)
  <2>1. /\ pc[v] = "delete_members" /\ Execute(v, {}, del) /\ Goto(v, "delete_room")
        /\ UNCHANGED <<req, ids, boundVars, torn>>
    BY <1>4 DEF DeleteMembers
  <2>2. del \in SUBSET Row /\ \A x \in del : x.table = "room_members" /\ x.room = q.room
    BY FoundTypes
  <2>3. /\ <<q.kind, "delete_room">> \in Place /\ ~NothingPending("delete_room", q.kind)
        /\ "delete_room" \in Labels \ {"idle", "begin", "check", "insert_message"}
    BY <2>1, KindAt DEF Place, NothingPending, Labels
  <2> HIDE DEF del
  <2>4. \A y \in {} \cup del : y.room = q.room /\ (y.table = "messages" => y.key <= ids)
    BY <2>2
  <2> QED BY <2>1, <2>2, <2>3, <2>4, StatementTypes
<1>5. CASE DeleteRoom(v)
  <2> DEFINE del == Store!In(View(v), "rooms", q.room)
  <2>1. /\ pc[v] = "delete_room" /\ Execute(v, {}, del) /\ Goto(v, "commit")
        /\ UNCHANGED <<req, ids, boundVars, torn>>
    BY <1>5 DEF DeleteRoom
  <2>2. del \in SUBSET Row /\ \A x \in del : x.table = "rooms" /\ x.room = q.room
    BY FoundTypes
  <2>3. /\ <<q.kind, "commit">> \in Place /\ ~NothingPending("commit", q.kind)
        /\ "commit" \in Labels \ {"idle", "begin", "check", "insert_message"}
    BY <2>1, KindAt DEF Place, NothingPending, Labels
  <2> HIDE DEF del
  <2>4. \A y \in {} \cup del : y.room = q.room /\ (y.table = "messages" => y.key <= ids)
    BY <2>2
  <2> QED BY <2>1, <2>2, <2>3, <2>4, StatementTypes
<1>6. CASE InsertMember(v)
  <2> DEFINE ins == {Store!MemberRow(q.room, q.other, Store!MEMBER)}
  <2>1. /\ pc[v] = "insert_member" /\ Execute(v, ins, {}) /\ Goto(v, "close")
        /\ UNCHANGED <<req, ids, boundVars, torn>>
    BY <1>6 DEF InsertMember
  <2>2. ins \in SUBSET Row BY <2>1, RoomKnown, KnownIds, RowTypes, Enums
  <2>3. \A x \in ins \cup {} : x.room = q.room /\ (x.table = "messages" => x.key <= ids)
    BY Store!Columns
  <2>4. /\ q.kind = "invite" /\ <<q.kind, "close">> \in Place
        /\ "close" \in Labels \ {"idle", "begin", "check", "insert_message"}
    BY <2>1, KindAt DEF Place, Labels
  <2> HIDE DEF ins
  <2> QED BY <2>1, <2>2, <2>3, <2>4, StatementTypes
<1> QED BY <1>1, <1>2, <1>3, <1>4, <1>5, <1>6

\* The INSERT of a message takes an id.
LEMMA InsertMessageTypes ==
  ASSUME TypeInv, late' \subseteq Row, NEW v \in Workers, InsertMessage(v)
  PROVE  TypeInv'
<1> DEFINE row == Store!MessageRow(req[v].room, ids + 1, req[v].user)
           q == [req[v] EXCEPT !.msg = ids + 1]
<1>1. /\ pc[v] = "insert_message" /\ Execute(v, {row}, {}) /\ ids' = ids + 1
      /\ pc' = [pc EXCEPT ![v] = "update_room"] /\ UNCHANGED <<boundVars, torn>>
  BY DEF InsertMessage, Goto
<1>2. req' = [req EXCEPT ![v] = q] BY DEF InsertMessage
<1>3. req[v].kind = "message" BY <1>1, KindAt
<1>4. Cost(pc[v], req[v].kind) = 1 BY <1>1, <1>3 DEF Cost, Will
<1>5. ids + 1 \in 1..MaxRequests /\ ids \in Nat BY <1>1, <1>3, IdLeft, KnownBounds DEF Will
<1>6. req[v] \in Req BY Known
<1>7. q \in Req BY <1>5, <1>6, BoundsAssumption DEF Req
<1>8. /\ q.kind = req[v].kind /\ q.user = req[v].user /\ q.other = req[v].other
      /\ q.room = req[v].room /\ q.msg = ids + 1
  BY <1>6 DEF Req
<1>9. row \in Row BY <1>1, <1>5, RoomKnown, KnownIds, RowTypes
<1>10. row.room = req[v].room /\ row.key = ids + 1 BY Store!Columns
<1> HIDE DEF row, q
<1>11. Cost("update_room", q.kind) = 0 BY DEF Cost, Will
<1>12. ids' + Cost("update_room", q.kind) <= ids + Cost(pc[v], req[v].kind)
  BY <1>1, <1>4, <1>5, <1>11
<1>13. ids' \in Nat /\ ids <= ids' /\ q.msg <= ids' BY <1>1, <1>5, <1>8
<1>14. \A x \in {row} \cup {} : x.room = req[v].room /\ (x.table = "messages" => x.key <= ids')
  BY <1>1, <1>5, <1>10
<1>15. /\ <<q.kind, "update_room">> \in Place /\ ~NothingPending("update_room", q.kind)
       /\ "update_room" \in Labels \ {"idle", "begin"}
  BY <1>3, <1>8 DEF Place, NothingPending, Labels
<1>16. {row} \in SUBSET Row BY <1>9
<1> QED BY <1>1, <1>2, <1>7, <1>8, <1>12, <1>13, <1>14, <1>15, <1>16, ExecuteTypes

\* A step of one worker that leaves the tables and its pending changes alone.
LEMMA QuietTypes ==
  ASSUME TypeInv, late' \subseteq Row, NEW v \in Workers, NEW p, NEW q, NEW a, NEW l,
         pc' = [pc EXCEPT ![v] = p], req' = [req EXCEPT ![v] = q], UNCHANGED <<db, tx>>,
         auto' = [auto EXCEPT ![v] = a], live' = [live EXCEPT ![v] = l],
         WorkerOK(p, q, tx[v], a, l, ids'),
         ids' \in Nat, ids <= ids', requests' \in 0..MaxRequests, faults' \in 0..MaxFaults,
         ids' + Cost(p, q.kind) + requests <= ids + Cost(pc[v], req[v].kind) + requests',
         torn' \subseteq 1..MaxRequests
  PROVE  TypeInv'
<1>1. tx' = [tx EXCEPT ![v] = tx[v]] BY DEF TypeInv, TypeOK
<1>2. db' \subseteq Row BY DEF TypeInv, TypeOK
<1>3. DbOK'
  <2>1. ids \in Nat BY KnownBounds
  <2>2. \A x \in db : x.room \in Nat /\ x.key \in Nat BY DEF TypeInv, TypeOK, Row
  <2> QED BY <2>1, <2>2 DEF TypeInv, DbOK
<1>4. \A w \in Workers \ {v} :
        \A x \in tx[v].ins \cup tx[v].del, y \in tx[w].ins \cup tx[w].del : ~SameKey(x, y)
  BY DEF TypeInv, LockInv
<1> QED BY <1>1, <1>2, <1>3, <1>4, OneWorker

\* begin_transaction(); a creation takes the id of its room.
LEMMA BeginTypes ==
  ASSUME TypeInv, late' \subseteq Row, NEW v \in Workers, Begin(v)
  PROVE  TypeInv'
<1> DEFINE creates == req[v].kind \in {"g_room", "p_room"}
           room == IF creates THEN ids + 1 ELSE req[v].room
           q == [req[v] EXCEPT !.room = room]
           p == IF creates THEN "insert_room" ELSE "check"
<1>1. /\ pc[v] = "begin" /\ auto' = [auto EXCEPT ![v] = ~live[v]]
      /\ ids' = (IF creates THEN ids + 1 ELSE ids) /\ req' = [req EXCEPT ![v] = q]
      /\ pc' = [pc EXCEPT ![v] = p] /\ torn' = (IF live[v] THEN torn ELSE torn \cup {room})
      /\ UNCHANGED <<db, tx, live, boundVars>>
  BY DEF Begin, Goto
<1>2. req[v].kind \in {"g_room", "p_room", "message", "delete"} BY <1>1, KindAt
<1>3. /\ ids \in Nat /\ ids <= MaxRequests /\ req[v].room \in Nat /\ req[v].room <= ids
      /\ req[v].msg \in Nat /\ req[v].msg <= ids
  BY KnownIds, KnownBounds
<1>4. creates => ids + 1 \in 1..MaxRequests BY <1>1, IdLeft DEF Will
<1>5. ~creates => req[v].room # 0 BY <1>1, Known DEF WorkerOK
<1>6. room \in 1..MaxRequests /\ room \in Nat /\ room # 0
  BY <1>3, <1>4, <1>5, BoundsAssumption
<1>7. ids' \in Nat /\ ids <= ids' /\ room <= ids' /\ req[v].msg <= ids' BY <1>1, <1>3
<1>8. req[v] \in Req BY Known
<1>9. room \in 0..MaxRequests BY <1>6, BoundsAssumption
<1> HIDE DEF room
<1>10. q \in Req BY <1>8, <1>9 DEF Req
<1>11. /\ q.kind = req[v].kind /\ q.user = req[v].user /\ q.other = req[v].other
       /\ q.room = room /\ q.msg = req[v].msg
  BY <1>8 DEF Req
<1> HIDE DEF q
<1>12. live' = [live EXCEPT ![v] = live[v]] /\ live[v] \in BOOLEAN
  BY <1>1 DEF TypeInv, TypeOK
<1>13. tx[v] = NoTx BY <1>1, Known DEF WorkerOK, NothingPending
<1>14. req[v].user \in Users /\ req[v].other \in Users BY <1>1, Known
<1>15. NoTx \in Tx /\ NoTx.ins = {} /\ NoTx.del = {} BY DEF NoTx, Tx
<1>16. p \in Labels /\ p \notin {"idle", "begin"} /\ <<q.kind, p>> \in Place /\ q.kind # "invite"
  BY <1>2, <1>11 DEF Labels, Place
<1>17. WorkerOK(p, q, tx[v], ~live[v], live[v], ids')
  BY <1>6, <1>7, <1>10, <1>11, <1>12, <1>13, <1>14, <1>15, <1>16 DEF WorkerOK
<1>18. requests' = requests /\ faults' = faults BY <1>1 DEF boundVars
<1>19. torn' \subseteq 1..MaxRequests BY <1>1, <1>6, KnownBounds
<1>20. requests' \in 0..MaxRequests /\ faults' \in 0..MaxFaults /\ requests \in Nat
  BY <1>18, KnownBounds
<1>21. ids' + Cost(p, q.kind) <= ids + Cost(pc[v], req[v].kind)
  BY <1>1, <1>2, <1>3, <1>11 DEF Cost, Will
<1>22. Cost(p, q.kind) \in Nat /\ Cost(pc[v], req[v].kind) \in Nat BY DEF Cost
<1>23. ids' + Cost(p, q.kind) + requests <= ids + Cost(pc[v], req[v].kind) + requests'
  BY <1>3, <1>7, <1>18, <1>20, <1>21, <1>22
<1> HIDE DEF p
<1> QED BY <1>1, <1>7, <1>12, <1>17, <1>19, <1>20, <1>23, QuietTypes

\* The query that decides whether a request goes on.
LEMMA CheckTypes ==
  ASSUME TypeInv, late' \subseteq Row, NEW v \in Workers, Check(v)
  PROVE  TypeInv'
<1>1. CASE ~Allowed(v) BY <1>1, LeaveTypes DEF Check
<1>2. CASE Allowed(v)
  <2> DEFINE p == AfterCheck(req[v].kind)
  <2>1. /\ pc[v] = "check" /\ Query(v) /\ pc' = [pc EXCEPT ![v] = p]
        /\ UNCHANGED <<db, tx, req, ids, boundVars, torn>>
    BY <1>2 DEF Check, Goto
  <2>2. req[v].kind \in {"message", "delete", "invite"} BY <2>1, KindAt
  <2>3. /\ p \in Labels /\ p \notin {"idle", "begin"} /\ <<req[v].kind, p>> \in Place
        /\ Cost(p, req[v].kind) = Cost(pc[v], req[v].kind)
    BY <2>1, <2>2 DEF AfterCheck, Labels, Place, Cost, Will
  <2>4. /\ auto' = [auto EXCEPT ![v] = auto[v] \/ ~live[v]] /\ live' = [live EXCEPT ![v] = TRUE]
    BY <2>1 DEF Query
  <2>5. WorkerOK(pc[v], req[v], tx[v], auto[v], live[v], ids) BY Known
  <2>6. tx[v] = NoTx BY <2>1, <2>5 DEF WorkerOK, NothingPending
  <2>7. WorkerOK(p, req[v], tx[v], auto[v] \/ ~live[v], TRUE, ids)
    BY <2>1, <2>3, <2>5, <2>6 DEF WorkerOK
  <2>8. req' = [req EXCEPT ![v] = req[v]] BY <2>1 DEF TypeInv, TypeOK
  <2>9. ids \in Nat /\ ids' = ids /\ requests \in Nat /\ requests' = requests
    BY <2>1, KnownBounds DEF boundVars
  <2>10. /\ requests' \in 0..MaxRequests /\ faults' \in 0..MaxFaults /\ torn' \subseteq 1..MaxRequests
    BY <2>1, KnownBounds DEF boundVars
  <2>11. Cost(pc[v], req[v].kind) \in Nat BY DEF Cost
  <2> HIDE DEF p
  <2>12. ids' + Cost(p, req[v].kind) + requests <= ids + Cost(pc[v], req[v].kind) + requests'
    BY <2>3, <2>9, <2>11
  <2>13. ids' \in Nat /\ ids <= ids' BY <2>9
  <2>14. WorkerOK(p, req[v], tx[v], auto[v] \/ ~live[v], TRUE, ids') BY <2>7, <2>9
  <2> QED BY <2>1, <2>4, <2>8, <2>10, <2>12, <2>13, <2>14, QuietTypes
<1> QED BY <1>1, <1>2

\* commit().
LEMMA CommitTypes ==
  ASSUME TypeInv, late' \subseteq Row, NEW v \in Workers, Commit(v)
  PROVE  TypeInv'
<1> DEFINE p == IF req[v].kind = "message" THEN "broadcast" ELSE "close"
<1>1. /\ pc[v] = "commit" /\ db' = View(v) /\ tx' = [tx EXCEPT ![v] = NoTx]
      /\ pc' = [pc EXCEPT ![v] = p] /\ UNCHANGED <<auto, live, req, ids, boundVars, torn>>
  BY DEF Commit, Goto
<1>2. req[v].kind \in {"p_room", "message", "delete"} BY <1>1, KindAt
<1>3. /\ p \in Labels /\ p \notin {"idle", "begin"} /\ <<req[v].kind, p>> \in Place
      /\ Cost(p, req[v].kind) = 0 /\ Cost(pc[v], req[v].kind) = 0
  BY <1>1, <1>2 DEF Labels, Place, Cost, Will
<1>4. NoTx \in Tx /\ NoTx.ins = {} /\ NoTx.del = {} BY DEF NoTx, Tx
<1>5. WorkerOK(p, req[v], NoTx, auto[v], live[v], ids)
  BY <1>1, <1>3, <1>4, Known DEF WorkerOK
<1>6. /\ req' = [req EXCEPT ![v] = req[v]] /\ auto' = [auto EXCEPT ![v] = auto[v]]
      /\ live' = [live EXCEPT ![v] = live[v]]
  BY <1>1 DEF TypeInv, TypeOK
<1>7. ids \in Nat /\ ids' = ids /\ requests \in Nat /\ requests' = requests
  BY <1>1, KnownBounds DEF boundVars
<1>t. /\ requests' \in 0..MaxRequests /\ faults' \in 0..MaxFaults /\ torn' \subseteq 1..MaxRequests
  BY <1>1, KnownBounds DEF boundVars
<1>8. db' \subseteq Row /\ DbOK' BY <1>1, <1>7, ViewTypes DEF DbOK, IdsIn
<1> HIDE DEF p
<1>9. ids' + Cost(p, req[v].kind) + requests <= ids + Cost(pc[v], req[v].kind) + requests'
  BY <1>3, <1>7
<1>10. \A w \in Workers \ {v} :
        \A x \in NoTx.ins \cup NoTx.del, y \in tx[w].ins \cup tx[w].del : ~SameKey(x, y)
  BY <1>4
<1>11. WorkerOK(p, req[v], NoTx, auto[v], live[v], ids') /\ ids' \in Nat /\ ids <= ids'
  BY <1>5, <1>7
<1>12. pc' = [pc EXCEPT ![v] = p] /\ tx' = [tx EXCEPT ![v] = NoTx] BY <1>1
<1> QED BY <1>6, <1>t, <1>8, <1>9, <1>10, <1>11, <1>12, OneWorker

\* The announcement of a message.
LEMMA BroadcastTypes ==
  ASSUME TypeInv, late' \subseteq Row, NEW v \in Workers, Broadcast(v)
  PROVE  TypeInv'
<1>1. /\ pc[v] = "broadcast" /\ pc' = [pc EXCEPT ![v] = "close"]
      /\ UNCHANGED <<db, tx, auto, live, req, ids, boundVars, torn>>
  BY DEF Broadcast, Goto, connVars
<1>2. req[v].kind = "message" BY <1>1, KindAt
<1>3. tx[v] = NoTx BY <1>1, Known DEF WorkerOK, NothingPending
<1>4. "close" \in Labels /\ <<req[v].kind, "close">> \in Place BY <1>2 DEF Labels, Place
<1>5. WorkerOK("close", req[v], tx[v], auto[v], live[v], ids)
  BY <1>1, <1>3, <1>4, Known DEF WorkerOK
<1>6. /\ req' = [req EXCEPT ![v] = req[v]] /\ auto' = [auto EXCEPT ![v] = auto[v]]
      /\ live' = [live EXCEPT ![v] = live[v]]
  BY <1>1 DEF TypeInv, TypeOK
<1>7. ids \in Nat /\ ids' = ids /\ requests \in Nat /\ requests' = requests
  BY <1>1, KnownBounds DEF boundVars
<1>t. /\ requests' \in 0..MaxRequests /\ faults' \in 0..MaxFaults /\ torn' \subseteq 1..MaxRequests
  BY <1>1, KnownBounds DEF boundVars
<1>8. Cost("close", req[v].kind) = 0 /\ Cost(pc[v], req[v].kind) \in Nat BY DEF Cost, Will
<1>9. ids' + Cost("close", req[v].kind) + requests <= ids + Cost(pc[v], req[v].kind) + requests'
  BY <1>7, <1>8
<1>10. WorkerOK("close", req[v], tx[v], auto[v], live[v], ids') /\ ids' \in Nat /\ ids <= ids'
  BY <1>5, <1>7
<1>11. pc' = [pc EXCEPT ![v] = "close"] /\ UNCHANGED <<db, tx>> BY <1>1
<1> QED BY <1>6, <1>t, <1>9, <1>10, <1>11, QuietTypes

\* The destructor of the guard at the end of a handler.
LEMMA ReturnTypes ==
  ASSUME TypeInv, late' \subseteq Row, NEW v \in Workers, Return(v)
  PROVE  TypeInv'
BY EndTypes DEF Return, Destroy, Goto

\* A request begins.
LEMMA RequestTypes ==
  ASSUME TypeInv, late' \subseteq Row, NEW v \in Workers, NEW kind, NEW room, NEW user, NEW other,
         Request(v, kind, room, user, other), user \in Users, other \in Users,
         \/ kind \in {"g_room", "p_room"} /\ room = 0
         \/ kind \in {"message", "delete", "invite"} /\ room \in 1..ids
  PROVE  TypeInv'
<1> DEFINE p == IF kind = "invite" THEN "check" ELSE "begin"
           q == [kind |-> kind, room |-> room, user |-> user, other |-> other, msg |-> 0]
<1>1. /\ pc[v] = "idle" /\ requests < MaxRequests /\ requests' = requests + 1
      /\ req' = [req EXCEPT ![v] = q] /\ pc' = [pc EXCEPT ![v] = p]
      /\ UNCHANGED <<db, tx, auto, live, ids, faults, torn>>
  BY DEF Request, Goto, connVars
<1>2. ids \in Nat /\ ids <= MaxRequests /\ requests \in Nat BY KnownBounds
<1>3. room \in 0..MaxRequests /\ room <= ids /\ 0 \in 0..MaxRequests BY <1>2, BoundsAssumption
<1>4. q \in Req BY <1>3 DEF Req, Kinds
<1>5. p \in Labels /\ <<kind, p>> \in Place BY DEF Labels, Place
<1>6. tx[v] = NoTx /\ auto[v] /\ auto[v] \in BOOLEAN /\ live[v] \in BOOLEAN
  BY <1>1, Known DEF WorkerOK, NothingPending
<1>7. NoTx \in Tx /\ NoTx.ins = {} /\ NoTx.del = {} BY DEF NoTx, Tx
<1>8. room = 0 => p = "begin" /\ kind \in {"g_room", "p_room"} BY <1>2
<1>9. q.kind = kind /\ q.room = room /\ q.user = user /\ q.other = other /\ q.msg = 0 OBVIOUS
<1>10. p # "idle" OBVIOUS
<1> HIDE DEF p, q
<1>11. WorkerOK(p, q, tx[v], auto[v], live[v], ids)
  BY <1>2, <1>3, <1>4, <1>5, <1>6, <1>7, <1>8, <1>9, <1>10 DEF WorkerOK
<1>12. Cost(p, q.kind) <= 1 /\ Cost(p, q.kind) \in Nat /\ Cost(pc[v], req[v].kind) \in Nat
  BY DEF Cost
<1>13. ids' = ids BY <1>1
<1>14. ids' + Cost(p, q.kind) + requests <= ids + Cost(pc[v], req[v].kind) + requests'
  BY <1>1, <1>2, <1>12, <1>13
<1>15. requests' \in 0..MaxRequests BY <1>1, <1>2, BoundsAssumption
<1>16. faults' \in 0..MaxFaults /\ torn' \subseteq 1..MaxRequests BY <1>1, KnownBounds
<1>17. auto' = [auto EXCEPT ![v] = auto[v]] /\ live' = [live EXCEPT ![v] = live[v]]
  BY <1>1 DEF TypeInv, TypeOK
<1>18. WorkerOK(p, q, tx[v], auto[v], live[v], ids') /\ ids' \in Nat /\ ids <= ids'
  BY <1>2, <1>11, <1>13
<1>19. /\ pc' = [pc EXCEPT ![v] = p] /\ req' = [req EXCEPT ![v] = q] /\ UNCHANGED <<db, tx>>
  BY <1>1
<1> QED BY <1>14, <1>15, <1>16, <1>17, <1>18, <1>19, QuietTypes

\* What a worker asks for.
LEMMA AsksRequest ==
  ASSUME NEW v \in Workers, Asks(v)
  PROVE  \E kind, room, user, other :
           /\ Request(v, kind, room, user, other) /\ user \in Users /\ other \in Users
           /\ \/ kind \in {"g_room", "p_room"} /\ room = 0
              \/ kind \in {"message", "delete", "invite"} /\ room \in 1..ids
BY DEF Asks

\* The database drops the connection of a worker.
LEMMA DropTypes ==
  ASSUME TypeInv, late' \subseteq Row, NEW v \in Workers, Drop(v)
  PROVE  TypeInv'
<1>1. /\ faults < MaxFaults /\ pc[v] # "idle" /\ live[v]
      /\ live' = [live EXCEPT ![v] = FALSE] /\ tx' = [tx EXCEPT ![v] = NoTx]
      /\ faults' = faults + 1 /\ UNCHANGED <<db, auto, pc, req, ids, requests>>
  BY DEF Drop
<1>2. auto' = [auto EXCEPT ![v] = auto[v]] /\ pc' = [pc EXCEPT ![v] = pc[v]]
      /\ req' = [req EXCEPT ![v] = req[v]]
  BY <1>1 DEF TypeInv, TypeOK
<1>3. NoTx \in Tx /\ NoTx.ins = {} /\ NoTx.del = {} BY DEF NoTx, Tx
<1>4. WorkerOK(pc[v], req[v], NoTx, auto[v], FALSE, ids) BY <1>3, Known DEF WorkerOK
<1>5. torn' \subseteq 1..MaxRequests
  <2>1. torn \subseteq 1..MaxRequests BY KnownBounds
  <2>2. CASE auto[v] BY <2>1, <2>2 DEF Drop
  <2>3. CASE ~auto[v]
    <3>1. pc[v] \notin {"idle", "begin"} BY <2>3, Known DEF WorkerOK
    <3>2. req[v].room \in 1..MaxRequests BY <3>1, RoomKnown
    <3> QED BY <2>1, <3>2 DEF Drop
  <2> QED BY <2>2, <2>3
<1>6. faults' \in 0..MaxFaults BY <1>1, KnownBounds, BoundsAssumption
<1>7. ids \in Nat /\ ids' = ids /\ requests \in Nat /\ requests' = requests
  BY <1>1, KnownBounds
<1>t. requests' \in 0..MaxRequests BY <1>1, KnownBounds
<1>8. Cost(pc[v], req[v].kind) \in Nat BY DEF Cost
<1>9. ids' + Cost(pc[v], req[v].kind) + requests <= ids + Cost(pc[v], req[v].kind) + requests'
  BY <1>7, <1>8
<1>10. \A w \in Workers \ {v} :
        \A x \in NoTx.ins \cup NoTx.del, y \in tx[w].ins \cup tx[w].del : ~SameKey(x, y)
  BY <1>3
<1>11. db' \subseteq Row /\ DbOK' BY <1>1 DEF TypeInv, TypeOK, DbOK
<1>12. WorkerOK(pc[v], req[v], NoTx, auto[v], FALSE, ids') BY <1>4, <1>7, Zenon
<1>13. ids' \in Nat /\ ids <= ids' BY <1>7
<1>14. live' = [live EXCEPT ![v] = FALSE] /\ tx' = [tx EXCEPT ![v] = NoTx] BY <1>1
<1> QED BY <1>2, <1>5, <1>6, <1>t, <1>9, <1>10, <1>11, <1>12, <1>13, <1>14, OneWorker

\* The invariant holds before the first request.
LEMMA TypeInit == Init => TypeInv
<1> SUFFICES ASSUME Init PROVE TypeInv OBVIOUS
<1>1. NoReq \in Req BY BoundsAssumption DEF NoReq, Req
<1>2. NoTx \in Tx /\ NoTx.ins = {} /\ NoTx.del = {} BY DEF NoTx, Tx
<1>3. <<NoReq.kind, "idle">> \in Place /\ NoReq.room = 0 /\ NoReq.msg = 0 /\ NoReq.kind = "none"
  BY DEF NoReq, Place
<1>4. WorkerOK("idle", NoReq, NoTx, TRUE, TRUE, 0) BY <1>1, <1>2, <1>3 DEF WorkerOK, Labels
<1>5. WorkersOK BY <1>4 DEF WorkersOK, Init
<1>6. DbOK /\ LockInv BY <1>2 DEF DbOK, LockInv, Init
<1>7. IdsOK
  <2>1. {w \in Workers : Will(pc[w], req[w].kind)} = {} BY DEF Init, Will
  <2> QED BY <2>1, FS_EmptySet DEF IdsOK, Init
<1>8. TypeOK BY <1>1, <1>2, BoundsAssumption DEF TypeOK, Init, Labels
<1> QED BY <1>5, <1>6, <1>7, <1>8 DEF TypeInv

\* The rows an invitation adds are rows of the tables.
LEMMA LateTypes ==
  ASSUME TypeInv, [Next]_vars
  PROVE  late' \subseteq Row
<1>1. late \subseteq Row BY DEF TypeInv, TypeOK
<1>2. SUFFICES ASSUME late' # late PROVE late' \subseteq Row BY <1>1
<1>3. PICK v \in Workers : DeleteMembers(v) \/ InsertMember(v)
  <2>1. ~(UNCHANGED vars) BY <1>2 DEF vars
  <2>2. ~Crash BY <1>2 DEF Crash, Terminate
  <2>3. PICK v \in Workers : Asks(v) \/ Step(v) \/ Throw(v) \/ Escape(v) \/ Drop(v)
    BY <2>1, <2>2 DEF Next
  <2>4. ~Asks(v) BY <1>2, AsksRequest DEF Request
  <2>5. ~Throw(v) /\ ~Escape(v) /\ ~Drop(v) BY <1>2 DEF Throw, Catch, Escape, Terminate, Drop
  <2>6. ~Begin(v) /\ ~Check(v) /\ ~InsertRoom(v) /\ ~InsertMembers(v) /\ ~InsertMessage(v)
    BY <1>2 DEF Begin, Check, InsertRoom, InsertMembers, InsertMessage
  <2>7. ~UpdateRoom(v) /\ ~DeleteRoom(v) /\ ~Reject(v) /\ ~Commit(v) /\ ~Broadcast(v) /\ ~Return(v)
    BY <1>2 DEF UpdateRoom, DeleteRoom, Reject, Catch, Commit, Broadcast, Return
  <2> QED BY <2>3, <2>4, <2>5, <2>6, <2>7 DEF Step
<1>4. CASE DeleteMembers(v) BY <1>1, <1>4 DEF DeleteMembers, MembersRead
<1>5. CASE InsertMember(v)
  <2> DEFINE row == Store!MemberRow(req[v].room, req[v].other, Store!MEMBER)
  <2>1. row \in Row BY <1>5, RoomKnown, KnownIds, RowTypes, Enums DEF InsertMember
  <2>2. late' = late \cup {row} BY <1>5 DEF InsertMember
  <2> QED BY <1>1, <2>1, <2>2
<1> QED BY <1>3, <1>4, <1>5

\* Every step of the handlers, of the database and of the process keeps the invariant.
LEMMA TypeStep == TypeInv /\ [Next]_vars => TypeInv'
<1> SUFFICES ASSUME TypeInv, [Next]_vars PROVE TypeInv' OBVIOUS
<1>0. late' \subseteq Row BY LateTypes
<1>1. ASSUME NEW v \in Workers, Asks(v) PROVE TypeInv' BY <1>0, <1>1, AsksRequest, RequestTypes
<1>2. ASSUME NEW v \in Workers, Step(v) PROVE TypeInv'
  <2>1. CASE Reject(v) BY <1>0, <2>1, LeaveTypes DEF Reject, Catch
  <2> QED BY <1>0, <1>2, <2>1, BeginTypes, CheckTypes, StatementsTypes, InsertMessageTypes, CommitTypes,
             BroadcastTypes, ReturnTypes DEF Step
<1>3. ASSUME NEW v \in Workers, Throw(v) PROVE TypeInv' BY <1>0, <1>3, LeaveTypes DEF Throw, Catch
<1>4. ASSUME NEW v \in Workers, Escape(v) PROVE TypeInv'
  BY <1>0, <1>4, TerminateTypes, KnownBounds DEF Escape
<1>5. ASSUME NEW v \in Workers, Drop(v) PROVE TypeInv' BY <1>0, <1>5, DropTypes
<1>6. CASE Crash
  <2>1. faults' \in 0..MaxFaults BY <1>6, KnownBounds, BoundsAssumption DEF Crash
  <2> QED BY <1>0, <1>6, <2>1, TerminateTypes DEF Crash
<1>7. CASE UNCHANGED vars
  BY <1>7 DEF vars, connVars, boundVars, TypeInv, TypeOK, WorkersOK, DbOK, LockInv, IdsOK
<1> QED BY <1>1, <1>2, <1>3, <1>4, <1>5, <1>6, <1>7 DEF Next

\* The variables stay in their types, and a transaction is pending only on a valid
\* connection that is not in autocommit mode, for any workers, users and bounds.
THEOREM TypeCorrect == Spec => []TypeOK
<1>1. TypeInv => TypeOK BY DEF TypeInv
<1> QED BY <1>1, TypeInit, TypeStep, PTL DEF Spec

-----------------------------------------------------------------------------
(***************************************************************************)
(* The tables                                                              *)
(*                                                                         *)
(* Nothing is promised of the rooms in torn, so what follows is about the  *)
(* others.                                                                 *)
(***************************************************************************)

Rows == {x \in db : x.room \notin torn}
RoomRows(r) == Store!In(Rows, "rooms", r)
MemberRows(r) == Store!In(Rows, "room_members", r)
MessageRows(r) == Store!In(Rows, "messages", r)

\* The labels at which a request has a transaction.
InTransaction(p, kind) ==
  \/ /\ kind # "invite"
     /\ p \in {"check", "insert_room", "insert_members", "insert_message", "update_room",
               "delete_members", "delete_room", "commit"}
  \/ kind = "g_room" /\ p = "close"

\* The labels at which a request has a room, or a message, that is not committed yet.
Creating(p, kind) ==
  \/ p \in {"insert_room", "insert_members"}
  \/ kind = "p_room" /\ p = "commit"
  \/ kind = "g_room" /\ p = "close"

Sending(p, kind) == kind = "message" /\ p \in {"update_room", "commit"}

OwnerRow(q) == Store!MemberRow(q.room, q.user, Store!OWNER)
PairRows(q) == {Store!MemberRow(q.room, u, Store!PRIVATE_MEMBER) : u \in {q.user, q.other}}
SentRow(q) == Store!MessageRow(q.room, q.msg, q.user)
SenderIn(q, M) == \E x \in M : x.key = q.user

\* What a request q at label p relies on: its pending changes t, against the committed rows
\* of its room in the three tables.  A room that is gone stays gone; an owner, a sender and a
\* row that is locked go only with their room.
CreateOK(p, q, t, R, M) ==
  /\ p = "insert_members" => t = [ins |-> {Store!RoomRow(q.room, RoomType(q.kind), 0)}, del |-> {}]
  /\ p = "close" /\ q.kind = "g_room" =>
       t = [ins |-> {Store!RoomRow(q.room, Store!GROUP, 0), OwnerRow(q)}, del |-> {}]
  /\ p = "commit" /\ q.kind = "p_room" =>
       /\ q.user # q.other
       /\ t = [ins |-> {Store!RoomRow(q.room, Store!PRIVATE, 0)} \cup PairRows(q), del |-> {}]
  /\ p = "close" /\ q.kind = "p_room" =>
       PairRows(q) \subseteq M /\ \E x \in R : x.key = Store!PRIVATE

MessageOK(p, q, t, R, M, S) ==
  /\ p = "insert_message" => R = {} \/ SenderIn(q, M)
  /\ p = "update_room" => t = [ins |-> {SentRow(q)}, del |-> {}] /\ (R = {} \/ SenderIn(q, M))
  /\ p = "commit" /\ q.kind = "message" =>
       /\ SenderIn(q, M)
       /\ \E x \in R : t = [ins |-> {SentRow(q), Store!RoomRow(q.room, x.key, q.msg)}, del |-> {x}]
  /\ p \in {"broadcast", "close"} /\ q.kind = "message" => SentRow(q) \in S

DeleteOK(p, q, t, R, M) ==
  /\ p = "delete_members" => R = {} \/ OwnerRow(q) \in M
  /\ p = "delete_room" =>
       /\ t.ins = {} /\ t.del \subseteq M
       /\ R = {} \/ (OwnerRow(q) \in t.del /\ \A y \in M \ t.del : y.val = Store!MEMBER)
  /\ p = "commit" /\ q.kind = "delete" =>
       /\ t.ins = {} /\ OwnerRow(q) \in t.del /\ OwnerRow(q) \in M
       /\ \A y \in M \ t.del : y.val = Store!MEMBER
       /\ \E x \in R : x \in t.del /\ t.del \ {x} \subseteq M
  /\ p = "close" /\ q.kind = "delete" => R = {}

InvitedRow(q) == Store!MemberRow(q.room, q.other, Store!MEMBER)

InviteOK(p, q, R, M) ==
  /\ p = "insert_member" => \A x \in R : x.key = Store!GROUP
  /\ p = "close" /\ q.kind = "invite" => InvitedRow(q) \in M \/ R = {}

Local(p, q, t, R, M, S) ==
  CreateOK(p, q, t, R, M) /\ MessageOK(p, q, t, R, M, S) /\ DeleteOK(p, q, t, R, M) /\ InviteOK(p, q, R, M)

WorkerTable(w) ==
  req[w].room \notin torn =>
    /\ InTransaction(pc[w], req[w].kind) => live[w] /\ ~auto[w]
    /\ Creating(pc[w], req[w].kind) => \A x \in Rows : x.room # req[w].room
    /\ Sending(pc[w], req[w].kind) => \A x \in Rows : x.table = "messages" => x.key # req[w].msg
    /\ Local(pc[w], req[w], tx[w], RoomRows(req[w].room), MemberRows(req[w].room),
             MessageRows(req[w].room))

\* Nobody else has found a room that is not committed yet.
RoomFresh ==
  \A w \in Workers : req[w].room \notin torn /\ Creating(pc[w], req[w].kind) =>
    \A v \in Workers \ {w} : req[v].room = req[w].room => pc[v] \in {"begin", "check"}

\* No two requests have the same message id.
MsgFresh ==
  \A w \in Workers :
    /\ Sending(pc[w], req[w].kind) => req[w].msg # 0
    /\ \A v \in Workers \ {w} : req[v].msg = req[w].msg => req[w].msg = 0

TableInv == (\A w \in Workers : WorkerTable(w)) /\ RoomFresh /\ MsgFresh /\ Store!Inv

\* What a request relies on is kept by what other requests commit in its room: nothing is
\* relied on before the first statement; a post, an invitation and a deletion that touch no
\* row locked by the request.
LEMMA LocalEarly ==
  \A q, t, R, M, S : \A p \in {"idle", "begin", "check", "insert_room"} : Local(p, q, t, R, M, S)
BY DEF Local, CreateOK, MessageOK, DeleteOK, InviteOK

\* What a worker found in its room survives a message of another worker to it.
LEMMA LocalPost ==
  ASSUME NEW p, NEW q, NEW t, NEW R, NEW M, NEW S, Local(p, q, t, R, M, S),
         NEW x \in R, NEW n, n.key = x.key, NEW S2, S \subseteq S2,
         \A y \in R : y.table = "rooms", \A y \in t.ins \cup t.del : y.table # "rooms"
  PROVE  Local(p, q, t, (R \ {x}) \cup {n}, M, S2)
<1> DEFINE R2 == (R \ {x}) \cup {n}
<1>1. CreateOK(p, q, t, R2, M) BY DEF Local, CreateOK
<1>2. MessageOK(p, q, t, R2, M, S2)
  <2>1. ~(p = "commit" /\ q.kind = "message") BY DEF Local, MessageOK
  <2> QED BY <2>1 DEF Local, MessageOK
<1>3. DeleteOK(p, q, t, R2, M)
  <2>1. ~(p = "commit" /\ q.kind = "delete") BY DEF Local, DeleteOK
  <2>2. R # {} OBVIOUS
  <2> QED BY <2>1, <2>2 DEF Local, DeleteOK
<1>4. InviteOK(p, q, R2, M) BY DEF Local, InviteOK
<1> QED BY <1>1, <1>2, <1>3, <1>4 DEF Local

\* What a worker found in its room survives an invitation by another worker.
LEMMA LocalInvite ==
  ASSUME NEW p, NEW q, NEW t, NEW R, NEW M, NEW S, Local(p, q, t, R, M, S),
         NEW m, m.val = Store!MEMBER
  PROVE  Local(p, q, t, R, M \cup {m}, S)
<1>1. CreateOK(p, q, t, R, M \cup {m}) BY DEF Local, CreateOK
<1>2. MessageOK(p, q, t, R, M \cup {m}, S) BY DEF Local, MessageOK, SenderIn
<1>3. DeleteOK(p, q, t, R, M \cup {m}) BY DEF Local, DeleteOK
<1>4. InviteOK(p, q, R, M \cup {m}) BY DEF Local, InviteOK
<1> QED BY <1>1, <1>2, <1>3, <1>4 DEF Local

\* What a worker found in its room survives the deletion of the room by another worker.
LEMMA LocalDelete ==
  ASSUME NEW p, NEW q, NEW t, NEW R, NEW M, NEW S, Local(p, q, t, R, M, S),
         NEW x, R = {x}, x.key = Store!GROUP, x.table = "rooms", NEW M2 \in SUBSET M,
         \A y \in t.ins \cup t.del : y.table # "rooms" /\ (y \in M => y \in M2)
  PROVE  Local(p, q, t, {}, M2, S)
<1>1. CreateOK(p, q, t, {}, M2)
  <2>1. ~(p = "close" /\ q.kind = "p_room") BY DEF Local, CreateOK, Store!GROUP, Store!PRIVATE
  <2> QED BY <2>1 DEF Local, CreateOK
<1>2. MessageOK(p, q, t, {}, M2, S)
  <2>1. ~(p = "commit" /\ q.kind = "message") BY DEF Local, MessageOK
  <2> QED BY <2>1 DEF Local, MessageOK
<1>3. DeleteOK(p, q, t, {}, M2)
  <2>1. ~(p = "commit" /\ q.kind = "delete") BY DEF Local, DeleteOK
  <2> QED BY <2>1 DEF Local, DeleteOK
<1>4. InviteOK(p, q, {}, M2) BY DEF InviteOK
<1> QED BY <1>1, <1>2, <1>3, <1>4 DEF Local


\* A step of worker v.
OnlyWorker(v) ==
  \A w \in Workers \ {v} :
    /\ pc'[w] = pc[w] /\ req'[w] = req[w] /\ tx'[w] = tx[w]
    /\ auto'[w] = auto[w] /\ live'[w] = live[w]

\* Another worker, whose room the step of v leaves as it is.
LEMMA OtherSame ==
  ASSUME TableInv, NEW v \in Workers, OnlyWorker(v), torn \subseteq torn', NEW w \in Workers \ {v},
         req[w].room \notin torn' => \A x : x.room = req[w].room => (x \in Rows' <=> x \in Rows),
         \A x \in Rows' : x.table = "messages" => x \in Rows \/ x.key = req[v].msg
  PROVE  WorkerTable(w)'
<1> DEFINE r == req[w].room
<1>1. /\ pc'[w] = pc[w] /\ req'[w] = req[w] /\ tx'[w] = tx[w] /\ auto'[w] = auto[w]
      /\ live'[w] = live[w]
  BY DEF OnlyWorker
<1> SUFFICES ASSUME r \notin torn' PROVE WorkerTable(w)' BY <1>1 DEF WorkerTable
<1>2. WorkerTable(w) /\ r \notin torn BY DEF TableInv
<1>3. /\ Store!In(Rows', "rooms", r) = RoomRows(r)
      /\ Store!In(Rows', "room_members", r) = MemberRows(r)
      /\ Store!In(Rows', "messages", r) = MessageRows(r)
  BY DEF Store!In, RoomRows, MemberRows, MessageRows
<1>4. InTransaction(pc[w], req[w].kind) => live[w] /\ ~auto[w] BY <1>2 DEF WorkerTable
<1>5. Creating(pc[w], req[w].kind) => \A x \in Rows' : x.room # r BY <1>2 DEF WorkerTable
<1>6. ASSUME Sending(pc[w], req[w].kind), NEW x \in Rows', x.table = "messages"
      PROVE  x.key # req[w].msg
  <2>1. CASE x \in Rows BY <1>2, <1>6, <2>1 DEF WorkerTable
  <2>2. CASE x.key = req[v].msg BY <1>6, <2>2 DEF TableInv, MsgFresh
  <2> QED BY <1>6, <2>1, <2>2
<1>7. Local(pc[w], req[w], tx[w], Store!In(Rows', "rooms", r), Store!In(Rows', "room_members", r),
            Store!In(Rows', "messages", r))
  BY <1>2, <1>3 DEF WorkerTable
<1> QED BY <1>1, <1>4, <1>5, <1>6, <1>7 DEF WorkerTable, RoomRows, MemberRows, MessageRows

\* Another worker, in whose room r the step of v has committed something.
LEMMA OtherLocal ==
  ASSUME TableInv, NEW v \in Workers, OnlyWorker(v), torn' = torn, NEW w \in Workers \ {v}, NEW r,
         req[w].room = r, req[v].room = r, r \notin torn, pc[v] \notin {"begin", "check"},
         Local(pc[w], req[w], tx[w], Store!In(Rows', "rooms", r), Store!In(Rows', "room_members", r),
               Store!In(Rows', "messages", r)),
         \A x \in Rows' : x.table = "messages" => x \in Rows \/ x.key = req[v].msg
  PROVE  WorkerTable(w)'
<1>1. /\ pc'[w] = pc[w] /\ req'[w] = req[w] /\ tx'[w] = tx[w] /\ auto'[w] = auto[w]
      /\ live'[w] = live[w]
  BY DEF OnlyWorker
<1>2. WorkerTable(w) BY DEF TableInv
<1>3. InTransaction(pc[w], req[w].kind) => live[w] /\ ~auto[w] BY <1>2 DEF WorkerTable
<1>4. ~Creating(pc[w], req[w].kind) BY DEF TableInv, RoomFresh
<1>5. ASSUME Sending(pc[w], req[w].kind), NEW x \in Rows', x.table = "messages"
      PROVE  x.key # req[w].msg
  <2>1. CASE x \in Rows BY <1>2, <1>5, <2>1 DEF WorkerTable
  <2>2. CASE x.key = req[v].msg BY <1>5, <2>2 DEF TableInv, MsgFresh
  <2> QED BY <1>5, <2>1, <2>2
<1> QED BY <1>1, <1>3, <1>4, <1>5 DEF WorkerTable, RoomRows, MemberRows, MessageRows

\* What a step of v has to show of rooms and messages that are not committed yet.
LEMMA FreshStep ==
  ASSUME TypeInv, TypeInv', TableInv, NEW v \in Workers, OnlyWorker(v), torn \subseteq torn',
         Creating(pc'[v], req'[v].kind) /\ req'[v].room \notin torn' =>
           (Creating(pc[v], req[v].kind) /\ req'[v].room = req[v].room) \/ ids < req'[v].room,
         \A w \in Workers \ {v} :
           req[w].room \notin torn /\ Creating(pc[w], req[w].kind) /\ req'[v].room = req[w].room
             => pc'[v] \in {"begin", "check"},
         req'[v].msg = 0 \/ req'[v].msg = req[v].msg \/ ids < req'[v].msg,
         Sending(pc'[v], req'[v].kind) => req'[v].msg # 0
  PROVE  RoomFresh' /\ MsgFresh'
<1>1. \A w \in Workers \ {v} : pc'[w] = pc[w] /\ req'[w] = req[w] BY DEF OnlyWorker
<1>2. \A w \in Workers : req[w].room \in Nat /\ req[w].room <= ids /\ req[w].msg \in Nat /\ req[w].msg <= ids
  BY KnownIds
<1>3. ids \in Nat BY KnownBounds
<1>4. req'[v].room \in Nat /\ req'[v].msg \in Nat
  <2>1. req' \in [Workers -> Req] BY DEF TypeInv, TypeOK
  <2>2. req'[v].room \in 0..MaxRequests /\ req'[v].msg \in 0..MaxRequests BY <2>1 DEF Req
  <2> QED BY <2>2, BoundsAssumption
<1>5. RoomFresh'
  <2> SUFFICES ASSUME NEW w \in Workers, req'[w].room \notin torn', Creating(pc'[w], req'[w].kind),
                      NEW u \in Workers \ {w}, req'[u].room = req'[w].room
               PROVE  pc'[u] \in {"begin", "check"}
    BY DEF RoomFresh
  <2>1. CASE w = v
    <3>1. req'[u] = req[u] /\ pc'[u] = pc[u] BY <1>1, <2>1
    <3>2. ~(ids < req'[v].room) BY <1>2, <1>3, <1>4, <2>1, <3>1
    <3>3. Creating(pc[v], req[v].kind) /\ req'[v].room = req[v].room BY <2>1, <3>2
    <3> QED BY <2>1, <3>1, <3>3 DEF TableInv, RoomFresh
  <2>2. CASE u = v BY <1>1, <2>2
  <2>3. CASE w # v /\ u # v BY <1>1, <2>3 DEF TableInv, RoomFresh
  <2> QED BY <2>1, <2>2, <2>3
<1>6. ASSUME NEW w \in Workers, Sending(pc'[w], req'[w].kind) PROVE req'[w].msg # 0
  BY <1>1, <1>6 DEF TableInv, MsgFresh
<1>7. ASSUME NEW w \in Workers \ {v}, req'[v].msg = req'[w].msg PROVE req'[w].msg = 0
  <2>1. req'[w].msg = req[w].msg BY <1>1
  <2>2. CASE req'[v].msg = 0 BY <1>7, <2>2
  <2>3. CASE req'[v].msg = req[v].msg BY <1>7, <2>1, <2>3 DEF TableInv, MsgFresh
  <2>4. CASE ids < req'[v].msg BY <1>2, <1>3, <1>4, <1>7, <2>1, <2>4
  <2> QED BY <2>2, <2>3, <2>4
<1>8. ASSUME NEW w \in Workers, NEW u \in Workers \ {w}, req'[u].msg = req'[w].msg
      PROVE  req'[w].msg = 0
  <2>1. CASE u = v BY <1>7, <1>8, <2>1
  <2>2. CASE w = v BY <1>7, <1>8, <2>2
  <2>3. CASE w # v /\ u # v BY <1>1, <1>8, <2>3 DEF TableInv, MsgFresh
  <2> QED BY <2>1, <2>2, <2>3
<1> QED BY <1>5, <1>6, <1>8 DEF MsgFresh


\* The handlers of one worker leave the other workers alone.
LEMMA WorkerStep ==
  ASSUME TypeInv, NEW v \in Workers, Asks(v) \/ Step(v) \/ Throw(v) \/ Drop(v)
  PROVE  OnlyWorker(v)
<1>1. /\ pc \in [Workers -> Labels] /\ req \in [Workers -> Req] /\ tx \in [Workers -> Tx]
      /\ auto \in [Workers -> BOOLEAN] /\ live \in [Workers -> BOOLEAN]
  BY DEF TypeInv, TypeOK
<1>2. ASSUME NEW ins, NEW del, Execute(v, ins, del)
      PROVE  \A w \in Workers \ {v} : tx'[w] = tx[w] /\ auto'[w] = auto[w] /\ live'[w] = live[w]
  BY <1>1, <1>2 DEF Execute
<1>3. ASSUME Leave(v) PROVE OnlyWorker(v) BY <1>1, <1>3 DEF Leave, Goto, OnlyWorker
<1>4. ASSUME NEW p, Goto(v, p) PROVE \A w \in Workers \ {v} : pc'[w] = pc[w] BY <1>1, <1>4 DEF Goto
<1>5. CASE Asks(v)
  <2>1. PICK kind, room, user, other : Request(v, kind, room, user, other) BY <1>5, AsksRequest
  <2> QED BY <1>1, <2>1 DEF Request, Goto, OnlyWorker, connVars
<1>6. CASE Begin(v) BY <1>1, <1>6 DEF Begin, Goto, OnlyWorker
<1>7. CASE Check(v) BY <1>1, <1>3, <1>7 DEF Check, Query, Goto, OnlyWorker
<1>8. CASE InsertRoom(v) BY <1>2, <1>4, <1>8 DEF InsertRoom, OnlyWorker
<1>9. CASE InsertMembers(v) BY <1>2, <1>4, <1>9 DEF InsertMembers, OnlyWorker
<1>10. CASE InsertMessage(v)
  <2>1. \A w \in Workers \ {v} : req'[w] = req[w] BY <1>1, <1>10 DEF InsertMessage
  <2> QED BY <1>2, <1>4, <1>10, <2>1 DEF InsertMessage, OnlyWorker
<1>11. CASE UpdateRoom(v) BY <1>2, <1>4, <1>11 DEF UpdateRoom, OnlyWorker
<1>12. CASE DeleteMembers(v) BY <1>2, <1>4, <1>12 DEF DeleteMembers, OnlyWorker
<1>13. CASE DeleteRoom(v) BY <1>2, <1>4, <1>13 DEF DeleteRoom, OnlyWorker
<1>14. CASE InsertMember(v) BY <1>2, <1>4, <1>14 DEF InsertMember, OnlyWorker
<1>15. CASE Reject(v) BY <1>3, <1>15 DEF Reject, Catch
<1>16. CASE Commit(v) BY <1>1, <1>16 DEF Commit, Goto, OnlyWorker
<1>17. CASE Broadcast(v) BY <1>1, <1>17 DEF Broadcast, Goto, OnlyWorker, connVars
<1>18. CASE Return(v) BY <1>1, <1>18 DEF Return, Destroy, Goto, OnlyWorker
<1>19. CASE Throw(v) BY <1>3, <1>19 DEF Throw, Catch
<1>20. CASE Drop(v) BY <1>1, <1>20 DEF Drop, OnlyWorker
<1> QED BY <1>5, <1>6, <1>7, <1>8, <1>9, <1>10, <1>11, <1>12, <1>13, <1>14, <1>15, <1>16, <1>17,
           <1>18, <1>19, <1>20 DEF Step

\* What is shown of every step: it is a step of ChatStore, or changes nothing there.
Simulated ==
  /\ \A w \in Workers : WorkerTable(w)'
  /\ RoomFresh' /\ MsgFresh'
  /\ [Store!Next]_(Store!vars)

\* Steps that leave the tables alone.
LEMMA QuietTables ==
  ASSUME TableInv, NEW v \in Workers, OnlyWorker(v), Rows' = Rows, torn' = torn,
         WorkerTable(v)', RoomFresh', MsgFresh'
  PROVE  Simulated
<1>1. \A w \in Workers \ {v} : WorkerTable(w)'
  <2> SUFFICES ASSUME NEW w \in Workers \ {v} PROVE WorkerTable(w)' OBVIOUS
  <2> QED BY OtherSame
<1>2. UNCHANGED Store!vars BY DEF Store!vars, Rows
<1> QED BY <1>1, <1>2 DEF Simulated

\* A request that goes on.
LEMMA ContinueFresh ==
  ASSUME TypeInv, TypeInv', TableInv, NEW v \in Workers, OnlyWorker(v), torn \subseteq torn',
         req'[v] = req[v], pc[v] \notin {"begin", "check"} \/ pc'[v] \in {"begin", "check"},
         Creating(pc'[v], req[v].kind) => Creating(pc[v], req[v].kind),
         Sending(pc'[v], req[v].kind) => Sending(pc[v], req[v].kind)
  PROVE  RoomFresh' /\ MsgFresh'
<1>1. \A w \in Workers \ {v} :
        req[w].room \notin torn /\ Creating(pc[w], req[w].kind) /\ req'[v].room = req[w].room
          => pc'[v] \in {"begin", "check"}
  BY DEF TableInv, RoomFresh
<1>2. Sending(pc'[v], req'[v].kind) => req'[v].msg # 0 BY DEF TableInv, MsgFresh
<1> QED BY <1>1, <1>2, FreshStep

\* A request that is over.
LEMMA EndFresh ==
  ASSUME TypeInv, TypeInv', TableInv, NEW v \in Workers, OnlyWorker(v), torn' = torn,
         pc'[v] = "idle", req'[v] = NoReq
  PROVE  WorkerTable(v)' /\ RoomFresh' /\ MsgFresh'
<1>1. req'[v].kind = "none" /\ req'[v].room = 0 /\ req'[v].msg = 0 BY DEF NoReq
<1>2. ~Creating("idle", "none") /\ ~Sending("idle", "none") /\ ~InTransaction("idle", "none")
  BY DEF Creating, Sending, InTransaction
<1>3. WorkerTable(v)' BY <1>1, <1>2, LocalEarly DEF WorkerTable
<1>4. ASSUME NEW w \in Workers, Creating(pc[w], req[w].kind) PROVE req[w].room # 0
  <2>1. pc[w] \notin {"idle", "begin"} BY <1>4, KindAt DEF Creating
  <2> QED BY <2>1, RoomKnown
<1>5. \A w \in Workers \ {v} :
        req[w].room \notin torn /\ Creating(pc[w], req[w].kind) /\ req'[v].room = req[w].room
          => pc'[v] \in {"begin", "check"}
  BY <1>1, <1>4
<1> QED BY <1>1, <1>2, <1>3, <1>5, FreshStep

\* The end of a request changes no table.
LEMMA EndTables ==
  ASSUME TypeInv, TypeInv', TableInv, NEW v \in Workers, OnlyWorker(v), torn' = torn, db' = db,
         pc'[v] = "idle", req'[v] = NoReq
  PROVE  Simulated
<1>1. Rows' = Rows BY DEF Rows
<1> QED BY <1>1, EndFresh, QuietTables

\* The end of the process changes no table: what is pending is rolled back.
LEMMA TerminateTables ==
  ASSUME TypeInv', TableInv, Terminate
  PROVE  Simulated
<1>1. \A w \in Workers : pc'[w] = "idle" /\ req'[w] = NoReq BY DEF Terminate
<1>2. NoReq.kind = "none" /\ NoReq.room = 0 /\ NoReq.msg = 0 BY DEF NoReq
<1>3. ~Creating("idle", "none") /\ ~Sending("idle", "none") /\ ~InTransaction("idle", "none")
  BY DEF Creating, Sending, InTransaction
<1>4. \A w \in Workers : WorkerTable(w)' BY <1>1, <1>2, <1>3, LocalEarly DEF WorkerTable
<1>5. RoomFresh' BY <1>1, <1>2, <1>3 DEF RoomFresh
<1>6. MsgFresh' BY <1>1, <1>2, <1>3 DEF MsgFresh
<1>7. UNCHANGED Store!vars BY DEF Store!vars, Terminate
<1> QED BY <1>4, <1>5, <1>6, <1>7 DEF Simulated


\* A handler that rolls back changes no table.
LEMMA LeaveTables ==
  ASSUME TypeInv, TypeInv', TableInv, NEW v \in Workers, OnlyWorker(v), Leave(v), torn' = torn
  PROVE  Simulated
<1>1. pc'[v] = "idle" /\ req'[v] = NoReq /\ db' = db BY DEF Leave, Goto, TypeInv, TypeOK
<1> QED BY <1>1, EndTables

\* A request that begins changes no table.
LEMMA RequestTables ==
  ASSUME TypeInv, TypeInv', TableInv, NEW v \in Workers, OnlyWorker(v),
         NEW kind, NEW room, NEW user, NEW other, Request(v, kind, room, user, other)
  PROVE  Simulated
<1> DEFINE p == IF kind = "invite" THEN "check" ELSE "begin"
<1>1. pc'[v] = p /\ req'[v].kind = kind /\ req'[v].msg = 0 /\ db' = db /\ torn' = torn
  BY DEF Request, Goto, TypeInv, TypeOK
<1>2. ~Creating(p, kind) /\ ~Sending(p, kind) /\ ~InTransaction(p, kind)
  BY DEF Creating, Sending, InTransaction
<1>3. p \in {"idle", "begin", "check", "insert_room"} /\ p \in {"begin", "check"} OBVIOUS
<1> HIDE DEF p
<1>4. WorkerTable(v)' BY <1>1, <1>2, <1>3, LocalEarly DEF WorkerTable
<1>5. RoomFresh' /\ MsgFresh' BY <1>1, <1>2, <1>3, FreshStep
<1>6. Rows' = Rows BY <1>1 DEF Rows
<1> QED BY <1>1, <1>4, <1>5, <1>6, QuietTables

\* A step by which a room is lost.
LEMMA LoseTables ==
  ASSUME TypeInv, TypeInv', TableInv, NEW v \in Workers, OnlyWorker(v), NEW r \in 1..MaxRequests,
         db' = db, torn' = torn \cup {r}, req'[v].room = r, RoomFresh', MsgFresh'
  PROVE  Simulated
<1>1. Rows' = {x \in Rows : x.room # r} BY DEF Rows
<1>2. \A w \in Workers \ {v} : WorkerTable(w)'
  <2> SUFFICES ASSUME NEW w \in Workers \ {v} PROVE WorkerTable(w)' OBVIOUS
  <2>1. req[w].room \notin torn' => \A x : x.room = req[w].room => (x \in Rows' <=> x \in Rows)
    BY <1>1
  <2>2. \A x \in Rows' : x.table = "messages" => x \in Rows \/ x.key = req[v].msg BY <1>1
  <2> QED BY <2>1, <2>2, OtherSame
<1>3. WorkerTable(v)' BY DEF WorkerTable
<1>4. [Store!Next]_(Store!vars)
  <2>1. CASE r \in torn BY <1>1, <2>1 DEF Store!vars, Rows
  <2>2. CASE r \notin torn
    <3>1. Store!Lose(r) BY <1>1, <2>2 DEF Store!Lose, Rows
    <3> QED BY <3>1 DEF Store!Next
  <2> QED BY <2>1, <2>2
<1> QED BY <1>2, <1>3, <1>4 DEF Simulated

\* begin_transaction() and the id of a new room change no table.
LEMMA BeginTables ==
  ASSUME TypeInv, TypeInv', TableInv, NEW v \in Workers, OnlyWorker(v), Begin(v)
  PROVE  Simulated
<1> DEFINE creates == req[v].kind \in {"g_room", "p_room"}
           room == IF creates THEN ids + 1 ELSE req[v].room
           p == IF creates THEN "insert_room" ELSE "check"
<1>1. /\ pc[v] = "begin" /\ pc'[v] = p /\ auto'[v] = ~live[v] /\ live'[v] = live[v]
      /\ torn' = (IF live[v] THEN torn ELSE torn \cup {room}) /\ db' = db
  BY DEF Begin, Goto, TypeInv, TypeOK
<1>2. req'[v].kind = req[v].kind /\ req'[v].room = room /\ req'[v].msg = req[v].msg
  BY DEF Begin, TypeInv, TypeOK, Req
<1>3. ids \in Nat /\ req[v].room \in Nat /\ req[v].room <= ids BY KnownIds, KnownBounds
<1>4. req[v].kind \in {"g_room", "p_room", "message", "delete"} BY <1>1, KindAt
<1>5. RoomFresh' /\ MsgFresh'
  <2>1. Creating(p, req[v].kind) => ids < room BY <1>3, <1>4 DEF Creating
  <2>2. ~Sending(p, req[v].kind) BY DEF Sending
  <2>3. ASSUME NEW w \in Workers \ {v}, room = req[w].room PROVE p \in {"begin", "check"}
    <3>1. req[w].room \in Nat /\ req[w].room <= ids BY KnownIds
    <3> QED BY <1>3, <2>3, <3>1
  <2>4. torn \subseteq torn' BY <1>1
  <2> HIDE DEF room, p
  <2> QED BY <1>1, <1>2, <2>1, <2>2, <2>3, <2>4, FreshStep
<1>6. CASE live[v]
  <2>1. Rows' = Rows /\ torn' = torn BY <1>1, <1>6 DEF Rows
  <2>2. Creating(p, req[v].kind) => \A x \in Rows : x.room # room
    <3>1. \A x \in Rows : x.room \in Nat /\ x.room <= ids
      BY DEF Rows, TypeInv, TypeOK, DbOK, Row
    <3> QED BY <1>3, <1>4, <3>1 DEF Creating
  <2>3. ~Sending(p, req[v].kind) BY DEF Sending
  <2>4. p \in {"idle", "begin", "check", "insert_room"} OBVIOUS
  <2> HIDE DEF room, p
  <2>5. WorkerTable(v)' BY <1>1, <1>2, <1>6, <2>1, <2>2, <2>3, <2>4, LocalEarly DEF WorkerTable
  <2> QED BY <1>5, <2>1, <2>5, QuietTables
<1>7. CASE ~live[v]
  <2>1. room \in 1..MaxRequests
    <3>1. creates => ids + 1 \in 1..MaxRequests BY <1>1, IdLeft DEF Will
    <3>2. ~creates => req[v].room # 0 BY <1>1, Known DEF WorkerOK
    <3>3. ids <= MaxRequests BY KnownBounds
    <3> QED BY <1>3, <3>1, <3>2, <3>3, BoundsAssumption
  <2> HIDE DEF room
  <2> QED BY <1>1, <1>2, <1>5, <1>7, <2>1, LoseTables
<1> QED BY <1>6, <1>7

\* A lost connection rolls back: the room of the request is torn, no table changes.
LEMMA DropTables ==
  ASSUME TypeInv, TypeInv', TableInv, NEW v \in Workers, OnlyWorker(v), Drop(v)
  PROVE  Simulated
<1> DEFINE loses == ~auto[v] /\ (tx[v] # NoTx \/ pc[v] \notin {"broadcast", "close"})
<1>1. /\ pc'[v] = pc[v] /\ req'[v] = req[v] /\ tx'[v] = NoTx /\ db' = db
      /\ torn' = (IF loses THEN torn \cup {req[v].room} ELSE torn)
  BY DEF Drop, TypeInv, TypeOK
<1>2. RoomFresh' /\ MsgFresh' BY <1>1, ContinueFresh
<1>3. CASE loses
  <2>1. pc[v] \notin {"idle", "begin"} BY <1>3, Known DEF WorkerOK
  <2>2. req[v].room \in 1..MaxRequests BY <2>1, RoomKnown
  <2> QED BY <1>1, <1>2, <1>3, <2>2, LoseTables
<1>4. CASE ~loses
  <2>1. Rows' = Rows /\ torn' = torn BY <1>1, <1>4 DEF Rows
  <2>2. WorkerTable(v)'
    <3> SUFFICES ASSUME req[v].room \notin torn PROVE WorkerTable(v)'
      BY <1>1, <2>1 DEF WorkerTable
    <3>1. WorkerTable(v) BY DEF TableInv
    <3>2. ~InTransaction(pc[v], req[v].kind)
      <4> SUFFICES ASSUME InTransaction(pc[v], req[v].kind) PROVE FALSE OBVIOUS
      <4>1. ~auto[v] BY <3>1 DEF WorkerTable
      <4>2. tx[v] = NoTx /\ pc[v] \in {"broadcast", "close"} BY <1>4, <4>1
      <4>3. pc[v] = "close" /\ req[v].kind = "g_room" BY <4>2 DEF InTransaction
      <4>4. tx[v].ins = {Store!RoomRow(req[v].room, Store!GROUP, 0), OwnerRow(req[v])}
        BY <3>1, <4>3 DEF WorkerTable, Local, CreateOK
      <4> QED BY <4>2, <4>4 DEF NoTx
    <3>3. NothingPending(pc[v], req[v].kind)
      BY <3>2, Known DEF WorkerOK, InTransaction, NothingPending, Place
    <3>4. tx'[v] = tx[v] BY <1>1, <3>3, Known DEF WorkerOK
    <3> QED BY <1>1, <2>1, <3>1, <3>2, <3>4 DEF WorkerTable, RoomRows, MemberRows, MessageRows
  <2> QED BY <1>2, <2>1, <2>2, QuietTables
<1> QED BY <1>3, <1>4


\* A worker with nothing pending finds the committed rows.
LEMMA ViewRows ==
  ASSUME NEW v \in Workers, tx[v] = NoTx, NEW r, r \notin torn
  PROVE  /\ Store!In(View(v), "rooms", r) = RoomRows(r)
         /\ Store!In(View(v), "room_members", r) = MemberRows(r)
         /\ Store!In(View(v), "messages", r) = MessageRows(r)
<1>1. View(v) = db BY DEF View, NoTx
<1> QED BY <1>1 DEF Store!In, RoomRows, MemberRows, MessageRows, Rows

\* A room has one row.
LEMMA OneRow ==
  ASSUME Store!Inv, NEW r, NEW x \in RoomRows(r)
  PROVE  RoomRows(r) = {x} /\ x \in Rows /\ x.table = "rooms" /\ x.room = r
<1>1. \A y \in RoomRows(r) : y \in Rows /\ y.table = "rooms" /\ y.room = r
  BY DEF RoomRows, Store!In
<1>2. \A y \in RoomRows(r) : y = x BY <1>1 DEF Store!Inv, Store!RoomOnce, Rows
<1> QED BY <1>1, <1>2

\* A check changes no table and leaves the worker with what it found.
LEMMA CheckTables ==
  ASSUME TypeInv, TypeInv', TableInv, NEW v \in Workers, OnlyWorker(v), Check(v)
  PROVE  Simulated
<1> DEFINE q == req[v]
           r == req[v].room
           p == AfterCheck(req[v].kind)
<1>1. CASE ~Allowed(v) BY <1>1, LeaveTables DEF Check
<1>2. CASE Allowed(v)
  <2>1. /\ pc[v] = "check" /\ pc'[v] = p /\ req'[v] = req[v] /\ db' = db /\ torn' = torn
        /\ auto'[v] = (auto[v] \/ ~live[v]) /\ live'[v] = TRUE
    BY <1>2 DEF Check, Goto, Query, TypeInv, TypeOK
  <2>2. q.kind \in {"message", "delete", "invite"} BY <2>1, KindAt
  <2>3. tx[v] = NoTx BY <2>1, Known DEF WorkerOK, NothingPending
  <2>4. Rows' = Rows BY <2>1 DEF Rows
  <2>5. ASSUME r \notin torn
        PROVE  /\ q.kind = "message" => SenderIn(q, MemberRows(r))
               /\ q.kind = "delete" => OwnerRow(q) \in MemberRows(r)
               /\ q.kind = "invite" => \E x \in RoomRows(r) : x.key = Store!GROUP
    <3>1. /\ Store!In(View(v), "rooms", r) = RoomRows(r)
          /\ Store!In(View(v), "room_members", r) = MemberRows(r)
      BY <2>3, <2>5, ViewRows
    <3>2. CASE q.kind = "message" BY <1>2, <3>1, <3>2 DEF Allowed, SenderIn
    <3>3. CASE q.kind = "delete"
      <4>1. OwnerRow(q) \in View(v) BY <1>2, <3>3 DEF Allowed, OwnerRow
      <4>2. OwnerRow(q).table = "room_members" /\ OwnerRow(q).room = r
        BY Store!Columns DEF OwnerRow
      <4>3. OwnerRow(q) \in Store!In(View(v), "room_members", r) BY <4>1, <4>2 DEF Store!In
      <4> QED BY <3>1, <3>3, <4>3
    <3>4. CASE q.kind = "invite" BY <1>2, <3>1, <3>4 DEF Allowed
    <3> QED BY <2>2, <3>2, <3>3, <3>4
  <2>6. r \notin torn => \E x \in Rows : x.room = r
    BY <2>2, <2>5 DEF SenderIn, RoomRows, MemberRows, Store!In
  <2>7. /\ ~Creating(p, q.kind) /\ ~Sending(p, q.kind)
        /\ InTransaction(p, q.kind) => InTransaction("check", q.kind)
    BY <2>2 DEF AfterCheck, Creating, Sending, InTransaction
  <2>8. RoomFresh' /\ MsgFresh'
    <3>1. ASSUME NEW w \in Workers \ {v}, req[w].room \notin torn, Creating(pc[w], req[w].kind),
                 r = req[w].room
          PROVE  FALSE
      BY <2>6, <3>1 DEF TableInv, WorkerTable
    <3> HIDE DEF p
    <3> QED BY <2>1, <2>7, <3>1, FreshStep
  <2>9. WorkerTable(v)'
    <3> SUFFICES ASSUME r \notin torn PROVE WorkerTable(v)' BY <2>1 DEF WorkerTable
    <3>1. InTransaction("check", q.kind) => live[v] /\ ~auto[v] BY <2>1 DEF TableInv, WorkerTable
    <3>2. Local(p, q, tx'[v], RoomRows(r), MemberRows(r), MessageRows(r))
      <4>1. CASE q.kind = "message"
        <5>1. p = "insert_message" BY <4>1 DEF AfterCheck
        <5> QED BY <2>5, <4>1, <5>1 DEF Local, CreateOK, MessageOK, DeleteOK, InviteOK
      <4>2. CASE q.kind = "delete"
        <5>1. p = "delete_members" BY <4>2 DEF AfterCheck
        <5> QED BY <2>5, <4>2, <5>1 DEF Local, CreateOK, MessageOK, DeleteOK, InviteOK
      <4>3. CASE q.kind = "invite"
        <5>1. p = "insert_member" BY <4>3 DEF AfterCheck
        <5>2. \A x \in RoomRows(r) : x.key = Store!GROUP BY <2>5, <4>3, OneRow DEF TableInv
        <5> QED BY <5>1, <5>2 DEF Local, CreateOK, MessageOK, DeleteOK, InviteOK
      <4> QED BY <2>2, <4>1, <4>2, <4>3
    <3> HIDE DEF p
    <3>3. InTransaction(p, q.kind) => live'[v] /\ ~auto'[v] BY <2>1, <2>7, <3>1
    <3> QED BY <2>1, <2>4, <2>7, <3>2, <3>3 DEF WorkerTable, RoomRows, MemberRows, MessageRows
  <2> QED BY <2>1, <2>4, <2>8, <2>9, QuietTables
<1> QED BY <1>1, <1>2

\* An announcement changes no table.
LEMMA BroadcastTables ==
  ASSUME TypeInv, TypeInv', TableInv, NEW v \in Workers, OnlyWorker(v), Broadcast(v)
  PROVE  Simulated
<1>1. /\ pc[v] = "broadcast" /\ pc'[v] = "close" /\ UNCHANGED <<db, tx, req, torn>>
  BY DEF Broadcast, Goto, connVars, TypeInv, TypeOK
<1>2. req[v].kind = "message" BY <1>1, KindAt
<1>3. ~Creating("close", "message") /\ ~Sending("close", "message") /\ ~InTransaction("close", "message")
  BY DEF Creating, Sending, InTransaction
<1>4. Rows' = Rows BY <1>1 DEF Rows
<1>5. RoomFresh' /\ MsgFresh' BY <1>1, <1>2, <1>3, ContinueFresh
<1>6. WorkerTable(v)'
  <2> SUFFICES ASSUME req[v].room \notin torn PROVE WorkerTable(v)' BY <1>1 DEF WorkerTable
  <2> DEFINE S == MessageRows(req[v].room)
  <2>1. SentRow(req[v]) \in S BY <1>1, <1>2 DEF TableInv, WorkerTable, Local, MessageOK
  <2>2. Local("close", req[v], tx[v], RoomRows(req[v].room), MemberRows(req[v].room), S)
    BY <1>2, <2>1 DEF Local, CreateOK, MessageOK, DeleteOK, InviteOK
  <2> QED BY <1>1, <1>2, <1>3, <1>4, <2>2 DEF WorkerTable, RoomRows, MemberRows, MessageRows
<1> QED BY <1>1, <1>4, <1>5, <1>6, QuietTables

\* A statement inside a transaction leaves the tables alone, unless the room is lost.
LEMMA StatementQuiet ==
  ASSUME TypeInv, TypeInv', TableInv, NEW v \in Workers, OnlyWorker(v), NEW ins, NEW del,
         Execute(v, ins, del), \A x \in ins \cup del : x.room = req[v].room, torn' = torn,
         InTransaction(pc[v], req[v].kind)
  PROVE  /\ Rows' = Rows
         /\ req[v].room \notin torn =>
              /\ live'[v] /\ ~auto'[v]
              /\ tx'[v] = [ins |-> (tx[v].ins \ del) \cup ins, del |-> tx[v].del \cup del]
<1>1. CASE req[v].room \in torn BY <1>1 DEF Execute, Rows
<1>2. CASE req[v].room \notin torn
  <2>1. live[v] /\ ~auto[v] BY <1>2 DEF TableInv, WorkerTable
  <2> QED BY <1>2, <2>1 DEF Execute, Rows, TypeInv, TypeOK
<1> QED BY <1>1, <1>2


\* A statement inside a transaction changes no table until the commit.
LEMMA StatementTables ==
  ASSUME TypeInv, TypeInv', TableInv, NEW v \in Workers, OnlyWorker(v), NEW ins, NEW del,
         Execute(v, ins, del), \A x \in ins \cup del : x.room = req[v].room, torn' = torn,
         InTransaction(pc[v], req[v].kind), NEW p, pc'[v] = p, req'[v] = req[v], pc[v] # "check",
         Creating(p, req[v].kind) => Creating(pc[v], req[v].kind),
         Sending(p, req[v].kind) => Sending(pc[v], req[v].kind),
         req[v].room \notin torn =>
           Local(p, req[v], [ins |-> (tx[v].ins \ del) \cup ins, del |-> tx[v].del \cup del],
                 RoomRows(req[v].room), MemberRows(req[v].room), MessageRows(req[v].room))
  PROVE  Simulated
<1> DEFINE r == req[v].room
           t == [ins |-> (tx[v].ins \ del) \cup ins, del |-> tx[v].del \cup del]
<1>1. /\ Rows' = Rows
      /\ r \notin torn => live'[v] /\ ~auto'[v] /\ tx'[v] = t
  BY StatementQuiet
<1>2. pc[v] \notin {"begin", "check"} BY KindAt DEF InTransaction
<1>3. RoomFresh' /\ MsgFresh' BY <1>2, ContinueFresh
<1>4. WorkerTable(v)'
  <2> SUFFICES ASSUME r \notin torn PROVE WorkerTable(v)' BY DEF WorkerTable
  <2>1. Local(p, req[v], t, RoomRows(r), MemberRows(r), MessageRows(r)) OBVIOUS
  <2> HIDE DEF t
  <2>2. WorkerTable(v) BY DEF TableInv
  <2> QED BY <1>1, <2>1, <2>2 DEF WorkerTable, RoomRows, MemberRows, MessageRows
<1> QED BY <1>1, <1>3, <1>4, QuietTables

\* INSERT INTO rooms, inside the transaction.
LEMMA InsertRoomTables ==
  ASSUME TypeInv, TypeInv', TableInv, NEW v \in Workers, OnlyWorker(v), InsertRoom(v)
  PROVE  Simulated
<1> DEFINE q == req[v]
           ins == {Store!RoomRow(q.room, RoomType(q.kind), 0)}
<1>1. /\ pc[v] = "insert_room" /\ pc'[v] = "insert_members" /\ Execute(v, ins, {})
      /\ req' = req /\ torn' = torn
  BY DEF InsertRoom, Goto, TypeInv, TypeOK
<1>2. q.kind \in {"g_room", "p_room"} BY <1>1, KindAt
<1>3. tx[v].ins = {} /\ tx[v].del = {}
  <2>1. tx[v] = NoTx BY <1>1, Known DEF WorkerOK, NothingPending
  <2> QED BY <2>1 DEF NoTx
<1>4. \A x \in ins \cup {} : x.room = q.room BY Store!Columns
<1> HIDE DEF ins
<1>5. [ins |-> (tx[v].ins \ {}) \cup ins, del |-> tx[v].del \cup {}] = [ins |-> ins, del |-> {}]
  BY <1>3
<1>6. \A R, M, S : Local("insert_members", q, [ins |-> ins, del |-> {}], R, M, S)
  BY DEF Local, CreateOK, MessageOK, DeleteOK, InviteOK, ins
<1>7. /\ InTransaction(pc[v], q.kind) /\ Creating(pc[v], q.kind) /\ ~Sending("insert_members", q.kind)
  BY <1>1, <1>2 DEF InTransaction, Creating, Sending
<1> QED BY <1>1, <1>4, <1>5, <1>6, <1>7, StatementTables

\* INSERT INTO room_members of the first members, inside the transaction.
LEMMA InsertMembersTables ==
  ASSUME TypeInv, TypeInv', TableInv, NEW v \in Workers, OnlyWorker(v), InsertMembers(v)
  PROVE  Simulated
<1> DEFINE q == req[v]
           row == Store!RoomRow(q.room, RoomType(q.kind), 0)
<1>1. pc[v] = "insert_members" /\ req' = req /\ torn' = torn BY DEF InsertMembers
<1>2. q.room \notin torn => tx[v].ins = {row} /\ tx[v].del = {}
  <2> HIDE DEF row
  <2>1. q.room \notin torn => tx[v] = [ins |-> {row}, del |-> {}]
    BY <1>1 DEF TableInv, WorkerTable, Local, CreateOK, row
  <2> QED BY <2>1
<1>3. CASE q.kind = "g_room"
  <2> DEFINE ins == {OwnerRow(q)}
  <2>1. pc'[v] = "close" /\ Execute(v, ins, {})
    BY <1>3 DEF InsertMembers, OwnerRow, Goto, TypeInv, TypeOK
  <2>2. \A x \in ins \cup {} : x.room = q.room BY Store!Columns DEF OwnerRow
  <2>3. row = Store!RoomRow(q.room, Store!GROUP, 0) BY <1>3 DEF RoomType
  <2> HIDE DEF row, ins
  <2>4. q.room \notin torn =>
          [ins |-> (tx[v].ins \ {}) \cup ins, del |-> tx[v].del \cup {}] = [ins |-> {row} \cup ins, del |-> {}]
    BY <1>2
  <2>5. {row} \cup ins = {Store!RoomRow(q.room, Store!GROUP, 0), OwnerRow(q)} BY <2>3 DEF ins
  <2>6. \A R, M, S : Local("close", q, [ins |-> {row} \cup ins, del |-> {}], R, M, S)
    BY <1>3, <2>5 DEF Local, CreateOK, MessageOK, DeleteOK, InviteOK
  <2>7. /\ InTransaction(pc[v], q.kind) /\ Creating(pc[v], q.kind) /\ ~Sending("close", q.kind)
    BY <1>1, <1>3 DEF InTransaction, Creating, Sending
  <2> QED BY <1>1, <2>1, <2>2, <2>4, <2>6, <2>7, StatementTables
<1>4. CASE q.kind = "p_room"
  <2> DEFINE ins == PairRows(q)
  <2>1. pc'[v] = "commit" /\ Execute(v, ins, {}) /\ q.user # q.other
    BY <1>4 DEF InsertMembers, PairRows, Goto, TypeInv, TypeOK
  <2>2. \A x \in ins \cup {} : x.room = q.room BY Store!Columns DEF PairRows
  <2>3. row = Store!RoomRow(q.room, Store!PRIVATE, 0) BY <1>4 DEF RoomType
  <2> HIDE DEF row, ins
  <2>4. q.room \notin torn =>
          [ins |-> (tx[v].ins \ {}) \cup ins, del |-> tx[v].del \cup {}] = [ins |-> {row} \cup ins, del |-> {}]
    BY <1>2
  <2>5. {row} \cup ins = {Store!RoomRow(q.room, Store!PRIVATE, 0)} \cup PairRows(q) BY <2>3 DEF ins
  <2>6. \A R, M, S : Local("commit", q, [ins |-> {row} \cup ins, del |-> {}], R, M, S)
    BY <1>4, <2>1, <2>5 DEF Local, CreateOK, MessageOK, DeleteOK, InviteOK
  <2>7. /\ InTransaction(pc[v], q.kind) /\ Creating(pc[v], q.kind) /\ ~Sending("commit", q.kind)
    BY <1>1, <1>4 DEF InTransaction, Creating, Sending
  <2> QED BY <1>1, <2>1, <2>2, <2>4, <2>6, <2>7, StatementTables
<1> QED BY <1>3, <1>4 DEF InsertMembers

\* UPDATE rooms SET last_message_id, inside the transaction.
LEMMA UpdateRoomTables ==
  ASSUME TypeInv, TypeInv', TableInv, NEW v \in Workers, OnlyWorker(v), UpdateRoom(v)
  PROVE  Simulated
<1> DEFINE q == req[v]
           r == req[v].room
<1>1. pc[v] = "update_room" /\ pc'[v] = "commit" /\ req' = req /\ torn' = torn
  BY DEF UpdateRoom, Goto, TypeInv, TypeOK
<1>2. PICK x \in Store!In(View(v), "rooms", r) : Execute(v, {Store!RoomRow(r, x.key, q.msg)}, {x})
  BY DEF UpdateRoom
<1>3. q.kind = "message" BY <1>1, KindAt
<1> DEFINE n == Store!RoomRow(r, x.key, q.msg)
           m == SentRow(q)
<1>4. n.room = r /\ x.room = r /\ x.table = "rooms" /\ m.table = "messages"
  BY Store!Columns DEF Store!In, SentRow
<1> HIDE DEF n, m
<1>5. ASSUME r \notin torn
      PROVE  Local("commit", q, [ins |-> (tx[v].ins \ {x}) \cup {n}, del |-> tx[v].del \cup {x}],
                   RoomRows(r), MemberRows(r), MessageRows(r))
  <2>1. /\ tx[v].ins = {m} /\ tx[v].del = {}
        /\ RoomRows(r) = {} \/ SenderIn(q, MemberRows(r))
    <3>1. tx[v] = [ins |-> {m}, del |-> {}] /\ (RoomRows(r) = {} \/ SenderIn(q, MemberRows(r)))
      BY <1>1, <1>5 DEF TableInv, WorkerTable, Local, MessageOK, m
    <3> QED BY <3>1
  <2>2. x \in RoomRows(r)
    <3>1. x \in db BY <1>4, <2>1 DEF View, Store!In
    <3> QED BY <1>4, <1>5, <3>1 DEF RoomRows, Rows, Store!In
  <2>3. SenderIn(q, MemberRows(r)) BY <2>1, <2>2
  <2>4. [ins |-> (tx[v].ins \ {x}) \cup {n}, del |-> tx[v].del \cup {x}] = [ins |-> {m, n}, del |-> {x}]
    <3>1. m # x BY <1>4
    <3>2. (tx[v].ins \ {x}) \cup {n} = {m, n} BY <2>1, <3>1
    <3>3. tx[v].del \cup {x} = {x} BY <2>1
    <3> QED BY <3>2, <3>3
  <2>5. MessageOK("commit", q, [ins |-> {m, n}, del |-> {x}], RoomRows(r), MemberRows(r), MessageRows(r))
    BY <2>2, <2>3 DEF MessageOK, m, n
  <2> QED BY <1>3, <2>4, <2>5 DEF Local, CreateOK, DeleteOK, InviteOK
<1>6. /\ InTransaction(pc[v], q.kind) /\ ~Creating("commit", q.kind) /\ Sending(pc[v], q.kind)
  BY <1>1, <1>3 DEF InTransaction, Creating, Sending
<1>7. Execute(v, {n}, {x}) BY <1>2 DEF n
<1>8. \A y \in {n} \cup {x} : y.room = r BY <1>4
<1> QED BY <1>1, <1>5, <1>6, <1>7, <1>8, StatementTables


\* DELETE FROM room_members, inside the transaction.
LEMMA DeleteMembersTables ==
  ASSUME TypeInv, TypeInv', TableInv, NEW v \in Workers, OnlyWorker(v), DeleteMembers(v)
  PROVE  Simulated
<1> DEFINE q == req[v]
           r == req[v].room
           del == Store!In(View(v), "room_members", r)
<1>1. /\ pc[v] = "delete_members" /\ pc'[v] = "delete_room" /\ Execute(v, {}, del)
      /\ req' = req /\ torn' = torn
  BY DEF DeleteMembers, Goto, TypeInv, TypeOK
<1>2. q.kind = "delete" BY <1>1, KindAt
<1>3. tx[v] = NoTx BY <1>1, Known DEF WorkerOK, NothingPending
<1>4. \A x \in {} \cup del : x.room = r BY DEF Store!In
<1>5. r \notin torn => del = MemberRows(r) BY <1>3, ViewRows
<1> HIDE DEF del
<1>6. [ins |-> (tx[v].ins \ del) \cup {}, del |-> tx[v].del \cup del] = [ins |-> {}, del |-> del]
  BY <1>3 DEF NoTx
<1>7. r \notin torn =>
        Local("delete_room", q, [ins |-> {}, del |-> del], RoomRows(r), MemberRows(r), MessageRows(r))
  <2> SUFFICES ASSUME r \notin torn
               PROVE  DeleteOK("delete_room", q, [ins |-> {}, del |-> del], RoomRows(r), MemberRows(r))
    BY <1>2 DEF Local, CreateOK, MessageOK, InviteOK
  <2>1. RoomRows(r) = {} \/ OwnerRow(q) \in MemberRows(r)
    BY <1>1 DEF TableInv, WorkerTable, Local, DeleteOK
  <2> QED BY <1>2, <1>5, <2>1 DEF DeleteOK
<1>8. /\ InTransaction(pc[v], q.kind) /\ ~Creating("delete_room", q.kind)
      /\ ~Sending("delete_room", q.kind)
  BY <1>1, <1>2 DEF InTransaction, Creating, Sending
<1> QED BY <1>1, <1>4, <1>6, <1>7, <1>8, StatementTables

\* DELETE FROM rooms, inside the transaction.
LEMMA DeleteRoomTables ==
  ASSUME TypeInv, TypeInv', TableInv, NEW v \in Workers, OnlyWorker(v), DeleteRoom(v)
  PROVE  Simulated
<1> DEFINE q == req[v]
           r == req[v].room
           del == Store!In(View(v), "rooms", r)
           t == [ins |-> (tx[v].ins \ del) \cup {}, del |-> tx[v].del \cup del]
<1>1. /\ pc[v] = "delete_room" /\ pc'[v] = "commit" /\ Execute(v, {}, del) /\ del # {}
      /\ req' = req /\ torn' = torn
  BY DEF DeleteRoom, Goto, TypeInv, TypeOK
<1>2. q.kind = "delete" BY <1>1, KindAt
<1>3. \A x \in {} \cup del : x.room = r BY DEF Store!In
<1>4. r \notin torn => Local("commit", q, t, RoomRows(r), MemberRows(r), MessageRows(r))
  <2> SUFFICES ASSUME r \notin torn
               PROVE  DeleteOK("commit", q, t, RoomRows(r), MemberRows(r))
    BY <1>2 DEF Local, CreateOK, MessageOK, InviteOK
  <2>1. /\ tx[v].ins = {} /\ tx[v].del \subseteq MemberRows(r)
        /\ RoomRows(r) = {} \/ (/\ OwnerRow(q) \in tx[v].del
                                /\ \A y \in MemberRows(r) \ tx[v].del : y.val = Store!MEMBER)
    BY <1>1 DEF TableInv, WorkerTable, Local, DeleteOK
  <2>2. del = RoomRows(r)
    BY <2>1 DEF RoomRows, MemberRows, Rows, View, Store!In
  <2>3. PICK x : x \in RoomRows(r) BY <1>1, <2>2
  <2>4. del = {x} BY <2>2, <2>3, OneRow DEF TableInv
  <2> HIDE DEF del
  <2>5. t.ins = {} /\ t.del = tx[v].del \cup {x} BY <2>1, <2>4
  <2> HIDE DEF t
  <2>6. RoomRows(r) # {} BY <2>3
  <2> QED BY <1>2, <2>1, <2>3, <2>5, <2>6 DEF DeleteOK
<1>5. /\ InTransaction(pc[v], q.kind) /\ ~Creating("commit", q.kind) /\ ~Sending("commit", q.kind)
  BY <1>1, <1>2 DEF InTransaction, Creating, Sending
<1> HIDE DEF del
<1> QED BY <1>1, <1>3, <1>4, <1>5, StatementTables

\* INSERT INTO messages with a new id, inside the transaction.
LEMMA InsertMessageTables ==
  ASSUME TypeInv, TypeInv', TableInv, NEW v \in Workers, OnlyWorker(v), InsertMessage(v)
  PROVE  Simulated
<1> DEFINE q == req[v]
           r == req[v].room
           row == Store!MessageRow(r, ids + 1, q.user)
<1>1. /\ pc[v] = "insert_message" /\ pc'[v] = "update_room" /\ Execute(v, {row}, {}) /\ torn' = torn
  BY DEF InsertMessage, Goto, TypeInv, TypeOK
<1>2. /\ req'[v].kind = q.kind /\ req'[v].room = r /\ req'[v].user = q.user /\ req'[v].msg = ids + 1
  BY DEF InsertMessage, TypeInv, TypeOK, Req
<1>3. q.kind = "message" BY <1>1, KindAt
<1>4. tx[v] = NoTx BY <1>1, Known DEF WorkerOK, NothingPending
<1>5. \A x \in {row} \cup {} : x.room = r BY Store!Columns
<1>6. SentRow(req'[v]) = row BY <1>2 DEF SentRow
<1> HIDE DEF row
<1>7. ids \in Nat BY KnownBounds
<1>8. /\ InTransaction(pc[v], q.kind) /\ ~Creating("update_room", q.kind)
  BY <1>1, <1>3 DEF InTransaction, Creating
<1>9. RoomFresh' /\ MsgFresh'
  <2>1. \A w \in Workers \ {v} :
          req[w].room \notin torn /\ Creating(pc[w], req[w].kind) /\ r = req[w].room => FALSE
    BY <1>1 DEF TableInv, RoomFresh
  <2>2. ids < req'[v].msg /\ req'[v].msg # 0 BY <1>2, <1>7
  <2> QED BY <1>1, <1>2, <1>8, <2>1, <2>2, FreshStep
<1>10. Rows' = Rows BY <1>1, <1>5, <1>8, StatementQuiet
<1>11. WorkerTable(v)'
  <2> SUFFICES ASSUME r \notin torn PROVE WorkerTable(v)' BY <1>1, <1>2 DEF WorkerTable
  <2>1. /\ live'[v] /\ ~auto'[v]
        /\ tx'[v] = [ins |-> (tx[v].ins \ {}) \cup {row}, del |-> tx[v].del \cup {}]
    BY <1>1, <1>5, <1>8, StatementQuiet
  <2>2. tx'[v] = [ins |-> {row}, del |-> {}] BY <1>4, <2>1 DEF NoTx
  <2>3. RoomRows(r) = {} \/ SenderIn(q, MemberRows(r))
    BY <1>1 DEF TableInv, WorkerTable, Local, MessageOK
  <2>4. RoomRows(r) = {} \/ SenderIn(req'[v], MemberRows(r)) BY <1>2, <2>3 DEF SenderIn
  <2>5. Local("update_room", req'[v], tx'[v], RoomRows(r), MemberRows(r), MessageRows(r))
    BY <1>6, <2>2, <2>4 DEF Local, CreateOK, MessageOK, DeleteOK, InviteOK
  <2>6. \A x \in Rows : x.table = "messages" => x.key # ids + 1
    <3>1. \A x \in Rows : x.table = "messages" => x.key \in Nat /\ x.key <= ids
      BY DEF Rows, TypeInv, TypeOK, DbOK, Row
    <3> QED BY <1>7, <3>1
  <2> QED BY <1>1, <1>2, <1>8, <1>10, <2>1, <2>5, <2>6 DEF WorkerTable, RoomRows, MemberRows, MessageRows
<1> QED BY <1>1, <1>9, <1>10, <1>11, QuietTables


\* What a commit does, as a step of ChatStore and for the other workers in the room.
LEMMA CreateTables ==
  ASSUME TypeInv, TableInv, NEW v \in Workers, OnlyWorker(v), torn' = torn,
         NEW r \in 1..MaxRequests, r = req[v].room, r \notin torn, Creating(pc[v], req[v].kind),
         NEW type \in {Store!GROUP, Store!PRIVATE}, NEW first \in Store!FirstMembers(r, type),
         \A y \in first : y.table = "room_members" /\ y.room = r,
         Rows' = Rows \cup {Store!RoomRow(r, type, 0)} \cup first,
         WorkerTable(v)', RoomFresh', MsgFresh'
  PROVE  Simulated
<1> DEFINE x == Store!RoomRow(r, type, 0)
<1>1. x.table = "rooms" /\ x.room = r BY Store!Columns
<1>2. \A y \in Rows : y.room # r BY DEF TableInv, WorkerTable
<1>3. [Store!Next]_(Store!vars)
  <2>1. Store!Create(r) BY <1>2 DEF Store!Create, Rows
  <2> QED BY <2>1 DEF Store!Next
<1>4. Rows' = Rows \cup {x} \cup first OBVIOUS
<1> HIDE DEF x
<1>5. \A y \in Rows' : y.table = "messages" => y \in Rows \/ y.key = req[v].msg BY <1>1, <1>4
<1>6. ASSUME NEW w \in Workers \ {v} PROVE WorkerTable(w)'
  <2>1. CASE req[w].room = r
    <3>1. pc[w] \in {"begin", "check"} BY <2>1 DEF TableInv, RoomFresh
    <3>2. pc[v] \notin {"begin", "check"} BY DEF Creating
    <3> QED BY <1>5, <2>1, <3>1, <3>2, LocalEarly, OtherLocal
  <2>2. CASE req[w].room # r
    <3>1. \A y : y.room = req[w].room => (y \in Rows' <=> y \in Rows) BY <1>1, <1>4, <2>2
    <3> QED BY <1>5, <3>1, OtherSame
  <2> QED BY <2>1, <2>2
<1> QED BY <1>3, <1>6 DEF Simulated

\* A message and the last_message_id of its room come into the tables together.
LEMMA PostTables ==
  ASSUME TypeInv, TableInv, NEW v \in Workers, OnlyWorker(v), torn' = torn,
         NEW r \in 1..MaxRequests, r = req[v].room, r \notin torn, pc[v] = "commit",
         req[v].msg \in 1..MaxRequests, \A y \in Rows : y.table = "messages" => y.key # req[v].msg,
         NEW x \in RoomRows(r), NEW member \in MemberRows(r),
         Rows' = (Rows \ {x}) \cup {Store!RoomRow(r, x.key, req[v].msg),
                                    Store!MessageRow(r, req[v].msg, member.key)},
         \A w \in Workers \ {v} : \A y \in tx[w].ins \cup tx[w].del : ~SameKey(x, y),
         WorkerTable(v)', RoomFresh', MsgFresh'
  PROVE  Simulated
<1> DEFINE n == Store!RoomRow(r, x.key, req[v].msg)
           m == Store!MessageRow(r, req[v].msg, member.key)
<1>1. /\ n.table = "rooms" /\ n.room = r /\ n.key = x.key
      /\ m.table = "messages" /\ m.room = r /\ m.key = req[v].msg
  BY Store!Columns
<1>2. [Store!Next]_(Store!vars)
  <2>1. PICK id \in 1..MaxRequests : id = req[v].msg OBVIOUS
  <2>2. Store!Post(r, id) BY <2>1 DEF Store!Post, Rows, RoomRows, MemberRows
  <2> QED BY <2>2 DEF Store!Next
<1>3. Rows' = (Rows \ {x}) \cup {n, m} OBVIOUS
<1> HIDE DEF n, m
<1>4. x \in Rows /\ x.table = "rooms" /\ x.room = r BY DEF RoomRows, Store!In
<1>5. \A y \in Rows' : y.table = "messages" => y \in Rows \/ y.key = req[v].msg BY <1>1, <1>3
<1>6. ASSUME NEW w \in Workers \ {v} PROVE WorkerTable(w)'
  <2>1. CASE req[w].room = r
    <3>1. Store!In(Rows', "rooms", r) = (RoomRows(r) \ {x}) \cup {n}
      BY <1>1, <1>3, <1>4 DEF Store!In, RoomRows
    <3>2. Store!In(Rows', "room_members", r) = MemberRows(r)
      BY <1>1, <1>3, <1>4 DEF Store!In, MemberRows
    <3>3. MessageRows(r) \subseteq Store!In(Rows', "messages", r)
      BY <1>1, <1>3, <1>4 DEF Store!In, MessageRows
    <3>4. \A y \in RoomRows(r) : y.table = "rooms" BY DEF RoomRows, Store!In
    <3>5. \A y \in tx[w].ins \cup tx[w].del : y.table # "rooms"
      <4>1. \A y \in tx[w].ins \cup tx[w].del : y.room = r BY <2>1, Known DEF WorkerOK
      <4> QED BY <1>4, <4>1 DEF SameKey
    <3>6. Local(pc[w], req[w], tx[w], RoomRows(r), MemberRows(r), MessageRows(r))
      BY <2>1 DEF TableInv, WorkerTable
    <3>7. Local(pc[w], req[w], tx[w], (RoomRows(r) \ {x}) \cup {n}, MemberRows(r),
                Store!In(Rows', "messages", r))
      BY <1>1, <3>3, <3>4, <3>5, <3>6, LocalPost
    <3> QED BY <1>5, <2>1, <3>1, <3>2, <3>7, OtherLocal
  <2>2. CASE req[w].room # r
    <3>1. \A y : y.room = req[w].room => (y \in Rows' <=> y \in Rows) BY <1>1, <1>3, <1>4, <2>2
    <3> QED BY <1>5, <3>1, OtherSame
  <2> QED BY <2>1, <2>2
<1> QED BY <1>2, <1>6 DEF Simulated

\* A member is added to a group.
LEMMA InviteTables ==
  ASSUME TypeInv, TableInv, NEW v \in Workers, OnlyWorker(v), torn' = torn,
         NEW r \in 1..MaxRequests, r = req[v].room, r \notin torn, pc[v] = "insert_member",
         NEW u \in Users, \A x \in RoomRows(r) : x.key = Store!GROUP,
         \A x \in MemberRows(r) : x.key # u,
         Rows' = Rows \cup {Store!MemberRow(r, u, Store!MEMBER)},
         WorkerTable(v)', RoomFresh', MsgFresh'
  PROVE  Simulated
<1> DEFINE n == Store!MemberRow(r, u, Store!MEMBER)
<1>1. n.table = "room_members" /\ n.room = r /\ n.val = Store!MEMBER BY Store!Columns
<1>2. [Store!Next]_(Store!vars)
  <2>1. Store!Invite(r, u) BY DEF Store!Invite, Rows, RoomRows, MemberRows
  <2> QED BY <2>1 DEF Store!Next
<1>3. Rows' = Rows \cup {n} OBVIOUS
<1> HIDE DEF n
<1>4. \A y \in Rows' : y.table = "messages" => y \in Rows \/ y.key = req[v].msg BY <1>1, <1>3
<1>5. ASSUME NEW w \in Workers \ {v} PROVE WorkerTable(w)'
  <2>1. CASE req[w].room = r
    <3>1. Store!In(Rows', "rooms", r) = RoomRows(r) BY <1>1, <1>3 DEF Store!In, RoomRows
    <3>2. Store!In(Rows', "room_members", r) = MemberRows(r) \cup {n}
      BY <1>1, <1>3 DEF Store!In, MemberRows
    <3>3. Store!In(Rows', "messages", r) = MessageRows(r) BY <1>1, <1>3 DEF Store!In, MessageRows
    <3>4. Local(pc[w], req[w], tx[w], RoomRows(r), MemberRows(r), MessageRows(r))
      BY <2>1 DEF TableInv, WorkerTable
    <3>5. Local(pc[w], req[w], tx[w], RoomRows(r), MemberRows(r) \cup {n}, MessageRows(r))
      BY <1>1, <3>4, LocalInvite
    <3> QED BY <1>4, <2>1, <3>1, <3>2, <3>3, <3>5, OtherLocal
  <2>2. CASE req[w].room # r
    <3>1. \A y : y.room = req[w].room => (y \in Rows' <=> y \in Rows) BY <1>1, <1>3, <2>2
    <3> QED BY <1>4, <3>1, OtherSame
  <2> QED BY <2>1, <2>2
<1> QED BY <1>2, <1>5 DEF Simulated

\* A group and the members the transaction saw go together.
LEMMA DeleteTables ==
  ASSUME TypeInv, TableInv, NEW v \in Workers, OnlyWorker(v), torn' = torn,
         NEW r \in 1..MaxRequests, r = req[v].room, r \notin torn, pc[v] = "commit",
         NEW x \in RoomRows(r), x.key = Store!GROUP, NEW D \in SUBSET MemberRows(r),
         \A y \in MemberRows(r) \ D : y.val = Store!MEMBER,
         Rows' = Rows \ ({x} \cup D),
         \A w \in Workers \ {v} : \A z \in {x} \cup D, y \in tx[w].ins \cup tx[w].del : ~SameKey(z, y),
         WorkerTable(v)', RoomFresh', MsgFresh'
  PROVE  Simulated
<1>1. [Store!Next]_(Store!vars)
  <2>1. Store!Delete(r) BY DEF Store!Delete, Rows, RoomRows, MemberRows
  <2> QED BY <2>1 DEF Store!Next
<1>2. RoomRows(r) = {x} /\ x.table = "rooms" /\ x.room = r BY OneRow DEF TableInv
<1>3. \A y \in D : y.table = "room_members" /\ y.room = r BY DEF MemberRows, Store!In
<1>4. \A y \in Rows' : y.table = "messages" => y \in Rows \/ y.key = req[v].msg OBVIOUS
<1>5. ASSUME NEW w \in Workers \ {v} PROVE WorkerTable(w)'
  <2>1. CASE req[w].room = r
    <3> DEFINE M2 == MemberRows(r) \ D
    <3>1. Store!In(Rows', "rooms", r) = {} BY <1>2 DEF Store!In, RoomRows
    <3>2. Store!In(Rows', "room_members", r) = M2 BY <1>2 DEF Store!In, MemberRows
    <3>3. Store!In(Rows', "messages", r) = MessageRows(r) BY <1>2, <1>3 DEF Store!In, MessageRows
    <3>4. \A y \in tx[w].ins \cup tx[w].del : y.table # "rooms" /\ (y \in MemberRows(r) => y \in M2)
      <4>1. \A y \in tx[w].ins \cup tx[w].del : y.room = r BY <2>1, Known DEF WorkerOK
      <4>2. \A y \in tx[w].ins \cup tx[w].del : y.table # "rooms" BY <1>2, <4>1 DEF SameKey
      <4>3. \A y \in tx[w].ins \cup tx[w].del : y \notin D BY DEF SameKey
      <4> QED BY <4>2, <4>3
    <3>5. Local(pc[w], req[w], tx[w], RoomRows(r), MemberRows(r), MessageRows(r))
      BY <2>1 DEF TableInv, WorkerTable
    <3>6. M2 \in SUBSET MemberRows(r) OBVIOUS
    <3> HIDE DEF M2
    <3>7. Local(pc[w], req[w], tx[w], {}, M2, MessageRows(r))
      BY <1>2, <3>4, <3>5, <3>6, LocalDelete
    <3> QED BY <1>4, <2>1, <3>1, <3>2, <3>3, <3>7, OtherLocal
  <2>2. CASE req[w].room # r
    <3>1. \A y : y.room = req[w].room => (y \in Rows' <=> y \in Rows) BY <1>2, <1>3, <2>2
    <3> QED BY <1>4, <3>1, OtherSame
  <2> QED BY <2>1, <2>2
<1> QED BY <1>1, <1>5 DEF Simulated


\* What becomes visible of a room that is not lost, and of one that is.
LEMMA ViewCommitted ==
  ASSUME TypeInv, NEW v \in Workers, db' = View(v), torn' = torn
  PROVE  /\ req[v].room \notin torn => Rows' = (Rows \ tx[v].del) \cup tx[v].ins
         /\ req[v].room \in torn \/ tx[v] = NoTx => Rows' = Rows
<1>1. \A x \in tx[v].ins \cup tx[v].del : x.room = req[v].room BY Known DEF WorkerOK
<1>2. Rows' = {x \in (db \ tx[v].del) \cup tx[v].ins : x.room \notin torn} BY DEF Rows, View
<1>3. req[v].room \notin torn => Rows' = (Rows \ tx[v].del) \cup tx[v].ins BY <1>1, <1>2 DEF Rows
<1>4. req[v].room \in torn => Rows' = Rows BY <1>1, <1>2 DEF Rows
<1>5. tx[v] = NoTx => Rows' = Rows BY <1>2 DEF Rows, NoTx
<1> QED BY <1>3, <1>4, <1>5

\* The INSERT of invite_member, in autocommit mode.
LEMMA InsertMemberTables ==
  ASSUME TypeInv, TypeInv', TableInv, NEW v \in Workers, OnlyWorker(v), InsertMember(v)
  PROVE  Simulated
<1> DEFINE q == req[v]
           r == req[v].room
           n == Store!MemberRow(r, q.other, Store!MEMBER)
<1>1. /\ pc[v] = "insert_member" /\ pc'[v] = "close" /\ Execute(v, {n}, {}) /\ req' = req /\ torn' = torn
  BY DEF InsertMember, Goto, TypeInv, TypeOK
<1>2. q.kind = "invite" BY <1>1, KindAt
<1>3. tx[v] = NoTx /\ auto[v] BY <1>2, Known DEF WorkerOK, NothingPending
<1>4. n.room = r BY Store!Columns
<1>5. db' = db \cup {n} BY <1>1, <1>3 DEF Execute
<1>6. /\ ~Creating("close", "invite") /\ ~Sending("close", "invite") /\ ~InTransaction("close", "invite")
  BY DEF Creating, Sending, InTransaction
<1>7. RoomFresh' /\ MsgFresh' BY <1>1, <1>2, <1>6, ContinueFresh
<1>8. WorkerTable(v)'
  <2> SUFFICES ASSUME r \notin torn PROVE WorkerTable(v)' BY <1>1 DEF WorkerTable
  <2>1. n.table = "room_members" /\ InvitedRow(q) = n BY Store!Columns DEF InvitedRow
  <2> HIDE DEF n
  <2>2. n \in Store!In(Rows', "room_members", r) BY <1>1, <1>4, <1>5, <2>1 DEF Rows, Store!In
  <2>3. Local("close", q, tx'[v], Store!In(Rows', "rooms", r), Store!In(Rows', "room_members", r),
              Store!In(Rows', "messages", r))
    BY <1>2, <2>1, <2>2 DEF Local, CreateOK, MessageOK, DeleteOK, InviteOK
  <2> QED BY <1>1, <1>2, <1>6, <2>3 DEF WorkerTable, RoomRows, MemberRows, MessageRows
<1>9. CASE r \in torn
  <2>1. Rows' = Rows BY <1>1, <1>4, <1>5, <1>9 DEF Rows
  <2> QED BY <1>1, <1>7, <1>8, <2>1, QuietTables
<1>10. CASE r \notin torn
  <2>1. Rows' = Rows \cup {n} BY <1>1, <1>4, <1>5, <1>10 DEF Rows
  <2>2. \A x \in RoomRows(r) : x.key = Store!GROUP
    BY <1>1, <1>10 DEF TableInv, WorkerTable, Local, InviteOK
  <2>3. \A x \in MemberRows(r) : x.key # q.other
    <3>1. Store!In(View(v), "room_members", r) = MemberRows(r) BY <1>3, <1>10, ViewRows
    <3> QED BY <3>1 DEF InsertMember, Invited
  <2>4. r \in 1..MaxRequests /\ q.other \in Users BY <1>1, RoomKnown, Known
  <2>5. PICK s \in 1..MaxRequests, u \in Users : s = r /\ u = q.other BY <2>4
  <2>6. Rows' = Rows \cup {Store!MemberRow(s, u, Store!MEMBER)} BY <2>1, <2>5
  <2> HIDE DEF n
  <2> QED BY <1>1, <1>7, <1>8, <1>10, <2>2, <2>3, <2>5, <2>6, InviteTables
<1> QED BY <1>9, <1>10

\* The first members of a room.
LEMMA FirstOwner ==
  ASSUME NEW r, NEW u \in Users
  PROVE  {Store!MemberRow(r, u, Store!OWNER)} \in Store!FirstMembers(r, Store!GROUP)
BY DEF Store!FirstMembers

\* The two members of a private room.
LEMMA FirstPair ==
  ASSUME NEW r, NEW u \in Users, NEW o \in Users, u # o
  PROVE  {Store!MemberRow(r, x, Store!PRIVATE_MEMBER) : x \in {u, o}}
           \in Store!FirstMembers(r, Store!PRIVATE)
<1> DEFINE p == <<u, o>>
           F(x) == Store!MemberRow(r, x, Store!PRIVATE_MEMBER)
<1>1. p \in {q \in Users \X Users : q[1] # q[2]} /\ p[1] = u /\ p[2] = o OBVIOUS
<1>2. {F(x) : x \in {u, o}} = {F(p[1]), F(p[2])} BY <1>1
<1>3. Store!FirstMembers(r, Store!PRIVATE) =
        {{F(q[1]), F(q[2])} : q \in {q \in Users \X Users : q[1] # q[2]}}
  BY DEF Store!FirstMembers, Store!GROUP, Store!PRIVATE
<1> QED BY <1>1, <1>2, <1>3

\* commit() is the one step of ChatStore the request stands for.
LEMMA CommitTables ==
  ASSUME TypeInv, TypeInv', TableInv, NEW v \in Workers, OnlyWorker(v), Commit(v)
  PROVE  Simulated
<1> DEFINE q == req[v]
           r == req[v].room
           t == tx[v]
           p == IF q.kind = "message" THEN "broadcast" ELSE "close"
<1>1. /\ pc[v] = "commit" /\ pc'[v] = p /\ db' = View(v) /\ req' = req /\ torn' = torn
  BY DEF Commit, Goto, TypeInv, TypeOK
<1>2. q.kind \in {"p_room", "message", "delete"} BY <1>1, KindAt
<1>3. ~Creating(p, q.kind) /\ ~Sending(p, q.kind) /\ ~InTransaction(p, q.kind)
  BY <1>2 DEF Creating, Sending, InTransaction
<1>4. RoomFresh' /\ MsgFresh'
  <2> HIDE DEF p
  <2> QED BY <1>1, <1>3, ContinueFresh
<1>5. CASE r \in torn
  <2>1. Rows' = Rows BY <1>1, <1>5, ViewCommitted
  <2>2. WorkerTable(v)' BY <1>1, <1>5 DEF WorkerTable
  <2> QED BY <1>1, <1>4, <2>1, <2>2, QuietTables
<1>6. ASSUME r \notin torn,
             Local(p, q, tx'[v], Store!In(Rows', "rooms", r), Store!In(Rows', "room_members", r),
                   Store!In(Rows', "messages", r))
      PROVE  WorkerTable(v)'
  <2> HIDE DEF p
  <2> QED BY <1>1, <1>3, <1>6 DEF WorkerTable, RoomRows, MemberRows, MessageRows
<1>7. r \in 1..MaxRequests /\ q.user \in Users /\ q.other \in Users BY <1>1, RoomKnown, Known
<1>8. PICK s \in 1..MaxRequests : s = r BY <1>7
<1>9. r \notin torn => Rows' = (Rows \ t.del) \cup t.ins BY <1>1, ViewCommitted
<1>10. r \notin torn =>
         Local("commit", q, t, RoomRows(r), MemberRows(r), MessageRows(r))
  BY <1>1 DEF TableInv, WorkerTable
<1>11. \A w \in Workers \ {v} : \A z \in t.del, y \in tx[w].ins \cup tx[w].del : ~SameKey(z, y)
  BY DEF TypeInv, LockInv
<1>12. CASE r \notin torn /\ q.kind = "p_room"
  <2> DEFINE x == Store!RoomRow(r, Store!PRIVATE, 0)
             first == PairRows(q)
  <2>1. q.user # q.other /\ t = [ins |-> {x} \cup first, del |-> {}]
    BY <1>10, <1>12 DEF Local, CreateOK
  <2>2. x.table = "rooms" /\ x.room = r /\ x.key = Store!PRIVATE BY Store!Columns
  <2>3. \A y \in first : y.table = "room_members" /\ y.room = r BY Store!Columns DEF PairRows
  <2>4. first \in Store!FirstMembers(r, Store!PRIVATE) BY <1>7, <2>1, FirstPair DEF PairRows
  <2>5. t.ins = {x} \cup first /\ t.del = {}
    <3> HIDE DEF x, first, t
    <3> QED BY <2>1
  <2>6. Rows' = Rows \cup {x} \cup first BY <1>9, <1>12, <2>5
  <2>7. WorkerTable(v)'
    <3> HIDE DEF x
    <3>1. x \in Store!In(Rows', "rooms", r) BY <2>2, <2>6 DEF Store!In
    <3>2. PairRows(q) \subseteq Store!In(Rows', "room_members", r) BY <2>3, <2>6 DEF Store!In
    <3>3. Local("close", q, tx'[v], Store!In(Rows', "rooms", r), Store!In(Rows', "room_members", r),
                Store!In(Rows', "messages", r))
      BY <1>12, <2>2, <3>1, <3>2 DEF Local, CreateOK, MessageOK, DeleteOK, InviteOK
    <3> QED BY <1>6, <1>12, <3>3
  <2>8. Creating(pc[v], q.kind) BY <1>1, <1>12 DEF Creating
  <2>9. /\ first \in Store!FirstMembers(s, Store!PRIVATE)
        /\ Rows' = Rows \cup {Store!RoomRow(s, Store!PRIVATE, 0)} \cup first
        /\ \A y \in first : y.table = "room_members" /\ y.room = s
    BY <1>8, <2>3, <2>4, <2>6
  <2> HIDE DEF first, x
  <2>10. PICK f \in Store!FirstMembers(s, Store!PRIVATE) : f = first BY <2>9
  <2> QED BY <1>1, <1>4, <1>8, <1>12, <2>7, <2>8, <2>9, <2>10, CreateTables
<1>13. CASE r \notin torn /\ q.kind = "message"
  <2>1. SenderIn(q, MemberRows(r)) BY <1>10, <1>13 DEF Local, MessageOK
  <2>2. PICK x \in RoomRows(r) :
               t = [ins |-> {SentRow(q), Store!RoomRow(r, x.key, q.msg)}, del |-> {x}]
    BY <1>10, <1>13 DEF Local, MessageOK
  <2>3. PICK member \in MemberRows(r) : member.key = q.user BY <2>1 DEF SenderIn
  <2> DEFINE n == Store!RoomRow(r, x.key, q.msg)
             m == SentRow(q)
  <2>4. m.table = "messages" /\ m.room = r BY Store!Columns DEF SentRow
  <2>5. t.ins = {m, n} /\ t.del = {x}
    <3> HIDE DEF m, n, t
    <3> QED BY <2>2 DEF m, n
  <2>6. Rows' = (Rows \ {x}) \cup {n, m} BY <1>9, <1>13, <2>5
  <2>7. WorkerTable(v)'
    <3> HIDE DEF m, n
    <3>1. m \in Store!In(Rows', "messages", r) BY <2>4, <2>6 DEF Store!In
    <3>2. Local("broadcast", q, tx'[v], Store!In(Rows', "rooms", r), Store!In(Rows', "room_members", r),
                Store!In(Rows', "messages", r))
      BY <1>13, <3>1 DEF Local, CreateOK, MessageOK, DeleteOK, InviteOK, m
    <3> QED BY <1>6, <1>13, <3>2
  <2>8. /\ q.msg \in 1..MaxRequests
        /\ \A y \in Rows : y.table = "messages" => y.key # q.msg
    <3>1. Sending(pc[v], q.kind) BY <1>1, <1>13 DEF Sending
    <3>2. q.msg # 0 BY <3>1 DEF TableInv, MsgFresh
    <3>3. q.msg \in Nat /\ q.msg <= ids /\ ids \in Nat /\ ids <= MaxRequests BY KnownIds, KnownBounds
    <3>4. \A y \in Rows : y.table = "messages" => y.key # q.msg
      BY <1>13, <3>1 DEF TableInv, WorkerTable
    <3> QED BY <3>2, <3>3, <3>4, BoundsAssumption
  <2>9. m = Store!MessageRow(r, q.msg, member.key) BY <2>3 DEF SentRow
  <2>10. Rows' = (Rows \ {x}) \cup {Store!RoomRow(s, x.key, q.msg), Store!MessageRow(s, q.msg, member.key)}
    BY <1>8, <2>6, <2>9
  <2>11. \A w \in Workers \ {v} : \A y \in tx[w].ins \cup tx[w].del : ~SameKey(x, y)
    BY <1>11, <2>5
  <2>12. x \in RoomRows(s) /\ member \in MemberRows(s) BY <1>8
  <2> HIDE DEF n, m
  <2> QED BY <1>1, <1>4, <1>8, <1>13, <2>7, <2>8, <2>10, <2>11, <2>12, PostTables
<1>14. CASE r \notin torn /\ q.kind = "delete"
  <2>1. /\ t.ins = {} /\ OwnerRow(q) \in MemberRows(r)
        /\ \A y \in MemberRows(r) \ t.del : y.val = Store!MEMBER
    BY <1>10, <1>14 DEF Local, DeleteOK
  <2>2. PICK x \in RoomRows(r) : x \in t.del /\ t.del \ {x} \subseteq MemberRows(r)
    BY <1>10, <1>14 DEF Local, DeleteOK
  <2> DEFINE D == t.del \ {x}
  <2>3. t.del = {x} \cup D BY <2>2
  <2>4. RoomRows(r) = {x} /\ x \in Rows /\ x.table = "rooms" /\ x.room = r BY <2>2, OneRow DEF TableInv
  <2>5. x.key = Store!GROUP
    <3>1. Store!IsGroup(x) \/ Store!IsPrivate(x)
      BY <2>4 DEF TableInv, Store!Inv, Store!RoomShape, Rows
    <3>2. OwnerRow(q).val = Store!OWNER BY Store!Columns DEF OwnerRow
    <3>3. Store!IsPrivate(x) => \A y \in MemberRows(r) : y.val = Store!PRIVATE_MEMBER
      BY <2>4 DEF Store!IsPrivate, MemberRows, Rows
    <3>4. Store!OWNER # Store!PRIVATE_MEMBER BY DEF Store!OWNER, Store!PRIVATE_MEMBER
    <3> QED BY <2>1, <3>1, <3>2, <3>3, <3>4 DEF Store!IsGroup
  <2>6. \A y \in MemberRows(r) \ D : y.val = Store!MEMBER
    <3>1. \A y \in MemberRows(r) : y # x BY <2>4 DEF MemberRows, Store!In
    <3> QED BY <2>1, <3>1
  <2>7. Rows' = Rows \ ({x} \cup D) BY <1>9, <1>14, <2>1, <2>3
  <2>8. WorkerTable(v)'
    <3>1. Store!In(Rows', "rooms", r) = {} BY <2>4, <2>7 DEF Store!In, RoomRows
    <3>2. Local("close", q, tx'[v], Store!In(Rows', "rooms", r), Store!In(Rows', "room_members", r),
                Store!In(Rows', "messages", r))
      BY <1>14, <3>1 DEF Local, CreateOK, MessageOK, DeleteOK, InviteOK
    <3> QED BY <1>6, <1>14, <3>2
  <2>9. \A w \in Workers \ {v} : \A z \in {x} \cup D, y \in tx[w].ins \cup tx[w].del : ~SameKey(z, y)
    BY <1>11, <2>3
  <2>10. PICK E \in SUBSET MemberRows(s) : E = D BY <1>8, <2>2
  <2>11. x \in RoomRows(s) BY <1>8
  <2> HIDE DEF D
  <2> QED BY <1>1, <1>4, <1>8, <1>14, <2>5, <2>6, <2>7, <2>8, <2>9, <2>10, <2>11, DeleteTables
<1> QED BY <1>2, <1>5, <1>12, <1>13, <1>14

\* The destructor of the guard commits what create_g_room left pending: the step of ChatStore.
LEMMA ReturnTables ==
  ASSUME TypeInv, TypeInv', TableInv, NEW v \in Workers, OnlyWorker(v), Return(v)
  PROVE  Simulated
<1> DEFINE q == req[v]
           r == req[v].room
<1>1. /\ pc[v] = "close" /\ pc'[v] = "idle" /\ db' = View(v) /\ req'[v] = NoReq /\ torn' = torn
  BY DEF Return, Destroy, Goto, TypeInv, TypeOK
<1>2. WorkerTable(v)' /\ RoomFresh' /\ MsgFresh' BY <1>1, EndFresh
<1>3. CASE r \in torn \/ q.kind # "g_room"
  <2>1. q.kind # "g_room" => tx[v] = NoTx BY <1>1, Known DEF WorkerOK, NothingPending
  <2>2. Rows' = Rows BY <1>1, <1>3, <2>1, ViewCommitted
  <2> QED BY <1>1, <1>2, <2>2, QuietTables
<1>4. CASE r \notin torn /\ q.kind = "g_room"
  <2> DEFINE x == Store!RoomRow(r, Store!GROUP, 0)
             o == OwnerRow(q)
  <2>1. tx[v] = [ins |-> {x, o}, del |-> {}]
    BY <1>1, <1>4 DEF TableInv, WorkerTable, Local, CreateOK
  <2>2. o.table = "room_members" /\ o.room = r BY Store!Columns DEF OwnerRow
  <2>3. r \in 1..MaxRequests /\ q.user \in Users BY <1>1, RoomKnown, Known
  <2>4. {o} \in Store!FirstMembers(r, Store!GROUP) BY <2>3, FirstOwner DEF OwnerRow
  <2>5. tx[v].ins = {x, o} /\ tx[v].del = {}
    <3> HIDE DEF x, o
    <3> QED BY <2>1
  <2>6. Rows' = Rows \cup {x} \cup {o} BY <1>1, <1>4, <2>5, ViewCommitted
  <2>7. PICK s \in 1..MaxRequests : s = r BY <2>3
  <2>8. Creating(pc[v], q.kind) BY <1>1, <1>4 DEF Creating
  <2>9. PICK f \in Store!FirstMembers(s, Store!GROUP) : f = {o} BY <2>4, <2>7
  <2>10. Rows' = Rows \cup {Store!RoomRow(s, Store!GROUP, 0)} \cup f BY <2>6, <2>7, <2>9
  <2> HIDE DEF x, o
  <2>11. \A y \in f : y.table = "room_members" /\ y.room = s BY <2>2, <2>7, <2>9
  <2> QED BY <1>1, <1>2, <1>4, <2>7, <2>8, <2>10, <2>11, CreateTables
<1> QED BY <1>3, <1>4

\* Every step of the handlers is a step of ChatStore, or changes nothing there.
LEMMA TableStep ==
  ASSUME TypeInv, TableInv, [Next]_vars
  PROVE  TableInv' /\ [Store!Next]_(Store!vars)
<1>1. TypeInv' BY TypeStep
<1>2. Simulated
  <2>1. ASSUME NEW v \in Workers, Asks(v) PROVE Simulated
    BY <1>1, <2>1, WorkerStep, AsksRequest, RequestTables
  <2>2. ASSUME NEW v \in Workers, Step(v) PROVE Simulated
    <3>1. OnlyWorker(v) BY <2>2, WorkerStep
    <3>2. CASE Reject(v) BY <1>1, <3>1, <3>2, LeaveTables DEF Reject, Catch
    <3> QED BY <1>1, <2>2, <3>1, <3>2, BeginTables, CheckTables, InsertRoomTables,
               InsertMembersTables, InsertMessageTables, UpdateRoomTables, DeleteMembersTables,
               DeleteRoomTables, InsertMemberTables, CommitTables, BroadcastTables, ReturnTables
            DEF Step
  <2>3. ASSUME NEW v \in Workers, Throw(v) PROVE Simulated
    BY <1>1, <2>3, WorkerStep, LeaveTables DEF Throw, Catch
  <2>4. ASSUME NEW v \in Workers, Escape(v) PROVE Simulated
    BY <1>1, <2>4, TerminateTables DEF Escape
  <2>5. ASSUME NEW v \in Workers, Drop(v) PROVE Simulated BY <1>1, <2>5, WorkerStep, DropTables
  <2>6. CASE Crash BY <1>1, <2>6, TerminateTables DEF Crash
  <2>7. CASE UNCHANGED vars
    <3>1. UNCHANGED <<db, tx, auto, live, pc, req, torn>> BY <2>7 DEF vars, connVars
    <3>2. Rows' = Rows BY <3>1 DEF Rows
    <3>3. \A w \in Workers : WorkerTable(w)'
      BY <3>1, <3>2 DEF TableInv, WorkerTable, RoomRows, MemberRows, MessageRows
    <3>4. RoomFresh' /\ MsgFresh' BY <3>1 DEF TableInv, RoomFresh, MsgFresh
    <3>5. UNCHANGED Store!vars BY <3>1 DEF Store!vars
    <3> QED BY <3>3, <3>4, <3>5 DEF Simulated
  <2> QED BY <2>1, <2>2, <2>3, <2>4, <2>5, <2>6, <2>7 DEF Next
<1>3. Store!Inv' BY <1>2, Store!InvStep DEF TableInv, Simulated
<1> QED BY <1>2, <1>3 DEF Simulated, TableInv


\* Empty tables satisfy the invariant.
LEMMA TableInit == Init => TableInv
<1> SUFFICES ASSUME Init PROVE TableInv OBVIOUS
<1>1. \A w \in Workers : pc[w] = "idle" /\ req[w] = NoReq BY DEF Init
<1>2. NoReq.kind = "none" /\ NoReq.room = 0 /\ NoReq.msg = 0 BY DEF NoReq
<1>3. ~Creating("idle", "none") /\ ~Sending("idle", "none") /\ ~InTransaction("idle", "none")
  BY DEF Creating, Sending, InTransaction
<1>4. \A w \in Workers : WorkerTable(w) BY <1>1, <1>2, <1>3, LocalEarly DEF WorkerTable
<1>5. RoomFresh BY <1>1, <1>2, <1>3 DEF RoomFresh
<1>6. MsgFresh BY <1>1, <1>2, <1>3 DEF MsgFresh
<1>7. Store!Inv
  BY DEF Init, Store!Inv, Store!RoomOnce, Store!RoomShape, Store!OrphanShape, Store!LastShape
<1> QED BY <1>4, <1>5, <1>6, <1>7 DEF TableInv

\* Both invariants hold of every reachable state.
LEMMA TableCorrect == Spec => [](TypeInv /\ TableInv)
BY TypeInit, TypeStep, TableInit, TableStep, PTL DEF Spec

\* The handlers, statement by statement and with every loss of a connection, every exception
\* and every crash of the server, implement ChatStore: a request changes the tables as a
\* whole or not at all, unless its transaction lost its connection.
THEOREM Refinement == Spec => ImplementsStore
<1>1. Init => Store!Init BY DEF Init, Store!Init
<1>2. TypeInv /\ TableInv /\ [Next]_vars => [Store!Next]_(Store!vars) BY TableStep
<1> QED BY <1>1, <1>2, TableCorrect, PTL DEF Spec, ImplementsStore, Store!Spec

-----------------------------------------------------------------------------
(***************************************************************************)
(* Who is left of a room that is gone                                      *)
(***************************************************************************)

\* The labels of a deletion that has read the members of its room.
MembersGone(p, kind) == p = "delete_room" \/ (p = "commit" /\ kind = "delete")

\* Of a room that is gone only members are left that no deletion read; of a room that is
\* being deleted only those will be.
LateRoom(r) == r \notin torn /\ RoomRows(r) = {} => MemberRows(r) \subseteq late

LateWorker(w) ==
  MembersGone(pc[w], req[w].kind) /\ req[w].room \notin torn =>
    RoomRows(req[w].room) = {} \/ MemberRows(req[w].room) \ tx[w].del \subseteq late

LateInv == (\A r : LateRoom(r)) /\ \A w \in Workers : LateWorker(w)

\* A step that deletes no room r, and adds to its members only invited ones.
KeepsLate(r) ==
  /\ RoomRows(r)' = {} => RoomRows(r) = {}
  /\ MemberRows(r)' \subseteq MemberRows(r) \cup late'
  /\ \A y \in late : y.room = r => y \in late'

\* What is left of such a room, and of a deletion of it by a worker the step leaves alone.
LEMMA KeptRoom ==
  ASSUME LateInv, torn \subseteq torn', NEW r, r \notin torn', KeepsLate(r)
  PROVE  /\ LateRoom(r)'
         /\ \A w \in Workers :
              /\ pc'[w] = pc[w] /\ req'[w] = req[w] /\ tx[w].del \subseteq tx'[w].del
              /\ req[w].room = r
              => LateWorker(w)'
<1>1. \A y \in MemberRows(r) : y.room = r BY DEF MemberRows, Store!In
<1>2. MemberRows(r) \subseteq late => MemberRows(r)' \subseteq late' BY <1>1 DEF KeepsLate
<1>3. LateRoom(r) /\ r \notin torn BY DEF LateInv
<1>4. RoomRows(r) = {} => MemberRows(r)' \subseteq late' BY <1>2, <1>3 DEF LateRoom
<1>5. LateRoom(r)' BY <1>4 DEF LateRoom, KeepsLate
<1>6. ASSUME NEW w \in Workers, pc'[w] = pc[w], req'[w] = req[w], tx[w].del \subseteq tx'[w].del,
             req[w].room = r
      PROVE  LateWorker(w)'
  <2> SUFFICES ASSUME MembersGone(pc[w], req[w].kind)
               PROVE  MemberRows(r)' \ tx'[w].del \subseteq late'
    BY <1>6 DEF LateWorker, RoomRows, MemberRows
  <2>1. LateWorker(w) BY DEF LateInv
  <2>2. RoomRows(r) = {} \/ MemberRows(r) \ tx[w].del \subseteq late
    BY <1>3, <1>6, <2>1 DEF LateWorker
  <2>3. CASE MemberRows(r) \ tx[w].del \subseteq late BY <1>1, <1>6, <2>3 DEF KeepsLate
  <2> QED BY <1>4, <2>2, <2>3
<1> QED BY <1>5, <1>6

\* A step of one worker that keeps every room but one.
LEMMA LateButOne ==
  ASSUME LateInv, NEW v \in Workers, OnlyWorker(v), torn \subseteq torn', NEW r,
         \A s : s # r /\ s \notin torn' => KeepsLate(s),
         LateRoom(r)', LateWorker(v)',
         \A w \in Workers \ {v} : req[w].room = r => LateWorker(w)'
  PROVE  LateInv'
<1>1. ASSUME NEW s PROVE LateRoom(s)'
  <2>1. CASE s = r BY <2>1
  <2>2. CASE s # r /\ s \in torn' BY <2>2 DEF LateRoom
  <2>3. CASE s # r /\ s \notin torn' BY <2>3, KeptRoom
  <2> QED BY <2>1, <2>2, <2>3
<1>2. ASSUME NEW w \in Workers PROVE LateWorker(w)'
  <2>1. CASE w = v BY <2>1
  <2>2. CASE w # v
    <3>1. pc'[w] = pc[w] /\ req'[w] = req[w] /\ tx'[w] = tx[w] BY <2>2 DEF OnlyWorker
    <3>2. CASE req[w].room = r BY <2>2, <3>2
    <3>3. CASE req[w].room \in torn' BY <3>1, <3>3 DEF LateWorker
    <3>4. CASE req[w].room # r /\ req[w].room \notin torn'
      <4>1. PICK s : s = req[w].room OBVIOUS
      <4>2. tx[w].del \subseteq tx'[w].del BY <3>1
      <4> QED BY <3>1, <3>4, <4>1, <4>2, KeptRoom
    <3> QED BY <3>2, <3>3, <3>4
  <2> QED BY <2>1, <2>2
<1> QED BY <1>1, <1>2 DEF LateInv

\* A step of one worker that keeps every room.
LEMMA LateKept ==
  ASSUME LateInv, NEW v \in Workers, OnlyWorker(v), torn \subseteq torn',
         \A s : s \notin torn' => KeepsLate(s), LateWorker(v)'
  PROVE  LateInv'
<1>1. PICK r : r = req[v].room OBVIOUS
<1>2. LateRoom(r)'
  <2>1. CASE r \in torn' BY <2>1 DEF LateRoom
  <2>2. CASE r \notin torn' BY <2>2, KeptRoom
  <2> QED BY <2>1, <2>2
<1>3. ASSUME NEW w \in Workers \ {v}, req[w].room = r PROVE LateWorker(w)'
  <2>1. pc'[w] = pc[w] /\ req'[w] = req[w] /\ tx'[w] = tx[w] BY DEF OnlyWorker
  <2>2. CASE r \in torn' BY <1>3, <2>1, <2>2 DEF LateWorker
  <2>3. CASE r \notin torn'
    <3>1. tx[w].del \subseteq tx'[w].del BY <2>1
    <3> QED BY <1>3, <2>1, <2>3, <3>1, KeptRoom
  <2> QED BY <2>2, <2>3
<1> QED BY <1>2, <1>3, LateButOne

\* A step of one worker that changes neither the rows of a room that is not lost nor late.
LEMMA LateQuiet ==
  ASSUME LateInv, NEW v \in Workers, OnlyWorker(v), torn \subseteq torn', late' = late,
         \A x : x.room \notin torn' => (x \in Rows' <=> x \in Rows),
         MembersGone(pc'[v], req'[v].kind) /\ req'[v].room \notin torn' =>
           pc'[v] = pc[v] /\ req'[v] = req[v] /\ tx[v].del \subseteq tx'[v].del
  PROVE  LateInv'
<1>1. ASSUME NEW s, s \notin torn' PROVE KeepsLate(s)
  <2>1. \A table : Store!In(Rows', table, s) = Store!In(Rows, table, s) BY <1>1 DEF Store!In
  <2> QED BY <2>1 DEF KeepsLate, RoomRows, MemberRows
<1>2. LateWorker(v)'
  <2> SUFFICES ASSUME MembersGone(pc'[v], req'[v].kind), req'[v].room \notin torn'
               PROVE  LateWorker(v)'
    BY DEF LateWorker
  <2>1. pc'[v] = pc[v] /\ req'[v] = req[v] /\ tx[v].del \subseteq tx'[v].del OBVIOUS
  <2>2. PICK s : s = req[v].room OBVIOUS
  <2>3. KeepsLate(s) BY <1>1, <2>1, <2>2
  <2> QED BY <2>1, <2>2, <2>3, KeptRoom
<1> QED BY <1>1, <1>2, LateKept

\* A step of one worker that changes no table and leaves it where no member has been read.
LEMMA LateSame ==
  ASSUME LateInv, NEW v \in Workers, OnlyWorker(v), torn' = torn, late' = late, Rows' = Rows,
         ~MembersGone(pc'[v], req'[v].kind)
  PROVE  LateInv'
BY LateQuiet

\* The end of the process ends every deletion.
LEMMA LateTerminate ==
  ASSUME LateInv, Terminate, late' = late
  PROVE  LateInv'
<1>1. Rows' = Rows /\ torn' = torn BY DEF Terminate, Rows
<1>2. \A w \in Workers : pc'[w] = "idle" BY DEF Terminate
<1>3. \A w \in Workers : LateWorker(w)' BY <1>2 DEF LateWorker, MembersGone
<1>4. \A r : LateRoom(r)' BY <1>1 DEF LateInv, LateRoom, RoomRows, MemberRows
<1> QED BY <1>3, <1>4 DEF LateInv

\* A lost connection: the rooms of the deletions it interrupts are lost.
LEMMA LateDrop ==
  ASSUME TypeInv, TableInv, LateInv, NEW v \in Workers, OnlyWorker(v), Drop(v)
  PROVE  LateInv'
<1>1. /\ pc'[v] = pc[v] /\ req'[v] = req[v] /\ db' = db /\ late' = late
      /\ torn' = IF ~auto[v] /\ (tx[v] # NoTx \/ pc[v] \notin {"broadcast", "close"})
                 THEN torn \cup {req[v].room} ELSE torn
  BY DEF Drop
<1>2. torn \subseteq torn' /\ \A x : x.room \notin torn' => (x \in Rows' <=> x \in Rows)
  BY <1>1 DEF Rows
<1>3. ASSUME MembersGone(pc[v], req[v].kind), req[v].room \notin torn' PROVE FALSE
  <2>1. auto[v] BY <1>1, <1>3 DEF MembersGone
  <2>2. InTransaction(pc[v], req[v].kind) BY <1>3, KindAt DEF MembersGone, InTransaction
  <2>3. WorkerTable(v) /\ req[v].room \notin torn BY <1>2, <1>3 DEF TableInv
  <2> QED BY <2>1, <2>2, <2>3 DEF WorkerTable
<1> QED BY <1>1, <1>2, <1>3, LateQuiet

\* The statements that change no table before the commit.
LEMMA LateStatements ==
  ASSUME TypeInv, TypeInv', TableInv, LateInv, NEW v \in Workers, OnlyWorker(v),
         \/ InsertRoom(v) \/ InsertMembers(v) \/ InsertMessage(v) \/ UpdateRoom(v) \/ DeleteRoom(v)
  PROVE  LateInv'
<1> DEFINE q == req[v]
           r == req[v].room
<1>1. ASSUME NEW ins, NEW del, Execute(v, ins, del), \A x \in ins \cup del : x.room = r,
             torn' = torn, late' = late, InTransaction(pc[v], q.kind),
             ~MembersGone(pc'[v], req'[v].kind)
      PROVE  LateInv'
  BY <1>1, StatementQuiet, LateSame
<1>2. pc \in [Workers -> Labels] /\ req \in [Workers -> Req] BY DEF TypeInv, TypeOK
<1>3. CASE InsertRoom(v)
  <2> DEFINE ins == {Store!RoomRow(r, RoomType(q.kind), 0)}
  <2>1. /\ pc[v] = "insert_room" /\ pc'[v] = "insert_members" /\ Execute(v, ins, {})
        /\ torn' = torn /\ late' = late
    BY <1>2, <1>3 DEF InsertRoom, Goto
  <2>2. \A x \in ins \cup {} : x.room = r BY Store!Columns
  <2>3. InTransaction(pc[v], q.kind) BY <2>1, KindAt DEF InTransaction
  <2> HIDE DEF ins
  <2> QED BY <1>1, <2>1, <2>2, <2>3 DEF MembersGone
<1>4. CASE InsertMembers(v)
  <2>1. pc[v] = "insert_members" /\ req' = req /\ torn' = torn /\ late' = late
    BY <1>4 DEF InsertMembers
  <2>2. InTransaction(pc[v], q.kind) BY <2>1, KindAt DEF InTransaction
  <2>3. ASSUME q.kind = "g_room" PROVE LateInv'
    <3> DEFINE ins == {OwnerRow(q)}
    <3>1. Execute(v, ins, {}) /\ pc'[v] = "close"
      BY <1>2, <1>4, <2>3 DEF InsertMembers, OwnerRow, Goto
    <3>2. \A x \in ins \cup {} : x.room = r BY Store!Columns DEF OwnerRow
    <3> HIDE DEF ins
    <3> QED BY <1>1, <2>1, <2>2, <3>1, <3>2 DEF MembersGone
  <2>4. ASSUME q.kind = "p_room" PROVE LateInv'
    <3> DEFINE ins == PairRows(q)
    <3>1. Execute(v, ins, {}) /\ pc'[v] = "commit"
      BY <1>2, <1>4, <2>4 DEF InsertMembers, PairRows, Goto
    <3>2. \A x \in ins \cup {} : x.room = r BY Store!Columns DEF PairRows
    <3> HIDE DEF ins
    <3> QED BY <1>1, <2>1, <2>2, <2>4, <3>1, <3>2 DEF MembersGone
  <2> QED BY <1>4, <2>3, <2>4 DEF InsertMembers
<1>5. CASE InsertMessage(v)
  <2> DEFINE ins == {Store!MessageRow(r, ids + 1, q.user)}
  <2>1. /\ pc[v] = "insert_message" /\ pc'[v] = "update_room" /\ Execute(v, ins, {})
        /\ torn' = torn /\ late' = late
    BY <1>2, <1>5 DEF InsertMessage, Goto
  <2>2. \A x \in ins \cup {} : x.room = r BY Store!Columns
  <2>3. InTransaction(pc[v], q.kind) BY <2>1, KindAt DEF InTransaction
  <2> HIDE DEF ins
  <2> QED BY <1>1, <2>1, <2>2, <2>3 DEF MembersGone
<1>6. CASE UpdateRoom(v)
  <2>1. /\ pc[v] = "update_room" /\ pc'[v] = "commit" /\ req' = req /\ torn' = torn /\ late' = late
    BY <1>2, <1>6 DEF UpdateRoom, Goto
  <2>2. PICK x \in Store!In(View(v), "rooms", r) : Execute(v, {Store!RoomRow(r, x.key, q.msg)}, {x})
    BY <1>6 DEF UpdateRoom
  <2> DEFINE n == Store!RoomRow(r, x.key, q.msg)
  <2>3. \A y \in {n} \cup {x} : y.room = r BY Store!Columns DEF Store!In
  <2>4. InTransaction(pc[v], q.kind) /\ q.kind = "message" BY <2>1, KindAt DEF InTransaction
  <2>5. Execute(v, {n}, {x}) BY <2>2
  <2> HIDE DEF n
  <2> QED BY <1>1, <2>1, <2>3, <2>4, <2>5 DEF MembersGone
<1>7. CASE DeleteRoom(v)
  <2> DEFINE del == Store!In(View(v), "rooms", r)
  <2>1. /\ pc[v] = "delete_room" /\ pc'[v] = "commit" /\ req' = req /\ torn' = torn /\ late' = late
        /\ Execute(v, {}, del)
    BY <1>2, <1>7 DEF DeleteRoom, Goto
  <2>2. \A x \in {} \cup del : x.room = r BY DEF Store!In
  <2>3. InTransaction(pc[v], q.kind) /\ q.kind = "delete" BY <2>1, KindAt DEF InTransaction
  <2> HIDE DEF del
  <2>4. /\ Rows' = Rows
        /\ r \notin torn => tx'[v] = [ins |-> (tx[v].ins \ del) \cup {}, del |-> tx[v].del \cup del]
    BY <2>1, <2>2, <2>3, StatementQuiet
  <2>5. ASSUME NEW s, s \notin torn' PROVE KeepsLate(s)
    BY <2>1, <2>4 DEF KeepsLate, RoomRows, MemberRows
  <2>6. LateWorker(v)'
    <3> SUFFICES ASSUME r \notin torn PROVE LateWorker(v)' BY <2>1 DEF LateWorker
    <3>1. tx[v].del \subseteq tx'[v].del BY <2>4
    <3>2. RoomRows(r) = {} \/ MemberRows(r) \ tx[v].del \subseteq late
      BY <2>1 DEF LateInv, LateWorker, MembersGone
    <3>3. RoomRows(r) = {} \/ MemberRows(r) \ tx'[v].del \subseteq late BY <3>1, <3>2
    <3> QED BY <2>1, <2>4, <3>3 DEF LateWorker, RoomRows, MemberRows
  <2> QED BY <2>1, <2>5, <2>6, LateKept
<1> QED BY <1>3, <1>4, <1>5, <1>6, <1>7

\* DELETE FROM room_members reads every member of the room, and no other deletion of the
\* room has: the row of its owner would be locked.
LEMMA LateDeleteMembers ==
  ASSUME TypeInv, TypeInv', TableInv, LateInv, NEW v \in Workers, OnlyWorker(v), DeleteMembers(v)
  PROVE  LateInv'
<1>0. PICK r : r = req[v].room OBVIOUS
<1> DEFINE del == Store!In(View(v), "room_members", r)
<1>1. /\ pc[v] = "delete_members" /\ pc'[v] = "delete_room" /\ Execute(v, {}, del)
      /\ MembersRead(r) /\ req' = req /\ torn' = torn
  BY <1>0 DEF DeleteMembers, Goto, TypeInv, TypeOK
<1>2. req[v].kind = "delete" BY <1>1, KindAt
<1>3. tx[v] = NoTx BY <1>1, Known DEF WorkerOK, NothingPending
<1>4. \A x \in {} \cup del : x.room = r BY DEF Store!In
<1>5. r \notin torn => del = MemberRows(r) BY <1>3, ViewRows
<1> HIDE DEF del
<1>6. InTransaction(pc[v], req[v].kind) BY <1>1, <1>2 DEF InTransaction
<1>7. /\ Rows' = Rows
      /\ r \notin torn => tx'[v] = [ins |-> (tx[v].ins \ del) \cup {}, del |-> tx[v].del \cup del]
  BY <1>0, <1>1, <1>4, <1>6, StatementQuiet
<1>8. \A y \in late : y.room # r => y \in late' BY <1>1 DEF MembersRead
<1>9. ASSUME NEW s, s # r PROVE KeepsLate(s)
  BY <1>7, <1>8, <1>9 DEF KeepsLate, RoomRows, MemberRows
<1>10. CASE r \in torn
  <2>1. \A w \in Workers : req[w].room = r => LateWorker(w)'
    <3> SUFFICES ASSUME NEW w \in Workers, req[w].room = r PROVE LateWorker(w)' OBVIOUS
    <3>1. req'[w].room \in torn' BY <1>1, <1>10
    <3> QED BY <3>1 DEF LateWorker
  <2>2. LateRoom(r)' BY <1>1, <1>10 DEF LateRoom
  <2> QED BY <1>0, <1>1, <1>9, <2>1, <2>2, LateButOne
<1>11. CASE r \notin torn
  <2>1. MemberRows(r) \ tx'[v].del = {} BY <1>5, <1>7, <1>11
  <2>2. LateWorker(v)'
    <3>1. MemberRows(r)' \ tx'[v].del \subseteq late' BY <1>7, <2>1 DEF MemberRows
    <3>2. req'[v].room = r BY <1>0, <1>1
    <3> QED BY <3>1, <3>2 DEF LateWorker, MemberRows
  <2>3. CASE RoomRows(r) = {}
    <3>1. Store!In(db, "rooms", r) = {} BY <1>11, <2>3 DEF RoomRows, Rows, Store!In
    <3>2. late' = late BY <1>1, <3>1 DEF MembersRead
    <3>3. KeepsLate(r) BY <1>7, <3>2 DEF KeepsLate, RoomRows, MemberRows
    <3>4. \A s : s \notin torn' => KeepsLate(s) BY <1>9, <3>3
    <3> QED BY <1>1, <2>2, <3>4, LateKept
  <2>4. CASE RoomRows(r) # {}
    <3>1. LateRoom(r)' BY <1>7, <2>4 DEF LateRoom, RoomRows
    <3>2. ASSUME NEW w \in Workers \ {v}, req[w].room = r PROVE ~MembersGone(pc[w], req[w].kind)
      <4> SUFFICES ASSUME MembersGone(pc[w], req[w].kind) PROVE FALSE OBVIOUS
      <4> DEFINE o == OwnerRow(req[w])
      <4>1. DeleteOK(pc[w], req[w], tx[w], RoomRows(r), MemberRows(r))
        BY <1>11, <3>2 DEF TableInv, WorkerTable, Local
      <4>2. o \in tx[w].del /\ o \in MemberRows(r) BY <2>4, <4>1 DEF DeleteOK, MembersGone
      <4>3. o \in del BY <1>5, <1>11, <4>2
      <4>4. ~SameKey(o, o) BY <1>1, <4>2, <4>3 DEF Execute, Unlocked
      <4> QED BY <4>4 DEF SameKey
    <3>3. ASSUME NEW w \in Workers \ {v}, req[w].room = r PROVE LateWorker(w)'
      <4>1. pc'[w] = pc[w] /\ req'[w] = req[w] BY DEF OnlyWorker
      <4> QED BY <3>2, <3>3, <4>1 DEF LateWorker
    <3> QED BY <1>1, <1>9, <2>2, <3>1, <3>3, LateButOne
  <2> QED BY <2>3, <2>4
<1> QED BY <1>10, <1>11

\* INSERT INTO room_members of an invitation.
LEMMA LateInsertMember ==
  ASSUME TypeInv, TableInv, LateInv, NEW v \in Workers, OnlyWorker(v), InsertMember(v)
  PROVE  LateInv'
<1> DEFINE n == Store!MemberRow(req[v].room, req[v].other, Store!MEMBER)
<1>1. /\ pc[v] = "insert_member" /\ pc'[v] = "close" /\ Execute(v, {n}, {})
      /\ late' = late \cup {n} /\ torn' = torn
  BY DEF InsertMember, Goto, TypeInv, TypeOK
<1>2. req[v].kind = "invite" BY <1>1, KindAt
<1>3. auto[v] BY <1>2, Known DEF WorkerOK
<1>4. n.table = "room_members" BY Store!Columns
<1> HIDE DEF n
<1>5. db' = db \cup {n} BY <1>1, <1>3 DEF Execute
<1>6. ASSUME NEW s PROVE KeepsLate(s)
  <2>1. RoomRows(s)' = RoomRows(s) BY <1>1, <1>4, <1>5 DEF RoomRows, Rows, Store!In
  <2>2. MemberRows(s)' \subseteq MemberRows(s) \cup {n} BY <1>1, <1>5 DEF MemberRows, Rows, Store!In
  <2> QED BY <1>1, <2>1, <2>2 DEF KeepsLate
<1>7. LateWorker(v)' BY <1>1 DEF LateWorker, MembersGone
<1> QED BY <1>1, <1>6, <1>7, LateKept

\* A room that is created has a row, and nobody else has found it yet.
LEMMA LateCreate ==
  ASSUME TableInv, LateInv, NEW v \in Workers, OnlyWorker(v), torn' = torn, late' = late,
         req[v].room \notin torn, Creating(pc[v], req[v].kind), ~MembersGone(pc'[v], req'[v].kind),
         NEW x, x.table = "rooms", x.room = req[v].room,
         NEW first, \A y \in first : y.room = req[v].room,
         Rows' = Rows \cup {x} \cup first
  PROVE  LateInv'
<1>1. PICK r : r = req[v].room OBVIOUS
<1>2. ASSUME NEW s, s # r PROVE KeepsLate(s)
  <2>1. \A table : Store!In(Rows', table, s) = Store!In(Rows, table, s) BY <1>1, <1>2 DEF Store!In
  <2> QED BY <2>1 DEF KeepsLate, RoomRows, MemberRows
<1>3. x \in RoomRows(r)' BY <1>1 DEF RoomRows, Store!In
<1>4. LateRoom(r)' BY <1>3 DEF LateRoom
<1>5. LateWorker(v)' BY DEF LateWorker
<1>6. ASSUME NEW w \in Workers \ {v}, req[w].room = r PROVE LateWorker(w)'
  <2>1. pc'[w] = pc[w] /\ req'[w] = req[w] BY DEF OnlyWorker
  <2>2. pc[w] \in {"begin", "check"} BY <1>1, <1>6 DEF TableInv, RoomFresh
  <2> QED BY <2>1, <2>2 DEF LateWorker, MembersGone
<1> QED BY <1>2, <1>4, <1>5, <1>6, LateButOne

\* commit(): of a deletion, what is left was invited after its members were read.
LEMMA LateCommit ==
  ASSUME TypeInv, TypeInv', TableInv, LateInv, NEW v \in Workers, OnlyWorker(v), Commit(v)
  PROVE  LateInv'
<1>0. PICK r : r = req[v].room OBVIOUS
<1> DEFINE q == req[v]
           t == tx[v]
<1>1. /\ pc[v] = "commit" /\ pc'[v] \in {"broadcast", "close"} /\ db' = View(v) /\ torn' = torn
      /\ late' = late
  BY DEF Commit, Goto, TypeInv, TypeOK
<1>2. q.kind \in {"p_room", "message", "delete"} BY <1>1, KindAt
<1>3. ~MembersGone(pc'[v], req'[v].kind) BY <1>1 DEF MembersGone
<1>4. CASE r \in torn
  <2>1. Rows' = Rows BY <1>0, <1>1, <1>4, ViewCommitted
  <2> QED BY <1>1, <1>3, <2>1, LateSame
<1>5. r \notin torn => Rows' = (Rows \ t.del) \cup t.ins BY <1>0, <1>1, ViewCommitted
<1>6. r \notin torn => Local("commit", q, t, RoomRows(r), MemberRows(r), MessageRows(r))
  BY <1>0, <1>1 DEF TableInv, WorkerTable
<1>7. CASE r \notin torn /\ q.kind = "p_room"
  <2> DEFINE x == Store!RoomRow(q.room, Store!PRIVATE, 0)
             first == PairRows(q)
  <2>1. t = [ins |-> {x} \cup first, del |-> {}] BY <1>6, <1>7 DEF Local, CreateOK
  <2>2. x.table = "rooms" /\ x.room = q.room BY Store!Columns
  <2>3. \A y \in first : y.room = q.room BY Store!Columns DEF PairRows
  <2>4. t.ins = {x} \cup first /\ t.del = {}
    <3> HIDE DEF x, first, t
    <3> QED BY <2>1
  <2> HIDE DEF x, first
  <2>5. Rows' = Rows \cup {x} \cup first BY <1>5, <1>7, <2>4
  <2>6. Creating(pc[v], q.kind) BY <1>1, <1>7 DEF Creating
  <2> QED BY <1>0, <1>1, <1>3, <1>7, <2>2, <2>3, <2>5, <2>6, LateCreate
<1>8. CASE r \notin torn /\ q.kind = "message"
  <2>1. PICK x \in RoomRows(r) : t = [ins |-> {SentRow(q), Store!RoomRow(r, x.key, q.msg)}, del |-> {x}]
    BY <1>0, <1>6, <1>8 DEF Local, MessageOK
  <2> DEFINE n == Store!RoomRow(r, x.key, q.msg)
             m == SentRow(q)
  <2>2. /\ m.table = "messages" /\ n.table = "rooms" /\ n.room = r
        /\ x.table = "rooms" /\ x.room = r
    BY Store!Columns DEF SentRow, RoomRows, Store!In
  <2>3. t.ins = {m, n} /\ t.del = {x}
    <3> HIDE DEF m, n, t
    <3> QED BY <2>1 DEF m, n
  <2> HIDE DEF m, n
  <2>4. Rows' = (Rows \ {x}) \cup {m, n} BY <1>5, <1>8, <2>3
  <2>5. ASSUME NEW s PROVE KeepsLate(s)
    <3>1. MemberRows(s)' = MemberRows(s) BY <2>2, <2>4 DEF MemberRows, Store!In
    <3>2. RoomRows(s)' = {} => RoomRows(s) = {} BY <2>2, <2>4 DEF RoomRows, Store!In
    <3> QED BY <1>1, <3>1, <3>2 DEF KeepsLate
  <2>6. LateWorker(v)' BY <1>3 DEF LateWorker
  <2> QED BY <1>1, <2>5, <2>6, LateKept
<1>9. CASE r \notin torn /\ q.kind = "delete"
  <2>1. t.ins = {} /\ RoomRows(r) # {} BY <1>6, <1>9 DEF Local, DeleteOK
  <2>2. MemberRows(r) \ t.del \subseteq late
    BY <1>0, <1>1, <1>9, <2>1 DEF LateInv, LateWorker, MembersGone
  <2>3. Rows' = Rows \ t.del BY <1>5, <1>9, <2>1
  <2>4. MemberRows(r)' \subseteq late' BY <1>1, <2>2, <2>3 DEF MemberRows, Store!In
  <2>5. ASSUME NEW s, s # r PROVE KeepsLate(s)
    <3>1. \A x \in t.del : x.room = r BY <1>0, Known DEF WorkerOK
    <3>2. \A table : Store!In(Rows', table, s) = Store!In(Rows, table, s)
      BY <2>3, <2>5, <3>1 DEF Store!In
    <3> QED BY <1>1, <3>2 DEF KeepsLate, RoomRows, MemberRows
  <2>6. LateRoom(r)' BY <2>4 DEF LateRoom
  <2>7. LateWorker(v)' BY <1>3 DEF LateWorker
  <2>8. ASSUME NEW w \in Workers \ {v}, req[w].room = r PROVE LateWorker(w)'
    <3>1. req'[w].room = r BY <2>8 DEF OnlyWorker
    <3>2. MemberRows(r)' \ tx'[w].del \subseteq late' BY <2>4
    <3> QED BY <3>1, <3>2 DEF LateWorker, MemberRows
  <2> QED BY <1>1, <2>5, <2>6, <2>7, <2>8, LateButOne
<1> QED BY <1>2, <1>4, <1>7, <1>8, <1>9

\* The destructor of the guard commits a room of create_g_room.
LEMMA LateReturn ==
  ASSUME TypeInv, TypeInv', TableInv, LateInv, NEW v \in Workers, OnlyWorker(v), Return(v)
  PROVE  LateInv'
<1> DEFINE q == req[v]
<1>1. /\ pc[v] = "close" /\ pc'[v] = "idle" /\ db' = View(v) /\ torn' = torn /\ late' = late
  BY DEF Return, Destroy, Goto, TypeInv, TypeOK
<1>2. ~MembersGone(pc'[v], req'[v].kind) BY <1>1 DEF MembersGone
<1>3. CASE q.room \in torn \/ q.kind # "g_room"
  <2>1. q.kind # "g_room" => tx[v] = NoTx BY <1>1, Known DEF WorkerOK, NothingPending
  <2>2. Rows' = Rows BY <1>1, <1>3, <2>1, ViewCommitted
  <2> QED BY <1>1, <1>2, <2>2, LateSame
<1>4. CASE q.room \notin torn /\ q.kind = "g_room"
  <2> DEFINE x == Store!RoomRow(q.room, Store!GROUP, 0)
             o == OwnerRow(q)
  <2>1. tx[v] = [ins |-> {x, o}, del |-> {}]
    BY <1>1, <1>4 DEF TableInv, WorkerTable, Local, CreateOK
  <2>2. x.table = "rooms" /\ x.room = q.room /\ o.room = q.room BY Store!Columns DEF OwnerRow
  <2> HIDE DEF x, o
  <2>3. tx[v].ins = {x, o} /\ tx[v].del = {} BY <2>1
  <2>4. Rows' = Rows \cup {x} \cup {o} BY <1>1, <1>4, <2>3, ViewCommitted
  <2>5. Creating(pc[v], q.kind) BY <1>1, <1>4 DEF Creating
  <2>6. \A y \in {o} : y.room = q.room BY <2>2
  <2> QED BY <1>1, <1>2, <1>4, <2>2, <2>4, <2>5, <2>6, LateCreate
<1> QED BY <1>3, <1>4

\* The other steps of one worker change no row of a room that is not lost.
LEMMA LateEasy ==
  ASSUME TypeInv, LateInv, NEW v \in Workers, OnlyWorker(v),
         Asks(v) \/ Begin(v) \/ Check(v) \/ Reject(v) \/ Throw(v) \/ Broadcast(v)
  PROVE  LateInv'
<1>1. pc \in [Workers -> Labels] /\ req \in [Workers -> Req] BY DEF TypeInv, TypeOK
<1>2. ASSUME torn \subseteq torn', late' = late, db' = db, ~MembersGone(pc'[v], req'[v].kind)
      PROVE  LateInv'
  <2>1. \A x : x.room \notin torn' => (x \in Rows' <=> x \in Rows) BY <1>2 DEF Rows
  <2> QED BY <1>2, <2>1, LateQuiet
<1>3. ASSUME Leave(v), torn' = torn, late' = late PROVE LateInv'
  BY <1>1, <1>2, <1>3 DEF Leave, Goto, MembersGone
<1>4. CASE Asks(v)
  <2>1. PICK kind, room, user, other : Request(v, kind, room, user, other) BY <1>4, AsksRequest
  <2> QED BY <1>1, <1>2, <2>1 DEF Request, Goto, MembersGone
<1>5. CASE Begin(v)
  <2>1. pc'[v] \in {"insert_room", "check"} BY <1>1, <1>5 DEF Begin, Goto
  <2>2. torn \subseteq torn' /\ late' = late /\ db' = db BY <1>5 DEF Begin
  <2> QED BY <1>2, <2>1, <2>2 DEF MembersGone
<1>6. CASE Check(v)
  <2>1. CASE ~Allowed(v) BY <1>3, <1>6, <2>1 DEF Check
  <2>2. CASE Allowed(v)
    <3>1. req[v].kind \in {"message", "delete", "invite"} BY <1>6, KindAt DEF Check
    <3>2. pc'[v] \in {"insert_message", "delete_members", "insert_member"}
      BY <1>1, <1>6, <2>2, <3>1 DEF Check, Goto, AfterCheck
    <3> QED BY <1>2, <1>6, <2>2, <3>2 DEF Check, MembersGone
  <2> QED BY <2>1, <2>2
<1>7. CASE Reject(v) BY <1>3, <1>7 DEF Reject, Catch
<1>8. CASE Throw(v) BY <1>3, <1>8 DEF Throw, Catch
<1>9. CASE Broadcast(v) BY <1>1, <1>2, <1>9 DEF Broadcast, Goto, MembersGone
<1> QED BY <1>4, <1>5, <1>6, <1>7, <1>8, <1>9

\* Every step keeps what is known of the members that are left.
LEMMA LateStep == TypeInv /\ TableInv /\ LateInv /\ [Next]_vars => LateInv'
<1> SUFFICES ASSUME TypeInv, TableInv, LateInv, [Next]_vars PROVE LateInv' OBVIOUS
<1>1. TypeInv' BY TypeStep
<1>2. ASSUME NEW v \in Workers, Asks(v) \/ Step(v) \/ Throw(v) \/ Drop(v) PROVE LateInv'
  <2>1. OnlyWorker(v) BY <1>2, WorkerStep
  <2> QED BY <1>1, <1>2, <2>1, LateEasy, LateStatements, LateDeleteMembers, LateInsertMember,
             LateCommit, LateReturn, LateDrop DEF Step
<1>3. ASSUME NEW v \in Workers, Escape(v) PROVE LateInv'
  BY <1>3, LateTerminate DEF Escape, Terminate
<1>4. CASE Crash BY <1>4, LateTerminate DEF Crash, Terminate
<1>5. CASE UNCHANGED vars
  BY <1>5 DEF vars, connVars, LateInv, LateRoom, LateWorker, RoomRows, MemberRows, Rows
<1> QED BY <1>2, <1>3, <1>4, <1>5 DEF Next

\* Empty tables have nobody left in them.
LEMMA LateInit == Init => LateInv
<1> SUFFICES ASSUME Init PROVE LateInv OBVIOUS
<1>1. \A r : MemberRows(r) = {} BY DEF Init, MemberRows, Rows, Store!In
<1>2. \A w \in Workers : ~MembersGone(pc[w], req[w].kind) BY DEF Init, MembersGone
<1> QED BY <1>1, <1>2 DEF LateInv, LateRoom, LateWorker

\* The three invariants hold of every reachable state.
LEMMA LateCorrect == Spec => [](TypeInv /\ TableInv /\ LateInv)
BY TypeInit, TypeStep, TableInit, TableStep, LateInit, LateStep, PTL DEF Spec

-----------------------------------------------------------------------------
(***************************************************************************)
(* What follows                                                            *)
(***************************************************************************)

\* The committed rows of a room that is not lost.
LEMMA InRows ==
  ASSUME NEW r, r \notin torn, NEW table
  PROVE  Store!In(db, table, r) = Store!In(Rows, table, r)
BY DEF Store!In, Rows

\* Rooms of whole requests have the members the abstract tables have.
LEMMA MembersInv == TableInv => RoomHasMembers
<1> SUFFICES ASSUME TableInv, NEW x \in db, x.table = "rooms", x.room \notin torn
             PROVE  IF x.key = Store!GROUP
                    THEN Cardinality({y \in Members(x.room) : y.val = Store!OWNER}) = 1
                    ELSE /\ Cardinality(Members(x.room)) = 2
                         /\ \A y \in Members(x.room) : y.val = Store!PRIVATE_MEMBER
  BY DEF RoomHasMembers
<1>1. Store!IsGroup(x) \/ Store!IsPrivate(x) BY DEF TableInv, Store!Inv, Store!RoomShape
<1>2. Members(x.room) = Store!In({y \in db : y.room \notin torn}, "room_members", x.room)
  BY InRows DEF Members, Rows
<1>3. CASE x.key = Store!GROUP
  <2>1. Store!IsGroup(x) BY <1>1, <1>3 DEF Store!IsPrivate, Store!GROUP, Store!PRIVATE
  <2>2. PICK y \in Members(x.room) :
               y.val = Store!OWNER /\ \A z \in Members(x.room) : z.val = Store!OWNER => z = y
    BY <1>2, <2>1 DEF Store!IsGroup
  <2>3. {z \in Members(x.room) : z.val = Store!OWNER} = {y} BY <2>2
  <2>4. Cardinality({y}) = 1 BY FS_Singleton
  <2> QED BY <1>3, <2>3, <2>4
<1>4. CASE x.key # Store!GROUP
  <2>1. Store!IsPrivate(x) BY <1>1, <1>4 DEF Store!IsGroup
  <2>2. PICK y, z \in Members(x.room) :
               /\ y # z /\ Members(x.room) = {y, z}
               /\ y.val = Store!PRIVATE_MEMBER /\ z.val = Store!PRIVATE_MEMBER
    BY <1>2, <2>1 DEF Store!IsPrivate
  <2>3. IsFiniteSet({y}) /\ Cardinality({y}) = 1 BY FS_Singleton
  <2>4. Cardinality({y} \cup {z}) = Cardinality({y}) + 1 BY <2>2, <2>3, FS_AddElement
  <2>5. {y} \cup {z} = Members(x.room) BY <2>2
  <2>6. Cardinality(Members(x.room)) = 2 BY <2>3, <2>4, <2>5
  <2>7. \A u \in Members(x.room) : u.val = Store!PRIVATE_MEMBER BY <2>2
  <2> QED BY <1>4, <2>6, <2>7
<1> QED BY <1>3, <1>4

\* Members without a room are invited ones that no deletion read.
LEMMA OrphansInv == TableInv /\ LateInv => OrphansAreInvited
<1> SUFFICES ASSUME TableInv, LateInv, NEW y \in db, y.table = "room_members", y.room \notin torn,
                    Store!In(db, "rooms", y.room) = {}
             PROVE  y \in late /\ y.val = Store!MEMBER
  BY DEF OrphansAreInvited
<1>1. Store!In({x \in db : x.room \notin torn}, "rooms", y.room) = {} BY InRows DEF Rows
<1>2. y.val = Store!MEMBER BY <1>1 DEF TableInv, Store!Inv, Store!OrphanShape
<1>3. RoomRows(y.room) = {} BY <1>1 DEF RoomRows, Rows
<1>4. y \in MemberRows(y.room) BY DEF MemberRows, Rows, Store!In
<1> QED BY <1>2, <1>3, <1>4 DEF LateInv, LateRoom

\* The last message of a room exists, as in the abstract tables.
LEMMA LastInv == TableInv => LastMessageExists
<1> SUFFICES ASSUME TableInv, NEW x \in db, x.table = "rooms", x.room \notin torn, x.val # 0
             PROVE  \E y \in Store!In(db, "messages", x.room) : y.key = x.val
  BY DEF LastMessageExists
<1>1. Store!In({y \in db : y.room \notin torn}, "messages", x.room) = Store!In(db, "messages", x.room)
  BY InRows DEF Rows
<1> QED BY <1>1 DEF TableInv, Store!Inv, Store!LastShape

\* A committed group has exactly one owner and a committed private room exactly its two
\* members, whoever creates, invites and deletes at the same time.
THEOREM MembersCorrect == Spec => []RoomHasMembers
BY MembersInv, TableCorrect, PTL

\* Who is left of a room that is gone was invited, as a plain member, after the DELETE FROM
\* room_members of its deletion had read the members: a deletion takes all it read.
THEOREM OrphansCorrect == Spec => []OrphansAreInvited
BY OrphansInv, LateCorrect, PTL

\* The last_message_id of a room names one of its messages.
THEOREM LastMessageCorrect == Spec => []LastMessageExists
BY LastInv, TableCorrect, PTL

\* A message is shown to the members only when it is committed.
THEOREM AnnouncedCorrect == Spec => []AnnouncedIsStored
<1>1. TypeInv /\ TableInv => AnnouncedIsStored
  <2> SUFFICES ASSUME TypeInv, TableInv, NEW w \in Workers, pc[w] = "broadcast", req[w].room \notin torn
               PROVE  SentRow(req[w]) \in db
    BY DEF AnnouncedIsStored, SentRow
  <2>1. req[w].kind = "message" BY KindAt
  <2>2. SentRow(req[w]) \in MessageRows(req[w].room)
    BY <2>1 DEF TableInv, WorkerTable, Local, MessageOK
  <2> QED BY <2>2 DEF MessageRows, Rows, Store!In
<1> QED BY <1>1, TableCorrect, PTL

\* What a response with Success promises is in the database when the guard is gone.
LEMMA SuccessStep ==
  ASSUME TypeInv, TableInv, NEW w \in Workers, Return(w), req[w].room \notin torn
  PROVE  Promised(req[w], db')
<1> DEFINE q == req[w]
           r == req[w].room
<1>1. pc[w] = "close" /\ db' = View(w) BY DEF Return, Destroy
<1>2. q.kind \in Kinds BY <1>1, KindAt
<1>3. q.kind # "g_room" => db' = db
  <2>1. q.kind # "g_room" => tx[w] = NoTx BY <1>1, Known DEF WorkerOK, NothingPending
  <2> QED BY <1>1, <2>1 DEF View, NoTx
<1>4. Local("close", q, tx[w], RoomRows(r), MemberRows(r), MessageRows(r))
  BY <1>1 DEF TableInv, WorkerTable
<1>5. RoomRows(r) = Store!In(db, "rooms", r) BY InRows DEF RoomRows
<1>6. MemberRows(r) \subseteq db /\ MessageRows(r) \subseteq db
  BY DEF MemberRows, MessageRows, Rows, Store!In
<1>7. CASE q.kind = "g_room"
  <2> DEFINE x == Store!RoomRow(r, Store!GROUP, 0)
             o == OwnerRow(q)
  <2>1. tx[w] = [ins |-> {x, o}, del |-> {}] BY <1>4, <1>7 DEF Local, CreateOK
  <2>2. o = Store!MemberRow(r, q.user, Store!OWNER) BY DEF OwnerRow
  <2>3. x \in db' /\ o \in db'
    <3> HIDE DEF x, o
    <3>1. x \in tx[w].ins /\ o \in tx[w].ins BY <2>1
    <3> QED BY <1>1, <3>1 DEF View
  <2> QED BY <1>7, <2>2, <2>3 DEF Promised
<1>8. CASE q.kind = "p_room"
  <2>1. PairRows(q) \subseteq db' BY <1>3, <1>4, <1>6, <1>8 DEF Local, CreateOK
  <2>2. \A u \in {q.user, q.other} : Store!MemberRow(r, u, Store!PRIVATE_MEMBER) \in db'
    BY <2>1 DEF PairRows
  <2>3. \E x \in Store!In(db', "rooms", r) : x.key = Store!PRIVATE
    BY <1>3, <1>4, <1>5, <1>8 DEF Local, CreateOK
  <2> QED BY <1>8, <2>2, <2>3 DEF Promised
<1>9. CASE q.kind = "message"
  <2>1. SentRow(q) \in db' BY <1>3, <1>4, <1>6, <1>9 DEF Local, MessageOK
  <2> QED BY <1>9, <2>1 DEF Promised, SentRow
<1>10. CASE q.kind = "delete"
  <2>1. Store!In(db', "rooms", r) = {} BY <1>3, <1>4, <1>5, <1>10 DEF Local, DeleteOK
  <2> QED BY <1>10, <2>1 DEF Promised
<1>11. CASE q.kind = "invite"
  <2>1. InvitedRow(q) \in MemberRows(r) \/ RoomRows(r) = {} BY <1>4, <1>11 DEF Local, InviteOK
  <2>2. InvitedRow(q) \in db' \/ Store!In(db', "rooms", r) = {} BY <1>3, <1>5, <1>6, <1>11, <2>1
  <2> QED BY <1>11, <2>2 DEF Promised, InvitedRow
<1> QED BY <1>2, <1>7, <1>8, <1>9, <1>10, <1>11 DEF Kinds

\* A request that is answered with Success is in the database when its guard is gone, also
\* create_g_room's, which never calls commit(): missing is only what a transaction that
\* lost its connection did, and an invitation to a room that was deleted before its answer.
THEOREM SuccessCorrect == Spec => SuccessIsStored
<1>1. TypeInv /\ TableInv =>
        [\A w \in Workers : Return(w) /\ req[w].room \notin torn => Promised(req[w], db')]_vars
  BY SuccessStep
<1> QED BY <1>1, TableCorrect, PTL DEF SuccessIsStored
=============================================================================
