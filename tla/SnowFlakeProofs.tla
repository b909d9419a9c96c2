-------------------------- MODULE SnowFlakeProofs --------------------------
(***************************************************************************)
(* Proofs about SnowFlake: the type invariant, the bound on sequence_id_   *)
(* and the order of the ids, for every value of the constants.             *)
(***************************************************************************)
EXTENDS SnowFlake, TLAPS

USE SeqAssumption, ServiceAssumption, ClockAssumption, BoundAssumption, NobodyAssumption

-----------------------------------------------------------------------------
\* What Id() packs is a natural number whatever the millisecond and the
\* sequence number: next_id() returns u64.
LEMMA IdNat ==
  ASSUME NEW t \in custom_epoch_..MaxClock, NEW s \in Nat
  PROVE  Id(t, s) \in Nat
<1> DEFINE K == SERVICE_SPAN * SEQ_SPAN
           x == (t - custom_epoch_) % TS_SPAN
<1>1. K \in Nat OBVIOUS
<1>2. x \in Nat OBVIOUS
<1>3. x * K \in Nat BY <1>1, <1>2
<1>4. service_id_ * SEQ_SPAN \in Nat OBVIOUS
<1> QED BY <1>3, <1>4 DEF Id

\* Ids of one millisecond are ordered by the sequence number.
LEMMA IdSeqOrder ==
  ASSUME NEW t \in custom_epoch_..MaxClock, NEW s \in Nat, NEW r \in Nat, s < r
  PROVE  Id(t, s) < Id(t, r)
<1> DEFINE B == ((t - custom_epoch_) % TS_SPAN) * (SERVICE_SPAN * SEQ_SPAN)
                + service_id_ * SEQ_SPAN
<1>1. B \in Int OBVIOUS
<1>2. Id(t, s) = B + s /\ Id(t, r) = B + r BY DEF Id
<1> HIDE DEF B
<1> QED BY <1>1, <1>2

\* Ids of different milliseconds are ordered by the millisecond, as long as the
\* sequence number stays in its field.
LEMMA IdTimeOrder ==
  ASSUME NEW t \in custom_epoch_..MaxClock, NEW u \in custom_epoch_..MaxClock, t < u,
         NEW s \in 0..(SEQ_SPAN - 1), NEW r \in Nat
  PROVE  Id(t, s) < Id(u, r)
<1> DEFINE K == SERVICE_SPAN * SEQ_SPAN
           a == t - custom_epoch_
           b == u - custom_epoch_
           c == service_id_ * SEQ_SPAN
<1>1. K \in Nat /\ c \in Nat /\ a \in Nat /\ b \in Nat /\ a + 1 <= b OBVIOUS
<1>2. a % TS_SPAN = a /\ b % TS_SPAN = b
  <2>1. a \in 0..(TS_SPAN - 1) /\ b \in 0..(TS_SPAN - 1) OBVIOUS
  <2> QED BY <2>1
<1>3. K >= SEQ_SPAN
  <2>1. SEQ_SPAN \in Nat /\ SERVICE_SPAN >= 1 /\ SERVICE_SPAN \in Nat OBVIOUS
  <2>2. (SERVICE_SPAN - 1) * SEQ_SPAN >= 0 BY <2>1
  <2>3. SERVICE_SPAN * SEQ_SPAN = (SERVICE_SPAN - 1) * SEQ_SPAN + SEQ_SPAN BY <2>1
  <2> QED BY <2>1, <2>2, <2>3
<1>4. b * K >= a * K + K
  <2>1. (b - (a + 1)) * K >= 0 BY <1>1
  <2>2. b * K = (b - (a + 1)) * K + a * K + K BY <1>1
  <2>3. a * K \in Nat /\ b * K \in Nat BY <1>1
  <2> QED BY <1>1, <2>1, <2>2, <2>3
<1>5. Id(t, s) = a * K + c + s /\ Id(u, r) = b * K + c + r BY <1>2 DEF Id
<1>6. a * K \in Nat /\ b * K \in Nat BY <1>1
<1> HIDE DEF K, a, b, c
<1> QED BY <1>1, <1>3, <1>4, <1>5, <1>6

-----------------------------------------------------------------------------
\* Type correctness of next_id(), wait_till_next_ms() and init().
THEOREM TypeCorrect == Spec => []TypeOK
<1>1. Init => TypeOK
  <2> SUFFICES ASSUME Init PROVE TypeOK OBVIOUS
  <2>1. exposed \in BOOLEAN BY Zenon DEF Init
  <2>2. issued \in Seq(Nat) BY DEF Init
  <2>3. clock \in StartClock..MaxClock /\ last_timestamp_ \in StartClock..MaxClock BY DEF Init
  <2>4. backs \in 0..MaxBack /\ restarts \in 0..MaxRestarts /\ now \in 0..MaxClock BY DEF Init
  <2>5. mtx_ = Nobody /\ pc = "out" /\ sequence_id_ \in Nat BY DEF Init
  <2> QED BY <2>1, <2>2, <2>3, <2>4, <2>5 DEF TypeOK
<1>2. TypeOK /\ [Next]_vars => TypeOK'
  <2> SUFFICES ASSUME TypeOK, [Next]_vars PROVE TypeOK' OBVIOUS
  <2> USE DEF TypeOK
  <2>1. ASSUME NEW t \in Threads, NextIdNewMs(t) PROVE TypeOK'
    <3>1. Id(clock, 0) \in Nat BY IdNat
    <3> QED BY <2>1, <3>1 DEF NextIdNewMs
  <2>2. ASSUME NEW t \in Threads, NextIdSameMs(t) PROVE TypeOK'
    <3>1. Id(clock, sequence_id_ + 1) \in Nat BY IdNat
    <3> QED BY <2>2, <3>1 DEF NextIdSameMs
  <2>3. ASSUME NEW t \in Threads, NextIdExhausted(t) PROVE TypeOK'
    BY <2>3 DEF NextIdExhausted
  <2>4. ASSUME NEW t \in Threads, NextIdRefused(t) PROVE TypeOK'
    BY <2>4 DEF NextIdRefused, vars
  <2>5. ASSUME NEW t \in Threads, WaitEnter(t) PROVE TypeOK'
    BY <2>5 DEF WaitEnter
  <2>6. ASSUME NEW t \in Threads, WaitLoop(t) PROVE TypeOK'
    BY <2>6 DEF WaitLoop
  <2>7. ASSUME NEW t \in Threads, WaitBody(t) PROVE TypeOK'
    BY <2>7 DEF WaitBody
  <2>8. ASSUME NEW t \in Threads, WaitDone(t) PROVE TypeOK'
    <3>1. now \in StartClock..MaxClock BY <2>8 DEF WaitDone
    <3>2. Id(now, sequence_id_) \in Nat BY <3>1, IdNat
    <3> QED BY <2>8, <3>1, <3>2 DEF WaitDone
  <2>9. CASE Tick BY <2>9 DEF Tick
  <2>10. CASE SetBack BY <2>10 DEF SetBack
  <2>11. CASE Restart BY <2>11 DEF Restart
  <2>12. CASE UNCHANGED vars BY <2>12 DEF vars
  <2> QED BY <2>1, <2>2, <2>3, <2>4, <2>5, <2>6, <2>7, <2>8, <2>9, <2>10, <2>11, <2>12
          DEF Next, next_id
<1> QED BY <1>1, <1>2, PTL DEF Spec

-----------------------------------------------------------------------------
\* SequenceBounded is not inductive: the sequence number may grow at the limit
\* only if the clock stands at or before last_timestamp_, and after a wait it
\* does not unless it was set back since.
SeqInv ==
  /\ SequenceBounded
  /\ (mtx_ = Nobody /\ clock <= last_timestamp_) => sequence_id_ < SEQ_LIMIT + backs

\* The sequence number of next_id() passes its limit at most once for each time
\* the clock is set back, although it is not reset after wait_till_next_ms().
THEOREM SequenceBoundedCorrect == Spec => []SequenceBounded
<1>1. Init => SeqInv BY DEF Init, SeqInv, SequenceBounded
<1>2. TypeOK /\ SeqInv /\ [Next]_vars => SeqInv'
  <2> SUFFICES ASSUME TypeOK, SeqInv, [Next]_vars PROVE SeqInv' OBVIOUS
  <2> USE DEF TypeOK, SeqInv, SequenceBounded
  <2>1. ASSUME NEW t \in Threads, NextIdNewMs(t) PROVE SeqInv' BY <2>1 DEF NextIdNewMs
  <2>2. ASSUME NEW t \in Threads, NextIdSameMs(t) PROVE SeqInv' BY <2>2 DEF NextIdSameMs
  <2>3. ASSUME NEW t \in Threads, NextIdExhausted(t) PROVE SeqInv' BY <2>3 DEF NextIdExhausted
  <2>4. ASSUME NEW t \in Threads, NextIdRefused(t) PROVE SeqInv' BY <2>4 DEF NextIdRefused, vars
  <2>5. ASSUME NEW t \in Threads, WaitEnter(t) PROVE SeqInv' BY <2>5 DEF WaitEnter
  <2>6. ASSUME NEW t \in Threads, WaitLoop(t) PROVE SeqInv' BY <2>6 DEF WaitLoop
  <2>7. ASSUME NEW t \in Threads, WaitBody(t) PROVE SeqInv' BY <2>7 DEF WaitBody
  <2>8. ASSUME NEW t \in Threads, WaitDone(t) PROVE SeqInv' BY <2>8 DEF WaitDone
  <2>9. CASE Tick BY <2>9 DEF Tick
  <2>10. CASE SetBack BY <2>10 DEF SetBack
  <2>11. CASE Restart BY <2>11 DEF Restart
  <2>12. CASE UNCHANGED vars BY <2>12 DEF vars
  <2> QED BY <2>1, <2>2, <2>3, <2>4, <2>5, <2>6, <2>7, <2>8, <2>9, <2>10, <2>11, <2>12
          DEF Next, next_id
<1>3. SeqInv => SequenceBounded BY DEF SeqInv
<1> QED BY <1>1, <1>2, <1>3, TypeCorrect, PTL DEF Spec

-----------------------------------------------------------------------------
\* Every id returned so far is at most b.
AtMost(b) == \A i \in 1..Len(issued) : issued[i] <= b

\* What makes the order of the ids inductive.  When the mutex is free,
\* last_timestamp_ and sequence_id_ bound every id returned.  While a call
\* waits, sequence_id_ is already one further and the millisecond it will use
\* is not before last_timestamp_.
OrderInv ==
  (~exposed /\ backs < SEQ_LIMIT) =>
    /\ Increasing
    /\ mtx_ = Nobody => AtMost(Id(last_timestamp_, sequence_id_))
    /\ mtx_ # Nobody =>
         /\ sequence_id_ > 0
         /\ AtMost(Id(last_timestamp_, sequence_id_ - 1))
         /\ clock >= last_timestamp_
         /\ pc \in {"cond", "body"} => now >= last_timestamp_

\* A longer history that ends with an id above all the others is increasing.
LEMMA AppendIncreasing ==
  ASSUME issued \in Seq(Nat), Increasing,
         NEW b \in Nat, AtMost(b), NEW n \in Nat, b < n,
         issued' = Append(issued, n)
  PROVE  Increasing' /\ (\A i \in 1..Len(issued') : issued'[i] <= n)
<1>1. Len(issued') = Len(issued) + 1 /\ Len(issued) \in Nat OBVIOUS
<1>2. \A i \in 1..Len(issued) : issued'[i] = issued[i] /\ issued[i] \in Nat OBVIOUS
<1>3. issued'[Len(issued) + 1] = n OBVIOUS
<1>4. \A i \in 1..Len(issued) : issued'[i] < n BY <1>2 DEF AtMost
<1>5. Increasing'
  <2> SUFFICES ASSUME NEW i \in 1..Len(issued'), NEW j \in 1..Len(issued'), i < j
               PROVE  issued'[i] < issued'[j]
    BY DEF Increasing
  <2>1. i \in 1..Len(issued) BY <1>1
  <2>2. CASE j = Len(issued) + 1 BY <2>1, <2>2, <1>3, <1>4
  <2>3. CASE j \in 1..Len(issued) BY <2>1, <2>3, <1>2 DEF Increasing
  <2> QED BY <1>1, <2>2, <2>3
<1> QED BY <1>1, <1>3, <1>4, <1>5, <1>2

\* A bound on the ids is also one after it is raised and nothing was returned.
LEMMA AtMostRaised ==
  ASSUME issued \in Seq(Nat), NEW b \in Nat, NEW c \in Nat, b <= c, AtMost(b)
  PROVE  AtMost(c)
<1>1. \A i \in 1..Len(issued) : issued[i] \in Nat OBVIOUS
<1> QED BY <1>1 DEF AtMost

\* The ids of next_id() are returned in increasing order over all threads and
\* restarts, unless the clock goes back during wait_till_next_ms() or is behind
\* last_timestamp_ at a restart.
THEOREM IncreasingCorrect == Spec => []IncreasingUnlessExposed
<1>1. Init => OrderInv BY DEF Init, OrderInv, Increasing, AtMost
<1>2. TypeOK /\ SequenceBounded /\ OrderInv /\ [Next]_vars => OrderInv'
  <2> SUFFICES ASSUME TypeOK, SequenceBounded, OrderInv, [Next]_vars,
                      ~exposed', backs' < SEQ_LIMIT
               PROVE  OrderInv'
    BY DEF OrderInv
  <2>0. ~exposed /\ backs < SEQ_LIMIT
    <3>1. backs <= backs'
      BY DEF TypeOK, Next, next_id, NextIdNewMs, NextIdSameMs, NextIdExhausted, NextIdRefused,
             WaitEnter, WaitLoop, WaitBody, WaitDone, Tick, SetBack, Restart, vars
    <3>2. ~exposed
      BY DEF Next, next_id, NextIdNewMs, NextIdSameMs, NextIdExhausted, NextIdRefused,
             WaitEnter, WaitLoop, WaitBody, WaitDone, Tick, SetBack, Restart, vars
    <3>3. backs' \in Nat
      BY DEF TypeOK, Next, next_id, NextIdNewMs, NextIdSameMs, NextIdExhausted, NextIdRefused,
             WaitEnter, WaitLoop, WaitBody, WaitDone, Tick, SetBack, Restart, vars
    <3> QED BY <3>1, <3>2, <3>3 DEF TypeOK
  <2>a. sequence_id_ < SEQ_SPAN BY <2>0 DEF TypeOK, SequenceBounded
  <2>b. last_timestamp_ \in custom_epoch_..MaxClock /\ clock \in custom_epoch_..MaxClock
        /\ sequence_id_ \in Nat /\ issued \in Seq(Nat)
    BY DEF TypeOK
  <2>c. Increasing BY <2>0 DEF OrderInv
  <2>d. Id(last_timestamp_, sequence_id_) \in Nat BY <2>b, IdNat
  <2>1. ASSUME NEW t \in Threads, NextIdNewMs(t) PROVE OrderInv'
    <3>1. AtMost(Id(last_timestamp_, sequence_id_)) BY <2>0, <2>1 DEF OrderInv, NextIdNewMs
    <3>2. Id(last_timestamp_, sequence_id_) < Id(clock, 0)
      BY <2>1, <2>a, <2>b, IdTimeOrder DEF NextIdNewMs
    <3>3. Id(clock, 0) \in Nat BY <2>b, IdNat
    <3>4. issued' = Append(issued, Id(clock, 0)) BY <2>1 DEF NextIdNewMs
    <3>5. Increasing' /\ (\A i \in 1..Len(issued') : issued'[i] <= Id(clock, 0))
      BY <2>b, <2>c, <2>d, <3>1, <3>2, <3>3, <3>4, AppendIncreasing
    <3>6. mtx_' = Nobody /\ last_timestamp_' = clock /\ sequence_id_' = 0
      BY <2>1 DEF NextIdNewMs
    <3> QED BY <3>5, <3>6 DEF OrderInv, AtMost
  <2>2. ASSUME NEW t \in Threads, NextIdSameMs(t) PROVE OrderInv'
    <3> DEFINE n == Id(clock, sequence_id_ + 1)
    <3>1. AtMost(Id(last_timestamp_, sequence_id_)) BY <2>0, <2>2 DEF OrderInv, NextIdSameMs
    <3>2. Id(last_timestamp_, sequence_id_) < n
      <4>1. clock = last_timestamp_ BY <2>2 DEF NextIdSameMs
      <4> QED BY <4>1, <2>b, IdSeqOrder
    <3>3. n \in Nat BY <2>b, IdNat
    <3>4. issued' = Append(issued, n) BY <2>2 DEF NextIdSameMs
    <3>5. mtx_' = Nobody /\ last_timestamp_' = clock /\ sequence_id_' = sequence_id_ + 1
      BY <2>2 DEF NextIdSameMs
    <3>6. n = Id(last_timestamp_', sequence_id_') BY <3>5
    <3> HIDE DEF n
    <3>7. Increasing' /\ (\A i \in 1..Len(issued') : issued'[i] <= n)
      BY <2>b, <2>c, <2>d, <3>1, <3>2, <3>3, <3>4, AppendIncreasing
    <3> QED BY <3>5, <3>6, <3>7 DEF OrderInv, AtMost
  <2>3. ASSUME NEW t \in Threads, NextIdExhausted(t) PROVE OrderInv'
    <3>1. AtMost(Id(last_timestamp_, sequence_id_)) BY <2>0, <2>3 DEF OrderInv, NextIdExhausted
    <3>2. /\ mtx_' = t /\ pc' = "enter" /\ sequence_id_' = sequence_id_ + 1
          /\ UNCHANGED <<issued, last_timestamp_, clock>> /\ clock = last_timestamp_
      BY <2>3 DEF NextIdExhausted
    <3>3. sequence_id_' - 1 = sequence_id_ /\ sequence_id_' > 0 BY <2>b, <3>2
    <3>4. clock' >= last_timestamp_' BY <2>b, <3>2
    <3> QED BY <2>c, <3>1, <3>2, <3>3, <3>4 DEF OrderInv, AtMost, Increasing
  <2>4. ASSUME NEW t \in Threads, NextIdRefused(t) PROVE OrderInv'
    BY <2>0, <2>4 DEF NextIdRefused, vars, OrderInv, AtMost, Increasing, Id
  <2>5. ASSUME NEW t \in Threads, WaitEnter(t) PROVE OrderInv'
    BY <2>0, <2>5 DEF WaitEnter, OrderInv, AtMost, Increasing, Id
  <2>6. ASSUME NEW t \in Threads, WaitLoop(t) PROVE OrderInv'
    BY <2>0, <2>6 DEF WaitLoop, OrderInv, AtMost, Increasing, Id
  <2>7. ASSUME NEW t \in Threads, WaitBody(t) PROVE OrderInv'
    BY <2>0, <2>7 DEF WaitBody, OrderInv, AtMost, Increasing, Id
  <2>8. ASSUME NEW t \in Threads, WaitDone(t) PROVE OrderInv'
    <3> DEFINE b == Id(last_timestamp_, sequence_id_ - 1)
               n == Id(now, sequence_id_)
    <3>0. mtx_ # Nobody /\ pc = "cond" BY <2>8 DEF WaitDone
    <3>1. AtMost(b) /\ sequence_id_ > 0 /\ now >= last_timestamp_
      BY <2>0, <3>0 DEF OrderInv
    <3>2. now \in custom_epoch_..MaxClock BY <3>0 DEF TypeOK
    <3>3. b \in Nat BY <2>b, <3>1, IdNat
    <3>4. n \in Nat BY <2>b, <3>2, IdNat
    <3>5. b < n
      <4>1. CASE now = last_timestamp_ BY <4>1, <2>b, <3>1, IdSeqOrder
      <4>2. CASE now > last_timestamp_
        <5>1. sequence_id_ - 1 \in 0..(SEQ_SPAN - 1) BY <2>a, <2>b, <3>1
        <5> QED BY <4>2, <5>1, <2>b, <3>2, IdTimeOrder
      <4> QED BY <4>1, <4>2, <3>1, <3>2, <2>b
    <3>6. issued' = Append(issued, n) BY <2>8 DEF WaitDone
    <3>7. mtx_' = Nobody /\ last_timestamp_' = now /\ sequence_id_' = sequence_id_
      BY <2>8 DEF WaitDone
    <3>8. n = Id(last_timestamp_', sequence_id_') BY <3>7
    <3> HIDE DEF n, b
    <3>9. Increasing' /\ (\A i \in 1..Len(issued') : issued'[i] <= n)
      BY <2>b, <2>c, <3>1, <3>3, <3>4, <3>5, <3>6, AppendIncreasing
    <3> QED BY <3>7, <3>8, <3>9 DEF OrderInv, AtMost
  <2>9. CASE Tick
    BY <2>0, <2>9, <2>b DEF Tick, OrderInv, AtMost, Increasing, Id
  <2>10. CASE SetBack
    <3>1. mtx_ = Nobody /\ UNCHANGED <<mtx_, issued, last_timestamp_, sequence_id_>>
      BY <2>10 DEF SetBack
    <3> QED BY <2>0, <3>1 DEF OrderInv, AtMost, Increasing, Id
  <2>11. CASE Restart
    <3>1. /\ mtx_' = Nobody /\ last_timestamp_' = clock + 1 /\ sequence_id_' = 0
          /\ UNCHANGED issued /\ ~(clock + 1 <= last_timestamp_) /\ clock < MaxClock
      BY <2>11 DEF Restart
    <3>2. clock + 1 \in custom_epoch_..MaxClock /\ last_timestamp_ < clock + 1
      BY <2>b, <3>1
    <3>3. Id(clock + 1, 0) \in Nat BY <3>2, IdNat
    <3>4. AtMost(Id(clock + 1, 0))
      <4>1. CASE mtx_ = Nobody
        <5>1. Id(last_timestamp_, sequence_id_) < Id(clock + 1, 0)
          BY <2>a, <2>b, <3>2, IdTimeOrder
        <5>2. AtMost(Id(last_timestamp_, sequence_id_)) BY <2>0, <4>1 DEF OrderInv
        <5> QED BY <2>b, <2>d, <3>3, <5>1, <5>2, AtMostRaised
      <4>2. CASE mtx_ # Nobody
        <5>1. sequence_id_ - 1 \in 0..(SEQ_SPAN - 1) /\ sequence_id_ - 1 \in Nat
          BY <2>0, <2>a, <2>b, <4>2 DEF OrderInv
        <5>2. Id(last_timestamp_, sequence_id_ - 1) < Id(clock + 1, 0)
          BY <2>b, <3>2, <5>1, IdTimeOrder
        <5>3. Id(last_timestamp_, sequence_id_ - 1) \in Nat BY <2>b, <5>1, IdNat
        <5>4. AtMost(Id(last_timestamp_, sequence_id_ - 1)) BY <2>0, <4>2 DEF OrderInv
        <5> QED BY <2>b, <3>3, <5>2, <5>3, <5>4, AtMostRaised
      <4> QED BY <4>1, <4>2
    <3> QED BY <2>c, <3>1, <3>4 DEF OrderInv, AtMost, Increasing
  <2>12. CASE UNCHANGED vars BY <2>0, <2>12 DEF vars, OrderInv, AtMost, Increasing, Id
  <2> QED BY <2>1, <2>2, <2>3, <2>4, <2>5, <2>6, <2>7, <2>8, <2>9, <2>10, <2>11, <2>12
          DEF Next, next_id
<1>3. OrderInv => IncreasingUnlessExposed BY DEF OrderInv, IncreasingUnlessExposed
<1> QED BY <1>1, <1>2, <1>3, TypeCorrect, SequenceBoundedCorrect, PTL DEF Spec
=============================================================================
