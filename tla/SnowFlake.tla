------------------------------ MODULE SnowFlake ------------------------------
(***************************************************************************)
(* The id generator, src/utils/snowflake.{hpp,cpp}.                        *)
(*                                                                         *)
(* Every user, room and message id of the server comes from                *)
(* SnowFlake::next_id(), called by the worker threads under one mutex.     *)
(* An id packs milliseconds since custom_epoch, the service id and a       *)
(* sequence number of the millisecond.                                     *)
(*                                                                         *)
(* The mutex makes a call that does not wait a single step.  A call that   *)
(* exhausts the millisecond reads the clock several times in               *)
(* wait_till_next_ms() while holding the mutex, and the clock moves        *)
(* between those reads: each read is a step.                               *)
(***************************************************************************)
EXTENDS Integers, Sequences

CONSTANTS
  Threads,        \* callers of next_id()
  Nobody,         \* the mutex is free
  SEQ_LIMIT,      \* 1 << (SEQUENCE_BITS - 1): where next_id() starts to wait
  SEQ_SPAN,       \* 1 << SEQUENCE_BITS: values of the sequence field
  SERVICE_SPAN,   \* 1 << SERVICE_BITS: values of the service field
  TS_SPAN,        \* 2^64 / (SERVICE_SPAN * SEQ_SPAN): values of the time field
  service_id_,    \* Server.service_id of the configuration
  custom_epoch_,  \* Server.custom_epoch of the configuration
  StartClock,     \* the system clock when the server is first started
  MaxClock,       \* bound: the clock stops there
  MaxBack,        \* bound: how often the clock is set back (by any amount)
  MaxRestarts     \* bound: how often the server is restarted

ASSUME SeqAssumption ==
  SEQ_LIMIT \in Nat \ {0} /\ SEQ_SPAN = 2 * SEQ_LIMIT
ASSUME ServiceAssumption ==
  \* init() refuses a service id that does not fit its field
  SERVICE_SPAN \in Nat \ {0} /\ service_id_ \in 0..(SERVICE_SPAN - 1)
ASSUME ClockAssumption ==
  \* the 42 bits of the time field last for 139 years after custom_epoch
  /\ StartClock \in Nat /\ MaxClock \in Nat /\ custom_epoch_ \in Nat
  /\ custom_epoch_ <= StartClock /\ StartClock <= MaxClock
  /\ TS_SPAN \in Nat /\ MaxClock - custom_epoch_ < TS_SPAN
ASSUME BoundAssumption ==
  MaxBack \in Nat /\ MaxRestarts \in Nat

ASSUME NobodyAssumption == Nobody \notin Threads

VARIABLES
  clock,            \* std::chrono::system_clock, in milliseconds
  last_timestamp_,
  sequence_id_,
  mtx_,             \* holder of the mutex while a call waits, or Nobody
  pc,               \* where the holder is in wait_till_next_ms()
  now,              \* its local variable now
  issued,           \* history: the ids returned, in order, over all restarts
  exposed,          \* history: the clock was set back where next_id() cannot see it
  backs, restarts   \* counters for the bounds

vars == <<clock, last_timestamp_, sequence_id_, mtx_, pc, now,
          issued, exposed, backs, restarts>>

\* next_id(): time_stamp - custom_epoch_, shifted, or-ed with the shifted service id
\* and the sequence number; the time field is what is left of 64 bits.
Id(time_stamp, seq) ==
  ((time_stamp - custom_epoch_) % TS_SPAN) * (SERVICE_SPAN * SEQ_SPAN)
  + service_id_ * SEQ_SPAN + seq

Init ==
  /\ clock = StartClock
  /\ last_timestamp_ = StartClock
  /\ sequence_id_ = 0
  /\ mtx_ = Nobody
  /\ pc = "out"
  /\ now = 0
  /\ issued = <<>>
  /\ exposed = FALSE
  /\ backs = 0
  /\ restarts = 0

-----------------------------------------------------------------------------
\* Mutation: the sequence goes on in a new millisecond.
NextIdNewMsNoReset(t) ==
  /\ mtx_ = Nobody
  /\ clock > last_timestamp_
  /\ sequence_id_' = sequence_id_ + 1
  /\ last_timestamp_' = clock
  /\ issued' = Append(issued, Id(clock, sequence_id_ + 1))
  /\ UNCHANGED <<clock, mtx_, pc, now, exposed, backs, restarts>>

\* next_id() in a new millisecond: the sequence starts again at 0.
NextIdNewMs(t) ==
  /\ mtx_ = Nobody
  /\ clock > last_timestamp_
  /\ sequence_id_' = 0
  /\ last_timestamp_' = clock
  /\ issued' = Append(issued, Id(clock, 0))
  /\ UNCHANGED <<clock, mtx_, pc, now, exposed, backs, restarts>>

\* next_id() in the millisecond of the previous call.
NextIdSameMs(t) ==
  /\ mtx_ = Nobody
  /\ clock = last_timestamp_
  /\ sequence_id_ + 1 < SEQ_LIMIT
  /\ sequence_id_' = sequence_id_ + 1
  /\ issued' = Append(issued, Id(clock, sequence_id_ + 1))
  /\ UNCHANGED <<clock, last_timestamp_, mtx_, pc, now, exposed, backs, restarts>>

\* next_id(): the increment reaches SEQ_LIMIT; the caller keeps the mutex and
\* enters wait_till_next_ms().
NextIdExhausted(t) ==
  /\ mtx_ = Nobody
  /\ clock = last_timestamp_
  /\ sequence_id_ + 1 >= SEQ_LIMIT
  /\ sequence_id_' = sequence_id_ + 1
  /\ mtx_' = t
  /\ pc' = "enter"
  /\ UNCHANGED <<clock, last_timestamp_, now, issued, exposed, backs, restarts>>

\* next_id() with the clock behind the last id: "Clock moved backwards" is thrown
\* and nothing changes.
NextIdRefused(t) ==
  /\ mtx_ = Nobody
  /\ clock < last_timestamp_
  /\ UNCHANGED vars

\* wait_till_next_ms(): auto now = time_gen().
WaitEnter(t) ==
  /\ mtx_ = t /\ pc = "enter"
  /\ now' = clock
  /\ pc' = "cond"
  /\ UNCHANGED <<clock, last_timestamp_, sequence_id_, mtx_, issued, exposed, backs, restarts>>

\* wait_till_next_ms(): the loop goes on while time_gen() <= now.
WaitLoop(t) ==
  /\ mtx_ = t /\ pc = "cond"
  /\ clock <= now
  /\ pc' = "body"
  /\ UNCHANGED <<clock, last_timestamp_, sequence_id_, mtx_, now, issued, exposed, backs, restarts>>

\* wait_till_next_ms(): yield, then now = time_gen().
WaitBody(t) ==
  /\ mtx_ = t /\ pc = "body"
  /\ now' = clock
  /\ pc' = "cond"
  /\ UNCHANGED <<clock, last_timestamp_, sequence_id_, mtx_, issued, exposed, backs, restarts>>

\* Mutation: next_id() starts a new sequence after the wait, with the stale
\* millisecond that wait_till_next_ms() returned.
WaitDoneResets(t) ==
  /\ mtx_ = t /\ pc = "cond"
  /\ clock > now
  /\ last_timestamp_' = now
  /\ sequence_id_' = 0
  /\ issued' = Append(issued, Id(now, 0))
  /\ mtx_' = Nobody
  /\ pc' = "out"
  /\ now' = 0
  /\ UNCHANGED <<clock, exposed, backs, restarts>>

\* Mutation: the mutex is not unlocked after the wait.
WaitDoneKeepsLock(t) ==
  /\ mtx_ = t /\ pc = "cond"
  /\ clock > now
  /\ last_timestamp_' = now
  /\ issued' = Append(issued, Id(now, sequence_id_))
  /\ pc' = "out"
  /\ now' = 0
  /\ UNCHANGED <<clock, sequence_id_, mtx_, exposed, backs, restarts>>

\* wait_till_next_ms() saw the clock pass now and returns now, the millisecond
\* before the one it waited for; next_id() uses it with the sequence number
\* that made it wait, and unlocks.
WaitDone(t) ==
  /\ mtx_ = t /\ pc = "cond"
  /\ clock > now
  /\ last_timestamp_' = now
  /\ issued' = Append(issued, Id(now, sequence_id_))
  /\ mtx_' = Nobody
  /\ pc' = "out"
  /\ now' = 0
  /\ UNCHANGED <<clock, sequence_id_, exposed, backs, restarts>>

-----------------------------------------------------------------------------
\* External: the clock advances.
Tick ==
  /\ clock < MaxClock
  /\ clock' = clock + 1
  /\ UNCHANGED <<last_timestamp_, sequence_id_, mtx_, pc, now, issued, exposed, backs, restarts>>

\* External: the clock is set back.  A call that is not waiting reads the clock once and
\* compares it with last_timestamp_; wait_till_next_ms() compares it with nothing.
SetBack ==
  /\ backs < MaxBack
  /\ \E c \in StartClock..(clock - 1) : clock' = c
  /\ backs' = backs + 1
  /\ exposed' = (exposed \/ mtx_ # Nobody)
  /\ UNCHANGED <<last_timestamp_, sequence_id_, mtx_, pc, now, issued, restarts>>

\* The process stops at any point and is started again: the statics have their initial
\* values and init() reads the clock.  The ids already returned are in the
\* database.  Starting the process takes at least a millisecond.
Restart ==
  /\ restarts < MaxRestarts
  /\ clock < MaxClock
  /\ restarts' = restarts + 1
  /\ clock' = clock + 1
  /\ last_timestamp_' = clock + 1
  /\ sequence_id_' = 0
  /\ mtx_' = Nobody
  /\ pc' = "out"
  /\ now' = 0
  /\ exposed' = (exposed \/ clock + 1 <= last_timestamp_)
  /\ UNCHANGED <<issued, backs>>

next_id(t) ==
  \/ NextIdNewMs(t)
  \/ NextIdSameMs(t)
  \/ NextIdExhausted(t)
  \/ NextIdRefused(t)
  \/ WaitEnter(t)
  \/ WaitLoop(t)
  \/ WaitBody(t)
  \/ WaitDone(t)

Next ==
  \/ \E t \in Threads : next_id(t)
  \/ Tick
  \/ SetBack
  \/ Restart

Spec == Init /\ [][Next]_vars

-----------------------------------------------------------------------------
(***************************************************************************)
(* Properties                                                              *)
(***************************************************************************)

\* Every variable stays in its type, and the mutex is held exactly while a call is in
\* wait_till_next_ms().
TypeOK ==
  /\ clock \in StartClock..MaxClock
  /\ last_timestamp_ \in StartClock..MaxClock
  /\ sequence_id_ \in Nat
  /\ mtx_ \in Threads \cup {Nobody}
  /\ pc \in {"out", "enter", "cond", "body"}
  /\ (pc = "out") <=> (mtx_ = Nobody)
  /\ now \in 0..MaxClock
  /\ (pc \in {"cond", "body"}) => now >= StartClock
  /\ issued \in Seq(Nat)
  /\ exposed \in BOOLEAN
  /\ backs \in 0..MaxBack
  /\ restarts \in 0..MaxRestarts

\* next_id() does not reset sequence_id_ after wait_till_next_ms(): the number
\* still grows past the limit by at most one for each time the clock is set
\* back.  With fewer than SEQ_LIMIT set-backs it never spills into the service id.
SequenceBounded == sequence_id_ <= SEQ_LIMIT + backs

\* No two ids returned by next_id() are equal, over all threads and restarts.
UniqueIds ==
  \A i, j \in 1..Len(issued) : i # j => issued[i] # issued[j]

Increasing ==
  \A i, j \in 1..Len(issued) : i < j => issued[i] < issued[j]

\* Ids are returned in increasing order, over all threads, restarts and set-backs of
\* the clock, unless the clock goes back during wait_till_next_ms() or is
\* behind last_timestamp_ when the process is restarted.  In particular the
\* stale millisecond that wait_till_next_ms() returns, used with the sequence
\* number that made it wait, is no duplicate.
IncreasingUnlessExposed ==
  (~exposed /\ backs < SEQ_LIMIT) => Increasing
=============================================================================
