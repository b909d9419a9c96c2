------------------------------ MODULE TaskQueue ------------------------------
(***************************************************************************)
(* What the thread pool promises: tasks are started once and in the order  *)
(* they were added, none is added after the pool was told to stop, and the *)
(* pool is gone only when every task has been finished, unless the process *)
(* is terminated.  ThreadPool implements this specification.               *)
(***************************************************************************)
EXTENDS Naturals

VARIABLES
  added,     \* tasks added so far: 1..added
  started,   \* tasks started so far: 1..started
  finished,  \* the tasks that are over
  state      \* "open", "stopping", "gone" or "terminated"

vars == <<added, started, finished, state>>

Init == added = 0 /\ started = 0 /\ finished = {} /\ state = "open"

Add == state = "open" /\ added' = added + 1 /\ UNCHANGED <<started, finished, state>>

Start ==
  /\ state \in {"open", "stopping"}
  /\ started < added
  /\ started' = started + 1
  /\ UNCHANGED <<added, finished, state>>

Finish ==
  /\ state \in {"open", "stopping"}
  /\ \E t \in (1..started) \ finished : finished' = finished \cup {t}
  /\ UNCHANGED <<added, started, state>>

Stop == state = "open" /\ state' = "stopping" /\ UNCHANGED <<added, started, finished>>

Leave ==
  /\ state = "stopping" /\ finished = 1..added
  /\ state' = "gone"
  /\ UNCHANGED <<added, started, finished>>

Terminate ==
  /\ state # "gone"
  /\ state' = "terminated"
  /\ UNCHANGED <<added, started, finished>>

Next == Add \/ Start \/ Finish \/ Stop \/ Leave \/ Terminate

Spec == Init /\ [][Next]_vars
=============================================================================
