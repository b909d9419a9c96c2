---------------------------- MODULE HttpExchange ----------------------------
(***************************************************************************)
(* What an HTTP/1.1 connection promises its client: requests are taken one *)
(* at a time, every response is the response to the oldest request not yet *)
(* answered, and nothing is taken or answered once the connection is over. *)
(***************************************************************************)
EXTENDS Naturals, Sequences

VARIABLES
  taken,     \* requests taken so far: 1..taken
  answers,   \* responses on the wire, as the numbers of their requests
  over       \* the connection is no longer used for HTTP

vars == <<taken, answers, over>>

Init ==
  /\ taken = 0
  /\ answers = <<>>
  /\ over = FALSE

Take ==
  /\ ~over
  /\ taken = Len(answers)
  /\ taken' = taken + 1
  /\ UNCHANGED <<answers, over>>

\* The last answer may close the connection.
Answer ==
  /\ ~over
  /\ Len(answers) < taken
  /\ answers' = Append(answers, Len(answers) + 1)
  /\ over' \in BOOLEAN
  /\ UNCHANGED taken

End ==
  /\ ~over
  /\ over' = TRUE
  /\ UNCHANGED <<taken, answers>>

Next == Take \/ Answer \/ End

Spec == Init /\ [][Next]_vars
=============================================================================
