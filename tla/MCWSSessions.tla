---------------------------- MODULE MCWSSessions ----------------------------
(***************************************************************************)
(* Instances of WSSessions for TLC.  Sessions and workers are              *)
(* interchangeable, and so are the users.                                  *)
(***************************************************************************)
EXTENDS WSSessions, TLC

Symmetry == Permutations(Users) \cup Permutations(Sessions) \cup Permutations(Workers)
=============================================================================
