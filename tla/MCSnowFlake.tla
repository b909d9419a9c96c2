---------------------------- MODULE MCSnowFlake ----------------------------
(***************************************************************************)
(* Instances of SnowFlake for TLC.  The threads are interchangeable.       *)
(***************************************************************************)
EXTENDS SnowFlake, TLC

Symmetry == Permutations(Threads)
=============================================================================
