--------------------------- MODULE MCHttpSession ---------------------------
(***************************************************************************)
(* Instances of HttpSession for TLC.                                       *)
(***************************************************************************)
EXTENDS HttpSession
=============================================================================
