--------------------------- MODULE MCSqlConnPool ---------------------------
(***************************************************************************)
(* Instances of SqlConnPool for TLC.                                       *)
(***************************************************************************)
EXTENDS SqlConnPool
=============================================================================
