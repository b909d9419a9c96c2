----------------------------- MODULE MCChatRooms -----------------------------
(***************************************************************************)
(* Instances of ChatRooms for TLC.                                         *)
(***************************************************************************)
EXTENDS ChatRooms
=============================================================================
