---------------------------- MODULE MCChatSystem ----------------------------
(* A small instance of ChatSystem for TLC. *)
EXTENDS ChatSystem
=============================================================================
