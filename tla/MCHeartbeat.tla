---------------------------- MODULE MCHeartbeat ----------------------------
(* A small instance of Heartbeat for TLC. *)
EXTENDS Heartbeat
=============================================================================
