----------------------------- MODULE MCKeyStore -----------------------------
(***************************************************************************)
(* A small instance of KeyStore for TLC: one key, two goroutines that may  *)
(* store it at the same time, the cleaner and two crashes.                 *)
(***************************************************************************)
EXTENDS KeyStore
=============================================================================
