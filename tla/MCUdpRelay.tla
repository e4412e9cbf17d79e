----------------------------- MODULE MCUdpRelay -----------------------------
(***************************************************************************)
(* An instance of UdpRelay for TLC: a call whose offer has two candidates  *)
(* and whose answer has one, so that both sides need each other's ports    *)
(* and two proxies of one side the same port.                              *)
(***************************************************************************)
EXTENDS UdpRelay

MCSdp == [f \in Forwards |-> IF f = "offer" THEN <<"c", 1, 2>> ELSE <<"c", 3>>]
MCPartner == [f \in Forwards |-> IF f = "offer" THEN "answer" ELSE "offer"]
MCSources == [f \in Forwards |-> IF f = "offer" THEN {1} ELSE {3}]
=============================================================================
