----------------------------- MODULE Rendezvous -----------------------------
(***************************************************************************)
(* What the signaling server promises the people who use it, without any   *)
(* word of how it keeps the promise: two browsers that name the same room  *)
(* are put into it together, they are given one link mode, which is "p2p"  *)
(* only if both of them asked for it, and the room vanishes with the last  *)
(* of them.  RoomServer.tla is the program; its room table is shown to     *)
(* do so as long as no handlers overlap on a room and no third client comes.*)
(***************************************************************************)
EXTENDS Naturals, FiniteSets

CONSTANTS Sessions,     \* the websocket sessions that may be opened
          Rooms         \* the room names ("secret words")

VARIABLES occupants,    \* occupants[x] : the sessions in room x
          mode          \* mode[x] : link mode of room x, "" when it is empty

vars == <<occupants, mode>>

LinkTypes == {"p2p", "relayed"}

\* The first to come decides alone; the second can only turn p2p into relayed.
Agreed(asked, standing) == IF asked = standing THEN asked ELSE "relayed"

TypeOK == /\ occupants \in [Rooms -> SUBSET Sessions]
          /\ mode \in [Rooms -> LinkTypes \cup {""}]

Init == /\ occupants = [x \in Rooms |-> {}]
        /\ mode = [x \in Rooms |-> ""]

Found(s, x, lt) ==
    /\ occupants[x] = {}
    /\ occupants' = [occupants EXCEPT ![x] = {s}]
    /\ mode' = [mode EXCEPT ![x] = lt]

Join(s, x, lt) ==
    /\ \E t \in Sessions \ {s} : occupants[x] = {t}
    /\ occupants' = [occupants EXCEPT ![x] = @ \cup {s}]
    /\ mode' = [mode EXCEPT ![x] = Agreed(lt, @)]

Leave(s, x) ==
    /\ s \in occupants[x]
    /\ occupants' = [occupants EXCEPT ![x] = @ \ {s}]
    /\ mode' = [mode EXCEPT ![x] = IF occupants[x] = {s} THEN "" ELSE @]

Next == \E s \in Sessions, x \in Rooms :
            \/ \E lt \in LinkTypes : Found(s, x, lt) \/ Join(s, x, lt)
            \/ Leave(s, x)

Spec == Init /\ [][Next]_vars
=============================================================================
