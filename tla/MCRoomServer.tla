---------------------------- MODULE MCRoomServer ----------------------------
(* Small instances of RoomServer for TLC.                                  *)
EXTENDS RoomServer, TLC

\* Sessions are interchangeable, and so are rooms with a name.
Alike == Permutations(Sessions) \cup Permutations(Named)

\* A bound on larger instances: handlers never overlap on a room, and once a room
\* is crowded, which the properties do not speak of, no connection is broken.
InTurns ==
    /\ raced' = raced
    /\ crowded' # {} => \A s \in Sessions : net'[s] # "reset"
=============================================================================
