---------------------------- MODULE MCCallCenter ----------------------------
(* Small instances of CallCenter for TLC.                                  *)
EXTENDS CallCenter, TLC

\* Pages are interchangeable, and so are connections, keys, callers and sessions.
Alike == Permutations(Pages) \cup Permutations(Conns)
            \cup Permutations(Keys) \cup Permutations(Callers)
            \cup Permutations(Sessions)
=============================================================================
