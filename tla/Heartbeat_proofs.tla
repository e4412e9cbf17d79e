-------------------------- MODULE Heartbeat_proofs --------------------------
(***************************************************************************)
(* Heartbeat's safety for any number of outages and errors: each invariant *)
(* is inductive together with the types, because no step takes a chain, a  *)
(* timer or a connection attempt away without putting one in its place,    *)
(* but for the exception, which needs an attempt that is under way.        *)
(***************************************************************************)
EXTENDS Heartbeat, TLAPS

\* The types of the flags, and those of everything else.
Flags == olderOpen \in BOOLEAN /\ asked \in BOOLEAN /\ beaten \in BOOLEAN /\ net \in BOOLEAN

Counters ==
    /\ socket \in {"connecting", "open", "dead", "failed"}
    /\ age \in {"fresh", "late", "stale"}
    /\ older \in Nat /\ loops \in Nat /\ timers \in Nat
    /\ outages \in 0..MaxOutages /\ errors \in 0..MaxErrors

\* What the page has in the air, and who watches what is open.
BeatInv == Counters /\ NeverGivesUp /\ OpenIsWatched /\ TriesCounted

\* The page starts with one connection attempt.
LEMMA BeatInit == Init => BeatInv /\ Flags
  <1>1. Init => BeatInv
    BY OutagesAssumption, SMT DEF Init, BeatInv, Counters, NeverGivesUp, OpenIsWatched,
                                  TriesCounted, Tries, Connecting
  <1>2. Init => Flags
    BY Zenon DEF Init, Flags
  <1> QED
    BY <1>1, <1>2

\* Every step keeps the counts.
LEMMA BeatStep == BeatInv /\ [Next]_vars => BeatInv'
  <1> SUFFICES ASSUME BeatInv, [Next]_vars PROVE BeatInv'
    OBVIOUS
  <1> USE OutagesAssumption DEF BeatInv, Counters, NeverGivesUp, OpenIsWatched, TriesCounted,
                                Tries, Connecting
  <1>1. CASE Opens
    BY <1>1, SMT DEF Opens, onopen
  <1>2. CASE FailsToOpen
    BY <1>2, SMT DEF FailsToOpen, onerror
  <1>3. CASE TimerFires
    BY <1>3, SMT DEF TimerFires, connectToService
  <1>4. CASE Reconnect
    BY <1>4, SMT DEF Reconnect, connectToService
  <1>5. CASE AskAlive
    BY <1>5, SMT DEF AskAlive, page
  <1>6. CASE AskThrows
    BY <1>6, SMT DEF AskThrows
  <1>7. CASE Alive
    BY <1>7, SMT DEF Alive, page
  <1>8. CASE Passes
    BY <1>8, SMT DEF Passes, page
  <1>9. CASE GoesDown
    BY <1>9, SMT DEF GoesDown, page
  <1>10. CASE ComesBack
    BY <1>10, SMT DEF ComesBack, page
  <1>11. CASE Dies
    BY <1>11, SMT DEF Dies
  <1>12. CASE FailsWhenOpen
    BY <1>12, SMT DEF FailsWhenOpen, onerror
  <1>13. CASE UNCHANGED vars
    BY <1>13, SMT DEF vars, page
  <1> QED
    BY <1>1, <1>2, <1>3, <1>4, <1>5, <1>6, <1>7, <1>8, <1>9, <1>10, <1>11, <1>12, <1>13
       DEF Next, Beats, Network

\* Every step keeps the flags.
LEMMA FlagsStep == Flags /\ [Next]_vars => Flags'
  <1> SUFFICES ASSUME Flags, [Next]_vars PROVE Flags'
    OBVIOUS
  <1> USE DEF Flags
  <1>1. CASE Opens
    BY <1>1, Zenon DEF Opens, onopen
  <1>2. CASE FailsToOpen
    BY <1>2, Zenon DEF FailsToOpen, onerror
  <1>3. CASE TimerFires
    BY <1>3, Zenon DEF TimerFires, connectToService
  <1>4. CASE Reconnect
    BY <1>4, Zenon DEF Reconnect, connectToService
  <1>5. CASE AskAlive
    BY <1>5, Zenon DEF AskAlive, page
  <1>6. CASE AskThrows
    BY <1>6, Zenon DEF AskThrows
  <1>7. CASE Alive
    BY <1>7, Zenon DEF Alive, page
  <1>8. CASE Passes
    BY <1>8, Zenon DEF Passes, page
  <1>9. CASE GoesDown
    BY <1>9, Zenon DEF GoesDown, page
  <1>10. CASE ComesBack
    BY <1>10, Zenon DEF ComesBack, page
  <1>11. CASE Dies
    BY <1>11, Zenon DEF Dies
  <1>12. CASE FailsWhenOpen
    BY <1>12, Zenon DEF FailsWhenOpen, onerror
  <1>13. CASE UNCHANGED vars
    BY <1>13, Zenon DEF vars, page
  <1> QED
    BY <1>1, <1>2, <1>3, <1>4, <1>5, <1>6, <1>7, <1>8, <1>9, <1>10, <1>11, <1>12, <1>13
       DEF Next, Beats, Network

\* The invariant holds all the time.
THEOREM BeatSafe == Spec => [](BeatInv /\ Flags)
  BY BeatInit, BeatStep, FlagsStep, PTL DEF Spec

\* Every variable of the heartbeat keeps its type.
THEOREM BeatTyped == Spec => []TypeOK
  <1>1. BeatInv /\ Flags => TypeOK
    BY Zenon DEF BeatInv, Counters, Flags, TypeOK
  <1> QED
    BY <1>1, BeatSafe, PTL

\* A page always has something under way that ends in a connection, however many
\* chains died of an exception (rtccallee.js:165-181).
THEOREM AlwaysTries == Spec => []NeverGivesUp
  BY BeatSafe, PTL DEF BeatInv

\* A connection in use always has a chain that watches it.
THEOREM AlwaysWatched == Spec => []OpenIsWatched
  BY BeatSafe, PTL DEF BeatInv

\* The page's attempts are at least one, and never more than one plus the errors
\* of websockets that were open.
THEOREM AttemptsBounded == Spec => []TriesCounted
  BY BeatSafe, PTL DEF BeatInv
=============================================================================
