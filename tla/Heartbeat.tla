----------------------------- MODULE Heartbeat -----------------------------
(***************************************************************************)
(* The heartbeat that rtccallee.js, caller-enter-name.js and               *)
(* callee-new-keys.js share word for word: how a page keeps a websocket to *)
(* its service.  checkHeartBeats is a chain of timers, one chain for every *)
(* websocket that opened; onerror sets a timer of its own.  Both call      *)
(* connectTo...Service, which overwrites the global socket and closes      *)
(* nothing, so chains, timers and websockets can pile up.                  *)
(*                                                                         *)
(* Time is lastServerAction's age: "fresh" up to 3000 ms, "late" up to     *)
(* 6000 ms, "stale" after that.  The branch if(!socket) is left out: new   *)
(* WebSocket never returns null.                                           *)
(***************************************************************************)
EXTENDS Naturals

CONSTANTS MaxOutages,  \* bound: times the network goes down
          MaxErrors    \* bound: error events of websockets that were open

ASSUME OutagesAssumption == MaxOutages \in Nat /\ MaxErrors \in Nat

VARIABLES
    socket,     \* the global: the websocket created last
    older,      \* how many earlier ones are still connecting
    olderOpen,  \* is an earlier one open that may still fail?
    loops,      \* chains of checkHeartBeats
    timers,     \* reconnects that onerror has scheduled
    age,        \* of lastServerAction
    asked,      \* is an "alive?" on its way?
    beaten,     \* has a chain had its turn since age last changed?
    net,        \* does the network work?
    outages,
    errors      \* error events of open websockets so far

page == <<socket, older, olderOpen, loops, timers>>
vars == <<page, age, asked, beaten, net, outages, errors>>

\* What is under way to get the page connected, or to find that it is not.
Connecting == older + (IF socket = "connecting" THEN 1 ELSE 0)
Tries == loops + timers + Connecting

Init ==
    /\ socket = "connecting"
    /\ older = 0 /\ olderOpen = FALSE
    /\ loops = 0 /\ timers = 0
    /\ age = "fresh" /\ asked = FALSE /\ beaten = FALSE
    /\ net = TRUE /\ outages = 0 /\ errors = 0

-----------------------------------------------------------------------------
\* new WebSocket: the earlier one lives on without a name.
connectToService ==
    /\ socket' = "connecting"
    /\ older' = Connecting
    /\ olderOpen' = (olderOpen \/ socket \in {"open", "dead"})

\* (Mutant: the heartbeat is not started.)
onopenUnwatched ==
    /\ age' = "fresh"
    /\ beaten' = FALSE
    /\ UNCHANGED loops

\* lastServerAction is now, and one more chain starts.
onopen ==
    /\ age' = "fresh"
    /\ beaten' = FALSE
    /\ loops' = loops + 1

Opens ==
    /\ net
    /\ \/ socket = "connecting" /\ socket' = "open" /\ UNCHANGED <<older, olderOpen>>
       \/ older > 0 /\ older' = older - 1 /\ olderOpen' = TRUE /\ UNCHANGED socket
    /\ onopen
    /\ UNCHANGED <<timers, asked, net, outages, errors>>

onerror == timers' = timers + 1

FailsToOpen ==
    /\ ~net
    /\ \/ socket = "connecting" /\ socket' = "failed" /\ UNCHANGED older
       \/ older > 0 /\ older' = older - 1 /\ UNCHANGED socket
    /\ onerror
    /\ UNCHANGED <<olderOpen, loops, age, asked, beaten, net, outages, errors>>

\* An open websocket reports an error, while its chain goes on.
FailsWhenOpen ==
    /\ ~net
    /\ errors < MaxErrors
    /\ errors' = errors + 1
    /\ \/ socket \in {"open", "dead"} /\ socket' = "failed" /\ UNCHANGED olderOpen
       \/ olderOpen /\ olderOpen' = FALSE /\ UNCHANGED socket
    /\ onerror
    /\ asked' = FALSE
    /\ UNCHANGED <<older, loops, age, beaten, net, outages>>

TimerFires ==
    /\ timers > 0
    /\ timers' = timers - 1
    /\ connectToService
    /\ UNCHANGED <<loops, age, asked, beaten, net, outages, errors>>

-----------------------------------------------------------------------------
(* checkHeartBeats, every 500 ms.                                          *)

\* (Mutant: the chain goes on beside the new connection's.)
ReconnectAndStay ==
    /\ age = "stale"
    /\ loops > 0
    /\ connectToService
    /\ UNCHANGED <<loops, timers, age, asked, beaten, net, outages, errors>>

\* "must reconnect": the new websocket will have a chain of its own.
Reconnect ==
    /\ age = "stale"
    /\ loops > 0
    /\ loops' = loops - 1
    /\ connectToService
    /\ UNCHANGED <<timers, age, asked, beaten, net, outages, errors>>

\* A send on a websocket that is not connecting is done, or silently dropped.
AskAlive ==
    /\ age = "late"
    /\ loops > 0
    /\ socket # "connecting"
    /\ asked' = (asked \/ socket = "open")
    /\ beaten' = TRUE
    /\ UNCHANGED <<page, age, net, outages, errors>>

\* On a connecting one it throws, and the chain ends.
AskThrows ==
    /\ age = "late"
    /\ loops > 0
    /\ socket = "connecting"
    /\ loops' = loops - 1
    /\ UNCHANGED <<socket, older, olderOpen, timers, age, asked, beaten, net, outages, errors>>

\* (Mutant: the answer does not reset the clock.)
AliveIgnored ==
    /\ asked /\ net
    /\ asked' = FALSE
    /\ UNCHANGED <<page, age, beaten, net, outages, errors>>

\* "alive!" arrives.
Alive ==
    /\ asked /\ net
    /\ asked' = FALSE
    /\ age' = "fresh"
    /\ beaten' = FALSE
    /\ UNCHANGED <<page, net, outages, errors>>

\* Time passes.  Within three seconds a chain has its turn, and a server that
\* can be reached answers.
Passes ==
    /\ \/ age = "fresh" /\ age' = "late"
       \/ age = "late" /\ (loops = 0 \/ beaten) /\ ~(asked /\ net) /\ age' = "stale"
    /\ beaten' = FALSE
    /\ UNCHANGED <<page, asked, net, outages, errors>>

-----------------------------------------------------------------------------
(* The network.                                                            *)

GoesDown ==
    /\ net /\ outages < MaxOutages
    /\ net' = FALSE
    /\ outages' = outages + 1
    /\ UNCHANGED <<page, age, asked, beaten, errors>>

ComesBack ==
    /\ ~net
    /\ net' = TRUE
    /\ UNCHANGED <<page, age, asked, beaten, outages, errors>>

\* A connection can die in an outage without either end being told.
Dies ==
    /\ ~net /\ socket = "open"
    /\ socket' = "dead"
    /\ asked' = FALSE
    /\ UNCHANGED <<older, olderOpen, loops, timers, age, beaten, net, outages, errors>>

-----------------------------------------------------------------------------
Beats == Reconnect \/ AskAlive \/ AskThrows
Network == GoesDown \/ ComesBack \/ Dies \/ FailsWhenOpen

Next == Opens \/ FailsToOpen \/ TimerFires \/ Beats \/ Alive \/ Passes \/ Network

\* Browsers fire timers, resolve every connection attempt and deliver messages;
\* time goes on.  Networks owe nothing.
Fairness == /\ WF_vars(Opens \/ FailsToOpen) /\ WF_vars(TimerFires) /\ WF_vars(Beats)
            /\ WF_vars(Alive) /\ WF_vars(Passes)

Spec == Init /\ [][Next]_vars
FairSpec == Spec /\ Fairness

-----------------------------------------------------------------------------
(* Properties.                                                             *)

TypeOK ==
    /\ socket \in {"connecting", "open", "dead", "failed"}
    /\ older \in Nat /\ olderOpen \in BOOLEAN
    /\ loops \in Nat /\ timers \in Nat
    /\ age \in {"fresh", "late", "stale"}
    /\ asked \in BOOLEAN /\ beaten \in BOOLEAN /\ net \in BOOLEAN
    /\ outages \in 0..MaxOutages /\ errors \in 0..MaxErrors

\* A page never stops trying: it has a chain, a reconnect that is scheduled, or
\* a websocket that is connecting, although a chain that sends too early dies of
\* the exception (rtccallee.js:177, 57-60).
NeverGivesUp == Tries > 0

\* The connection a page uses is watched by a chain as long as it looks open,
\* also if it died in silence (rtccallee.js:39-46, 169-173).
OpenIsWatched == socket \in {"open", "dead"} => loops > 0

\* Chains, timers and connection attempts multiply only with the errors of
\* websockets that were open, never by reconnecting as such (rtccallee.js:57,
\* 169-173): without such an error a page has one of them, and it always has
\* one, whatever fails.
TriesCounted == NeverGivesUp /\ Tries <= 1 + errors

\* When the network stays up the page is connected in the end and stays so, on
\* one and the same websocket.
Recovers == <>[]net => <>[](socket = "open")
=============================================================================
