------------------------------ MODULE UdpRelay ------------------------------
(***************************************************************************)
(* The relayed link: rtcSignaling.go:343-443 patches the session           *)
(* description of a forward and starts a proxy per candidate, and          *)
(* udpProxy.go relays.  A proxy <<f, i>> is a worker, which reads what the *)
(* partner's client sends to the listening connection c, and a sub         *)
(* goroutine, which reads c2, the connection dialed to f's own client.     *)
(* c listens on the port f's client has at home; c2 is dialed from the     *)
(* port the partner's client sends from.  Both clients of a call forward   *)
(* a description, so each needs the port of the other's proxy.             *)
(*                                                                         *)
(* The goroutines share c, c2 and the map udpConns without a lock.  A      *)
(* method of a nil connection panics, and a map that two goroutines use    *)
(* while one of them writes may abort the process: nothing recovers, so    *)
(* either ends the server.  (README.md:14 asks for Go 1.1, where Close on  *)
(* nil may still be an error, but the code imports golang.org/x/net.)      *)
(* Left out: runningThreads, which is only logged.                         *)
(***************************************************************************)
EXTENDS Naturals, Sequences, FiniteSets

CONSTANTS Forwards,     \* relayed forwards, each served by a handler of its own
          Answers,      \* those sent on receipt of the partner's forward
          Sdp,          \* where f's description holds the address of its first
                        \* server-reflexive candidate: "c" for the line "c=",
                        \* the port for a candidate
          Partner,      \* the forward of the other client, or Nobody
          Nobody,
          Sources,      \* the ports f's client sends from
          MaxNumber     \* the last sessionNumber before it starts at 0 again

ASSUME RelayAssumption ==
    /\ Answers \subseteq Forwards
    /\ IsFiniteSet(Forwards)
    /\ \A f \in Forwards : Len(Sdp[f]) > 0 /\ Tail(Sdp[f]) \in Seq(Nat)
    /\ Nobody \notin Forwards
    /\ Partner \in [Forwards -> Forwards \cup {Nobody}]
    /\ \A f \in Forwards : Partner[f] # Nobody => Partner[Partner[f]] = f
    /\ \A f \in Answers : Partner[f] # Nobody
    /\ Sources \in [Forwards -> SUBSET (Nat \ {0})]
    /\ MaxNumber \in Nat

VARIABLES
    sessionNumber,
    handler,       \* how many proxies each handler has started; one more: done
    number,        \* the session number each proxy got
    worker, sub,   \* where the goroutines of each proxy stand
    c, c2,         \* the connections of each proxy
    nils,          \* <<p, 0>>, <<p, 1>>: p's variable c, c2 has become nil
    from,          \* the port of the first datagram, 0 before it
    next,          \* the index a worker's teardown has come to
    udpConns,      \* names <<session, proxy, 0 or 1>> to a proxy, or Nil
    gone,          \* the forwards whose clients are gone
    process,       \* "up", or what ended it: "panic", "abort"
    gaveUp,        \* history: proxies that found the port for c2 in use
    collided,      \* history: did it belong to another call, or to a proxy that
                   \* was about to give up?
    overlapped     \* history: did one start proxies in the middle of another?

conns == <<c, c2, nils, udpConns>>
history == <<gaveUp, collided, overlapped>>
threads == <<worker, sub, from, next>>
vars == <<sessionNumber, handler, number, threads, conns, gone, process, history>>

\* The first occurrence of the address is taken for the line "c=" and gets no
\* proxy; each of the others gets one, whose number is its index.
Ports(f) == Tail(Sdp[f])

Proxies == UNION {{<<f, i>> : i \in 0..(Len(Ports(f)) - 1)} : f \in Forwards}
Port(p) == Ports(p[1])[p[2] + 1]
Session(f) == {p \in Proxies : p[1] = f}

Closed == "closed"
Nil == <<>>

\* No two sockets of the machine are bound to one port.
Owners(port) == {p \in Proxies : \/ c[p] = "open" /\ Port(p) = port
                                 \/ c2[p] = "open" /\ from[p] = port}

Idle == [p \in Proxies |-> "none"]
Zero == [p \in Proxies |-> 0]
NoNames == [n \in {} |-> Nil]

Init ==
    /\ sessionNumber = 0
    /\ handler = [f \in Forwards |-> 0]
    /\ number = Zero /\ from = Zero /\ next = Zero
    /\ worker = Idle /\ sub = Idle
    /\ c = Idle /\ c2 = Idle
    /\ nils = {}
    /\ udpConns = NoNames
    /\ gone = {}
    /\ process = "up"
    /\ gaveUp = {}
    /\ collided = FALSE
    /\ overlapped = FALSE
-----------------------------------------------------------------------------
(* The handler of a forward. *)

Done(f) == handler[f] = Len(Ports(f)) + 1
Arrived(f) == f \in Answers => Done(Partner[f])
Midway(f) == handler[f] # 0 /\ ~Done(f)

\* UdpProxy: a port in use is only logged, and the next candidate's turn comes.
UdpProxy(f) ==
    /\ process = "up" /\ Arrived(f) /\ handler[f] < Len(Ports(f))
    /\ LET p == <<f, handler[f]>> IN
         /\ number' = [number EXCEPT ![p] = sessionNumber]
         /\ IF Owners(Port(p)) = {}
            THEN c' = [c EXCEPT ![p] = "open"] /\ worker' = [worker EXCEPT ![p] = "started"]
            ELSE c' = c /\ worker' = [worker EXCEPT ![p] = "failed"]
    /\ handler' = [handler EXCEPT ![f] = @ + 1]
    /\ overlapped' = (overlapped \/ \E g \in Forwards \ {f} : Midway(g))
    /\ UNCHANGED <<sessionNumber, sub, c2, nils, from, next, udpConns, gone, process,
                   gaveUp, collided>>

\* (Mutant: the next session gets the same number.)
NextSessionForgotten(f) ==
    /\ process = "up" /\ Arrived(f) /\ handler[f] = Len(Ports(f))
    /\ handler' = [handler EXCEPT ![f] = @ + 1]
    /\ UNCHANGED <<sessionNumber, number, threads, conns, gone, process, history>>

NextSession(f) ==
    /\ process = "up" /\ Arrived(f) /\ handler[f] = Len(Ports(f))
    /\ sessionNumber' = IF sessionNumber + 1 > MaxNumber THEN 0 ELSE sessionNumber + 1
    /\ handler' = [handler EXCEPT ![f] = @ + 1]
    /\ overlapped' = (overlapped \/ \E g \in Forwards \ {f} : Midway(g))
    /\ UNCHANGED <<number, threads, conns, gone, process, gaveUp, collided>>

\* A client closes its page or loses its network.
ClientGone(f) ==
    /\ process = "up" /\ f \notin gone
    /\ gone' = gone \cup {f}
    /\ UNCHANGED <<sessionNumber, handler, number, threads, conns, process, history>>

\* The process ends: its memory is gone, and the system closes its sockets.
Dies(how) ==
    /\ process' = how
    /\ sessionNumber' = 0 /\ handler' = [f \in Forwards |-> 0]
    /\ number' = Zero /\ from' = Zero /\ next' = Zero
    /\ worker' = Idle /\ sub' = Idle
    /\ c' = Idle /\ c2' = Idle /\ nils' = {} /\ udpConns' = NoNames
    /\ UNCHANGED <<gone, history>>
-----------------------------------------------------------------------------
(* The worker of a proxy. *)

Goes(p, from0, to) == worker[p] = from0 /\ worker' = [worker EXCEPT ![p] = to]
Shut(conn, ps) == [q \in Proxies |-> IF q \in ps /\ conn[q] = "open" THEN Closed ELSE conn[q]]
KeepHandlers == UNCHANGED <<sessionNumber, handler, number, gone, process, overlapped>>
KeepDials == UNCHANGED <<from, gaveUp, collided>>
Named(name, conn) == [n \in DOMAIN udpConns \cup {name} |-> IF n = name THEN conn ELSE udpConns[n]]
NilC(p) == <<p, 0>> \in nils
NilC2(p) == <<p, 1>> \in nils

\* The target's address, a word of the client's description, is none of an IPv4
\* host: the worker returns, and c stays open.
NotResolved(p) ==
    /\ Goes(p, "started", "unresolved")
    /\ KeepHandlers /\ KeepDials /\ UNCHANGED <<sub, conns, next>>

\* (Mutant: the name is made of the shared number.)
StoreListenerShared(p) ==
    /\ Goes(p, "started", "reading")
    /\ udpConns' = Named(<<sessionNumber, p[2], 0>>, p)
    /\ KeepHandlers /\ KeepDials /\ UNCHANGED <<sub, c, c2, nils, next>>

StoreListener(p) ==
    /\ Goes(p, "started", "reading")
    /\ udpConns' = Named(<<number[p], p[2], 0>>, p)
    /\ KeepHandlers /\ KeepDials /\ UNCHANGED <<sub, c, c2, nils, next>>

\* A datagram of the partner's client, not from the port of the target.
Datagram(p, port) ==
    /\ c[p] = "open"
    /\ Partner[p[1]] \notin gone \cup {Nobody}
    /\ port \in Sources[Partner[p[1]]] \ {Port(p)}

SameCall(p, q) == q[1] \in {p[1], Partner[p[1]]}

\* The first one: c2 is dialed from the port it came from, which the proxy
\* of the other side may have.
FirstDatagram(p, port) ==
    /\ Datagram(p, port) /\ from[p] = 0
    /\ from' = [from EXCEPT ![p] = port]
    /\ IF Owners(port) = {}
       THEN /\ Goes(p, "reading", "dialed")
            /\ c2' = [c2 EXCEPT ![p] = "open"]
            /\ UNCHANGED <<gaveUp, collided>>
       ELSE /\ Goes(p, "reading", "refused")
            /\ c2' = c2
            /\ gaveUp' = gaveUp \cup {p}
            /\ collided' = (collided \/ \E q \in Owners(port) :
                                worker[q] = "refused" \/ ~SameCall(p, q))
    /\ KeepHandlers /\ UNCHANGED <<sub, c, nils, next, udpConns>>

\* (Mutant: c stays open.)
GiveUpListening(p) ==
    /\ Goes(p, "refused", "done")
    /\ KeepHandlers /\ KeepDials /\ UNCHANGED <<sub, conns, next>>

GiveUp(p) ==
    /\ Goes(p, "refused", "done")
    /\ c' = Shut(c, {p}) /\ nils' = nils \cup {<<p, 0>>}
    /\ KeepHandlers /\ KeepDials /\ UNCHANGED <<sub, c2, next, udpConns>>

\* c2 gets a name, unless an older session left one.
DialedName(p) == <<number[p], p[2], 1>>
StoreDialed(p) ==
    /\ Goes(p, "dialed", "writing")
    /\ udpConns' = IF DialedName(p) \in DOMAIN udpConns
                   THEN udpConns ELSE Named(DialedName(p), p)
    /\ KeepHandlers /\ KeepDials /\ UNCHANGED <<sub, c, c2, nils, next>>

\* A later one: once c2 is nil, the worker drops it, which changes nothing.
LaterDatagram(p, port) ==
    /\ Datagram(p, port) /\ from[p] # 0 /\ ~NilC2(p)
    /\ Goes(p, "reading", "writing")
    /\ KeepHandlers /\ KeepDials /\ UNCHANGED <<sub, conns, next>>

\* The first datagram that goes out starts the sub goroutine.
Written(p) ==
    /\ c2[p] = "open" /\ ~NilC2(p)
    /\ Goes(p, "writing", "reading")
    /\ sub' = [sub EXCEPT ![p] = IF @ = "none" THEN "reading" ELSE @]
    /\ KeepHandlers /\ KeepDials /\ UNCHANGED <<conns, next>>

\* Write fails: c2 was closed, f's client refuses, or the network does.  The
\* worker leaves without the teardown.
WriteFails(p) ==
    /\ ~NilC2(p)
    /\ Goes(p, "writing", "leaving")
    /\ c2' = Shut(c2, {p}) /\ nils' = nils \cup {<<p, 1>>}
    /\ KeepHandlers /\ KeepDials /\ UNCHANGED <<sub, c, next, udpConns>>

\* c was closed by another goroutine.
ReadClosed(p) ==
    /\ c[p] = Closed
    /\ Goes(p, "reading", "teardown")
    /\ KeepHandlers /\ KeepDials /\ UNCHANGED <<sub, conns, next>>

\* (Mutant: the first datagram takes the deadline away.)
DeadlineFirst(p) ==
    /\ c[p] = "open" /\ from[p] = 0
    /\ Goes(p, "reading", "teardown")
    /\ KeepHandlers /\ KeepDials /\ UNCHANGED <<sub, conns, next>>

\* The deadline is over: 60 s, and 3 h after every datagram.
Deadline(p) ==
    /\ c[p] = "open"
    /\ Goes(p, "reading", "teardown")
    /\ KeepHandlers /\ KeepDials /\ UNCHANGED <<sub, conns, next>>

NameOf(p, k) == <<number[p], next[p], k>>
Held(p, k) == IF NameOf(p, k) \in DOMAIN udpConns THEN {udpConns[NameOf(p, k)]} ELSE {}
MoreNames(p) == worker[p] = "teardown" /\ NameOf(p, 0) \in DOMAIN udpConns
FindsNil(p) == Nil \in Held(p, 0) \cup Held(p, 1)

\* The teardown closes the connections of the session, proxy by proxy, up to
\* the first index that has no name.
Teardown(p) ==
    /\ MoreNames(p) /\ ~FindsNil(p)
    /\ c' = Shut(c, Held(p, 0)) /\ c2' = Shut(c2, Held(p, 1))
    /\ udpConns' = [n \in DOMAIN udpConns |->
                       IF n \in {NameOf(p, 0), NameOf(p, 1)} THEN Nil ELSE udpConns[n]]
    /\ next' = [next EXCEPT ![p] = @ + 1]
    /\ KeepHandlers /\ KeepDials /\ UNCHANGED <<worker, sub, nils>>

TornDown(p) ==
    /\ ~MoreNames(p)
    /\ Goes(p, "teardown", "leaving")
    /\ KeepHandlers /\ KeepDials /\ UNCHANGED <<sub, conns, next>>

\* The end of the worker: c is closed, then c2, unless it is nil already.
Leave(p) ==
    /\ Goes(p, "leaving", IF NilC2(p) \/ from[p] = 0 THEN "done" ELSE "dropping")
    /\ c' = Shut(c, {p}) /\ nils' = nils \cup {<<p, 0>>}
    /\ KeepHandlers /\ KeepDials /\ UNCHANGED <<sub, c2, next, udpConns>>

\* (Mutant: c2 stays open.)
DropOpen(p) ==
    /\ ~NilC2(p)
    /\ Goes(p, "dropping", "done")
    /\ KeepHandlers /\ KeepDials /\ UNCHANGED <<sub, conns, next>>

DropDialed(p) ==
    /\ ~NilC2(p)
    /\ Goes(p, "dropping", "done")
    /\ c2' = Shut(c2, {p}) /\ nils' = nils \cup {<<p, 1>>}
    /\ KeepHandlers /\ KeepDials /\ UNCHANGED <<sub, c, next, udpConns>>

\* The worker calls Close or Write on nil: another teardown was at this name
\* before, or the sub goroutine has set c2 to nil since the worker tested it.
WorkerPanics(p) ==
    /\ \/ MoreNames(p) /\ FindsNil(p)
       \/ worker[p] \in {"writing", "dropping"} /\ NilC2(p)
    /\ Dies("panic")
-----------------------------------------------------------------------------
(* The sub goroutine of a proxy. *)

\* c2 is closed, or the client it was dialed to is gone and refuses; or c is
\* closed when there is data to write.  Both connections are closed, c2 first.
SubFails(p) ==
    /\ sub[p] = "reading" /\ ~NilC2(p)
    /\ \/ c2[p] = Closed
       \/ p[1] \in gone
       \/ c[p] = Closed /\ ~NilC(p)
    /\ sub' = [sub EXCEPT ![p] = "closing"]
    /\ c2' = Shut(c2, {p}) /\ nils' = nils \cup {<<p, 1>>}
    /\ KeepHandlers /\ KeepDials /\ UNCHANGED <<worker, c, next, udpConns>>

SubEnds(p) ==
    /\ sub[p] = "closing" /\ ~NilC(p)
    /\ sub' = [sub EXCEPT ![p] = "done"]
    /\ c' = Shut(c, {p})
    /\ KeepHandlers /\ KeepDials /\ UNCHANGED <<worker, c2, nils, next, udpConns>>

\* The test of its loop finds a nil ...
SubLeaves(p) ==
    /\ sub[p] = "reading" /\ (NilC(p) \/ NilC2(p))
    /\ sub' = [sub EXCEPT ![p] = "done"]
    /\ KeepHandlers /\ KeepDials /\ UNCHANGED <<worker, conns, next>>

\* ... or the goroutine meets it behind the test: the worker sets c and c2 to nil
\* as soon as it has closed them, which is what wakes this goroutine.
SubPanics(p) ==
    /\ \/ sub[p] = "reading" /\ (NilC2(p) \/ (NilC(p) /\ p[1] \notin gone))
       \/ sub[p] = "closing" /\ NilC(p)
    /\ Dies("panic")

\* Two workers use the map at once, and one of them writes.
UsesMap(p) == worker[p] \in {"started", "dialed", "teardown"}
WritesMap(p) == \/ worker[p] = "started"
                \/ worker[p] = "dialed" /\ DialedName(p) \notin DOMAIN udpConns
                \/ MoreNames(p)
MapAbort(p, q) == p # q /\ WritesMap(p) /\ UsesMap(q) /\ Dies("abort")

SourcePorts == UNION {Sources[f] : f \in Forwards}
Handle(f) == UdpProxy(f) \/ NextSession(f)
Work(p) == \/ NotResolved(p) \/ StoreListener(p)
           \/ GiveUp(p) \/ StoreDialed(p) \/ Written(p) \/ WriteFails(p)
           \/ ReadClosed(p) \/ Teardown(p) \/ TornDown(p) \/ Leave(p) \/ DropDialed(p)
           \/ WorkerPanics(p)
Sub(p) == SubFails(p) \/ SubEnds(p) \/ SubLeaves(p) \/ SubPanics(p)

Next ==
    \/ \E f \in Forwards : Handle(f) \/ ClientGone(f)
    \/ \E p \in Proxies :
         \/ Work(p) \/ Deadline(p) \/ Sub(p)
         \/ \E port \in SourcePorts : FirstDatagram(p, port) \/ LaterDatagram(p, port)
         \/ \E q \in Proxies : MapAbort(p, q)

Spec == Init /\ [][Next]_vars

\* The scheduler runs every goroutine, a read of a closed connection returns,
\* and once the partner's client is gone no datagram puts the deadline off.
\* The clients owe nothing.
Silent(p) == Partner[p[1]] \in gone \cup {Nobody}
FairSpec ==
    /\ Spec
    /\ \A f \in Forwards : WF_vars(Handle(f))
    /\ \A p \in Proxies :
         /\ WF_vars(Work(p))
         /\ WF_vars(Silent(p) /\ Deadline(p))
         /\ WF_vars(c2[p] = Closed /\ Sub(p))
-----------------------------------------------------------------------------
Places == {"none", "failed", "started", "unresolved", "reading", "dialed", "refused",
           "writing", "teardown", "leaving", "dropping", "done"}
Conns == {"none", "open", Closed}

\* The type invariant; a name of udpConns leads to a proxy of its own index
\* and number, or to nil.
TypeOK ==
    /\ sessionNumber \in 0..MaxNumber
    /\ \A f \in Forwards : handler[f] \in 0..(Len(Ports(f)) + 1)
    /\ number \in [Proxies -> 0..MaxNumber]
    /\ worker \in [Proxies -> Places]
    /\ sub \in [Proxies -> {"none", "reading", "closing", "done"}]
    /\ c \in [Proxies -> Conns] /\ c2 \in [Proxies -> Conns]
    /\ nils \subseteq Proxies \X {0, 1}
    /\ from \in [Proxies -> {0} \cup SourcePorts]
    /\ \A p \in Proxies : next[p] \in 0..Cardinality(Proxies)
    /\ \A n \in DOMAIN udpConns :
         udpConns[n] # Nil => number[udpConns[n]] = n[1] /\ udpConns[n][2] = n[2]
    /\ gone \subseteq Forwards /\ gaveUp \subseteq Proxies
    /\ process \in {"up", "panic", "abort"}
    /\ collided \in BOOLEAN /\ overlapped \in BOOLEAN

\* A port of the server has one socket, and a worker that has left its loop,
\* whatever way, holds none (udpProxy.go:123, 150, 214-223).  The one that keeps
\* its port for good is the worker that returned before the loop, because the
\* target did not resolve (44-48).
PortsGivenBack ==
    /\ \A port \in SourcePorts : Cardinality(Owners(port)) <= 1
    /\ \A p \in Proxies :
         /\ c[p] = "open" => worker[p] \notin {"none", "failed", "done"}
         /\ c2[p] = "open" => worker[p] \notin {"none", "failed", "unresolved", "done"}

\* The two sides of a call race for each other's port, and "address already in
\* use" "is expected" of one of them (udpProxy.go:119-121).  A call loses all
\* its proxies to that error only when one of them dials before another, already
\* refused, has closed its own connection (lines 116-123), or when another call
\* has the port.
OneSideStays ==
    \A f \in Answers :
       LET call == Session(f) \cup Session(Partner[f]) IN
         call # {} /\ call \subseteq gaveUp => collided

\* While the process lives, a teardown (udpProxy.go:72-94) closes the connections
\* of its own forward only, as long as handlers do not start proxies in turns and
\* sessionNumber has not started again: a call is not cut off when another ends.
\* (Often it does not live: the teardown of a session's next worker calls Close on
\* the nil connections that the first one left, lines 80-81, and panics.)
OwnSessionOnly ==
    [][\A q \in Proxies :
         (/\ c[q] = "open" /\ c'[q] = Closed
          /\ worker'[q] = worker[q] /\ sub'[q] = sub[q]) =>
         \/ overlapped
         \/ Cardinality(Forwards) > MaxNumber + 1
         \/ \E p \in Session(q[1]) : next'[p] # next[p]]_vars

\* Once its clients are gone, nothing of a forward stays open: its goroutines
\* close it, or the system does after a panic of theirs.  What stays is the
\* listening connection of a proxy whose target did not resolve (udpProxy.go:44-48).
Quiet(f) == \A p \in Session(f) : /\ c[p] = "open" => worker[p] = "unresolved"
                                  /\ c2[p] # "open"
WindsDown ==
    \A f \in Forwards :
       (f \in gone /\ (\A p \in Session(f) : Silent(p)) /\ Done(f)) ~> Quiet(f)
=============================================================================
