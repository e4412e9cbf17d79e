--------------------------- MODULE UdpRelay_proofs ---------------------------
(***************************************************************************)
(* That the variables of the relay keep their types, that its ports are    *)
(* given back (UdpRelay!PortsGivenBack), that a call keeps a side unless   *)
(* another call is in its way (OneSideStays), and that a teardown reaches  *)
(* no other session (OwnSessionOnly), for any number of forwards,          *)
(* candidates and ports.                                                   *)
(***************************************************************************)
EXTENDS UdpRelay, FiniteSetTheorems, SequenceTheorems, TLAPS

\* A proxy has no c2, no sub goroutine and nothing to set to nil before its first
\* datagram; what became nil was closed; and a worker closes what it has before it
\* ends.
WorkerOf(p) ==
    /\ from[p] = 0 => /\ c2[p] # "open" /\ ~NilC2(p) /\ sub[p] = "none"
                      /\ worker[p] \notin {"dialed", "writing", "dropping"}
    /\ worker[p] \in {"none", "failed", "started", "unresolved"} => from[p] = 0
    /\ worker[p] \in {"none", "failed", "dropping", "done"} => c[p] # "open"
    /\ worker[p] \in {"refused", "done"} \/ NilC2(p) => c2[p] # "open"

OneOwner == \A port : \A p, q \in Owners(port) : p = q

Subs == {"none", "reading", "closing", "done"}

Typed == /\ worker \in [Proxies -> Places]
         /\ sub \in [Proxies -> Subs]
         /\ c \in [Proxies -> Conns] /\ c2 \in [Proxies -> Conns]
         /\ from \in [Proxies -> {0} \cup SourcePorts]

RelayInv == Typed /\ OneOwner /\ \A p \in Proxies : WorkerOf(p)

\* The handlers, and that only a live process has workers.
HandlerTyped ==
    /\ sessionNumber \in 0..MaxNumber
    /\ handler \in [Forwards -> Nat]
    /\ \A f \in Forwards : handler[f] <= Len(Ports(f)) + 1
    /\ number \in [Proxies -> 0..MaxNumber]
    /\ \A p \in Proxies : worker[p] = "none" <=> p[2] >= handler[p[1]]
    /\ gone \subseteq Forwards
    /\ process \in {"up", "panic", "abort"}
    /\ \A p \in Proxies : worker[p] # "none" => process = "up"

-----------------------------------------------------------------------------
\* Shut opens nothing.
LEMMA ShutOpensNothing ==
    ASSUME NEW conn \in [Proxies -> Conns], NEW ps
    PROVE  /\ Shut(conn, ps) \in [Proxies -> Conns]
           /\ \A q \in Proxies : Shut(conn, ps)[q] = "open" => conn[q] = "open" /\ q \notin ps
  BY DEF Shut, Conns, Closed

\* Most steps open nothing, and are of one proxy.
LEMMA NothingOpens ==
    ASSUME RelayInv, NEW p, Typed', from' = from,
           \A q \in Proxies : /\ c'[q] = "open" => c[q] = "open"
                              /\ c2'[q] = "open" => c2[q] = "open",
           \A q \in Proxies \ {p} : /\ worker'[q] = worker[q] /\ sub'[q] = sub[q]
                                    /\ NilC2(q)' <=> NilC2(q),
           p \in Proxies => WorkerOf(p)'
    PROVE  RelayInv'
<1>1. ASSUME NEW q \in Proxies \ {p} PROVE WorkerOf(q)'
  BY DEF RelayInv, WorkerOf
<1>2. \A port : Owners(port)' \subseteq Owners(port)
  BY DEF Owners
<1>3. OneOwner'
  BY <1>2 DEF RelayInv, OneOwner
<1>4. QED
  BY <1>1, <1>3 DEF RelayInv

\* The steps in which the worker goes somewhere else, and nothing more.
Moves == {<<"started", "unresolved">>, <<"started", "reading">>, <<"dialed", "writing">>,
          <<"writing", "reading">>, <<"reading", "writing">>, <<"reading", "teardown">>,
          <<"teardown", "leaving">>}
KeepsConns == c' = c /\ c2' = c2 /\ nils' = nils /\ from' = from

LEMMA GoesOn ==
    ASSUME RelayInv, NEW p \in Proxies, NEW from0, NEW to, <<from0, to>> \in Moves,
           Goes(p, from0, to), KeepsConns,
           from[p] # 0 \/ (to # "writing" /\ sub' = sub),
           sub' = sub \/ sub' = [sub EXCEPT ![p] = "reading"]
    PROVE  RelayInv'
<1>0. /\ to \in Places \ {"none", "failed", "started", "dialed", "dropping", "refused", "done"}
      /\ to = "unresolved" => from0 = "started"
      /\ c' = c /\ c2' = c2 /\ nils' = nils /\ from' = from
  BY DEF Moves, Places, KeepsConns
<1>1. /\ worker[p] = from0 /\ worker' = [worker EXCEPT ![p] = to]
      /\ worker \in [Proxies -> Places] /\ sub \in [Proxies -> Subs]
  BY DEF Goes, RelayInv, Typed
<1>2. Typed'
  BY <1>0, <1>1 DEF RelayInv, Typed, Subs
<1>3. /\ worker'[p] = to
      /\ \A q \in Proxies \ {p} : worker'[q] = worker[q] /\ sub'[q] = sub[q]
      /\ \A q : NilC2(q)' <=> NilC2(q)
      /\ from[p] = 0 => sub'[p] = sub[p]
  BY <1>0, <1>1 DEF NilC2
<1>4. WorkerOf(p)
  BY DEF RelayInv
<1>5. WorkerOf(p)'
  BY <1>0, <1>1, <1>3, <1>4 DEF WorkerOf
<1>6. QED
  BY <1>0, <1>2, <1>3, <1>5, NothingOpens

\* What a step of p that sets a variable to nil leaves of the others.
LEMMA NilsOf ==
    ASSUME NEW p, NEW k, nils' = nils \cup {<<p, k>>}
    PROVE  /\ \A q : q # p => (NilC2(q)' <=> NilC2(q))
           /\ k = 0 => (NilC2(p)' <=> NilC2(p))
           /\ k = 1 => NilC2(p)'
  BY DEF NilC2

-----------------------------------------------------------------------------
\* A proxy listens on a port nobody has.
LEMMA UdpProxyInv == ASSUME RelayInv, NEW f \in Forwards, UdpProxy(f),
                            <<f, handler[f]>> \in Proxies => worker[<<f, handler[f]>>] = "none"
                     PROVE  RelayInv'
<1>1. PICK p : p = <<f, handler[f]>>
  OBVIOUS
<1>2. PICK to \in {"started", "failed"} :
         /\ worker' = [worker EXCEPT ![p] = to] /\ c2' = c2 /\ from' = from
         /\ sub' = sub /\ nils' = nils
         /\ \/ c' = c /\ to = "failed"
            \/ Owners(Port(p)) = {} /\ c' = [c EXCEPT ![p] = "open"] /\ to = "started"
  BY <1>1 DEF UdpProxy
<1>3. /\ worker \in [Proxies -> Places] /\ c \in [Proxies -> Conns]
      /\ c2 \in [Proxies -> Conns] /\ from \in [Proxies -> {0} \cup SourcePorts]
      /\ OneOwner /\ \A q \in Proxies : WorkerOf(q)
  BY DEF RelayInv, Typed
<1>4. /\ worker' \in [Proxies -> Places] /\ c' \in [Proxies -> Conns]
      /\ \A q \in Proxies \ {p} : worker'[q] = worker[q] /\ c'[q] = c[q]
      /\ p \in Proxies => worker'[p] = to /\ worker[p] = "none"
      /\ \A q : NilC2(q)' <=> NilC2(q)
  BY <1>1, <1>2, <1>3 DEF Places, Conns, NilC2
<1>5. Typed'
  BY <1>2, <1>3, <1>4 DEF RelayInv, Typed
<1>6. ASSUME NEW q \in Proxies PROVE WorkerOf(q)'
  <2>1. WorkerOf(q)
    BY <1>3
  <2>2. CASE q # p
    BY <1>2, <1>4, <2>1, <2>2 DEF WorkerOf
  <2>3. CASE q = p /\ to = "started"
    BY <1>2, <1>4, <2>1, <2>3 DEF WorkerOf
  <2>4. CASE q = p /\ to = "failed" /\ c' = c
    BY <1>2, <1>4, <2>1, <2>4 DEF WorkerOf
  <2>5. QED
    BY <1>2, <2>2, <2>3, <2>4
<1>7. OneOwner'
  <2>1. CASE c' = c
    <3>1. \A port : Owners(port)' \subseteq Owners(port)
      BY <1>2, <2>1 DEF Owners
    <3>2. QED
      BY <1>3, <3>1 DEF OneOwner
  <2>2. CASE Owners(Port(p)) = {} /\ c' = [c EXCEPT ![p] = "open"]
    <3>1. \A port : Owners(port)' \subseteq Owners(port) \cup (IF port = Port(p) THEN {p} ELSE {})
      BY <1>2, <1>4 DEF Owners, Port
    <3>2. QED
      BY <1>3, <2>2, <3>1 DEF OneOwner
  <2>3. QED
    BY <1>2, <2>1, <2>2
<1>8. QED
  BY <1>5, <1>6, <1>7 DEF RelayInv

\* c2 is dialed from a port nobody has, or the worker is refused.
LEMMA FirstDatagramInv ==
    ASSUME RelayInv, NEW p \in Proxies, NEW port \in SourcePorts, FirstDatagram(p, port)
    PROVE  RelayInv'
<1>1. /\ from[p] = 0 /\ from' = [from EXCEPT ![p] = port] /\ c' = c
      /\ sub' = sub /\ nils' = nils
      /\ \/ /\ Owners(port) = {} /\ worker' = [worker EXCEPT ![p] = "dialed"]
            /\ c2' = [c2 EXCEPT ![p] = "open"]
         \/ worker' = [worker EXCEPT ![p] = "refused"] /\ c2' = c2
  BY DEF FirstDatagram, Goes
<1>2. /\ worker \in [Proxies -> Places] /\ c \in [Proxies -> Conns]
      /\ c2 \in [Proxies -> Conns] /\ from \in [Proxies -> {0} \cup SourcePorts]
      /\ OneOwner /\ \A q \in Proxies : WorkerOf(q)
  BY DEF RelayInv, Typed
<1>3. port # 0
  BY RelayAssumption DEF SourcePorts
<1>4. /\ from'[p] = port /\ c2[p] # "open" /\ ~NilC2(p)
      /\ \A q : NilC2(q)' <=> NilC2(q)
      /\ \A q \in Proxies \ {p} : /\ worker'[q] = worker[q] /\ c2'[q] = c2[q]
                                 /\ from'[q] = from[q]
  BY <1>1, <1>2 DEF WorkerOf, NilC2
<1>5. Typed'
  BY <1>1, <1>2 DEF RelayInv, Typed, Places, Conns
<1>6. ASSUME NEW q \in Proxies PROVE WorkerOf(q)'
  <2>1. CASE q # p
    <3>1. WorkerOf(q)
      BY <1>2
    <3>2. QED
      BY <1>1, <1>4, <2>1, <3>1 DEF WorkerOf
  <2>2. CASE q = p
    <3>1. CASE worker' = [worker EXCEPT ![p] = "dialed"]
      <4>1. worker'[p] = "dialed"
        BY <1>2, <3>1
      <4>2. QED
        BY <1>3, <1>4, <2>2, <4>1 DEF WorkerOf
    <3>2. CASE worker' = [worker EXCEPT ![p] = "refused"] /\ c2' = c2
      <4>1. worker'[p] = "refused"
        BY <1>2, <3>2
      <4>2. QED
        BY <1>3, <1>4, <2>2, <3>2, <4>1 DEF WorkerOf
    <3>3. QED
      BY <1>1, <3>1, <3>2
  <2>3. QED
    BY <2>1, <2>2
<1>7. OneOwner'
  <2>1. CASE Owners(port) = {}
    <3>1. \A n : Owners(n)' \subseteq Owners(n) \cup (IF n = port THEN {p} ELSE {})
      BY <1>1, <1>4 DEF Owners
    <3>2. QED
      BY <1>2, <2>1, <3>1 DEF OneOwner
  <2>2. CASE c2' = c2
    <3>1. \A n : Owners(n)' \subseteq Owners(n)
      BY <1>1, <1>4, <2>2 DEF Owners
    <3>2. QED
      BY <1>2, <3>1 DEF OneOwner
  <2>3. QED
    BY <1>1, <2>1, <2>2
<1>8. QED
  BY <1>5, <1>6, <1>7 DEF RelayInv

\* The steps of a worker that close a connection of its own.
LEMMA WorkerCloses ==
    ASSUME RelayInv, NEW p \in Proxies, GiveUp(p) \/ WriteFails(p) \/ Leave(p) \/ DropDialed(p)
    PROVE  RelayInv'
<1>1. /\ worker \in [Proxies -> Places] /\ c \in [Proxies -> Conns] /\ c2 \in [Proxies -> Conns]
      /\ WorkerOf(p)
  BY DEF RelayInv, Typed
<1> DEFINE cs == Shut(c, {p})
           c2s == Shut(c2, {p})
<1>2. /\ cs \in [Proxies -> Conns] /\ c2s \in [Proxies -> Conns]
      /\ \A q \in Proxies : /\ cs[q] = "open" => c[q] = "open"
                            /\ c2s[q] = "open" => c2[q] = "open"
      /\ cs[p] # "open" /\ c2s[p] # "open"
  BY <1>1, ShutOpensNothing
<1>3. /\ from' = from /\ sub' = sub
      /\ \/ /\ worker[p] = "refused" /\ worker' = [worker EXCEPT ![p] = "done"]
            /\ c' = cs /\ c2' = c2 /\ nils' = nils \cup {<<p, 0>>}
         \/ /\ worker[p] = "writing" /\ worker' = [worker EXCEPT ![p] = "leaving"]
            /\ c' = c /\ c2' = c2s /\ nils' = nils \cup {<<p, 1>>}
         \/ /\ worker[p] = "leaving" /\ c' = cs /\ c2' = c2 /\ nils' = nils \cup {<<p, 0>>}
            /\ \/ (NilC2(p) \/ from[p] = 0) /\ worker' = [worker EXCEPT ![p] = "done"]
               \/ from[p] # 0 /\ worker' = [worker EXCEPT ![p] = "dropping"]
         \/ /\ worker[p] = "dropping" /\ worker' = [worker EXCEPT ![p] = "done"]
            /\ c' = c /\ c2' = c2s /\ nils' = nils \cup {<<p, 1>>}
  BY DEF GiveUp, WriteFails, Leave, DropDialed, Goes, KeepDials
<1>4. /\ \A q \in Proxies \ {p} : worker'[q] = worker[q] /\ (NilC2(q)' <=> NilC2(q))
      /\ \A q \in Proxies : /\ c'[q] = "open" => c[q] = "open"
                            /\ c2'[q] = "open" => c2[q] = "open"
  BY <1>1, <1>2, <1>3, NilsOf
<1>5. Typed'
  <2>1. worker' \in [Proxies -> Places]
    BY <1>1, <1>3 DEF Places
  <2>2. QED
    BY <1>2, <1>3, <2>1 DEF RelayInv, Typed
<1> HIDE DEF cs, c2s
<1>6. WorkerOf(p)'
  <2>1. ASSUME NEW to \in {"done", "leaving", "dropping"}, worker' = [worker EXCEPT ![p] = to]
        PROVE  worker'[p] = to
    BY <1>1, <2>1
  <2>2. CASE /\ worker[p] = "refused" /\ worker' = [worker EXCEPT ![p] = "done"]
             /\ c' = cs /\ c2' = c2 /\ nils' = nils \cup {<<p, 0>>}
    BY <1>1, <1>2, <1>3, <2>1, <2>2, NilsOf DEF WorkerOf
  <2>3. CASE /\ worker[p] = "writing" /\ worker' = [worker EXCEPT ![p] = "leaving"]
             /\ c' = c /\ c2' = c2s /\ nils' = nils \cup {<<p, 1>>}
    BY <1>1, <1>2, <1>3, <2>1, <2>3, NilsOf DEF WorkerOf
  <2>4. CASE worker[p] = "leaving" /\ c' = cs /\ c2' = c2 /\ nils' = nils \cup {<<p, 0>>}
    <3>1. \/ (NilC2(p) \/ from[p] = 0) /\ worker'[p] = "done"
          \/ from[p] # 0 /\ worker'[p] = "dropping"
      BY <1>3, <2>1, <2>4
    <3>2. QED
      BY <1>1, <1>2, <1>3, <2>4, <3>1, NilsOf DEF WorkerOf
  <2>5. CASE /\ worker[p] = "dropping" /\ worker' = [worker EXCEPT ![p] = "done"]
             /\ c' = c /\ c2' = c2s /\ nils' = nils \cup {<<p, 1>>}
    BY <1>1, <1>2, <1>3, <2>1, <2>5, NilsOf DEF WorkerOf
  <2>6. QED
    BY <1>3, <2>2, <2>3, <2>4, <2>5
<1>7. QED
  BY <1>3, <1>4, <1>5, <1>6, NothingOpens

\* The teardown closes connections, whosever they are.
LEMMA TeardownInv == ASSUME RelayInv, NEW p \in Proxies, Teardown(p) PROVE RelayInv'
<1>1. /\ from' = from /\ worker' = worker /\ sub' = sub /\ nils' = nils
      /\ c' = Shut(c, Held(p, 0)) /\ c2' = Shut(c2, Held(p, 1))
  BY DEF Teardown, KeepDials
<1>2. c \in [Proxies -> Conns] /\ c2 \in [Proxies -> Conns] /\ WorkerOf(p)
  BY DEF RelayInv, Typed
<1>3. /\ c' \in [Proxies -> Conns] /\ c2' \in [Proxies -> Conns]
      /\ \A q \in Proxies : /\ c'[q] = "open" => c[q] = "open"
                            /\ c2'[q] = "open" => c2[q] = "open"
      /\ \A q : NilC2(q)' <=> NilC2(q)
  BY <1>1, <1>2, ShutOpensNothing DEF NilC2
<1>4. Typed'
  BY <1>1, <1>3 DEF RelayInv, Typed
<1>5. WorkerOf(p)'
  BY <1>1, <1>2, <1>3 DEF WorkerOf
<1>6. QED
  BY <1>1, <1>3, <1>4, <1>5, NothingOpens

\* The sub goroutine closes connections of its own.
LEMMA SubInv ==
    ASSUME RelayInv, NEW p \in Proxies, SubFails(p) \/ SubEnds(p) \/ SubLeaves(p)
    PROVE  RelayInv'
<1>1. /\ sub \in [Proxies -> Subs] /\ c \in [Proxies -> Conns] /\ c2 \in [Proxies -> Conns]
      /\ WorkerOf(p)
  BY DEF RelayInv, Typed
<1>2. /\ from' = from /\ worker' = worker /\ sub[p] # "none"
      /\ \E to \in Subs : sub' = [sub EXCEPT ![p] = to]
      /\ \/ c' = c /\ c2' = Shut(c2, {p}) /\ nils' = nils \cup {<<p, 1>>}
         \/ (c' = c \/ c' = Shut(c, {p})) /\ c2' = c2 /\ nils' = nils
  BY DEF SubFails, SubEnds, SubLeaves, KeepDials, Subs, conns
<1>3. /\ c' \in [Proxies -> Conns] /\ c2' \in [Proxies -> Conns]
      /\ \A q \in Proxies : /\ c'[q] = "open" => c[q] = "open"
                            /\ c2'[q] = "open" => c2[q] = "open"
      /\ \/ c2'[p] # "open"
         \/ c2' = c2 /\ nils' = nils
  BY <1>1, <1>2, ShutOpensNothing
<1>4. /\ \A q \in Proxies \ {p} : sub'[q] = sub[q] /\ (NilC2(q)' <=> NilC2(q))
      /\ nils' = nils => (NilC2(p)' <=> NilC2(p))
  BY <1>1, <1>2, NilsOf DEF NilC2
<1>5. Typed'
  BY <1>1, <1>2, <1>3 DEF RelayInv, Typed
<1>6. WorkerOf(p)'
  BY <1>1, <1>2, <1>3, <1>4 DEF WorkerOf
<1>7. QED
  BY <1>2, <1>3, <1>4, <1>5, <1>6, NothingOpens

\* A process that died has nothing.
LEMMA DiesInv == ASSUME NEW how, Dies(how) PROVE RelayInv'
<1>1. /\ worker' = Idle /\ sub' = Idle /\ c' = Idle /\ c2' = Idle /\ from' = Zero /\ nils' = {}
  BY DEF Dies
<1>2. Typed'
  BY <1>1 DEF Typed, Idle, Zero, Places, Subs, Conns
<1>3. OneOwner'
  BY <1>1 DEF OneOwner, Owners, Idle
<1>4. \A p \in Proxies : WorkerOf(p)'
  BY <1>1 DEF WorkerOf, Idle, Zero, NilC2
<1>5. QED
  BY <1>2, <1>3, <1>4 DEF RelayInv

-----------------------------------------------------------------------------
LEMMA RelayInit == Init => RelayInv
<1> SUFFICES ASSUME Init PROVE RelayInv
  OBVIOUS
<1>1. Typed
  BY DEF Init, Typed, Idle, Zero, Places, Subs, Conns
<1>2. OneOwner
  BY DEF Init, OneOwner, Owners, Idle
<1>3. \A p \in Proxies : WorkerOf(p)
  BY DEF Init, WorkerOf, Idle, Zero, NilC2
<1>4. QED
  BY <1>1, <1>2, <1>3 DEF RelayInv

\* What the steps of the goroutines are, the dying ones apart.
LEMMA WorkKinds ==
    ASSUME NEW p \in Proxies, Work(p) \/ Sub(p) \/ \E q \in Proxies : MapAbort(p, q)
    PROVE  \/ NotResolved(p) \/ StoreListener(p) \/ StoreDialed(p) \/ Written(p)
           \/ ReadClosed(p) \/ TornDown(p)
           \/ GiveUp(p) \/ WriteFails(p) \/ Leave(p) \/ DropDialed(p)
           \/ Teardown(p)
           \/ SubFails(p) \/ SubEnds(p) \/ SubLeaves(p)
           \/ \E how \in {"panic", "abort"} : Dies(how)
  BY DEF Work, Sub, WorkerPanics, SubPanics, MapAbort

LEMMA RelayStep == RelayInv /\ HandlerTyped /\ [Next]_vars => RelayInv'
<1> SUFFICES ASSUME RelayInv, HandlerTyped, [Next]_vars PROVE RelayInv'
  OBVIOUS
<1>1. ASSUME UNCHANGED <<worker, sub, c, c2, nils, from>> PROVE RelayInv'
  <2>1. Typed' /\ \A q \in Proxies : WorkerOf(q)'
    BY <1>1 DEF RelayInv, Typed, WorkerOf, NilC2
  <2>2. OneOwner'
    BY <1>1 DEF RelayInv, OneOwner, Owners
  <2>3. QED
    BY <2>1, <2>2 DEF RelayInv
<1>2. CASE UNCHANGED vars
  BY <1>1, <1>2 DEF vars, threads, conns
<1>3. ASSUME NEW f \in Forwards, Handle(f) \/ ClientGone(f) PROVE RelayInv'
  <2>1. CASE UdpProxy(f)
    <3>1. handler[f] \in Nat
      BY DEF HandlerTyped
    <3>2. <<f, handler[f]>> \in Proxies => worker[<<f, handler[f]>>] = "none"
      BY <3>1 DEF HandlerTyped
    <3>3. QED
      BY <2>1, <3>2, UdpProxyInv
  <2>2. CASE NextSession(f) \/ ClientGone(f)
    BY <1>1, <2>2 DEF NextSession, ClientGone, threads, conns
  <2>3. QED
    BY <1>3, <2>1, <2>2 DEF Handle
<1>4. ASSUME NEW p \in Proxies, Work(p) \/ Sub(p) \/ \E q \in Proxies : MapAbort(p, q)
      PROVE  RelayInv'
  <2>1. WorkerOf(p)
    BY DEF RelayInv
  <2>2. CASE NotResolved(p) \/ StoreListener(p) \/ ReadClosed(p) \/ TornDown(p)
    <3>1. PICK from0, to :
             /\ <<from0, to>> \in Moves /\ to # "writing"
             /\ Goes(p, from0, to) /\ KeepsConns /\ sub' = sub
      BY <2>2 DEF NotResolved, StoreListener, ReadClosed, TornDown, KeepDials, conns, KeepsConns, Moves
    <3>2. QED
      BY <3>1, GoesOn
  <2>3. CASE StoreDialed(p) \/ Written(p)
    <3>1. from[p] # 0
      BY <2>1, <2>3 DEF StoreDialed, Written, Goes, WorkerOf
    <3>2. sub' = sub \/ sub' = [sub EXCEPT ![p] = "reading"]
      <4>1. CASE StoreDialed(p)
        BY <4>1 DEF StoreDialed
      <4>2. CASE Written(p)
        <5>1. sub \in [Proxies -> Subs]
          BY DEF RelayInv, Typed
        <5>2. QED
          BY <4>2, <5>1 DEF Written
      <4>3. QED
        BY <2>3, <4>1, <4>2
    <3>3. PICK from0, to : <<from0, to>> \in Moves /\ Goes(p, from0, to) /\ KeepsConns
      BY <2>3 DEF StoreDialed, Written, KeepDials, conns, KeepsConns, Moves
    <3>4. from[p] # 0 \/ (to # "writing" /\ sub' = sub)
      BY <3>1
    <3>5. QED
      BY <3>2, <3>3, <3>4, GoesOn, Zenon
  <2>4. QED
    BY <1>4, <2>2, <2>3, WorkKinds, WorkerCloses, TeardownInv, SubInv, DiesInv
<1>5. ASSUME NEW p \in Proxies, NEW port \in SourcePorts, LaterDatagram(p, port) PROVE RelayInv'
  <2>1. /\ <<"reading", "writing">> \in Moves /\ KeepsConns /\ sub' = sub
        /\ from[p] # 0 /\ Goes(p, "reading", "writing")
    BY <1>5 DEF LaterDatagram, KeepDials, conns, KeepsConns, Moves
  <2>2. QED
    BY <2>1, GoesOn
<1>6. ASSUME NEW p \in Proxies, Deadline(p) PROVE RelayInv'
  <2>1. /\ <<"reading", "teardown">> \in Moves /\ KeepsConns /\ sub' = sub
        /\ Goes(p, "reading", "teardown")
    BY <1>6 DEF Deadline, KeepDials, conns, KeepsConns, Moves
  <2>2. QED
    BY <2>1, GoesOn
<1>7. QED
  BY <1>2, <1>3, <1>4, <1>5, <1>6, FirstDatagramInv DEF Next
-----------------------------------------------------------------------------
(* The types.                                                              *)

\* A session has as many proxies as ports, named by their indices.
LEMMA ProxyShape ==
    /\ \A f \in Forwards : Len(Ports(f)) \in Nat
    /\ \A p \in Proxies : /\ p = <<p[1], p[2]>> /\ p[1] \in Forwards
                          /\ p[2] \in Nat /\ p[2] < Len(Ports(p[1]))
    /\ \A f \in Forwards, i \in Nat : i < Len(Ports(f)) => <<f, i>> \in Proxies
<1>1. \A f \in Forwards : Len(Ports(f)) \in Nat
  BY RelayAssumption, LenProperties DEF Ports
<1>2. QED
  BY <1>1 DEF Proxies

LEMMA ProxiesFinite == IsFiniteSet(Proxies)
<1> DEFINE Of(f) == {<<f, i>> : i \in 0..(Len(Ports(f)) - 1)}
<1>1. ASSUME NEW f \in Forwards PROVE IsFiniteSet(Of(f))
  <2>1. Len(Ports(f)) - 1 \in Int
    BY ProxyShape
  <2>2. IsFiniteSet(0..(Len(Ports(f)) - 1))
    BY <2>1, FS_Interval
  <2> DEFINE g == [i \in 0..(Len(Ports(f)) - 1) |-> <<f, i>>]
  <2>3. g \in Surjection(0..(Len(Ports(f)) - 1), Of(f))
    BY DEF Surjection
  <2>4. QED
    BY <2>2, <2>3, FS_Surjection
<1>2. IsFiniteSet({Of(f) : f \in Forwards})
  <2> DEFINE g == [f \in Forwards |-> Of(f)]
  <2>1. g \in Surjection(Forwards, {Of(f) : f \in Forwards})
    BY DEF Surjection
  <2>2. QED
    BY <2>1, RelayAssumption, FS_Surjection
<1>3. QED
  BY <1>1, <1>2, FS_UNION DEF Proxies

\* The index of a proxy is less than the number of all.
LEMMA IndexBound == ASSUME NEW p \in Proxies PROVE p[2] + 1 <= Cardinality(Proxies)
<1>1. p[2] \in Nat /\ p[2] < Len(Ports(p[1])) /\ p[1] \in Forwards /\ Len(Ports(p[1])) \in Nat
  BY ProxyShape
<1> DEFINE g == [i \in 0..p[2] |-> <<p[1], i>>]
<1>2. \A i \in 0..p[2] : g[i] = <<p[1], i>> /\ g[i] \in Proxies
  BY <1>1, ProxyShape
<1>3. g \in [0..p[2] -> Proxies]
  BY <1>2
<1>4. g \in Injection(0..p[2], Proxies)
  BY <1>2, <1>3 DEF Injection, IsInjective
<1>5. Cardinality(0..p[2]) <= Cardinality(Proxies)
  BY <1>4, ProxiesFinite, FS_Injection
<1>6. Cardinality(0..p[2]) = p[2] + 1
  BY <1>1, FS_Interval
<1>7. QED
  BY <1>5, <1>6

\* Who a name of udpConns leads to; there is, or was, a proxy of its index.
NameLeads(n) ==
    /\ \E q \in Proxies : q[2] = n[2]
    /\ udpConns[n] # Nil => /\ udpConns[n] \in Proxies
                            /\ number[udpConns[n]] = n[1] /\ udpConns[n][2] = n[2]
                            /\ worker[udpConns[n]] # "none"

ThreadTyped ==
    /\ nils \subseteq Proxies \X {0, 1}
    /\ next \in [Proxies -> Nat] /\ \A p \in Proxies : next[p] <= Cardinality(Proxies)
    /\ gaveUp \subseteq Proxies
    /\ collided \in BOOLEAN /\ overlapped \in BOOLEAN

NamesLead == \A n \in DOMAIN udpConns : NameLeads(n)

RelayTyped == HandlerTyped /\ ThreadTyped /\ NamesLead

\* Workers that go on keep the handlers' part.
LEMMA HandlersKept ==
    ASSUME HandlerTyped, KeepHandlers, Typed,
           worker' = worker \/ \E p \in Proxies, to \in Places \ {"none"} :
                                  worker[p] # "none" /\ worker' = [worker EXCEPT ![p] = to]
    PROVE  /\ HandlerTyped'
           /\ \A p \in Proxies : worker[p] # "none" => worker'[p] # "none"
<1>1. \A p \in Proxies : worker'[p] = "none" <=> worker[p] = "none"
  BY DEF Typed, Places
<1>2. QED
  BY <1>1 DEF HandlerTyped, KeepHandlers

LEMMA NamesKept ==
    ASSUME NamesLead, number' = number, NEW S, 
           \A p \in Proxies : worker[p] # "none" => worker'[p] # "none",
           udpConns' = [n \in DOMAIN udpConns |-> IF n \in S THEN Nil ELSE udpConns[n]]
    PROVE  NamesLead'
  BY DEF NamesLead, NameLeads

LEMMA NamesSame ==
    ASSUME NamesLead, number' = number, udpConns' = udpConns,
           \A p \in Proxies : worker[p] # "none" => worker'[p] # "none"
    PROVE  NamesLead'
  BY DEF NamesLead, NameLeads

LEMMA NamesMore ==
    ASSUME NamesLead, number' = number, NEW p \in Proxies, NEW k, worker[p] # "none",
           \A q \in Proxies : worker[q] # "none" => worker'[q] # "none",
           udpConns' = Named(<<number[p], p[2], k>>, p)
    PROVE  NamesLead'
<1>1. \A n \in DOMAIN udpConns' : \/ n = <<number[p], p[2], k>> /\ udpConns'[n] = p
                                  \/ n \in DOMAIN udpConns /\ udpConns'[n] = udpConns[n]
  BY DEF Named
<1>2. QED
  BY <1>1 DEF NamesLead, NameLeads

-----------------------------------------------------------------------------
LEMMA RelayTypedInit == Init => RelayTyped
<1> SUFFICES ASSUME Init PROVE RelayTyped
  OBVIOUS
<1>1. HandlerTyped
  BY ProxyShape, RelayAssumption DEF Init, HandlerTyped, Zero, Idle
<1>2. Cardinality(Proxies) \in Nat
  BY ProxiesFinite, FS_CardinalityType
<1>3. ThreadTyped
  <2>1. collided \in BOOLEAN /\ overlapped \in BOOLEAN
    BY DEF Init
  <2>2. QED
    BY <1>2, <2>1 DEF Init, ThreadTyped, Zero
<1>4. NamesLead
  BY DEF Init, NamesLead, NoNames
<1>5. QED
  BY <1>1, <1>3, <1>4 DEF RelayTyped

LEMMA HandleTyped ==
    ASSUME RelayTyped, Typed, NEW f \in Forwards, Handle(f) \/ ClientGone(f) PROVE RelayTyped'
<1>0. HandlerTyped /\ ThreadTyped /\ NamesLead
  BY DEF RelayTyped
<1>1. CASE UdpProxy(f)
  <2>1. /\ handler[f] \in Nat /\ handler[f] < Len(Ports(f)) /\ Len(Ports(f)) \in Nat
        /\ handler' = [handler EXCEPT ![f] = @ + 1]
    BY <1>0, <1>1, ProxyShape DEF UdpProxy, HandlerTyped
  <2>2. PICK p : p = <<f, handler[f]>>
    OBVIOUS
  <2>3. p \in Proxies /\ p[1] = f /\ p[2] = handler[f]
    BY <2>1, <2>2, ProxyShape
  <2>4. PICK to \in {"started", "failed"} : worker' = [worker EXCEPT ![p] = to]
    BY <1>1, <2>2 DEF UdpProxy
  <2>5. number' = [number EXCEPT ![p] = sessionNumber]
    BY <1>1, <2>2 DEF UdpProxy
  <2>6. worker[p] = "none"
    BY <1>0, <2>1, <2>3 DEF HandlerTyped
  <2>7. /\ worker'[p] # "none"
        /\ \A q \in Proxies \ {p} : worker'[q] = worker[q] /\ number'[q] = number[q]
    BY <1>0, <2>3, <2>4, <2>5 DEF Typed, HandlerTyped
  <2>8. ASSUME NEW q \in Proxies PROVE worker'[q] = "none" <=> q[2] >= handler'[q[1]]
    <3>1. q = <<q[1], q[2]>> /\ q[1] \in Forwards /\ q[2] \in Nat
      BY ProxyShape
    <3>2. worker[q] = "none" <=> q[2] >= handler[q[1]]
      BY <1>0 DEF HandlerTyped
    <3>3. CASE q = p
      BY <1>0, <2>1, <2>3, <2>7, <3>3 DEF HandlerTyped
    <3>4. CASE q # p /\ q[1] = f
      <4>1. q[2] # handler[f]
        BY <2>2, <3>1, <3>4
      <4>2. handler'[f] = handler[f] + 1 /\ worker'[q] = worker[q]
        BY <1>0, <2>1, <2>7, <3>4 DEF HandlerTyped
      <4>3. QED
        BY <2>1, <3>1, <3>2, <3>4, <4>1, <4>2
    <3>5. CASE q[1] # f
      BY <1>0, <2>1, <2>3, <2>7, <3>1, <3>2, <3>5 DEF HandlerTyped
    <3>6. QED
      BY <3>3, <3>4, <3>5
  <2>9. HandlerTyped'
    <3>1. sessionNumber' = sessionNumber /\ gone' = gone /\ process' = process /\ process = "up"
      BY <1>1 DEF UdpProxy
    <3>2. number' \in [Proxies -> 0..MaxNumber]
      BY <1>0, <2>5 DEF HandlerTyped
    <3>3. handler' \in [Forwards -> Nat] /\ \A g \in Forwards : handler'[g] <= Len(Ports(g)) + 1
      BY <1>0, <2>1 DEF HandlerTyped
    <3>4. QED
      BY <1>0, <2>8, <3>1, <3>2, <3>3 DEF HandlerTyped
  <2>10. ThreadTyped'
    BY <1>0, <1>1 DEF UdpProxy, ThreadTyped
  <2>11. NamesLead'
    <3>1. udpConns' = udpConns
      BY <1>1 DEF UdpProxy
    <3>2. QED
      BY <1>0, <2>6, <2>7, <3>1 DEF NamesLead, NameLeads
  <2>12. QED
    BY <2>9, <2>10, <2>11 DEF RelayTyped
<1>2. CASE NextSession(f)
  <2>1. HandlerTyped'
    <3>1. /\ handler[f] = Len(Ports(f)) /\ handler' = [handler EXCEPT ![f] = @ + 1]
          /\ number' = number /\ worker' = worker /\ gone' = gone
          /\ process' = process /\ process = "up"
          /\ sessionNumber' = IF sessionNumber + 1 > MaxNumber THEN 0 ELSE sessionNumber + 1
      BY <1>2 DEF NextSession, threads
    <3>2. sessionNumber' \in 0..MaxNumber
      BY <1>0, <3>1, RelayAssumption DEF HandlerTyped
    <3>3. handler' \in [Forwards -> Nat] /\ \A g \in Forwards : handler'[g] <= Len(Ports(g)) + 1
      BY <1>0, <3>1, ProxyShape DEF HandlerTyped
    <3>4. ASSUME NEW q \in Proxies PROVE worker'[q] = "none" <=> q[2] >= handler'[q[1]]
      BY <1>0, <3>1, ProxyShape DEF HandlerTyped
    <3>5. QED
      BY <1>0, <3>1, <3>2, <3>3, <3>4 DEF HandlerTyped
  <2>2. ThreadTyped'
    BY <1>0, <1>2 DEF NextSession, ThreadTyped, threads, conns
  <2>3. NamesLead'
    BY <1>0, <1>2 DEF NextSession, NamesLead, NameLeads, threads, conns
  <2>4. QED
    BY <2>1, <2>2, <2>3 DEF RelayTyped
<1>3. CASE ClientGone(f)
  BY <1>0, <1>3 DEF ClientGone, RelayTyped, HandlerTyped, ThreadTyped, NamesLead, NameLeads,
                    threads, conns, history
<1>4. QED
  BY <1>1, <1>2, <1>3 DEF Handle

\* What dies has nothing left to type.
LEMMA DiesTyped ==
    ASSUME RelayTyped, NEW how \in {"panic", "abort"}, Dies(how) PROVE RelayTyped'
<1>1. HandlerTyped'
  BY ProxyShape, RelayAssumption DEF Dies, RelayTyped, HandlerTyped, Zero, Idle
<1>2. ThreadTyped'
  <2>1. Cardinality(Proxies) \in Nat
    BY ProxiesFinite, FS_CardinalityType
  <2>2. collided' = collided /\ overlapped' = overlapped /\ gaveUp' = gaveUp
    BY DEF Dies, history
  <2>3. nils' = {} /\ next' = Zero
    BY DEF Dies
  <2>4. QED
    BY <2>1, <2>2, <2>3 DEF RelayTyped, ThreadTyped, Zero
<1>3. NamesLead'
  BY DEF Dies, NamesLead, NoNames
<1>4. QED
  BY <1>1, <1>2, <1>3 DEF RelayTyped

\* A teardown that goes on to the next index found the name of the one before it.
LEMMA TeardownTyped == ASSUME RelayTyped, Typed, NEW p \in Proxies, Teardown(p) PROVE RelayTyped'
<1>0. HandlerTyped /\ ThreadTyped /\ NamesLead
  BY DEF RelayTyped
<1>1. /\ NameOf(p, 0) \in DOMAIN udpConns
      /\ udpConns' = [n \in DOMAIN udpConns |->
                         IF n \in {NameOf(p, 0), NameOf(p, 1)} THEN Nil ELSE udpConns[n]]
      /\ next' = [next EXCEPT ![p] = @ + 1]
      /\ worker' = worker /\ nils' = nils /\ KeepHandlers /\ KeepDials
  BY DEF Teardown, MoreNames
<1>2. HandlerTyped' /\ \A q \in Proxies : worker[q] # "none" => worker'[q] # "none"
  BY <1>0, <1>1, HandlersKept
<1>3. number' = number
  BY <1>1 DEF KeepHandlers
<1>4. NamesLead'
  BY <1>0, <1>1, <1>2, <1>3, NamesKept
<1>5. ThreadTyped'
  <2>1. PICK q \in Proxies : q[2] = next[p]
    BY <1>0, <1>1 DEF NamesLead, NameLeads, NameOf
  <2>2. next[p] + 1 <= Cardinality(Proxies)
    BY <2>1, IndexBound
  <2>3. next' \in [Proxies -> Nat] /\ \A t \in Proxies : next'[t] <= Cardinality(Proxies)
    BY <1>0, <1>1, <2>2 DEF ThreadTyped
  <2>4. QED
    BY <1>0, <1>1, <2>3 DEF ThreadTyped, KeepDials, KeepHandlers
<1>6. QED
  BY <1>2, <1>4, <1>5 DEF RelayTyped

\* The other steps of the goroutines.
LEMMA GoroutineTyped ==
    ASSUME RelayTyped, Typed, NEW p \in Proxies,
           \/ Work(p) /\ ~Teardown(p) /\ ~WorkerPanics(p)
           \/ Sub(p) /\ ~SubPanics(p)
           \/ Deadline(p)
           \/ \E port \in SourcePorts : FirstDatagram(p, port) \/ LaterDatagram(p, port)
    PROVE  RelayTyped'
<1>0. HandlerTyped /\ ThreadTyped /\ NamesLead
  BY DEF RelayTyped
<1>1. /\ KeepHandlers /\ next' = next
      /\ \/ worker' = worker
         \/ \E to \in Places \ {"none"} :
               worker[p] # "none" /\ worker' = [worker EXCEPT ![p] = to]
  BY DEF Work, Sub, NotResolved, StoreListener, GiveUp, StoreDialed, Written, WriteFails,
         ReadClosed, TornDown, Leave, DropDialed, Deadline, SubFails, SubEnds, SubLeaves,
         FirstDatagram, LaterDatagram, Goes, Places
<1>2. HandlerTyped' /\ \A q \in Proxies : worker[q] # "none" => worker'[q] # "none"
  BY <1>0, <1>1, HandlersKept
<1>3. number' = number /\ overlapped' = overlapped
  BY <1>1 DEF KeepHandlers
<1>4. \/ udpConns' = udpConns
      \/ worker[p] # "none" /\ \E k : udpConns' = Named(<<number[p], p[2], k>>, p)
  BY DEF Work, Sub, NotResolved, StoreListener, GiveUp, StoreDialed, Written, WriteFails,
         ReadClosed, TornDown, Leave, DropDialed, Deadline, SubFails, SubEnds, SubLeaves,
         FirstDatagram, LaterDatagram, Goes, DialedName, conns
<1>5. NamesLead'
  BY <1>0, <1>2, <1>3, <1>4, NamesSame, NamesMore
<1>6. nils' = nils \/ \E k \in {0, 1} : nils' = nils \cup {<<p, k>>}
  BY DEF Work, Sub, NotResolved, StoreListener, GiveUp, StoreDialed, Written, WriteFails,
         ReadClosed, TornDown, Leave, DropDialed, Deadline, SubFails, SubEnds, SubLeaves,
         FirstDatagram, LaterDatagram, conns
<1>7. /\ gaveUp' = gaveUp \/ gaveUp' = gaveUp \cup {p}
      /\ \/ collided' = collided
         \/ \E port : collided' = (collided \/ \E q \in Owners(port) :
                                      worker[q] = "refused" \/ ~SameCall(p, q))
  BY DEF Work, Sub, NotResolved, StoreListener, GiveUp, StoreDialed, Written, WriteFails,
         ReadClosed, TornDown, Leave, DropDialed, Deadline, SubFails, SubEnds, SubLeaves,
         FirstDatagram, LaterDatagram, KeepDials
<1>8. collided' \in BOOLEAN
  BY <1>0, <1>7, Zenon DEF ThreadTyped
<1>9. nils' \subseteq Proxies \X {0, 1}
  BY <1>0, <1>6 DEF ThreadTyped
<1>10. ThreadTyped'
  BY <1>0, <1>1, <1>3, <1>7, <1>8, <1>9 DEF ThreadTyped
<1>11. QED
  BY <1>2, <1>5, <1>10 DEF RelayTyped

LEMMA RelayTypedStep == RelayTyped /\ RelayInv /\ [Next]_vars => RelayTyped'
<1> SUFFICES ASSUME RelayTyped, RelayInv, [Next]_vars PROVE RelayTyped'
  OBVIOUS
<1>1. Typed
  BY DEF RelayInv
<1>2. CASE UNCHANGED vars
  BY <1>2 DEF vars, threads, conns, history, RelayTyped, HandlerTyped, ThreadTyped, NamesLead,
              NameLeads
<1>3. ASSUME NEW p \in Proxies,
             WorkerPanics(p) \/ SubPanics(p) \/ \E q \in Proxies : MapAbort(p, q)
      PROVE  RelayTyped'
  BY <1>3, DiesTyped DEF WorkerPanics, SubPanics, MapAbort
<1>4. QED
  BY <1>1, <1>2, <1>3, HandleTyped, TeardownTyped, GoroutineTyped DEF Next

LEMMA RelayAllStep == RelayInv /\ RelayTyped /\ [Next]_vars => RelayInv' /\ RelayTyped'
  BY RelayStep, RelayTypedStep DEF RelayTyped

\* Two sockets never share a port, and a worker that has ended, whatever way,
\* holds none (udpProxy.go:123, 150, 214-223); only one that returned because its
\* target did not resolve (44-48) keeps its listening connection.
THEOREM PortsComeBack == Spec => []PortsGivenBack
<1>1. RelayInv => PortsGivenBack
  <2> SUFFICES ASSUME RelayInv PROVE PortsGivenBack
    OBVIOUS
  <2>1. ASSUME NEW port \in SourcePorts PROVE Cardinality(Owners(port)) <= 1
    <3>1. CASE Owners(port) = {}
      BY <3>1, FS_EmptySet
    <3>2. CASE \E p : p \in Owners(port)
      <4>1. PICK p : Owners(port) = {p}
        BY <3>2 DEF RelayInv, OneOwner
      <4>2. QED
        BY <4>1, FS_Singleton
    <3>3. QED
      BY <3>1, <3>2
  <2>2. QED
    BY <2>1 DEF RelayInv, WorkerOf, PortsGivenBack
<1>2. QED
  BY <1>1, RelayInit, RelayTypedInit, RelayAllStep, PTL DEF Spec
\* The types, and that a name of udpConns leads to a proxy of its index and number.
THEOREM RelayTypes == Spec => []TypeOK
<1>1. RelayTyped /\ RelayInv => TypeOK
  BY ProxyShape DEF RelayTyped, HandlerTyped, ThreadTyped, NamesLead, NameLeads, RelayInv, Typed,
                    Subs, TypeOK
<1>2. QED
  BY <1>1, RelayInit, RelayTypedInit, RelayAllStep, PTL DEF Spec
-----------------------------------------------------------------------------
(* Who gives up.  A proxy that gave up holds its listening connection for  *)
(* one step more: if nobody dialed in that step, the last one of a call to *)
(* give up was refused the port of one that had not given up.              *)

GaveUpInv ==
    /\ process = "up" => \A p \in gaveUp : worker[p] \in {"refused", "done"}
    /\ OneSideStays

\* The rest of a call of which one gives up.
LEMMA OthersGaveUp ==
    ASSUME NEW p \in Proxies, NEW q \in Proxies, SameCall(p, q), NEW f \in Answers,
           p \in Session(f) \cup Session(Partner[f])
    PROVE  q \in Session(f) \cup Session(Partner[f])
<1>1. Partner[f] \in Forwards /\ Partner[Partner[f]] = f
  BY RelayAssumption
<1>2. QED
  BY <1>1 DEF SameCall, Session

LEMMA RefusedGaveUp ==
    ASSUME RelayInv, RelayTyped, GaveUpInv, NEW p \in Proxies, NEW port \in SourcePorts,
           FirstDatagram(p, port)
    PROVE  GaveUpInv'
<1>1. /\ worker \in [Proxies -> Places] /\ gaveUp \subseteq Proxies
      /\ \A q \in Proxies : WorkerOf(q)
  BY DEF RelayInv, Typed, RelayTyped, ThreadTyped
<1>0. process = "up" /\ process' = process
  BY <1>1 DEF FirstDatagram, Goes, KeepHandlers, RelayTyped, HandlerTyped
<1>2. CASE Owners(port) = {}
  BY <1>0, <1>1, <1>2 DEF FirstDatagram, Goes, GaveUpInv, OneSideStays
<1>3. CASE Owners(port) # {}
  <2>1. /\ worker' = [worker EXCEPT ![p] = "refused"] /\ gaveUp' = gaveUp \cup {p}
        /\ from[p] = 0 /\ port # Port(p)
        /\ collided' = (collided \/ \E q \in Owners(port) :
                            worker[q] = "refused" \/ ~SameCall(p, q))
    BY <1>3 DEF FirstDatagram, Goes, Datagram
  <2>2. \A q \in gaveUp' : worker'[q] \in {"refused", "done"}
    BY <1>0, <1>1, <2>1 DEF GaveUpInv
  <2>3. SUFFICES ASSUME NEW f \in Answers, Session(f) \cup Session(Partner[f]) # {},
                        Session(f) \cup Session(Partner[f]) \subseteq gaveUp'
                 PROVE  collided'
    BY <2>2 DEF GaveUpInv, OneSideStays, Session
  <2>4. PICK q \in Owners(port) : TRUE
    BY <1>3
  <2>5. q \in Proxies /\ q # p
    BY <2>1, <2>4, RelayAssumption DEF Owners, SourcePorts
  <2>6. CASE Session(f) \cup Session(Partner[f]) \subseteq gaveUp
    BY <2>1, <2>3, <2>6, Zenon DEF GaveUpInv, OneSideStays
  <2>7. CASE p \in Session(f) \cup Session(Partner[f]) /\ SameCall(p, q)
    <3>1. q \in gaveUp
      BY <2>1, <2>3, <2>5, <2>7, OthersGaveUp
    <3>2. worker[q] = "refused"
      BY <1>0, <1>1, <2>4, <3>1 DEF GaveUpInv, WorkerOf, Owners
    <3>3. QED
      BY <2>1, <2>4, <3>2, Zenon
  <2>8. QED
    BY <2>1, <2>3, <2>4, <2>6, <2>7, Zenon
<1>4. QED
  BY <1>2, <1>3

LEMMA GaveUpStep == GaveUpInv /\ RelayInv /\ RelayTyped /\ [Next]_vars => GaveUpInv'
<1> SUFFICES ASSUME GaveUpInv, RelayInv, RelayTyped, [Next]_vars PROVE GaveUpInv'
  OBVIOUS
<1>1. worker \in [Proxies -> Places] /\ gaveUp \subseteq Proxies
  BY DEF RelayInv, Typed, RelayTyped, ThreadTyped
<1>2. ASSUME gaveUp' = gaveUp, collided' = collided,
             \/ process' # "up"
             \/ /\ process' = process
                /\ \A p \in Proxies : worker[p] \in {"refused", "done"} =>
                                         worker'[p] \in {"refused", "done"}
      PROVE  GaveUpInv'
  BY <1>1, <1>2 DEF GaveUpInv, OneSideStays, Session
<1>3. CASE UNCHANGED vars
  BY <1>2, <1>3 DEF vars, threads, history
<1>4. ASSUME NEW f \in Forwards, UdpProxy(f) PROVE GaveUpInv'
  <2> DEFINE p == <<f, handler[f]>>
  <2>1. PICK to \in {"started", "failed"} : worker' = [worker EXCEPT ![p] = to]
    BY <1>4 DEF UdpProxy
  <2>2. p \in Proxies => worker[p] = "none"
    BY <1>4 DEF UdpProxy, RelayTyped, HandlerTyped
  <2>3. \A q \in Proxies : worker[q] \in {"refused", "done"} => worker'[q] = worker[q]
    BY <1>1, <2>1, <2>2
  <2>4. gaveUp' = gaveUp /\ collided' = collided /\ process' = process
    BY <1>4 DEF UdpProxy
  <2>5. QED
    BY <1>2, <2>3, <2>4
<1>5. ASSUME NEW f \in Forwards, NextSession(f) \/ ClientGone(f) PROVE GaveUpInv'
  BY <1>2, <1>5 DEF NextSession, ClientGone, threads, history
<1>6. ASSUME NEW how \in {"panic", "abort"}, Dies(how) PROVE GaveUpInv'
  BY <1>2, <1>6 DEF Dies, history
<1>7. ASSUME NEW p \in Proxies, Work(p) \/ Sub(p) \/ Deadline(p) \/ \E q \in Proxies : MapAbort(p, q)
      PROVE  GaveUpInv'
  <2>1. CASE \A how \in {"panic", "abort"} : ~Dies(how)
    <3>1. /\ KeepHandlers /\ KeepDials
          /\ \/ worker' = worker
             \/ \E from0, to \in Places :
                   /\ worker[p] = from0 /\ worker' = [worker EXCEPT ![p] = to]
                   /\ from0 \notin {"refused", "done"} \/ to = "done"
      BY <1>7, <2>1, WorkKinds
         DEF NotResolved, StoreListener, GiveUp, StoreDialed, Written, WriteFails,
             ReadClosed, Teardown, TornDown, Leave, DropDialed, Deadline, SubFails, SubEnds,
             SubLeaves, Goes, Places
    <3>2. QED
      BY <1>1, <1>2, <3>1 DEF KeepDials, KeepHandlers
  <2>2. QED
    BY <1>6, <2>1
<1>8. ASSUME NEW p \in Proxies, NEW port \in SourcePorts, LaterDatagram(p, port) PROVE GaveUpInv'
  BY <1>1, <1>2, <1>8 DEF LaterDatagram, Goes, KeepDials, KeepHandlers
<1>9. QED
  BY <1>3, <1>4, <1>5, <1>7, <1>8, RefusedGaveUp DEF Next, Handle

\* A call loses all its proxies to "address already in use" only if one dials while
\* another one, already refused, still listens, or if another call has the port
\* (udpProxy.go:116-123).
THEOREM OneSideRemains == Spec => []OneSideStays
<1>1. Init => GaveUpInv
  BY DEF Init, GaveUpInv, OneSideStays
<1>2. GaveUpInv => OneSideStays
  BY DEF GaveUpInv
<1>3. QED
  BY <1>1, <1>2, RelayInit, RelayTypedInit, RelayAllStep, GaveUpStep, PTL DEF Spec

-----------------------------------------------------------------------------
(* The numbers of the sessions.  As long as the handlers start their       *)
(* proxies one after the other and the numbers have not started again,     *)
(* sessionNumber is the number of handlers that are done.                  *)

DoneOnes == {f \in Forwards : Done(f)}

Orderly == ~overlapped /\ Cardinality(Forwards) <= MaxNumber + 1

NumbersDiffer ==
    /\ \A f, g \in Forwards : Midway(f) /\ Midway(g) => f = g
    /\ DoneOnes # Forwards => sessionNumber = Cardinality(DoneOnes)
    /\ \A p \in Proxies : worker[p] # "none" =>
          IF Done(p[1]) THEN number[p] < Cardinality(DoneOnes)
                        ELSE number[p] = Cardinality(DoneOnes)
    /\ \A p, q \in Proxies :
          worker[p] # "none" /\ worker[q] # "none" /\ number[p] = number[q] => p[1] = q[1]

NumberInv == Orderly => NumbersDiffer

LEMMA DoneFinite == /\ IsFiniteSet(DoneOnes) /\ Cardinality(DoneOnes) \in Nat
                    /\ DoneOnes # Forwards => Cardinality(DoneOnes) < Cardinality(Forwards)
<1>1. IsFiniteSet(Forwards) /\ DoneOnes \subseteq Forwards
  BY RelayAssumption DEF DoneOnes
<1>2. QED
  BY <1>1, FS_Subset, FS_CardinalityType

\* Only one handler is between its first proxy and its end: the one that acts.
LEMMA AloneMidway ==
    ASSUME RelayTyped, Orderly', NEW f \in Forwards, Handle(f)
    PROVE  Orderly /\ \A g \in Forwards \ {f} : ~Midway(g) /\ ~Midway(g)'
<1>1. /\ overlapped' = (overlapped \/ \E g \in Forwards \ {f} : Midway(g))
      /\ handler' = [handler EXCEPT ![f] = @ + 1] /\ handler \in [Forwards -> Nat]
  BY DEF Handle, UdpProxy, NextSession, RelayTyped, HandlerTyped
<1>2. overlapped' = FALSE /\ overlapped \in BOOLEAN
  BY DEF Orderly, RelayTyped, ThreadTyped
<1>3. ~overlapped /\ \A g \in Forwards \ {f} : ~Midway(g)
  BY <1>1, <1>2, Zenon
<1>4. \A g \in Forwards \ {f} : handler'[g] = handler[g]
  BY <1>1
<1>5. QED
  BY <1>3, <1>4 DEF Orderly, Midway, Done

LEMMA UdpProxyNumbers ==
    ASSUME RelayInv, RelayTyped, NumberInv, Orderly', NEW f \in Forwards, UdpProxy(f)
    PROVE  NumbersDiffer'
<1>1. NumbersDiffer /\ \A g \in Forwards \ {f} : ~Midway(g) /\ ~Midway(g)'
  BY AloneMidway, Zenon DEF NumberInv, Handle
<1>2. /\ handler \in [Forwards -> Nat] /\ worker \in [Proxies -> Places]
      /\ number \in [Proxies -> 0..MaxNumber] /\ sessionNumber \in 0..MaxNumber
      /\ \A p \in Proxies : worker[p] = "none" <=> p[2] >= handler[p[1]]
  BY DEF RelayTyped, HandlerTyped, RelayInv, Typed
<1>3. PICK p : p = <<f, handler[f]>>
  OBVIOUS
<1>4. /\ handler[f] < Len(Ports(f)) /\ Len(Ports(f)) \in Nat
      /\ handler' = [handler EXCEPT ![f] = @ + 1] /\ sessionNumber' = sessionNumber
      /\ number' = [number EXCEPT ![p] = sessionNumber]
      /\ \E to \in {"started", "failed"} : worker' = [worker EXCEPT ![p] = to]
  BY <1>3, ProxyShape DEF UdpProxy
<1>5. p \in Proxies /\ p[1] = f /\ worker'[p] # "none" /\ number'[p] = sessionNumber
  BY <1>2, <1>3, <1>4, ProxyShape
<1>6. \A q \in Proxies \ {p} : worker'[q] = worker[q] /\ number'[q] = number[q]
  BY <1>2, <1>4
<1>7. \A g \in Forwards : Done(g)' <=> Done(g)
  BY <1>2, <1>4 DEF Done
<1>8. DoneOnes' = DoneOnes /\ ~Done(f)
  BY <1>2, <1>4, <1>7 DEF DoneOnes, Done
<1>9. sessionNumber = Cardinality(DoneOnes)
  BY <1>1, <1>8 DEF NumbersDiffer, DoneOnes
<1>10. ASSUME NEW q \in Proxies, worker'[q] # "none"
       PROVE  IF Done(q[1])' THEN number'[q] < Cardinality(DoneOnes')
                             ELSE number'[q] = Cardinality(DoneOnes')
  <2>1. q[1] \in Forwards
    BY ProxyShape
  <2>2. QED
    BY <1>1, <1>5, <1>6, <1>7, <1>8, <1>9, <1>10, <2>1 DEF NumbersDiffer
<1>11. ASSUME NEW q \in Proxies, worker[q] # "none", number[q] = sessionNumber PROVE q[1] = f
  <2>1. q[1] \in Forwards /\ q[2] \in Nat /\ q[2] < handler[q[1]]
    BY <1>2, <1>11, ProxyShape
  <2>2. ~Done(q[1])
    BY <1>1, <1>9, <1>11, DoneFinite DEF NumbersDiffer
  <2>3. Midway(q[1])
    BY <1>2, <2>1, <2>2 DEF Midway
  <2>4. QED
    BY <1>1, <2>1, <2>3
<1>12. ASSUME NEW q \in Proxies, NEW t \in Proxies, worker'[q] # "none", worker'[t] # "none",
              number'[q] = number'[t]
       PROVE  q[1] = t[1]
  BY <1>1, <1>5, <1>6, <1>11, <1>12 DEF NumbersDiffer
<1>13. \A g, h \in Forwards : Midway(g)' /\ Midway(h)' => g = h
  BY <1>1
<1>14. QED
  BY <1>4, <1>8, <1>9, <1>10, <1>12, <1>13 DEF NumbersDiffer

LEMMA NextSessionNumbers ==
    ASSUME RelayInv, RelayTyped, NumberInv, Orderly', NEW f \in Forwards, NextSession(f)
    PROVE  NumbersDiffer'
<1>1. NumbersDiffer /\ Orderly /\ \A g \in Forwards \ {f} : ~Midway(g) /\ ~Midway(g)'
  BY AloneMidway, Zenon DEF NumberInv, Handle
<1>2. /\ handler \in [Forwards -> Nat]
      /\ number \in [Proxies -> 0..MaxNumber] /\ sessionNumber \in 0..MaxNumber
      /\ \A p \in Proxies : worker[p] = "none" <=> p[2] >= handler[p[1]]
  BY DEF RelayTyped, HandlerTyped
<1>3. /\ handler[f] = Len(Ports(f)) /\ Len(Ports(f)) \in Nat
      /\ handler' = [handler EXCEPT ![f] = @ + 1]
      /\ sessionNumber' = IF sessionNumber + 1 > MaxNumber THEN 0 ELSE sessionNumber + 1
      /\ number' = number /\ worker' = worker
  BY ProxyShape DEF NextSession, threads
<1>4. /\ ~Done(f) /\ Done(f)'
      /\ \A g \in Forwards \ {f} : Done(g)' <=> Done(g)
  BY <1>2, <1>3 DEF Done
<1>5. DoneOnes' = DoneOnes \cup {f} /\ f \notin DoneOnes
  BY <1>4 DEF DoneOnes
<1>6. Cardinality(DoneOnes') = Cardinality(DoneOnes) + 1 /\ Cardinality(DoneOnes) \in Nat
  BY <1>5, DoneFinite, FS_AddElement
<1>7. sessionNumber = Cardinality(DoneOnes)
  BY <1>1, <1>5 DEF NumbersDiffer
<1>8. ASSUME DoneOnes' # Forwards PROVE sessionNumber' = Cardinality(DoneOnes')
  <2>1. IsFiniteSet(Forwards) /\ DoneOnes' \subseteq Forwards
    BY RelayAssumption DEF DoneOnes
  <2>2. Cardinality(DoneOnes') < Cardinality(Forwards) /\ Cardinality(Forwards) \in Nat
    BY <1>6, <1>8, <2>1, FS_Subset, FS_CardinalityType
  <2>3. QED
    BY <1>1, <1>3, <1>6, <1>7, <2>2, RelayAssumption DEF Orderly
<1>9. ASSUME NEW q \in Proxies, worker'[q] # "none"
      PROVE  IF Done(q[1])' THEN number'[q] < Cardinality(DoneOnes')
                            ELSE number'[q] = Cardinality(DoneOnes')
  <2>1. /\ q[1] \in Forwards /\ q[2] \in Nat /\ worker[q] # "none" /\ number'[q] = number[q]
        /\ number[q] \in Nat
    BY <1>2, <1>3, <1>9, ProxyShape
  <2>2. q[2] < handler[q[1]]
    BY <1>2, <2>1
  <2>3. CASE q[1] = f
    BY <1>1, <1>4, <1>6, <2>1, <2>3 DEF NumbersDiffer
  <2>4. CASE q[1] # f
    <3>1. ~Midway(q[1])
      BY <1>1, <2>1, <2>4
    <3>2. Done(q[1])
      BY <1>2, <2>1, <2>2, <3>1 DEF Midway
    <3>3. QED
      BY <1>1, <1>4, <1>6, <2>1, <2>4, <3>2 DEF NumbersDiffer
  <2>5. QED
    BY <2>3, <2>4
<1>10. \A g, h \in Forwards : Midway(g)' /\ Midway(h)' => g = h
  BY <1>1
<1>11. QED
  BY <1>1, <1>3, <1>8, <1>9, <1>10 DEF NumbersDiffer

\* At the start, and once the process has died, nothing has a number.
LEMMA NothingNumbered ==
    /\ handler = [f \in Forwards |-> 0] /\ sessionNumber = 0 /\ worker = Idle => NumbersDiffer
    /\ handler' = [f \in Forwards |-> 0] /\ sessionNumber' = 0 /\ worker' = Idle => NumbersDiffer'
<1>1. ASSUME handler = [f \in Forwards |-> 0], sessionNumber = 0, worker = Idle
      PROVE  NumbersDiffer
  <2>1. DoneOnes = {}
    BY <1>1, ProxyShape DEF DoneOnes, Done
  <2>2. QED
    BY <1>1, <2>1, FS_EmptySet DEF NumbersDiffer, Midway, Idle
<1>2. ASSUME handler' = [f \in Forwards |-> 0], sessionNumber' = 0, worker' = Idle
      PROVE  NumbersDiffer'
  <2>1. DoneOnes' = {}
    BY <1>2, ProxyShape DEF DoneOnes, Done
  <2>2. QED
    BY <1>2, <2>1, FS_EmptySet DEF NumbersDiffer, Midway, Idle
<1>3. QED
  BY <1>1, <1>2

LEMMA NumberStep == NumberInv /\ RelayInv /\ RelayTyped /\ [Next]_vars => NumberInv'
<1> SUFFICES ASSUME NumberInv, RelayInv, RelayTyped, [Next]_vars, Orderly' PROVE NumbersDiffer'
  BY DEF NumberInv
<1>1. ASSUME handler' = handler, number' = number, sessionNumber' = sessionNumber,
             overlapped' = overlapped,
             \A p \in Proxies : worker'[p] = "none" <=> worker[p] = "none"
      PROVE  NumbersDiffer'
  <2>1. NumbersDiffer
    BY <1>1 DEF NumberInv, Orderly
  <2>2. \A f \in Forwards : (Done(f)' <=> Done(f)) /\ (Midway(f)' <=> Midway(f))
    BY <1>1 DEF Done, Midway
  <2>3. DoneOnes' = DoneOnes
    BY <2>2 DEF DoneOnes
  <2>4. QED
    BY <1>1, <2>1, <2>2, <2>3, ProxyShape DEF NumbersDiffer
<1>2. CASE UNCHANGED vars
  BY <1>1, <1>2 DEF vars, threads, history
<1>3. ASSUME NEW f \in Forwards, ClientGone(f) PROVE NumbersDiffer'
  BY <1>1, <1>3 DEF ClientGone, threads, history
<1>4. worker \in [Proxies -> Places]
  BY DEF RelayInv, Typed
<1>5. ASSUME NEW how, Dies(how) PROVE NumbersDiffer'
  BY <1>5, NothingNumbered DEF Dies
<1>6. ASSUME NEW p \in Proxies,
             \/ Work(p) \/ Sub(p) \/ Deadline(p) \/ \E q \in Proxies : MapAbort(p, q)
             \/ \E port \in SourcePorts : FirstDatagram(p, port) \/ LaterDatagram(p, port)
      PROVE  NumbersDiffer'
  <2>1. CASE \A how \in {"panic", "abort"} : ~Dies(how)
    <3>1. /\ KeepHandlers
          /\ \/ worker' = worker
             \/ \E to \in Places \ {"none"} :
                   worker[p] # "none" /\ worker' = [worker EXCEPT ![p] = to]
      BY <1>6, <2>1, WorkKinds
         DEF NotResolved, StoreListener, GiveUp, StoreDialed, Written, WriteFails,
             ReadClosed, Teardown, TornDown, Leave, DropDialed, Deadline, SubFails, SubEnds,
             SubLeaves, FirstDatagram, LaterDatagram, Goes, Places
    <3>2. QED
      BY <1>1, <1>4, <3>1 DEF KeepHandlers
  <2>2. QED
    BY <1>5, <2>1
<1>7. QED
  BY <1>2, <1>3, <1>6, UdpProxyNumbers, NextSessionNumbers DEF Next, Handle

\* A step that closes a listening connection, but is not of its own goroutines, is
\* the teardown of a worker of the same session.
LEMMA OwnSessionStep ==
    ASSUME NumberInv, RelayInv, RelayTyped, [Next]_vars, Orderly, NEW q \in Proxies,
           c[q] = "open", c'[q] = Closed, worker'[q] = worker[q], sub'[q] = sub[q]
    PROVE  \E p \in Session(q[1]) : next'[p] # next[p]
<1>1. /\ worker \in [Proxies -> Places] /\ c \in [Proxies -> Conns]
      /\ sub \in [Proxies -> Subs]
      /\ next \in [Proxies -> Nat] /\ NamesLead /\ NumbersDiffer
  BY DEF RelayInv, Typed, RelayTyped, ThreadTyped, NumberInv
<1>2. c' # c
  BY DEF Closed
<1>3. PICK p \in Proxies : Teardown(p)
  <2>1. ASSUME NEW f \in Forwards, UdpProxy(f) PROVE FALSE
    BY <1>1, <2>1 DEF UdpProxy, Closed
  <2>2. ASSUME NEW p \in Proxies, GiveUp(p) \/ Leave(p) PROVE FALSE
    <3>1. /\ c' = Shut(c, {p}) /\ worker[p] \in {"refused", "leaving"}
          /\ \E to \in {"done", "dropping"} : worker' = [worker EXCEPT ![p] = to]
      BY <2>2 DEF GiveUp, Leave, Goes
    <3>2. QED
      BY <1>1, <3>1 DEF Shut, Closed
  <2>3. ASSUME NEW p \in Proxies, SubEnds(p) PROVE FALSE
    BY <1>1, <2>3 DEF SubEnds, Shut, Closed
  <2>4. ASSUME NEW how, Dies(how) PROVE FALSE
    BY <2>4 DEF Dies, Idle, Closed
  <2>5. ASSUME NEW f \in Forwards, Handle(f) \/ ClientGone(f) PROVE FALSE
    BY <1>2, <2>1, <2>5 DEF Handle, NextSession, ClientGone, conns
  <2>6. ASSUME NEW p \in Proxies, NEW port \in SourcePorts,
               FirstDatagram(p, port) \/ LaterDatagram(p, port)
        PROVE  FALSE
    BY <1>2, <2>6 DEF FirstDatagram, LaterDatagram, conns
  <2>7. ASSUME NEW p \in Proxies, Deadline(p) PROVE FALSE
    BY <1>2, <2>7 DEF Deadline, conns
  <2>8. c' = c => FALSE
    BY <1>2
  <2>9. \E p \in Proxies : Work(p) \/ Sub(p) \/ \E t \in Proxies : MapAbort(p, t)
    BY <2>5, <2>6, <2>7, <2>8 DEF Next, vars, conns
  <2>10. PICK p \in Proxies : Work(p) \/ Sub(p) \/ \E t \in Proxies : MapAbort(p, t)
    BY <2>9
  <2>11. QED
    BY <2>2, <2>3, <2>4, <2>8, <2>10, WorkKinds
       DEF NotResolved, StoreListener, StoreDialed, Written, WriteFails, ReadClosed, TornDown,
           DropDialed, SubFails, SubLeaves, conns
<1>4. /\ NameOf(p, 0) \in DOMAIN udpConns /\ c' = Shut(c, Held(p, 0))
      /\ next' = [next EXCEPT ![p] = @ + 1] /\ worker[p] = "teardown"
  BY <1>3 DEF Teardown, MoreNames
<1>5. q = udpConns[NameOf(p, 0)] /\ q # Nil
  <2>1. q \in Held(p, 0) /\ ~FindsNil(p)
    BY <1>1, <1>3, <1>4 DEF Shut, Closed, Teardown
  <2>2. QED
    BY <1>4, <2>1 DEF Held, FindsNil
<1>6. number[q] = number[p] /\ worker[q] # "none" /\ worker[p] # "none"
  BY <1>1, <1>4, <1>5 DEF NamesLead, NameLeads, NameOf
<1>7. p[1] = q[1]
  BY <1>1, <1>6 DEF NumbersDiffer
<1>8. QED
  BY <1>1, <1>4, <1>7 DEF Session

\* A teardown closes the connections of its own forward only, whatever other calls
\* are under way (udpProxy.go:72-94).
THEOREM TeardownsStayHome == Spec => OwnSessionOnly
<1>1. Init => NumberInv
  <2> SUFFICES ASSUME Init PROVE NumbersDiffer
    BY DEF NumberInv
  <2>1. QED
    BY NothingNumbered DEF Init
<1>2. ASSUME NumberInv, RelayInv, RelayTyped, [Next]_vars, NEW q \in Proxies,
             c[q] = "open", c'[q] = Closed, worker'[q] = worker[q], sub'[q] = sub[q]
      PROVE  \/ overlapped
             \/ Cardinality(Forwards) > MaxNumber + 1
             \/ \E p \in Session(q[1]) : next'[p] # next[p]
  <2>1. Cardinality(Forwards) \in Nat
    BY RelayAssumption, FS_CardinalityType
  <2>2. CASE overlapped
    BY <2>2
  <2>3. CASE ~overlapped /\ Cardinality(Forwards) <= MaxNumber + 1
    BY <1>2, <2>3, OwnSessionStep DEF Orderly
  <2>4. QED
    BY <2>1, <2>2, <2>3, RelayAssumption
<1>3. NumberInv /\ RelayInv /\ RelayTyped /\ [Next]_vars =>
        [\A q \in Proxies :
           (/\ c[q] = "open" /\ c'[q] = Closed
            /\ worker'[q] = worker[q] /\ sub'[q] = sub[q]) =>
           \/ overlapped
           \/ Cardinality(Forwards) > MaxNumber + 1
           \/ \E p \in Session(q[1]) : next'[p] # next[p]]_vars
  BY <1>2
<1>4. QED
  BY <1>1, <1>3, RelayInit, RelayTypedInit, RelayAllStep, NumberStep, PTL
     DEF Spec, OwnSessionOnly
=============================================================================
