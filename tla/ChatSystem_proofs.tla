-------------------------- MODULE ChatSystem_proofs --------------------------
(***************************************************************************)
(* Chat pages with the room server, for any number of pages and rooms:     *)
(* that the composition implements RoomServer, that the pages send only    *)
(* what its handlers wait for (ChatSystem!CommandsFit), and that two pages *)
(* with a room to themselves take different roles and take offers for      *)
(* offers (RolesDiffer, DescriptionsFit), also if their handlers overlap.  *)
(*                                                                         *)
(* The roles are one induction over a pair (Roles): the one that takes an  *)
(* empty room is the caller and the next one that comes is called.  That   *)
(* rests on what RoomServer does for two clients in any interleaving (the  *)
(* first half), on what a page makes of one message (PageDoes), and on the *)
(* order in which the messages can come: the list of the room before the   *)
(* other client, the offer before the answer, and each of them once.       *)
(***************************************************************************)
EXTENDS ChatSystem, RoomPeer_proofs

\* The handler is past storing the entry of a room.
Settled(s) == pc[s] \notin {"new", "create", "store"}

\* A page that was sent the list of its room.
Greeted(s) == \E i \in DOMAIN wire[s] : wire[s][i].cmd = "roomclients"

\* A handler that still has to tell its client of the room.
ToGreet(s) == pc[s] = "create" \/ (userNum[s] = 2 /\ pc[s] \in {"store", "reply"})

\* The number of a user says whether it has a room, and a joiner knows the other.
NumberOf(s) ==
    /\ userNum[s] = 0 <=> (roomName[s] = Nil \/ pc[s] = "done")
    /\ pc[s] = "create" => userNum[s] = 1
    /\ pc[s] \in {"reply", "notify"} => userNum[s] = 2
    /\ pc[s] = "new" => roomName[s] = Nil
    /\ userNum[s] = 2 => otherCws[s] \notin {Nil, s}

\* The entry that a handler is about to store names itself.
CopyOf(s) ==
    /\ pc[s] \in Arriving => r[s].cws = s
    /\ r[s].users > 0 => r[s].cws # Nil

\* What a page was sent tells how far its handler is.
MailOf(s) ==
    /\ pc[s] \in Arriving => ~IntroducedOn(wire, s)
    /\ pc[s] = "forward" => IntroducedOn(wire, s)
    /\ net[s] = "open" /\ userNum[s] # 0 /\ ~ToGreet(s) => Greeted(s)
    /\ \A i \in DOMAIN wire[s] :
          /\ wire[s][i].cmd = "connect" => i = 1
          /\ wire[s][i].cmd = "ready" => myClientId[s] = s
    /\ \A i, j \in DOMAIN wire[s] :
          wire[s][i].cmd = "ready" /\ wire[s][j].cmd = "ready" => i = j

\* The entry of a room names a client that has stored it.
EntryKnown(x) ==
    /\ roomInfoMap[x].users > 0 => roomInfoMap[x].cws # Nil
    /\ \A s \in Sessions : roomInfoMap[x].cws = s => Settled(s)

\* A handler knows only clients that have stored the room's entry.
KnownTo(u) == \A s \in Sessions :
    /\ otherCws[u] = s => Settled(s)
    /\ u # s /\ r[u].cws = s => Settled(s)

\* All of this holds of every room, also of one on which handlers overlapped.
RoomsInv == /\ \A s \in Sessions : NumberOf(s) /\ CopyOf(s) /\ MailOf(s) /\ KnownTo(s)
            /\ \A x \in Rooms : EntryKnown(x)

-----------------------------------------------------------------------------
\* Who still has to be told who is there, or to tell it.
Entering == {"new", "create", "store", "reply", "notify"}

\* The two were introduced, or one of them to the other.
Meets(a, b) == IntroducedOn(wire, a) \/ IntroducedOn(wire, b)

\* a, who is not a joiner, has a room into which only b may come: nobody introduces
\* the two before b has joined, and each is sent only what the other one meant.
PairOf(a, b) ==
    /\ userNum[a] # 2 /\ otherCws[a] # a
    /\ Meets(a, b) => /\ roomName[b] = roomName[a] /\ userNum[b] # 1
                      /\ pc[b] \notin Entering
    /\ \A i \in DOMAIN wire[a] :
          /\ wire[a][i].cmd = "online" =>
                /\ \E j \in 1..(i - 1) : wire[a][j].cmd = "roomclients"
                /\ \A j \in DOMAIN wire[a] : wire[a][j].cmd = "online" => i = j
          /\ wire[a][i].cmd = "forward" => wire[a][i].from = b
    /\ \A i \in DOMAIN wire[b] :
          /\ wire[b][i].cmd # "online"
          /\ wire[b][i].cmd = "forward" =>
                /\ wire[b][i].from = a
                /\ \E j \in 1..(i - 1) : wire[b][j].cmd = "roomclients"
    /\ ((userNum[b] = 2 /\ pc[b] # "store") \/ IntroducedOn(wire, a)) /\ pc[a] \notin {"leave", "done"} =>
          /\ roomInfoMap[roomName[a]].cws # a
          /\ pc[b] = "leave" => r[b].cws # a

\* Nobody else ever came into the room of a.
Only(a, b) == roomName[a] # Nil /\ \A u \in Sessions : roomName[u] = roomName[a] => u \in {a, b}

-----------------------------------------------------------------------------
(* What a step adds to a wire.                                             *)

\* v is w with something added.
Extends(v, w) == /\ v \in Seq(Messages) /\ Len(v) >= Len(w)
                 /\ \A i \in DOMAIN w : v[i] = w[i]

\* The last message of t's wire, and of what kind it is.
LastOn(t, i, cmd) == i = Len(wire'[t]) /\ wire'[t][i].cmd = cmd

\* What u's handler may add to t's wire, at place i.
News(u, t, i) ==
    \/ Open(u) /\ t = u /\ wire[t] = <<>> /\ LastOn(t, i, "connect")
    \/ net[t] = "open" /\
       \/ RecvConnect(u) /\ t = u /\ LastOn(t, i, "ready")
       \/ (TellCreator(u) \/ TellJoiner(u)) /\ t = u /\ LastOn(t, i, "roomclients")
       \/ TellOther(u) /\ t = otherCws[u] /\ LastOn(t, i, "online")
       \/ Forward(u) /\ t = otherCws[u] /\ LastOn(t, i, "forward") /\ wire'[t][i].from = u
       \/ wire'[t][i].cmd \in {"notice", "offline"}

\* A wire in a step of u's handler.
Grown(u, t) == /\ Extends(wire'[t], wire[t])
               /\ \A i \in DOMAIN wire'[t] : i \notin DOMAIN wire[t] => News(u, t, i)

\* A send adds one message to one open socket.
LEMMA SentExtends ==
    ASSUME NEW w \in Wires, NEW c, NEW m \in Messages, NEW t \in Sessions
    PROVE  /\ Extends(Sent(w, c, m)[t], w[t])
           /\ \A i \in DOMAIN Sent(w, c, m)[t] : i \notin DOMAIN w[t] =>
                 /\ i = Len(Sent(w, c, m)[t]) /\ Sent(w, c, m)[t][i] = m
                 /\ t = c /\ net[t] = "open"
<1>1. w[t] \in Seq(Messages)
  BY DEF Wires
<1>2. CASE t = c /\ net[c] = "open"
  <2>1. Sent(w, c, m)[t] = Append(w[t], m)
    BY <1>2 DEF Sent, Wires
  <2>2. QED
    BY <1>1, <1>2, <2>1 DEF Extends
<1>3. CASE ~(t = c /\ net[c] = "open")
  <2>1. Sent(w, c, m)[t] = w[t]
    BY <1>3 DEF Sent, Wires
  <2>2. QED
    BY <1>1, <2>1 DEF Extends
<1>4. QED
  BY <1>2, <1>3

\* Extensions compose.
LEMMA ExtendsTwice ==
    ASSUME NEW w \in Seq(Messages), NEW v, NEW z, Extends(v, w), Extends(z, v)
    PROVE  Extends(z, w)
  BY DEF Extends

\* A wire that nothing was added to.
LEMMA ExtendsSelf == ASSUME NEW w \in Seq(Messages) PROVE Extends(w, w)
  BY DEF Extends

\* A description goes out with notices before it.
LEMMA ForwardGrows ==
    ASSUME IsoInv, NEW u \in Sessions, Forward(u), NEW t \in Sessions
    PROVE  Grown(u, t)
<1>1. PICK m \in Outcomes(u) :
        LET both(w) == Sent(Sent(w, u, Notice(m)), otherCws[u], Notice(m))
            noted    == IF userNum[u] < 2 THEN both(wire) ELSE wire
        IN wire' = Sent(noted, otherCws[u], Forwarded(u, m))
  BY DEF Forward
<1> DEFINE own  == Sent(wire, u, Notice(m))
           both == Sent(own, otherCws[u], Notice(m))
           noted == IF userNum[u] < 2 THEN both ELSE wire
<1>2. wire' = Sent(noted, otherCws[u], Forwarded(u, m))
  BY <1>1
<1>3. m \in {"p2p", "relayed", "unpatched"}
  BY DEF Outcomes
<1>4. Notice(m) \in Messages /\ Forwarded(u, m) \in Messages
  BY <1>3, MessageTypes
<1>5. /\ Notice(m).cmd = "notice" /\ wire \in Wires /\ wire[t] \in Seq(Messages)
      /\ Forwarded(u, m).cmd = "forward" /\ Forwarded(u, m).from = u
  BY OtherWithin DEF Notice, Forwarded, Wires
<1>6. /\ own \in Wires /\ Extends(own[t], wire[t])
      /\ \A i \in DOMAIN own[t] : i \notin DOMAIN wire[t] =>
            own[t][i].cmd = "notice" /\ net[t] = "open"
  BY <1>4, <1>5, SentType, SentExtends
<1> HIDE DEF own
<1>7. /\ both \in Wires /\ Extends(both[t], own[t])
      /\ \A i \in DOMAIN both[t] : i \notin DOMAIN own[t] =>
            both[t][i].cmd = "notice" /\ net[t] = "open"
  BY <1>4, <1>5, <1>6, SentType, SentExtends
<1> HIDE DEF both
<1>8. /\ noted \in Wires /\ Extends(noted[t], wire[t])
      /\ \A i \in DOMAIN noted[t] : i \notin DOMAIN wire[t] =>
            noted[t][i].cmd = "notice" /\ net[t] = "open"
  <2>1. Extends(both[t], wire[t])
    BY <1>5, <1>6, <1>7, ExtendsTwice
  <2>2. \A i \in DOMAIN both[t] : i \notin DOMAIN wire[t] =>
            both[t][i].cmd = "notice" /\ net[t] = "open"
    BY <1>6, <1>7 DEF Extends
  <2>3. CASE userNum[u] < 2
    BY <1>7, <2>1, <2>2, <2>3
  <2>4. CASE ~(userNum[u] < 2)
    BY <1>5, <2>4, ExtendsSelf
  <2>5. QED
    BY <2>3, <2>4
<1> HIDE DEF noted
<1>9. /\ Extends(wire'[t], noted[t])
      /\ \A i \in DOMAIN wire'[t] : i \notin DOMAIN noted[t] =>
            /\ i = Len(wire'[t]) /\ wire'[t][i] = Forwarded(u, m)
            /\ t = otherCws[u] /\ net[t] = "open"
  BY <1>2, <1>4, <1>8, SentExtends
<1>10. Extends(wire'[t], wire[t])
  BY <1>5, <1>8, <1>9, ExtendsTwice
<1>11. ASSUME NEW i \in DOMAIN wire'[t], i \notin DOMAIN wire[t] PROVE News(u, t, i)
  <2>1. CASE i \in DOMAIN noted[t]
    <3>1. wire'[t][i].cmd = "notice" /\ net[t] = "open"
      BY <1>8, <1>9, <1>11, <2>1 DEF Extends
    <3>2. QED
      BY <3>1 DEF News
  <2>2. CASE i \notin DOMAIN noted[t]
    <3>1. LastOn(t, i, "forward") /\ wire'[t][i].from = u /\ t = otherCws[u] /\ net[t] = "open"
      BY <1>5, <1>9, <2>2 DEF LastOn
    <3>2. QED
      BY <3>1 DEF News
  <2>3. QED
    BY <2>1, <2>2
<1>12. QED
  BY <1>10, <1>11 DEF Grown

\* So for the other messages.
LEMMA TalkGrows ==
    ASSUME IsoInv, NEW u \in Sessions, NEW t \in Sessions,
           RecvConnect(u) \/ TellCreator(u) \/ TellJoiner(u) \/ TellOther(u) \/ RecvEOF(u)
    PROVE  Grown(u, t)
<1>1. wire \in Wires /\ wire[t] \in Seq(Messages) /\ r[u] \in Entries
      /\ myClientId[u] \in Sessions \cup {Nil}
  BY OtherWithin DEF Wires, IsoInv, TypeOK
<1>2. r[u].clientId \in Sessions \cup {Nil}
  BY <1>1, EntryFields
<1>3. CASE RecvConnect(u)
  <2>1. Plain("ready") \in Messages /\ Plain("ready").cmd = "ready"
    BY MessageTypes DEF Plain
  <2>2. wire' = Sent(wire, u, Plain("ready"))
    BY <1>3 DEF RecvConnect
  <2>3. QED
    BY <1>1, <1>3, <2>1, <2>2, SentExtends DEF Grown, News, LastOn
<1>4. CASE TellCreator(u)
  <2>1. RoomClients(Nil) \in Messages /\ RoomClients(Nil).cmd = "roomclients"
    BY MessageTypes DEF RoomClients
  <2>2. wire' = Sent(wire, u, RoomClients(Nil))
    BY <1>4 DEF TellCreator
  <2>3. QED
    BY <1>1, <1>4, <2>1, <2>2, SentExtends DEF Grown, News, LastOn
<1>5. CASE TellJoiner(u)
  <2> DEFINE m == RoomClients(r[u].clientId)
  <2>1. m \in Messages /\ m.cmd = "roomclients"
    BY <1>2, MessageTypes DEF RoomClients
  <2>2. wire' = Sent(wire, u, m)
    BY <1>5 DEF TellJoiner
  <2> HIDE DEF m
  <2>3. QED
    BY <1>1, <1>5, <2>1, <2>2, SentExtends DEF Grown, News, LastOn
<1>6. CASE TellOther(u)
  <2> DEFINE m == Online(myClientId[u])
  <2>1. m \in Messages /\ m.cmd = "online"
    BY <1>1, MessageTypes DEF Online
  <2>2. wire' = Sent(wire, otherCws[u], m)
    BY <1>6 DEF TellOther
  <2> HIDE DEF m
  <2>3. QED
    BY <1>1, <1>6, <2>1, <2>2, SentExtends DEF Grown, News, LastOn
<1>7. CASE RecvEOF(u)
  <2>1. Plain("offline") \in Messages /\ Plain("offline").cmd = "offline"
    BY MessageTypes DEF Plain
  <2>2. wire' = Sent(wire, otherCws[u], Plain("offline")) \/ wire' = wire
    BY <1>7 DEF RecvEOF
  <2>3. CASE wire' = wire
    BY <1>1, <2>3, ExtendsSelf DEF Grown
  <2>4. CASE wire' = Sent(wire, otherCws[u], Plain("offline"))
    BY <1>1, <2>1, <2>4, SentExtends DEF Grown, News
  <2>5. QED
    BY <2>2, <2>3, <2>4
<1>8. QED
  BY <1>3, <1>4, <1>5, <1>6, <1>7

\* A step ends a session or adds to its wire.
LEMMA WireGrows ==
    ASSUME IsoInv, NetInv, NEW u \in Sessions, Serve(u) \/ Continue(u) \/ Outside(u),
           NEW t \in Sessions
    PROVE  \/ Grown(u, t)
           \/ /\ LeaveNoRoom(u) \/ LeaveWrite(u)
              /\ t = u /\ wire'[t] = <<>>
<1>1. wire \in [Sessions -> Seq(Messages)]
  BY DEF IsoInv, TypeOK
<1>2. CASE wire' = wire
  BY <1>1, <1>2, ExtendsSelf DEF Grown
<1>3. CASE Open(u)
  <2>1. wire[u] = <<>>
    BY <1>3 DEF Open, At, NetInv, NetOf
  <2>2. wire' = [wire EXCEPT ![u] = <<Plain("connect")>>]
    BY <1>3 DEF Open
  <2>3. Plain("connect") \in Messages /\ Plain("connect").cmd = "connect"
    BY MessageTypes DEF Plain
  <2>4. CASE t = u
    <3>1. wire'[t] = <<Plain("connect")>> /\ wire[t] = <<>>
      BY <1>1, <2>1, <2>2, <2>4
    <3>2. /\ wire'[t] \in Seq(Messages) /\ Len(wire'[t]) = 1 /\ DOMAIN wire'[t] = {1}
          /\ wire'[t][1] = Plain("connect")
      BY <2>3, <3>1
    <3>3. QED
      BY <1>3, <2>3, <2>4, <3>1, <3>2 DEF Grown, Extends, News, LastOn
  <2>5. CASE t # u
    <3>1. wire'[t] = wire[t]
      BY <1>1, <2>2, <2>5
    <3>2. QED
      BY <1>1, <3>1, ExtendsSelf DEF Grown
  <2>6. QED
    BY <2>4, <2>5
<1>4. CASE LeaveNoRoom(u) \/ LeaveWrite(u)
  <2>1. wire' = [wire EXCEPT ![u] = <<>>]
    BY <1>4 DEF LeaveNoRoom, LeaveWrite, EndSession
  <2>2. CASE t = u
    BY <1>1, <1>4, <2>1, <2>2
  <2>3. CASE t # u
    <3>1. wire'[t] = wire[t]
      BY <1>1, <2>1, <2>3
    <3>2. QED
      BY <1>1, <3>1, ExtendsSelf DEF Grown
  <2>4. QED
    BY <2>2, <2>3
<1>5. CASE OpenFails(u) \/ Subscribe(u) \/ RecvForward(u) \/ StoreRoom(u) \/ ForwardToNil(u)
           \/ RecvError(u) \/ LeaveRead(u) \/ Outside(u)
  <2>1. wire' = wire
    BY <1>5 DEF OpenFails, Subscribe, SubscribeNew, SubscribeFound, RecvForward, StoreRoom,
                ForwardToNil, RecvError, LeaveRead, Outside, ClientCloses, NetBreaks, MapAbort
  <2>2. QED
    BY <1>2, <2>1
<1>6. QED
  BY <1>3, <1>4, <1>5, ForwardGrows, TalkGrows DEF Serve, Continue

-----------------------------------------------------------------------------
(* What every handler may rely on.                                         *)

\* A step touches the locals of one handler.
LEMMA OnlyItsOwn ==
    ASSUME IsoInv, NEW u \in Sessions, Serve(u) \/ Continue(u) \/ Outside(u),
           NEW t \in Sessions, t # u
    PROVE  /\ pc'[t] = pc[t] /\ roomName'[t] = roomName[t] /\ userNum'[t] = userNum[t]
           /\ otherCws'[t] = otherCws[t] /\ r'[t] = r[t] /\ myClientId'[t] = myClientId[t]
           /\ net'[t] = net[t] /\ forwards'[t] = forwards[t]
<1>0. /\ pc \in [Sessions -> Labels] /\ roomName \in [Sessions -> Rooms \cup {Nil}]
      /\ userNum \in [Sessions -> 0..2] /\ otherCws \in [Sessions -> Sessions \cup {Nil}]
      /\ r \in [Sessions -> Entries] /\ myClientId \in [Sessions -> Sessions \cup {Nil}]
      /\ net \in [Sessions -> {"none", "open", "eof", "reset"}]
      /\ forwards \in [Sessions -> 0..MaxForwards]
  BY DEF IsoInv, TypeOK
<1>1. CASE Serve(u)
  <2>1. CASE Subscribe(u)
    <3>1. PICK x \in Rooms, lt \in Asks : SubscribeNew(u, x, lt) \/ SubscribeFound(u, x, lt)
      BY <2>1 DEF Subscribe
    <3>2. /\ pc'[t] = pc[t] /\ roomName'[t] = roomName[t] /\ userNum'[t] = userNum[t]
          /\ otherCws'[t] = otherCws[t] /\ r'[t] = r[t]
      BY <1>0, <3>1 DEF SubscribeNew, SubscribeFound, Goto
    <3>3. UNCHANGED <<myClientId, net, forwards>>
      BY <3>1 DEF SubscribeNew, SubscribeFound
    <3>4. QED
      BY <3>2, <3>3
  <2>2. CASE ~Subscribe(u)
    BY <1>0, <1>1, <2>2 DEF Serve, Open, OpenFails, RecvConnect, RecvForward, handler, Goto
  <2>3. QED
    BY <2>1, <2>2
<1>2. CASE Continue(u)
  <2>1. CASE LeaveNoRoom(u) \/ LeaveWrite(u)
    BY <1>0, <2>1 DEF LeaveNoRoom, LeaveWrite, EndSession, Goto
  <2>2. CASE ~(LeaveNoRoom(u) \/ LeaveWrite(u))
    BY <1>0, <1>2, <2>2 DEF Continue, TellCreator, StoreRoom, TellJoiner, TellOther, Forward,
                      ForwardToNil, RecvEOF, RecvError, LeaveRead, OutOfScope, handler, Goto
  <2>3. QED
    BY <2>1, <2>2
<1>3. CASE Outside(u)
  BY <1>0, <1>3 DEF Outside, ClientCloses, NetBreaks, MapAbort, handler
<1>4. QED
  BY <1>1, <1>2, <1>3

\* What a step does to the connections in a handler and in the map.
LEMMA Knowledge ==
    ASSUME IsoInv, NEW u \in Sessions, Serve(u) \/ Continue(u) \/ Outside(u)
    PROVE  /\ \/ otherCws'[u] \in {otherCws[u], Nil}
              \/ \E x \in Rooms : otherCws'[u] = roomInfoMap[x].cws
           /\ \/ r'[u].cws \in {r[u].cws, Nil, u}
              \/ \E x \in Rooms : r'[u].cws = roomInfoMap[x].cws
           /\ \/ roomInfoMap' = roomInfoMap
              \/ /\ StoreRoom(u) \/ LeaveWrite(u)
                 /\ \A x \in Rooms : \/ roomInfoMap'[x] = roomInfoMap[x]
                                     \/ /\ roomInfoMap'[x].cws \in {Nil, r[u].cws}
                                        /\ \/ roomInfoMap'[x].users = 0
                                           \/ r[u].users > 0 /\ roomInfoMap'[x].cws = r[u].cws
<1>1. Absent.cws = Nil /\ Absent.users = 0 /\ \A lt : Founded(u, lt).cws = u
  BY DEF Absent, Founded
<1>2. CASE Serve(u)
  <2>1. CASE Subscribe(u)
    <3>1. PICK x \in Rooms, lt \in Asks : SubscribeNew(u, x, lt) \/ SubscribeFound(u, x, lt)
      BY <2>1 DEF Subscribe
    <3>2. CASE SubscribeNew(u, x, lt)
      BY <1>1, <3>2 DEF SubscribeNew, IsoInv, TypeOK
    <3>3. CASE SubscribeFound(u, x, lt)
      <4>1. Joined(u, lt, roomInfoMap[x]).cws \in {u, roomInfoMap[x].cws}
        BY DEF Joined
      <4>2. /\ r'[u] = Joined(u, lt, roomInfoMap[x]) /\ roomInfoMap' = roomInfoMap
            /\ otherCws'[u] \in {otherCws[u], roomInfoMap[x].cws}
        BY <3>3 DEF SubscribeFound, IsoInv, TypeOK
      <4>3. QED
        BY <4>1, <4>2
    <3>4. QED
      BY <3>1, <3>2, <3>3
  <2>2. CASE RecvForward(u)
    <3>1. r' = r /\ roomInfoMap' = roomInfoMap /\ roomName[u] \in Rooms
      BY <2>2, NilAssumption DEF RecvForward, Introduced, IsoInv, WiresWithin, MessageWithin
    <3>2. otherCws'[u] \in {otherCws[u], roomInfoMap[roomName[u]].cws}
      BY <2>2 DEF RecvForward, IsoInv, TypeOK
    <3>3. QED
      BY <3>1, <3>2
  <2>3. CASE Open(u) \/ OpenFails(u) \/ RecvConnect(u)
    BY <2>3 DEF Open, OpenFails, RecvConnect, handler
  <2>4. QED
    BY <1>2, <2>1, <2>2, <2>3 DEF Serve
<1>3. CASE Continue(u)
  <2>1. CASE TellCreator(u) \/ TellOther(u) \/ Forward(u) \/ ForwardToNil(u) \/ RecvEOF(u)
             \/ RecvError(u)
    BY <2>1 DEF TellCreator, TellOther, Forward, ForwardToNil, RecvEOF, RecvError, handler
  <2>2. CASE StoreRoom(u)
    <3>1. roomName[u] \in Rooms /\ r[u] \in Entries /\ r[u].users \in 0..2
      BY <2>2, EntryFields DEF StoreRoom, At, NeedsRoom, IsoInv, HandlersWithin, TypeOK
    <3>2. /\ roomInfoMap' = [roomInfoMap EXCEPT ![roomName[u]] = r[u]]
          /\ r' = r \/ r' = [r EXCEPT ![u] = Absent]
          /\ otherCws' = otherCws
      BY <2>2 DEF StoreRoom, OutOfScope, handler
    <3>3. r'[u].cws \in {r[u].cws, Nil}
      BY <1>1, <3>2 DEF IsoInv, TypeOK
    <3>4. ASSUME NEW x \in Rooms
          PROVE  roomInfoMap'[x] = roomInfoMap[x] \/ roomInfoMap'[x] = r[u]
      BY <3>2 DEF IsoInv, TypeOK
    <3>5. r[u].users = 0 \/ r[u].users > 0
      BY <3>1
    <3>6. QED
      BY <2>2, <3>2, <3>3, <3>4, <3>5
  <2>3. CASE TellJoiner(u)
    <3>1. r' = [r EXCEPT ![u] = Absent] /\ otherCws' = otherCws /\ roomInfoMap' = roomInfoMap
      BY <2>3 DEF TellJoiner, OutOfScope, handler
    <3>2. r'[u] = Absent
      BY <3>1 DEF IsoInv, TypeOK
    <3>3. QED
      BY <1>1, <3>1, <3>2
  <2>4. CASE LeaveRead(u)
    <3>1. roomName[u] \in Rooms
      BY <2>4 DEF LeaveRead, HasName, IsoInv, TypeOK
    <3>2. r'[u] = roomInfoMap[roomName[u]] /\ otherCws' = otherCws /\ roomInfoMap' = roomInfoMap
      BY <2>4 DEF LeaveRead, handler, IsoInv, TypeOK
    <3>3. QED
      BY <3>1, <3>2
  <2>5. CASE LeaveNoRoom(u) \/ LeaveWrite(u)
    <3>1. r'[u] = Absent /\ otherCws'[u] = Nil
      BY <2>5 DEF LeaveNoRoom, LeaveWrite, EndSession, IsoInv, TypeOK
    <3>2. CASE LeaveNoRoom(u)
      BY <1>1, <3>1, <3>2 DEF LeaveNoRoom
    <3>3. CASE LeaveWrite(u)
      <4>1. r[u] \in Entries /\ r[u].users \in 0..2
        BY EntryFields DEF IsoInv, TypeOK
      <4>2. /\ OneLess(r[u]).cws \in {Nil, r[u].cws}
            /\ \/ OneLess(r[u]).users = 0
               \/ r[u].users > 0 /\ OneLess(r[u]).cws = r[u].cws
        <5>1. CASE r[u].users > 1
          <6>1. OneLess(r[u]) = [r[u] EXCEPT !.users = r[u].users - 1]
            BY <5>1 DEF OneLess
          <6>2. OneLess(r[u]).cws = r[u].cws
            BY <4>1, <6>1 DEF Entries
          <6>3. QED
            BY <4>1, <5>1, <6>2
        <5>2. CASE ~(r[u].users > 1)
          BY <1>1, <5>2 DEF OneLess
        <5>3. QED
          BY <5>1, <5>2
      <4>3. ASSUME NEW x \in Rooms
            PROVE  roomInfoMap'[x] = roomInfoMap[x] \/ roomInfoMap'[x] = OneLess(r[u])
        BY <3>3 DEF LeaveWrite, IsoInv, TypeOK
      <4>4. QED
        BY <1>1, <3>1, <3>3, <4>2, <4>3
    <3>4. QED
      BY <2>5, <3>2, <3>3
  <2>6. QED
    BY <1>3, <2>1, <2>2, <2>3, <2>4, <2>5 DEF Continue
<1>4. CASE Outside(u)
  BY <1>4 DEF Outside, ClientCloses, NetBreaks, MapAbort, handler
<1>5. QED
  BY <1>2, <1>3, <1>4

\* Who is known to anybody has a room and stays settled.
LEMMA KnownStaySettled ==
    ASSUME IsoInv, NEW u \in Sessions, Serve(u) \/ Continue(u) \/ Outside(u),
           NEW c \in Sessions, Settled(c), roomName[c] # Nil
    PROVE  Settled(c)'
<1>1. CASE c # u
  BY <1>1, OnlyItsOwn DEF Settled
<1>2. CASE c = u
  <2>1. ~Subscribe(u)
    BY <1>2 DEF Subscribe, SubscribeNew, SubscribeFound, MaySubscribe
  <2>2. CASE LeaveNoRoom(u) \/ LeaveWrite(u)
    BY <1>2, <2>2 DEF LeaveNoRoom, LeaveWrite, EndSession, Goto, Settled, IsoInv, TypeOK
  <2>3. CASE Serve(u)
    BY <1>2, <2>1, <2>3 DEF Serve, Open, OpenFails, RecvConnect, RecvForward, Goto, Settled,
                            IsoInv, TypeOK
  <2>4. CASE Continue(u)
    BY <1>2, <2>2, <2>4 DEF Continue, TellCreator, StoreRoom, TellJoiner, TellOther, Forward,
          ForwardToNil, RecvEOF, RecvError, LeaveRead, Goto, At, Settled, IsoInv, TypeOK
  <2>5. CASE Outside(u)
    BY <1>2, <2>5 DEF Outside, ClientCloses, NetBreaks, MapAbort, Settled
  <2>6. QED
    BY <2>3, <2>4, <2>5
<1>3. QED
  BY <1>1, <1>2

\* What is known keeps pointing at settled handlers.
LEMMA KnownStep ==
    ASSUME IsoInv, IsoInv', RoomsInv, NEW u \in Sessions, Serve(u) \/ Continue(u) \/ Outside(u)
    PROVE  /\ \A v \in Sessions : KnownTo(v)'
           /\ \A x \in Rooms : EntryKnown(x)'
<1>1. \A c \in Sessions : Settled(c) /\ roomName[c] # Nil => Settled(c)'
  BY KnownStaySettled
<1>2. \A x \in Rooms, c \in Sessions : roomInfoMap[x].cws = c => Settled(c) /\ roomName[c] # Nil
  BY NilAssumption DEF RoomsInv, EntryKnown, IsoInv, EntriesWithin, EntryWithin, Within
<1>3. \A v, c \in Sessions : otherCws[v] = c => Settled(c) /\ roomName[c] # Nil
  BY NilAssumption DEF RoomsInv, KnownTo, IsoInv, HandlersWithin, Within
<1>4. \A v, c \in Sessions : v # c /\ r[v].cws = c => Settled(c) /\ roomName[c] # Nil
  BY NilAssumption DEF RoomsInv, KnownTo, IsoInv, HandlersWithin, EntryWithin, Within
<1>5. ASSUME NEW v \in Sessions PROVE KnownTo(v)'
  <2>1. CASE v # u
    <3>1. otherCws'[v] = otherCws[v] /\ r'[v] = r[v]
      BY <2>1, OnlyItsOwn
    <3>2. QED
      BY <1>1, <1>3, <1>4, <3>1 DEF KnownTo
  <2>2. CASE v = u
    <3>1. \A c \in Sessions : otherCws'[u] = c => Settled(c)'
      BY <1>1, <1>2, <1>3, Knowledge, NilAssumption
    <3>2. \A c \in Sessions : u # c /\ r'[u].cws = c => Settled(c)'
      BY <1>1, <1>2, <1>4, Knowledge, NilAssumption
    <3>3. QED
      BY <2>2, <3>1, <3>2 DEF KnownTo
  <2>3. QED
    BY <2>1, <2>2
<1>6. ASSUME NEW x \in Rooms PROVE EntryKnown(x)'
  <2>1. CopyOf(u) /\ EntryKnown(x)
    BY DEF RoomsInv
  <2>2. CASE roomInfoMap'[x] = roomInfoMap[x]
    BY <1>1, <1>2, <2>1, <2>2 DEF EntryKnown
  <2>3. CASE roomInfoMap'[x] # roomInfoMap[x]
    <3>1. /\ StoreRoom(u) \/ LeaveWrite(u)
          /\ roomInfoMap'[x].cws \in {Nil, r[u].cws}
          /\ \/ roomInfoMap'[x].users = 0
             \/ r[u].users > 0 /\ roomInfoMap'[x].cws = r[u].cws
      BY <2>3, Knowledge
    <3>2. Settled(u)'
      <4>1. pc \in [Sessions -> Labels]
        BY DEF IsoInv, TypeOK
      <4>2. pc'[u] \in {"receive", "reply", "done"}
        BY <3>1, <4>1 DEF StoreRoom, LeaveWrite, EndSession, Goto
      <4>3. QED
        BY <4>2 DEF Settled
    <3>3. \A c \in Sessions : roomInfoMap'[x].cws = c => Settled(c)'
      BY <1>1, <1>4, <3>1, <3>2, NilAssumption
    <3>4. roomInfoMap'[x].users > 0 => roomInfoMap'[x].cws # Nil
      BY <2>1, <3>1 DEF CopyOf
    <3>5. QED
      BY <3>3, <3>4 DEF EntryKnown
  <2>4. QED
    BY <2>2, <2>3
<1>7. QED
  BY <1>5, <1>6


\* Numbers and copies of the handler that acts.
LEMMA OwnNumber ==
    ASSUME IsoInv, RoomsInv, NEW u \in Sessions, Serve(u) \/ Continue(u) \/ Outside(u)
    PROVE  NumberOf(u)' /\ CopyOf(u)'
<1>1. NumberOf(u) /\ CopyOf(u) /\ \A x \in Rooms : EntryKnown(x)
  BY DEF RoomsInv
<1>2. /\ pc \in [Sessions -> Labels] /\ roomName \in [Sessions -> Rooms \cup {Nil}]
      /\ userNum \in [Sessions -> 0..2] /\ otherCws \in [Sessions -> Sessions \cup {Nil}]
      /\ r \in [Sessions -> Entries] /\ roomInfoMap \in [Rooms -> Entries]
  BY DEF IsoInv, TypeOK
<1>3. Absent.cws = Nil /\ Absent.users = 0
  BY DEF Absent
<1>4. CASE Subscribe(u)
  <2>1. PICK x \in Rooms, lt \in Asks : SubscribeNew(u, x, lt) \/ SubscribeFound(u, x, lt)
    BY <1>4 DEF Subscribe
  <2>2. /\ roomName[u] = Nil /\ otherCws[u] = Nil /\ roomInfoMap[x].cws # u
        /\ x # Nil /\ u # Nil
    BY <2>1, Unknown, NilAssumption DEF SubscribeNew, SubscribeFound, MaySubscribe
  <2>3. CASE SubscribeNew(u, x, lt)
    <3>1. Founded(u, lt).cws = u
      BY DEF Founded
    <3>2. /\ pc'[u] = "create" /\ roomName'[u] = x /\ userNum'[u] = 1 /\ otherCws'[u] = Nil
          /\ r'[u] = Founded(u, lt)
      BY <1>2, <2>2, <2>3 DEF SubscribeNew, Goto
    <3>3. QED
      BY <2>2, <3>1, <3>2 DEF NumberOf, CopyOf
  <2>4. CASE SubscribeFound(u, x, lt)
    <3>1. Joined(u, lt, roomInfoMap[x]).cws = u
      BY <2>2 DEF Joined
    <3>2. /\ pc'[u] = "store" /\ roomName'[u] = x /\ userNum'[u] = 2
          /\ otherCws'[u] = roomInfoMap[x].cws /\ r'[u] = Joined(u, lt, roomInfoMap[x])
      BY <1>2, <2>2, <2>4 DEF SubscribeFound, Goto
    <3>3. roomInfoMap[x].cws \notin {Nil, u}
      BY <1>1, <2>2, <2>4 DEF SubscribeFound, EntryKnown
    <3>4. QED
      BY <2>2, <3>1, <3>2, <3>3 DEF NumberOf, CopyOf
  <2>5. QED
    BY <2>1, <2>3, <2>4
<1>5. CASE Open(u) \/ OpenFails(u) \/ RecvConnect(u)
  <2>1. /\ roomName'[u] = roomName[u] /\ userNum'[u] = userNum[u] /\ otherCws'[u] = otherCws[u]
        /\ r'[u] = r[u]
        /\ \/ pc[u] = "new" /\ pc'[u] \in {"receive", "done"}
           \/ pc'[u] = pc[u]
    BY <1>2, <1>5 DEF Open, OpenFails, RecvConnect, At, Goto, handler
  <2>2. QED
    BY <1>1, <2>1 DEF NumberOf, CopyOf, Arriving
<1>6. CASE RecvForward(u)
  <2>1. /\ roomName'[u] = roomName[u] /\ userNum'[u] = userNum[u]
        /\ otherCws[u] # Nil => otherCws'[u] = otherCws[u]
        /\ r'[u] = r[u] /\ pc[u] = "receive" /\ pc'[u] = "forward"
    BY <1>2, <1>6 DEF RecvForward, Receiving, Goto
  <2>2. QED
    BY <1>1, <2>1 DEF NumberOf, CopyOf, Arriving
<1>7. CASE Continue(u) /\ ~(LeaveNoRoom(u) \/ LeaveWrite(u))
  <2>1. /\ roomName'[u] = roomName[u] /\ userNum'[u] = userNum[u] /\ otherCws'[u] = otherCws[u]
        /\ pc[u] \notin {"new", "done"} /\ pc'[u] \notin {"new", "done", "create"}
        /\ pc'[u] = "reply" => userNum[u] # 1 /\ pc[u] = "store"
        /\ pc'[u] = "notify" => pc[u] = "reply"
        /\ pc'[u] = "store" => pc[u] = "create"
    BY <1>2, <1>7 DEF Continue, TellCreator, StoreRoom, TellJoiner, TellOther, Forward,
          ForwardToNil, RecvEOF, RecvError, LeaveRead, Goto, At, handler
  <2>2. userNum[u] \in 0..2 /\ (pc[u] = "store" => roomName[u] # Nil)
    BY <1>2, NilAssumption DEF IsoInv, HandlersWithin, NeedsRoom
  <2>3. NumberOf(u)'
    BY <1>1, <2>1, <2>2 DEF NumberOf
  <2>8. LeaveRead(u) => roomName[u] \in Rooms
    BY <1>2 DEF LeaveRead, HasName, IsoInv, TypeOK
  <2>4. \/ r'[u] = r[u] \/ r'[u] = Absent
        \/ pc'[u] = "leave" /\ \E x \in Rooms : r'[u] = roomInfoMap[x]
    BY <1>2, <1>7, <2>8 DEF Continue, TellCreator, StoreRoom, TellJoiner, TellOther, Forward,
          ForwardToNil, RecvEOF, RecvError, LeaveRead, OutOfScope, Goto, At
  <2>5. r'[u] # r[u] => pc'[u] # "store"
    BY <1>2, <1>7 DEF Continue, TellCreator, StoreRoom, TellJoiner, TellOther, Forward,
          ForwardToNil, RecvEOF, RecvError, LeaveRead, OutOfScope, Goto, At
  <2>6. CopyOf(u)'
    BY <1>1, <1>3, <2>1, <2>4, <2>5 DEF CopyOf, EntryKnown, Arriving
  <2>7. QED
    BY <2>3, <2>6
<1>8. CASE LeaveNoRoom(u) \/ LeaveWrite(u)
  <2>1. pc'[u] = "done" /\ userNum'[u] = 0 /\ r'[u] = Absent
    BY <1>2, <1>8 DEF LeaveNoRoom, LeaveWrite, EndSession, Goto
  <2>2. QED
    BY <1>3, <2>1 DEF NumberOf, CopyOf, Arriving
<1>9. CASE Outside(u)
  BY <1>1, <1>9 DEF Outside, ClientCloses, NetBreaks, MapAbort, handler, NumberOf, CopyOf
<1>10. QED
  BY <1>4, <1>5, <1>6, <1>7, <1>8, <1>9 DEF Serve

\* A wire that only grew keeps what was on it.
LEMMA GrownKeeps ==
    ASSUME IsoInv, NEW u \in Sessions, NEW t \in Sessions, Grown(u, t)
    PROVE  /\ IntroducedOn(wire, t) => IntroducedOn(wire', t)
           /\ Greeted(t) => Greeted(t)'
           /\ \A i \in DOMAIN wire'[t] :
                 \/ i \in DOMAIN wire[t] /\ wire'[t][i] = wire[t][i]
                 \/ i \notin DOMAIN wire[t] /\ News(u, t, i)
           /\ DOMAIN wire[t] \subseteq DOMAIN wire'[t]
           /\ wire[t] \in Seq(Messages) /\ wire'[t] \in Seq(Messages)
<1>1. wire[t] \in Seq(Messages)
  BY DEF IsoInv, TypeOK
<1>2. DOMAIN wire[t] \subseteq DOMAIN wire'[t] /\ \A i \in DOMAIN wire[t] : wire'[t][i] = wire[t][i]
  BY <1>1 DEF Grown, Extends
<1>3. QED
  BY <1>1, <1>2 DEF Grown, Extends, IntroducedOn, Greeted

\* What reaches the client of another handler's session.
LEMMA OthersMail ==
    ASSUME IsoInv, NetInv, RoomsInv, NEW u \in Sessions, Serve(u) \/ Continue(u) \/ Outside(u),
           NEW t \in Sessions, t # u
    PROVE  MailOf(t)'
<1>1. /\ pc'[t] = pc[t] /\ userNum'[t] = userNum[t] /\ net'[t] = net[t]
      /\ myClientId'[t] = myClientId[t] /\ MailOf(t) /\ KnownTo(u)
  BY OnlyItsOwn DEF RoomsInv
<1>2. Grown(u, t)
  BY WireGrows
<1>3. ASSUME NEW i \in DOMAIN wire'[t], i \notin DOMAIN wire[t], News(u, t, i)
      PROVE  /\ wire'[t][i].cmd \in {"notice", "offline", "online", "forward"}
             /\ wire'[t][i].cmd \in {"online", "forward"} => otherCws[u] = t
  BY <1>3 DEF News, LastOn
<1>4. IntroducedOn(wire', t) => IntroducedOn(wire, t) \/ Settled(t)
  BY <1>1, <1>2, <1>3, GrownKeeps DEF IntroducedOn, KnownTo
<1>5. pc'[t] \in Arriving => ~IntroducedOn(wire', t)
  BY <1>1, <1>4 DEF MailOf, Settled, Arriving
<1>6. ToGreet(t)' <=> ToGreet(t)
  BY <1>1 DEF ToGreet
<1>7. ASSUME NEW i \in DOMAIN wire'[t], wire'[t][i].cmd \in {"connect", "ready"}
      PROVE  i \in DOMAIN wire[t] /\ wire'[t][i] = wire[t][i]
  BY <1>2, <1>3, <1>7, GrownKeeps
<1>8. \A i \in DOMAIN wire'[t] : /\ wire'[t][i].cmd = "connect" => i = 1
                                 /\ wire'[t][i].cmd = "ready" => myClientId'[t] = t
  BY <1>1, <1>7 DEF MailOf
<1>9. \A i, j \in DOMAIN wire'[t] :
          wire'[t][i].cmd = "ready" /\ wire'[t][j].cmd = "ready" => i = j
  BY <1>1, <1>7 DEF MailOf
<1>10. QED
  BY <1>1, <1>2, <1>5, <1>6, <1>8, <1>9, GrownKeeps DEF MailOf

\* What reaches the client of the handler that acts.
LEMMA OwnMail ==
    ASSUME IsoInv, NetInv, RoomsInv, NEW u \in Sessions, Serve(u) \/ Continue(u) \/ Outside(u)
    PROVE  MailOf(u)'
<1>1. NumberOf(u) /\ CopyOf(u) /\ KnownTo(u) /\ MailOf(u) /\ NetOf(u)
  BY DEF RoomsInv, NetInv
<1>2. /\ pc \in [Sessions -> Labels] /\ userNum \in [Sessions -> 0..2]
      /\ myClientId \in [Sessions -> Sessions \cup {Nil}] /\ myClientId[u] \in {u, Nil}
      /\ net \in [Sessions -> {"none", "open", "eof", "reset"}]
      /\ roomName \in [Sessions -> Rooms \cup {Nil}]
      /\ wire \in [Sessions -> Seq(Messages)]
  BY DEF IsoInv, TypeOK
<1>3. CASE LeaveNoRoom(u) \/ LeaveWrite(u)
  <2>1. pc'[u] = "done" /\ wire'[u] = <<>> /\ net'[u] # "open"
    BY <1>1, <1>2, <1>3 DEF LeaveNoRoom, LeaveWrite, EndSession, Goto, At, NetOf
  <2>2. QED
    BY <2>1 DEF MailOf, IntroducedOn, Arriving
<1>4. CASE ~(LeaveNoRoom(u) \/ LeaveWrite(u))
  <2>1. Grown(u, u)
    BY <1>4, WireGrows
  <2>2. \A i \in DOMAIN wire'[u] :
           \/ i \in DOMAIN wire[u] /\ wire'[u][i] = wire[u][i]
           \/ i \notin DOMAIN wire[u] /\ News(u, u, i)
    BY <2>1, GrownKeeps
  <2>3. myClientId[u] = u => myClientId'[u] = u
    BY <1>2, <1>4 DEF Serve, Open, OpenFails, RecvConnect, Subscribe, SubscribeNew,
          SubscribeFound, RecvForward, Continue, TellCreator, StoreRoom, TellJoiner, TellOther,
          Forward, ForwardToNil, RecvEOF, RecvError, LeaveRead, Outside, ClientCloses,
          NetBreaks, MapAbort
  <2>4. ASSUME NEW i \in DOMAIN wire'[u], i \notin DOMAIN wire[u]
        PROVE  /\ wire'[u][i].cmd = "connect" => i = 1
               /\ wire'[u][i].cmd = "ready" => RecvConnect(u) /\ i = Len(wire'[u])
               /\ wire'[u][i].cmd \in {"online", "forward"} => otherCws[u] = u
    <3>1. News(u, u, i)
      BY <2>2, <2>4
    <3>2. CASE Open(u) /\ wire[u] = <<>> /\ LastOn(u, i, "connect")
      <4>1. wire'[u] = <<Plain("connect")>>
        BY <1>2, <3>2 DEF Open
      <4>2. i = 1 /\ wire'[u][i].cmd = "connect"
        BY <3>2, <4>1 DEF LastOn
      <4>3. QED
        BY <4>2
    <3>3. QED
      BY <3>1, <3>2 DEF News, LastOn
  <2>5. RecvConnect(u) => /\ \A i \in DOMAIN wire[u] : wire[u][i].cmd # "ready"
                          /\ myClientId'[u] = u
    BY <1>1, <1>2, NilAssumption DEF RecvConnect, MailOf
  <2>6. /\ \A i \in DOMAIN wire'[u] :
            /\ wire'[u][i].cmd = "connect" => i = 1
            /\ wire'[u][i].cmd = "ready" => myClientId'[u] = u
        /\ \A i, j \in DOMAIN wire'[u] :
            wire'[u][i].cmd = "ready" /\ wire'[u][j].cmd = "ready" => i = j
    BY <1>1, <2>2, <2>3, <2>4, <2>5 DEF MailOf
  <2>7. IntroducedOn(wire', u) => IntroducedOn(wire, u) \/ otherCws[u] = u
    BY <2>2, <2>4 DEF IntroducedOn
  <2>8. pc'[u] \in Arriving => ~IntroducedOn(wire', u)
    <3>1. CASE pc[u] \in Arriving
      BY <1>1, <2>7, <3>1 DEF MailOf, KnownTo, Settled, Arriving
    <3>2. CASE pc[u] \notin Arriving
      <4>1. pc'[u] \in Arriving => Subscribe(u)
        BY <1>2, <1>4, <3>2 DEF Serve, Open, OpenFails, RecvConnect, RecvForward, Continue,
              TellCreator, StoreRoom, TellJoiner, TellOther, Forward, ForwardToNil, RecvEOF,
              RecvError, LeaveRead, Outside, ClientCloses, NetBreaks, MapAbort, Goto, At, Arriving
      <4>2. Subscribe(u) => roomName[u] = Nil
        BY DEF Subscribe, SubscribeNew, SubscribeFound, MaySubscribe
      <4>3. QED
        BY <2>7, <4>1, <4>2, Unknown, NilAssumption
    <3>3. QED
      BY <3>1, <3>2
  <2>9. pc'[u] = "forward" => IntroducedOn(wire', u)
    <3>1. pc'[u] = "forward" => pc[u] = "forward" \/ RecvForward(u)
      BY <1>2, <1>4 DEF Serve, Open, OpenFails, RecvConnect, Subscribe, SubscribeNew,
            SubscribeFound, Continue, TellCreator, StoreRoom, TellJoiner, TellOther, Forward,
            ForwardToNil, RecvEOF, RecvError, LeaveRead, Outside, ClientCloses, NetBreaks,
            MapAbort, Goto, At
    <3>2. RecvForward(u) => IntroducedOn(wire, u)
      BY DEF RecvForward, Introduced, IntroducedOn
    <3>3. QED
      BY <1>1, <2>1, <3>1, <3>2, GrownKeeps DEF MailOf
  <2>10. net'[u] = "open" /\ userNum'[u] # 0 /\ ~ToGreet(u)' => Greeted(u)'
    <3>1. CASE net[u] = "open" /\ userNum[u] # 0 /\ ~ToGreet(u)
      BY <1>1, <2>1, <3>1, GrownKeeps DEF MailOf
    <3>2. CASE TellCreator(u) \/ TellJoiner(u)
      <4>1. CASE net[u] = "open"
        <5>1. \E m \in Messages : m.cmd = "roomclients" /\ wire' = Sent(wire, u, m)
          <6>1. r[u] \in Entries
            BY DEF IsoInv, TypeOK
          <6>2. RoomClients(Nil) \in Messages /\ RoomClients(r[u].clientId) \in Messages
            BY <6>1, EntryFields, MessageTypes
          <6>3. \A id : RoomClients(id).cmd = "roomclients"
            BY DEF RoomClients
          <6>4. QED
            BY <3>2, <6>2, <6>3 DEF TellCreator, TellJoiner
        <5>2. PICK m \in Messages : m.cmd = "roomclients" /\ wire' = Sent(wire, u, m)
          BY <5>1
        <5>3. wire'[u] = Append(wire[u], m)
          BY <1>2, <4>1, <5>2 DEF Sent
        <5>4. Len(wire[u]) + 1 \in DOMAIN wire'[u] /\ wire'[u][Len(wire[u]) + 1] = m
          BY <1>2, <5>3
        <5>5. QED
          BY <5>2, <5>4 DEF Greeted
      <4>2. QED
        BY <3>2, <4>1 DEF TellCreator, TellJoiner
    <3>3. CASE ~(TellCreator(u) \/ TellJoiner(u))
      <4>1. net'[u] = "open" /\ userNum'[u] # 0 /\ ~ToGreet(u)' /\ ~Open(u) /\ ~Subscribe(u)
               => net[u] = "open" /\ userNum[u] # 0 /\ ~ToGreet(u)
        <5>1. CASE OpenFails(u) \/ ClientCloses(u) \/ NetBreaks(u)
          BY <1>2, <5>1 DEF OpenFails, ClientCloses, NetBreaks
        <5>2. CASE StoreRoom(u)
          BY <1>2, <5>2 DEF StoreRoom, Goto, At, handler, ToGreet
        <5>3. CASE RecvConnect(u) \/ RecvForward(u) \/ RecvEOF(u) \/ RecvError(u)
          BY <1>2, <5>3 DEF RecvConnect, RecvForward, RecvEOF, RecvError, Receiving, Goto, At,
                            handler, ToGreet
        <5>4. CASE TellOther(u) \/ Forward(u) \/ ForwardToNil(u) \/ LeaveRead(u)
                   \/ \E t \in Sessions : MapAbort(u, t)
          BY <1>2, <5>4 DEF TellOther, Forward, ForwardToNil, LeaveRead, MapAbort, Goto, At,
                            handler, ToGreet
        <5>5. QED
          BY <1>4, <3>3, <5>1, <5>2, <5>3, <5>4 DEF Serve, Continue, Outside
      <4>2. Open(u) => userNum'[u] = 0
        BY <1>1 DEF Open, At, handler, NumberOf
      <4>3. Subscribe(u) => ToGreet(u)'
        BY <1>2 DEF Subscribe, SubscribeNew, SubscribeFound, Goto, ToGreet
      <4>4. QED
        BY <3>1, <4>1, <4>2, <4>3
    <3>4. QED
      BY <3>2, <3>3
  <2>11. QED
    BY <2>6, <2>8, <2>9, <2>10 DEF MailOf
<1>5. QED
  BY <1>3, <1>4

\* The rooms in a step of the server, whatever its clients do.
LEMMA RoomsStep == IsoInv /\ IsoInv' /\ NetInv /\ RoomsInv /\ [Next]_vars => RoomsInv'
<1> SUFFICES ASSUME IsoInv, IsoInv', NetInv, RoomsInv, [Next]_vars PROVE RoomsInv'
  OBVIOUS
<1>1. CASE UNCHANGED vars
  BY <1>1 DEF vars, handler, RoomsInv, NumberOf, CopyOf, MailOf, KnownTo, EntryKnown, Settled,
              Greeted, ToGreet, IntroducedOn
<1>2. ASSUME NEW u \in Sessions, Serve(u) \/ Continue(u) \/ Outside(u) PROVE RoomsInv'
  <2>1. ASSUME NEW v \in Sessions, v # u PROVE NumberOf(v)' /\ CopyOf(v)'
    BY <1>2, <2>1, OnlyItsOwn DEF RoomsInv, NumberOf, CopyOf
  <2>2. QED
    BY <1>2, <2>1, OwnNumber, OwnMail, OthersMail, KnownStep DEF RoomsInv
<1>3. QED
  BY <1>1, <1>2 DEF Next

\* No room has been entered yet.
LEMMA RoomsInit == Init => RoomsInv
<1> SUFFICES ASSUME Init PROVE RoomsInv
  OBVIOUS
<1>1. Absent.cws = Nil /\ Absent.users = 0
  BY DEF Absent
<1>2. \A s \in Sessions : wire[s] = <<>> /\ pc[s] = "new" /\ net[s] = "none" /\ userNum[s] = 0
                          /\ otherCws[s] = Nil /\ r[s] = Absent /\ roomName[s] = Nil
  BY DEF Init
<1>3. \A x \in Rooms : roomInfoMap[x] = Absent
  BY DEF Init
<1>4. QED
  BY <1>1, <1>2, <1>3, NilAssumption
     DEF RoomsInv, NumberOf, CopyOf, MailOf, KnownTo, EntryKnown, IntroducedOn, Arriving

-----------------------------------------------------------------------------
(* A room for two, on the server.                                          *)

\* A handler that has a room keeps it, and is past entering it for good.
LEMMA StaysIn ==
    ASSUME IsoInv, RoomsInv, NEW u \in Sessions, Serve(u) \/ Continue(u) \/ Outside(u),
           NEW t \in Sessions, roomName[t] # Nil
    PROVE  /\ roomName'[t] = roomName[t]
           /\ userNum'[t] \in {userNum[t], 0}
           /\ pc[t] \notin Entering => pc'[t] \notin Entering
           /\ pc[t] \in {"leave", "done"} => pc'[t] \in {"leave", "done"}
           /\ pc'[t] = "store" \/ pc[t] # "store" \/ (t = u /\ StoreRoom(u))
<1>1. /\ pc \in [Sessions -> Labels] /\ userNum \in [Sessions -> 0..2] /\ NumberOf(t)
  BY DEF IsoInv, TypeOK, RoomsInv
<1>2. CASE t # u
  BY <1>2, OnlyItsOwn
<1>3. CASE t = u
  <2>1. ~Subscribe(u) /\ ~Open(u) /\ ~OpenFails(u)
    BY <1>1, <1>3 DEF Subscribe, SubscribeNew, SubscribeFound, MaySubscribe, Open, OpenFails, At,
                      NumberOf
  <2>2. CASE LeaveNoRoom(u) \/ LeaveWrite(u)
    BY <1>1, <1>3, <2>2 DEF LeaveNoRoom, LeaveWrite, EndSession, Goto, At, Entering
  <2>3. CASE Serve(u)
    BY <1>1, <1>3, <2>1, <2>3 DEF Serve, RecvConnect, RecvForward, Receiving, Goto, handler, Entering
  <2>4. CASE Continue(u) /\ ~(LeaveNoRoom(u) \/ LeaveWrite(u))
    BY <1>1, <1>3, <2>4 DEF Continue, TellCreator, StoreRoom, TellJoiner, TellOther, Forward,
          ForwardToNil, RecvEOF, RecvError, LeaveRead, Goto, At, handler, Entering
  <2>5. CASE Outside(u)
    BY <1>1, <1>3, <2>5 DEF Outside, ClientCloses, NetBreaks, MapAbort, handler
  <2>6. QED
    BY <2>2, <2>3, <2>4, <2>5
<1>4. QED
  BY <1>2, <1>3

\* Who knows one of a pair is the other one.
LEMMA KnowsPair ==
    ASSUME IsoInv, RoomsInv, NEW a \in Sessions, NEW b \in Sessions, a # b,
           \A t \in Sessions : roomName[t] = roomName[a] => t \in {a, b},
           roomName[a] # Nil, roomName[b] \in {Nil, roomName[a]}, PairOf(a, b),
           NEW u \in Sessions
    PROVE  /\ otherCws[u] = a => u = b /\ roomName[b] = roomName[a] /\ Settled(a)
           /\ otherCws[u] = b => /\ u \in {a, b} /\ roomName[b] = roomName[a] /\ Settled(b)
                                 /\ userNum[b] = 2 => u = a
           /\ userNum[b] = 2 => otherCws[b] = a
<1>1. KnownTo(u) /\ NumberOf(b)
  BY DEF RoomsInv
<1>2. \A c \in {a, b} : otherCws[u] = c => roomName[c] = roomName[u] /\ roomName[u] # Nil
  BY OtherWithin, NilAssumption
<1>3. otherCws[u] = a => u = b /\ roomName[b] = roomName[a] /\ Settled(a)
  BY <1>1, <1>2 DEF PairOf, KnownTo
<1>4. otherCws[u] = b => /\ u \in {a, b} /\ roomName[b] = roomName[a] /\ Settled(b)
                         /\ userNum[b] = 2 => u = a
  BY <1>1, <1>2 DEF KnownTo, NumberOf
<1>5. userNum[b] = 2 => otherCws[b] = a
  <2>1. otherCws[b] \in Sessions \cup {Nil} /\ roomName \in [Sessions -> Rooms \cup {Nil}]
    BY DEF IsoInv, TypeOK
  <2>2. ASSUME userNum[b] = 2 PROVE otherCws[b] \in Sessions /\ otherCws[b] # b
    BY <1>1, <2>1, <2>2 DEF NumberOf
  <2>3. ASSUME userNum[b] = 2 PROVE roomName[b] = roomName[a]
    BY <1>1, <2>3 DEF NumberOf
  <2>4. QED
    BY <2>2, <2>3, OtherWithin
<1>6. QED
  BY <1>3, <1>4, <1>5

\* Who introduces the two to each other: the one that joined, and then both.
LEMMA PairNews ==
    ASSUME IsoInv, NetInv, RoomsInv, NEW a \in Sessions, NEW b \in Sessions, a # b,
           \A t \in Sessions : roomName[t] = roomName[a] => t \in {a, b},
           roomName[a] # Nil, roomName[b] \in {Nil, roomName[a]}, PairOf(a, b),
           NEW u \in Sessions,
           NEW t \in {a, b}, NEW i, News(u, t, i), wire'[t][i].cmd \in {"online", "forward"}
    PROVE  /\ roomName[b] = roomName[a] /\ userNum[b] # 1 /\ net[t] = "open"
           /\ wire'[t][i].cmd = "online" =>
                 /\ TellOther(b) /\ u = b /\ t = a /\ ~Meets(a, b) /\ LastOn(t, i, "online")
                 /\ Greeted(a)
           /\ wire'[t][i].cmd = "forward" =>
                 /\ Forward(u) /\ u \in {a, b} \ {t} /\ Meets(a, b) /\ LastOn(t, i, "forward")
                 /\ wire'[t][i].from = u /\ t = otherCws[u]
                 /\ t = b => Greeted(b)
<1>1. NumberOf(a) /\ NumberOf(b) /\ MailOf(a) /\ MailOf(b) /\ NetOf(a) /\ NetOf(b)
  BY DEF RoomsInv, NetInv
<1>2. /\ otherCws[u] = a => u = b /\ roomName[b] = roomName[a] /\ Settled(a)
      /\ otherCws[u] = b => /\ u \in {a, b} /\ roomName[b] = roomName[a] /\ Settled(b)
                            /\ userNum[b] = 2 => u = a
  BY KnowsPair
<1>3. net[t] = "open" /\ t = otherCws[u]
  BY DEF News, LastOn
<1>4. roomName[b] = roomName[a] /\ u \in {a, b}
  BY <1>2, <1>3
<1>5. CASE wire'[t][i].cmd = "online"
  <2>1. TellOther(u) /\ LastOn(t, i, "online")
    BY <1>5 DEF News, LastOn
  <2>2. pc[u] = "notify"
    BY <2>1 DEF TellOther, At
  <2>3. userNum[u] = 2
    BY <1>1, <1>4, <2>2 DEF NumberOf
  <2>4. u = b
    BY <1>4, <2>3 DEF PairOf
  <2>5. t = a
    BY <1>2, <1>3, <2>3, <2>4
  <2>6. ~Meets(a, b)
    BY <2>2, <2>4 DEF PairOf, Entering
  <2>7. Settled(a) /\ userNum[a] # 2 /\ userNum[a] # 0
    BY <1>1, <1>2, <1>3, <2>5 DEF PairOf, NumberOf, NetOf
  <2>8. Greeted(a)
    BY <1>1, <1>3, <2>5, <2>7 DEF MailOf, ToGreet, Settled
  <2>9. QED
    BY <1>3, <1>4, <1>5, <2>1, <2>3, <2>4, <2>5, <2>6, <2>8
<1>6. CASE wire'[t][i].cmd = "forward"
  <2>1. Forward(u) /\ LastOn(t, i, "forward") /\ wire'[t][i].from = u
    BY <1>6 DEF News, LastOn
  <2>2. pc[u] = "forward"
    BY <2>1 DEF Forward, At
  <2>3. Meets(a, b)
    BY <1>1, <1>4, <2>2 DEF MailOf, Meets
  <2>4. userNum[b] # 1 /\ pc[b] \notin Entering
    BY <2>3 DEF PairOf, Entering
  <2>5. u # t
    <3>1. CASE u = a
      BY <1>2, <1>3, <3>1
    <3>2. CASE u = b
      <4>1. userNum[b] \in 0..2
        BY DEF IsoInv, TypeOK
      <4>2. userNum[b] # 0
        BY <1>1, <1>4, <2>2, <3>2 DEF NumberOf
      <4>3. userNum[b] = 2
        BY <2>4, <4>1, <4>2
      <4>4. QED
        BY <1>2, <1>3, <3>2, <4>3
    <3>3. QED
      BY <1>4, <3>1, <3>2
  <2>6. t = b => Greeted(b)
    <3>1. net[b] = "open" => userNum[b] # 0
      BY <1>1, <1>4 DEF NumberOf, NetOf
    <3>2. ~ToGreet(b)
      BY <2>4 DEF ToGreet, Entering
    <3>3. QED
      BY <1>1, <1>3, <3>1, <3>2 DEF MailOf
  <2>7. QED
    BY <1>3, <1>4, <1>6, <2>1, <2>3, <2>4, <2>5, <2>6
<1>7. QED
  BY <1>5, <1>6

\* Who writes a room's entry, and what a handler that leaves has read.
LEMMA EntryWriter ==
    ASSUME IsoInv, NEW u \in Sessions, Serve(u) \/ Continue(u) \/ Outside(u)
    PROVE  /\ \A x \in Rooms : roomInfoMap'[x] # roomInfoMap[x] =>
                 /\ roomName[u] = x /\ roomInfoMap'[x].cws \in {Nil, r[u].cws}
                 /\ \/ pc[u] = "leave" /\ pc'[u] = "done"
                    \/ pc[u] = "store" /\ r[u] = roomInfoMap'[x]
           /\ \A t \in Sessions : pc'[t] = "leave" =>
                 \/ pc[t] = "leave" /\ r'[t] = r[t]
                 \/ roomName[t] \in Rooms /\ r'[t] = roomInfoMap[roomName[t]]
           /\ RecvForward(u) => /\ pc[u] = "receive"
                                /\ otherCws'[u] \in {otherCws[u], roomInfoMap[roomName[u]].cws}
           /\ ~RecvForward(u) /\ ~Subscribe(u) => otherCws'[u] \in {otherCws[u], Nil}
<1>1. /\ pc \in [Sessions -> Labels] /\ roomName \in [Sessions -> Rooms \cup {Nil}]
      /\ otherCws \in [Sessions -> Sessions \cup {Nil}]
      /\ r \in [Sessions -> Entries] /\ roomInfoMap \in [Rooms -> Entries]
  BY DEF IsoInv, TypeOK
<1>2. ASSUME NEW x \in Rooms, roomInfoMap'[x] # roomInfoMap[x]
      PROVE  /\ roomName[u] = x /\ roomInfoMap'[x].cws \in {Nil, r[u].cws}
             /\ \/ pc[u] = "leave" /\ pc'[u] = "done"
                \/ pc[u] = "store" /\ r[u] = roomInfoMap'[x]
  <2>1. StoreRoom(u) \/ LeaveWrite(u)
    BY <1>2, Knowledge
  <2>2. roomInfoMap'[x].cws \in {Nil, r[u].cws}
    BY <1>2, Knowledge
  <2>3. CASE StoreRoom(u)
    <3>1. roomInfoMap' = [roomInfoMap EXCEPT ![roomName[u]] = r[u]] /\ pc[u] = "store"
      BY <2>3 DEF StoreRoom, At
    <3>2. roomName[u] = x
      BY <1>1, <1>2, <3>1
    <3>3. roomInfoMap'[x] = r[u]
      BY <1>1, <3>1, <3>2
    <3>4. QED
      BY <2>2, <3>1, <3>2, <3>3
  <2>4. CASE LeaveWrite(u)
    <3>1. /\ roomInfoMap' = [roomInfoMap EXCEPT ![roomName[u]] = OneLess(r[u])]
          /\ pc[u] = "leave" /\ pc'[u] = "done"
      BY <1>1, <2>4 DEF LeaveWrite, EndSession, Goto, At
    <3>2. roomName[u] = x
      BY <1>1, <1>2, <3>1
    <3>3. QED
      BY <2>2, <3>1, <3>2
  <2>5. QED
    BY <2>1, <2>3, <2>4
<1>3. ASSUME NEW t \in Sessions, pc'[t] = "leave"
      PROVE  \/ pc[t] = "leave" /\ r'[t] = r[t]
             \/ roomName[t] \in Rooms /\ r'[t] = roomInfoMap[roomName[t]]
  <2>1. CASE t # u
    BY <1>3, <2>1, OnlyItsOwn
  <2>2. CASE t = u /\ LeaveRead(u)
    BY <1>1, <2>2 DEF LeaveRead, HasName, IsoInv, TypeOK
  <2>3. CASE t = u /\ ~LeaveRead(u)
    <3>1. CASE Serve(u)
      <4>1. CASE Subscribe(u)
        BY <1>1, <1>3, <2>3, <4>1 DEF Subscribe, SubscribeNew, SubscribeFound, Goto
      <4>2. CASE ~Subscribe(u)
        BY <1>1, <1>3, <2>3, <3>1, <4>2 DEF Serve, Open, OpenFails, RecvConnect, RecvForward, Goto
      <4>3. QED
        BY <4>1, <4>2
    <3>2. CASE Continue(u)
      BY <1>1, <1>3, <2>3, <3>2 DEF Continue, TellCreator, StoreRoom, TellJoiner, TellOther,
            Forward, ForwardToNil, RecvEOF, RecvError, LeaveNoRoom, LeaveWrite, EndSession, Goto
    <3>3. CASE Outside(u)
      BY <1>3, <2>3, <3>3 DEF Outside, ClientCloses, NetBreaks, MapAbort
    <3>4. QED
      BY <3>1, <3>2, <3>3
  <2>4. QED
    BY <2>1, <2>2, <2>3
<1>4. RecvForward(u) => /\ pc[u] = "receive"
                        /\ otherCws'[u] \in {otherCws[u], roomInfoMap[roomName[u]].cws}
  BY <1>1 DEF RecvForward, Receiving
<1>5. ASSUME ~RecvForward(u), ~Subscribe(u) PROVE otherCws'[u] \in {otherCws[u], Nil}
  <2>1. CASE LeaveNoRoom(u) \/ LeaveWrite(u)
    BY <1>1, <2>1 DEF LeaveNoRoom, LeaveWrite, EndSession
  <2>2. CASE ~(LeaveNoRoom(u) \/ LeaveWrite(u))
    BY <1>5, <2>2 DEF Serve, Open, OpenFails, RecvConnect, Continue, TellCreator, StoreRoom,
          TellJoiner, TellOther, Forward, ForwardToNil, RecvEOF, RecvError, LeaveRead, Outside,
          ClientCloses, NetBreaks, MapAbort, handler
  <2>3. QED
    BY <2>1, <2>2
<1>6. QED
  BY <1>2, <1>3, <1>4, <1>5

\* A step leaves a pair a pair.
LEMMA PairStep ==
    ASSUME IsoInv, NetInv, RoomsInv, RoomsInv',
           NEW u \in Sessions, Serve(u) \/ Continue(u) \/ Outside(u),
           NEW a \in Sessions, NEW b \in Sessions, a # b,
           \A t \in Sessions : roomName'[t] = roomName[a] => t \in {a, b},
           roomName[a] # Nil, roomName'[b] \in {Nil, roomName[a]}, PairOf(a, b)
    PROVE  PairOf(a, b)'
<1>1. /\ pc \in [Sessions -> Labels] /\ roomName \in [Sessions -> Rooms \cup {Nil}]
      /\ userNum \in [Sessions -> 0..2] /\ wire \in [Sessions -> Seq(Messages)]
      /\ roomName[a] \in Rooms /\ a # Nil /\ b # Nil
  BY NilAssumption DEF IsoInv, TypeOK
<1>2. /\ \A t \in Sessions : roomName[t] = roomName[a] => t \in {a, b}
      /\ roomName[b] \in {Nil, roomName[a]}
      /\ roomName'[a] = roomName[a]
  BY StaysIn
<1>3. /\ NumberOf(a) /\ NumberOf(b) /\ MailOf(a) /\ MailOf(b) /\ CopyOf(a) /\ CopyOf(b)
  BY DEF RoomsInv
<1>4. userNum[b] = 2 => otherCws[b] = a /\ Settled(a) /\ roomName[b] = roomName[a]
  BY <1>2, KnowsPair
\* What is on the wires.
<1>5. ASSUME NEW t \in {a, b}, NEW i \in DOMAIN wire'[t]
      PROVE  \/ /\ i \in DOMAIN wire[t] /\ wire'[t][i] = wire[t][i]
                /\ DOMAIN wire[t] \subseteq DOMAIN wire'[t]
                /\ \A j \in DOMAIN wire[t] : wire'[t][j] = wire[t][j]
             \/ i \notin DOMAIN wire[t] /\ News(u, t, i) /\ Grown(u, t)
  <2>1. t \in Sessions
    OBVIOUS
  <2>2. Grown(u, t)
    BY <1>5, <2>1, WireGrows
  <2>3. QED
    BY <1>5, <2>1, <2>2, GrownKeeps DEF Grown, Extends
<1>6. ASSUME NEW t \in {a, b}, NEW i \in DOMAIN wire'[t], i \notin DOMAIN wire[t],
             wire'[t][i].cmd \in {"online", "forward"}
      PROVE  /\ roomName[b] = roomName[a] /\ userNum[b] # 1
             /\ \A j \in DOMAIN wire[t] : j < i /\ wire'[t][j] = wire[t][j]
             /\ wire'[t][i].cmd = "online" =>
                   /\ TellOther(b) /\ u = b /\ t = a /\ ~Meets(a, b) /\ i = Len(wire'[t])
                   /\ Greeted(a)
             /\ wire'[t][i].cmd = "forward" =>
                   /\ Forward(u) /\ u \in {a, b} \ {t} /\ Meets(a, b)
                   /\ wire'[t][i].from = u
                   /\ t = b => Greeted(b)
  <2>1. News(u, t, i) /\ Grown(u, t)
    BY <1>5, <1>6
  <2>2. wire[t] \in Seq(Messages) /\ wire'[t] \in Seq(Messages)
    BY <1>1, <2>1 DEF Grown, Extends
  <2>3. \A j \in DOMAIN wire[t] : j < i /\ wire'[t][j] = wire[t][j]
    BY <1>6, <2>1, <2>2 DEF Grown, Extends
  <2>4. QED
    BY <1>2, <1>6, <2>1, <2>3, PairNews DEF LastOn
<1>7. userNum'[a] # 2
  <2>1. userNum'[a] \in {userNum[a], 0}
    BY StaysIn
  <2>2. QED
    BY <2>1 DEF PairOf
<1>8. otherCws'[a] # a
  <2>1. CASE u # a
    BY <2>1, OnlyItsOwn DEF PairOf
  <2>2. CASE u = a
    <3>1. ~Subscribe(a)
      BY DEF Subscribe, SubscribeNew, SubscribeFound, MaySubscribe
    <3>2. CASE RecvForward(a)
      <4>1. IntroducedOn(wire, a) /\ pc[a] = "receive"
        BY <3>2 DEF RecvForward, Introduced, IntroducedOn, Receiving
      <4>2. roomInfoMap[roomName[a]].cws # a
        BY <4>1 DEF PairOf
      <4>3. QED
        BY <2>2, <3>2, <4>2, EntryWriter DEF PairOf
    <3>3. CASE ~RecvForward(a)
      BY <1>1, <2>2, <3>1, <3>3, EntryWriter DEF PairOf
    <3>4. QED
      BY <3>2, <3>3
  <2>3. QED
    BY <2>1, <2>2
<1>9. Meets(a, b)' => roomName'[b] = roomName'[a] /\ userNum'[b] # 1 /\ pc'[b] \notin Entering
  <2>1. CASE Meets(a, b)
    <3>1. roomName[b] = roomName[a] /\ userNum[b] # 1 /\ pc[b] \notin Entering
      BY <2>1 DEF PairOf
    <3>2. roomName'[b] = roomName[b] /\ userNum'[b] \in {userNum[b], 0} /\ pc'[b] \notin Entering
      BY <3>1, StaysIn
    <3>3. QED
      BY <1>2, <3>1, <3>2
  <2>2. ASSUME ~Meets(a, b), Meets(a, b)'
        PROVE  roomName'[b] = roomName'[a] /\ userNum'[b] # 1 /\ pc'[b] \notin Entering
    <3>0. PICK t \in {a, b} : \E i \in DOMAIN wire'[t] : wire'[t][i].cmd \in {"online", "forward"}
      BY <2>2 DEF Meets, IntroducedOn
    <3>1. PICK i \in DOMAIN wire'[t] : wire'[t][i].cmd \in {"online", "forward"}
      BY <3>0
    <3>2. i \notin DOMAIN wire[t]
      BY <1>5, <2>2, <3>1 DEF Meets, IntroducedOn
    <3>3. TellOther(b) /\ roomName[b] = roomName[a] /\ userNum[b] # 1
      BY <1>6, <2>2, <3>1, <3>2
    <3>4. roomName'[b] = roomName[b] /\ userNum'[b] = userNum[b] /\ pc'[b] = "receive"
      BY <1>1, <3>3 DEF TellOther, handler, Goto
    <3>5. QED
      BY <1>2, <3>3, <3>4 DEF Entering
  <2>3. QED
    BY <2>1, <2>2
<1>10. ASSUME NEW i \in DOMAIN wire'[a]
       PROVE  /\ wire'[a][i].cmd = "online" =>
                    /\ \E j \in 1..(i - 1) : wire'[a][j].cmd = "roomclients"
                    /\ \A j \in DOMAIN wire'[a] : wire'[a][j].cmd = "online" => i = j
              /\ wire'[a][i].cmd = "forward" => wire'[a][i].from = b
  <2>1. \A j \in DOMAIN wire[a] : j \in Nat /\ j >= 1 /\ \A k \in 1..(j - 1) : k \in DOMAIN wire[a]
    BY <1>1
  <2>2. CASE i \in DOMAIN wire[a]
    <3>1. /\ \A j \in DOMAIN wire[a] : wire'[a][j] = wire[a][j]
      BY <1>5, <2>2
    <3>2. wire'[a][i].cmd = "online" => \E j \in 1..(i - 1) : wire'[a][j].cmd = "roomclients"
      BY <2>1, <2>2, <3>1 DEF PairOf
    <3>3. ASSUME wire'[a][i].cmd = "online", NEW j \in DOMAIN wire'[a], wire'[a][j].cmd = "online"
          PROVE  i = j
      <4>1. Meets(a, b)
        BY <2>2, <3>1, <3>3 DEF Meets, IntroducedOn
      <4>2. j \in DOMAIN wire[a]
        BY <1>6, <3>3, <4>1
      <4>3. QED
        BY <2>2, <3>1, <3>3, <4>2 DEF PairOf
    <3>4. QED
      BY <2>2, <3>1, <3>2, <3>3 DEF PairOf
  <2>3. CASE i \notin DOMAIN wire[a]
    <3>1. ASSUME wire'[a][i].cmd = "online"
          PROVE  /\ \E j \in 1..(i - 1) : wire'[a][j].cmd = "roomclients"
                 /\ \A j \in DOMAIN wire'[a] : wire'[a][j].cmd = "online" => i = j
      <4>1. /\ ~Meets(a, b) /\ i = Len(wire'[a]) /\ Greeted(a)
            /\ \A j \in DOMAIN wire[a] : j < i /\ wire'[a][j] = wire[a][j]
        BY <1>6, <2>3, <3>1
      <4>2. PICK j \in DOMAIN wire[a] : wire[a][j].cmd = "roomclients"
        BY <4>1 DEF Greeted
      <4>3. i \in Nat
        <5>1. Grown(u, a)
          BY <1>5, <2>3
        <5>2. QED
          BY <4>1, <5>1 DEF Grown, Extends
      <4>4. j \in 1..(i - 1) /\ wire'[a][j].cmd = "roomclients"
        BY <2>1, <4>1, <4>2, <4>3
      <4>5. ASSUME NEW k \in DOMAIN wire'[a], wire'[a][k].cmd = "online" PROVE i = k
        <5>1. CASE k \in DOMAIN wire[a]
          BY <4>1, <4>5, <5>1 DEF Meets, IntroducedOn
        <5>2. CASE k \notin DOMAIN wire[a]
          BY <1>6, <4>1, <4>5, <5>2
        <5>3. QED
          BY <5>1, <5>2
      <4>6. QED
        BY <4>4, <4>5
    <3>2. wire'[a][i].cmd = "forward" => wire'[a][i].from = b
      BY <1>6, <2>3
    <3>3. QED
      BY <3>1, <3>2
  <2>4. QED
    BY <2>2, <2>3
<1>11. ASSUME NEW i \in DOMAIN wire'[b]
       PROVE  /\ wire'[b][i].cmd # "online"
              /\ wire'[b][i].cmd = "forward" =>
                    /\ wire'[b][i].from = a
                    /\ \E j \in 1..(i - 1) : wire'[b][j].cmd = "roomclients"
  <2>1. \A j \in DOMAIN wire[b] : j \in Nat /\ j >= 1 /\ \A k \in 1..(j - 1) : k \in DOMAIN wire[b]
    BY <1>1
  <2>2. CASE i \in DOMAIN wire[b]
    <3>1. \A j \in DOMAIN wire[b] : wire'[b][j] = wire[b][j]
      BY <1>5, <2>2
    <3>2. QED
      BY <2>1, <2>2, <3>1 DEF PairOf
  <2>3. CASE i \notin DOMAIN wire[b]
    <3>1. wire'[b][i].cmd # "online"
      BY <1>6, <2>3
    <3>2. ASSUME wire'[b][i].cmd = "forward"
          PROVE  /\ wire'[b][i].from = a
                 /\ \E j \in 1..(i - 1) : wire'[b][j].cmd = "roomclients"
      <4>1. /\ wire'[b][i].from = a /\ Greeted(b)
            /\ \A j \in DOMAIN wire[b] : j < i /\ wire'[b][j] = wire[b][j]
        BY <1>6, <2>3, <3>2
      <4>2. PICK j \in DOMAIN wire[b] : wire[b][j].cmd = "roomclients"
        BY <4>1 DEF Greeted
      <4>3. i \in Nat
        <5>1. Grown(u, b)
          BY <1>5, <2>3
        <5>2. wire'[b] \in Seq(Messages)
          BY <5>1 DEF Grown, Extends
        <5>3. QED
          BY <5>2
      <4>4. j \in 1..(i - 1) /\ wire'[b][j].cmd = "roomclients"
        BY <2>1, <4>1, <4>2, <4>3
      <4>5. QED
        BY <4>1, <4>4
    <3>3. QED
      BY <3>1, <3>2
  <2>4. QED
    BY <2>2, <2>3
<1>12. ASSUME (userNum'[b] = 2 /\ pc'[b] # "store") \/ IntroducedOn(wire', a),
              pc'[a] \notin {"leave", "done"}
       PROVE  /\ roomInfoMap'[roomName'[a]].cws # a
              /\ pc'[b] = "leave" => r'[b].cws # a
  <2> DEFINE Joint == (userNum[b] = 2 /\ pc[b] # "store") \/ IntroducedOn(wire, a)
  <2>1. pc[a] \notin {"leave", "done"}
    BY <1>12, StaysIn
  <2>2. CASE Joint
    <3>1. roomInfoMap[roomName[a]].cws # a /\ (pc[b] = "leave" => r[b].cws # a)
      BY <2>1, <2>2 DEF PairOf
    <3>2. pc[a] # "store"
      BY <1>3, <1>4, <2>2 DEF MailOf, Arriving, Settled
    <3>3. roomInfoMap'[roomName[a]].cws # a
      <4>1. CASE roomInfoMap'[roomName[a]] = roomInfoMap[roomName[a]]
        BY <3>1, <4>1
      <4>2. CASE roomInfoMap'[roomName[a]] # roomInfoMap[roomName[a]]
        <5>1. /\ roomName[u] = roomName[a] /\ roomInfoMap'[roomName[a]].cws \in {Nil, r[u].cws}
              /\ (pc[u] = "leave" /\ pc'[u] = "done") \/ pc[u] = "store"
          BY <1>1, <4>2, EntryWriter
        <5>2. u = b
          BY <1>2, <1>12, <3>2, <5>1
        <5>3. r[b].cws # a
          BY <1>3, <3>1, <5>1, <5>2 DEF CopyOf, Arriving
        <5>4. QED
          BY <1>1, <5>1, <5>2, <5>3
      <4>3. QED
        BY <4>1, <4>2
    <3>4. pc'[b] = "leave" => r'[b].cws # a
      <4>1. CASE roomName[b] = roomName[a]
        BY <3>1, <4>1, EntryWriter
      <4>2. CASE roomName[b] = Nil
        <5>1. roomName[b] \notin Rooms
          BY <4>2, NilAssumption
        <5>2. pc'[b] = "leave" => pc[b] = "leave" /\ r'[b] = r[b]
          BY <5>1, EntryWriter
        <5>3. QED
          BY <3>1, <5>2
      <4>3. QED
        BY <1>2, <4>1, <4>2
    <3>5. QED
      BY <1>2, <3>3, <3>4
  <2>3. CASE ~Joint
    <3>1. ~IntroducedOn(wire', a)
      <4>1. SUFFICES ASSUME IntroducedOn(wire', a) PROVE FALSE
        OBVIOUS
      <4>2. PICK i \in DOMAIN wire'[a] : wire'[a][i].cmd \in {"online", "forward"}
        BY <4>1 DEF IntroducedOn
      <4>3. i \notin DOMAIN wire[a]
        BY <1>5, <2>3, <4>2 DEF IntroducedOn
      <4>4. u = b /\ (TellOther(b) \/ Forward(b)) /\ roomName[b] = roomName[a] /\ userNum[b] # 1
        BY <1>6, <4>2, <4>3
      <4>5. pc[b] \in {"notify", "forward"}
        BY <4>4 DEF TellOther, Forward, At
      <4>6. userNum[b] \in 0..2 /\ userNum[b] # 0
        BY <1>1, <1>3, <4>4, <4>5 DEF NumberOf
      <4>7. userNum[b] = 2 /\ pc[b] # "store"
        BY <4>4, <4>5, <4>6
      <4>8. QED
        BY <2>3, <4>7
    <3>2. userNum'[b] = 2 /\ pc'[b] # "store"
      BY <1>12, <3>1
    <3>3. roomName[b] # Nil
      <4>1. SUFFICES ASSUME roomName[b] = Nil PROVE FALSE
        OBVIOUS
      <4>2. userNum[b] = 0
        BY <1>3, <4>1 DEF NumberOf
      <4>3. u = b
        BY <3>2, <4>2, OnlyItsOwn
      <4>4. NumberOf(b)'
        BY DEF RoomsInv
      <4>5. roomName'[b] # roomName[b]
        BY <3>2, <4>1, <4>4 DEF NumberOf
      <4>6. Subscribe(b)
        BY <4>3, <4>5 DEF Serve, Open, OpenFails, RecvConnect, RecvForward, Continue, TellCreator,
              StoreRoom, TellJoiner, TellOther, Forward, ForwardToNil, RecvEOF, RecvError,
              LeaveRead, LeaveNoRoom, LeaveWrite, Outside, ClientCloses, NetBreaks, MapAbort, handler
      <4>7. PICK x \in Rooms, lt \in Asks : SubscribeNew(b, x, lt) \/ SubscribeFound(b, x, lt)
        BY <4>6 DEF Subscribe
      <4>8. userNum'[b] = 1 \/ pc'[b] = "store"
        BY <1>1, <4>7 DEF SubscribeNew, SubscribeFound, Goto
      <4>9. QED
        BY <3>2, <4>8
    <3>4. userNum[b] = 2
      BY <3>2, <3>3, StaysIn
    <3>5. pc[b] = "store" /\ u = b /\ StoreRoom(b)
      BY <2>3, <3>2, <3>3, <3>4, StaysIn
    <3>6. roomInfoMap'[roomName[a]] = r[b] /\ r[b].cws = b /\ pc'[b] \in {"receive", "reply"}
      <4>1. roomName[b] = roomName[a]
        BY <1>2, <3>3
      <4>2. roomInfoMap \in [Rooms -> Entries]
        BY DEF IsoInv, TypeOK
      <4>3. QED
        BY <1>1, <1>3, <3>5, <4>1, <4>2 DEF StoreRoom, Goto, CopyOf, Arriving
    <3>7. QED
      BY <1>2, <3>6
  <2>4. QED
    BY <2>2, <2>3
<1>13. QED
  BY <1>7, <1>8, <1>9, <1>10, <1>11, <1>12 DEF PairOf

-----------------------------------------------------------------------------
(* Who was told of another client shares its room with one.                *)

CompanyInv == \A s \in Sessions : IntroducedOn(wire, s) =>
    \E t \in Sessions \ {s} : roomName[t] = roomName[s]

\* Only a handler that has somebody in its room introduces it.
LEMMA CompanyStep ==
    ASSUME IsoInv, NetInv, RoomsInv, CompanyInv, [Next]_vars
    PROVE  CompanyInv'
<1>1. CASE UNCHANGED vars
  BY <1>1 DEF vars, handler, CompanyInv, IntroducedOn
<1>2. ASSUME NEW u \in Sessions, Serve(u) \/ Continue(u) \/ Outside(u),
             NEW s \in Sessions, IntroducedOn(wire', s)
      PROVE  \E t \in Sessions \ {s} : roomName'[t] = roomName'[s]
  <2>1. \A t \in Sessions : roomName[t] # Nil => roomName'[t] = roomName[t]
    BY <1>2, StaysIn
  <2>2. SUFFICES \E t \in Sessions \ {s} : roomName[t] = roomName[s] /\ roomName[s] # Nil
    BY <2>1
  <2>3. CASE IntroducedOn(wire, s)
    BY <2>3, Unknown DEF CompanyInv
  <2>4. CASE ~IntroducedOn(wire, s)
    <3>1. ~(s = u /\ (LeaveNoRoom(u) \/ LeaveWrite(u)))
      <4>1. SUFFICES ASSUME s = u, LeaveNoRoom(u) \/ LeaveWrite(u) PROVE FALSE
        OBVIOUS
      <4>2. wire'[s] = <<>>
        BY <4>1 DEF LeaveNoRoom, LeaveWrite, EndSession, IsoInv, TypeOK
      <4>3. QED
        BY <1>2, <4>2 DEF IntroducedOn
    <3>2. Grown(u, s)
      BY <1>2, <3>1, WireGrows
    <3>3. PICK i \in DOMAIN wire'[s] : wire'[s][i].cmd \in {"online", "forward"}
      BY <1>2 DEF IntroducedOn
    <3>4. News(u, s, i)
      BY <2>4, <3>2, <3>3 DEF Grown, Extends, IntroducedOn
    <3>5. TellOther(u) \/ Forward(u)
      BY <3>3, <3>4 DEF News, LastOn
    <3>6. s = otherCws[u]
      BY <3>3, <3>4 DEF News, LastOn
    <3>7. pc[u] \in {"notify", "forward"} /\ NumberOf(u) /\ MailOf(u)
      BY <3>5 DEF TellOther, Forward, At, RoomsInv
    <3>8. u # s
      BY <2>4, <3>6, <3>7 DEF NumberOf, MailOf
    <3>9. roomName[s] = roomName[u] /\ roomName[u] \in Rooms
      BY <3>6, OtherWithin
    <3>10. QED
      BY <3>8, <3>9, NilAssumption
  <2>5. QED
    BY <2>3, <2>4
<1>3. QED
  BY <1>1, <1>2 DEF Next, CompanyInv

\* Nobody was introduced yet.
LEMMA CompanyInit == Init => CompanyInv
<1>1. Init => \A s \in Sessions : wire[s] = <<>>
  BY DEF Init
<1>2. DOMAIN <<>> = {}
  OBVIOUS
<1>3. QED
  BY <1>1, <1>2 DEF CompanyInv, IntroducedOn

-----------------------------------------------------------------------------
(* The composition.                                                        *)

\* The descriptions.
Kinds == {"offer", "answer"}

\* Pages and what is between them and the server keep their types.
ChatType ==
    /\ Page!PageTypeOK
    /\ read \in [Sessions -> Nat]
    /\ forwarded \in [Sessions -> Seq(Kinds)]

\* A step that session s takes, on either side.
ChatStep(s) ==
    \/ PageOpens(s) \/ ServerTakes(s) \/ ServerContinues(s)
    \/ PageReads(s) \/ PageMay(s) \/ PageMust(s) \/ Breaks(s)

-----------------------------------------------------------------------------
(* The composition implements the room server.                             *)

\* What a page does is to the server a close of its websocket, or nothing.
LEMMA PageIsClient ==
    ASSUME NEW s \in Sessions, ConnectionFollows(s)
    PROVE  UNCHANGED vars \/ ClientCloses(s)
<1>1. CASE net' = net
  BY <1>1 DEF ConnectionFollows, vars, handler, history
<1>2. CASE net' # net
  BY <1>2 DEF ConnectionFollows, ClientCloses, handler, history
<1>3. QED
  BY <1>1, <1>2

\* A step of the composition is one of the server, or nothing to it.
LEMMA ServerStep ==
    ASSUME NEW s \in Sessions, ChatStep(s)
    PROVE  UNCHANGED vars \/ Serve(s) \/ Continue(s) \/ Outside(s)
<1>1. CASE PageOpens(s) \/ ServerTakes(s) \/ ServerContinues(s)
  BY <1>1 DEF PageOpens, ServerTakes, ServerContinues, Serve
<1>2. CASE PageReads(s) \/ PageMay(s) \/ PageMust(s)
  BY <1>2, PageIsClient DEF PageReads, PageMay, PageMust, Outside
<1>3. CASE Breaks(s)
  BY <1>3 DEF Breaks, Outside
<1>4. QED
  BY <1>1, <1>2, <1>3 DEF ChatStep

\* So is the next-state relation.
LEMMA ChatNextIsNext == [ChatNext]_chatVars => [Next]_vars
<1>1. CASE ChatNext
  <2>1. PICK s \in Sessions : ChatStep(s)
    BY <1>1 DEF ChatNext, ChatStep
  <2>2. QED
    BY <2>1, ServerStep DEF Next
<1>2. CASE UNCHANGED chatVars
  BY <1>2 DEF chatVars
<1>3. QED
  BY <1>1, <1>2

\* The server that the chat pages use is RoomServer: what holds of its handlers
\* whatever their clients do holds of them with these clients.
THEOREM ChatRefinesRooms == ChatSpec => Spec
<1>1. ChatInit => Init
  BY DEF ChatInit
<1>2. QED
  BY <1>1, ChatNextIsNext, PTL DEF ChatSpec, Spec

-----------------------------------------------------------------------------
(* Types.                                                                  *)

\* The initial values have their types.
LEMMA ChatTypeInit == ChatInit => ChatType
  BY DEF ChatInit, ChatType, Page!PageInit, Page!PageTypeOK, Page!OfferSteps, Page!AnswerSteps

\* Steps on the server's side.
LEMMA ServerTypes ==
    ASSUME ChatType, NEW s \in Sessions,
           PageOpens(s) \/ ServerTakes(s) \/ ServerContinues(s) \/ Breaks(s)
    PROVE  ChatType'
<1>1. CASE PageOpens(s)
  BY <1>1 DEF PageOpens, Page!OnOpen, Page!SetAlarm, Page!role, Page!link, role, link, ChatType, Page!PageTypeOK
<1>2. CASE ServerTakes(s)
  <2>1. outbox[s] # <<>> /\ outbox' = [outbox EXCEPT ![s] = Tail(@)]
    BY <1>2 DEF ServerTakes, IsCommand
  <2>2. outbox' \in [Sessions -> Seq({"connect", "subscribe", "offer", "answer"})]
    BY <2>1 DEF ChatType, Page!PageTypeOK
  <2>3. \/ forwarded' = forwarded
        \/ /\ Head(outbox[s]) \in Kinds
           /\ forwarded' = [forwarded EXCEPT ![s] = Append(@, Head(outbox[s]))]
    BY <1>2 DEF ServerTakes, IsCommand, Kinds
  <2>4. forwarded' \in [Sessions -> Seq(Kinds)]
    <3>1. forwarded \in [Sessions -> Seq(Kinds)]
      BY DEF ChatType
    <3>2. Head(outbox[s]) \in Kinds => Append(forwarded[s], Head(outbox[s])) \in Seq(Kinds)
      BY <3>1
    <3>3. QED
      BY <2>3, <3>1, <3>2
  <2>5. QED
    BY <1>2, <2>2, <2>4 DEF ServerTakes, role, link, ChatType, Page!PageTypeOK
<1>3. CASE ServerContinues(s) \/ Breaks(s)
  BY <1>3 DEF ServerContinues, Breaks, pageVars, role, link, ChatType, Page!PageTypeOK
<1>4. QED
  BY <1>1, <1>2, <1>3

\* Steps of the pages.
LEMMA PageTypes ==
    ASSUME ChatType, NEW s \in Sessions, PageReads(s) \/ PageMay(s) \/ PageMust(s)
    PROVE  ChatType'
<1> DEFINE Commands == {"connect", "subscribe", "offer", "answer"}
<1>1. /\ websocket \in [Sessions -> {"none", "open", "null", "gone"}]
      /\ subscribed \in [Sessions -> {"no", "early", "yes"}]
      /\ clientId \in [Sessions -> BOOLEAN]
      /\ clientCount \in [Sessions -> Nat] /\ clientCount[s] \in Nat
      /\ IAmUser \in [Sessions -> 0..2]
      /\ localOffer \in [Sessions -> BOOLEAN]
      /\ webrtcDataChannel \in [Sessions -> {"none", "pc1", "pc2", "open"}]
      /\ offer \in [Sessions -> Page!OfferSteps]
      /\ answer \in [Sessions -> Page!AnswerSteps]
      /\ alarms \in [Sessions -> SUBSET {"id", "offer", "answer"}]
      /\ told \in [Sessions -> BOOLEAN]
      /\ outbox \in [Sessions -> Seq(Commands)]
      /\ read \in [Sessions -> Nat] /\ forwarded \in [Sessions -> Seq(Kinds)]
  BY DEF ChatType, Page!PageTypeOK
<1>2. \A c \in Commands : [outbox EXCEPT ![s] = Append(@, c)] \in [Sessions -> Seq(Commands)]
  <2>1. \A c \in Commands : Append(outbox[s], c) \in Seq(Commands)
    BY <1>1
  <2>2. QED
    BY <1>1, <2>1
<1>3. forwarded' = forwarded
  BY DEF PageReads, PageMay, PageMust, ConnectionFollows
<1>4. read' \in [Sessions -> Nat]
  BY <1>1 DEF PageReads, PageMay, PageMust
<1>5. ASSUME Page!PageTypeOK' PROVE ChatType'
  BY <1>1, <1>3, <1>4, <1>5 DEF ChatType
<1>6. Others(s) \in {0, 1}
  BY DEF Others
<1>7. CASE PageReads(s)
  <2>1. PICK i : Handles(s, i)
    BY <1>7 DEF PageReads
  <2>2. CASE Page!OnConnect(s)
    BY <1>1, <1>2, <1>5, <2>2 DEF Page!OnConnect, Page!Send, Page!role, Page!link, Page!PageTypeOK
  <2>3. CASE Page!OnReady(s)
    BY <1>1, <1>2, <1>5, <2>3 DEF Page!OnReady, Page!Send, Page!pc1CreateDataChannel, Page!PageTypeOK
  <2>4. CASE Page!OnRoomClients(s, Others(s))
    <3>1. Others(s) + (IF clientId[s] THEN 1 ELSE 0) \in Nat
      BY <1>6
    <3>2. clientCount' \in [Sessions -> Nat]
      BY <1>1, <2>4, <3>1 DEF Page!OnRoomClients
    <3>3. IAmUser' \in [Sessions -> 0..2]
      BY <1>1, <2>4 DEF Page!OnRoomClients
    <3>4. QED
      BY <1>1, <1>5, <2>4, <3>2, <3>3 DEF Page!OnRoomClients, Page!link, Page!PageTypeOK
  <2>5. CASE Page!OnOnline(s)
    <3>1. clientCount' \in [Sessions -> Nat]
      BY <1>1, <2>5 DEF Page!OnOnline
    <3>2. IAmUser' \in [Sessions -> 0..2]
      <4>1. IAmUser' = [IAmUser EXCEPT ![s] = 1] \/ IAmUser' = [IAmUser EXCEPT ![s] = 2]
        BY <2>5 DEF Page!OnOnline
      <4>2. IAmUser \in [Sessions -> 0..2] /\ 1 \in 0..2 /\ 2 \in 0..2
        BY <1>1
      <4>3. QED
        BY <4>1, <4>2
    <3>3. webrtcDataChannel' \in [Sessions -> {"none", "pc1", "pc2", "open"}]
      <4>1. \/ webrtcDataChannel' = webrtcDataChannel
            \/ webrtcDataChannel' = [webrtcDataChannel EXCEPT ![s] = "pc1"]
        BY <2>5 DEF Page!OnOnline, Page!pc1CreateDataChannel, Page!link
      <4>2. QED
        BY <1>1, <4>1
    <3>4. /\ offer' \in [Sessions -> Page!OfferSteps]
          /\ localOffer' \in [Sessions -> BOOLEAN]
          /\ alarms' \in [Sessions -> SUBSET {"id", "offer", "answer"}]
      <4>1. \/ Page!StartOffer(s)
            \/ offer' = [offer EXCEPT ![s] = "nochannel"] /\ UNCHANGED <<localOffer, alarms>>
            \/ UNCHANGED <<offer, localOffer, alarms>>
        BY <2>5 DEF Page!OnOnline, Page!link
      <4>2. CASE Page!StartOffer(s)
        BY <1>1, <4>2 DEF Page!StartOffer, Page!SetAlarm, Page!OfferSteps
      <4>3. CASE offer' = [offer EXCEPT ![s] = "nochannel"] /\ UNCHANGED <<localOffer, alarms>>
        BY <1>1, <4>3 DEF Page!OfferSteps
      <4>4. QED
        BY <1>1, <4>1, <4>2, <4>3
    <3>5. QED
      BY <1>1, <1>5, <2>5, <3>1, <3>2, <3>3, <3>4 DEF Page!OnOnline, Page!PageTypeOK
  <2>6. CASE Page!OnOffline(s)
    <3>1. clientCount' \in [Sessions -> Nat]
      <4>1. \/ clientCount[s] > 0 /\ clientCount' = [clientCount EXCEPT ![s] = clientCount[s] - 1]
            \/ clientCount' = clientCount
        BY <2>6 DEF Page!OnOffline
      <4>2. clientCount[s] > 0 => clientCount[s] - 1 \in Nat
        BY <1>1
      <4>3. QED
        BY <1>1, <4>1, <4>2
    <3>2. websocket' \in [Sessions -> {"none", "open", "null", "gone"}]
      BY <1>1, <2>6 DEF Page!OnOffline, Page!HangUp
    <3>3. QED
      BY <1>1, <1>5, <2>6, <3>1, <3>2 DEF Page!OnOffline, Page!link, Page!PageTypeOK
  <2>7. CASE UNCHANGED pageVars
    BY <1>1, <1>5, <2>7 DEF pageVars, role, link, Page!PageTypeOK
  <2>8. CASE Page!OnForward(s, Kind(s, i))
    <3>1. CASE Page!TakeOffer(s, Kind(s, i))
      BY <1>1, <1>5, <3>1 DEF Page!TakeOffer, Page!SetAlarm, Page!role, Page!PageTypeOK, Page!AnswerSteps
    <3>2. CASE Page!TakeAnswer(s, Kind(s, i))
      BY <1>1, <1>5, <3>2 DEF Page!TakeAnswer, Page!webrtcDisconnect, Page!Tell, Page!role,
         Page!PageTypeOK, Page!OfferSteps
    <3>3. CASE UNCHANGED Page!pageVars
      BY <1>1, <1>5, <3>3 DEF Page!pageVars, Page!role, Page!link, Page!PageTypeOK
    <3>4. QED
      BY <2>8, <3>1, <3>2, <3>3 DEF Page!OnForward
  <2>9. QED
    BY <2>1, <2>2, <2>3, <2>4, <2>5, <2>6, <2>7, <2>8 DEF Handles
<1>8. CASE Page!SetRoom(s) \/ Page!Unload(s)
  <2>1. CASE Page!SetRoom(s)
    BY <1>1, <1>2, <1>5, <2>1 DEF Page!SetRoom, Page!Send, Page!role, Page!link, Page!PageTypeOK
  <2>2. CASE Page!Unload(s)
    BY <1>1, <1>5, <2>2 DEF Page!Unload, Page!PageTypeOK, Page!OfferSteps, Page!AnswerSteps
  <2>3. QED
    BY <1>8, <2>1, <2>2
<1>9. CASE Page!OfferCreated(s) \/ Page!AnswerCreated(s) \/ Page!AnswerSettled(s)
  <2>1. CASE Page!OfferCreated(s)
    BY <1>1, <1>5, <2>1 DEF Page!OfferCreated, Page!role, Page!PageTypeOK, Page!OfferSteps
  <2>2. CASE Page!AnswerCreated(s)
    BY <1>1, <1>5, <2>2 DEF Page!AnswerCreated, Page!role, Page!PageTypeOK, Page!AnswerSteps
  <2>3. CASE Page!AnswerSettled(s)
    BY <1>1, <1>5, <2>3 DEF Page!AnswerSettled, Page!webrtcDisconnect, Page!Tell, Page!role,
       Page!PageTypeOK, Page!OfferSteps
  <2>4. QED
    BY <1>9, <2>1, <2>2, <2>3
<1>10. CASE Page!OnDataChannel(s) \/ Page!OnChannelOpen(s) \/ Page!OnChannelClose(s) \/ Page!AlarmFires(s)
  <2>1. CASE Page!OnDataChannel(s)
    BY <1>1, <1>5, <2>1 DEF Page!OnDataChannel, Page!role, Page!PageTypeOK
  <2>2. CASE Page!OnChannelOpen(s)
    BY <1>1, <1>5, <2>2 DEF Page!OnChannelOpen, Page!HangUp, Page!role, Page!PageTypeOK
  <2>3. CASE Page!OnChannelClose(s)
    BY <1>1, <1>5, <2>3 DEF Page!OnChannelClose, Page!webrtcDisconnect, Page!Tell, Page!role, Page!PageTypeOK
  <2>4. CASE Page!AlarmFires(s)
    <3>1. PICK a \in alarms[s] : alarms' = [alarms EXCEPT ![s] = alarms[s] \ {a}]
      BY <2>4 DEF Page!AlarmFires
    <3>2. alarms' \in [Sessions -> SUBSET {"id", "offer", "answer"}]
      BY <1>1, <3>1
    <3>3. told' \in [Sessions -> BOOLEAN]
      BY <1>1, <2>4 DEF Page!AlarmFires, Page!Tell
    <3>4. QED
      BY <1>1, <1>5, <2>4, <3>2, <3>3 DEF Page!AlarmFires, Page!role, Page!link, Page!PageTypeOK
  <2>5. QED
    BY <1>10, <2>1, <2>2, <2>3, <2>4
<1>11. CASE Page!OfferDescribed(s) \/ Page!AnswerDescribed(s)
  <2>1. CASE Page!OfferDescribed(s)
    <3>1. offer' \in [Sessions -> Page!OfferSteps]
      <4>1. \E step \in {"sent", "unsent", "failed"} : offer' = [offer EXCEPT ![s] = step]
        BY <2>1 DEF Page!OfferDescribed, Page!Described, Page!SendOrTell
      <4>2. QED
        BY <1>1, <4>1 DEF Page!OfferSteps
    <3>2. told' \in [Sessions -> BOOLEAN]
      BY <1>1, <2>1 DEF Page!OfferDescribed, Page!Described, Page!SendOrTell, Page!Tell
    <3>3. outbox' \in [Sessions -> Seq(Commands)]
      BY <1>1, <1>2, <2>1 DEF Page!OfferDescribed, Page!Described, Page!SendOrTell, Page!Send
    <3>4. QED
      BY <1>1, <1>5, <2>1, <3>1, <3>2, <3>3 DEF Page!OfferDescribed, Page!role, Page!PageTypeOK
  <2>2. CASE Page!AnswerDescribed(s)
    <3>1. answer' \in [Sessions -> Page!AnswerSteps]
      <4>1. \E step \in {"sent", "unsent", "failed"} : answer' = [answer EXCEPT ![s] = step]
        BY <2>2 DEF Page!AnswerDescribed, Page!Described, Page!SendOrTell
      <4>2. QED
        BY <1>1, <4>1 DEF Page!AnswerSteps
    <3>2. told' \in [Sessions -> BOOLEAN]
      BY <1>1, <2>2 DEF Page!AnswerDescribed, Page!Described, Page!SendOrTell, Page!Tell
    <3>3. outbox' \in [Sessions -> Seq(Commands)]
      BY <1>1, <1>2, <2>2 DEF Page!AnswerDescribed, Page!Described, Page!SendOrTell, Page!Send
    <3>4. QED
      BY <1>1, <1>5, <2>2, <3>1, <3>2, <3>3 DEF Page!AnswerDescribed, Page!role, Page!PageTypeOK
  <2>3. QED
    BY <1>11, <2>1, <2>2
<1>12. QED
  BY <1>7, <1>8, <1>9, <1>10, <1>11 DEF PageMay, PageMust, Page!PageMay, Page!PageMust

\* Steps keep the types.
LEMMA ChatTypeStep == ChatType /\ [ChatNext]_chatVars => ChatType'
<1>1. CASE ChatType /\ UNCHANGED chatVars
  BY <1>1 DEF chatVars, pageVars, role, link, ChatType, Page!PageTypeOK
<1>2. ASSUME ChatType, NEW s \in Sessions, ChatStep(s) PROVE ChatType'
  BY <1>2, ServerTypes, PageTypes DEF ChatStep
<1>3. QED
  BY <1>1, <1>2 DEF ChatNext, ChatStep

-----------------------------------------------------------------------------
(* What a step does to one page.                                           *)

\* A page, and what it exchanged with the server, as they were.
PageSame(t) ==
    /\ websocket'[t] = websocket[t] /\ subscribed'[t] = subscribed[t]
    /\ clientId'[t] = clientId[t] /\ clientCount'[t] = clientCount[t] /\ IAmUser'[t] = IAmUser[t]
    /\ offer'[t] = offer[t] /\ answer'[t] = answer[t]
    /\ outbox'[t] = outbox[t] /\ read'[t] = read[t] /\ forwarded'[t] = forwarded[t]

\* Page s reads a message of this kind.
Reads(s, cmd) ==
    /\ websocket[s] = "open" /\ net[s] = "open" /\ read[s] < Len(wire[s])
    /\ read'[s] = read[s] + 1 /\ wire[s][read'[s]].cmd = cmd

\* What a handler of the page may leave as it was.
SameRole(s) == IAmUser'[s] = IAmUser[s] /\ clientId'[s] = clientId[s]
SameLink(s) == offer'[s] = offer[s] /\ answer'[s] = answer[s]
SameMail(s) == outbox'[s] = outbox[s] /\ subscribed'[s] = subscribed[s]

\* The page sends a command.
Says(s, command) == outbox'[s] = Append(outbox[s], command)

\* Nothing that the invariants below know of, but perhaps a hang-up.
Rests(s) ==
    /\ SameRole(s) /\ SameLink(s) /\ SameMail(s)
    /\ clientCount'[s] = clientCount[s] \/ net'[s] # "open"
    /\ \/ read'[s] = read[s]
       \/ Reads(s, "offline") \/ Reads(s, "notice")
       \/ Reads(s, "forward") /\ IAmUser[s] = 0

\* On the way to the room.
Applies(s) ==
    /\ SameLink(s) /\ IAmUser'[s] = IAmUser[s] /\ clientCount'[s] = clientCount[s]
    /\ \/ /\ Reads(s, "connect") /\ Says(s, "connect")
          /\ subscribed'[s] = subscribed[s] /\ clientId'[s] = clientId[s]
       \/ /\ Reads(s, "ready") /\ clientId'[s]
          /\ \/ s \in Hasty /\ SameMail(s)
             \/ s \notin Hasty /\ Says(s, "subscribe") /\ subscribed'[s] = "yes"
       \/ /\ read'[s] = read[s] /\ s \in Hasty
          /\ subscribed[s] = "no" /\ Says(s, "subscribe")
          /\ subscribed'[s] = IF clientId[s] THEN "yes" ELSE "early"
          /\ clientId'[s] = clientId[s]

\* The list of the room comes in.
Counts(s) ==
    /\ Reads(s, "roomclients")
    /\ SameLink(s) /\ SameMail(s) /\ clientId'[s] = clientId[s]
    /\ clientCount'[s] = Others(s) + (IF clientId[s] THEN 1 ELSE 0)
    /\ IAmUser'[s] = IF Others(s) > 0 THEN 2 ELSE IAmUser[s]

\* The other client is announced.
Hears(s) ==
    /\ Reads(s, "online")
    /\ SameMail(s) /\ clientId'[s] = clientId[s] /\ answer'[s] = answer[s]
    /\ \/ clientCount[s] + 1 = 2 /\ IAmUser'[s] = 1 /\ offer'[s] \in {"creating", "nochannel"}
       \/ clientCount[s] + 1 # 2 /\ IAmUser'[s] = 2 /\ offer'[s] = offer[s]

\* A description comes in.
Takes(s) ==
    /\ Reads(s, "forward")
    /\ SameRole(s) /\ SameMail(s) /\ clientCount'[s] = clientCount[s]
    /\ \/ IAmUser[s] = 2 /\ offer'[s] = offer[s] /\ answer'[s] \in {"hearing", "failed"}
       \/ IAmUser[s] = 1 /\ answer'[s] = answer[s] /\ offer'[s] \in {"settling", "refused"}

\* The chain of callbacks behind an offer, and behind an answer.
Offers(s) ==
    /\ answer'[s] = answer[s]
    /\ \/ offer[s] = "creating" /\ offer'[s] \in {"describing", "failed"} /\ outbox'[s] = outbox[s]
       \/ offer[s] = "settling" /\ offer'[s] \in {"answered", "refused"} /\ outbox'[s] = outbox[s]
       \/ offer[s] = "describing" /\ offer'[s] \in {"unsent", "failed"} /\ outbox'[s] = outbox[s]
       \/ offer[s] = "describing" /\ offer'[s] = "sent" /\ Says(s, "offer")

\* ... and behind an answer.
Answers(s) ==
    /\ offer'[s] = offer[s]
    /\ \/ /\ answer[s] \in {"hearing", "creating"}
          /\ answer'[s] \in {"creating", "describing", "failed"} /\ outbox'[s] = outbox[s]
       \/ answer[s] = "describing" /\ answer'[s] \in {"unsent", "failed"} /\ outbox'[s] = outbox[s]
       \/ answer[s] = "describing" /\ answer'[s] = "sent" /\ Says(s, "answer")

\* One of the browser's callbacks.
Calls(s) ==
    /\ read'[s] = read[s] /\ SameRole(s) /\ clientCount'[s] = clientCount[s]
    /\ subscribed'[s] = subscribed[s]
    /\ Offers(s) \/ Answers(s)

\* The user leaves the page.
Leaves(s) ==
    /\ read'[s] = read[s] /\ SameMail(s)
    /\ websocket'[s] = "gone" /\ ~clientId'[s]
    /\ IAmUser'[s] = 0 /\ offer'[s] = "no" /\ answer'[s] = "no"

\* All that a page may do.
PageDoes(s) == \/ Rests(s) \/ Applies(s) \/ Counts(s) \/ Hears(s) \/ Takes(s)
               \/ Calls(s) \/ Leaves(s)

\* What a page does to the server: it may close its websocket.
AsClient(s) ==
    /\ UNCHANGED <<pc, myClientId, handler, r, roomInfoMap, wire, forwards, forwarded>>
    /\ \A t \in Sessions : t # s => net'[t] = net[t]
    /\ net'[s] \in {net[s], "eof"}
    /\ websocket[s] \in {"open", "null"}
    /\ \/ websocket'[s] = websocket[s]
       \/ websocket'[s] \in {"null", "gone"} /\ net'[s] # "open"

\* The step of one page is no step of another.
LEMMA OthersPages ==
    ASSUME ChatType, NEW s \in Sessions, ChatStep(s), NEW t \in Sessions, t # s
    PROVE  PageSame(t)
<1>1. /\ websocket \in [Sessions -> {"none", "open", "null", "gone"}]
      /\ subscribed \in [Sessions -> {"no", "early", "yes"}]
      /\ clientId \in [Sessions -> BOOLEAN] /\ clientCount \in [Sessions -> Nat]
      /\ IAmUser \in [Sessions -> 0..2]
      /\ offer \in [Sessions -> Page!OfferSteps] /\ answer \in [Sessions -> Page!AnswerSteps]
      /\ outbox \in [Sessions -> Seq({"connect", "subscribe", "offer", "answer"})]
      /\ read \in [Sessions -> Nat] /\ forwarded \in [Sessions -> Seq(Kinds)]
  BY DEF ChatType, Page!PageTypeOK
<1>2. CASE PageOpens(s)
  BY <1>1, <1>2 DEF PageOpens, Page!OnOpen, Page!role, Page!link, PageSame
<1>3. CASE ServerTakes(s)
  BY <1>1, <1>3 DEF ServerTakes, role, link, PageSame
<1>4. CASE ServerContinues(s) \/ Breaks(s)
  BY <1>4 DEF ServerContinues, Breaks, pageVars, role, link, PageSame
<1>5. CASE PageReads(s) \/ PageMay(s) \/ PageMust(s)
  <2>1. forwarded' = forwarded /\ read'[t] = read[t]
    BY <1>1, <1>5 DEF PageReads, PageMay, PageMust, ConnectionFollows
  <2>2. CASE PageReads(s)
    <3>1. PICK i : Handles(s, i)
      BY <2>2 DEF PageReads
    <3>2. CASE Page!OnConnect(s) \/ Page!OnReady(s)
      BY <1>1, <2>1, <3>2 DEF Page!OnConnect, Page!OnReady, Page!Send, Page!role, Page!link, PageSame
    <3>3. CASE Page!OnRoomClients(s, Others(s)) \/ Page!OnOffline(s)
      BY <1>1, <2>1, <3>3 DEF Page!OnRoomClients, Page!OnOffline, Page!HangUp, Page!link, PageSame
    <3>4. CASE Page!OnOnline(s)
      BY <1>1, <2>1, <3>4 DEF Page!OnOnline, Page!StartOffer, Page!link, PageSame
    <3>5. CASE UNCHANGED pageVars
      BY <2>1, <3>5 DEF pageVars, role, link, PageSame
    <3>6. CASE Page!OnForward(s, Kind(s, i))
      BY <1>1, <2>1, <3>6 DEF Page!OnForward, Page!TakeOffer, Page!TakeAnswer, Page!webrtcDisconnect,
         Page!pageVars, Page!role, Page!link, PageSame
    <3>7. QED
      BY <3>1, <3>2, <3>3, <3>4, <3>5, <3>6 DEF Handles
  <2>3. CASE Page!SetRoom(s) \/ Page!Unload(s)
    BY <1>1, <2>1, <2>3 DEF Page!SetRoom, Page!Unload, Page!Send, Page!role, Page!link, PageSame
  <2>4. CASE Page!OfferCreated(s) \/ Page!AnswerCreated(s) \/ Page!AnswerSettled(s)
    BY <1>1, <2>1, <2>4 DEF Page!OfferCreated, Page!AnswerCreated, Page!AnswerSettled, Page!role, PageSame
  <2>5. CASE \/ Page!OnDataChannel(s) \/ Page!OnChannelOpen(s) \/ Page!OnChannelClose(s)
             \/ Page!AlarmFires(s)
    BY <1>1, <2>1, <2>5 DEF Page!OnDataChannel, Page!OnChannelOpen, Page!OnChannelClose,
       Page!AlarmFires, Page!HangUp, Page!role, Page!link, PageSame
  <2>6. CASE Page!OfferDescribed(s)
    BY <1>1, <2>1, <2>6 DEF Page!OfferDescribed, Page!Described, Page!SendOrTell, Page!Send,
       Page!role, PageSame
  <2>7. CASE Page!AnswerDescribed(s)
    BY <1>1, <2>1, <2>7 DEF Page!AnswerDescribed, Page!Described, Page!SendOrTell, Page!Send,
       Page!role, PageSame
  <2>8. QED
    BY <1>5, <2>2, <2>3, <2>4, <2>5, <2>6, <2>7 DEF PageMay, PageMust, Page!PageMay, Page!PageMust
<1>6. QED
  BY <1>2, <1>3, <1>4, <1>5 DEF ChatStep

\* Whatever handler of the page runs, it is one of these.
LEMMA PageDoesSo ==
    ASSUME ChatType, IsoInv, NEW s \in Sessions, PageReads(s) \/ PageMay(s) \/ PageMust(s),
           net[s] = "open" => websocket[s] = "open"
    PROVE  AsClient(s) /\ PageDoes(s)
<1>1. /\ websocket \in [Sessions -> {"none", "open", "null", "gone"}]
      /\ subscribed \in [Sessions -> {"no", "early", "yes"}]
      /\ clientId \in [Sessions -> BOOLEAN] /\ clientCount \in [Sessions -> Nat]
      /\ IAmUser \in [Sessions -> 0..2]
      /\ offer \in [Sessions -> Page!OfferSteps] /\ answer \in [Sessions -> Page!AnswerSteps]
      /\ outbox \in [Sessions -> Seq({"connect", "subscribe", "offer", "answer"})]
      /\ read \in [Sessions -> Nat]
  BY DEF ChatType, Page!PageTypeOK
<1>2. /\ UNCHANGED <<pc, myClientId, handler, r, roomInfoMap, wire, forwards, forwarded>>
      /\ net' = IF websocket[s] = "open" /\ websocket'[s] # "open" /\ net[s] = "open"
                THEN [net EXCEPT ![s] = "eof"] ELSE net
  BY DEF PageReads, PageMay, PageMust, ConnectionFollows
<1>3. net \in [Sessions -> {"none", "open", "eof", "reset"}]
  BY DEF IsoInv, TypeOK
<1>4. ASSUME websocket[s] \in {"open", "null"},
             websocket'[s] = websocket[s] \/ websocket'[s] \in {"null", "gone"}
      PROVE  AsClient(s)
  BY <1>2, <1>3, <1>4 DEF AsClient
<1>5. CASE PageReads(s)
  <2> DEFINE i == read[s] + 1
  <2>1. /\ websocket[s] = "open" /\ net[s] = "open" /\ read[s] < Len(wire[s])
        /\ read'[s] = i /\ Handles(s, i)
    BY <1>1, <1>5 DEF PageReads
  <2>2. \A cmd : wire[s][i].cmd = cmd => Reads(s, cmd)
    BY <2>1 DEF Reads
  <2>3. CASE wire[s][i].cmd = "connect" /\ Page!OnConnect(s)
    <3>1. Reads(s, "connect")
      BY <2>2, <2>3
    <3>2. Applies(s) /\ websocket' = websocket
      BY <1>1, <2>3, <3>1 DEF Page!OnConnect, Page!Send, Page!role, Page!link, Applies, Says, SameLink
    <3>3. QED
      BY <1>4, <2>1, <3>2 DEF PageDoes
  <2>4. CASE wire[s][i].cmd = "ready" /\ Page!OnReady(s)
    <3>1. Reads(s, "ready")
      BY <2>2, <2>4
    <3>2. Applies(s) /\ websocket' = websocket
      BY <1>1, <2>4, <3>1 DEF Page!OnReady, Page!Send, Applies, Says, SameLink, SameMail
    <3>3. QED
      BY <1>4, <2>1, <3>2 DEF PageDoes
  <2>5. CASE wire[s][i].cmd = "roomclients" /\ Page!OnRoomClients(s, Others(s))
    <3>1. Reads(s, "roomclients")
      BY <2>2, <2>5
    <3>2. Counts(s) /\ websocket' = websocket
      BY <1>1, <2>5, <3>1 DEF Page!OnRoomClients, Page!link, Counts, SameLink, SameMail
    <3>3. QED
      BY <1>4, <2>1, <3>2 DEF PageDoes
  <2>6. CASE wire[s][i].cmd = "online" /\ Page!OnOnline(s)
    <3>1. Reads(s, "online")
      BY <2>2, <2>6
    <3>2. Hears(s) /\ websocket' = websocket
      BY <1>1, <2>6, <3>1 DEF Page!OnOnline, Page!StartOffer, Page!link, Hears, SameMail
    <3>3. QED
      BY <1>4, <2>1, <3>2 DEF PageDoes
  <2>7. CASE wire[s][i].cmd = "offline" /\ Page!OnOffline(s)
    <3>1. Reads(s, "offline")
      BY <2>2, <2>7
    <3>2. websocket'[s] \in {"open", "null"} /\ (websocket'[s] = "open" => clientCount' = clientCount)
      BY <1>1, <2>1, <2>7 DEF Page!OnOffline, Page!HangUp
    <3>3. AsClient(s)
      BY <1>4, <2>1, <3>2
    <3>4. clientCount'[s] = clientCount[s] \/ net'[s] # "open"
      BY <1>2, <1>3, <2>1, <3>2
    <3>5. Rests(s)
      BY <2>7, <3>1, <3>4 DEF Page!OnOffline, Page!link, Rests, SameRole, SameLink, SameMail
    <3>6. QED
      BY <3>3, <3>5 DEF PageDoes
  <2>8. CASE wire[s][i].cmd = "notice" /\ UNCHANGED pageVars
    <3>1. Reads(s, "notice")
      BY <2>2, <2>8
    <3>2. Rests(s) /\ websocket' = websocket
      BY <2>8, <3>1 DEF pageVars, role, link, Rests, SameRole, SameLink, SameMail
    <3>3. QED
      BY <1>4, <2>1, <3>2 DEF PageDoes
  <2>9. CASE wire[s][i].cmd = "forward" /\ Page!OnForward(s, Kind(s, i))
    <3>1. Reads(s, "forward")
      BY <2>2, <2>9
    <3>2. CASE IAmUser[s] = 2
      <4>1. Page!TakeOffer(s, Kind(s, i))
        BY <2>9, <3>2 DEF Page!OnForward
      <4>2. Takes(s) /\ websocket' = websocket
        BY <1>1, <3>1, <3>2, <4>1 DEF Page!TakeOffer, Page!role, Takes, SameRole, SameMail
      <4>3. QED
        BY <1>4, <2>1, <4>2 DEF PageDoes
    <3>3. CASE IAmUser[s] = 1
      <4>1. Page!TakeAnswer(s, Kind(s, i))
        BY <2>9, <3>3 DEF Page!OnForward
      <4>2. Takes(s) /\ websocket' = websocket
        BY <1>1, <3>1, <3>3, <4>1 DEF Page!TakeAnswer, Page!role, Takes, SameRole, SameMail
      <4>3. QED
        BY <1>4, <2>1, <4>2 DEF PageDoes
    <3>4. CASE IAmUser[s] \notin {1, 2}
      <4>1. UNCHANGED Page!pageVars
        BY <2>9, <3>4 DEF Page!OnForward
      <4>2. IAmUser[s] = 0
        BY <1>1, <3>4
      <4>3. Rests(s) /\ websocket' = websocket
        BY <3>1, <4>1, <4>2 DEF Page!pageVars, Page!role, Page!link, Rests, SameRole, SameLink, SameMail
      <4>4. QED
        BY <1>4, <2>1, <4>3 DEF PageDoes
    <3>5. QED
      BY <3>2, <3>3, <3>4
  <2>10. QED
    BY <2>1, <2>3, <2>4, <2>5, <2>6, <2>7, <2>8, <2>9 DEF Handles
<1>6. CASE PageMay(s) \/ PageMust(s)
  <2>1. read'[s] = read[s]
    BY <1>6 DEF PageMay, PageMust
  <2>2. CASE Page!SetRoom(s)
    <3>1. Applies(s) /\ websocket[s] = "open" /\ websocket' = websocket
      BY <1>1, <2>1, <2>2 DEF Page!SetRoom, Page!Send, Page!role, Page!link, Applies, Says, SameLink
    <3>2. QED
      BY <1>4, <3>1 DEF PageDoes
  <2>3. CASE Page!Unload(s)
    <3>1. websocket[s] \in {"open", "null"} /\ websocket'[s] = "gone" /\ Leaves(s)
      BY <1>1, <2>1, <2>3 DEF Page!Unload, Page!Live, Leaves, SameMail
    <3>2. QED
      BY <1>4, <3>1 DEF PageDoes
  <2>4. CASE Page!OfferCreated(s) \/ Page!AnswerCreated(s) \/ Page!AnswerSettled(s)
    <3>1. websocket[s] \in {"open", "null"} /\ websocket' = websocket
      BY <2>4 DEF Page!OfferCreated, Page!AnswerCreated, Page!AnswerSettled, Page!Live
    <3>2. SameRole(s) /\ SameMail(s) /\ clientCount' = clientCount
      BY <2>4 DEF Page!OfferCreated, Page!AnswerCreated, Page!AnswerSettled, Page!role, SameRole, SameMail
    <3>3. Offers(s) \/ Answers(s)
      <4>1. CASE Page!OfferCreated(s)
        BY <1>1, <3>2, <4>1 DEF Page!OfferCreated, Offers, SameMail
      <4>2. CASE Page!AnswerCreated(s)
        BY <1>1, <3>2, <4>2 DEF Page!AnswerCreated, Answers, SameMail
      <4>3. CASE Page!AnswerSettled(s)
        BY <1>1, <3>2, <4>3 DEF Page!AnswerSettled, Offers, SameMail
      <4>4. QED
        BY <2>4, <4>1, <4>2, <4>3
    <3>4. QED
      BY <1>4, <2>1, <3>1, <3>2, <3>3 DEF PageDoes, Calls, SameMail
  <2>5. CASE \/ Page!OnDataChannel(s) \/ Page!OnChannelOpen(s) \/ Page!OnChannelClose(s)
             \/ Page!AlarmFires(s)
    <3>1. /\ websocket[s] \in {"open", "null"}
          /\ websocket'[s] = websocket[s] \/ websocket'[s] = "null"
      BY <1>1, <2>5 DEF Page!OnDataChannel, Page!OnChannelOpen, Page!OnChannelClose, Page!AlarmFires,
         Page!Live, Page!HangUp
    <3>2. SameRole(s) /\ SameLink(s) /\ SameMail(s) /\ clientCount'[s] = clientCount[s]
      BY <2>5 DEF Page!OnDataChannel, Page!OnChannelOpen, Page!OnChannelClose, Page!AlarmFires,
         Page!role, Page!link, SameRole, SameLink, SameMail
    <3>3. QED
      BY <1>4, <2>1, <3>1, <3>2 DEF PageDoes, Rests
  <2>6. CASE Page!OfferDescribed(s)
    <3>1. websocket[s] \in {"open", "null"} /\ websocket' = websocket
      BY <2>6 DEF Page!OfferDescribed, Page!Described, Page!Live
    <3>2. Offers(s)
      BY <1>1, <2>6 DEF Page!OfferDescribed, Page!Described, Page!SendOrTell, Page!Send, Offers, Says
    <3>3. Calls(s)
      BY <2>1, <2>6, <3>2 DEF Page!OfferDescribed, Page!role, Calls, SameRole
    <3>4. QED
      BY <1>4, <3>1, <3>3 DEF PageDoes
  <2>7. CASE Page!AnswerDescribed(s)
    <3>1. websocket[s] \in {"open", "null"} /\ websocket' = websocket
      BY <2>7 DEF Page!AnswerDescribed, Page!Described, Page!Live
    <3>2. Answers(s)
      BY <1>1, <2>7 DEF Page!AnswerDescribed, Page!Described, Page!SendOrTell, Page!Send, Answers, Says
    <3>3. Calls(s)
      BY <2>1, <2>7, <3>2 DEF Page!AnswerDescribed, Page!role, Calls, SameRole
    <3>4. QED
      BY <1>4, <3>1, <3>3 DEF PageDoes
  <2>8. QED
    BY <1>6, <2>2, <2>3, <2>4, <2>5, <2>6, <2>7 DEF PageMay, PageMust, Page!PageMay, Page!PageMust
<1>7. QED
  BY <1>5, <1>6

-----------------------------------------------------------------------------
(* Queues of commands.                                                     *)

\* What pages send.
Commands == {"connect", "subscribe", "offer", "answer"}

\* c is in the queue.
Has(q, c) == \E i \in DOMAIN q : q[i] = c

\* One element of C at most is in the queue.
OnlyOnce(q, C) == \A i, j \in DOMAIN q : q[i] \in C /\ q[j] \in C => i = j

\* A queue that grows ...
LEMMA AppendHas ==
    ASSUME NEW S, NEW q \in Seq(S), NEW c \in S
    PROVE  /\ \A d : Has(Append(q, c), d) <=> Has(q, d) \/ d = c
           /\ \A C : /\ OnlyOnce(q, C)
                     /\ c \in C => \A d \in C : ~Has(q, d)
                     => OnlyOnce(Append(q, c), C)
<1> DEFINE n == Len(q) + 1
<1>1. /\ Append(q, c) \in Seq(S) /\ DOMAIN Append(q, c) = 1..n /\ DOMAIN q = 1..Len(q)
      /\ Len(q) \in Nat /\ Append(q, c)[n] = c
      /\ \A i \in DOMAIN q : Append(q, c)[i] = q[i]
  OBVIOUS
<1>2. \A i : i \in DOMAIN Append(q, c) <=> i \in DOMAIN q \/ i = n
  BY <1>1
<1>3. n \notin DOMAIN q
  BY <1>1
<1> HIDE DEF n
<1>4. \A d : Has(Append(q, c), d) <=> Has(q, d) \/ d = c
  BY <1>1, <1>2, <1>3 DEF Has
<1>5. ASSUME NEW C, OnlyOnce(q, C), c \in C => \A d \in C : ~Has(q, d)
      PROVE  OnlyOnce(Append(q, c), C)
  BY <1>1, <1>2, <1>3, <1>5 DEF OnlyOnce, Has
<1>6. QED
  BY <1>4, <1>5

\* ... and one that something is taken from.
LEMMA TailHas ==
    ASSUME NEW S, NEW q \in Seq(S), q # <<>>
    PROVE  /\ Head(q) \in S /\ Tail(q) \in Seq(S)
           /\ Has(q, Head(q))
           /\ \A d : Has(q, d) <=> Has(Tail(q), d) \/ d = Head(q)
           /\ \A C : OnlyOnce(q, C) => /\ OnlyOnce(Tail(q), C)
                                       /\ Head(q) \in C => \A d \in C : ~Has(Tail(q), d)
<1>1. /\ Len(q) \in Nat /\ Len(q) >= 1 /\ DOMAIN q = 1..Len(q) /\ Head(q) = q[1] /\ Head(q) \in S
      /\ Tail(q) \in Seq(S) /\ DOMAIN Tail(q) = 1..(Len(q) - 1)
      /\ \A i \in DOMAIN Tail(q) : Tail(q)[i] = q[i + 1]
  OBVIOUS
<1>2. \A i \in DOMAIN Tail(q) : i + 1 \in DOMAIN q /\ i + 1 # 1
  BY <1>1
<1>3. \A i \in DOMAIN q : i = 1 \/ (i - 1 \in DOMAIN Tail(q) /\ (i - 1) + 1 = i)
  BY <1>1
<1>4. 1 \in DOMAIN q
  BY <1>1
<1>5. \A d : Has(q, d) <=> Has(Tail(q), d) \/ d = Head(q)
  <2>1. ASSUME NEW d, Has(q, d) PROVE Has(Tail(q), d) \/ d = Head(q)
    <3>1. PICK i \in DOMAIN q : q[i] = d
      BY <2>1 DEF Has
    <3>2. i = 1 \/ (i - 1 \in DOMAIN Tail(q) /\ Tail(q)[i - 1] = q[i])
      BY <1>1, <1>3
    <3>3. QED
      BY <1>1, <3>1, <3>2 DEF Has
  <2>2. ASSUME NEW d, Has(Tail(q), d) PROVE Has(q, d)
    BY <1>1, <1>2, <2>2 DEF Has
  <2>3. QED
    BY <1>1, <1>4, <2>1, <2>2 DEF Has
<1>6. ASSUME NEW C, OnlyOnce(q, C)
      PROVE  /\ OnlyOnce(Tail(q), C)
             /\ Head(q) \in C => \A d \in C : ~Has(Tail(q), d)
  <2>1. ASSUME NEW i \in DOMAIN Tail(q), NEW j \in DOMAIN Tail(q), Tail(q)[i] \in C, Tail(q)[j] \in C
        PROVE  i = j
    <3>1. i + 1 = j + 1
      BY <1>1, <1>2, <1>6, <2>1 DEF OnlyOnce
    <3>2. QED
      BY <1>1, <3>1
  <2>2. ASSUME Head(q) \in C, NEW d \in C, Has(Tail(q), d) PROVE FALSE
    <3>1. PICK i \in DOMAIN Tail(q) : Tail(q)[i] = d
      BY <2>2 DEF Has
    <3>2. q[i + 1] \in C /\ i + 1 \in DOMAIN q /\ i + 1 # 1
      BY <1>1, <1>2, <2>2, <3>1
    <3>3. QED
      BY <1>1, <1>4, <1>6, <2>2, <3>2 DEF OnlyOnce
  <2>3. QED
    BY <2>1, <2>2 DEF OnlyOnce
<1>7. QED
  BY <1>1, <1>4, <1>5, <1>6 DEF Has

-----------------------------------------------------------------------------
(* Pages and their handlers.                                               *)

\* A message of this kind is among those that the page has read.
HasRead(s, cmd) == \E i \in DOMAIN wire[s] : i <= read[s] /\ wire[s][i].cmd = cmd

\* A description is under way to the handler, or has come there.
Speaks(s) == Has(outbox[s], "offer") \/ Has(outbox[s], "answer")
Spoke(s)  == Speaks(s) \/ forwarded[s] # <<>>

\* Who has no room was told of nobody, and has no role.
PageOf(s) ==
    /\ pc[s] = "new" => /\ websocket[s] = "none" /\ outbox[s] = <<>> /\ subscribed[s] = "no"
                        /\ read[s] = 0
    /\ pc[s] # "new" => websocket[s] # "none"
    /\ net[s] = "open" => websocket[s] = "open"
    /\ subscribed[s] = "yes" /\ Page!Live(s) => clientId[s]
    /\ pc[s] # "done" => forwards[s] = Len(forwarded[s]) /\ read[s] <= Len(wire[s])
    /\ pc[s] = "forward" => forwarded[s] # <<>>
    /\ roomName[s] = Nil => /\ ~Greeted(s)
                            /\ IAmUser[s] = 0 /\ offer[s] = "no" /\ answer[s] = "no" /\ ~Spoke(s)

\* What a page has sent fits what its handler waits for.
CommandsOf(s) ==
    /\ read[s] = 0 => ~Has(outbox[s], "connect") /\ myClientId[s] = Nil
    /\ Has(outbox[s], "connect") => myClientId[s] = Nil
    /\ OnlyOnce(outbox[s], {"connect"}) /\ OnlyOnce(outbox[s], {"subscribe"})
    /\ Has(outbox[s], "subscribe") => roomName[s] = Nil
    /\ subscribed[s] = "no" => roomName[s] = Nil /\ ~Has(outbox[s], "subscribe")
    /\ s \notin Hasty /\ subscribed[s] # "no" => pc[s] = "done" \/ HasRead(s, "ready")
    /\ offer[s] # "no" \/ answer[s] # "no" \/ Speaks(s) => pc[s] = "done" \/ IntroducedOn(wire, s)

\* All pages are like this.
PagesInv == \A s \in Sessions : PageOf(s) /\ CommandsOf(s)

\* A wire that grew, and a reader that stays within what it was sent.
LEMMA ReadsTheSame ==
    ASSUME NEW t, wire[t] \in Seq(Messages), Extends(wire'[t], wire[t]),
           read[t] \in Nat, read[t] <= Len(wire[t]), read'[t] = read[t], NEW cmd
    PROVE  HasRead(t, cmd)' <=> HasRead(t, cmd)
<1>1. /\ wire'[t] \in Seq(Messages) /\ Len(wire[t]) \in Nat
      /\ \A i : i \in DOMAIN wire'[t] /\ i <= read[t] => i \in DOMAIN wire[t]
      /\ \A i \in DOMAIN wire[t] : i \in DOMAIN wire'[t] /\ wire'[t][i] = wire[t][i]
  BY DEF Extends
<1>2. QED
  BY <1>1 DEF HasRead

\* What was read stays read.
LEMMA ReadStaysRead ==
    ASSUME NEW t, wire[t] \in Seq(Messages), Extends(wire'[t], wire[t]),
           read[t] \in Nat, read'[t] \in {read[t], read[t] + 1}, NEW cmd
    PROVE  HasRead(t, cmd) => HasRead(t, cmd)'
<1>1. /\ wire'[t] \in Seq(Messages)
      /\ \A i \in DOMAIN wire[t] : /\ i \in DOMAIN wire'[t] /\ wire'[t][i] = wire[t][i]
                                   /\ i <= read[t] => i <= read'[t]
  BY DEF Extends
<1>2. QED
  BY <1>1 DEF HasRead

\* The session t of another client in a step of s.
LEMMA OthersStep ==
    ASSUME IsoInv, NetInv, ChatType, NEW s \in Sessions, ChatStep(s),
           NEW t \in Sessions, t # s
    PROVE  /\ PageSame(t)
           /\ pc'[t] = pc[t] /\ roomName'[t] = roomName[t] /\ userNum'[t] = userNum[t]
           /\ myClientId'[t] = myClientId[t] /\ net'[t] = net[t] /\ forwards'[t] = forwards[t]
           /\ wire[t] \in Seq(Messages) /\ Extends(wire'[t], wire[t])
           /\ Greeted(t)' => Greeted(t)
<1>1. PageSame(t)
  BY OthersPages
<1>2. wire[t] \in Seq(Messages)
  BY DEF IsoInv, TypeOK
<1>3. CASE UNCHANGED vars
  BY <1>1, <1>2, <1>3, ExtendsSelf DEF vars, handler, Greeted
<1>4. CASE Serve(s) \/ Continue(s) \/ Outside(s)
  <2>1. Grown(s, t)
    BY <1>4, WireGrows
  <2>2. Greeted(t)' => Greeted(t)
    <3>1. SUFFICES ASSUME NEW i \in DOMAIN wire'[t], wire'[t][i].cmd = "roomclients"
                   PROVE  Greeted(t)
      BY DEF Greeted
    <3>2. i \notin DOMAIN wire[t] => News(s, t, i)
      BY <2>1 DEF Grown
    <3>3. i \in DOMAIN wire[t]
      BY <3>1, <3>2 DEF News, LastOn
    <3>4. QED
      BY <2>1, <3>1, <3>3 DEF Grown, Extends, Greeted
  <2>3. QED
    BY <1>1, <1>2, <1>4, <2>1, <2>2, OnlyItsOwn DEF Grown
<1>5. QED
  BY <1>3, <1>4, ServerStep

\* An introduction is not taken back while the session lives.
LEMMA IntroductionStays ==
    ASSUME NEW t, wire[t] \in Seq(Messages), Extends(wire'[t], wire[t])
    PROVE  /\ IntroducedOn(wire, t) => IntroducedOn(wire', t)
           /\ Len(wire[t]) <= Len(wire'[t])
  BY DEF Extends, IntroducedOn

\* The page of another client in a step of s.
LEMMA OthersPagesInv ==
    ASSUME IsoInv, NetInv, ChatType, PagesInv, NEW s \in Sessions, ChatStep(s),
           NEW t \in Sessions, t # s
    PROVE  PageOf(t)' /\ CommandsOf(t)'
<1>1. PageOf(t) /\ CommandsOf(t)
  BY DEF PagesInv
<1>2. /\ PageSame(t)
      /\ pc'[t] = pc[t] /\ roomName'[t] = roomName[t]
      /\ myClientId'[t] = myClientId[t] /\ net'[t] = net[t] /\ forwards'[t] = forwards[t]
      /\ wire[t] \in Seq(Messages) /\ Extends(wire'[t], wire[t])
      /\ Greeted(t)' => Greeted(t)
  BY OthersStep
<1>3. read[t] \in Nat /\ (\A cmd : HasRead(t, cmd) => HasRead(t, cmd)')
      /\ (IntroducedOn(wire, t) => IntroducedOn(wire', t)) /\ Len(wire[t]) <= Len(wire'[t])
  <2>1. read[t] \in Nat
    BY DEF ChatType
  <2>2. read'[t] = read[t]
    BY <1>2 DEF PageSame
  <2>3. QED
    BY <1>2, <2>1, <2>2, ReadStaysRead, IntroductionStays
<1>4. Len(wire[t]) \in Nat /\ Len(wire'[t]) \in Nat
  BY <1>2 DEF Extends
<1>5. PageOf(t)'
  BY <1>1, <1>2, <1>3, <1>4 DEF PageOf, PageSame, Page!Live, Spoke, Speaks, Has
<1>6. CommandsOf(t)'
  BY <1>1, <1>2, <1>3 DEF CommandsOf, PageSame, Speaks, Has, OnlyOnce
<1>7. QED
  BY <1>5, <1>6

\* The page of s when its websocket opens ...
LEMMA OpensPagesInv ==
    ASSUME IsoInv, NetInv, ChatType, RoomsInv, PagesInv, NEW s \in Sessions, PageOpens(s)
    PROVE  PageOf(s)' /\ CommandsOf(s)'
<1>1. PageOf(s) /\ CommandsOf(s) /\ NumberOf(s) /\ NetOf(s)
  BY DEF PagesInv, RoomsInv, NetInv
<1>2. /\ pc \in [Sessions -> Labels] /\ net \in [Sessions -> {"none", "open", "eof", "reset"}]
      /\ wire \in [Sessions -> Seq(Messages)]
      /\ websocket \in [Sessions -> {"none", "open", "null", "gone"}]
  BY DEF IsoInv, TypeOK, ChatType, Page!PageTypeOK
<1>3. /\ pc[s] = "new" /\ pc'[s] \in {"receive", "done"}
      /\ websocket'[s] = "open" /\ roomName' = roomName /\ forwards' = forwards
      /\ myClientId' = myClientId /\ wire'[s] \in {wire[s], <<Plain("connect")>>}
  BY <1>2 DEF PageOpens, Open, OpenFails, At, Goto, handler, Page!OnOpen
<1>4. /\ subscribed' = subscribed /\ IAmUser' = IAmUser /\ offer' = offer /\ answer' = answer
      /\ clientId' = clientId /\ outbox' = outbox /\ read' = read /\ forwarded' = forwarded
  BY DEF PageOpens, Page!OnOpen, Page!role, Page!link
<1>5. Plain("connect").cmd = "connect" /\ DOMAIN <<Plain("connect")>> = {1}
      /\ <<Plain("connect")>>[1] = Plain("connect") /\ Len(<<Plain("connect")>>) = 1
  BY DEF Plain
<1>6. ~Greeted(s)'
  BY <1>1, <1>3, <1>5 DEF Greeted, NumberOf, PageOf
<1>7. roomName[s] = Nil /\ outbox[s] = <<>> /\ subscribed[s] = "no" /\ read[s] = 0 /\ forwarded[s] = <<>>
      /\ forwards[s] = 0
  BY <1>1, <1>3 DEF PageOf, NumberOf, Spoke
<1>8. Len(wire[s]) \in Nat /\ Len(wire'[s]) \in Nat
  BY <1>2, <1>3, <1>5
<1>9. PageOf(s)'
  BY <1>1, <1>3, <1>4, <1>6, <1>7, <1>8 DEF PageOf, Spoke, Speaks, Has
<1>10. CommandsOf(s)'
  BY <1>1, <1>3, <1>4, <1>7 DEF PageOf, CommandsOf, Has, OnlyOnce, Speaks, Spoke
<1>11. QED
  BY <1>9, <1>10

\* ... when its handler takes a command ...
LEMMA TakesPagesInv ==
    ASSUME IsoInv, NetInv, ChatType, RoomsInv, PagesInv, NEW s \in Sessions, ServerTakes(s)
    PROVE  PageOf(s)' /\ CommandsOf(s)'
<1>1. PageOf(s) /\ CommandsOf(s) /\ NumberOf(s) /\ NetOf(s)
  BY DEF PagesInv, RoomsInv, NetInv
<1>2. /\ pc \in [Sessions -> Labels] /\ roomName \in [Sessions -> Rooms \cup {Nil}]
      /\ myClientId \in [Sessions -> Sessions \cup {Nil}] /\ forwards \in [Sessions -> 0..MaxForwards]
      /\ wire \in [Sessions -> Seq(Messages)] /\ forwarded \in [Sessions -> Seq(Kinds)]
      /\ outbox \in [Sessions -> Seq(Commands)] /\ read \in [Sessions -> Nat]
  BY DEF IsoInv, TypeOK, ChatType, Page!PageTypeOK, Commands
<1>3. /\ outbox[s] # <<>> /\ outbox'[s] = Tail(outbox[s])
      /\ websocket' = websocket /\ subscribed' = subscribed /\ IAmUser' = IAmUser /\ offer' = offer
      /\ answer' = answer /\ clientId' = clientId /\ read' = read
  BY <1>2 DEF ServerTakes, IsCommand, role, link
<1>4. Receiving(s) /\ pc[s] = "receive"
  BY DEF ServerTakes, RecvConnect, Subscribe, SubscribeNew, SubscribeFound, MaySubscribe,
         RecvForward, Receiving
<1>5. /\ \A d : Has(outbox'[s], d) => Has(outbox[s], d)
      /\ Has(outbox[s], Head(outbox[s]))
      /\ OnlyOnce(outbox'[s], {"connect"}) /\ OnlyOnce(outbox'[s], {"subscribe"})
      /\ Head(outbox[s]) = "connect" => ~Has(outbox'[s], "connect")
      /\ Head(outbox[s]) = "subscribe" => ~Has(outbox'[s], "subscribe")
  <2>1. OnlyOnce(outbox[s], {"connect"}) /\ OnlyOnce(outbox[s], {"subscribe"})
    BY <1>1 DEF CommandsOf
  <2>2. outbox[s] \in Seq(Commands)
    BY <1>2
  <2>3. QED
    BY <1>3, <2>1, <2>2, TailHas
<1>6. /\ Serve(s) /\ net'[s] = net[s] /\ pc'[s] \in {"receive", "create", "store", "forward"}
  BY <1>2, <1>4 DEF ServerTakes, Serve, RecvConnect, Subscribe, SubscribeNew, SubscribeFound,
                    RecvForward, Goto
<1>7. Grown(s, s)
  <2>1. ~LeaveNoRoom(s) /\ ~LeaveWrite(s)
    BY <1>4 DEF LeaveNoRoom, LeaveWrite, At
  <2>2. QED
    BY <1>6, <2>1, WireGrows
<1>8. /\ Extends(wire'[s], wire[s]) /\ wire[s] \in Seq(Messages) /\ read[s] \in Nat
      /\ Len(wire[s]) \in Nat /\ Len(wire'[s]) \in Nat
  BY <1>2, <1>7 DEF Grown, Extends
<1>9. /\ \A cmd : HasRead(s, cmd) => HasRead(s, cmd)'
      /\ IntroducedOn(wire, s) => IntroducedOn(wire', s)
      /\ Len(wire[s]) <= Len(wire'[s])
  BY <1>3, <1>8, ReadStaysRead, IntroductionStays
<1>10. CASE IsCommand(s, {"connect"}) /\ RecvConnect(s) /\ UNCHANGED forwarded
  <2>1. /\ roomName' = roomName /\ forwards' = forwards /\ pc' = pc /\ Head(outbox[s]) = "connect"
    BY <1>10 DEF RecvConnect, handler, IsCommand
  <2>2. Greeted(s)' => Greeted(s)
    <3>1. SUFFICES ASSUME NEW i \in DOMAIN wire'[s], wire'[s][i].cmd = "roomclients"
                   PROVE  Greeted(s)
      BY DEF Greeted
    <3>2. i \notin DOMAIN wire[s] => News(s, s, i)
      BY <1>7 DEF Grown
    <3>3. i \in DOMAIN wire[s]
      BY <1>4, <3>1, <3>2 DEF News, LastOn, TellCreator, TellJoiner, At
    <3>4. QED
      BY <1>8, <3>1, <3>3 DEF Extends, Greeted
  <2>3. PageOf(s)'
    BY <1>1, <1>3, <1>4, <1>5, <1>6, <1>8, <1>9, <1>10, <2>1, <2>2
       DEF PageOf, Page!Live, Spoke, Speaks
  <2>4. CommandsOf(s)'
    BY <1>1, <1>3, <1>4, <1>5, <1>6, <1>9, <2>1 DEF CommandsOf, Speaks
  <2>5. QED
    BY <2>3, <2>4
<1>11. CASE IsCommand(s, {"subscribe"}) /\ Subscribe(s) /\ UNCHANGED forwarded
  <2>1. /\ roomName'[s] # Nil /\ forwards' = forwards /\ myClientId' = myClientId /\ wire' = wire
        /\ pc'[s] \in {"create", "store"} /\ Head(outbox[s]) = "subscribe"
    BY <1>2, <1>11, NilAssumption DEF Subscribe, SubscribeNew, SubscribeFound, Goto, IsCommand
  <2>2. PageOf(s)'
    BY <1>1, <1>3, <1>4, <1>6, <1>8, <1>11, <2>1 DEF PageOf, Page!Live
  <2>3. CommandsOf(s)'
    BY <1>1, <1>3, <1>4, <1>5, <1>6, <1>9, <2>1 DEF CommandsOf, Speaks
  <2>4. QED
    BY <2>2, <2>3
<1>12. CASE /\ IsCommand(s, {"offer", "answer"}) /\ RecvForward(s)
            /\ forwarded' = [forwarded EXCEPT ![s] = Append(@, Head(outbox[s]))]
  <2>1. /\ roomName' = roomName /\ forwards'[s] = forwards[s] + 1 /\ myClientId' = myClientId
        /\ wire' = wire /\ pc'[s] = "forward"
    BY <1>2, <1>12 DEF RecvForward, Goto
  <2>2. roomName[s] # Nil
    BY <1>12, Unknown DEF RecvForward, Introduced, IntroducedOn
  <2>3. Len(forwarded'[s]) = Len(forwarded[s]) + 1 /\ forwarded'[s] # <<>>
    <3>1. Head(outbox[s]) \in Kinds
      BY <1>12 DEF IsCommand, Kinds
    <3>2. forwarded'[s] = Append(forwarded[s], Head(outbox[s])) /\ forwarded[s] \in Seq(Kinds)
      BY <1>2, <1>12
    <3>3. QED
      BY <3>1, <3>2
  <2>4. PageOf(s)'
    BY <1>1, <1>3, <1>4, <1>6, <1>8, <2>1, <2>2, <2>3 DEF PageOf, Page!Live
  <2>5. CommandsOf(s)'
    BY <1>1, <1>3, <1>4, <1>5, <1>6, <1>9, <2>1 DEF CommandsOf, Speaks
  <2>6. QED
    BY <2>4, <2>5
<1>13. QED
  BY <1>10, <1>11, <1>12 DEF ServerTakes

\* ... when the handler goes on, or the connection breaks ...
LEMMA ContinuesPagesInv ==
    ASSUME IsoInv, NetInv, ChatType, RoomsInv, PagesInv, NEW s \in Sessions,
           ServerContinues(s) \/ Breaks(s)
    PROVE  PageOf(s)' /\ CommandsOf(s)'
<1>1. PageOf(s) /\ CommandsOf(s) /\ NumberOf(s) /\ NetOf(s)
  BY DEF PagesInv, RoomsInv, NetInv
<1>2. /\ pc \in [Sessions -> Labels] /\ net \in [Sessions -> {"none", "open", "eof", "reset"}]
      /\ myClientId \in [Sessions -> Sessions \cup {Nil}] /\ wire \in [Sessions -> Seq(Messages)]
      /\ forwards \in [Sessions -> 0..MaxForwards] /\ read \in [Sessions -> Nat]
  BY DEF IsoInv, TypeOK, ChatType
<1>3. UNCHANGED <<pageVars, read, forwarded>> /\ PageSame(s)
  BY DEF ServerContinues, Breaks, pageVars, role, link, PageSame
<1>4. CASE Breaks(s)
  BY <1>1, <1>2, <1>3, <1>4 DEF Breaks, NetBreaks, MapAbort, handler, PageSame, PageOf, CommandsOf,
     Page!Live, Spoke, Speaks, Has, OnlyOnce, Greeted, HasRead, IntroducedOn
<1>5. CASE ServerContinues(s)
  <2>1. Continue(s)
    BY <1>5 DEF ServerContinues
  <2>2. CASE LeaveNoRoom(s) \/ LeaveWrite(s)
    <3>1. /\ pc'[s] = "done" /\ pc[s] # "new" /\ myClientId'[s] = Nil /\ wire'[s] = <<>>
          /\ roomName' = roomName /\ net' = net
      BY <1>2, <2>2 DEF LeaveNoRoom, LeaveWrite, EndSession, Goto, At
    <3>2. QED
      BY <1>1, <1>3, <3>1 DEF PageSame, PageOf, CommandsOf, Page!Live, Spoke, Speaks, Has, OnlyOnce, Greeted
  <2>3. CASE ~(LeaveNoRoom(s) \/ LeaveWrite(s))
    <3>1. /\ pc[s] \notin {"new", "done"} /\ pc'[s] # "new"
          /\ pc'[s] = "forward" => pc[s] = "forward"
          /\ myClientId' = myClientId /\ roomName' = roomName /\ forwards' = forwards /\ net' = net
      BY <1>2, <2>1, <2>3 DEF Continue, TellCreator, StoreRoom, TellJoiner, TellOther, Forward,
            ForwardToNil, RecvEOF, RecvError, LeaveRead, Goto, At, handler
    <3>2. Grown(s, s)
      BY <2>1, <2>3, WireGrows
    <3>3. /\ Extends(wire'[s], wire[s]) /\ wire[s] \in Seq(Messages) /\ read[s] \in Nat
          /\ Len(wire[s]) \in Nat /\ Len(wire'[s]) \in Nat
      BY <1>2, <3>2 DEF Grown, Extends
    <3>4. /\ \A cmd : HasRead(s, cmd) => HasRead(s, cmd)'
          /\ IntroducedOn(wire, s) => IntroducedOn(wire', s)
          /\ Len(wire[s]) <= Len(wire'[s])
      BY <1>3, <3>3, ReadStaysRead, IntroductionStays DEF PageSame
    <3>5. roomName[s] = Nil => (Greeted(s)' => Greeted(s))
      <4>1. SUFFICES ASSUME roomName[s] = Nil, NEW i \in DOMAIN wire'[s], wire'[s][i].cmd = "roomclients"
                     PROVE  Greeted(s)
        BY DEF Greeted
      <4>2. i \notin DOMAIN wire[s] => News(s, s, i)
        BY <3>2 DEF Grown
      <4>3. pc[s] \notin {"create", "reply"}
        BY <1>1, <4>1 DEF NumberOf
      <4>4. i \in DOMAIN wire[s]
        BY <4>1, <4>2, <4>3 DEF News, LastOn, TellCreator, TellJoiner, At
      <4>5. QED
        BY <3>3, <4>1, <4>4 DEF Extends, Greeted
    <3>6. PageOf(s)'
      BY <1>1, <1>3, <3>1, <3>3, <3>4, <3>5 DEF PageSame, PageOf, Page!Live, Spoke, Speaks, Has
    <3>7. CommandsOf(s)'
      BY <1>1, <1>3, <3>1, <3>4 DEF PageSame, CommandsOf, Speaks, Has, OnlyOnce
    <3>8. QED
      BY <3>6, <3>7
  <2>4. QED
    BY <2>2, <2>3
<1>6. QED
  BY <1>4, <1>5

\* Reading the next message.
LEMMA NextRead ==
    ASSUME IsoInv, ChatType, NEW s \in Sessions, NEW cmd, Reads(s, cmd), wire' = wire
    PROVE  /\ HasRead(s, cmd)' /\ read'[s] \in DOMAIN wire[s] /\ read'[s] \in Nat /\ read'[s] # 0
           /\ read'[s] <= Len(wire[s])
           /\ \A c : HasRead(s, c)' => HasRead(s, c) \/ c = cmd
<1>1. read[s] \in Nat /\ wire[s] \in Seq(Messages)
  BY DEF ChatType, IsoInv, TypeOK
<1>2. /\ read'[s] = read[s] + 1 /\ wire[s][read'[s]].cmd = cmd /\ read[s] < Len(wire[s])
      /\ wire'[s] = wire[s]
  BY DEF Reads
<1>3. read'[s] \in DOMAIN wire[s] /\ read'[s] \in Nat /\ read'[s] # 0 /\ read'[s] <= Len(wire[s])
  BY <1>1, <1>2
<1>4. \A i \in DOMAIN wire[s] : i <= read'[s] => i <= read[s] \/ i = read'[s]
  BY <1>1, <1>2
<1>5. QED
  BY <1>2, <1>3, <1>4 DEF HasRead

\* ... and when the page itself does something.
LEMMA ReadingPagesInv ==
    ASSUME IsoInv, NetInv, ChatType, RoomsInv, PagesInv, NEW s \in Sessions,
           PageReads(s) \/ PageMay(s) \/ PageMust(s)
    PROVE  PageOf(s)' /\ CommandsOf(s)'
<1>1. PageOf(s) /\ CommandsOf(s) /\ NumberOf(s) /\ NetOf(s) /\ MailOf(s)
  BY DEF PagesInv, RoomsInv, NetInv
<1>2. /\ outbox[s] \in Seq(Commands) /\ read[s] \in Nat /\ wire[s] \in Seq(Messages)
      /\ Len(wire[s]) \in Nat
      /\ "connect" \in Commands /\ "subscribe" \in Commands /\ "offer" \in Commands /\ "answer" \in Commands
  <2>1. outbox \in [Sessions -> Seq(Commands)] /\ read \in [Sessions -> Nat]
    BY DEF ChatType, Page!PageTypeOK, Commands
  <2>2. wire \in [Sessions -> Seq(Messages)]
    BY DEF IsoInv, TypeOK
  <2>3. QED
    BY <2>1, <2>2 DEF Commands
<1>3. AsClient(s) /\ PageDoes(s)
  BY <1>1, PageDoesSo DEF PageOf
<1>4. /\ pc' = pc /\ roomName' = roomName /\ myClientId' = myClientId /\ wire' = wire
      /\ forwards' = forwards /\ forwarded' = forwarded
      /\ websocket[s] \in {"open", "null"} /\ websocket'[s] # "none"
      /\ net'[s] = "open" => net[s] = "open" /\ websocket'[s] = websocket[s]
      /\ (Greeted(s)' <=> Greeted(s)) /\ (IntroducedOn(wire', s) <=> IntroducedOn(wire, s))
  BY <1>3 DEF AsClient, handler, Greeted, IntroducedOn
<1>5. pc[s] # "new"
  BY <1>1, <1>4 DEF PageOf
<1>6. roomName[s] = Nil => ~Greeted(s) /\ ~IntroducedOn(wire, s)
  BY <1>1, Unknown DEF PageOf
<1>7. \A cmd : Reads(s, cmd) =>
        /\ HasRead(s, cmd)' /\ read'[s] \in DOMAIN wire[s] /\ read'[s] \in Nat /\ read'[s] # 0
        /\ read'[s] <= Len(wire[s]) /\ wire[s][read'[s]].cmd = cmd
        /\ net[s] = "open" /\ pc[s] # "done"
  BY <1>1, <1>4, NextRead DEF Reads, NetOf
<1>8. /\ \/ read'[s] = read[s]
         \/ read'[s] = read[s] + 1 /\ read'[s] <= Len(wire[s])
      /\ \A cmd : HasRead(s, cmd) => HasRead(s, cmd)'
  <2>1. \/ read'[s] = read[s]
        \/ read'[s] = read[s] + 1 /\ read'[s] <= Len(wire[s])
    BY <1>3, <1>7 DEF PageDoes, Rests, Applies, Counts, Hears, Takes, Calls, Leaves, Reads
  <2>2. wire'[s] = wire[s] /\ Extends(wire'[s], wire[s])
    BY <1>2, <1>4, ExtendsSelf
  <2>3. QED
    BY <1>2, <2>1, <2>2, ReadStaysRead
<1>9. /\ \A c \in Commands : Says(s, c) => \A d : Has(outbox'[s], d) <=> Has(outbox[s], d) \/ d = c
      /\ \A c \in Commands : \A C :
            /\ Says(s, c) /\ OnlyOnce(outbox[s], C)
            /\ c \in C => \A d \in C : ~Has(outbox[s], d)
            => OnlyOnce(outbox'[s], C)
  <2>1. ASSUME NEW c \in Commands, Says(s, c)
        PROVE  /\ \A d : Has(outbox'[s], d) <=> Has(outbox[s], d) \/ d = c
               /\ \A C : /\ OnlyOnce(outbox[s], C)
                         /\ c \in C => \A d \in C : ~Has(outbox[s], d)
                         => OnlyOnce(outbox'[s], C)
    <3>1. outbox[s] \in Seq(Commands)
      BY <1>2
    <3>2. /\ \A d : Has(Append(outbox[s], c), d) <=> Has(outbox[s], d) \/ d = c
          /\ \A C : /\ OnlyOnce(outbox[s], C)
                    /\ c \in C => \A d \in C : ~Has(outbox[s], d)
                    => OnlyOnce(Append(outbox[s], c), C)
      BY <3>1, AppendHas
    <3>3. QED
      BY <2>1, <3>2 DEF Says
  <2>2. QED
    BY <2>1
<1>10. Reads(s, "roomclients") => Greeted(s)
  BY <1>7 DEF Greeted
<1>11. Reads(s, "online") \/ Reads(s, "forward") => IntroducedOn(wire, s)
  BY <1>7 DEF IntroducedOn
\* The commands a page adds to its queue.
<1>12. ASSUME outbox'[s] # outbox[s]
       PROVE  \/ Says(s, "connect") /\ Reads(s, "connect")
              \/ /\ Says(s, "subscribe") /\ subscribed'[s] # "no"
                 /\ \/ s \in Hasty /\ subscribed[s] = "no"
                    \/ s \notin Hasty /\ Reads(s, "ready")
              \/ Says(s, "offer") /\ offer[s] # "no"
              \/ Says(s, "answer") /\ answer[s] # "no"
  BY <1>3, <1>12 DEF PageDoes, Rests, Applies, Counts, Hears, Takes, Calls, Offers, Answers, Leaves, SameMail
<1>13. Reads(s, "connect") => ~Has(outbox[s], "connect") /\ myClientId[s] = Nil
  <2>1. Reads(s, "connect") => read[s] = 0
    BY <1>1, <1>2, <1>7 DEF MailOf, Reads
  <2>2. QED
    BY <1>1, <2>1 DEF CommandsOf
<1>14. s \notin Hasty /\ Reads(s, "ready") => subscribed[s] = "no"
  <2>1. SUFFICES ASSUME s \notin Hasty, Reads(s, "ready"), HasRead(s, "ready") PROVE FALSE
    BY <1>1, <1>7 DEF CommandsOf
  <2>2. PICK i \in DOMAIN wire[s] : i <= read[s] /\ wire[s][i].cmd = "ready"
    BY <2>1 DEF HasRead
  <2>3. i = read'[s]
    BY <1>1, <1>7, <2>1, <2>2 DEF MailOf
  <2>4. QED
    BY <1>2, <2>1, <2>2, <2>3 DEF Reads
<1>15. roomName[s] = Nil => /\ IAmUser'[s] = 0 /\ offer'[s] = "no" /\ answer'[s] = "no" /\ ~Spoke(s)'
  <2>1. SUFFICES ASSUME roomName[s] = Nil
                 PROVE  IAmUser'[s] = 0 /\ offer'[s] = "no" /\ answer'[s] = "no" /\ ~Spoke(s)'
    OBVIOUS
  <2>2. /\ IAmUser[s] = 0 /\ offer[s] = "no" /\ answer[s] = "no" /\ ~Spoke(s)
        /\ ~Reads(s, "roomclients") /\ ~Reads(s, "online") /\ ~Reads(s, "forward")
    BY <1>1, <1>6, <1>10, <1>11, <2>1 DEF PageOf
  <2>3. IAmUser'[s] = 0 /\ offer'[s] = "no" /\ answer'[s] = "no"
    BY <1>3, <2>2 DEF PageDoes, Rests, Applies, Counts, Hears, Takes, Calls, Offers, Answers, Leaves,
       SameRole, SameLink
  <2>4. outbox'[s] = outbox[s] \/ \E c \in {"connect", "subscribe"} : Says(s, c)
    BY <1>12, <2>2
  <2>5. ~Speaks(s)'
    <3>1. ~Speaks(s)
      BY <2>2 DEF Spoke
    <3>2. CASE outbox'[s] = outbox[s]
      BY <3>1, <3>2 DEF Speaks
    <3>3. CASE \E c \in {"connect", "subscribe"} : Says(s, c)
      <4>1. PICK c \in {"connect", "subscribe"} : Says(s, c)
        BY <3>3
      <4>2. \A d : Has(outbox'[s], d) <=> Has(outbox[s], d) \/ d = c
        BY <1>2, <1>9, <4>1
      <4>3. QED
        BY <3>1, <4>1, <4>2 DEF Speaks
    <3>4. QED
      BY <2>4, <3>2, <3>3
  <2>6. QED
    BY <1>4, <2>2, <2>3, <2>5 DEF Spoke
<1>16. subscribed'[s] = "yes" /\ Page!Live(s)' => clientId'[s]
  <2>1. CASE Leaves(s)
    BY <2>1 DEF Leaves, Page!Live
  <2>2. CASE ~Leaves(s)
    BY <1>1, <1>3, <1>4, <2>2 DEF PageDoes, Rests, Applies, Counts, Hears, Takes, Calls, SameRole,
       SameMail, PageOf, Page!Live
  <2>3. QED
    BY <2>1, <2>2
<1>17. PageOf(s)'
  BY <1>1, <1>2, <1>4, <1>5, <1>6, <1>8, <1>15, <1>16 DEF PageOf
<1>18. CommandsOf(s)'
  <2>1. subscribed[s] # "no" => subscribed'[s] # "no"
    BY <1>3 DEF PageDoes, Rests, Applies, Counts, Hears, Takes, Calls, Leaves, SameMail
  <2>2. subscribed'[s] # subscribed[s] => \/ s \in Hasty
                                          \/ Reads(s, "ready")
    BY <1>3 DEF PageDoes, Rests, Applies, Counts, Hears, Takes, Calls, Leaves, SameMail
  <2>3. subscribed'[s] = "no" => roomName'[s] = Nil /\ ~Has(outbox'[s], "subscribe")
    <3>1. CASE outbox'[s] = outbox[s]
      BY <1>1, <1>4, <2>1, <3>1 DEF CommandsOf
    <3>2. CASE outbox'[s] # outbox[s]
      BY <1>1, <1>2, <1>4, <1>9, <1>12, <2>1, <3>2 DEF CommandsOf
    <3>3. QED
      BY <3>1, <3>2
  <2>4. /\ Has(outbox'[s], "connect") => myClientId'[s] = Nil
        /\ read'[s] = 0 => ~Has(outbox'[s], "connect") /\ myClientId'[s] = Nil
    <3>1. CASE outbox'[s] = outbox[s]
      BY <1>1, <1>2, <1>4, <1>8, <3>1 DEF CommandsOf
    <3>2. CASE outbox'[s] # outbox[s]
      BY <1>1, <1>2, <1>4, <1>7, <1>8, <1>9, <1>12, <1>13, <3>2 DEF CommandsOf
    <3>3. QED
      BY <3>1, <3>2
  <2>5. OnlyOnce(outbox'[s], {"connect"}) /\ OnlyOnce(outbox'[s], {"subscribe"})
    <3>1. CASE outbox'[s] = outbox[s]
      BY <1>1, <3>1 DEF CommandsOf
    <3>2. ASSUME Says(s, "connect"), Reads(s, "connect")
          PROVE  OnlyOnce(outbox'[s], {"connect"}) /\ OnlyOnce(outbox'[s], {"subscribe"})
      BY <1>1, <1>2, <1>9, <1>13, <3>2 DEF CommandsOf
    <3>3. ASSUME Says(s, "subscribe"), subscribed[s] = "no"
          PROVE  OnlyOnce(outbox'[s], {"connect"}) /\ OnlyOnce(outbox'[s], {"subscribe"})
      BY <1>1, <1>2, <1>9, <3>3 DEF CommandsOf
    <3>4. ASSUME Says(s, "offer") \/ Says(s, "answer")
          PROVE  OnlyOnce(outbox'[s], {"connect"}) /\ OnlyOnce(outbox'[s], {"subscribe"})
      BY <1>1, <1>2, <1>9, <3>4 DEF CommandsOf
    <3>5. QED
      BY <1>12, <1>14, <3>1, <3>2, <3>3, <3>4
  <2>6. Has(outbox'[s], "subscribe") => roomName'[s] = Nil
    <3>1. CASE outbox'[s] = outbox[s]
      BY <1>1, <1>4, <3>1 DEF CommandsOf
    <3>2. CASE outbox'[s] # outbox[s]
      BY <1>1, <1>2, <1>4, <1>9, <1>12, <1>14, <3>2 DEF CommandsOf
    <3>3. QED
      BY <3>1, <3>2
  <2>7. s \notin Hasty /\ subscribed'[s] # "no" => pc'[s] = "done" \/ HasRead(s, "ready")'
    <3>1. CASE subscribed'[s] = subscribed[s]
      BY <1>1, <1>4, <1>8, <3>1 DEF CommandsOf
    <3>2. CASE subscribed'[s] # subscribed[s]
      BY <1>7, <2>2, <3>2
    <3>3. QED
      BY <3>1, <3>2
  <2>8. offer'[s] # "no" \/ answer'[s] # "no" \/ Speaks(s)' => pc'[s] = "done" \/ IntroducedOn(wire', s)
    <3>1. offer'[s] # offer[s] \/ answer'[s] # answer[s] =>
             \/ offer[s] # "no" \/ answer[s] # "no"
             \/ Reads(s, "online") \/ Reads(s, "forward")
             \/ Leaves(s)
      BY <1>3 DEF PageDoes, Rests, Applies, Counts, Hears, Takes, Calls, Offers, Answers, SameLink
    <3>2. Speaks(s)' => Speaks(s) \/ offer[s] # "no" \/ answer[s] # "no"
      <4>1. CASE outbox'[s] = outbox[s]
        BY <4>1 DEF Speaks
      <4>2. CASE outbox'[s] # outbox[s]
        BY <1>2, <1>9, <1>12, <4>2 DEF Speaks
      <4>3. QED
        BY <4>1, <4>2
    <3>3. Leaves(s) => offer'[s] = "no" /\ answer'[s] = "no"
      BY DEF Leaves
    <3>4. QED
      BY <1>1, <1>4, <1>11, <3>1, <3>2, <3>3 DEF CommandsOf
  <2>9. QED
    BY <2>3, <2>4, <2>5, <2>6, <2>7, <2>8 DEF CommandsOf
<1>19. QED
  BY <1>17, <1>18

\* The pages in any step.
LEMMA PagesStep ==
    IsoInv /\ NetInv /\ ChatType /\ RoomsInv /\ PagesInv /\ [ChatNext]_chatVars => PagesInv'
<1> SUFFICES ASSUME IsoInv, NetInv, ChatType, RoomsInv, PagesInv, [ChatNext]_chatVars
             PROVE  PagesInv'
  OBVIOUS
<1>1. CASE UNCHANGED chatVars
  BY <1>1 DEF chatVars, vars, handler, pageVars, role, link, PagesInv, PageOf, CommandsOf, Page!Live,
     Spoke, Speaks, Greeted, HasRead, IntroducedOn
<1>2. ASSUME NEW s \in Sessions, ChatStep(s) PROVE PagesInv'
  <2>1. PageOf(s)' /\ CommandsOf(s)'
    BY <1>2, OpensPagesInv, TakesPagesInv, ContinuesPagesInv, ReadingPagesInv DEF ChatStep
  <2>2. QED
    BY <1>2, <2>1, OthersPagesInv DEF PagesInv
<1>3. QED
  BY <1>1, <1>2 DEF ChatNext, ChatStep

\* Pages that were not opened.
LEMMA PagesInit == ChatInit => PagesInv
<1> SUFFICES ASSUME ChatInit, NEW s \in Sessions PROVE PageOf(s) /\ CommandsOf(s)
  BY DEF PagesInv
<1>1. /\ pc[s] = "new" /\ net[s] = "none" /\ roomName[s] = Nil /\ myClientId[s] = Nil
      /\ wire[s] = <<>> /\ forwards[s] = 0 /\ forwarded[s] = <<>> /\ read[s] = 0
      /\ websocket[s] = "none" /\ subscribed[s] = "no" /\ outbox[s] = <<>> /\ IAmUser[s] = 0
      /\ offer[s] = "no" /\ answer[s] = "no"
  BY DEF ChatInit, Init, Page!PageInit
<1>2. QED
  BY <1>1 DEF PageOf, CommandsOf, Has, OnlyOnce, Greeted, Speaks, Spoke

-----------------------------------------------------------------------------
(* Two pages that have a room to themselves.                               *)

\* A description of this kind neither waits for the handler nor came there.
Never(s, kind) == ~Has(outbox[s], kind) /\ ~Has(forwarded[s], kind)

\* A page sends one description at most.
Once(s) == OnlyOnce(outbox[s], Kinds) /\ (Speaks(s) => forwarded[s] = <<>>)

\* The places of the descriptions that were sent to s.
Forwards(s) == {i \in DOMAIN wire[s] : wire[s][i].cmd = "forward"}

\* The page that was there first: it makes an offer when it is told of the other
\* one, and takes the answer.
Caller(a) ==
    /\ answer[a] = "no" /\ Never(a, "answer") /\ Once(a)
    /\ offer[a] # "no" \/ Spoke(a) => (Page!Live(a) => IAmUser[a] = 1)
    /\ offer[a] \in {"creating", "describing"} => ~Spoke(a)
    /\ net[a] = "open" /\ ~HasRead(a, "online") => offer[a] = "no" /\ ~Spoke(a)
    /\ subscribed[a] = "yes" =>
          /\ IAmUser[a] # 2
          /\ net[a] = "open" /\ HasRead(a, "roomclients") /\ ~HasRead(a, "online")
                => clientCount[a] = 1

\* The page that joined: it waits for the offer and answers.
Callee(b) ==
    /\ IAmUser[b] # 1 /\ offer[b] = "no" /\ Never(b, "offer") /\ Once(b)
    /\ answer[b] \in {"hearing", "creating", "describing"} => ~Spoke(b)
    /\ net[b] = "open" /\ ~HasRead(b, "forward") => answer[b] = "no" /\ ~Spoke(b)
    /\ net[b] = "open" /\ userNum[b] = 2 /\ HasRead(b, "roomclients") => IAmUser[b] = 2

\* The offer comes first, then its answer, and each goes out once.
Between(a, b) ==
    /\ Spoke(b) \/ answer[b] # "no" \/ Forwards(b) # {} => forwarded[a] # <<>>
    /\ Forwards(b) # {} => pc[a] # "forward"
    /\ Forwards(a) # {} => forwarded[b] # <<>> /\ pc[b] # "forward"
    /\ \A i, j \in Forwards(a) : i = j
    /\ \A i, j \in Forwards(b) : i = j

\* a calls and b is called.
Roles(a, b) == PairOf(a, b) /\ Caller(a) /\ Callee(b) /\ Between(a, b)

\* Two who have a room to themselves have one role each, from the moment on in
\* which the first of them subscribes.
RolesInv == \A a, b \in Sessions : a # b /\ Only(a, b) =>
    /\ roomName[b] = Nil => Roles(a, b)
    /\ roomName[b] = roomName[a] => Roles(a, b) \/ Roles(b, a)

\* What holds of all pages and rooms.
ChatInv == IsoInv /\ NetInv /\ RoomsInv /\ ChatType /\ PagesInv

\* A page has read what it had read, and what it reads now.
LEMMA PageReadsMore ==
    ASSUME IsoInv, ChatType, NEW s \in Sessions, AsClient(s), PageDoes(s)
    PROVE  \A c : HasRead(s, c)' <=> HasRead(s, c) \/ Reads(s, c)
<1>1. /\ wire' = wire /\ wire[s] \in Seq(Messages) /\ read[s] \in Nat
      /\ Extends(wire'[s], wire[s])
  BY ExtendsSelf DEF AsClient, IsoInv, TypeOK, ChatType
<1>2. CASE read'[s] = read[s]
  <2>1. \A c : ~Reads(s, c)
    BY <1>1, <1>2 DEF Reads
  <2>2. QED
    BY <1>1, <1>2, <2>1 DEF HasRead
<1>3. CASE read'[s] # read[s]
  <2>1. PICK cmd : Reads(s, cmd)
    BY <1>3 DEF PageDoes, Rests, Applies, Counts, Hears, Takes, Calls, Leaves
  <2>2. \A c : Reads(s, c) <=> c = cmd
    BY <2>1 DEF Reads
  <2>3. /\ HasRead(s, cmd)'
        /\ \A c : HasRead(s, c)' => HasRead(s, c) \/ c = cmd
    BY <1>1, <2>1, NextRead
  <2>4. read'[s] = read[s] + 1
    BY <2>1 DEF Reads
  <2>5. \A c : HasRead(s, c) => HasRead(s, c)'
    BY <1>1, <2>4, ReadStaysRead
  <2>6. QED
    BY <2>2, <2>3, <2>5
<1>4. QED
  BY <1>2, <1>3

\* A page keeps its part in a step of another one.
LEMMA OthersReads ==
    ASSUME ChatInv, NEW s \in Sessions, ChatStep(s), NEW t \in Sessions, t # s, net[t] = "open"
    PROVE  \A c : HasRead(t, c)' <=> HasRead(t, c)
<1>1. pc[t] # "done" /\ read[t] <= Len(wire[t]) /\ read[t] \in Nat
  BY DEF ChatInv, NetInv, NetOf, PagesInv, PageOf, ChatType
<1>2. PageSame(t) /\ wire[t] \in Seq(Messages) /\ Extends(wire'[t], wire[t])
  BY OthersStep DEF ChatInv
<1>3. QED
  BY <1>1, <1>2, ReadsTheSame DEF PageSame

\* The caller in a step of somebody else ...
LEMMA OthersCaller ==
    ASSUME ChatInv, NEW s \in Sessions, ChatStep(s), NEW a \in Sessions, a # s, Caller(a)
    PROVE  Caller(a)'
<1>1. PageSame(a) /\ net'[a] = net[a]
  BY OthersStep DEF ChatInv
<1>2. net[a] = "open" => \A c : HasRead(a, c)' <=> HasRead(a, c)
  BY OthersReads
<1>3. QED
  BY <1>1, <1>2 DEF Caller, PageSame, Never, Once, Speaks, Spoke, Page!Live, Has, OnlyOnce

\* ... and the callee.
LEMMA OthersCallee ==
    ASSUME ChatInv, NEW s \in Sessions, ChatStep(s), NEW b \in Sessions, b # s, Callee(b)
    PROVE  Callee(b)'
<1>1. PageSame(b) /\ net'[b] = net[b] /\ userNum'[b] = userNum[b]
  BY OthersStep DEF ChatInv
<1>2. net[b] = "open" => \A c : HasRead(b, c)' <=> HasRead(b, c)
  BY OthersReads
<1>3. QED
  BY <1>1, <1>2 DEF Callee, PageSame, Never, Once, Speaks, Spoke, Has, OnlyOnce

\* What the handler takes from the queue leaves it.
LEMMA TakesFrom ==
    ASSUME IsoInv, ChatType, NEW s \in Sessions, ServerTakes(s)
    PROVE  /\ \A d : Has(outbox'[s], d) => Has(outbox[s], d)
           /\ \A C : OnlyOnce(outbox[s], C) => OnlyOnce(outbox'[s], C)
           /\ websocket' = websocket /\ subscribed' = subscribed /\ IAmUser' = IAmUser
           /\ offer' = offer /\ answer' = answer /\ clientId' = clientId /\ read' = read
           /\ clientCount' = clientCount
           /\ \/ forwarded' = forwarded /\ ~RecvForward(s)
              \/ /\ RecvForward(s) /\ Head(outbox[s]) \in Kinds /\ Speaks(s) /\ Has(outbox[s], Head(outbox[s]))
                 /\ forwarded'[s] = Append(forwarded[s], Head(outbox[s]))
                 /\ OnlyOnce(outbox[s], Kinds) => ~Speaks(s)'
<1>1. outbox \in [Sessions -> Seq(Commands)] /\ forwarded \in [Sessions -> Seq(Kinds)]
  BY DEF ChatType, Page!PageTypeOK, Commands
<1>2. /\ outbox[s] # <<>> /\ outbox'[s] = Tail(outbox[s])
      /\ websocket' = websocket /\ subscribed' = subscribed /\ IAmUser' = IAmUser
      /\ offer' = offer /\ answer' = answer /\ clientId' = clientId /\ read' = read
      /\ clientCount' = clientCount
  BY <1>1 DEF ServerTakes, IsCommand, role, link
<1>3. /\ Has(outbox[s], Head(outbox[s]))
      /\ \A d : Has(outbox[s], d) <=> Has(Tail(outbox[s]), d) \/ d = Head(outbox[s])
      /\ \A C : OnlyOnce(outbox[s], C) => /\ OnlyOnce(Tail(outbox[s]), C)
                                          /\ Head(outbox[s]) \in C => \A d \in C : ~Has(Tail(outbox[s]), d)
  BY <1>1, <1>2, TailHas
<1>4. \/ forwarded' = forwarded /\ ~RecvForward(s)
      \/ /\ RecvForward(s) /\ Head(outbox[s]) \in Kinds
         /\ forwarded'[s] = Append(forwarded[s], Head(outbox[s]))
  <2>1. CASE RecvForward(s)
    <3>1. forwards'[s] # forwards[s]
      <4>1. forwards \in [Sessions -> 0..MaxForwards] /\ MaxForwards \in Nat
        BY BoundsAssumption DEF IsoInv, TypeOK
      <4>2. forwards'[s] = forwards[s] + 1 /\ forwards[s] \in Nat
        BY <2>1, <4>1 DEF RecvForward
      <4>3. QED
        BY <4>2
    <3>2. ~RecvConnect(s) /\ ~Subscribe(s)
      BY <3>1 DEF RecvConnect, Subscribe, SubscribeNew, SubscribeFound
    <3>3. QED
      BY <1>1, <2>1, <3>2 DEF ServerTakes, IsCommand, Kinds
  <2>2. CASE ~RecvForward(s)
    BY <2>2 DEF ServerTakes
  <2>3. QED
    BY <2>1, <2>2
<1>5. Head(outbox[s]) \in Kinds => Speaks(s)
  BY <1>3 DEF Speaks, Kinds
<1>6. Head(outbox[s]) \in Kinds /\ OnlyOnce(outbox[s], Kinds) => ~Speaks(s)'
  BY <1>2, <1>3 DEF Speaks, Kinds
<1>7. QED
  BY <1>2, <1>3, <1>4, <1>5, <1>6

\* Whatever the server does, a page that is still connected has read what it had.
LEMMA HandlerReads ==
    ASSUME ChatInv, NEW s \in Sessions, ServerTakes(s) \/ ServerContinues(s) \/ Breaks(s),
           net'[s] = "open"
    PROVE  /\ net[s] = "open" /\ read' = read
           /\ \A c : HasRead(s, c)' <=> HasRead(s, c)
           /\ userNum'[s] = userNum[s] \/ ServerTakes(s)
<1>1. /\ PageOf(s) /\ NetOf(s) /\ IsoInv /\ NetInv /\ ChatType
      /\ read[s] \in Nat /\ wire[s] \in Seq(Messages)
      /\ net \in [Sessions -> {"none", "open", "eof", "reset"}]
  BY DEF ChatInv, PagesInv, NetInv, ChatType, IsoInv, TypeOK
<1>2. read' = read
  BY DEF ServerTakes, ServerContinues, Breaks
<1>3. CASE Breaks(s)
  BY <1>1, <1>2, <1>3 DEF Breaks, NetBreaks, MapAbort, HasRead, handler
<1>4. CASE ServerTakes(s) \/ ServerContinues(s)
  <2>1. Serve(s) \/ Continue(s)
    BY <1>4 DEF ServerTakes, ServerContinues, Serve
  <2>2. net[s] = "open"
    <3>1. CASE ServerTakes(s)
      BY <3>1 DEF ServerTakes, RecvConnect, Subscribe, SubscribeNew, SubscribeFound, RecvForward
    <3>2. CASE ServerContinues(s)
      BY <3>2 DEF ServerContinues, Continue, TellCreator, StoreRoom, TellJoiner, TellOther, Forward,
         ForwardToNil, RecvEOF, RecvError, LeaveRead, LeaveNoRoom, LeaveWrite
    <3>3. QED
      BY <1>4, <3>1, <3>2
  <2>3. ~LeaveNoRoom(s) /\ ~LeaveWrite(s) /\ pc[s] # "done"
    BY <1>1, <2>2 DEF LeaveNoRoom, LeaveWrite, At, NetOf
  <2>4. Extends(wire'[s], wire[s])
    BY <1>1, <2>1, <2>3, WireGrows DEF Grown
  <2>5. ServerContinues(s) => userNum'[s] = userNum[s]
    BY <2>3 DEF ServerContinues, Continue, TellCreator, StoreRoom, TellJoiner, TellOther, Forward,
       ForwardToNil, RecvEOF, RecvError, LeaveRead, handler
  <2>6. read[s] <= Len(wire[s]) /\ read'[s] = read[s]
    BY <1>1, <1>2, <2>3 DEF PageOf
  <2>7. \A c : HasRead(s, c)' <=> HasRead(s, c)
    BY <1>1, <2>4, <2>6, ReadsTheSame
  <2>8. QED
    BY <1>2, <1>4, <2>2, <2>5, <2>7
<1>5. QED
  BY <1>3, <1>4

\* What a page says is in its queue, behind what was there.
LEMMA SaysHas ==
    ASSUME NEW s \in Sessions, outbox[s] \in Seq(Commands), NEW c \in Commands, Says(s, c)
    PROVE  /\ \A d : Has(outbox'[s], d) <=> Has(outbox[s], d) \/ d = c
           /\ OnlyOnce(outbox[s], Kinds) /\ (c \in Kinds => ~Speaks(s)) => OnlyOnce(outbox'[s], Kinds)
<1>1. \A d : Has(Append(outbox[s], c), d) <=> Has(outbox[s], d) \/ d = c
  BY AppendHas
<1>2. /\ OnlyOnce(outbox[s], Kinds)
      /\ c \in Kinds => \A d \in Kinds : ~Has(outbox[s], d)
      => OnlyOnce(Append(outbox[s], c), Kinds)
  BY AppendHas
<1>3. ~Speaks(s) => \A d \in Kinds : ~Has(outbox[s], d)
  BY DEF Speaks, Kinds
<1>4. QED
  BY <1>1, <1>2, <1>3 DEF Says

\* The caller's own steps, while the room belongs to the two.
LEMMA CallerStep ==
    ASSUME ChatInv, NEW a \in Sessions, NEW b \in Sessions, a # b, roomName[a] # Nil,
           Roles(a, b), ChatStep(a)
    PROVE  Caller(a)'
<1>1. /\ PageOf(a) /\ CommandsOf(a) /\ NumberOf(a) /\ NetOf(a) /\ PairOf(a, b) /\ Caller(a)
      /\ Callee(b) /\ Between(a, b) /\ IsoInv /\ NetInv /\ ChatType
  BY DEF ChatInv, PagesInv, RoomsInv, NetInv, Roles
<1>2. /\ outbox \in [Sessions -> Seq(Commands)] /\ forwarded \in [Sessions -> Seq(Kinds)]
      /\ read \in [Sessions -> Nat] /\ wire \in [Sessions -> Seq(Messages)]
      /\ net \in [Sessions -> {"none", "open", "eof", "reset"}]
      /\ clientCount \in [Sessions -> Nat]
  BY <1>1 DEF IsoInv, TypeOK, ChatType, Page!PageTypeOK, Commands
<1>3. ~PageOpens(a)
  BY <1>1 DEF PageOpens, Open, OpenFails, At, NumberOf
<1>4. CASE ServerContinues(a) \/ Breaks(a)
  <2>1. UNCHANGED <<pageVars, read, forwarded>>
    BY <1>4 DEF ServerContinues, Breaks
  <2>2. net'[a] = "open" => net[a] = "open" /\ \A c : HasRead(a, c)' <=> HasRead(a, c)
    BY <1>4, HandlerReads
  <2>3. QED
    BY <1>1, <2>1, <2>2 DEF pageVars, role, link, Caller, Never, Once, Speaks, Spoke, Page!Live, Has, OnlyOnce
<1>5. CASE ServerTakes(a)
  <2>1. /\ \A d : Has(outbox'[a], d) => Has(outbox[a], d)
        /\ OnlyOnce(outbox[a], Kinds) => OnlyOnce(outbox'[a], Kinds)
        /\ websocket' = websocket /\ subscribed' = subscribed /\ IAmUser' = IAmUser
        /\ offer' = offer /\ answer' = answer /\ clientId' = clientId /\ read' = read
        /\ clientCount' = clientCount
        /\ \/ forwarded' = forwarded /\ ~RecvForward(a)
           \/ /\ RecvForward(a) /\ Head(outbox[a]) \in Kinds /\ Speaks(a) /\ Has(outbox[a], Head(outbox[a]))
              /\ forwarded'[a] = Append(forwarded[a], Head(outbox[a]))
              /\ OnlyOnce(outbox[a], Kinds) => ~Speaks(a)'
    BY <1>1, <1>5, TakesFrom
  <2>2. Spoke(a)' => Spoke(a)
    BY <2>1 DEF Spoke, Speaks
  <2>3. Never(a, "answer")'
    <3>1. ~Has(outbox'[a], "answer") /\ ~Has(outbox[a], "answer") /\ ~Has(forwarded[a], "answer")
      BY <1>1, <2>1 DEF Caller, Never
    <3>2. /\ Head(outbox[a]) \in Kinds
          /\ Has(Append(forwarded[a], Head(outbox[a])), "answer")
          => Has(forwarded[a], "answer") \/ "answer" = Head(outbox[a])
      BY <1>2, AppendHas
    <3>3. QED
      BY <2>1, <3>1, <3>2 DEF Never
  <2>4. Once(a)'
    BY <1>1, <2>1 DEF Caller, Once, Speaks
  <2>5. net'[a] = "open" => net[a] = "open" /\ \A c : HasRead(a, c)' <=> HasRead(a, c)
    BY <1>5, HandlerReads
  <2>6. QED
    BY <1>1, <2>1, <2>2, <2>3, <2>4, <2>5 DEF Caller, Page!Live
<1>6. CASE PageReads(a) \/ PageMay(a) \/ PageMust(a)
  <2>1. AsClient(a) /\ PageDoes(a)
    BY <1>1, <1>6, PageDoesSo DEF PageOf
  <2>2. \A c : HasRead(a, c)' <=> HasRead(a, c) \/ Reads(a, c)
    BY <1>1, <2>1, PageReadsMore
  <2>3. /\ forwarded' = forwarded /\ wire' = wire
        /\ net'[a] = "open" => net[a] = "open" /\ websocket'[a] = websocket[a]
        /\ Page!Live(a)' => Page!Live(a)
        /\ websocket[a] \in {"open", "null"}
    BY <2>1 DEF AsClient, Page!Live
  <2>4. subscribed[a] # "no"
    BY <1>1 DEF CommandsOf
  <2>5. ~(a \notin Hasty /\ Reads(a, "ready"))
    <3>1. SUFFICES ASSUME a \notin Hasty, Reads(a, "ready") PROVE FALSE
      OBVIOUS
    <3>2. HasRead(a, "ready")
      BY <1>1, <2>4, <3>1 DEF CommandsOf, Reads, NetOf
    <3>3. PICK i \in DOMAIN wire[a] : i <= read[a] /\ wire[a][i].cmd = "ready"
      BY <3>2 DEF HasRead
    <3>4. read'[a] \in DOMAIN wire[a] /\ wire[a][read'[a]].cmd = "ready" /\ read'[a] = read[a] + 1
      BY <1>1, <2>3, <3>1, NextRead DEF Reads
    <3>5. i = read'[a]
      BY <3>3, <3>4 DEF ChatInv, RoomsInv, MailOf
    <3>6. QED
      BY <1>2, <3>3, <3>4, <3>5
  <2>6. subscribed'[a] = subscribed[a]
    BY <2>1, <2>4, <2>5 DEF PageDoes, Rests, Applies, Counts, Hears, Takes, Calls, Leaves, SameMail
  <2>7. outbox'[a] = outbox[a] => /\ Never(a, "answer")' /\ Once(a)'
                                  /\ Spoke(a)' <=> Spoke(a)
    BY <1>1, <2>3 DEF Caller, Never, Once, Spoke, Speaks
  <2>8. ~HasRead(a, "online")' => ~HasRead(a, "online")
    BY <2>2
  <2>9. CASE Rests(a)
    <3>1. ~Reads(a, "roomclients")
      BY <1>2, <2>9 DEF Rests, Reads
    <3>2. outbox'[a] = outbox[a]
      BY <2>9 DEF Rests, SameMail
    <3>3. QED
      BY <1>1, <2>2, <2>3, <2>6, <2>7, <2>8, <2>9, <3>1, <3>2 DEF Rests, SameRole, SameLink, Caller
  <2>10. CASE Applies(a)
    <3>1. outbox'[a] = outbox[a] \/ Says(a, "connect")
      BY <2>4, <2>5, <2>10 DEF Applies, SameMail
    <3>2. Says(a, "connect") => /\ Never(a, "answer")' /\ Once(a)'
                                /\ Spoke(a)' <=> Spoke(a)
      <4>1. SUFFICES ASSUME Says(a, "connect")
                     PROVE  /\ Never(a, "answer")' /\ Once(a)'
                            /\ Spoke(a)' <=> Spoke(a)
        OBVIOUS
      <4>2. outbox[a] \in Seq(Commands) /\ "connect" \in Commands /\ "connect" \notin Kinds
        BY <1>2 DEF Commands, Kinds
      <4>3. /\ \A d : Has(outbox'[a], d) <=> Has(outbox[a], d) \/ d = "connect"
            /\ OnlyOnce(outbox[a], Kinds) => OnlyOnce(outbox'[a], Kinds)
        BY <4>1, <4>2, SaysHas
      <4>4. QED
        BY <1>1, <2>3, <4>3 DEF Caller, Never, Once, Spoke, Speaks
    <3>3. ~Reads(a, "roomclients")
      BY <1>2, <2>4, <2>10 DEF Applies, Reads
    <3>4. QED
      BY <1>1, <2>2, <2>3, <2>6, <2>7, <2>8, <2>10, <3>1, <3>2, <3>3 DEF Applies, SameLink, Caller
  <2>11. CASE Counts(a)
    <3>1. Others(a) = 0
      BY <1>1 DEF PairOf, Others
    <3>2. clientCount'[a] = 0 + (IF clientId[a] THEN 1 ELSE 0) /\ IAmUser'[a] = IAmUser[a]
      BY <2>11, <3>1 DEF Counts
    <3>3. subscribed[a] = "yes" => clientId[a]
      BY <1>1, <2>11 DEF Counts, Reads, PageOf, Page!Live
    <3>4. outbox'[a] = outbox[a] /\ SameLink(a)
      BY <2>11 DEF Counts, SameMail
    <3>5. subscribed[a] = "yes" => clientCount'[a] = 1
      BY <3>2, <3>3
    <3>6. QED
      BY <1>1, <2>3, <2>6, <2>7, <2>8, <3>2, <3>4, <3>5 DEF SameLink, Caller
  <2>12. CASE Hears(a)
    <3>1. outbox'[a] = outbox[a] /\ answer'[a] = answer[a] /\ Reads(a, "online") /\ net[a] = "open"
      BY <2>12 DEF Hears, SameMail, Reads
    <3>2. /\ read'[a] \in DOMAIN wire[a] /\ wire[a][read'[a]].cmd = "online"
          /\ read'[a] = read[a] + 1 /\ read[a] \in Nat
      BY <1>1, <1>2, <2>3, <3>1, NextRead DEF Reads
    <3>3. ~HasRead(a, "online")
      <4>1. SUFFICES ASSUME NEW j \in DOMAIN wire[a], j <= read[a], wire[a][j].cmd = "online" PROVE FALSE
        BY DEF HasRead
      <4>2. read'[a] = j
        BY <1>1, <3>2, <4>1 DEF PairOf
      <4>3. QED
        BY <3>2, <4>1, <4>2
    <3>4. HasRead(a, "roomclients")
      <4>1. PICK j \in 1..(read'[a] - 1) : wire[a][j].cmd = "roomclients"
        BY <1>1, <3>2 DEF PairOf
      <4>2. j <= read[a] /\ j \in DOMAIN wire[a]
        BY <1>2, <3>2, <4>1
      <4>3. QED
        BY <4>1, <4>2 DEF HasRead
    <3>5. offer[a] = "no" /\ ~Spoke(a) /\ (subscribed[a] = "yes" => clientCount[a] = 1)
      BY <1>1, <3>1, <3>3, <3>4 DEF Caller
    <3>6. \/ IAmUser'[a] = 1 /\ offer'[a] \in {"creating", "nochannel"}
          \/ subscribed[a] # "yes" /\ offer'[a] = "no"
      BY <2>12, <3>5 DEF Hears
    <3>7. HasRead(a, "online")'
      BY <2>2, <3>1
    <3>8. QED
      BY <1>1, <2>6, <2>7, <3>1, <3>5, <3>6, <3>7 DEF Caller
  <2>13. CASE Takes(a)
    <3>1. outbox'[a] = outbox[a] /\ Reads(a, "forward") /\ net[a] = "open" /\ Page!Live(a)
      BY <2>13 DEF Takes, SameMail, Reads, Page!Live
    <3>2. Forwards(a) # {}
      BY <1>1, <2>3, <3>1, NextRead DEF Reads, Forwards
    <3>3. Spoke(a) /\ IAmUser[a] = 1 /\ HasRead(a, "online")
      BY <1>1, <3>1, <3>2 DEF Between, Spoke, Caller
    <3>4. ~Reads(a, "roomclients")
      BY <1>2, <3>1 DEF Reads
    <3>5. /\ IAmUser'[a] = IAmUser[a] /\ answer'[a] = answer[a] /\ offer'[a] \in {"settling", "refused"}
      BY <2>13, <3>3 DEF Takes, SameRole
    <3>6. QED
      BY <1>1, <2>2, <2>6, <2>7, <3>1, <3>3, <3>4, <3>5 DEF Caller
  <2>14. CASE Calls(a)
    <3>1. Offers(a) /\ offer[a] # "no" /\ IAmUser'[a] = IAmUser[a] /\ clientCount'[a] = clientCount[a]
      BY <1>1, <2>14 DEF Calls, Offers, Answers, SameRole, Caller
    <3>2. ~Reads(a, "roomclients")
      BY <1>2, <2>14 DEF Calls, Reads
    <3>3. CASE outbox'[a] = outbox[a]
      <4>1. /\ answer'[a] = answer[a]
            /\ offer'[a] \in {"creating", "describing"} => offer[a] \in {"creating", "describing"}
        BY <3>1, <3>3 DEF Offers
      <4>2. QED
        BY <1>1, <2>2, <2>3, <2>6, <2>7, <3>1, <3>2, <3>3, <4>1 DEF Caller
    <3>4. CASE outbox'[a] # outbox[a]
      <4>1. offer[a] = "describing" /\ offer'[a] = "sent" /\ Says(a, "offer") /\ answer'[a] = answer[a]
        BY <3>1, <3>4 DEF Offers
      <4>2. ~Spoke(a) /\ OnlyOnce(outbox[a], Kinds)
        BY <1>1, <4>1 DEF Caller, Once
      <4>3. outbox[a] \in Seq(Commands) /\ "offer" \in Commands
        BY <1>2 DEF Commands
      <4>4. /\ \A d : Has(outbox'[a], d) <=> Has(outbox[a], d) \/ d = "offer"
            /\ OnlyOnce(outbox'[a], Kinds)
        BY <4>1, <4>2, <4>3, SaysHas DEF Spoke
      <4>5. Never(a, "answer")' /\ Once(a)'
        BY <1>1, <2>3, <4>2, <4>4 DEF Never, Once, Spoke, Caller
      <4>6. QED
        BY <1>1, <2>2, <2>3, <2>6, <3>1, <3>2, <4>1, <4>5 DEF Caller
    <3>5. QED
      BY <3>3, <3>4
  <2>15. CASE Leaves(a)
    <3>1. /\ outbox'[a] = outbox[a] /\ net'[a] # "open" /\ IAmUser'[a] = 0
          /\ offer'[a] = "no" /\ answer'[a] = "no" /\ ~Page!Live(a)'
      BY <2>3, <2>15 DEF Leaves, SameMail, Page!Live
    <3>2. QED
      BY <1>1, <2>7, <3>1 DEF Caller
  <2>16. QED
    BY <2>1, <2>9, <2>10, <2>11, <2>12, <2>13, <2>14, <2>15 DEF PageDoes
<1>7. QED
  BY <1>3, <1>4, <1>5, <1>6 DEF ChatStep

\* The callee's own steps.
LEMMA CalleeStep ==
    ASSUME ChatInv, NEW a \in Sessions, NEW b \in Sessions, a # b, roomName[a] # Nil,
           Roles(a, b), ChatStep(b)
    PROVE  Callee(b)'
<1>1. /\ PageOf(b) /\ CommandsOf(b) /\ NumberOf(b) /\ NetOf(b) /\ PairOf(a, b)
      /\ Callee(b) /\ Between(a, b) /\ IsoInv /\ NetInv /\ ChatType
  BY DEF ChatInv, PagesInv, RoomsInv, NetInv, Roles
<1>2. /\ outbox \in [Sessions -> Seq(Commands)] /\ forwarded \in [Sessions -> Seq(Kinds)]
      /\ read \in [Sessions -> Nat] /\ wire \in [Sessions -> Seq(Messages)]
      /\ userNum \in [Sessions -> 0..2]
      /\ IAmUser \in [Sessions -> 0..2]
  BY <1>1 DEF IsoInv, TypeOK, ChatType, Page!PageTypeOK, Commands
<1>3. CASE PageOpens(b)
  <2>1. /\ pc[b] = "new" /\ IAmUser' = IAmUser /\ offer' = offer /\ answer' = answer
        /\ outbox' = outbox /\ forwarded' = forwarded /\ read' = read
    BY <1>3 DEF PageOpens, Open, OpenFails, At, Page!OnOpen, Page!role, Page!link
  <2>2. read[b] = 0 /\ IAmUser[b] = 0 /\ offer[b] = "no" /\ answer[b] = "no" /\ ~Spoke(b)
    BY <1>1, <2>1 DEF PageOf, NumberOf
  <2>3. \A c : ~HasRead(b, c)'
    <3>1. wire'[b] \in {wire[b], <<Plain("connect")>>}
      BY <1>2, <1>3 DEF PageOpens, Open, OpenFails
    <3>2. DOMAIN <<Plain("connect")>> = {1} /\ wire[b] \in Seq(Messages)
      BY <1>2
    <3>3. \A i \in DOMAIN wire'[b] : ~(i <= 0)
      BY <3>1, <3>2
    <3>4. QED
      BY <2>1, <2>2, <3>3 DEF HasRead
  <2>4. QED
    BY <1>1, <2>1, <2>2, <2>3 DEF Callee, Never, Once, Speaks, Spoke, Has, OnlyOnce
<1>4. CASE ServerContinues(b) \/ Breaks(b)
  <2>1. UNCHANGED <<pageVars, read, forwarded>> /\ (ServerTakes(b) => userNum'[b] = userNum[b])
    <3>1. UNCHANGED <<pageVars, read, forwarded>>
      BY <1>4 DEF ServerContinues, Breaks
    <3>2. ~ServerTakes(b)
      <4>1. ServerTakes(b) => outbox'[b] # outbox[b]
        BY <1>2 DEF ServerTakes, IsCommand
      <4>2. QED
        BY <3>1, <4>1 DEF pageVars
    <3>3. QED
      BY <3>1, <3>2
  <2>2. net'[b] = "open" => /\ net[b] = "open" /\ \A c : HasRead(b, c)' <=> HasRead(b, c)
                            /\ userNum'[b] = userNum[b]
    BY <1>4, <2>1, HandlerReads
  <2>3. QED
    BY <1>1, <2>1, <2>2 DEF pageVars, role, link, Callee, Never, Once, Speaks, Spoke, Has, OnlyOnce
<1>5. CASE ServerTakes(b)
  <2>1. /\ \A d : Has(outbox'[b], d) => Has(outbox[b], d)
        /\ OnlyOnce(outbox[b], Kinds) => OnlyOnce(outbox'[b], Kinds)
        /\ IAmUser' = IAmUser /\ offer' = offer /\ answer' = answer
        /\ \/ forwarded' = forwarded /\ ~RecvForward(b)
           \/ /\ RecvForward(b) /\ Head(outbox[b]) \in Kinds /\ Speaks(b) /\ Has(outbox[b], Head(outbox[b]))
              /\ forwarded'[b] = Append(forwarded[b], Head(outbox[b]))
              /\ OnlyOnce(outbox[b], Kinds) => ~Speaks(b)'
    BY <1>1, <1>5, TakesFrom
  <2>2. Spoke(b)' => Spoke(b)
    BY <2>1 DEF Spoke, Speaks
  <2>3. Never(b, "offer")'
    <3>1. ~Has(outbox'[b], "offer") /\ ~Has(outbox[b], "offer") /\ ~Has(forwarded[b], "offer")
      BY <1>1, <2>1 DEF Callee, Never
    <3>2. /\ Head(outbox[b]) \in Kinds
          /\ Has(Append(forwarded[b], Head(outbox[b])), "offer")
          => Has(forwarded[b], "offer") \/ "offer" = Head(outbox[b])
      BY <1>2, AppendHas
    <3>3. QED
      BY <2>1, <3>1, <3>2 DEF Never
  <2>4. Once(b)'
    BY <1>1, <2>1 DEF Callee, Once, Speaks
  <2>5. net'[b] = "open" => net[b] = "open" /\ \A c : HasRead(b, c)' <=> HasRead(b, c)
    BY <1>5, HandlerReads
  <2>6. userNum'[b] = userNum[b] \/ roomName[b] = Nil
    BY <1>5 DEF ServerTakes, RecvConnect, Subscribe, SubscribeNew, SubscribeFound, MaySubscribe,
                RecvForward, handler
  <2>7. roomName[b] = Nil => ~HasRead(b, "roomclients")
    BY <1>1 DEF PageOf, Greeted, HasRead
  <2>8. QED
    BY <1>1, <2>1, <2>2, <2>3, <2>4, <2>5, <2>6, <2>7 DEF Callee
<1>6. CASE PageReads(b) \/ PageMay(b) \/ PageMust(b)
  <2>1. AsClient(b) /\ PageDoes(b)
    BY <1>1, <1>6, PageDoesSo DEF PageOf
  <2>2. \A c : HasRead(b, c)' <=> HasRead(b, c) \/ Reads(b, c)
    BY <1>1, <2>1, PageReadsMore
  <2>3. /\ forwarded' = forwarded /\ wire' = wire /\ userNum' = userNum
        /\ net'[b] = "open" => net[b] = "open" /\ websocket'[b] = websocket[b]
        /\ websocket[b] \in {"open", "null"}
    BY <2>1 DEF AsClient, handler
  <2>4. outbox'[b] = outbox[b] => /\ Never(b, "offer")' /\ Once(b)'
                                  /\ Spoke(b)' <=> Spoke(b)
    BY <1>1, <2>3 DEF Callee, Never, Once, Spoke, Speaks
  <2>5. ~HasRead(b, "forward")' => ~HasRead(b, "forward")
    BY <2>2
  <2>6. \A c \in {"connect", "subscribe"} : Says(b, c) =>
           /\ Never(b, "offer")' /\ Once(b)'
           /\ Spoke(b)' <=> Spoke(b)
    <3>1. SUFFICES ASSUME NEW c \in {"connect", "subscribe"}, Says(b, c)
                   PROVE  /\ Never(b, "offer")' /\ Once(b)'
                          /\ Spoke(b)' <=> Spoke(b)
      OBVIOUS
    <3>2. outbox[b] \in Seq(Commands) /\ c \in Commands /\ c \notin Kinds
      BY <1>2 DEF Commands, Kinds
    <3>3. /\ \A d : Has(outbox'[b], d) <=> Has(outbox[b], d) \/ d = c
          /\ OnlyOnce(outbox[b], Kinds) => OnlyOnce(outbox'[b], Kinds)
      BY <3>1, <3>2, SaysHas
    <3>4. QED
      BY <1>1, <2>3, <3>2, <3>3 DEF Callee, Never, Once, Spoke, Speaks, Kinds
  <2>7. CASE Rests(b)
    <3>1. ~Reads(b, "roomclients")
      BY <1>2, <2>7 DEF Rests, Reads
    <3>2. outbox'[b] = outbox[b]
      BY <2>7 DEF Rests, SameMail
    <3>3. QED
      BY <1>1, <2>2, <2>3, <2>4, <2>5, <2>7, <3>1, <3>2 DEF Rests, SameRole, SameLink, Callee
  <2>8. CASE Applies(b)
    <3>1. outbox'[b] = outbox[b] \/ \E c \in {"connect", "subscribe"} : Says(b, c)
      BY <2>8 DEF Applies, SameMail
    <3>2. ~Reads(b, "roomclients")
      BY <1>2, <2>8 DEF Applies, Reads
    <3>3. Never(b, "offer")' /\ Once(b)' /\ (Spoke(b)' <=> Spoke(b))
      BY <2>4, <2>6, <3>1
    <3>4. IAmUser'[b] = IAmUser[b] /\ SameLink(b)
      BY <2>8 DEF Applies
    <3>5. QED
      BY <1>1, <2>2, <2>3, <2>5, <3>2, <3>3, <3>4 DEF SameLink, Callee
  <2>9. CASE Counts(b)
    <3>1. outbox'[b] = outbox[b] /\ SameLink(b) /\ IAmUser'[b] = (IF Others(b) > 0 THEN 2 ELSE IAmUser[b])
      BY <2>9 DEF Counts, SameMail
    <3>2. IAmUser'[b] # 1 /\ (userNum[b] = 2 => IAmUser'[b] = 2)
      BY <1>1, <3>1 DEF Callee, Others
    <3>3. QED
      BY <1>1, <2>3, <2>4, <2>5, <3>1, <3>2 DEF SameLink, Callee
  <2>10. CASE Hears(b)
    <3>1. read'[b] \in DOMAIN wire[b] /\ wire[b][read'[b]].cmd = "online"
      BY <1>1, <2>3, <2>10, NextRead DEF Hears, Reads
    <3>2. QED
      BY <1>1, <3>1 DEF PairOf
  <2>11. CASE Takes(b)
    <3>1. /\ outbox'[b] = outbox[b] /\ Reads(b, "forward") /\ net[b] = "open"
          /\ IAmUser'[b] = IAmUser[b]
      BY <2>11 DEF Takes, SameMail, SameRole, Reads
    <3>2. ~HasRead(b, "forward")
      <4>1. SUFFICES ASSUME NEW j \in DOMAIN wire[b], j <= read[b], wire[b][j].cmd = "forward" PROVE FALSE
        BY DEF HasRead
      <4>2. /\ read'[b] \in DOMAIN wire[b] /\ wire[b][read'[b]].cmd = "forward"
            /\ read'[b] = read[b] + 1 /\ read[b] \in Nat
        BY <1>1, <1>2, <2>3, <3>1, NextRead DEF Reads
      <4>3. read'[b] = j
        BY <1>1, <4>1, <4>2 DEF Between, Forwards
      <4>4. QED
        BY <4>1, <4>2, <4>3
    <3>3. ~Spoke(b)
      BY <1>1, <3>1, <3>2 DEF Callee
    <3>4. HasRead(b, "forward")' /\ ~Reads(b, "roomclients")
      BY <1>2, <2>2, <3>1 DEF Reads
    <3>5. offer'[b] = offer[b]
      BY <1>1, <2>11 DEF Takes, Callee
    <3>6. QED
      BY <1>1, <2>2, <2>3, <2>4, <3>1, <3>3, <3>4, <3>5 DEF Callee
  <2>12. CASE Calls(b)
    <3>1. /\ Answers(b) /\ answer[b] \in {"hearing", "creating", "describing"}
          /\ IAmUser'[b] = IAmUser[b] /\ offer'[b] = offer[b]
      BY <1>1, <2>12 DEF Calls, Offers, Answers, SameRole, Callee
    <3>2. ~Reads(b, "roomclients")
      BY <1>2, <2>12 DEF Calls, Reads
    <3>3. ~Spoke(b) /\ ~(net[b] = "open" /\ ~HasRead(b, "forward"))
      BY <1>1, <3>1 DEF Callee
    <3>4. CASE outbox'[b] = outbox[b]
      BY <1>1, <2>2, <2>3, <2>4, <2>5, <3>1, <3>2, <3>3, <3>4 DEF Callee
    <3>5. CASE outbox'[b] # outbox[b]
      <4>1. answer'[b] = "sent" /\ Says(b, "answer")
        BY <3>1, <3>5 DEF Answers
      <4>2. OnlyOnce(outbox[b], Kinds)
        BY <1>1 DEF Callee, Once
      <4>3. outbox[b] \in Seq(Commands) /\ "answer" \in Commands
        BY <1>2 DEF Commands
      <4>4. /\ \A d : Has(outbox'[b], d) <=> Has(outbox[b], d) \/ d = "answer"
            /\ OnlyOnce(outbox'[b], Kinds)
        BY <3>3, <4>1, <4>2, <4>3, SaysHas DEF Spoke
      <4>5. Never(b, "offer")' /\ Once(b)'
        BY <1>1, <2>3, <3>3, <4>4 DEF Never, Once, Spoke, Callee
      <4>6. QED
        BY <1>1, <2>2, <2>3, <2>5, <3>1, <3>2, <3>3, <4>1, <4>5 DEF Callee
    <3>6. QED
      BY <3>4, <3>5
  <2>13. CASE Leaves(b)
    <3>1. /\ outbox'[b] = outbox[b] /\ net'[b] # "open" /\ IAmUser'[b] = 0
          /\ offer'[b] = "no" /\ answer'[b] = "no"
      BY <2>3, <2>13 DEF Leaves, SameMail
    <3>2. QED
      BY <1>1, <2>4, <3>1 DEF Callee
  <2>14. QED
    BY <2>1, <2>7, <2>8, <2>9, <2>10, <2>11, <2>12, <2>13 DEF PageDoes
<1>7. QED
  BY <1>3, <1>4, <1>5, <1>6 DEF ChatStep

\* The joiner says nothing before it has the offer.
LEMMA JoinerAnswers ==
    ASSUME ChatInv, NEW a \in Sessions, NEW b \in Sessions, Roles(a, b),
           NEW u \in Sessions, ChatStep(u)
    PROVE  /\ Spoke(b)' => Spoke(b) \/ answer[b] # "no"
           /\ answer'[b] # "no" => answer[b] # "no" \/ Forwards(b) # {}
<1>1. /\ outbox[b] \in Seq(Commands) /\ PageOf(b) /\ IsoInv /\ ChatType /\ offer[b] = "no"
      /\ ~(\E i \in DOMAIN wire[b] : wire[b][i].cmd = "online")
      /\ {"connect", "subscribe", "answer"} \subseteq Commands
  BY DEF ChatInv, PagesInv, ChatType, Page!PageTypeOK, Commands, Roles, Callee, PairOf
<1>2. CASE u # b
  BY <1>2, OthersPages DEF ChatInv, PageSame, Spoke, Speaks
<1>3. CASE PageOpens(b) \/ ServerContinues(b) \/ Breaks(b)
  BY <1>3 DEF PageOpens, ServerContinues, Breaks, Page!OnOpen, Page!link, pageVars, link, Spoke, Speaks
<1>4. CASE ServerTakes(b)
  BY <1>1, <1>4, TakesFrom DEF Spoke, Speaks
<1>5. CASE PageReads(b) \/ PageMay(b) \/ PageMust(b)
  <2>1. AsClient(b) /\ PageDoes(b)
    BY <1>1, <1>5, PageDoesSo DEF PageOf
  <2>2. wire' = wire /\ forwarded' = forwarded
    BY <2>1 DEF AsClient
  <2>3. \A cmd : Reads(b, cmd) => read'[b] \in DOMAIN wire[b] /\ wire[b][read'[b]].cmd = cmd
    BY <1>1, <2>2, NextRead DEF Reads
  <2>4. ~Reads(b, "online") /\ (Reads(b, "forward") => Forwards(b) # {})
    BY <1>1, <2>3 DEF Forwards
  <2>5. \/ outbox'[b] = outbox[b]
        \/ \E c \in {"connect", "subscribe"} : Says(b, c)
        \/ answer[b] # "no"
    BY <1>1, <2>1 DEF PageDoes, Rests, Applies, Counts, Hears, Takes, Calls, Offers, Answers, Leaves, SameMail
  <2>6. Spoke(b)' => Spoke(b) \/ answer[b] # "no"
    <3>1. CASE outbox'[b] = outbox[b] \/ answer[b] # "no"
      BY <2>2, <3>1 DEF Spoke, Speaks
    <3>2. CASE \E c \in {"connect", "subscribe"} : Says(b, c)
      <4>1. PICK c \in {"connect", "subscribe"} : Says(b, c)
        BY <3>2
      <4>2. \A d : Has(outbox'[b], d) <=> Has(outbox[b], d) \/ d = c
        BY <1>1, <4>1, SaysHas
      <4>3. QED
        BY <2>2, <4>1, <4>2 DEF Spoke, Speaks
    <3>3. QED
      BY <2>5, <3>1, <3>2
  <2>7. answer'[b] # "no" => answer[b] # "no" \/ Reads(b, "forward")
    BY <2>1, <2>4 DEF PageDoes, Rests, Applies, Counts, Hears, Takes, Calls, Offers, Answers, Leaves, SameLink
  <2>8. QED
    BY <2>4, <2>6, <2>7
<1>6. QED
  BY <1>2, <1>3, <1>4, <1>5 DEF ChatStep

\* A handler begins to forward only what is the first description of its page.
LEMMA FirstForward ==
    ASSUME ChatInv, NEW x \in Sessions, Once(x), NEW u \in Sessions, ChatStep(u)
    PROVE  /\ forwarded[x] # <<>> => forwarded'[x] # <<>>
           /\ pc'[x] = "forward" /\ pc[x] # "forward" => forwarded[x] = <<>>
<1>1. /\ PageOf(x) /\ IsoInv /\ ChatType /\ forwarded[x] \in Seq(Kinds)
      /\ pc \in [Sessions -> Labels] /\ outbox[x] \in Seq(Commands)
  BY DEF ChatInv, PagesInv, ChatType, IsoInv, TypeOK, Page!PageTypeOK, Commands
<1>2. CASE u # x
  BY <1>2, OthersStep DEF ChatInv, PageSame
<1>3. CASE PageOpens(x)
  BY <1>1, <1>3 DEF PageOpens, Open, OpenFails, Goto
<1>4. CASE ServerTakes(x)
  <2>1. \/ forwarded' = forwarded /\ ~RecvForward(x)
        \/ /\ Speaks(x) /\ Head(outbox[x]) \in Kinds
           /\ forwarded'[x] = Append(forwarded[x], Head(outbox[x]))
    BY <1>1, <1>4, TakesFrom
  <2>2. ~RecvForward(x) => pc'[x] \in {pc[x], "create", "store"}
    BY <1>1, <1>4 DEF ServerTakes, RecvConnect, Subscribe, SubscribeNew, SubscribeFound, Goto
  <2>3. CASE forwarded' = forwarded /\ ~RecvForward(x)
    BY <2>2, <2>3
  <2>4. CASE /\ Speaks(x) /\ Head(outbox[x]) \in Kinds
             /\ forwarded'[x] = Append(forwarded[x], Head(outbox[x]))
    <3>1. Append(forwarded[x], Head(outbox[x])) # <<>>
      BY <1>1, <2>4
    <3>2. QED
      BY <2>4, <3>1 DEF Once
  <2>5. QED
    BY <2>1, <2>3, <2>4
<1>5. CASE ServerContinues(x)
  BY <1>1, <1>5 DEF ServerContinues, Continue, TellCreator, StoreRoom, TellJoiner, TellOther, Forward,
     ForwardToNil, RecvEOF, RecvError, LeaveRead, LeaveNoRoom, LeaveWrite, EndSession, Goto
<1>6. CASE Breaks(x)
  BY <1>6 DEF Breaks, NetBreaks, MapAbort
<1>7. CASE PageReads(x) \/ PageMay(x) \/ PageMust(x)
  BY <1>1, <1>7, PageDoesSo DEF PageOf, AsClient
<1>8. QED
  BY <1>2, <1>3, <1>4, <1>5, <1>6, <1>7 DEF ChatStep

\* The descriptions on the wires of the two.
LEMMA PairForwards ==
    ASSUME ChatInv, NEW a \in Sessions, NEW b \in Sessions, a # b, roomName[a] # Nil,
           \A t \in Sessions : roomName[t] = roomName[a] => t \in {a, b},
           roomName[b] \in {Nil, roomName[a]}, PairOf(a, b),
           NEW u \in Sessions, ChatStep(u), NEW t \in {a, b}
    PROVE  /\ \A i \in Forwards(t)' : i \in Forwards(t) \/ i = Len(wire'[t])
           /\ \/ Forwards(t)' \subseteq Forwards(t)
              \/ Forward(u) /\ u \in {a, b} \ {t} /\ pc[u] = "forward" /\ pc'[u] = "receive"
<1>1. IsoInv /\ NetInv /\ RoomsInv /\ pc \in [Sessions -> Labels] /\ wire \in [Sessions -> Seq(Messages)]
  BY DEF ChatInv, IsoInv, TypeOK
<1>2. CASE UNCHANGED vars
  BY <1>2 DEF vars, Forwards
<1>3. CASE t = u /\ (LeaveNoRoom(u) \/ LeaveWrite(u))
  <2>1. wire'[t] = <<>>
    BY <1>1, <1>3 DEF LeaveNoRoom, LeaveWrite, EndSession
  <2>2. QED
    BY <2>1 DEF Forwards
<1>4. ASSUME Serve(u) \/ Continue(u) \/ Outside(u), ~(t = u /\ (LeaveNoRoom(u) \/ LeaveWrite(u)))
      PROVE  /\ \A i \in Forwards(t)' : i \in Forwards(t) \/ i = Len(wire'[t])
             /\ \/ Forwards(t)' \subseteq Forwards(t)
                \/ Forward(u) /\ u \in {a, b} \ {t} /\ pc[u] = "forward" /\ pc'[u] = "receive"
  <2>1. Grown(u, t)
    BY <1>1, <1>4, WireGrows
  <2>2. \A i \in Forwards(t)' : i \in Forwards(t) \/ News(u, t, i)
    BY <2>1 DEF Grown, Extends, Forwards
  <2>3. ASSUME NEW i \in Forwards(t)', News(u, t, i)
        PROVE  /\ i = Len(wire'[t])
               /\ Forward(u) /\ u \in {a, b} \ {t} /\ pc[u] = "forward" /\ pc'[u] = "receive"
    <3>1. wire'[t][i].cmd = "forward"
      BY DEF Forwards
    <3>2. Forward(u) /\ u \in {a, b} \ {t} /\ LastOn(t, i, "forward")
      BY <1>1, <2>3, <3>1, PairNews
    <3>3. QED
      BY <1>1, <3>2 DEF Forward, At, Goto, LastOn
  <2>4. QED
    BY <2>2, <2>3
<1>5. QED
  BY <1>2, <1>3, <1>4, ServerStep

\* Offer and answer keep their order and come once.
LEMMA BetweenStep ==
    ASSUME ChatInv, NEW a \in Sessions, NEW b \in Sessions, a # b, roomName[a] # Nil,
           \A t \in Sessions : roomName[t] = roomName[a] => t \in {a, b},
           roomName[b] \in {Nil, roomName[a]}, Roles(a, b),
           NEW u \in Sessions, ChatStep(u)
    PROVE  Between(a, b)'
<1>1. PageOf(a) /\ PageOf(b) /\ PairOf(a, b) /\ Between(a, b) /\ Once(a) /\ Once(b)
  BY DEF ChatInv, PagesInv, Roles, Caller, Callee
<1>2. /\ \A i \in Forwards(a)' : i \in Forwards(a) \/ i = Len(wire'[a])
      /\ \/ Forwards(a)' \subseteq Forwards(a)
         \/ u = b /\ pc[b] = "forward" /\ pc'[b] = "receive"
  BY <1>1, PairForwards
<1>3. /\ \A i \in Forwards(b)' : i \in Forwards(b) \/ i = Len(wire'[b])
      /\ \/ Forwards(b)' \subseteq Forwards(b)
         \/ u = a /\ pc[a] = "forward" /\ pc'[a] = "receive"
  BY <1>1, PairForwards
<1>4. /\ forwarded[a] # <<>> => forwarded'[a] # <<>>
      /\ pc'[a] = "forward" /\ pc[a] # "forward" => forwarded[a] = <<>>
      /\ forwarded[b] # <<>> => forwarded'[b] # <<>>
      /\ pc'[b] = "forward" /\ pc[b] # "forward" => forwarded[b] = <<>>
  BY <1>1, FirstForward
<1>5. /\ Spoke(b)' => Spoke(b) \/ answer[b] # "no"
      /\ answer'[b] # "no" => answer[b] # "no" \/ Forwards(b) # {}
  BY JoinerAnswers
<1>6. Spoke(b)' \/ answer'[b] # "no" \/ Forwards(b)' # {} => forwarded'[a] # <<>>
  BY <1>1, <1>3, <1>4, <1>5 DEF Between, PageOf
<1>7. Forwards(b)' # {} => pc'[a] # "forward"
  BY <1>1, <1>3, <1>4 DEF Between
<1>8. Forwards(a)' # {} => forwarded'[b] # <<>> /\ pc'[b] # "forward"
  BY <1>1, <1>2, <1>4 DEF Between, PageOf
<1>9. \A i, j \in Forwards(a)' : i = j
  <2>1. Forwards(a)' \subseteq Forwards(a) \/ Forwards(a) = {}
    BY <1>1, <1>2 DEF Between
  <2>2. QED
    BY <1>1, <1>2, <2>1 DEF Between
<1>10. \A i, j \in Forwards(b)' : i = j
  <2>1. Forwards(b)' \subseteq Forwards(b) \/ Forwards(b) = {}
    BY <1>1, <1>3 DEF Between
  <2>2. QED
    BY <1>1, <1>3, <2>1 DEF Between
<1>11. QED
  BY <1>6, <1>7, <1>8, <1>9, <1>10 DEF Between

\* A pair's roles stay as they are while nobody else comes.
LEMMA RolesStep ==
    ASSUME ChatInv, RoomsInv', NEW a \in Sessions, NEW b \in Sessions, a # b, roomName[a] # Nil,
           NEW u \in Sessions, ChatStep(u),
           \A t \in Sessions : roomName'[t] = roomName[a] => t \in {a, b},
           roomName'[b] \in {Nil, roomName[a]}, Roles(a, b)
    PROVE  Roles(a, b)'
<1>1. IsoInv /\ NetInv /\ RoomsInv /\ PairOf(a, b) /\ Caller(a) /\ Callee(b)
  BY DEF ChatInv, Roles
<1>2. \A t \in Sessions : roomName[t] # Nil => roomName'[t] = roomName[t]
  <2>1. CASE UNCHANGED vars
    BY <2>1 DEF vars, handler
  <2>2. CASE Serve(u) \/ Continue(u) \/ Outside(u)
    BY <1>1, <2>2, StaysIn
  <2>3. QED
    BY <2>1, <2>2, ServerStep
<1>3. /\ \A t \in Sessions : roomName[t] = roomName[a] => t \in {a, b}
      /\ roomName[b] \in {Nil, roomName[a]}
  BY <1>2
<1>4. PairOf(a, b)'
  <2>1. CASE UNCHANGED vars
    BY <1>1, <2>1 DEF vars, handler, PairOf, Meets, IntroducedOn
  <2>2. CASE Serve(u) \/ Continue(u) \/ Outside(u)
    BY <1>1, <2>2, PairStep
  <2>3. QED
    BY <2>1, <2>2, ServerStep
<1>5. Caller(a)'
  <2>1. CASE u = a
    BY <2>1, CallerStep
  <2>2. CASE u # a
    BY <1>1, <2>2, OthersCaller
  <2>3. QED
    BY <2>1, <2>2
<1>6. Callee(b)'
  <2>1. CASE u = b
    BY <2>1, CalleeStep
  <2>2. CASE u # b
    BY <1>1, <2>2, OthersCallee
  <2>3. QED
    BY <2>1, <2>2
<1>7. Between(a, b)'
  BY <1>3, BetweenStep
<1>8. QED
  BY <1>4, <1>5, <1>6, <1>7 DEF Roles

\* Who takes a room that nobody is in will be the caller there.
LEMMA Founding ==
    ASSUME ChatInv, NEW a \in Sessions, NEW b \in Sessions, a # b,
           roomName[a] = Nil, roomName[b] = Nil, ChatStep(a), roomName'[a] # Nil,
           \A t \in Sessions \ {a} : roomName[t] # roomName'[a]
    PROVE  Roles(a, b)'
<1>1. /\ IsoInv /\ NetInv /\ ChatType /\ PageOf(a) /\ PageOf(b) /\ NumberOf(b)
      /\ roomName \in [Sessions -> Rooms \cup {Nil}] /\ userNum \in [Sessions -> 0..2]
      /\ roomInfoMap \in [Rooms -> Entries] /\ otherCws \in [Sessions -> Sessions \cup {Nil}]
      /\ outbox[a] \in Seq(Commands)
  BY DEF ChatInv, PagesInv, RoomsInv, IsoInv, TypeOK, ChatType, Page!PageTypeOK, Commands
<1>2. ServerTakes(a) /\ Subscribe(a)
  <2>1. CASE ServerTakes(a)
    BY <2>1 DEF ServerTakes, RecvConnect, RecvForward, handler
  <2>2. CASE ~ServerTakes(a)
    <3>1. roomName' = roomName
      <4>1. CASE PageOpens(a)
        BY <4>1 DEF PageOpens, Open, OpenFails, handler
      <4>2. CASE ServerContinues(a)
        BY <4>2 DEF ServerContinues, Continue, TellCreator, StoreRoom, TellJoiner, TellOther, Forward,
           ForwardToNil, RecvEOF, RecvError, LeaveRead, LeaveNoRoom, LeaveWrite, handler
      <4>3. CASE Breaks(a)
        BY <4>3 DEF Breaks, NetBreaks, MapAbort, handler
      <4>4. CASE PageReads(a) \/ PageMay(a) \/ PageMust(a)
        BY <4>4 DEF PageReads, PageMay, PageMust, ConnectionFollows, handler
      <4>5. QED
        BY <2>2, <4>1, <4>2, <4>3, <4>4 DEF ChatStep
    <3>2. QED
      BY <3>1
  <2>3. QED
    BY <2>1, <2>2
<1>3. PICK x \in Rooms, lt \in Asks : SubscribeNew(a, x, lt) \/ SubscribeFound(a, x, lt)
  BY <1>2 DEF Subscribe
<1>4. roomName' = [roomName EXCEPT ![a] = x] /\ wire' = wire /\ x # Nil
  BY <1>3, NilAssumption DEF SubscribeNew, SubscribeFound
<1>5. roomName'[a] = x /\ \A t \in Sessions : roomName[t] # x
  BY <1>1, <1>4
<1>6. roomInfoMap[x].users = 0
  <2>1. roomInfoMap[x].cws = Nil
    <3>1. roomInfoMap[x].cws \in Sessions \cup {Nil}
      BY <1>1 DEF Entries
    <3>2. roomInfoMap[x].cws # Nil => roomName[roomInfoMap[x].cws] = x
      BY <1>1 DEF IsoInv, EntriesWithin, EntryWithin, Within
    <3>3. QED
      BY <1>5, <3>1, <3>2
  <2>2. roomInfoMap[x].users \in 0..2
    BY <1>1 DEF Entries
  <2>3. QED
    BY <2>1, <2>2 DEF ChatInv, RoomsInv, EntryKnown
<1>7. SubscribeNew(a, x, lt)
  BY <1>3, <1>6 DEF SubscribeFound
<1>8. userNum'[a] = 1 /\ userNum'[b] = 0 /\ otherCws'[a] = Nil
  BY <1>1, <1>7, Unknown DEF SubscribeNew, NumberOf
<1>9. ~IntroducedOn(wire, a) /\ ~IntroducedOn(wire, b)
  BY <1>1, Unknown
<1>10. PairOf(a, b)'
  BY <1>4, <1>8, <1>9, NilAssumption DEF PairOf, Meets, IntroducedOn
<1>11. /\ \A d : Has(outbox'[a], d) => Has(outbox[a], d)
       /\ IAmUser' = IAmUser /\ offer' = offer /\ answer' = answer /\ read' = read
       /\ forwarded' = forwarded
  <2>1. ~RecvForward(a)
    BY <1>1, <1>7 DEF SubscribeNew, RecvForward, MaySubscribe, Introduced, IntroducedOn, Goto, IsoInv, TypeOK
  <2>2. QED
    BY <1>1, <1>2, <2>1, TakesFrom
<1>12. PageSame(b)
  BY <1>1, OthersPages
<1>13. /\ ~Greeted(a) /\ IAmUser[a] = 0 /\ offer[a] = "no" /\ answer[a] = "no" /\ ~Spoke(a)
       /\ ~Greeted(b) /\ IAmUser[b] = 0 /\ offer[b] = "no" /\ answer[b] = "no" /\ ~Spoke(b)
  BY <1>1 DEF PageOf
<1>14. Caller(a)'
  <2>1. ~Has(outbox'[a], "offer") /\ ~Has(outbox'[a], "answer") /\ forwarded'[a] = <<>>
    BY <1>11, <1>13 DEF Spoke, Speaks
  <2>2. Never(a, "answer")' /\ Once(a)' /\ ~Spoke(a)'
    BY <2>1 DEF Never, Once, OnlyOnce, Speaks, Spoke, Has, Kinds
  <2>3. ~HasRead(a, "roomclients")'
    BY <1>4, <1>13 DEF HasRead, Greeted
  <2>4. QED
    BY <1>11, <1>13, <2>2, <2>3 DEF Caller
<1>15. Callee(b)'
  BY <1>8, <1>12, <1>13 DEF Callee, PageSame, Never, Once, OnlyOnce, Speaks, Spoke, Has, Kinds
<1>16. Between(a, b)'
  BY <1>4, <1>9, <1>12, <1>13 DEF Between, PageSame, Spoke, Speaks, Forwards, IntroducedOn
<1>17. QED
  BY <1>10, <1>14, <1>15, <1>16 DEF Roles

\* Any two who have a room to themselves have one role each.
LEMMA RolesInvStep ==
    ASSUME ChatInv, RoomsInv', RolesInv, [ChatNext]_chatVars
    PROVE  RolesInv'
<1>1. CASE UNCHANGED chatVars
  <2>1. UNCHANGED vars /\ UNCHANGED pageVars /\ read' = read /\ forwarded' = forwarded
    BY <1>1 DEF chatVars
  <2>2. ASSUME NEW a, NEW b PROVE Roles(a, b)' <=> Roles(a, b)
    <3>1. PairOf(a, b)' <=> PairOf(a, b)
      BY <2>1 DEF vars, handler, PairOf, Meets, IntroducedOn
    <3>2. Caller(a)' <=> Caller(a)
      BY <2>1 DEF vars, handler, pageVars, role, link, Caller, Never, Once, Spoke, Speaks, HasRead, Page!Live
    <3>3. Callee(b)' <=> Callee(b)
      BY <2>1 DEF vars, handler, pageVars, role, link, Callee, Never, Once, Spoke, Speaks, HasRead
    <3>4. Between(a, b)' <=> Between(a, b)
      BY <2>1 DEF vars, pageVars, link, Between, Spoke, Speaks, Forwards
    <3>5. QED
      BY <3>1, <3>2, <3>3, <3>4 DEF Roles
  <2>3. roomName' = roomName
    BY <2>1 DEF vars, handler
  <2>4. QED
    BY <2>2, <2>3 DEF RolesInv, Only
<1>2. ASSUME NEW u \in Sessions, ChatStep(u), NEW a \in Sessions, NEW b \in Sessions, a # b,
             Only(a, b)'
      PROVE  /\ roomName'[b] = Nil => Roles(a, b)'
             /\ roomName'[b] = roomName'[a] => Roles(a, b)' \/ Roles(b, a)'
  <2>1. /\ \A t \in Sessions : roomName[t] # Nil => roomName'[t] = roomName[t]
        /\ \A t \in Sessions \ {u} : roomName'[t] = roomName[t]
    <3>1. CASE UNCHANGED vars
      BY <3>1 DEF vars, handler
    <3>2. CASE Serve(u) \/ Continue(u) \/ Outside(u)
      BY <3>2, StaysIn, OnlyItsOwn DEF ChatInv
    <3>3. QED
      BY <1>2, <3>1, <3>2, ServerStep
  <2>2. roomName'[a] # Nil /\ \A t \in Sessions : roomName'[t] = roomName'[a] => t \in {a, b}
    BY <1>2 DEF Only
  <2>3. CASE roomName[a] # Nil
    <3>1. Only(a, b) /\ roomName'[a] = roomName[a]
      BY <2>1, <2>2, <2>3 DEF Only
    <3>2. Roles(a, b) /\ roomName'[b] \in {Nil, roomName[a]} => Roles(a, b)'
      BY <1>2, <2>2, <2>3, <3>1, RolesStep
    <3>3. Roles(b, a) /\ roomName[b] = roomName[a] => Roles(b, a)'
      <4>1. SUFFICES ASSUME Roles(b, a), roomName[b] = roomName[a] PROVE Roles(b, a)'
        OBVIOUS
      <4>2. /\ b # a /\ roomName[b] # Nil /\ roomName'[a] \in {Nil, roomName[b]}
            /\ \A t \in Sessions : roomName'[t] = roomName[b] => t \in {b, a}
        BY <1>2, <2>2, <2>3, <3>1, <4>1
      <4>3. QED
        BY <1>2, <4>1, <4>2, RolesStep
    <3>4. CASE roomName'[b] = Nil
      <4>1. roomName[b] = Nil
        BY <2>1, <3>4
      <4>2. QED
        BY <1>2, <2>2, <3>1, <3>2, <3>4, <4>1 DEF RolesInv
    <3>5. CASE roomName'[b] = roomName'[a]
      <4>1. roomName[b] \in {Nil, roomName[a]}
        BY <2>1, <3>1, <3>5
      <4>2. QED
        BY <1>2, <2>2, <3>1, <3>2, <3>3, <3>5, <4>1 DEF RolesInv
    <3>6. QED
      BY <3>4, <3>5
  <2>4. CASE roomName[a] = Nil
    <3>1. u = a
      BY <2>1, <2>2, <2>4
    <3>2. roomName'[b] = roomName[b]
      BY <1>2, <2>1, <3>1
    <3>3. CASE roomName'[b] = Nil
      <4>1. \A t \in Sessions \ {a} : roomName[t] # roomName'[a]
        BY <2>1, <2>2, <3>1, <3>3
      <4>2. Roles(a, b)'
        BY <1>2, <2>2, <2>4, <3>1, <3>2, <3>3, <4>1, Founding
      <4>3. QED
        BY <2>2, <3>3, <4>2
    <3>4. CASE roomName'[b] = roomName'[a]
      <4>1. /\ b # a /\ roomName[b] # Nil /\ roomName'[a] \in {Nil, roomName[b]}
            /\ \A t \in Sessions : roomName'[t] = roomName[b] => t \in {b, a}
        BY <1>2, <2>2, <3>2, <3>4
      <4>2. Only(b, a)
        BY <2>1, <4>1 DEF Only
      <4>3. Roles(b, a)
        BY <1>2, <2>4, <4>2 DEF RolesInv
      <4>4. Roles(b, a)'
        BY <1>2, <4>1, <4>3, RolesStep
      <4>5. QED
        BY <2>2, <3>4, <4>4
    <3>5. QED
      BY <3>3, <3>4
  <2>5. QED
    BY <2>3, <2>4
<1>3. CASE ChatNext
  <2>1. PICK u \in Sessions : ChatStep(u)
    BY <1>3 DEF ChatNext, ChatStep
  <2>2. QED
    BY <1>2, <2>1 DEF RolesInv
<1>4. QED
  BY <1>1, <1>3

\* The inductive invariant of the composition.
LEMMA ChatAlways == ChatSpec => [](ChatInv /\ CompanyInv /\ RolesInv)
<1>1. ChatInit => ChatInv /\ CompanyInv /\ RolesInv
  <2>1. ChatInit => Init /\ RolesInv
    BY DEF ChatInit, Init, RolesInv, Only
  <2>2. QED
    BY <2>1, IsoInit, NetInit, RoomsInit, ChatTypeInit, PagesInit, CompanyInit DEF ChatInv
<1>2. ChatInv /\ CompanyInv /\ RolesInv /\ [ChatNext]_chatVars => ChatInv' /\ CompanyInv' /\ RolesInv'
  <2>1. SUFFICES ASSUME ChatInv, CompanyInv, RolesInv, [ChatNext]_chatVars
                 PROVE  ChatInv' /\ CompanyInv' /\ RolesInv'
    OBVIOUS
  <2>2. IsoInv /\ NetInv /\ RoomsInv /\ ChatType /\ PagesInv /\ [Next]_vars
    BY <2>1, ChatNextIsNext DEF ChatInv
  <2>3. IsoInv' /\ NetInv'
    BY <2>2, IsoStep, NetStep
  <2>4. RoomsInv'
    BY <2>2, <2>3, RoomsStep
  <2>5. ChatType' /\ PagesInv'
    BY <2>1, <2>2, ChatTypeStep, PagesStep
  <2>6. CompanyInv'
    BY <2>1, <2>2, CompanyStep
  <2>7. RolesInv'
    BY <2>1, <2>4, RolesInvStep
  <2>8. QED
    BY <2>3, <2>4, <2>5, <2>6, <2>7 DEF ChatInv
<1>3. QED
  BY <1>1, <1>2, PTL DEF ChatSpec

-----------------------------------------------------------------------------
(* What follows.                                                           *)

\* The two of a room for two, seen from the one that was told of the other.
LEMMA CompanyOfTwo ==
    ASSUME ChatInv, CompanyInv, RolesInv, NEW s \in Sessions, IntroducedOn(wire, s),
           ForTwo(roomName[s])
    PROVE  \E t \in Sessions : roomName[t] = roomName[s] /\ (Roles(s, t) \/ Roles(t, s))
<1>1. PICK t \in Sessions \ {s} : roomName[t] = roomName[s]
  BY DEF CompanyInv
<1>2. roomName[s] # Nil
  BY Unknown DEF ChatInv
<1>3. Only(s, t)
  BY <1>1, <1>2 DEF ForTwo, Visitors, Only
<1>4. QED
  BY <1>1, <1>3 DEF RolesInv

\* The types of the composed system.
THEOREM ChatTypes == ChatSpec => []ChatTypeOK
<1>1. ChatInv => ChatTypeOK
  BY DEF ChatInv, IsoInv, ChatType, ChatTypeOK, Kinds
<1>2. QED
  BY <1>1, ChatAlways, PTL

\* What RoomServer assumes of its clients: the handler is sent only what it
\* waits for, and in a room for two one description per page.
THEOREM CommandsAlwaysFit == ChatSpec => []CommandsFit
<1>1. ASSUME ChatInv, CompanyInv, RolesInv, NEW s \in Sessions, Receiving(s), outbox[s] # <<>>
      PROVE  /\ Head(outbox[s]) = "connect" => myClientId[s] = Nil
             /\ Head(outbox[s]) = "subscribe" => MaySubscribe(s)
             /\ Head(outbox[s]) \in {"offer", "answer"} =>
                   Introduced(s) /\ (ForTwo(roomName[s]) => forwards[s] = 0)
  <2>1. /\ PageOf(s) /\ CommandsOf(s) /\ MailOf(s) /\ pc[s] = "receive"
        /\ outbox[s] \in Seq(Commands)
    BY <1>1 DEF ChatInv, PagesInv, RoomsInv, Receiving, ChatType, Page!PageTypeOK, Commands
  <2>2. Has(outbox[s], Head(outbox[s]))
    BY <1>1, <2>1, TailHas
  <2>3. Head(outbox[s]) = "connect" => myClientId[s] = Nil
    BY <2>1, <2>2 DEF CommandsOf
  <2>4. ASSUME Head(outbox[s]) = "subscribe" PROVE MaySubscribe(s)
    <3>1. roomName[s] = Nil /\ subscribed[s] # "no"
      BY <2>1, <2>2, <2>4 DEF CommandsOf
    <3>2. s \notin Hasty => myClientId[s] = s
      BY <2>1, <3>1 DEF CommandsOf, MailOf, HasRead
    <3>3. QED
      BY <1>1, <3>1, <3>2, NilAssumption DEF MaySubscribe
  <2>5. ASSUME Head(outbox[s]) \in {"offer", "answer"}
        PROVE  Introduced(s) /\ (ForTwo(roomName[s]) => forwards[s] = 0)
    <3>1. Speaks(s)
      BY <2>2, <2>5 DEF Speaks
    <3>2. IntroducedOn(wire, s)
      BY <2>1, <3>1 DEF CommandsOf
    <3>3. ASSUME ForTwo(roomName[s]) PROVE forwards[s] = 0
      <4>1. Once(s)
        BY <1>1, <3>2, <3>3, CompanyOfTwo DEF Roles, Caller, Callee
      <4>2. forwarded[s] = <<>>
        BY <3>1, <4>1 DEF Once
      <4>3. QED
        BY <2>1, <4>2 DEF PageOf
    <3>4. QED
      BY <3>2, <3>3 DEF Introduced, IntroducedOn
  <2>6. QED
    BY <2>3, <2>4, <2>5
<1>2. ChatInv /\ CompanyInv /\ RolesInv => CommandsFit
  BY <1>1 DEF CommandsFit
<1>3. QED
  BY <1>2, ChatAlways, PTL

\* One of the two offers and the other one answers.
THEOREM RolesAlwaysDiffer == ChatSpec => []RolesDiffer
<1>1. ASSUME ChatInv, RolesInv, NEW x \in Rooms, NEW s \in Visitors(x), NEW t \in Visitors(x),
             s # t, Visitors(x) = {s, t}, subscribed[s] = "yes", subscribed[t] = "yes",
             IAmUser[s] # 0
      PROVE  IAmUser[s] # IAmUser[t]
  <2>1. /\ s \in Sessions /\ t \in Sessions /\ roomName[s] = x /\ roomName[t] = x /\ x # Nil
        /\ \A u \in Sessions : roomName[u] = x => u \in {s, t}
    BY <1>1, NilAssumption DEF Visitors
  <2>2. Roles(s, t) \/ Roles(t, s)
    BY <1>1, <2>1 DEF RolesInv, Only
  <2>3. IAmUser[s] \in 0..2 /\ IAmUser[t] \in 0..2
    BY <1>1, <2>1 DEF ChatInv, ChatType, Page!PageTypeOK
  <2>4. CASE Roles(s, t)
    BY <1>1, <2>3, <2>4 DEF Roles, Caller, Callee
  <2>5. CASE Roles(t, s)
    BY <1>1, <2>3, <2>5 DEF Roles, Caller, Callee
  <2>6. QED
    BY <2>2, <2>4, <2>5
<1>2. ChatInv /\ RolesInv => RolesDiffer
  BY <1>1 DEF RolesDiffer
<1>3. QED
  BY <1>2, ChatAlways, PTL

\* An offer is read by the page that answers, and an answer by the one that offered.
THEOREM DescriptionsAlwaysFit == ChatSpec => DescriptionsFit
<1>1. ASSUME ChatInv, CompanyInv, RolesInv, [ChatNext]_chatVars, NEW s \in Sessions,
             ForTwo(roomName[s]), read'[s] = read[s] + 1, wire[s][read'[s]].cmd = "forward"
      PROVE  IAmUser[s] = IF Kind(s, read'[s]) = "offer" THEN 2 ELSE 1
  <2>1. /\ IsoInv /\ NetInv /\ ChatType /\ PageOf(s) /\ NumberOf(s) /\ NetOf(s)
        /\ read[s] \in Nat /\ wire[s] \in Seq(Messages)
        /\ IAmUser[s] \in 0..2 /\ userNum[s] \in 0..2
    BY <1>1 DEF ChatInv, PagesInv, RoomsInv, NetInv, IsoInv, TypeOK, ChatType, Page!PageTypeOK
  <2>2. read'[s] # read[s]
    BY <1>1, <2>1
  <2>3. PageReads(s)
    <3>1. ASSUME NEW u \in Sessions, ChatStep(u) PROVE u = s
      BY <2>1, <2>2, <3>1, OthersPages DEF PageSame
    <3>2. ChatStep(s)
      BY <1>1, <2>2, <3>1 DEF ChatNext, ChatStep, chatVars
    <3>3. QED
      BY <2>2, <3>2 DEF ChatStep, PageOpens, ServerTakes, ServerContinues, PageMay, PageMust, Breaks
  <2>4. Reads(s, "forward") /\ wire' = wire
    BY <1>1, <2>3 DEF PageReads, Reads, ConnectionFollows
  <2> DEFINE i == read'[s]
  <2>5. i \in DOMAIN wire[s] /\ i \in Nat /\ i >= 1 /\ i \in Forwards(s) /\ i = read[s] + 1
    BY <1>1, <2>1, <2>4, NextRead DEF Forwards
  <2>6. IntroducedOn(wire, s)
    BY <2>5 DEF IntroducedOn, Forwards
  <2>7. PICK t \in Sessions : roomName[t] = roomName[s] /\ (Roles(s, t) \/ Roles(t, s))
    BY <1>1, <2>6, CompanyOfTwo
  <2>8. wire[s][i].from = t /\ \A j \in Forwards(s) : j = i
    BY <2>5, <2>7 DEF Roles, PairOf, Between, Forwards
  <2>9. Kind(s, i) = forwarded[t][1]
    <3>1. {j \in 1..i : wire[s][j].cmd = "forward" /\ wire[s][j].from = wire[s][i].from} = {i}
      <4>1. \A j \in 1..i : j \in DOMAIN wire[s]
        BY <2>1, <2>5
      <4>2. QED
        BY <2>5, <2>8, <4>1 DEF Forwards
    <3>2. Cardinality({i}) = 1
      BY FS_Singleton
    <3>3. QED
      BY <2>8, <3>1, <3>2 DEF Kind
  <2>10. forwarded[t] \in Seq(Kinds)
    BY <2>1 DEF ChatType
  <2>11. forwarded[t] # <<>> => 1 \in DOMAIN forwarded[t] /\ forwarded[t][1] \in Kinds
    BY <2>10
  <2>12. CASE Roles(s, t)
    <3>1. forwarded[t] # <<>> /\ Never(t, "offer")
      BY <2>5, <2>12 DEF Roles, Between, Callee
    <3>2. Kind(s, i) # "offer"
      BY <2>9, <2>11, <3>1 DEF Never, Has
    <3>3. Spoke(s)
      BY <2>12, <3>1 DEF Roles, Between, Spoke
    <3>4. Page!Live(s)
      BY <2>4 DEF Reads, Page!Live
    <3>5. IAmUser[s] = 1
      BY <2>12, <3>3, <3>4 DEF Roles, Caller
    <3>6. QED
      BY <3>2, <3>5
  <2>13. CASE Roles(t, s)
    <3>1. forwarded[t] # <<>> /\ Never(t, "answer")
      BY <2>5, <2>13 DEF Roles, Between, Caller
    <3>2. Kind(s, i) = "offer"
      BY <2>9, <2>11, <3>1 DEF Never, Has, Kinds
    <3>3. net[s] = "open" /\ pc[s] # "done" /\ roomName[s] # Nil
      BY <2>1, <2>4, <2>6, Unknown DEF Reads, NetOf
    <3>4. userNum[s] # 1
      BY <2>6, <2>13 DEF Roles, PairOf, Meets
    <3>5. userNum[s] = 2
      BY <2>1, <3>3, <3>4 DEF NumberOf
    <3>6. HasRead(s, "roomclients")
      <4>1. PICK j \in 1..(i - 1) : wire[s][j].cmd = "roomclients"
        BY <2>5, <2>13 DEF Roles, PairOf, Forwards
      <4>2. j \in DOMAIN wire[s] /\ j <= read[s]
        BY <2>1, <2>5, <4>1
      <4>3. QED
        BY <4>1, <4>2 DEF HasRead
    <3>7. IAmUser[s] = 2
      BY <2>13, <3>3, <3>5, <3>6 DEF Roles, Callee
    <3>8. QED
      BY <3>2, <3>7
  <2>14. QED
    BY <2>7, <2>12, <2>13
<1>2. ChatInv /\ CompanyInv /\ RolesInv /\ [ChatNext]_chatVars =>
        \A s \in Sessions :
          /\ ForTwo(roomName[s])
          /\ read'[s] = read[s] + 1 /\ wire[s][read'[s]].cmd = "forward"
          => IAmUser[s] = IF Kind(s, read'[s]) = "offer" THEN 2 ELSE 1
  BY <1>1
<1>3. QED
  BY <1>2, ChatAlways, PTL DEF ChatSpec, DescriptionsFit
=============================================================================
