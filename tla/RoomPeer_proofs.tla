--------------------------- MODULE RoomPeer_proofs ---------------------------
(***************************************************************************)
(* That in a calm room a handler that forwards has a peer                  *)
(* (RoomServer!ForwardHasPeer), and that nobody is told "offline" while    *)
(* its peer is connected (RoomServer!OfflineIsTrue), for any number of     *)
(* sessions and rooms.                                                     *)
(*                                                                         *)
(* A founder learns who the other is from the room's entry, when it first  *)
(* forwards.  By then the entry names somebody else: for the founder must  *)
(* have been introduced, only somebody who knows the founder does that,    *)
(* and whoever knows the founder has stored an entry of its own.           *)
(***************************************************************************)
EXTENDS RoomServer_proofs, SequenceTheorems

\* Handlers that have not stored their entry yet.
Arriving == {"create", "store"}

Here(x) == {s \in Sessions : roomName[s] = x /\ pc[s] # "done"}

IntroducedOn(w, s) == \E i \in DOMAIN w[s] : w[s][i].cmd \in {"online", "forward"}

\* s was introduced, or somebody is in the room who will do it.
Met(s, x) == \/ IntroducedOn(wire, s)
             \/ \E t \in Here(x) : otherCws[t] = s /\ pc[t] # "store"

\* What a founder, who has no connection to another yet, may rely on.
FounderOf(s, x) ==
    /\ pc[s] \in Arriving => /\ ~IntroducedOn(wire, s) /\ otherCws[s] = Nil
                             /\ \A t \in Here(x) : otherCws[t] # s
    /\ pc[s] \notin Arriving => /\ otherCws[s] # s
                                /\ Met(s, x) => roomInfoMap[x].cws # s

SessionOf(s, x) ==
    /\ userNum[s] \in {1, 2}
    /\ pc[s] \in Arriving => r[s].cws = s /\ roomInfoMap[x].cws # s
    /\ userNum[s] = 2 => otherCws[s] \notin {Nil, s}
    /\ userNum[s] = 1 => FounderOf(s, x)
    /\ pc[s] = "forward" => otherCws[s] \notin {Nil, s}

PeerOf(x) ==
    /\ roomInfoMap[x].users > 0 => roomInfoMap[x].cws # Nil
    /\ \A s \in Here(x) : SessionOf(s, x)
    /\ \A s, t \in Here(x) : userNum[s] = 1 /\ userNum[t] = 1 => s = t

PeerInv == \A x \in Rooms : Calm(x) => PeerOf(x)

-----------------------------------------------------------------------------
(* Calm rooms.                                                             *)

\* What was raced for or crowded stays so.
LEMMA HistoryGrows ==
    ASSUME [Next]_vars PROVE raced \subseteq raced' /\ crowded \subseteq crowded'
<1>1. CASE UNCHANGED vars
  BY <1>1 DEF vars, history
<1>2. ASSUME NEW s \in Sessions, Serve(s) PROVE raced \subseteq raced' /\ crowded \subseteq crowded'
  <2>1. CASE Subscribe(s)
    BY <2>1 DEF Subscribe, SubscribeNew, SubscribeFound, NoteRace
  <2>2. QED
    BY <1>2, <2>1 DEF Serve, Open, OpenFails, RecvConnect, RecvForward, history
<1>3. ASSUME NEW s \in Sessions, Continue(s) PROVE raced \subseteq raced' /\ crowded \subseteq crowded'
  BY <1>3 DEF Continue, TellCreator, StoreRoom, TellJoiner, TellOther, Forward, ForwardToNil,
     RecvEOF, RecvError, LeaveRead, LeaveNoRoom, LeaveWrite, NoteRace, history
<1>4. ASSUME NEW s \in Sessions, Outside(s) PROVE raced \subseteq raced' /\ crowded \subseteq crowded'
  BY <1>4 DEF Outside, ClientCloses, NetBreaks, MapAbort, history
<1>5. QED
  BY <1>1, <1>2, <1>3, <1>4 DEF Next

\* A room that is calm after a step was calm before it.
LEMMA CalmBefore == ASSUME [Next]_vars, NEW x \in Rooms, Calm(x)' PROVE Calm(x)
  BY HistoryGrows DEF Calm

\* Who is here is a member, or is arriving and holds a copy of the entry.
LEMMA HereIs ==
    ASSUME IsoInv, CountInv, NEW x \in Rooms, NEW s \in Here(x)
    PROVE  /\ s \in Sessions /\ roomName[s] = x
           /\ s \in Members(x) \/ (pc[s] \in Arriving /\ s \in Holders(x))
<1>1. s \in Sessions /\ roomName[s] = x /\ pc[s] # "done" /\ pc[s] \in Labels
  BY DEF Here, IsoInv, TypeOK
<1>2. pc[s] # "new"
  BY <1>1, NilAssumption DEF CountInv, NewOutside
<1>3. QED
  BY <1>1, <1>2 DEF Labels, Members, Holders, Holding, Arriving

\* An empty room without holders is empty.
LEMMA NobodyHere ==
    ASSUME IsoInv, CountInv, NEW x \in Rooms, Members(x) = {}, Holders(x) = {}
    PROVE  Here(x) = {}
  BY HereIs

\* A member counts.
LEMMA MemberCounts ==
    ASSUME IsoInv, CountInv, NEW x \in Rooms, Calm(x), NEW s \in Members(x)
    PROVE  roomInfoMap[x].users > 0
  BY DEF CountInv, RoomCounted, CountIs

\* A session that has no room yet is known to nobody.
LEMMA Unknown ==
    ASSUME IsoInv, NEW s \in Sessions, roomName[s] = Nil
    PROVE  /\ ~IntroducedOn(wire, s) /\ otherCws[s] = Nil
           /\ \A x \in Rooms : roomInfoMap[x].cws # s
           /\ \A x \in Rooms : \A t \in Here(x) : otherCws[t] # s
<1>1. ~IntroducedOn(wire, s)
  BY NilAssumption DEF IsoInv, WiresWithin, MessageWithin, IntroducedOn
<1>2. otherCws[s] = Nil
  BY NilAssumption DEF IsoInv, HandlersWithin, Within
<1>3. \A x \in Rooms : roomInfoMap[x].cws # s
  BY NilAssumption DEF IsoInv, EntriesWithin, EntryWithin, Within
<1>4. ASSUME NEW x \in Rooms, NEW t \in Here(x) PROVE otherCws[t] # s
  BY NilAssumption DEF IsoInv, HandlersWithin, Within, Here
<1>5. QED
  BY <1>1, <1>2, <1>3, <1>4

-----------------------------------------------------------------------------
(* Steps that change no entry.                                             *)

\* What a step may do to a session t of room x: it may end it, or move it on
\* and introduce it if it was met before.
Peaceful(t, x) ==
    /\ t \in Here(x)
    /\ userNum'[t] = userNum[t] /\ otherCws'[t] = otherCws[t]
    /\ pc'[t] \in Arriving <=> pc[t] \in Arriving
    /\ pc'[t] \in Arriving => r'[t] = r[t]
    /\ pc[t] = "store" => pc'[t] = "store"
    /\ pc'[t] = "forward" => pc[t] = "forward"
    /\ IntroducedOn(wire', t) => Met(t, x)

\* A step that is peaceful for all who stay keeps the room's invariant.
LEMMA SteadyPeer ==
    ASSUME NEW x \in Rooms, PeerOf(x),
           roomInfoMap'[x].cws = roomInfoMap[x].cws,
           roomInfoMap'[x].users > 0 => roomInfoMap[x].users > 0,
           \A t \in Here(x)' : Peaceful(t, x)
    PROVE  PeerOf(x)'
<1>1. \A t \in Here(x)' : t \in Here(x) /\ Peaceful(t, x) /\ SessionOf(t, x)
  BY DEF PeerOf, Peaceful
<1>2. ASSUME NEW s \in Here(x)' PROVE Met(s, x)' => Met(s, x)
  BY <1>1 DEF Met, Peaceful
<1>3. ASSUME NEW s \in Here(x)' PROVE SessionOf(s, x)'
  <2>1. Peaceful(s, x) /\ SessionOf(s, x)
    BY <1>1, <1>3
  <2>2. ASSUME userNum[s] = 1 PROVE FounderOf(s, x)'
    <3>1. FounderOf(s, x)
      BY <2>1, <2>2 DEF SessionOf
    <3>2. CASE pc[s] \in Arriving
      <4>1. ~Met(s, x) /\ otherCws[s] = Nil /\ \A t \in Here(x) : otherCws[t] # s
        BY <3>1, <3>2 DEF FounderOf, Met
      <4>2. ~IntroducedOn(wire', s) /\ otherCws'[s] = Nil
        BY <2>1, <4>1 DEF Peaceful
      <4>3. \A t \in Here(x)' : otherCws'[t] # s
        BY <1>1, <4>1 DEF Peaceful
      <4>4. QED
        BY <2>1, <3>2, <4>2, <4>3 DEF FounderOf, Peaceful
    <3>3. CASE pc[s] \notin Arriving
      BY <1>2, <2>1, <3>1, <3>3 DEF FounderOf, Peaceful
    <3>4. QED
      BY <3>2, <3>3
  <2>3. QED
    BY <2>1, <2>2 DEF SessionOf, Peaceful
<1>4. \A s, t \in Here(x)' : userNum'[s] = 1 /\ userNum'[t] = 1 => s = t
  BY <1>1 DEF PeerOf, Peaceful
<1>5. QED
  BY <1>3, <1>4 DEF PeerOf

-----------------------------------------------------------------------------
(* Who is introduced by a step was met before it.                          *)

\* Only "online" and "forward" introduce anybody, and only the one they are sent to.
LEMMA SentIntroduces ==
    ASSUME NEW w \in Wires, NEW c, NEW m \in Messages, NEW t \in Sessions,
           IntroducedOn(Sent(w, c, m), t)
    PROVE  IntroducedOn(w, t) \/ (t = c /\ m.cmd \in {"online", "forward"})
<1>1. PICK i \in DOMAIN Sent(w, c, m)[t] : Sent(w, c, m)[t][i].cmd \in {"online", "forward"}
  BY DEF IntroducedOn
<1>2. QED
  BY <1>1, SentContents DEF IntroducedOn

\* A handler that sends is in the room of the one it sends to.
LEMMA SenderHere ==
    ASSUME IsoInv, NEW x \in Rooms, NEW t \in Here(x), NEW s \in Sessions,
           otherCws[s] = t, pc[s] \notin {"done", "store"}
    PROVE  Met(t, x)
<1>1. t \in Sessions /\ roomName[t] = x
  BY DEF Here
<1>2. roomName[s] = x
  BY <1>1, OtherWithin
<1>3. QED
  BY <1>2 DEF Met, Here

\* A forward is sent, and the notices with it.
LEMMA ForwardWires ==
    ASSUME IsoInv, NEW s \in Sessions, Forward(s)
    PROVE  \E m \in Outcomes(s) : \E told \in Wires :
              /\ Forwarded(s, m) \in Messages
              /\ wire' = Sent(told, otherCws[s], Forwarded(s, m))
              /\ \A t \in Sessions : \A i \in DOMAIN told[t] :
                    \/ i \in DOMAIN wire[t] /\ told[t][i] = wire[t][i]
                    \/ told[t][i].cmd = "notice"
<1>1. PICK m \in Outcomes(s) :
        LET both(w) == Sent(Sent(w, s, Notice(m)), otherCws[s], Notice(m))
            told    == IF userNum[s] < 2 THEN both(wire) ELSE wire
        IN wire' = Sent(told, otherCws[s], Forwarded(s, m))
  BY DEF Forward
<1> DEFINE own  == Sent(wire, s, Notice(m))
           both == Sent(own, otherCws[s], Notice(m))
           told == IF userNum[s] < 2 THEN both ELSE wire
<1>2. wire' = Sent(told, otherCws[s], Forwarded(s, m))
  BY <1>1
<1>3. m \in {"p2p", "relayed", "unpatched"}
  BY DEF Outcomes
<1>4. Notice(m) \in Messages /\ Forwarded(s, m) \in Messages
  BY <1>3, MessageTypes
<1>5. Notice(m).cmd = "notice" /\ wire \in Wires
  BY OtherWithin DEF Notice
<1>6. /\ own \in Wires
      /\ \A t \in Sessions : \A i \in DOMAIN own[t] :
            \/ i \in DOMAIN wire[t] /\ own[t][i] = wire[t][i]
            \/ own[t][i].cmd = "notice"
  BY <1>4, <1>5, SentType, SentContents
<1> HIDE DEF own
<1>7. /\ both \in Wires
      /\ \A t \in Sessions : \A i \in DOMAIN both[t] :
            \/ i \in DOMAIN own[t] /\ both[t][i] = own[t][i]
            \/ both[t][i].cmd = "notice"
  BY <1>4, <1>5, <1>6, SentType, SentContents
<1> HIDE DEF both
<1>8. /\ told \in Wires
      /\ \A t \in Sessions : \A i \in DOMAIN told[t] :
            \/ i \in DOMAIN wire[t] /\ told[t][i] = wire[t][i]
            \/ told[t][i].cmd = "notice"
  <2>1. \A t \in Sessions : \A i \in DOMAIN both[t] :
            \/ i \in DOMAIN wire[t] /\ both[t][i] = wire[t][i]
            \/ both[t][i].cmd = "notice"
    BY <1>6, <1>7
  <2>2. CASE userNum[s] < 2
    BY <1>7, <2>1, <2>2
  <2>3. CASE ~(userNum[s] < 2)
    BY <1>5, <2>3
  <2>4. QED
    BY <2>2, <2>3
<1> HIDE DEF told
<1>9. QED
  BY <1>2, <1>4, <1>8

\* What handlers tell their own clients introduces nobody,
LEMMA OwnNews ==
    ASSUME IsoInv, NEW s \in Sessions,
           RecvConnect(s) \/ TellCreator(s) \/ TellJoiner(s) \/ RecvEOF(s),
           NEW t \in Sessions, IntroducedOn(wire', t)
    PROVE  IntroducedOn(wire, t)
<1>1. wire \in Wires /\ r[s] \in Entries
  BY OtherWithin DEF IsoInv, TypeOK
<1>2. r[s].clientId \in Sessions \cup {Nil}
  BY <1>1, EntryFields
<1> DEFINE news == {Plain("ready"), RoomClients(Nil), RoomClients(r[s].clientId), Plain("offline")}
<1>3. \A m \in news : m \in Messages /\ m.cmd \notin {"online", "forward"}
  <2>1. \A m \in news : m \in Messages
    BY <1>2, MessageTypes
  <2>2. \A id : RoomClients(id).cmd = "roomclients"
    BY DEF RoomClients
  <2>3. \A cmd : Plain(cmd).cmd = cmd
    BY DEF Plain
  <2>4. QED
    BY <2>1, <2>2, <2>3
<1>4. PICK c : \E m \in news : wire' = Sent(wire, c, m) \/ wire' = wire
  <2>1. CASE RecvConnect(s)
    BY <2>1 DEF RecvConnect
  <2>2. CASE TellCreator(s)
    BY <2>2 DEF TellCreator
  <2>3. CASE TellJoiner(s)
    BY <2>3 DEF TellJoiner
  <2>4. CASE RecvEOF(s)
    BY <2>4 DEF RecvEOF
  <2>5. QED
    BY <2>1, <2>2, <2>3, <2>4
<1>5. PICK m \in news : wire' = Sent(wire, c, m) \/ wire' = wire
  BY <1>4
<1>6. m \in Messages /\ m.cmd \notin {"online", "forward"}
  BY <1>3, <1>5
<1> HIDE DEF news
<1>7. QED
  BY <1>1, <1>5, <1>6, SentIntroduces

\* and what they tell the others introduces those they know.
LEMMA OtherNews ==
    ASSUME IsoInv, NEW s \in Sessions, TellOther(s) \/ Forward(s),
           NEW x \in Rooms, NEW t \in Here(x), IntroducedOn(wire', t)
    PROVE  Met(t, x)
<1>1. t \in Sessions /\ wire \in Wires
  BY OtherWithin DEF Here
<1>2. pc[s] \in {"notify", "forward"}
  BY DEF TellOther, Forward, At
<1>3. IntroducedOn(wire, t) \/ t = otherCws[s]
  <2>1. CASE TellOther(s)
    <3>1. myClientId[s] \in Sessions \cup {Nil}
      BY DEF IsoInv, TypeOK
    <3>2. Online(myClientId[s]) \in Messages
      BY <3>1, MessageTypes
    <3>3. QED
      BY <1>1, <2>1, <3>2, SentIntroduces DEF TellOther
  <2>2. CASE Forward(s)
    <3>1. PICK m \in Outcomes(s), told \in Wires :
              /\ Forwarded(s, m) \in Messages
              /\ wire' = Sent(told, otherCws[s], Forwarded(s, m))
              /\ \A u \in Sessions : \A i \in DOMAIN told[u] :
                    \/ i \in DOMAIN wire[u] /\ told[u][i] = wire[u][i]
                    \/ told[u][i].cmd = "notice"
      BY <2>2, ForwardWires
    <3>2. IntroducedOn(told, t) \/ t = otherCws[s]
      BY <1>1, <3>1, SentIntroduces
    <3>3. IntroducedOn(told, t) => IntroducedOn(wire, t)
      BY <1>1, <3>1 DEF IntroducedOn
    <3>4. QED
      BY <3>2, <3>3
  <2>3. QED
    BY <2>1, <2>2
<1>4. CASE IntroducedOn(wire, t)
  BY <1>4 DEF Met
<1>5. CASE t = otherCws[s]
  BY <1>2, <1>5, SenderHere
<1>6. QED
  BY <1>3, <1>4, <1>5

-----------------------------------------------------------------------------
(* The steps, for one room.                                                *)

\* s moves to l, and nobody else, and no room name changes.
Stands(s, l) ==
    /\ pc \in [Sessions -> Labels] /\ pc' = [pc EXCEPT ![s] = l]
    /\ roomName' = roomName
    /\ \A t \in Sessions \ {s} : /\ userNum'[t] = userNum[t] /\ otherCws'[t] = otherCws[t]
                                /\ r'[t] = r[t]

\* Then whoever else is here was here before, in peace, and so is s if it ends.
LEMMA OthersPeaceful ==
    ASSUME NEW s \in Sessions, NEW l, Stands(s, l), NEW x \in Rooms, NEW t \in Here(x)',
           t # s \/ Peaceful(s, x),
           t \in Here(x) /\ IntroducedOn(wire', t) => Met(t, x)
    PROVE  Peaceful(t, x)
<1>1. CASE t # s
  <2>1. t \in Sessions /\ pc'[t] = pc[t] /\ roomName[t] = x
    BY <1>1 DEF Stands, Here
  <2>2. t \in Here(x)
    BY <2>1 DEF Here
  <2>3. QED
    BY <1>1, <2>1, <2>2 DEF Stands, Peaceful
<1>2. QED
  BY <1>1

\* So a step that moves one handler about keeps the invariant.
LEMMA MovesPeer ==
    ASSUME NEW s \in Sessions, NEW l, Stands(s, l), NEW x \in Rooms, PeerOf(x),
           roomInfoMap'[x].cws = roomInfoMap[x].cws,
           roomInfoMap'[x].users > 0 => roomInfoMap[x].users > 0,
           l # "done" /\ roomName[s] = x =>
              /\ pc[s] # "done" /\ (l \in Arriving <=> pc[s] \in Arriving)
              /\ l \in Arriving => r'[s] = r[s]
              /\ pc[s] = "store" => l = "store"
              /\ l = "forward" => pc[s] = "forward"
              /\ userNum'[s] = userNum[s] /\ otherCws'[s] = otherCws[s],
           \A t \in Here(x) : IntroducedOn(wire', t) => Met(t, x)
    PROVE  PeerOf(x)'
<1>1. ASSUME NEW t \in Here(x)' PROVE Peaceful(t, x)
  <2>1. CASE t = s
    <3>1. pc'[s] = l /\ l # "done" /\ roomName[s] = x
      BY <2>1 DEF Stands, Here
    <3>2. s \in Here(x)
      BY <3>1 DEF Here
    <3>3. QED
      BY <2>1, <3>1, <3>2 DEF Peaceful
  <2>2. CASE t # s
    BY <2>2, OthersPeaceful
  <2>3. QED
    BY <2>1, <2>2
<1>2. QED
  BY <1>1, SteadyPeer

\* So do those that talk,
LEMMA TalkPeer ==
    ASSUME IsoInv, CountInv, NEW s \in Sessions, NEW x \in Rooms, PeerOf(x),
           TellCreator(s) \/ TellJoiner(s) \/ TellOther(s) \/ Forward(s) \/ RecvEOF(s)
    PROVE  PeerOf(x)'
<1>1. PICK l \in Labels :
         /\ Goto(s, l) /\ pc[s] # "done" /\ (l \in Arriving <=> pc[s] \in Arriving)
         /\ l \in Arriving => r' = r
         /\ pc[s] # "store" /\ l # "forward"
  <2>1. CASE TellCreator(s)
    BY <2>1 DEF TellCreator, At, Labels, Arriving
  <2>2. CASE TellJoiner(s)
    BY <2>2 DEF TellJoiner, At, Labels, Arriving
  <2>3. CASE TellOther(s)
    BY <2>3 DEF TellOther, At, Labels, Arriving
  <2>4. CASE Forward(s)
    BY <2>4 DEF Forward, At, Labels, Arriving
  <2>5. CASE RecvEOF(s)
    BY <2>5 DEF RecvEOF, At, Labels, Arriving
  <2>6. QED
    BY <2>1, <2>2, <2>3, <2>4, <2>5
<1>2. /\ roomInfoMap' = roomInfoMap /\ roomName' = roomName
      /\ userNum' = userNum /\ otherCws' = otherCws
      /\ \A t \in Sessions \ {s} : r'[t] = r[t]
  BY DEF TellCreator, TellJoiner, TellOther, Forward, RecvEOF, OutOfScope, handler, IsoInv, TypeOK
<1>3. Stands(s, l)
  BY <1>1, <1>2 DEF Stands, Goto, IsoInv, TypeOK
<1>4. ASSUME NEW t \in Here(x), IntroducedOn(wire', t) PROVE Met(t, x)
  <2>1. t \in Sessions
    BY DEF Here
  <2>2. QED
    BY <1>4, <2>1, OwnNews, OtherNews DEF Met
<1>5. QED
  BY <1>1, <1>2, <1>3, <1>4, MovesPeer

\* those that begin or end a session, or take note of an end,
LEMMA EndsPeer ==
    ASSUME IsoInv, CountInv, NEW s \in Sessions, NEW x \in Rooms, PeerOf(x),
           Open(s) \/ OpenFails(s) \/ RecvError(s) \/ LeaveRead(s) \/ LeaveNoRoom(s)
    PROVE  PeerOf(x)'
<1>1. PICK l \in Labels :
         /\ Goto(s, l)
         /\ \/ l = "done" \/ roomName[s] = Nil
            \/ pc[s] \in {"receive", "teardown"} /\ l \in {"teardown", "leave"}
  <2>1. CASE Open(s) \/ OpenFails(s)
    BY <2>1 DEF Open, OpenFails, At, Labels, CountInv, NewOutside
  <2>2. CASE RecvError(s)
    BY <2>2 DEF RecvError, At, Labels
  <2>3. CASE LeaveRead(s)
    BY <2>3 DEF LeaveRead, At, Labels
  <2>4. CASE LeaveNoRoom(s)
    BY <2>4 DEF LeaveNoRoom, EndSession, Labels
  <2>5. QED
    BY <2>1, <2>2, <2>3, <2>4
<1>2. /\ roomInfoMap' = roomInfoMap /\ roomName' = roomName
      /\ \A t \in Sessions \ {s} : /\ userNum'[t] = userNum[t] /\ otherCws'[t] = otherCws[t]
                                  /\ r'[t] = r[t]
      /\ \A t \in Sessions \ {s} : wire'[t] = wire[t]
      /\ l # "done" => userNum' = userNum /\ otherCws' = otherCws
  <2>1. CASE Open(s) \/ OpenFails(s) \/ RecvError(s)
    BY <2>1 DEF Open, OpenFails, RecvError, handler, IsoInv, TypeOK
  <2>2. CASE LeaveRead(s)
    BY <2>2 DEF LeaveRead, handler, IsoInv, TypeOK
  <2>3. CASE LeaveNoRoom(s)
    <3>1. l = "done"
      <4>1. Goto(s, "done")
        BY <2>3 DEF LeaveNoRoom, EndSession
      <4>2. pc'[s] = "done" /\ pc'[s] = l
        BY <1>1, <4>1, Zenon DEF Goto, IsoInv, TypeOK
      <4>3. QED
        BY <4>2
    <3>2. QED
      BY <2>3, <3>1 DEF LeaveNoRoom, EndSession, IsoInv, TypeOK
  <2>4. QED
    BY <2>1, <2>2, <2>3
<1>3. Stands(s, l)
  BY <1>1, <1>2 DEF Stands, Goto, IsoInv, TypeOK
<1>4. ASSUME NEW t \in Here(x), IntroducedOn(wire', t) PROVE Met(t, x)
  <2>1. t \in Sessions /\ roomName[t] = x
    BY DEF Here
  <2>2. CASE t # s
    BY <1>2, <1>4, <2>1, <2>2 DEF Met, IntroducedOn
  <2>3. CASE t = s
    <3>1. RecvError(s) \/ LeaveRead(s)
      <4>1. ~Open(s) /\ ~OpenFails(s)
        BY <2>1, <2>3, NilAssumption DEF Open, OpenFails, At, CountInv, NewOutside
      <4>2. ASSUME LeaveNoRoom(s) PROVE FALSE
        <5>1. wire' = [wire EXCEPT ![s] = <<>>]
          BY <4>2 DEF LeaveNoRoom, EndSession
        <5>2. wire'[s] = <<>>
          BY <5>1 DEF IsoInv, TypeOK
        <5>3. QED
          BY <1>4, <2>3, <5>2 DEF IntroducedOn
      <4>3. QED
        BY <4>1, <4>2
    <3>2. wire' = wire
      BY <3>1 DEF RecvError, LeaveRead
    <3>3. QED
      BY <1>4, <3>2 DEF Met, IntroducedOn
  <2>4. QED
    BY <2>2, <2>3
<1>5. roomName[s] = x => roomName[s] # Nil
  BY NilAssumption
<1>6. l # "done" /\ roomName[s] = x =>
              /\ pc[s] # "done" /\ (l \in Arriving <=> pc[s] \in Arriving)
              /\ l \in Arriving => r'[s] = r[s]
              /\ pc[s] = "store" => l = "store"
              /\ l = "forward" => pc[s] = "forward"
              /\ userNum'[s] = userNum[s] /\ otherCws'[s] = otherCws[s]
  BY <1>1, <1>2, <1>5 DEF Arriving
<1>7. QED
  BY <1>2, <1>3, <1>4, <1>6, MovesPeer

\* and those that leave every handler where it is.
LEMMA StillPeer ==
    ASSUME NEW x \in Rooms, PeerOf(x), pc' = pc, roomName' = roomName, userNum' = userNum,
           otherCws' = otherCws, r' = r, roomInfoMap' = roomInfoMap,
           \A t \in Sessions : IntroducedOn(wire', t) => IntroducedOn(wire, t)
    PROVE  PeerOf(x)'
<1>1. \A t \in Here(x)' : Peaceful(t, x)
  BY DEF Here, Peaceful, Met
<1>2. QED
  BY <1>1, SteadyPeer

LEMMA QuietPeer ==
    ASSUME IsoInv, NEW s \in Sessions, NEW t \in Sessions, NEW x \in Rooms, PeerOf(x),
           RecvConnect(s) \/ ForwardToNil(s) \/ ClientCloses(s) \/ NetBreaks(s) \/ MapAbort(s, t)
    PROVE  PeerOf(x)'
<1>1. /\ pc' = pc /\ roomName' = roomName /\ userNum' = userNum
      /\ otherCws' = otherCws /\ r' = r /\ roomInfoMap' = roomInfoMap
  BY DEF RecvConnect, ForwardToNil, ClientCloses, NetBreaks, MapAbort, handler
<1>2. ASSUME NEW u \in Sessions, IntroducedOn(wire', u) PROVE IntroducedOn(wire, u)
  BY <1>2, OwnNews DEF ForwardToNil, ClientCloses, NetBreaks, MapAbort
<1>3. QED
  BY <1>1, <1>2, StillPeer

\* A founder that forwards for the first time finds somebody else in the entry.
LEMMA RecvForwardPeer ==
    ASSUME IsoInv, CountInv, IsoInv', NEW s \in Sessions, RecvForward(s),
           NEW x \in Rooms, Calm(x), PeerOf(x)
    PROVE  PeerOf(x)'
<1> DEFINE e == roomInfoMap[roomName[s]]
<1>1. /\ pc[s] = "receive" /\ pc' = [pc EXCEPT ![s] = "forward"] /\ IntroducedOn(wire, s)
      /\ roomName' = roomName /\ userNum' = userNum /\ r' = r
      /\ roomInfoMap' = roomInfoMap /\ wire' = wire
      /\ otherCws' = IF otherCws[s] = Nil /\ e.users > 0
                     THEN [otherCws EXCEPT ![s] = e.cws] ELSE otherCws
  BY DEF RecvForward, Receiving, Introduced, IntroducedOn, Goto, handler
<1>2. /\ pc \in [Sessions -> Labels] /\ otherCws \in [Sessions -> Sessions \cup {Nil}]
  BY DEF IsoInv, TypeOK
<1>3. /\ pc'[s] = "forward" /\ \A t \in Sessions \ {s} : pc'[t] = pc[t]
      /\ \A t \in Sessions \ {s} : otherCws'[t] = otherCws[t]
  BY <1>1, <1>2
<1>4. Here(x)' = Here(x)
  BY <1>1, <1>3 DEF Here
<1>5. \A t \in Sessions : pc'[t] \in Arriving <=> pc[t] \in Arriving
  BY <1>1, <1>3 DEF Arriving
<1>6. \A t \in Here(x) : t \in Sessions
  BY DEF Here
<1> HIDE DEF e
<1>7. CASE roomName[s] # x
  <2>1. s \notin Here(x)
    BY <1>7 DEF Here
  <2>2. \A t \in Here(x)' : Peaceful(t, x)
    BY <1>1, <1>3, <1>4, <1>5, <1>6, <2>1 DEF Peaceful, Met
  <2>3. QED
    BY <1>1, <2>2, SteadyPeer
<1>8. CASE roomName[s] = x
  <2>1. s \in Here(x) /\ s \in Members(x) /\ SessionOf(s, x)
    BY <1>1, <1>8 DEF Here, Members, PeerOf
  <2>2. roomInfoMap[x].users > 0 /\ roomInfoMap[x].cws # Nil
    BY <2>1, MemberCounts DEF PeerOf
  <2>3. pc[s] \notin Arriving /\ Met(s, x)
    BY <1>1 DEF Arriving, Met
  <2>4. CASE otherCws[s] # Nil
    <3>1. otherCws' = otherCws
      BY <1>1, <2>4
    <3>2. otherCws[s] # s
      BY <2>1, <2>3 DEF SessionOf, FounderOf
    <3>3. \A t \in Here(x) : Met(t, x)' => Met(t, x)
      BY <1>1, <1>3, <1>4, <1>6, <3>1 DEF Met
    <3>4. ASSUME NEW t \in Here(x) PROVE SessionOf(t, x)'
      <4>1. SessionOf(t, x) /\ t \in Sessions
        BY <1>6 DEF PeerOf
      <4>2. FounderOf(t, x) => FounderOf(t, x)'
        BY <1>1, <1>4, <1>5, <3>1, <3>3, <4>1 DEF FounderOf
      <4>3. pc'[t] = "forward" => otherCws'[t] \notin {Nil, t}
        BY <1>3, <2>4, <3>1, <3>2, <4>1 DEF SessionOf
      <4>4. QED
        BY <1>1, <1>5, <3>1, <4>1, <4>2, <4>3 DEF SessionOf
    <3>5. QED
      BY <1>1, <1>4, <3>4 DEF PeerOf
  <2>5. CASE otherCws[s] = Nil
    <3>1. userNum[s] = 1
      BY <2>1, <2>5 DEF SessionOf
    <3>2. otherCws'[s] = roomInfoMap[x].cws
      BY <1>1, <1>2, <1>8, <2>2, <2>5 DEF e
    <3>3. roomInfoMap[x].cws # s
      BY <2>1, <2>3, <3>1 DEF SessionOf, FounderOf
    <3>4. ASSUME NEW t \in Here(x), t # s PROVE SessionOf(t, x)'
      <4>1. SessionOf(t, x) /\ t \in Sessions /\ userNum[t] # 1
        BY <1>6, <2>1, <3>1, <3>4 DEF PeerOf
      <4>2. QED
        BY <1>1, <1>3, <1>5, <3>4, <4>1 DEF SessionOf
    <3>5. SessionOf(s, x)'
      <4>1. pc'[s] \notin Arriving
        BY <1>5, <2>3
      <4>2. FounderOf(s, x)'
        BY <1>1, <3>2, <3>3, <4>1 DEF FounderOf
      <4>3. QED
        BY <1>1, <2>2, <3>1, <3>2, <3>3, <4>1, <4>2 DEF SessionOf
    <3>6. QED
      BY <1>1, <1>4, <3>4, <3>5 DEF PeerOf
  <2>6. QED
    BY <2>4, <2>5
<1>9. QED
  BY <1>7, <1>8

\* A handler that stores its entry names itself in it.
LEMMA StoreRoomPeer ==
    ASSUME IsoInv, CountInv, NEW s \in Sessions, StoreRoom(s),
           NEW x \in Rooms, Calm(x), PeerOf(x)
    PROVE  PeerOf(x)'
<1>1. /\ pc[s] = "store" /\ roomInfoMap' = [roomInfoMap EXCEPT ![roomName[s]] = r[s]]
      /\ roomName' = roomName /\ userNum' = userNum /\ otherCws' = otherCws /\ wire' = wire
  BY DEF StoreRoom, At, handler
<1>2. /\ pc \in [Sessions -> Labels] /\ r \in [Sessions -> Entries]
      /\ roomInfoMap \in [Rooms -> Entries]
  BY DEF IsoInv, TypeOK
<1>3. PICK l \in {"receive", "reply"} :
         pc' = [pc EXCEPT ![s] = l] /\ \A t \in Sessions \ {s} : r'[t] = r[t]
  BY <1>2 DEF StoreRoom, Goto, OutOfScope
<1>4. Stands(s, l) /\ l \notin Arriving
  BY <1>1, <1>2, <1>3 DEF Stands, Arriving
<1>5. CASE roomName[s] # x
  <2>1. roomInfoMap'[x] = roomInfoMap[x]
    BY <1>1, <1>2, <1>5
  <2>2. \A t \in Here(x) : IntroducedOn(wire', t) => Met(t, x)
    BY <1>1 DEF Met
  <2>3. QED
    BY <1>4, <1>5, <2>1, <2>2, MovesPeer
<1>6. CASE roomName[s] = x
  <2>1. s \in Here(x) /\ s \in Holders(x) /\ SessionOf(s, x) /\ pc[s] \in Arriving
    BY <1>1, <1>6 DEF Here, Holders, Holding, Arriving, PeerOf
  <2>2. roomInfoMap'[x].cws = s
    BY <1>1, <1>2, <1>6, <2>1 DEF SessionOf
  <2>3. pc'[s] = l /\ \A t \in Sessions \ {s} : pc'[t] = pc[t]
    BY <1>2, <1>3
  <2>4. Here(x)' = Here(x)
    BY <1>1, <1>3, <2>3 DEF Here
  <2>5. ASSUME NEW t \in Here(x), t # s PROVE SessionOf(t, x)'
    <3>1. SessionOf(t, x) /\ t \in Sessions
      BY DEF PeerOf, Here
    <3>2. pc[t] \notin Arriving
      <4>1. t \in Members(x) \/ t \in Holders(x)
        BY HereIs
      <4>2. t \notin Holders(x)
        BY <2>1, <2>5 DEF CountInv, RoomCounted
      <4>3. QED
        BY <4>1, <4>2 DEF Members, Arriving
    <3>3. pc'[t] = pc[t]
      BY <2>3, <2>5, <3>1
    <3>4. userNum[t] = 1 => FounderOf(t, x)'
      BY <1>1, <2>2, <2>5, <3>1, <3>2, <3>3 DEF SessionOf, FounderOf
    <3>5. QED
      BY <1>1, <3>1, <3>2, <3>3, <3>4 DEF SessionOf
  <2>6. SessionOf(s, x)'
    <3>1. pc'[s] \notin Arriving /\ pc'[s] # "forward"
      BY <1>3, <1>4, <2>3
    <3>2. ASSUME userNum[s] = 1 PROVE FounderOf(s, x)'
      <4>1. /\ ~IntroducedOn(wire, s) /\ otherCws[s] = Nil
            /\ \A t \in Here(x) : otherCws[t] # s
        BY <2>1, <3>2 DEF SessionOf, FounderOf
      <4>2. ~Met(s, x)'
        BY <1>1, <2>4, <4>1 DEF Met
      <4>3. QED
        BY <1>1, <3>1, <4>1, <4>2, NilAssumption DEF FounderOf
    <3>3. QED
      BY <1>1, <2>1, <3>1, <3>2 DEF SessionOf
  <2>7. s # Nil
    BY NilAssumption
  <2>8. QED
    BY <1>1, <2>2, <2>4, <2>5, <2>6, <2>7 DEF PeerOf
<1>7. QED
  BY <1>5, <1>6

\* A member that leaves changes no name in the entry, or deletes it as the last.
LEMMA LeaveWritePeer ==
    ASSUME IsoInv, CountInv, NEW s \in Sessions, LeaveWrite(s),
           NEW x \in Rooms, Calm(x), PeerOf(x)
    PROVE  PeerOf(x)'
<1>1. /\ pc[s] = "leave" /\ roomInfoMap' = [roomInfoMap EXCEPT ![roomName[s]] = OneLess(r[s])]
      /\ roomName' = roomName /\ EndSession(s)
  BY DEF LeaveWrite, At
<1>2. /\ pc \in [Sessions -> Labels] /\ roomInfoMap \in [Rooms -> Entries]
      /\ userNum \in [Sessions -> 0..2] /\ otherCws \in [Sessions -> Sessions \cup {Nil}]
      /\ r \in [Sessions -> Entries] /\ wire \in [Sessions -> Seq(Messages)]
  BY DEF IsoInv, TypeOK
<1>3. /\ Stands(s, "done") /\ \A t \in Sessions \ {s} : wire'[t] = wire[t]
  BY <1>1, <1>2 DEF EndSession, Goto, Stands
<1>4. ASSUME NEW t \in Here(x), IntroducedOn(wire', t) PROVE Met(t, x)
  <2>1. t \in Sessions
    BY DEF Here
  <2>2. CASE t = s
    <3>1. wire'[s] = <<>>
      BY <1>1, <1>2 DEF EndSession
    <3>2. QED
      BY <1>4, <2>2, <3>1 DEF IntroducedOn
  <2>3. CASE t # s
    BY <1>3, <1>4, <2>1, <2>3 DEF IntroducedOn, Met
  <2>4. QED
    BY <2>2, <2>3
<1>5. CASE roomName[s] # x
  <2>1. roomInfoMap'[x] = roomInfoMap[x]
    BY <1>1, <1>2, <1>5
  <2>2. QED
    BY <1>3, <1>4, <2>1, MovesPeer
<1>6. CASE roomName[s] = x
  <2>1. s \in Holders(x) /\ s \in Members(x)
    BY <1>1, <1>6 DEF Holders, Holding, Members
  <2>2. roomInfoMap'[x] = OneLess(roomInfoMap[x])
    BY <1>1, <1>2, <1>6, <2>1 DEF CountInv, RoomCounted, CopyIsCurrent
  <2>3. roomInfoMap[x] \in Entries
    BY <1>2
  <2>4. CASE roomInfoMap[x].users > 1
    <3>1. OneLess(roomInfoMap[x]) = [roomInfoMap[x] EXCEPT !.users = @ - 1]
      BY <2>4 DEF OneLess
    <3>2. OneLess(roomInfoMap[x]).cws = roomInfoMap[x].cws
      BY <2>3, <3>1 DEF Entries
    <3>3. roomInfoMap[x].users > 0
      BY <2>1, MemberCounts
    <3>4. QED
      BY <1>3, <1>4, <2>2, <3>2, <3>3, MovesPeer
  <2>5. CASE ~(roomInfoMap[x].users > 1)
    <3>1. roomInfoMap'[x].users = 0
      <4>1. OneLess(roomInfoMap[x]) = Absent
        BY <2>5, Zenon DEF OneLess
      <4>2. roomInfoMap'[x] = Absent
        BY <2>2, <4>1
      <4>3. Absent.users = 0
        BY DEF Absent
      <4>4. QED
        BY <4>2, <4>3
    <3>2. roomInfoMap[x].users \in 0..2 /\ roomInfoMap[x].users > 0
      BY <2>1, <2>3, EntryFields, MemberCounts
    <3>3. Members(x) = {s}
      BY <2>1, <2>5, <3>2 DEF CountInv, RoomCounted, CountIs
    <3>4. Holders(x) = {s}
      BY <2>1 DEF CountInv, RoomCounted, Holders
    <3>5. Here(x) \subseteq {s}
      BY <3>3, <3>4, HereIs
    <3>6. Here(x)' = {}
      BY <1>3, <3>5 DEF Stands, Here
    <3>7. QED
      BY <3>1, <3>6 DEF PeerOf
  <2>6. QED
    BY <2>4, <2>5
<1>7. QED
  BY <1>5, <1>6

-----------------------------------------------------------------------------
(* The subscriptions.                                                      *)

\* For the rooms it does not enter, s changes nothing.
LEMMA ElsewherePeer ==
    ASSUME IsoInv, NEW s \in Sessions, NEW y \in Rooms, roomName[s] = Nil,
           roomName' = [roomName EXCEPT ![s] = y],
           \A t \in Sessions \ {s} : /\ pc'[t] = pc[t] /\ userNum'[t] = userNum[t]
                                    /\ otherCws'[t] = otherCws[t] /\ r'[t] = r[t],
           roomInfoMap' = roomInfoMap, wire' = wire,
           NEW x \in Rooms, x # y, PeerOf(x)
    PROVE  PeerOf(x)'
<1>1. roomName \in [Sessions -> Rooms \cup {Nil}]
  BY DEF IsoInv, TypeOK
<1>2. ASSUME NEW t \in Here(x)' PROVE Peaceful(t, x)
  <2>1. t \in Sessions /\ roomName'[t] = x /\ pc'[t] # "done"
    BY DEF Here
  <2>2. t # s
    BY <1>1, <2>1
  <2>3. roomName[t] = x /\ pc'[t] = pc[t]
    BY <1>1, <2>1, <2>2
  <2>4. t \in Here(x)
    BY <2>1, <2>3 DEF Here
  <2>5. userNum'[t] = userNum[t] /\ otherCws'[t] = otherCws[t] /\ r'[t] = r[t]
    BY <2>1, <2>2
  <2>6. IntroducedOn(wire', t) => Met(t, x)
    BY DEF Met, IntroducedOn
  <2>7. QED
    BY <2>3, <2>4, <2>5, <2>6 DEF Peaceful
<1>3. QED
  BY <1>2, SteadyPeer

\* What a subscription finds in a room that is calm after it: nobody arriving.
LEMMA QuietLookup ==
    ASSUME IsoInv, CountInv, NEW x \in Rooms, NoteRace(x), Calm(x), Calm(x)'
    PROVE  /\ Holders(x) = {} /\ Here(x) = Members(x)
           /\ \A t \in Here(x) : t \in Sessions /\ roomName[t] = x /\ pc[t] \notin Arriving
<1>1. Holders(x) = {}
  BY DEF NoteRace, Calm
<1>2. ASSUME NEW t \in Here(x) PROVE t \in Members(x) /\ t \in Sessions /\ roomName[t] = x
  BY <1>1, HereIs
<1>3. \A t \in Members(x) : t \in Here(x) /\ pc[t] \notin Arriving
  BY DEF Members, Here, Arriving
<1>4. QED
  BY <1>1, <1>2, <1>3

\* The founder of a room is alone in it.
LEMMA SubscribeNewPeer ==
    ASSUME IsoInv, CountInv, NEW s \in Sessions, NEW y \in Rooms, NEW lt \in LinkTypes,
           SubscribeNew(s, y, lt), NEW x \in Rooms, Calm(x), Calm(x)', PeerOf(x)
    PROVE  PeerOf(x)'
<1>1. /\ pc[s] = "receive" /\ roomName[s] = Nil /\ roomInfoMap[y].users = 0
      /\ roomName' = [roomName EXCEPT ![s] = y] /\ userNum' = [userNum EXCEPT ![s] = 1]
      /\ r' = [r EXCEPT ![s] = Founded(s, lt)] /\ NoteRace(y)
      /\ pc' = [pc EXCEPT ![s] = "create"]
      /\ roomInfoMap' = roomInfoMap /\ otherCws' = otherCws /\ wire' = wire
  BY DEF SubscribeNew, MaySubscribe, Receiving, Goto
<1>2. /\ pc \in [Sessions -> Labels] /\ roomName \in [Sessions -> Rooms \cup {Nil}]
      /\ r \in [Sessions -> Entries] /\ userNum \in [Sessions -> 0..2]
  BY DEF IsoInv, TypeOK
<1>3. CASE x # y
  BY <1>1, <1>2, <1>3, ElsewherePeer
<1>4. CASE x = y
  <2>1. Here(x) = Members(x) /\ roomInfoMap[x].users = 0
    BY <1>1, <1>4, QuietLookup
  <2>2. Members(x) = {}
    BY <2>1 DEF CountInv, RoomCounted, CountIs
  <2>3. Here(x)' = {s}
    <3>1. \A t \in Sessions \ {s} : pc'[t] = pc[t] /\ roomName'[t] = roomName[t]
      BY <1>1, <1>2
    <3>2. pc'[s] = "create" /\ roomName'[s] = x
      BY <1>1, <1>2, <1>4
    <3>3. QED
      BY <2>1, <2>2, <3>1, <3>2 DEF Here
  <2>4. pc'[s] = "create" /\ userNum'[s] = 1 /\ r'[s].cws = s
    BY <1>1, <1>2 DEF Founded
  <2>5. /\ ~IntroducedOn(wire, s) /\ otherCws[s] = Nil /\ s # Nil
        /\ roomInfoMap[x].cws # s
    BY <1>1, NilAssumption, Unknown
  <2>6. FounderOf(s, x)'
    BY <1>1, <2>3, <2>4, <2>5 DEF FounderOf, Arriving
  <2>7. SessionOf(s, x)'
    BY <1>1, <2>4, <2>5, <2>6 DEF SessionOf
  <2>8. QED
    BY <1>1, <2>1, <2>3, <2>7 DEF PeerOf
<1>5. QED
  BY <1>3, <1>4

\* A joiner knows the one that is in the entry, and nobody knows the joiner.
LEMMA SubscribeFoundPeer ==
    ASSUME IsoInv, CountInv, NEW s \in Sessions, NEW y \in Rooms, NEW lt \in LinkTypes,
           SubscribeFound(s, y, lt), NEW x \in Rooms, Calm(x), Calm(x)', PeerOf(x)
    PROVE  PeerOf(x)'
<1>1. /\ pc[s] = "receive" /\ roomName[s] = Nil /\ roomInfoMap[y].users > 0
      /\ roomName' = [roomName EXCEPT ![s] = y] /\ userNum' = [userNum EXCEPT ![s] = 2]
      /\ r' = [r EXCEPT ![s] = Joined(s, lt, roomInfoMap[y])] /\ NoteRace(y)
      /\ pc' = [pc EXCEPT ![s] = "store"]
      /\ roomInfoMap' = roomInfoMap /\ wire' = wire
      /\ otherCws' = [otherCws EXCEPT ![s] = IF @ = Nil THEN roomInfoMap[y].cws ELSE @]
  BY DEF SubscribeFound, MaySubscribe, Receiving, Goto
<1>2. /\ pc \in [Sessions -> Labels] /\ roomName \in [Sessions -> Rooms \cup {Nil}]
      /\ r \in [Sessions -> Entries] /\ userNum \in [Sessions -> 0..2]
      /\ otherCws \in [Sessions -> Sessions \cup {Nil}]
  BY DEF IsoInv, TypeOK
<1>3. \A t \in Sessions \ {s} : /\ pc'[t] = pc[t] /\ userNum'[t] = userNum[t]
                               /\ otherCws'[t] = otherCws[t] /\ r'[t] = r[t]
                               /\ roomName'[t] = roomName[t]
  BY <1>1, <1>2
<1>4. CASE x # y
  BY <1>1, <1>3, <1>4, ElsewherePeer
<1>5. CASE x = y
  <2>1. \A t \in Here(x) : t \in Sessions /\ pc[t] \notin Arriving /\ SessionOf(t, x)
    BY <1>1, <1>5, QuietLookup DEF PeerOf
  <2>2. roomInfoMap[x].cws \notin {Nil, s} /\ otherCws[s] = Nil
    BY <1>1, <1>5, Unknown DEF PeerOf
  <2>3. /\ pc'[s] = "store" /\ userNum'[s] = 2 /\ otherCws'[s] = roomInfoMap[x].cws
        /\ r'[s].cws = s
    BY <1>1, <1>2, <1>5, <2>2 DEF Joined
  <2>4. s \notin Here(x) /\ Here(x)' = Here(x) \cup {s}
    <3>1. roomName'[s] = x
      BY <1>1, <1>2, <1>5
    <3>2. QED
      BY <1>1, <1>3, <2>3, <3>1, NilAssumption DEF Here
  <2>5. SessionOf(s, x)'
    BY <1>1, <2>2, <2>3 DEF SessionOf
  <2>6. ASSUME NEW t \in Here(x) PROVE SessionOf(t, x)'
    <3>1. t \in Sessions /\ t # s /\ pc[t] \notin Arriving /\ SessionOf(t, x)
      BY <2>1, <2>4
    <3>2. pc'[t] = pc[t] /\ userNum'[t] = userNum[t] /\ otherCws'[t] = otherCws[t]
      BY <1>3, <3>1
    <3>3. Met(t, x)' => Met(t, x)
      BY <1>1, <1>3, <2>1, <2>3, <2>4 DEF Met
    <3>4. FounderOf(t, x) => FounderOf(t, x)'
      BY <1>1, <3>1, <3>2, <3>3 DEF FounderOf
    <3>5. QED
      BY <3>1, <3>2, <3>4 DEF SessionOf
  <2>7. \A t, u \in Here(x)' : userNum'[t] = 1 /\ userNum'[u] = 1 => t = u
    BY <1>3, <2>1, <2>3, <2>4 DEF PeerOf
  <2>8. QED
    BY <1>1, <2>2, <2>4, <2>5, <2>6, <2>7 DEF PeerOf
<1>6. QED
  BY <1>4, <1>5

-----------------------------------------------------------------------------
\* Nobody is anywhere at the start.
LEMMA PeerInit == Init => PeerInv
<1> SUFFICES ASSUME Init, NEW x \in Rooms PROVE PeerOf(x)
  BY DEF PeerInv
<1>1. Here(x) = {}
  BY NilAssumption DEF Init, Here
<1>2. roomInfoMap[x].users = 0
  BY DEF Init, Absent
<1>3. QED
  BY <1>1, <1>2 DEF PeerOf

\* One lemma per step, or group of steps, adds up to the induction step.
LEMMA PeerStep == IsoInv /\ CountInv /\ PeerInv /\ [Next]_vars => PeerInv'
<1> SUFFICES ASSUME IsoInv, CountInv, PeerInv, [Next]_vars, NEW x \in Rooms, Calm(x)'
             PROVE  PeerOf(x)'
  BY DEF PeerInv
<1>1. Calm(x) /\ PeerOf(x) /\ IsoInv'
  BY CalmBefore, IsoStep DEF PeerInv
<1>2. CASE UNCHANGED vars
  BY <1>1, <1>2, StillPeer DEF vars, handler, history
<1>3. ASSUME NEW s \in Sessions, Serve(s) PROVE PeerOf(x)'
  <2>1. CASE Subscribe(s)
    <3>1. PICK y \in Rooms, lt \in Asks : SubscribeNew(s, y, lt) \/ SubscribeFound(s, y, lt)
      BY <2>1 DEF Subscribe
    <3>2. lt \in LinkTypes
      BY AsksAssumption DEF LinkTypes
    <3>3. QED
      BY <1>1, <3>1, <3>2, SubscribeNewPeer, SubscribeFoundPeer
  <2>2. QED
    BY <1>1, <1>3, <2>1, EndsPeer, QuietPeer, RecvForwardPeer DEF Serve
<1>4. ASSUME NEW s \in Sessions, Continue(s) PROVE PeerOf(x)'
  BY <1>1, <1>4, TalkPeer, EndsPeer, QuietPeer, StoreRoomPeer, LeaveWritePeer DEF Continue
<1>5. ASSUME NEW s \in Sessions, Outside(s) PROVE PeerOf(x)'
  BY <1>1, <1>5, QuietPeer DEF Outside
<1>6. QED
  BY <1>2, <1>3, <1>4, <1>5 DEF Next

\* The three invariants hold throughout.
LEMMA PeerAlways == Spec => [](IsoInv /\ CountInv /\ PeerInv)
<1>1. Init => IsoInv /\ CountInv /\ PeerInv
  BY IsoInit, CountInit, PeerInit
<1>2. IsoInv /\ CountInv /\ PeerInv /\ [Next]_vars => IsoInv' /\ CountInv' /\ PeerInv'
  BY IsoStep, CountStep, PeerStep
<1>3. QED
  BY <1>1, <1>2, PTL DEF Spec

\* In a calm room no forward is sent to the nil connection, which would panic the
\* server, nor back to its sender (rtcSignaling.go:285-294, 448).
THEOREM ForwardsHavePeers == Spec => []ForwardHasPeer
<1>1. IsoInv /\ CountInv /\ PeerInv => ForwardHasPeer
  <2> SUFFICES ASSUME IsoInv, PeerInv, NEW s \in Sessions, Calm(roomName[s]), pc[s] = "forward"
               PROVE  otherCws[s] \notin {Nil, s}
    BY DEF ForwardHasPeer
  <2>1. roomName[s] \in Rooms
    BY DEF IsoInv, HandlersWithin, NeedsRoom
  <2>2. s \in Here(roomName[s])
    BY DEF Here
  <2>3. QED
    BY <2>1, <2>2 DEF PeerInv, PeerOf, SessionOf
<1>2. QED
  BY <1>1, PeerAlways, PTL
-----------------------------------------------------------------------------
(* The sockets.                                                            *)

\* Who is gone is sent nothing more.
NetOf(s) == /\ pc[s] = "new" => net[s] = "none" /\ wire[s] = <<>>
            /\ pc[s] \in {"teardown", "leave", "done"} => net[s] # "open"
            /\ pc[s] = "done" => wire[s] = <<>>

NetInv == \A s \in Sessions : NetOf(s)

\* A socket that is not open receives nothing.
LEMMA SentClosed ==
    ASSUME NEW w \in Wires, NEW c, NEW m, NEW t \in Sessions, net[t] # "open"
    PROVE  Sent(w, c, m)[t] = w[t]
  BY DEF Sent, Wires

\* Steps that touch no socket.
LEMMA StillNet ==
    ASSUME IsoInv, NetInv, NEW s \in Sessions, NEW l \in Labels \ {"new", "done"},
           pc' = pc \/ Goto(s, l), l \in {"teardown", "leave"} => net[s] # "open",
           net' = net, \A t \in Sessions : net[t] # "open" => wire'[t] = wire[t]
    PROVE  NetInv'
<1>1. pc \in [Sessions -> Labels]
  BY DEF IsoInv, TypeOK
<1>2. ASSUME NEW t \in Sessions PROVE NetOf(t)'
  <2>1. CASE t = s
    BY <1>1, <2>1 DEF NetInv, NetOf, Goto
  <2>2. CASE t # s
    BY <1>1, <2>2 DEF NetInv, NetOf, Goto
  <2>3. QED
    BY <2>1, <2>2
<1>3. QED
  BY <1>2 DEF NetInv

\* What handlers send reaches open sockets only.
LEMMA TalkNet ==
    ASSUME IsoInv, NEW s \in Sessions,
           \/ RecvConnect(s) \/ TellCreator(s) \/ TellJoiner(s) \/ TellOther(s)
           \/ Forward(s) \/ RecvEOF(s),
           NEW t \in Sessions, net[t] # "open"
    PROVE  wire'[t] = wire[t]
<1>1. wire \in Wires
  BY OtherWithin
<1>2. CASE RecvConnect(s) \/ TellCreator(s) \/ TellJoiner(s) \/ TellOther(s) \/ RecvEOF(s)
  BY <1>1, <1>2, SentClosed DEF RecvConnect, TellCreator, TellJoiner, TellOther, RecvEOF
<1>3. CASE Forward(s)
  <2>1. PICK m \in Outcomes(s) :
          LET both(w) == Sent(Sent(w, s, Notice(m)), otherCws[s], Notice(m))
              told    == IF userNum[s] < 2 THEN both(wire) ELSE wire
          IN wire' = Sent(told, otherCws[s], Forwarded(s, m))
    BY <1>3 DEF Forward
  <2> DEFINE own  == Sent(wire, s, Notice(m))
             both == Sent(own, otherCws[s], Notice(m))
             told == IF userNum[s] < 2 THEN both ELSE wire
  <2>2. m \in {"p2p", "relayed", "unpatched"}
    BY DEF Outcomes
  <2>3. Notice(m) \in Messages /\ Forwarded(s, m) \in Messages
    BY <2>2, MessageTypes
  <2>4. own \in Wires /\ own[t] = wire[t]
    BY <1>1, <2>3, SentType, SentClosed
  <2>5. both \in Wires /\ both[t] = wire[t]
    BY <2>3, <2>4, SentType, SentClosed
  <2>6. told \in Wires /\ told[t] = wire[t]
    BY <1>1, <2>5
  <2>7. wire' = Sent(told, otherCws[s], Forwarded(s, m))
    BY <2>1
  <2> HIDE DEF own, both, told
  <2>8. QED
    BY <2>6, <2>7, SentClosed
<1>4. QED
  BY <1>2, <1>3

\* The session is over, for handler and client.
LEMMA EndsNet ==
    ASSUME IsoInv, NetInv, NEW s \in Sessions, LeaveNoRoom(s) \/ LeaveWrite(s)
    PROVE  NetInv'
<1>1. pc[s] \in {"teardown", "leave"} /\ EndSession(s) /\ net' = net
  BY DEF LeaveNoRoom, LeaveWrite, At
<1>2. /\ pc' = [pc EXCEPT ![s] = "done"] /\ wire' = [wire EXCEPT ![s] = <<>>]
      /\ pc \in [Sessions -> Labels] /\ wire \in [Sessions -> Seq(Messages)]
  BY <1>1 DEF EndSession, Goto, IsoInv, TypeOK
<1>3. ASSUME NEW t \in Sessions PROVE NetOf(t)'
  <2>1. NetOf(t)
    BY DEF NetInv
  <2>2. CASE t = s
    <3>1. pc'[t] = "done" /\ wire'[t] = <<>> /\ net'[t] # "open"
      BY <1>1, <1>2, <2>1, <2>2 DEF NetOf
    <3>2. QED
      BY <3>1 DEF NetOf
  <2>3. CASE t # s
    <3>1. pc'[t] = pc[t] /\ wire'[t] = wire[t] /\ net'[t] = net[t]
      BY <1>1, <1>2, <2>3
    <3>2. QED
      BY <2>1, <3>1 DEF NetOf
  <2>4. QED
    BY <2>2, <2>3
<1>4. QED
  BY <1>3 DEF NetInv

\* The world outside opens, closes and breaks a socket.
LEMMA OutsideNet ==
    ASSUME IsoInv, NetInv, NEW s \in Sessions,
           Open(s) \/ OpenFails(s) \/ ClientCloses(s) \/ NetBreaks(s)
    PROVE  NetInv'
<1>1. /\ pc \in [Sessions -> Labels] /\ wire \in [Sessions -> Seq(Messages)]
      /\ net \in [Sessions -> {"none", "open", "eof", "reset"}] /\ NetOf(s)
  BY DEF IsoInv, TypeOK, NetInv
<1>2. ASSUME NEW t \in Sessions \ {s} PROVE NetOf(t)'
  <2>1. pc'[t] = pc[t] /\ net'[t] = net[t] /\ wire'[t] = wire[t]
    BY <1>1 DEF Open, OpenFails, ClientCloses, NetBreaks, Goto
  <2>2. QED
    BY <2>1 DEF NetInv, NetOf
<1>3. NetOf(s)'
  <2>1. CASE Open(s)
    <3>1. pc'[s] = "receive"
      BY <1>1, <2>1 DEF Open, Goto
    <3>2. QED
      BY <3>1 DEF NetOf
  <2>2. CASE OpenFails(s)
    <3>1. pc'[s] = "done" /\ net'[s] = "reset" /\ wire'[s] = wire[s] /\ pc[s] = "new"
      BY <1>1, <2>2 DEF OpenFails, Goto, At
    <3>2. QED
      BY <1>1, <3>1 DEF NetOf
  <2>3. CASE ClientCloses(s) \/ NetBreaks(s)
    <3>1. pc'[s] = pc[s] /\ net[s] = "open" /\ net'[s] # "open" /\ wire'[s] = wire[s]
      BY <1>1, <2>3 DEF ClientCloses, NetBreaks
    <3>2. QED
      BY <1>1, <3>1 DEF NetOf
  <2>4. QED
    BY <2>1, <2>2, <2>3
<1>4. QED
  BY <1>2, <1>3 DEF NetInv

LEMMA NetStep == IsoInv /\ NetInv /\ [Next]_vars => NetInv'
<1> SUFFICES ASSUME IsoInv, NetInv, [Next]_vars PROVE NetInv'
  OBVIOUS
<1>1. CASE UNCHANGED vars
  BY <1>1 DEF vars, NetInv, NetOf
<1>2. ASSUME NEW s \in Sessions, Serve(s) PROVE NetInv'
  <2>1. CASE Open(s) \/ OpenFails(s)
    BY <2>1, OutsideNet
  <2>2. CASE RecvConnect(s)
    <3>1. pc' = pc /\ net' = net
      BY <2>2 DEF RecvConnect
    <3>2. QED
      BY <2>2, <3>1, TalkNet, StillNet DEF Labels
  <2>3. CASE Subscribe(s)
    <3>1. /\ Goto(s, "create") \/ Goto(s, "store")
          /\ net' = net /\ wire' = wire
      BY <2>3 DEF Subscribe, SubscribeNew, SubscribeFound
    <3>2. QED
      BY <3>1, StillNet DEF Labels
  <2>4. CASE RecvForward(s)
    <3>1. Goto(s, "forward") /\ net' = net /\ wire' = wire
      BY <2>4 DEF RecvForward
    <3>2. QED
      BY <3>1, StillNet DEF Labels
  <2>5. QED
    BY <1>2, <2>1, <2>2, <2>3, <2>4 DEF Serve
<1>3. ASSUME NEW s \in Sessions, Continue(s) PROVE NetInv'
  <2>1. CASE TellCreator(s) \/ TellJoiner(s) \/ TellOther(s) \/ Forward(s) \/ RecvEOF(s)
    <3>1. PICK l \in {"store", "notify", "receive", "teardown"} :
             Goto(s, l) /\ (l = "teardown" => net[s] # "open")
      BY <2>1 DEF TellCreator, TellJoiner, TellOther, Forward, RecvEOF
    <3>2. net' = net
      BY <2>1 DEF TellCreator, TellJoiner, TellOther, Forward, RecvEOF
    <3>3. l \in Labels \ {"new", "done"} /\ (l \in {"teardown", "leave"} => net[s] # "open")
      BY <3>1 DEF Labels
    <3>4. \A t \in Sessions : net[t] # "open" => wire'[t] = wire[t]
      BY <2>1, TalkNet
    <3>5. QED
      BY <3>1, <3>2, <3>3, <3>4, StillNet
  <2>2. CASE StoreRoom(s) \/ RecvError(s) \/ LeaveRead(s)
    <3>1. PICK l \in {"receive", "reply", "teardown", "leave"} :
             Goto(s, l) /\ (l \in {"teardown", "leave"} => net[s] # "open")
      BY <2>2 DEF StoreRoom, RecvError, LeaveRead, At, NetInv, NetOf
    <3>2. net' = net /\ wire' = wire
      BY <2>2 DEF StoreRoom, RecvError, LeaveRead
    <3>3. l \in Labels \ {"new", "done"}
      BY <3>1 DEF Labels
    <3>4. QED
      BY <3>1, <3>2, <3>3, StillNet
  <2>3. CASE ForwardToNil(s)
    BY <2>3, StillNet DEF ForwardToNil, Labels
  <2>4. QED
    BY <1>3, <2>1, <2>2, <2>3, EndsNet DEF Continue
<1>4. ASSUME NEW s \in Sessions, Outside(s) PROVE NetInv'
  <2>1. CASE \E t \in Sessions : MapAbort(s, t)
    BY <2>1 DEF MapAbort, NetInv, NetOf
  <2>2. QED
    BY <1>4, <2>1, OutsideNet DEF Outside
<1>5. QED
  BY <1>1, <1>2, <1>3, <1>4 DEF Next

\* Nobody is on a socket, or has been sent anything, at the start.
LEMMA NetInit == Init => NetInv
  BY DEF Init, NetInv, NetOf

-----------------------------------------------------------------------------
(* The notice that the other is gone.                                      *)

\* A calm room has at most two in it, those on their way in included.
LEMMA TwoHere ==
    ASSUME IsoInv, CountInv, NEW x \in Rooms, Calm(x),
           NEW s \in Here(x), NEW t \in Here(x), s # t, NEW u \in Here(x)
    PROVE  u \in {s, t}
<1>1. /\ CountIs(roomInfoMap[x].users, Members(x))
      /\ \A h, k \in Holders(x) : h = k
      /\ \A h \in Holders(x) : CopyIsCurrent(h)
  BY DEF CountInv, RoomCounted
<1>2. \A h \in Here(x) : h \in Members(x) \/ (pc[h] \in Arriving /\ h \in Holders(x))
  BY HereIs
<1>3. CASE \E h \in Here(x) : h \notin Members(x)
  <2>1. PICK h \in Here(x) : h \notin Members(x)
    BY <1>3
  <2>2. h \in Holders(x) /\ pc[h] \in Arriving /\ roomName[h] = x
    BY <1>2, <2>1 DEF Holders
  <2>3. roomInfoMap[x].users \in {0, 1}
    BY <1>1, <2>2 DEF CopyIsCurrent, Arriving
  <2>4. \A a, b \in Members(x) : a = b
    BY <1>1, <2>3 DEF CountIs
  <2>5. \A k \in Here(x) : k = h \/ k \in Members(x)
    BY <1>1, <1>2, <2>2
  <2>6. QED
    BY <2>4, <2>5
<1>4. CASE \A h \in Here(x) : h \in Members(x)
  BY <1>1, <1>4 DEF CountIs
<1>5. QED
  BY <1>3, <1>4

\* What is new on a wire is one of the messages at its end.
LEMMA NewsOnWire ==
    ASSUME NEW w \in Seq(Messages), NEW v \in Seq(Messages),
           NEW i \in DOMAIN SubSeq(v, Len(w) + 1, Len(v))
    PROVE  \E j \in DOMAIN v : j \notin DOMAIN w /\ SubSeq(v, Len(w) + 1, Len(v))[i] = v[j]
<1> DEFINE m == Len(w) + 1
           n == Len(v)
<1>1. m \in Nat /\ n \in Nat /\ m > 0
  OBVIOUS
<1>2. \A k \in m..n : v[k] \in Messages
  OBVIOUS
<1>3. /\ SubSeq(v, m, n) \in Seq(Messages)
      /\ Len(SubSeq(v, m, n)) = IF m <= n THEN n - m + 1 ELSE 0
      /\ \A k \in 1..(n - m + 1) : SubSeq(v, m, n)[k] = v[m + k - 1]
  BY <1>1, <1>2, SubSeqProperties
<1>4. i \in 1..Len(SubSeq(v, m, n))
  BY <1>3
<1>5. i \in 1..(n - m + 1) /\ SubSeq(v, m, n)[i] = v[m + i - 1]
  BY <1>1, <1>3, <1>4
<1>6. m + i - 1 \in DOMAIN v /\ m + i - 1 \notin DOMAIN w
  BY <1>1, <1>5
<1>7. QED
  BY <1>5, <1>6

\* "offline" reaches an open socket only, from the one that has lost its own.
LEMMA OfflineSent ==
    ASSUME IsoInv, NEW s \in Sessions, Serve(s) \/ Continue(s) \/ Outside(s),
           NEW t \in Sessions, NEW j \in DOMAIN wire'[t], j \notin DOMAIN wire[t],
           wire'[t][j].cmd = "offline"
    PROVE  net[s] = "eof" /\ pc[s] = "receive" /\ otherCws[s] = t /\ net[t] = "open"
<1>1. /\ wire \in Wires /\ wire \in [Sessions -> Seq(Messages)]
      /\ r[s] \in Entries /\ myClientId[s] \in Sessions \cup {Nil}
  BY OtherWithin DEF IsoInv, TypeOK
<1>2. r[s].clientId \in Sessions \cup {Nil}
  BY <1>1, EntryFields
<1>3. /\ \A cmd : Plain(cmd).cmd = cmd
      /\ \A id : RoomClients(id).cmd = "roomclients" /\ Online(id).cmd = "online"
  BY DEF Plain, RoomClients, Online
<1>4. ASSUME NEW c, NEW m \in Messages, m.cmd # "offline", wire' = Sent(wire, c, m) PROVE FALSE
  BY <1>1, <1>4, SentContents
<1>5. CASE RecvConnect(s)
  BY <1>3, <1>4, <1>5, MessageTypes DEF RecvConnect
<1>6. CASE TellCreator(s) \/ TellJoiner(s) \/ TellOther(s)
  BY <1>1, <1>2, <1>3, <1>4, <1>6, MessageTypes DEF TellCreator, TellJoiner, TellOther
<1>7. CASE Forward(s)
  <2>1. PICK m \in Outcomes(s), told \in Wires :
            /\ Forwarded(s, m) \in Messages
            /\ wire' = Sent(told, otherCws[s], Forwarded(s, m))
            /\ \A u \in Sessions : \A i \in DOMAIN told[u] :
                  \/ i \in DOMAIN wire[u] /\ told[u][i] = wire[u][i]
                  \/ told[u][i].cmd = "notice"
    BY <1>7, ForwardWires
  <2>2. Forwarded(s, m).cmd = "forward"
    BY DEF Forwarded
  <2>3. (j \in DOMAIN told[t] /\ wire'[t][j] = told[t][j]) \/ wire'[t][j] = Forwarded(s, m)
    BY <2>1, SentContents
  <2>4. QED
    BY <2>1, <2>2, <2>3
<1>8. CASE RecvEOF(s)
  <2>1. net[s] = "eof" /\ pc[s] = "receive"
    BY <1>8 DEF RecvEOF, At
  <2>2. wire' = Sent(wire, otherCws[s], Plain("offline"))
    BY <1>8 DEF RecvEOF
  <2>3. t = otherCws[s]
    BY <1>1, <2>2, MessageTypes, SentContents
  <2>4. net[t] = "open"
    BY <2>2, <2>3 DEF Sent
  <2>5. QED
    BY <2>1, <2>3, <2>4
<1>9. CASE Open(s)
  <2>1. wire' = [wire EXCEPT ![s] = <<Plain("connect")>>]
    BY <1>9 DEF Open
  <2>2. t = s /\ wire'[t] = <<Plain("connect")>>
    BY <1>1, <2>1
  <2>3. wire'[t][j] = Plain("connect")
    BY <2>2
  <2>4. QED
    BY <1>3, <2>3
<1>10. CASE LeaveNoRoom(s) \/ LeaveWrite(s)
  <2>1. wire' = [wire EXCEPT ![s] = <<>>]
    BY <1>10 DEF LeaveNoRoom, LeaveWrite, EndSession
  <2>2. t = s /\ wire'[t] = <<>>
    BY <1>1, <2>1
  <2>3. QED
    BY <2>2
<1>11. CASE ~(\/ RecvConnect(s) \/ TellCreator(s) \/ TellJoiner(s) \/ TellOther(s) \/ Forward(s)
              \/ RecvEOF(s) \/ Open(s) \/ LeaveNoRoom(s) \/ LeaveWrite(s))
  <2>1. wire' = wire
    BY <1>11 DEF Serve, Continue, Outside, OpenFails, Subscribe, SubscribeNew, SubscribeFound,
       RecvForward, StoreRoom, RecvError, LeaveRead, ForwardToNil, ClientCloses, NetBreaks,
       MapAbort
  <2>2. QED
    BY <2>1
<1>12. QED
  BY <1>5, <1>6, <1>7, <1>8, <1>9, <1>10, <1>11

\* In a calm room nobody is told "offline" while its peer is connected
\* (rtcSignaling.go:150-155): the one that goes is the peer.
THEOREM OfflineMeansGone == Spec => OfflineIsTrue
<1> DEFINE News(s) == SubSeq(wire'[s], Len(wire[s]) + 1, Len(wire'[s]))
           True(s) == (\E i \in DOMAIN News(s) : News(s)[i].cmd = "offline") /\ Calm(roomName[s])
                         => otherCws[s] = Nil \/ net[otherCws[s]] # "open"
<1>1. IsoInv /\ CountInv /\ PeerInv /\ NetInv /\ IsoInv' /\ [Next]_vars
         => [\A s \in Sessions : True(s)]_vars
  <2> SUFFICES ASSUME IsoInv, CountInv, PeerInv, NetInv, IsoInv', Next, NEW t \in Sessions,
                      NEW i \in DOMAIN News(t), News(t)[i].cmd = "offline", Calm(roomName[t]),
                      otherCws[t] # Nil
               PROVE  net[otherCws[t]] # "open"
    OBVIOUS
  <2>1. wire[t] \in Seq(Messages) /\ wire'[t] \in Seq(Messages)
    BY DEF IsoInv, TypeOK
  <2>2. PICK j \in DOMAIN wire'[t] : j \notin DOMAIN wire[t] /\ wire'[t][j].cmd = "offline"
    <3>1. PICK w \in Seq(Messages), v \in Seq(Messages) : w = wire[t] /\ v = wire'[t]
      BY <2>1
    <3>2. i \in DOMAIN SubSeq(v, Len(w) + 1, Len(v))
      BY <3>1
    <3>3. \E j \in DOMAIN v : j \notin DOMAIN w /\ SubSeq(v, Len(w) + 1, Len(v))[i] = v[j]
      BY <3>2, NewsOnWire
    <3>4. QED
      BY <3>1, <3>3
  <2>3. PICK s \in Sessions : Serve(s) \/ Continue(s) \/ Outside(s)
    BY DEF Next
  <2>4. net[s] = "eof" /\ pc[s] = "receive" /\ otherCws[s] = t /\ net[t] = "open"
    BY <2>2, <2>3, OfflineSent
  <2>5. PICK x \in Rooms : roomName[s] = x /\ roomName[t] = x
    BY <2>4, OtherWithin
  <2>6. s \in Here(x) /\ t \in Here(x) /\ s # t
    BY <2>4, <2>5 DEF Here, NetInv, NetOf
  <2>7. PICK u \in Sessions : u = otherCws[t] /\ roomName[u] = x
    BY <2>5, OtherWithin DEF IsoInv, TypeOK
  <2>8. CASE pc[u] = "done"
    BY <2>7, <2>8 DEF NetInv, NetOf
  <2>9. CASE pc[u] # "done"
    <3>1. u \in {s, t}
      BY <2>5, <2>6, <2>7, <2>9, TwoHere DEF Here
    <3>2. SessionOf(t, x)
      BY <2>5, <2>6 DEF PeerInv, PeerOf
    <3>3. u # t
      BY <2>7, <3>2, NilAssumption DEF SessionOf, FounderOf
    <3>4. QED
      BY <2>4, <2>7, <3>1, <3>3
  <2>10. QED
    BY <2>8, <2>9
<1>2. Init => IsoInv /\ CountInv /\ PeerInv /\ NetInv
  BY IsoInit, CountInit, PeerInit, NetInit
<1>3. IsoInv /\ CountInv /\ PeerInv /\ NetInv /\ [Next]_vars
         => IsoInv' /\ CountInv' /\ PeerInv' /\ NetInv'
  BY IsoStep, CountStep, PeerStep, NetStep
<1>4. QED
  BY <1>1, <1>2, <1>3, PTL DEF Spec, OfflineIsTrue

-----------------------------------------------------------------------------
(***************************************************************************)
(* That the clients of a calm room agree on the link                       *)
(* (RoomServer!LinkAgreement), for any number of sessions and rooms.       *)
(*                                                                         *)
(* A handler works with the link type it took when it subscribed or when   *)
(* it first forwarded, and the map with the one last stored.  The two meet *)
(* because a joiner stores the type it works with, and because the one who *)
(* waits takes the type and the connection from the same entry.            *)
(***************************************************************************)

Agreed(lt, st) == IF lt = st THEN lt ELSE "relayed"

\* An entry says p2p only if all who are in the room asked for it.
LinkEntry(x) ==
    roomInfoMap[x].users > 0 =>
        /\ roomInfoMap[x].linkType \in LinkTypes
        /\ roomInfoMap[x].linkType = "p2p" =>
              /\ asked[roomInfoMap[x].cws] = "p2p"
              /\ \A s \in Members(x) : asked[s] = "p2p"

\* So does a handler, and a joiner's agrees with the entry it stores.
LinkSession(s, x) ==
    /\ linkType[s] \in LinkTypes
    /\ linkType[s] = "p2p" => /\ asked[s] = "p2p"
                              /\ otherCws[s] # Nil => asked[otherCws[s]] = "p2p"
    /\ pc[s] \in Arriving =>
          /\ r[s].linkType = linkType[s]
          /\ userNum[s] = 2 => linkType[s] = Agreed(asked[s], roomInfoMap[x].linkType)
    /\ userNum[s] = 2 /\ roomInfoMap[x].cws = s => linkType[s] = roomInfoMap[x].linkType

\* Two handlers that know each other use the same link type.
LinkPairs(x) == \A s, t \in Here(x) :
    otherCws[s] = t /\ otherCws[t] = s => linkType[s] = linkType[t]

LinkOf(x) == LinkEntry(x) /\ LinkPairs(x) /\ \A s \in Here(x) : LinkSession(s, x)

\* What s was forwarded: it fits what both asked for, and, while the sender is
\* there, the link type the sender works with.
LinkMessage(s, m) ==
    m.cmd = "forward" =>
        /\ m.from \in Sessions
        /\ m.mode = "p2p" => asked[s] = "p2p" /\ asked[m.from] = "p2p"
        /\ pc[m.from] # "done" => /\ otherCws[m.from] = s
                                  /\ m.mode = "p2p" <=> linkType[m.from] = "p2p"

WireOf(x) == \A s \in Sessions : roomName[s] = x =>
    \A i \in DOMAIN wire[s] : LinkMessage(s, wire[s][i])

LinkInv == \A x \in Rooms : Calm(x) => LinkOf(x) /\ WireOf(x)

-----------------------------------------------------------------------------
(* Steps that keep every handler's link.                                   *)

\* t ends, or goes on with what it knows.
Kept(t) ==
    \/ pc'[t] = "done"
    \/ /\ pc[t] # "done"
       /\ linkType'[t] = linkType[t] /\ otherCws'[t] = otherCws[t] /\ userNum'[t] = userNum[t]
       /\ pc'[t] \in Arriving => pc[t] \in Arriving /\ r'[t] = r[t]

\* Most steps keep every handler that has a room; of a step that moves one
\* handler that is clear once it is known where the handler goes.
LEMMA MovedKept ==
    ASSUME IsoInv, NEW s \in Sessions, NEW l, Goto(s, l),
           l = "done" \/ roomName[s] = Nil
             \/ /\ pc[s] # "done" /\ (l \in Arriving => pc[s] \in Arriving /\ r' = r)
                /\ handler' = handler,
           \A t \in Sessions \ {s} : /\ linkType'[t] = linkType[t] /\ otherCws'[t] = otherCws[t]
                                    /\ userNum'[t] = userNum[t] /\ r'[t] = r[t],
           NEW t \in Sessions, roomName[t] \in Rooms
    PROVE  Kept(t)
<1>1. pc' = [pc EXCEPT ![s] = l] /\ pc \in [Sessions -> Labels]
  BY DEF Goto, IsoInv, TypeOK
<1>2. CASE t = s
  BY <1>1, <1>2, NilAssumption DEF Kept, handler
<1>3. CASE t # s
  <2>1. pc'[t] = pc[t]
    BY <1>1, <1>3
  <2>2. QED
    BY <1>3, <2>1 DEF Kept
<1>4. QED
  BY <1>2, <1>3

LEMMA TalkKept ==
    ASSUME IsoInv, NEW s \in Sessions,
           \/ TellCreator(s) \/ StoreRoom(s) \/ TellJoiner(s) \/ TellOther(s)
           \/ Forward(s) \/ RecvEOF(s) \/ RecvError(s) \/ LeaveRead(s),
           NEW t \in Sessions, roomName[t] \in Rooms
    PROVE  Kept(t)
<1>1. PICK l \in Labels :
         /\ Goto(s, l) /\ pc[s] # "done"
         /\ l \in Arriving => pc[s] \in Arriving /\ r' = r
  <2>1. CASE TellCreator(s)
    BY <2>1 DEF TellCreator, At, Labels, Arriving
  <2>2. CASE StoreRoom(s)
    BY <2>2 DEF StoreRoom, At, Labels, Arriving
  <2>3. CASE TellJoiner(s) \/ TellOther(s)
    BY <2>3 DEF TellJoiner, TellOther, At, Labels, Arriving
  <2>4. CASE Forward(s) \/ RecvEOF(s)
    BY <2>4 DEF Forward, RecvEOF, At, Labels, Arriving
  <2>5. CASE RecvError(s) \/ LeaveRead(s)
    BY <2>5 DEF RecvError, LeaveRead, At, Labels, Arriving
  <2>6. QED
    BY <2>1, <2>2, <2>3, <2>4, <2>5
<1>2. handler' = handler
  BY DEF TellCreator, StoreRoom, TellJoiner, TellOther, Forward, RecvEOF, RecvError, LeaveRead
<1>3. \A u \in Sessions \ {s} : r'[u] = r[u]
  BY DEF TellCreator, StoreRoom, TellJoiner, TellOther, Forward, RecvEOF, RecvError, LeaveRead,
     OutOfScope, IsoInv, TypeOK
<1>4. \A u \in Sessions \ {s} : /\ linkType'[u] = linkType[u] /\ otherCws'[u] = otherCws[u]
                               /\ userNum'[u] = userNum[u] /\ r'[u] = r[u]
  BY <1>2, <1>3 DEF handler
<1>5. QED
  BY <1>1, <1>2, <1>4, MovedKept

LEMMA EndsKept ==
    ASSUME IsoInv, CountInv, NEW s \in Sessions,
           Open(s) \/ OpenFails(s) \/ LeaveNoRoom(s) \/ LeaveWrite(s),
           NEW t \in Sessions, roomName[t] \in Rooms
    PROVE  Kept(t)
<1>1. CASE Open(s) \/ OpenFails(s)
  <2>1. roomName[s] = Nil /\ handler' = handler /\ r' = r
    BY <1>1 DEF Open, OpenFails, At, CountInv, NewOutside
  <2>2. PICK l : Goto(s, l)
    BY <1>1 DEF Open, OpenFails
  <2>3. \A u \in Sessions \ {s} : /\ linkType'[u] = linkType[u] /\ otherCws'[u] = otherCws[u]
                                 /\ userNum'[u] = userNum[u] /\ r'[u] = r[u]
    BY <2>1 DEF handler
  <2>4. QED
    BY <2>1, <2>2, <2>3, MovedKept
<1>2. CASE LeaveNoRoom(s) \/ LeaveWrite(s)
  <2>1. EndSession(s)
    BY <1>2 DEF LeaveNoRoom, LeaveWrite
  <2>2. /\ linkType \in [Sessions -> LinkTypes \cup {""}] /\ r \in [Sessions -> Entries]
        /\ otherCws \in [Sessions -> Sessions \cup {Nil}] /\ userNum \in [Sessions -> 0..2]
    BY DEF IsoInv, TypeOK
  <2>3. Goto(s, "done")
    BY <2>1 DEF EndSession
  <2>4. \A u \in Sessions \ {s} : /\ linkType'[u] = linkType[u] /\ otherCws'[u] = otherCws[u]
                                 /\ userNum'[u] = userNum[u] /\ r'[u] = r[u]
    BY <2>1, <2>2 DEF EndSession
  <2>5. QED
    BY <2>3, <2>4, MovedKept
<1>3. QED
  BY <1>1, <1>2

LEMMA StillKept ==
    ASSUME NEW s \in Sessions, NEW u \in Sessions,
           RecvConnect(s) \/ ForwardToNil(s) \/ ClientCloses(s) \/ NetBreaks(s) \/ MapAbort(s, u),
           NEW t \in Sessions
    PROVE  Kept(t)
  BY DEF RecvConnect, ForwardToNil, ClientCloses, NetBreaks, MapAbort, handler, Kept

-----------------------------------------------------------------------------
(* Then the room's link is kept.                                           *)

LEMMA KeepsLink ==
    ASSUME IsoInv, NEW x \in Rooms, PeerOf(x), LinkOf(x),
           roomInfoMap'[x].cws = roomInfoMap[x].cws,
           roomInfoMap'[x].linkType = roomInfoMap[x].linkType,
           roomInfoMap'[x].users > 0 => roomInfoMap[x].users > 0,
           \A t \in Sessions : roomName[t] = x => asked'[t] = asked[t],
           Members(x)' \subseteq Members(x),
           \A t \in Here(x)' : roomName[t] = x /\ Kept(t)
    PROVE  LinkOf(x)'
<1>1. /\ \A s \in Sessions : otherCws[s] \in Sessions \cup {Nil}
      /\ roomInfoMap[x] \in Entries
  BY DEF IsoInv, TypeOK
<1>2. \A s \in Sessions : otherCws[s] # Nil => /\ otherCws[s] \in Sessions
                                               /\ roomName[otherCws[s]] = roomName[s]
  BY <1>1, OtherWithin
<1>3. roomInfoMap[x].cws # Nil => /\ roomInfoMap[x].cws \in Sessions
                                  /\ roomName[roomInfoMap[x].cws] = x
  BY <1>1, EntryFields DEF IsoInv, EntriesWithin, EntryWithin, Within
<1>4. \A s \in Members(x) : s \in Sessions /\ roomName[s] = x
  BY DEF Members
<1>5. LinkEntry(x)'
  <2> SUFFICES ASSUME roomInfoMap'[x].users > 0
               PROVE  /\ roomInfoMap[x].linkType \in LinkTypes
                      /\ roomInfoMap[x].linkType = "p2p" =>
                            /\ asked'[roomInfoMap[x].cws] = "p2p"
                            /\ \A s \in Members(x)' : asked'[s] = "p2p"
    BY DEF LinkEntry
  <2>1. roomInfoMap[x].users > 0 /\ LinkEntry(x) /\ roomInfoMap[x].cws # Nil
    BY DEF LinkOf, PeerOf
  <2>2. \A s \in Members(x)' : s \in Members(x) /\ asked'[s] = asked[s]
    BY <1>4
  <2>3. asked'[roomInfoMap[x].cws] = asked[roomInfoMap[x].cws]
    BY <1>3, <2>1
  <2>4. QED
    BY <2>1, <2>2, <2>3 DEF LinkEntry
<1>6. \A s \in Here(x)' :
         /\ s \in Here(x) /\ s \in Sessions /\ roomName[s] = x
         /\ linkType'[s] = linkType[s] /\ otherCws'[s] = otherCws[s] /\ userNum'[s] = userNum[s]
         /\ pc'[s] \in Arriving => pc[s] \in Arriving /\ r'[s] = r[s]
  BY DEF Here, Kept
<1>7. LinkPairs(x)'
  BY <1>6 DEF LinkOf, LinkPairs
<1>8. ASSUME NEW s \in Here(x)' PROVE LinkSession(s, x)'
  <2>1. LinkSession(s, x) /\ asked'[s] = asked[s]
    BY <1>6 DEF LinkOf
  <2>2. otherCws[s] # Nil => asked'[otherCws[s]] = asked[otherCws[s]]
    BY <1>2, <1>6
  <2>3. QED
    BY <1>6, <2>1, <2>2 DEF LinkSession
<1>9. QED
  BY <1>5, <1>7, <1>8 DEF LinkOf

\* Only two steps change who is in a room with a name, and nobody enters the other
\* one unseen.
LEMMA MembersSame ==
    ASSUME IsoInv, CountInv, NEW s \in Sessions, NEW u \in Sessions, NEW x \in Rooms,
           \/ Open(s) \/ OpenFails(s) \/ TellCreator(s) \/ TellJoiner(s) \/ TellOther(s)
           \/ Forward(s) \/ RecvEOF(s) \/ RecvError(s) \/ LeaveRead(s) \/ LeaveNoRoom(s)
           \/ RecvForward(s) \/ RecvConnect(s) \/ ForwardToNil(s) \/ ClientCloses(s)
           \/ NetBreaks(s) \/ MapAbort(s, u)
    PROVE  /\ Members(x)' \subseteq Members(x)
           /\ x \in Named => Members(x)' = Members(x)
<1>1. roomName' = roomName
  BY DEF Open, OpenFails, TellCreator, TellJoiner, TellOther, Forward, RecvEOF, RecvError,
     LeaveRead, LeaveNoRoom, RecvForward, RecvConnect, ForwardToNil, ClientCloses, NetBreaks,
     MapAbort, handler
<1>2. CASE pc' = pc
  BY <1>1, <1>2 DEF Members
<1>3. CASE \E l : Goto(s, l) /\ (roomName[s] = Nil \/ (l \in InRoom <=> pc[s] \in InRoom))
  <2>1. PICK l : Goto(s, l) /\ (roomName[s] = Nil \/ (l \in InRoom <=> pc[s] \in InRoom))
    BY <1>3
  <2>2. pc'[s] = l /\ \A t \in Sessions \ {s} : pc'[t] = pc[t]
    BY <2>1 DEF Goto, IsoInv, TypeOK
  <2>3. QED
    BY <1>1, <2>1, <2>2, NilAssumption DEF Members, InRoom
<1>4. CASE Open(s) \/ OpenFails(s)
  BY <1>3, <1>4 DEF Open, OpenFails, At, CountInv, NewOutside
<1>5. CASE TellCreator(s) \/ TellJoiner(s) \/ TellOther(s)
  BY <1>3, <1>5 DEF TellCreator, TellJoiner, TellOther, At, InRoom
<1>6. CASE Forward(s) \/ RecvForward(s) \/ RecvEOF(s)
  BY <1>3, <1>6 DEF Forward, RecvForward, RecvEOF, At, Receiving, InRoom
<1>7. CASE RecvError(s) \/ LeaveRead(s)
  BY <1>3, <1>7 DEF RecvError, LeaveRead, At, InRoom
<1>10. CASE LeaveNoRoom(s)
  <2>1. pc'[s] = "done" /\ \A t \in Sessions \ {s} : pc'[t] = pc[t]
    BY <1>10 DEF LeaveNoRoom, EndSession, Goto, IsoInv, TypeOK
  <2>2. x \in Named => roomName[s] # x
    BY <1>10, NilAssumption DEF LeaveNoRoom, HasName, Named
  <2>3. QED
    BY <1>1, <2>1, <2>2 DEF Members
<1>8. CASE RecvConnect(s) \/ ForwardToNil(s) \/ ClientCloses(s) \/ NetBreaks(s) \/ MapAbort(s, u)
  BY <1>2, <1>8 DEF RecvConnect, ForwardToNil, ClientCloses, NetBreaks, MapAbort
<1>9. QED
  BY <1>4, <1>5, <1>6, <1>7, <1>8, <1>10

LEMMA MembersStored ==
    ASSUME IsoInv, NEW s \in Sessions, StoreRoom(s), NEW x \in Rooms
    PROVE  Members(x)' = Members(x) \cup {t \in {s} : roomName[t] = x}
<1>1. PICK l \in {"receive", "reply"} : Goto(s, l)
  BY DEF StoreRoom
<1>2. pc'[s] = l /\ \A t \in Sessions \ {s} : pc'[t] = pc[t]
  BY <1>1 DEF Goto, IsoInv, TypeOK
<1>3. pc[s] = "store" /\ roomName' = roomName
  BY DEF StoreRoom, At, handler
<1>4. QED
  BY <1>2, <1>3 DEF Members

LEMMA MembersLeft ==
    ASSUME IsoInv, NEW s \in Sessions, LeaveWrite(s), NEW x \in Rooms
    PROVE  Members(x)' = Members(x) \ {s}
<1>1. pc'[s] = "done" /\ \A t \in Sessions \ {s} : pc'[t] = pc[t]
  BY DEF LeaveWrite, EndSession, Goto, IsoInv, TypeOK
<1>2. roomName' = roomName
  BY DEF LeaveWrite
<1>3. QED
  BY <1>1, <1>2 DEF Members

\* So the room's link is kept by every step but the subscriptions, a forward's
\* lookup and the stores.
LEMMA QuietLink ==
    ASSUME IsoInv, CountInv, NEW s \in Sessions, NEW u \in Sessions,
           \/ Open(s) \/ OpenFails(s) \/ TellCreator(s) \/ TellJoiner(s) \/ TellOther(s)
           \/ Forward(s) \/ RecvEOF(s) \/ RecvError(s) \/ LeaveRead(s) \/ LeaveNoRoom(s)
           \/ RecvConnect(s) \/ ForwardToNil(s) \/ ClientCloses(s) \/ NetBreaks(s) \/ MapAbort(s, u),
           NEW x \in Rooms, PeerOf(x), LinkOf(x)
    PROVE  LinkOf(x)'
<1>1. roomInfoMap' = roomInfoMap /\ roomName' = roomName /\ asked' = asked
  BY DEF Open, OpenFails, TellCreator, TellJoiner, TellOther, Forward, RecvEOF, RecvError,
     LeaveRead, LeaveNoRoom, RecvConnect, ForwardToNil, ClientCloses, NetBreaks, MapAbort,
     handler, history
<1>2. Members(x)' \subseteq Members(x)
  BY MembersSame
<1>3. ASSUME NEW t \in Here(x)' PROVE roomName[t] = x /\ Kept(t)
  <2>1. t \in Sessions /\ roomName[t] = x
    BY <1>1 DEF Here
  <2>2. QED
    BY <2>1, TalkKept, EndsKept, StillKept
<1>4. QED
  BY <1>1, <1>2, <1>3, KeepsLink

\* Who leaves changes neither names nor link in the entry, unless it deletes it.
LEMMA LeaveWriteLink ==
    ASSUME IsoInv, CountInv, NEW s \in Sessions, LeaveWrite(s),
           NEW x \in Rooms, Calm(x), PeerOf(x), PeerOf(x)', LinkOf(x)
    PROVE  LinkOf(x)'
<1>1. /\ pc[s] = "leave" /\ roomInfoMap' = [roomInfoMap EXCEPT ![roomName[s]] = OneLess(r[s])]
      /\ roomName' = roomName /\ asked' = asked
  BY DEF LeaveWrite, At, history
<1>2. roomInfoMap \in [Rooms -> Entries]
  BY DEF IsoInv, TypeOK
<1>3. Members(x)' \subseteq Members(x)
  BY MembersLeft
<1>4. \A t \in Here(x)' : t \in Sessions /\ roomName[t] = x /\ Kept(t)
  BY <1>1, EndsKept DEF Here
<1>5. CASE roomName[s] # x
  <2>1. roomInfoMap'[x] = roomInfoMap[x]
    BY <1>1, <1>2, <1>5
  <2>2. QED
    BY <1>1, <1>3, <1>4, <2>1, KeepsLink
<1>6. CASE roomName[s] = x
  <2>1. s \in Holders(x) /\ s \in Members(x)
    BY <1>1, <1>6 DEF Holders, Holding, Members
  <2>2. roomInfoMap'[x] = OneLess(roomInfoMap[x]) /\ roomInfoMap[x] \in Entries
    BY <1>1, <1>2, <1>6, <2>1 DEF CountInv, RoomCounted, CopyIsCurrent
  <2>3. CASE roomInfoMap[x].users > 1
    <3>1. roomInfoMap'[x] = [roomInfoMap[x] EXCEPT !.users = @ - 1]
      BY <2>2, <2>3 DEF OneLess
    <3>2. /\ roomInfoMap'[x].cws = roomInfoMap[x].cws
          /\ roomInfoMap'[x].linkType = roomInfoMap[x].linkType
      BY <2>2, <3>1 DEF Entries
    <3>3. roomInfoMap[x].users > 0
      BY <2>1, MemberCounts
    <3>4. QED
      BY <1>1, <1>3, <1>4, <3>2, <3>3, KeepsLink
  <2>4. CASE ~(roomInfoMap[x].users > 1)
    <3>1. roomInfoMap'[x] = Absent
      BY <2>2, <2>4, Zenon DEF OneLess
    <3>2. ~(roomInfoMap'[x].users > 0)
      <4>1. Absent.users = 0
        BY DEF Absent
      <4>2. QED
        BY <3>1, <4>1
    <3>3. roomInfoMap[x].users \in 0..2 /\ roomInfoMap[x].users > 0
      BY <2>1, <2>2, EntryFields, MemberCounts
    <3>4. Members(x) = {s}
      BY <2>1, <2>4, <3>3 DEF CountInv, RoomCounted, CountIs
    <3>5. Here(x)' = {}
      <4>1. pc'[s] = "done" /\ \A t \in Sessions \ {s} : pc'[t] = pc[t]
        BY DEF LeaveWrite, EndSession, Goto, IsoInv, TypeOK
      <4>2. Holders(x) = {s}
        BY <2>1 DEF CountInv, RoomCounted, Holders
      <4>3. Here(x) \subseteq {s}
        BY <3>4, <4>2, HereIs
      <4>4. QED
        BY <1>1, <4>1, <4>3 DEF Here
    <3>6. QED
      BY <3>2, <3>5 DEF LinkOf, LinkEntry, LinkPairs
  <2>5. QED
    BY <2>3, <2>4
<1>7. QED
  BY <1>5, <1>6

\* A handler that stores its entry puts its own link type there.
LEMMA StoreRoomLink ==
    ASSUME IsoInv, CountInv, NEW s \in Sessions, StoreRoom(s),
           NEW x \in Rooms, Calm(x), PeerOf(x), LinkOf(x)
    PROVE  LinkOf(x)'
<1>1. /\ pc[s] = "store" /\ roomInfoMap' = [roomInfoMap EXCEPT ![roomName[s]] = r[s]]
      /\ roomName' = roomName /\ userNum' = userNum /\ otherCws' = otherCws
      /\ linkType' = linkType /\ asked' = asked
  BY DEF StoreRoom, At, handler, history
<1>2. /\ pc \in [Sessions -> Labels] /\ r \in [Sessions -> Entries]
      /\ roomInfoMap \in [Rooms -> Entries]
  BY DEF IsoInv, TypeOK
<1>3. PICK l \in {"receive", "reply"} : pc' = [pc EXCEPT ![s] = l]
  BY DEF StoreRoom, Goto
<1>4. pc'[s] = l /\ \A t \in Sessions \ {s} : pc'[t] = pc[t]
  BY <1>2, <1>3
<1>5. CASE roomName[s] # x
  <2>1. roomInfoMap'[x] = roomInfoMap[x]
    BY <1>1, <1>2, <1>5
  <2>2. Members(x)' \subseteq Members(x)
    BY <1>5, MembersStored
  <2>3. \A t \in Here(x)' : t \in Sessions /\ roomName[t] = x /\ Kept(t)
    BY <1>1, TalkKept DEF Here
  <2>4. QED
    BY <1>1, <2>1, <2>2, <2>3, KeepsLink
<1>6. CASE roomName[s] = x
  <2>1. /\ s \in Here(x) /\ s \in Holders(x) /\ pc[s] \in Arriving
        /\ SessionOf(s, x) /\ LinkSession(s, x)
    BY <1>1, <1>6 DEF Here, Holders, Holding, Arriving, PeerOf, LinkOf
  <2>2. roomInfoMap'[x] = r[s] /\ r[s].cws = s /\ r[s].linkType = linkType[s]
    BY <1>1, <1>2, <1>6, <2>1 DEF SessionOf, LinkSession
  <2>3. Members(x)' = Members(x) \cup {s} /\ Here(x)' = Here(x)
    BY <1>1, <1>3, <1>4, <1>6, MembersStored DEF Here
  <2>4. LinkEntry(x)'
    <3>1. linkType[s] \in LinkTypes /\ (linkType[s] = "p2p" => asked[s] = "p2p")
      BY <2>1 DEF LinkSession
    <3>2. ASSUME linkType[s] = "p2p", NEW t \in Members(x) PROVE asked[t] = "p2p"
      <4>1. CopyIsCurrent(s) /\ CountIs(roomInfoMap[x].users, Members(x))
        BY <2>1 DEF CountInv, RoomCounted
      <4>2. userNum[s] = 2 /\ roomInfoMap[x].users = 1
        BY <1>1, <1>6, <3>2, <4>1 DEF CopyIsCurrent, CountIs
      <4>3. roomInfoMap[x].linkType = "p2p"
        BY <2>1, <3>2, <4>2 DEF LinkSession, Agreed
      <4>4. QED
        BY <3>2, <4>2, <4>3 DEF LinkOf, LinkEntry
    <3>3. QED
      BY <1>1, <2>2, <2>3, <3>1, <3>2 DEF LinkEntry
  <2>5. LinkPairs(x)'
    BY <1>1, <2>3 DEF LinkOf, LinkPairs
  <2>6. ASSUME NEW t \in Here(x), t # s PROVE LinkSession(t, x)'
    <3>1. LinkSession(t, x) /\ t \in Sessions
      BY DEF LinkOf, Here
    <3>2. pc[t] \notin Arriving
      <4>1. t \in Members(x) \/ t \in Holders(x)
        BY HereIs
      <4>2. t \notin Holders(x)
        BY <2>1, <2>6 DEF CountInv, RoomCounted
      <4>3. QED
        BY <4>1, <4>2 DEF Members, Arriving
    <3>3. pc'[t] \notin Arriving
      BY <1>4, <2>6, <3>1, <3>2
    <3>4. QED
      BY <1>1, <2>2, <2>6, <3>1, <3>3 DEF LinkSession
  <2>7. LinkSession(s, x)'
    <3>1. pc'[s] \notin Arriving
      BY <1>3, <1>4 DEF Arriving
    <3>2. QED
      BY <1>1, <2>1, <2>2, <3>1 DEF LinkSession
  <2>8. QED
    BY <2>3, <2>4, <2>5, <2>6, <2>7 DEF LinkOf
<1>7. QED
  BY <1>5, <1>6

\* Who waited takes connection and link type from the same entry.
LEMMA RecvForwardLink ==
    ASSUME IsoInv, CountInv, NEW s \in Sessions, RecvForward(s),
           NEW x \in Rooms, Calm(x), PeerOf(x), LinkOf(x)
    PROVE  LinkOf(x)'
<1> DEFINE e == roomInfoMap[roomName[s]]
<1>1. /\ pc[s] = "receive" /\ pc' = [pc EXCEPT ![s] = "forward"] /\ IntroducedOn(wire, s)
      /\ roomName' = roomName /\ userNum' = userNum /\ r' = r
      /\ roomInfoMap' = roomInfoMap /\ asked' = asked
      /\ otherCws' = IF otherCws[s] = Nil /\ e.users > 0
                     THEN [otherCws EXCEPT ![s] = e.cws] ELSE otherCws
      /\ linkType' = IF otherCws[s] = Nil /\ e.users > 0
                     THEN [linkType EXCEPT ![s] = e.linkType] ELSE linkType
  BY DEF RecvForward, Receiving, Introduced, IntroducedOn, Goto, history
<1>2. /\ pc \in [Sessions -> Labels] /\ otherCws \in [Sessions -> Sessions \cup {Nil}]
      /\ linkType \in [Sessions -> LinkTypes \cup {""}]
  BY DEF IsoInv, TypeOK
<1>3. /\ pc'[s] = "forward"
      /\ \A t \in Sessions \ {s} : /\ pc'[t] = pc[t] /\ otherCws'[t] = otherCws[t]
                                  /\ linkType'[t] = linkType[t]
  BY <1>1, <1>2
<1>4. Members(x)' = Members(x) /\ Here(x)' = Here(x)
  BY <1>1, <1>3 DEF Members, Here
<1> HIDE DEF e
<1>5. CASE roomName[s] # x \/ otherCws[s] # Nil
  <2>1. ASSUME NEW t \in Here(x)' PROVE t \in Sessions /\ roomName[t] = x /\ Kept(t)
    <3>1. t \in Sessions /\ roomName[t] = x /\ pc'[t] # "done"
      BY <1>1 DEF Here
    <3>2. CASE t # s
      BY <1>1, <1>3, <3>1, <3>2 DEF Kept
    <3>3. CASE t = s
      <4>1. otherCws' = otherCws /\ linkType' = linkType
        BY <1>1, <1>5, <3>1, <3>3
      <4>2. QED
        BY <1>1, <1>3, <3>1, <3>3, <4>1 DEF Kept, Arriving
    <3>4. QED
      BY <3>2, <3>3
  <2>2. QED
    BY <1>1, <1>4, <2>1, KeepsLink
<1>6. CASE roomName[s] = x /\ otherCws[s] = Nil
  <2>1. s \in Here(x) /\ s \in Members(x) /\ SessionOf(s, x)
    BY <1>1, <1>6 DEF Here, Members, PeerOf
  <2>2. roomInfoMap[x].users > 0 /\ roomInfoMap[x].cws # Nil /\ LinkEntry(x)
    BY <2>1, MemberCounts DEF PeerOf, LinkOf
  <2>3. userNum[s] = 1 /\ pc[s] \notin Arriving /\ Met(s, x)
    BY <1>1, <1>6, <2>1 DEF SessionOf, Met, Arriving
  <2>4. roomInfoMap[x].cws # s
    BY <2>1, <2>3 DEF SessionOf, FounderOf
  <2>5. otherCws'[s] = roomInfoMap[x].cws /\ linkType'[s] = roomInfoMap[x].linkType
    BY <1>1, <1>2, <1>6, <2>2 DEF e
  <2>6. LinkEntry(x)'
    BY <1>1, <1>4, <2>2 DEF LinkEntry
  <2>7. LinkSession(s, x)'
    <3>1. pc'[s] \notin Arriving
      BY <1>3 DEF Arriving
    <3>2. QED
      BY <1>1, <2>1, <2>2, <2>3, <2>5, <3>1 DEF LinkEntry, LinkSession
  <2>8. ASSUME NEW t \in Here(x), t # s PROVE LinkSession(t, x)'
    <3>1. LinkSession(t, x) /\ t \in Sessions
      BY DEF LinkOf, Here
    <3>2. pc'[t] = pc[t] /\ otherCws'[t] = otherCws[t] /\ linkType'[t] = linkType[t]
      BY <1>3, <2>8, <3>1
    <3>3. QED
      BY <1>1, <3>1, <3>2 DEF LinkSession
  <2>9. ASSUME NEW t \in Here(x), otherCws'[s] = t PROVE linkType'[t] = linkType'[s]
    <3>1. t # s /\ t \in Sessions /\ roomInfoMap[x].cws = t
      BY <2>4, <2>5, <2>9 DEF Here
    <3>2. userNum[t] = 2
      BY <2>1, <2>3, <3>1 DEF PeerOf, SessionOf
    <3>3. linkType[t] = roomInfoMap[x].linkType
      BY <3>1, <3>2 DEF LinkOf, LinkSession
    <3>4. QED
      BY <1>3, <2>5, <3>1, <3>3
  <2>10. LinkPairs(x)'
    <3> SUFFICES ASSUME NEW t \in Here(x), NEW u \in Here(x), otherCws'[t] = u, otherCws'[u] = t
                 PROVE  linkType'[t] = linkType'[u]
      BY <1>4 DEF LinkPairs
    <3>1. CASE t = s \/ u = s
      BY <2>9, <3>1
    <3>2. CASE t # s /\ u # s
      <4>1. t \in Sessions /\ u \in Sessions
        BY DEF Here
      <4>2. QED
        BY <1>3, <3>2, <4>1 DEF LinkOf, LinkPairs
    <3>3. QED
      BY <3>1, <3>2
  <2>11. QED
    BY <1>4, <2>6, <2>7, <2>8, <2>10 DEF LinkOf
<1>7. QED
  BY <1>5, <1>6

\* A subscription touches one handler only.
LEMMA OthersStay ==
    ASSUME IsoInv, NEW s \in Sessions, NEW y \in Rooms, NEW lt \in LinkTypes,
           SubscribeNew(s, y, lt) \/ SubscribeFound(s, y, lt),
           NEW t \in Sessions, t # s
    PROVE  /\ pc'[t] = pc[t] /\ roomName'[t] = roomName[t] /\ asked'[t] = asked[t]
           /\ userNum'[t] = userNum[t] /\ r'[t] = r[t]
           /\ linkType'[t] = linkType[t] /\ otherCws'[t] = otherCws[t]
<1>1. /\ pc \in [Sessions -> Labels] /\ roomName \in [Sessions -> Rooms \cup {Nil}]
      /\ r \in [Sessions -> Entries] /\ userNum \in [Sessions -> 0..2]
      /\ linkType \in [Sessions -> LinkTypes \cup {""}]
      /\ otherCws \in [Sessions -> Sessions \cup {Nil}]
      /\ asked \in [Sessions -> LinkTypes \cup {""}]
  BY DEF IsoInv, TypeOK
<1>2. PICK l, e, n, c, k :
         /\ pc' = [pc EXCEPT ![s] = l] /\ roomName' = [roomName EXCEPT ![s] = y]
         /\ asked' = [asked EXCEPT ![s] = lt] /\ r' = [r EXCEPT ![s] = e]
         /\ userNum' = [userNum EXCEPT ![s] = n] /\ linkType' = [linkType EXCEPT ![s] = k]
         /\ otherCws' = [otherCws EXCEPT ![s] = c]
  <2>1. CASE SubscribeNew(s, y, lt)
    <3>1. otherCws' = [otherCws EXCEPT ![s] = otherCws[s]]
      BY <1>1, <2>1 DEF SubscribeNew
    <3>2. QED
      BY <2>1, <3>1 DEF SubscribeNew, Goto
  <2>2. CASE SubscribeFound(s, y, lt)
    BY <2>2 DEF SubscribeFound, Goto
  <2>3. QED
    BY <2>1, <2>2
<1>3. QED
  BY <1>1, <1>2

\* For the rooms it does not enter, a subscriber changes nothing.
LEMMA ElsewhereLink ==
    ASSUME IsoInv, NEW s \in Sessions, NEW y \in Rooms, NEW lt \in LinkTypes,
           SubscribeNew(s, y, lt) \/ SubscribeFound(s, y, lt),
           NEW x \in Rooms, x # y, PeerOf(x), LinkOf(x)
    PROVE  LinkOf(x)'
<1>1. /\ roomName[s] = Nil /\ roomName' = [roomName EXCEPT ![s] = y]
      /\ asked' = [asked EXCEPT ![s] = lt] /\ roomInfoMap' = roomInfoMap
      /\ Goto(s, "create") \/ Goto(s, "store")
  BY DEF SubscribeNew, SubscribeFound, MaySubscribe
<1>2. roomName \in [Sessions -> Rooms \cup {Nil}]
  BY DEF IsoInv, TypeOK
<1>3. \A t \in Sessions \ {s} :
         /\ pc'[t] = pc[t] /\ roomName'[t] = roomName[t] /\ asked'[t] = asked[t]
         /\ userNum'[t] = userNum[t] /\ r'[t] = r[t]
         /\ linkType'[t] = linkType[t] /\ otherCws'[t] = otherCws[t]
  BY OthersStay
<1>4. roomName'[s] = y
  BY <1>1, <1>2
<1>5. \A t \in Sessions : roomName[t] = x => asked'[t] = asked[t]
  BY <1>1, <1>3, NilAssumption
<1>6. Members(x)' \subseteq Members(x)
  BY <1>3, <1>4 DEF Members
<1>7. \A t \in Here(x)' : roomName[t] = x /\ Kept(t)
  BY <1>3, <1>4 DEF Here, Kept
<1>8. QED
  BY <1>1, <1>5, <1>6, <1>7, KeepsLink

\* The founder of a room is alone in it.
LEMMA SubscribeNewLink ==
    ASSUME IsoInv, CountInv, NEW s \in Sessions, NEW y \in Rooms, NEW lt \in LinkTypes,
           SubscribeNew(s, y, lt), NEW x \in Rooms, Calm(x), Calm(x)', PeerOf(x), LinkOf(x)
    PROVE  LinkOf(x)'
<1>1. CASE x # y
  BY <1>1, ElsewhereLink
<1>2. CASE x = y
  <2>1. /\ roomName[s] = Nil /\ roomInfoMap[x].users = 0 /\ NoteRace(x)
        /\ roomName' = [roomName EXCEPT ![s] = x] /\ pc' = [pc EXCEPT ![s] = "create"]
        /\ asked' = [asked EXCEPT ![s] = lt] /\ linkType' = [linkType EXCEPT ![s] = lt]
        /\ userNum' = [userNum EXCEPT ![s] = 1] /\ r' = [r EXCEPT ![s] = Founded(s, lt)]
        /\ roomInfoMap' = roomInfoMap /\ otherCws' = otherCws
    BY <1>2 DEF SubscribeNew, MaySubscribe, Goto
  <2>2. /\ pc \in [Sessions -> Labels] /\ roomName \in [Sessions -> Rooms \cup {Nil}]
        /\ r \in [Sessions -> Entries] /\ userNum \in [Sessions -> 0..2]
        /\ linkType \in [Sessions -> LinkTypes \cup {""}]
        /\ asked \in [Sessions -> LinkTypes \cup {""}]
    BY DEF IsoInv, TypeOK
  <2>3. Here(x) = {}
    <3>1. Here(x) = Members(x)
      BY <2>1, QuietLookup
    <3>2. QED
      BY <2>1, <3>1 DEF CountInv, RoomCounted, CountIs
  <2>4. Here(x)' = {s}
    <3>1. \A t \in Sessions \ {s} : pc'[t] = pc[t] /\ roomName'[t] = roomName[t]
      BY <2>1, <2>2
    <3>2. pc'[s] = "create" /\ roomName'[s] = x
      BY <2>1, <2>2
    <3>3. QED
      BY <2>3, <3>1, <3>2 DEF Here
  <2>5. /\ linkType'[s] = lt /\ asked'[s] = lt /\ userNum'[s] = 1 /\ r'[s].linkType = lt
        /\ otherCws'[s] = Nil
    BY <2>1, <2>2, Unknown DEF Founded
  <2>6. LinkSession(s, x)'
    BY <2>5 DEF LinkSession
  <2>7. LinkEntry(x)'
    BY <2>1 DEF LinkEntry
  <2>8. QED
    BY <2>4, <2>6, <2>7 DEF LinkOf, LinkPairs
<1>3. QED
  BY <1>1, <1>2

\* A joiner agrees with the entry it found, and nobody knows it yet.
LEMMA SubscribeFoundLink ==
    ASSUME IsoInv, CountInv, NEW s \in Sessions, NEW y \in Rooms, NEW lt \in LinkTypes,
           SubscribeFound(s, y, lt), NEW x \in Rooms, Calm(x), Calm(x)', PeerOf(x), LinkOf(x)
    PROVE  LinkOf(x)'
<1>1. CASE x # y
  BY <1>1, ElsewhereLink
<1>2. CASE x = y
  <2> DEFINE e == roomInfoMap[x]
  <2>1. /\ roomName[s] = Nil /\ e.users > 0 /\ NoteRace(x)
        /\ roomName' = [roomName EXCEPT ![s] = x] /\ pc' = [pc EXCEPT ![s] = "store"]
        /\ asked' = [asked EXCEPT ![s] = lt]
        /\ linkType' = [linkType EXCEPT ![s] = Joined(s, lt, e).linkType]
        /\ userNum' = [userNum EXCEPT ![s] = 2] /\ r' = [r EXCEPT ![s] = Joined(s, lt, e)]
        /\ roomInfoMap' = roomInfoMap
        /\ otherCws' = [otherCws EXCEPT ![s] = IF @ = Nil THEN e.cws ELSE @]
    BY <1>2 DEF SubscribeFound, MaySubscribe, Goto
  <2>2. /\ pc \in [Sessions -> Labels] /\ roomName \in [Sessions -> Rooms \cup {Nil}]
        /\ r \in [Sessions -> Entries] /\ userNum \in [Sessions -> 0..2]
        /\ linkType \in [Sessions -> LinkTypes \cup {""}]
        /\ asked \in [Sessions -> LinkTypes \cup {""}]
        /\ otherCws \in [Sessions -> Sessions \cup {Nil}] /\ roomInfoMap[x] \in Entries
    BY DEF IsoInv, TypeOK
  <2>3. \A t \in Sessions \ {s} :
           /\ pc'[t] = pc[t] /\ roomName'[t] = roomName[t] /\ asked'[t] = asked[t]
           /\ userNum'[t] = userNum[t] /\ r'[t] = r[t]
           /\ linkType'[t] = linkType[t] /\ otherCws'[t] = otherCws[t]
    BY <2>1, <2>2
  <2>4. /\ e.cws \notin {Nil, s} /\ otherCws[s] = Nil /\ e.cws \in Sessions
        /\ roomName[e.cws] = x /\ LinkEntry(x)
    <3>1. e.cws \notin {Nil, s} /\ otherCws[s] = Nil
      BY <2>1, Unknown DEF PeerOf
    <3>2. e.cws \in Sessions /\ roomName[e.cws] = x
      BY <2>2, <3>1, EntryFields DEF IsoInv, EntriesWithin, EntryWithin, Within
    <3>3. QED
      BY <3>1, <3>2 DEF LinkOf
  <2>5. Joined(s, lt, e).linkType = Agreed(lt, e.linkType)
    BY DEF Joined, Agreed
  <2>6. /\ pc'[s] = "store" /\ roomName'[s] = x /\ userNum'[s] = 2 /\ asked'[s] = lt
        /\ otherCws'[s] = e.cws /\ linkType'[s] = Agreed(lt, e.linkType)
        /\ r'[s].linkType = Agreed(lt, e.linkType)
    <3>1. Agreed(lt, e.linkType) \in LinkTypes
      BY DEF Agreed, LinkTypes
    <3>2. QED
      BY <2>1, <2>2, <2>4, <2>5
  <2>7. \A t \in Here(x) : t \in Sessions /\ t # s /\ pc[t] \notin Arriving /\ roomName[t] = x
    <3>1. \A t \in Here(x) : t \in Sessions /\ roomName[t] = x /\ pc[t] \notin Arriving
      BY <2>1, QuietLookup
    <3>2. QED
      BY <2>1, <3>1, NilAssumption
  <2>8. Here(x)' = Here(x) \cup {s} /\ Members(x)' = Members(x)
    BY <2>1, <2>3, <2>6, NilAssumption DEF Here, Members
  <2>9. asked'[e.cws] = asked[e.cws]
    BY <2>3, <2>4
  <2> HIDE DEF e
  <2>10. LinkEntry(x)'
    <3>1. \A t \in Members(x) : asked'[t] = asked[t]
      BY <2>1, <2>3, NilAssumption DEF Members
    <3>2. QED
      BY <2>1, <2>4, <2>8, <2>9, <3>1 DEF LinkEntry, e
  <2>11. LinkSession(s, x)'
    <3>1. Agreed(lt, e.linkType) \in LinkTypes
      BY DEF Agreed, LinkTypes
    <3>2. Agreed(lt, e.linkType) = "p2p" => lt = "p2p" /\ e.linkType = "p2p"
      BY DEF Agreed
    <3>3. Agreed(lt, e.linkType) = "p2p" => asked'[e.cws] = "p2p"
      BY <2>1, <2>4, <2>9, <3>2 DEF LinkEntry, e
    <3>4. roomInfoMap'[x].cws # s /\ roomInfoMap'[x].linkType = e.linkType
      BY <2>1, <2>4 DEF e
    <3>5. QED
      BY <2>6, <3>1, <3>2, <3>3, <3>4 DEF LinkSession
  <2>12. ASSUME NEW t \in Here(x) PROVE LinkSession(t, x)'
    <3>1. LinkSession(t, x) /\ t \in Sessions /\ t # s
      BY <2>7 DEF LinkOf
    <3>2. pc'[t] \notin Arriving
      BY <2>3, <2>7
    <3>3. otherCws[t] # Nil => asked'[otherCws[t]] = asked[otherCws[t]]
      <4>1. otherCws[t] # s
        BY <2>1, Unknown
      <4>2. otherCws[t] \in Sessions \cup {Nil}
        BY <2>2, <3>1
      <4>3. QED
        BY <2>3, <4>1, <4>2
    <3>4. QED
      BY <2>1, <2>3, <3>1, <3>2, <3>3 DEF LinkSession
  <2>13. LinkPairs(x)'
    <3>1. \A t \in Here(x) : otherCws'[t] # s
      BY <2>1, <2>3, <2>7, Unknown
    <3>2. otherCws'[s] # s
      BY <2>4, <2>6
    <3>3. QED
      BY <2>3, <2>7, <2>8, <3>1, <3>2 DEF LinkOf, LinkPairs
  <2>14. QED
    BY <2>8, <2>10, <2>11, <2>12, <2>13 DEF LinkOf
<1>3. QED
  BY <1>1, <1>2

-----------------------------------------------------------------------------
(* What was forwarded.                                                     *)

\* A step that adds at most one forwarded message f, which fits, to the wires.
LEMMA KeepsWire ==
    ASSUME IsoInv, NEW x \in Rooms, WireOf(x),
           \A t \in Sessions : roomName'[t] = x => roomName[t] = x \/ ~IntroducedOn(wire', t),
           \A t \in Sessions : roomName[t] = x => asked'[t] = asked[t],
           \A t \in Sessions : roomName[t] = x =>
              \/ pc'[t] = "done"
              \/ /\ pc[t] # "done"
                 /\ otherCws[t] # Nil => /\ otherCws'[t] = otherCws[t]
                                         /\ linkType'[t] = linkType[t],
           NEW g \in Sessions, NEW f, LinkMessage(g, f)',
           \A t \in Sessions : roomName[t] = x => \A i \in DOMAIN wire'[t] :
              \/ i \in DOMAIN wire[t] /\ wire'[t][i] = wire[t][i]
              \/ wire'[t][i].cmd # "forward"
              \/ t = g /\ wire'[t][i] = f
    PROVE  WireOf(x)'
<1> SUFFICES ASSUME NEW s \in Sessions, roomName'[s] = x, NEW i \in DOMAIN wire'[s],
                    wire'[s][i].cmd = "forward"
             PROVE  LinkMessage(s, wire[s][i])'
  BY DEF WireOf, LinkMessage
<1>1. roomName[s] = x
  BY DEF IntroducedOn
<1>2. CASE s = g /\ wire'[s][i] = f
  BY <1>2
<1>3. CASE i \in DOMAIN wire[s] /\ wire'[s][i] = wire[s][i]
  <2>1. PICK m : m = wire[s][i] /\ m = wire'[s][i]
    BY <1>3
  <2>2. LinkMessage(s, m) /\ m.cmd = "forward"
    BY <1>1, <1>3, <2>1 DEF WireOf
  <2>3. m.from \in Sessions /\ MessageWithin(m, x)
    BY <1>1, <1>3, <2>1, <2>2, OtherWithin DEF LinkMessage, WiresWithin
  <2>4. roomName[m.from] = x
    BY <2>3, NilAssumption DEF MessageWithin, Within
  <2>5. asked'[s] = asked[s] /\ asked'[m.from] = asked[m.from]
    BY <1>1, <2>3, <2>4
  <2>6. pc'[m.from] # "done" => /\ pc[m.from] # "done" /\ otherCws[m.from] = s
                                /\ otherCws'[m.from] = s
                                /\ linkType'[m.from] = linkType[m.from]
    BY <2>2, <2>3, <2>4, NilAssumption DEF LinkMessage
  <2>7. LinkMessage(s, m)'
    BY <2>2, <2>3, <2>5, <2>6 DEF LinkMessage
  <2>8. QED
    BY <2>1, <2>7 DEF LinkMessage
<1>4. QED
  BY <1>1, <1>2, <1>3

\* What handlers send besides is nothing forwarded.
LEMMA TalkNews ==
    ASSUME IsoInv, NEW s \in Sessions,
           RecvConnect(s) \/ TellCreator(s) \/ TellJoiner(s) \/ TellOther(s) \/ RecvEOF(s),
           NEW t \in Sessions, NEW i \in DOMAIN wire'[t]
    PROVE  (i \in DOMAIN wire[t] /\ wire'[t][i] = wire[t][i]) \/ wire'[t][i].cmd # "forward"
<1>1. /\ wire \in Wires /\ r[s] \in Entries /\ myClientId[s] \in Sessions \cup {Nil}
  BY OtherWithin DEF IsoInv, TypeOK
<1>2. r[s].clientId \in Sessions \cup {Nil}
  BY <1>1, EntryFields
<1> DEFINE news == {Plain("ready"), RoomClients(Nil), RoomClients(r[s].clientId),
                    Online(myClientId[s]), Plain("offline")}
<1>3. \A m \in news : m \in Messages /\ m.cmd # "forward"
  <2>1. \A m \in news : m \in Messages
    BY <1>1, <1>2, MessageTypes
  <2>2. \A id : RoomClients(id).cmd = "roomclients" /\ Online(id).cmd = "online"
    BY DEF RoomClients, Online
  <2>3. \A cmd : Plain(cmd).cmd = cmd
    BY DEF Plain
  <2>4. QED
    BY <2>1, <2>2, <2>3
<1>4. PICK c : \E m \in news : wire' = Sent(wire, c, m) \/ wire' = wire
  <2>1. CASE RecvConnect(s)
    BY <2>1 DEF RecvConnect
  <2>2. CASE TellCreator(s)
    BY <2>2 DEF TellCreator
  <2>3. CASE TellJoiner(s)
    BY <2>3 DEF TellJoiner
  <2>4. CASE TellOther(s)
    BY <2>4 DEF TellOther
  <2>5. CASE RecvEOF(s)
    BY <2>5 DEF RecvEOF
  <2>6. QED
    BY <2>1, <2>2, <2>3, <2>4, <2>5
<1>5. PICK m \in news : wire' = Sent(wire, c, m) \/ wire' = wire
  BY <1>4
<1>6. m \in Messages /\ m.cmd # "forward"
  BY <1>3, <1>5
<1> HIDE DEF news
<1>7. QED
  BY <1>1, <1>5, <1>6, SentContents

LEMMA OtherNoForward ==
    ASSUME IsoInv, NEW s \in Sessions, NEW u \in Sessions,
           \/ Open(s) \/ OpenFails(s) \/ StoreRoom(s) \/ RecvError(s) \/ LeaveRead(s)
           \/ LeaveNoRoom(s) \/ LeaveWrite(s) \/ ForwardToNil(s) \/ ClientCloses(s)
           \/ NetBreaks(s) \/ MapAbort(s, u),
           NEW t \in Sessions, NEW i \in DOMAIN wire'[t]
    PROVE  (i \in DOMAIN wire[t] /\ wire'[t][i] = wire[t][i]) \/ wire'[t][i].cmd # "forward"
<1>1. wire \in [Sessions -> Seq(Messages)]
  BY DEF IsoInv, TypeOK
<1>2. CASE Open(s)
  <2>1. wire' = [wire EXCEPT ![s] = <<Plain("connect")>>]
    BY <1>2 DEF Open
  <2>2. CASE t = s
    <3>1. wire'[t] = <<Plain("connect")>>
      BY <1>1, <2>1, <2>2
    <3>2. wire'[t][i] = Plain("connect")
      BY <3>1
    <3>3. Plain("connect").cmd = "connect"
      BY DEF Plain
    <3>4. QED
      BY <3>2, <3>3
  <2>3. CASE t # s
    BY <1>1, <2>1, <2>3
  <2>4. QED
    BY <2>2, <2>3
<1>3. CASE LeaveNoRoom(s) \/ LeaveWrite(s)
  <2>1. wire' = [wire EXCEPT ![s] = <<>>]
    BY <1>3 DEF LeaveNoRoom, LeaveWrite, EndSession
  <2>2. CASE t = s
    <3>1. wire'[t] = <<>>
      BY <1>1, <2>1, <2>2
    <3>2. QED
      BY <3>1
  <2>3. CASE t # s
    BY <1>1, <2>1, <2>3
  <2>4. QED
    BY <2>2, <2>3
<1>4. CASE ~(Open(s) \/ LeaveNoRoom(s) \/ LeaveWrite(s))
  <2>1. wire' = wire
    BY <1>4 DEF OpenFails, StoreRoom, RecvError, LeaveRead, ForwardToNil, ClientCloses,
       NetBreaks, MapAbort
  <2>2. QED
    BY <2>1
<1>5. QED
  BY <1>2, <1>3, <1>4

\* The steps that forward nothing.
LEMMA QuietWire ==
    ASSUME IsoInv, CountInv, NEW s \in Sessions, NEW u \in Sessions,
           \/ RecvConnect(s) \/ TellCreator(s) \/ TellJoiner(s) \/ TellOther(s) \/ RecvEOF(s)
           \/ Open(s) \/ OpenFails(s) \/ StoreRoom(s) \/ RecvError(s) \/ LeaveRead(s)
           \/ LeaveNoRoom(s) \/ LeaveWrite(s) \/ ForwardToNil(s) \/ ClientCloses(s)
           \/ NetBreaks(s) \/ MapAbort(s, u),
           NEW x \in Rooms, WireOf(x)
    PROVE  WireOf(x)'
<1>1. roomName' = roomName /\ asked' = asked
  BY DEF RecvConnect, TellCreator, TellJoiner, TellOther, RecvEOF, Open, OpenFails, StoreRoom,
     RecvError, LeaveRead, LeaveNoRoom, LeaveWrite, ForwardToNil, ClientCloses, NetBreaks,
     MapAbort, handler, history
<1>2. \A t \in Sessions : roomName[t] = x => Kept(t)
  BY TalkKept, EndsKept, StillKept
<1>3. \A t \in Sessions : \A i \in DOMAIN wire'[t] :
         (i \in DOMAIN wire[t] /\ wire'[t][i] = wire[t][i]) \/ wire'[t][i].cmd # "forward"
  BY TalkNews, OtherNoForward
<1> DEFINE f == Plain("ready")
<1>4. LinkMessage(s, f)'
  BY DEF LinkMessage, Plain
<1> HIDE DEF f
<1>5. QED
  BY <1>1, <1>2, <1>3, <1>4, KeepsWire DEF Kept

\* A forward goes out in the mode its sender works with.
LEMMA ForwardWire ==
    ASSUME IsoInv, NEW s \in Sessions, Forward(s), NEW x \in Rooms, LinkOf(x), WireOf(x)
    PROVE  WireOf(x)'
<1>1. /\ pc[s] = "forward" /\ otherCws[s] \in Sessions /\ Goto(s, "receive")
      /\ handler' = handler /\ asked' = asked
  BY DEF Forward, At, history, IsoInv, TypeOK
<1>2. roomName' = roomName /\ linkType' = linkType /\ otherCws' = otherCws
  BY <1>1 DEF handler
<1>3. PICK g \in Sessions : g = otherCws[s]
  BY <1>1
<1>4. PICK m \in Outcomes(s), told \in Wires :
         /\ Forwarded(s, m) \in Messages
         /\ wire' = Sent(told, otherCws[s], Forwarded(s, m))
         /\ \A t \in Sessions : \A i \in DOMAIN told[t] :
               \/ i \in DOMAIN wire[t] /\ told[t][i] = wire[t][i]
               \/ told[t][i].cmd = "notice"
  BY ForwardWires
<1>5. \A t \in Sessions : \A i \in DOMAIN wire'[t] :
         \/ i \in DOMAIN wire[t] /\ wire'[t][i] = wire[t][i]
         \/ wire'[t][i].cmd # "forward"
         \/ t = g /\ wire'[t][i] = Forwarded(s, m)
  <2> SUFFICES ASSUME NEW t \in Sessions, NEW i \in DOMAIN wire'[t]
               PROVE  \/ i \in DOMAIN wire[t] /\ wire'[t][i] = wire[t][i]
                      \/ wire'[t][i].cmd # "forward"
                      \/ t = g /\ wire'[t][i] = Forwarded(s, m)
    OBVIOUS
  <2>1. \/ i \in DOMAIN told[t] /\ wire'[t][i] = told[t][i]
        \/ t = g /\ wire'[t][i] = Forwarded(s, m)
    BY <1>3, <1>4, SentContents
  <2>2. QED
    BY <1>4, <2>1
<1>6. \A t \in Sessions : roomName[t] = x => Kept(t)
  BY TalkKept
<1>7. CASE roomName[s] = x
  <2>1. LinkSession(s, x)
    BY <1>1, <1>7 DEF LinkOf, Here
  <2>2. m = "p2p" <=> linkType[s] = "p2p"
    BY DEF Outcomes
  <2>3. linkType[s] = "p2p" => asked[s] = "p2p" /\ asked[g] = "p2p"
    BY <1>3, <2>1, NilAssumption DEF LinkSession
  <2>4. Forwarded(s, m).from = s /\ Forwarded(s, m).mode = m
    BY DEF Forwarded
  <2>5. LinkMessage(g, Forwarded(s, m))'
    BY <1>1, <1>2, <1>3, <2>2, <2>3, <2>4 DEF LinkMessage
  <2>6. QED
    BY <1>1, <1>2, <1>5, <1>6, <2>5, KeepsWire DEF Kept
<1>8. CASE roomName[s] # x
  <2>1. roomName[g] # x
    BY <1>3, <1>8, OtherWithin
  <2> DEFINE f == Plain("ready")
  <2>2. LinkMessage(s, f)'
    BY DEF LinkMessage, Plain
  <2> HIDE DEF f
  <2>3. \A t \in Sessions : roomName[t] = x => \A i \in DOMAIN wire'[t] :
           \/ i \in DOMAIN wire[t] /\ wire'[t][i] = wire[t][i]
           \/ wire'[t][i].cmd # "forward"
    BY <1>5, <2>1
  <2>4. QED
    BY <1>1, <1>2, <1>6, <2>2, <2>3, KeepsWire DEF Kept
<1>9. QED
  BY <1>7, <1>8

\* Who forwards for the first time has not forwarded before.
LEMMA RecvForwardWire ==
    ASSUME IsoInv, NEW s \in Sessions, RecvForward(s), NEW x \in Rooms, WireOf(x)
    PROVE  WireOf(x)'
<1>1. /\ pc[s] # "done" /\ Goto(s, "forward") /\ roomName' = roomName /\ asked' = asked
      /\ wire' = wire
      /\ otherCws[s] # Nil => otherCws' = otherCws /\ linkType' = linkType
      /\ \A t \in Sessions \ {s} : otherCws'[t] = otherCws[t] /\ linkType'[t] = linkType[t]
  BY DEF RecvForward, Receiving, history, IsoInv, TypeOK
<1>2. \A t \in Sessions \ {s} : pc'[t] = pc[t]
  BY <1>1 DEF Goto, IsoInv, TypeOK
<1>3. \A t \in Sessions :
         \/ pc'[t] = "done"
         \/ /\ pc[t] # "done"
            /\ otherCws[t] # Nil => otherCws'[t] = otherCws[t] /\ linkType'[t] = linkType[t]
  BY <1>1, <1>2
<1> DEFINE f == Plain("ready")
<1>4. LinkMessage(s, f)'
  BY DEF LinkMessage, Plain
<1> HIDE DEF f
<1>5. QED
  BY <1>1, <1>3, <1>4, KeepsWire

\* Who subscribes has neither sent nor received anything.
LEMMA SubscribeWire ==
    ASSUME IsoInv, NEW s \in Sessions, NEW y \in Rooms, NEW lt \in LinkTypes,
           SubscribeNew(s, y, lt) \/ SubscribeFound(s, y, lt), NEW x \in Rooms, WireOf(x)
    PROVE  WireOf(x)'
<1>1. /\ roomName[s] = Nil /\ roomName' = [roomName EXCEPT ![s] = y]
      /\ asked' = [asked EXCEPT ![s] = lt] /\ wire' = wire
      /\ Goto(s, "create") \/ Goto(s, "store")
  BY DEF SubscribeNew, SubscribeFound, MaySubscribe
<1>2. \A t \in Sessions \ {s} :
         /\ pc'[t] = pc[t] /\ roomName'[t] = roomName[t] /\ asked'[t] = asked[t]
         /\ linkType'[t] = linkType[t] /\ otherCws'[t] = otherCws[t]
  BY OthersStay
<1>3. ~IntroducedOn(wire', s)
  BY <1>1, Unknown DEF IntroducedOn
<1>4. \A t \in Sessions : roomName[t] = x => t # s
  BY <1>1, NilAssumption
<1> DEFINE f == Plain("ready")
<1>5. LinkMessage(s, f)'
  BY DEF LinkMessage, Plain
<1> HIDE DEF f
<1>6. QED
  BY <1>1, <1>2, <1>3, <1>4, <1>5, KeepsWire

-----------------------------------------------------------------------------
\* Nobody is anywhere at the start.
LEMMA LinkInit == Init => LinkInv
<1> SUFFICES ASSUME Init, NEW x \in Rooms PROVE LinkOf(x) /\ WireOf(x)
  BY DEF LinkInv
<1>1. Here(x) = {} /\ \A s \in Sessions : roomName[s] # x
  BY NilAssumption DEF Init, Here
<1>2. roomInfoMap[x].users = 0
  BY DEF Init, Absent
<1>3. QED
  BY <1>1, <1>2 DEF LinkOf, LinkEntry, LinkPairs, WireOf

LEMMA LinkStep ==
    IsoInv /\ CountInv /\ PeerInv /\ LinkInv /\ [Next]_vars => LinkInv'
<1> SUFFICES ASSUME IsoInv, CountInv, PeerInv, LinkInv, [Next]_vars, NEW x \in Rooms, Calm(x)'
             PROVE  LinkOf(x)' /\ WireOf(x)'
  BY DEF LinkInv
<1>1. Calm(x) /\ PeerOf(x) /\ PeerOf(x)' /\ LinkOf(x) /\ WireOf(x)
  BY CalmBefore, PeerStep DEF PeerInv, LinkInv
<1>2. CASE UNCHANGED vars
  BY <1>1, <1>2 DEF vars, handler, history, LinkOf, LinkEntry, LinkPairs, LinkSession,
     Here, Members, WireOf, LinkMessage
<1>3. ASSUME NEW s \in Sessions, Serve(s) PROVE LinkOf(x)' /\ WireOf(x)'
  <2>1. CASE Subscribe(s)
    <3>1. PICK y \in Rooms, lt \in Asks : SubscribeNew(s, y, lt) \/ SubscribeFound(s, y, lt)
      BY <2>1 DEF Subscribe
    <3>2. lt \in LinkTypes
      BY AsksAssumption DEF LinkTypes
    <3>3. QED
      BY <1>1, <3>1, <3>2, SubscribeNewLink, SubscribeFoundLink, SubscribeWire
  <2>2. CASE RecvForward(s)
    BY <1>1, <2>2, RecvForwardLink, RecvForwardWire
  <2>3. CASE Open(s) \/ OpenFails(s) \/ RecvConnect(s)
    BY <1>1, <2>3, QuietLink, QuietWire
  <2>4. QED
    BY <1>3, <2>1, <2>2, <2>3 DEF Serve
<1>4. ASSUME NEW s \in Sessions, Continue(s) PROVE LinkOf(x)' /\ WireOf(x)'
  <2>1. CASE StoreRoom(s)
    BY <1>1, <2>1, StoreRoomLink, QuietWire
  <2>2. CASE LeaveWrite(s)
    BY <1>1, <2>2, LeaveWriteLink, QuietWire
  <2>3. CASE Forward(s)
    BY <1>1, <2>3, QuietLink, ForwardWire
  <2>4. CASE \/ TellCreator(s) \/ TellJoiner(s) \/ TellOther(s) \/ ForwardToNil(s)
             \/ RecvEOF(s) \/ RecvError(s) \/ LeaveRead(s) \/ LeaveNoRoom(s)
    BY <1>1, <2>4, QuietLink, QuietWire
  <2>5. QED
    BY <1>4, <2>1, <2>2, <2>3, <2>4 DEF Continue
<1>5. ASSUME NEW s \in Sessions, Outside(s) PROVE LinkOf(x)' /\ WireOf(x)'
  BY <1>1, <1>5, QuietLink, QuietWire DEF Outside
<1>6. QED
  BY <1>2, <1>3, <1>4, <1>5 DEF Next

\* The invariants hold throughout.
LEMMA LinkAlways == Spec => [](IsoInv /\ NetInv /\ LinkInv)
<1>1. Init => IsoInv /\ CountInv /\ PeerInv /\ NetInv /\ LinkInv
  BY IsoInit, CountInit, PeerInit, NetInit, LinkInit
<1>2. IsoInv /\ CountInv /\ PeerInv /\ NetInv /\ LinkInv /\ [Next]_vars
         => IsoInv' /\ CountInv' /\ PeerInv' /\ NetInv' /\ LinkInv'
  BY IsoStep, CountStep, PeerStep, NetStep, LinkStep
<1>3. QED
  BY <1>1, <1>2, PTL DEF Spec

\* In a calm room descriptions are left alone for their link type only between two
\* who both asked for p2p, and then both ways (rtcSignaling.go:234-241, 290).
THEOREM LinksAgree == Spec => []LinkAgreement
<1>1. IsoInv /\ NetInv /\ LinkInv => LinkAgreement
  <2> SUFFICES ASSUME IsoInv, NetInv, LinkInv PROVE LinkAgreement
    OBVIOUS
  <2>1. ASSUME NEW s \in Sessions, Calm(roomName[s]), NEW i \in DOMAIN wire[s],
               wire[s][i].cmd = "forward"
        PROVE  /\ roomName[s] \in Rooms /\ LinkMessage(s, wire[s][i]) /\ LinkOf(roomName[s])
               /\ wire[s][i].from \in Sessions => roomName[wire[s][i].from] = roomName[s]
    <3>1. MessageWithin(wire[s][i], roomName[s])
      BY OtherWithin DEF WiresWithin
    <3>2. QED
      BY <2>1, <3>1, NilAssumption DEF MessageWithin, Within, LinkInv, WireOf
  <2>2. P2PIsMutual
    BY <2>1 DEF P2PIsMutual, LinkMessage
  <2>3. SameLinkBothWays
    <3> SUFFICES ASSUME NEW s \in Sessions, NEW t \in Sessions, Calm(roomName[s]),
                        GotForward(s, t, TRUE), GotForward(t, s, FALSE)
                 PROVE  FALSE
      BY DEF SameLinkBothWays
    <3>1. PICK i \in DOMAIN wire[s] : /\ wire[s][i].cmd = "forward" /\ wire[s][i].from = t
                                      /\ wire[s][i].mode = "p2p"
      BY DEF GotForward
    <3>2. PICK j \in DOMAIN wire[t] : /\ wire[t][j].cmd = "forward" /\ wire[t][j].from = s
                                      /\ wire[t][j].mode # "p2p"
      BY DEF GotForward
    <3>3. roomName[t] = roomName[s] /\ roomName[s] \in Rooms
      BY <2>1, <3>1
    <3>4. pc[s] # "done" /\ pc[t] # "done"
      BY <3>1, <3>2 DEF NetInv, NetOf
    <3>5. otherCws[t] = s /\ linkType[t] = "p2p"
      BY <2>1, <3>1, <3>4 DEF LinkMessage
    <3>6. otherCws[s] = t /\ linkType[s] # "p2p"
      BY <2>1, <3>2, <3>3, <3>4 DEF LinkMessage
    <3>7. s \in Here(roomName[s]) /\ t \in Here(roomName[s])
      BY <3>3, <3>4 DEF Here
    <3>8. QED
      BY <3>3, <3>5, <3>6, <3>7 DEF LinkInv, LinkOf, LinkPairs
  <2>4. QED
    BY <2>2, <2>3 DEF LinkAgreement
<1>2. QED
  BY <1>1, LinkAlways, PTL

-----------------------------------------------------------------------------
(* As long as no two handlers overlap on a room and none is crowded, the   *)
(* room table keeps the promise of Rendezvous for the rooms with a name.   *)

QuietNext == Next /\ raced' = raced /\ crowded' = crowded

\* Then they are all calm, and one without users leaves no trace.
QuietInv ==
    /\ raced = {} /\ crowded = {}
    /\ \A x \in Named : roomInfoMap[x].users = 0 => roomInfoMap[x].linkType = ""

AllCalm == QuietInv /\ IsoInv /\ CountInv /\ PeerInv /\ LinkInv

LEMMA QuietIsCalm == ASSUME AllCalm, NEW x \in Named
                     PROVE  Calm(x) /\ RoomCounted(x) /\ PeerOf(x) /\ LinkOf(x)
  BY DEF AllCalm, QuietInv, Calm, CountInv, PeerInv, LinkInv, Named

\* A store makes the handler a member, as the first or the second.
LEMMA StoreEnters ==
    ASSUME AllCalm, NEW s \in Sessions, StoreRoom(s), roomName[s] \in Named
    PROVE  \E x \in Named : \E lt \in LinkTypes : Promise!Found(s, x, lt) \/ Promise!Join(s, x, lt)
<1>1. /\ pc[s] = "store" /\ roomInfoMap' = [roomInfoMap EXCEPT ![roomName[s]] = r[s]]
      /\ roomName' = roomName
  BY DEF StoreRoom, At, handler
<1>2. roomName[s] \in Rooms /\ roomInfoMap \in [Rooms -> Entries] /\ r[s] \in Entries
  BY <1>1 DEF AllCalm, IsoInv, HandlersWithin, NeedsRoom, TypeOK
<1>3. PICK x \in Named : x = roomName[s]
  BY <1>2
<1>4. /\ s \in Here(x) /\ s \in Holders(x) /\ pc[s] \in Arriving /\ s \notin Members(x)
  BY <1>1, <1>3 DEF Here, Holders, Holding, Arriving, Members
<1>5. /\ RoomCounted(x) /\ LinkOf(x) /\ LinkSession(s, x) /\ SessionOf(s, x)
  BY <1>4, QuietIsCalm DEF LinkOf, PeerOf
<1>6. PICK lt \in LinkTypes : lt = linkType[s] /\ lt = r[s].linkType
  BY <1>4, <1>5 DEF LinkSession
<1>7. /\ Members(x)' = Members(x) \cup {s} /\ roomInfoMap'[x].linkType = lt
      /\ \A y \in Named \ {x} : /\ Members(y)' = Members(y)
                               /\ roomInfoMap'[y].linkType = roomInfoMap[y].linkType
  <2>1. Members(x)' = Members(x) \cup {s}
    BY <1>3, MembersStored DEF AllCalm, Named
  <2>2. \A y \in Named \ {x} : Members(y)' = Members(y)
    BY <1>3, MembersStored DEF AllCalm, Named
  <2>3. roomInfoMap'[x] = r[s] /\ \A y \in Named \ {x} : roomInfoMap'[y] = roomInfoMap[y]
    BY <1>1, <1>2, <1>3 DEF Named
  <2>4. QED
    BY <1>6, <2>1, <2>2, <2>3
<1>8. CASE userNum[s] = 1
  <2>1. Members(x) = {}
    BY <1>1, <1>3, <1>4, <1>5, <1>8 DEF RoomCounted, CountIs, CopyIsCurrent
  <2>2. Promise!Found(s, x, lt)
    BY <1>7, <2>1 DEF Promise!Found
  <2>3. QED
    BY <2>2
<1>9. CASE userNum[s] = 2
  <2>1. roomInfoMap[x].users = 1 /\ \E t \in Sessions \ {s} : Members(x) = {t}
    BY <1>1, <1>3, <1>4, <1>5, <1>9 DEF RoomCounted, CountIs, CopyIsCurrent, Members
  <2>2. roomInfoMap[x].linkType \in LinkTypes
    BY <1>5, <2>1 DEF LinkOf, LinkEntry
  <2>3. lt = Agreed(asked[s], roomInfoMap[x].linkType)
    BY <1>4, <1>5, <1>6, <1>9 DEF LinkSession
  <2>4. lt = Promise!Agreed(lt, roomInfoMap[x].linkType)
    BY <2>2, <2>3 DEF Agreed, Promise!Agreed, LinkTypes
  <2>5. Promise!Join(s, x, lt)
    BY <1>7, <2>1, <2>4 DEF Promise!Join
  <2>6. QED
    BY <2>5
<1>10. QED
  BY <1>4, <1>5, <1>8, <1>9 DEF SessionOf

\* A member leaves, and the last one takes the room with it.
LEMMA WriteLeaves ==
    ASSUME AllCalm, NEW s \in Sessions, LeaveWrite(s), roomName[s] \in Named
    PROVE  \E x \in Named : Promise!Leave(s, x)
<1>1. /\ pc[s] = "leave" /\ roomInfoMap' = [roomInfoMap EXCEPT ![roomName[s]] = OneLess(r[s])]
  BY DEF LeaveWrite, At
<1>2. roomName[s] \in Rooms /\ roomInfoMap \in [Rooms -> Entries]
  BY <1>1 DEF AllCalm, IsoInv, HandlersWithin, NeedsRoom, TypeOK
<1>3. PICK x \in Named : x = roomName[s]
  BY <1>2
<1>4. s \in Holders(x) /\ s \in Members(x)
  BY <1>1, <1>3 DEF Holders, Holding, Members
<1>5. /\ roomInfoMap'[x] = OneLess(roomInfoMap[x]) /\ roomInfoMap[x] \in Entries
      /\ CountIs(roomInfoMap[x].users, Members(x))
  BY <1>1, <1>2, <1>3, <1>4, QuietIsCalm DEF RoomCounted, CopyIsCurrent
<1>6. roomInfoMap'[x].linkType = IF Members(x) = {s} THEN "" ELSE roomInfoMap[x].linkType
  <2>1. CASE roomInfoMap[x].users > 1
    <3>1. roomInfoMap'[x] = [roomInfoMap[x] EXCEPT !.users = @ - 1]
      BY <1>5, <2>1 DEF OneLess
    <3>2. roomInfoMap'[x].linkType = roomInfoMap[x].linkType
      BY <1>5, <3>1 DEF Entries
    <3>3. Members(x) # {s}
      BY <1>5, <2>1 DEF CountIs
    <3>4. QED
      BY <3>2, <3>3
  <2>2. CASE ~(roomInfoMap[x].users > 1)
    <3>1. roomInfoMap'[x] = Absent
      BY <1>5, <2>2, Zenon DEF OneLess
    <3>2. Absent.linkType = ""
      BY DEF Absent
    <3>3. Members(x) = {s}
      BY <1>4, <1>5, <2>2 DEF CountIs
    <3>4. QED
      BY <3>1, <3>2, <3>3
  <2>3. QED
    BY <2>1, <2>2
<1>7. \A y \in Named \ {x} : /\ Members(y)' = Members(y)
                            /\ roomInfoMap'[y].linkType = roomInfoMap[y].linkType
  <2>1. \A y \in Named \ {x} : s \notin Members(y)
    BY <1>3 DEF Members
  <2>2. \A y \in Named \ {x} : Members(y)' = Members(y)
    BY <2>1, MembersLeft DEF AllCalm, Named
  <2>3. \A y \in Named \ {x} : roomInfoMap'[y] = roomInfoMap[y]
    BY <1>1, <1>2, <1>3 DEF Named
  <2>4. QED
    BY <2>2, <2>3
<1>8. Members(x)' = Members(x) \ {s}
  BY MembersLeft DEF AllCalm, Named
<1>9. Promise!Leave(s, x)
  BY <1>4, <1>6, <1>7, <1>8 DEF Promise!Leave
<1>10. QED
  BY <1>9

\* Who has only subscribed is not a member yet.
LEMMA SubscribeMembers ==
    ASSUME IsoInv, NEW s \in Sessions, NEW y \in Rooms, NEW lt \in LinkTypes,
           SubscribeNew(s, y, lt) \/ SubscribeFound(s, y, lt), NEW x \in Rooms
    PROVE  Members(x)' = Members(x)
<1>1. roomName[s] = Nil /\ (Goto(s, "create") \/ Goto(s, "store"))
  BY DEF SubscribeNew, SubscribeFound, MaySubscribe
<1>2. pc'[s] \in {"create", "store"}
  BY <1>1 DEF Goto, IsoInv, TypeOK
<1>3. \A t \in Sessions \ {s} : pc'[t] = pc[t] /\ roomName'[t] = roomName[t]
  BY OthersStay
<1>4. QED
  BY <1>1, <1>2, <1>3, NilAssumption DEF Members

\* Every quiet step is a step of Rendezvous, or none.
LEMMA QuietStepMaps == AllCalm /\ [QuietNext]_vars => [Promise!Next]_(Promise!vars)
<1> SUFFICES ASSUME AllCalm, [QuietNext]_vars PROVE [Promise!Next]_(Promise!vars)
  OBVIOUS
<1>1. ASSUME roomInfoMap' = roomInfoMap, \A x \in Named : Members(x)' = Members(x)
      PROVE  UNCHANGED Promise!vars
  BY <1>1 DEF Promise!vars
<1>7. ASSUME NEW s \in Sessions, StoreRoom(s) \/ LeaveWrite(s), roomName[s] \notin Named
      PROVE  UNCHANGED Promise!vars
  <2>1. PICK e : roomInfoMap' = [roomInfoMap EXCEPT ![roomName[s]] = e]
    BY <1>7 DEF StoreRoom, LeaveWrite
  <2>2. roomInfoMap \in [Rooms -> Entries]
    BY DEF AllCalm, IsoInv, TypeOK
  <2>3. ASSUME NEW x \in Named
        PROVE  roomInfoMap'[x] = roomInfoMap[x] /\ Members(x)' = Members(x)
    <3>1. x \in Rooms /\ roomName[s] # x
      BY <1>7 DEF Named
    <3>2. roomInfoMap'[x] = roomInfoMap[x]
      BY <2>1, <2>2, <3>1
    <3>3. s \notin Members(x)
      BY <3>1 DEF Members
    <3>4. Members(x)' = Members(x)
      BY <1>7, <3>1, <3>3, MembersStored, MembersLeft DEF AllCalm
    <3>5. QED
      BY <3>2, <3>4
  <2>4. QED
    BY <2>3 DEF Promise!vars
<1>2. CASE UNCHANGED vars
  BY <1>1, <1>2 DEF vars, handler, Members
<1>3. ASSUME NEW s \in Sessions, Serve(s) PROVE UNCHANGED Promise!vars
  <2>1. roomInfoMap' = roomInfoMap
    BY <1>3 DEF Serve, Open, OpenFails, RecvConnect, Subscribe, SubscribeNew, SubscribeFound,
       RecvForward
  <2>2. CASE Subscribe(s)
    <3>1. PICK y \in Rooms, lt \in Asks : SubscribeNew(s, y, lt) \/ SubscribeFound(s, y, lt)
      BY <2>2 DEF Subscribe
    <3>2. lt \in LinkTypes
      BY AsksAssumption DEF LinkTypes
    <3>3. QED
      BY <1>1, <2>1, <3>1, <3>2, SubscribeMembers DEF AllCalm, Named
  <2>3. CASE Open(s) \/ OpenFails(s) \/ RecvConnect(s) \/ RecvForward(s)
    BY <1>1, <2>1, <2>3, MembersSame DEF AllCalm, Named
  <2>4. QED
    BY <1>3, <2>2, <2>3 DEF Serve
<1>4. ASSUME NEW s \in Sessions, Continue(s) PROVE [Promise!Next]_(Promise!vars)
  <2>1. CASE StoreRoom(s)
    BY <1>7, <2>1, StoreEnters DEF Promise!Next, LinkTypes, Promise!LinkTypes
  <2>2. CASE LeaveWrite(s)
    BY <1>7, <2>2, WriteLeaves DEF Promise!Next
  <2>3. CASE \/ TellCreator(s) \/ TellJoiner(s) \/ TellOther(s) \/ Forward(s) \/ ForwardToNil(s)
             \/ RecvEOF(s) \/ RecvError(s) \/ LeaveRead(s) \/ LeaveNoRoom(s)
    <3>1. roomInfoMap' = roomInfoMap
      BY <2>3 DEF TellCreator, TellJoiner, TellOther, Forward, ForwardToNil, RecvEOF, RecvError,
         LeaveRead, LeaveNoRoom
    <3>2. QED
      BY <1>1, <2>3, <3>1, MembersSame DEF AllCalm, Named
  <2>4. QED
    BY <1>4, <2>1, <2>2, <2>3 DEF Continue
<1>5. ASSUME NEW s \in Sessions, Outside(s) PROVE UNCHANGED Promise!vars
  <2>1. roomInfoMap' = roomInfoMap
    BY <1>5 DEF Outside, ClientCloses, NetBreaks, MapAbort
  <2>2. QED
    BY <1>1, <1>5, <2>1, MembersSame DEF AllCalm, Named, Outside
<1>6. QED
  BY <1>2, <1>3, <1>4, <1>5 DEF QuietNext, Next

\* The stores leave no trace of an empty room.
LEMMA QuietStep == AllCalm /\ [QuietNext]_vars => QuietInv'
<1> SUFFICES ASSUME AllCalm, [QuietNext]_vars PROVE QuietInv'
  OBVIOUS
<1>1. raced' = {} /\ crowded' = {}
  BY DEF AllCalm, QuietInv, QuietNext, vars, history
<1>2. roomInfoMap \in [Rooms -> Entries] /\ r \in [Sessions -> Entries]
  BY DEF AllCalm, IsoInv, TypeOK
<1>3. ASSUME NEW s \in Sessions, NEW e, NEW x \in Named,
             roomInfoMap' = [roomInfoMap EXCEPT ![roomName[s]] = e],
             roomName[s] = x => (e.users = 0 => e.linkType = ""), roomInfoMap'[x].users = 0
      PROVE  roomInfoMap'[x].linkType = ""
  BY <1>2, <1>3 DEF AllCalm, QuietInv, Named
<1>4. ASSUME NEW s \in Sessions, StoreRoom(s), roomName[s] \in Named PROVE r[s].users # 0
  <2>1. pc[s] = "store" /\ roomName[s] \in Rooms
    BY <1>4 DEF StoreRoom, At, AllCalm, IsoInv, HandlersWithin, NeedsRoom
  <2>2. s \in Holders(roomName[s])
    BY <2>1 DEF Holders, Holding
  <2>3. QED
    BY <1>4, <2>1, <2>2, QuietIsCalm DEF RoomCounted, CopyIsCurrent
<1>5. ASSUME NEW s \in Sessions PROVE OneLess(r[s]).users = 0 => OneLess(r[s]).linkType = ""
  <2>1. CASE r[s].users > 1
    <3>1. OneLess(r[s]) = [r[s] EXCEPT !.users = @ - 1]
      BY <2>1 DEF OneLess
    <3>2. [r[s] EXCEPT !.users = @ - 1].users = r[s].users - 1 /\ r[s].users \in 0..2
      BY <1>2 DEF Entries
    <3>3. [r[s] EXCEPT !.users = @ - 1].users # 0
      BY <2>1, <3>2
    <3>4. QED
      BY <3>1, <3>3
  <2>2. CASE ~(r[s].users > 1)
    <3>1. OneLess(r[s]) = Absent
      BY <2>2, Zenon DEF OneLess
    <3>2. Absent.linkType = ""
      BY DEF Absent
    <3>3. QED
      BY <3>1, <3>2
  <2>3. QED
    BY <2>1, <2>2
<1>6. ASSUME NEW s \in Sessions, StoreRoom(s) \/ LeaveWrite(s), NEW x \in Named,
             roomInfoMap'[x].users = 0
      PROVE  roomInfoMap'[x].linkType = ""
  <2>1. CASE StoreRoom(s)
    BY <1>3, <1>4, <1>6, <2>1 DEF StoreRoom
  <2>2. CASE LeaveWrite(s)
    BY <1>3, <1>5, <1>6, <2>2 DEF LeaveWrite
  <2>3. QED
    BY <1>6, <2>1, <2>2
<1>7. CASE roomInfoMap' = roomInfoMap
  BY <1>1, <1>7 DEF AllCalm, QuietInv
<1>8. roomInfoMap' = roomInfoMap \/ \E s \in Sessions : StoreRoom(s) \/ LeaveWrite(s)
  <2>1. ASSUME NEW s \in Sessions, Serve(s) PROVE roomInfoMap' = roomInfoMap
    BY <2>1 DEF Serve, Open, OpenFails, RecvConnect, Subscribe, SubscribeNew, SubscribeFound,
       RecvForward
  <2>2. ASSUME NEW s \in Sessions, Continue(s), ~StoreRoom(s), ~LeaveWrite(s)
        PROVE  roomInfoMap' = roomInfoMap
    BY <2>2 DEF Continue, TellCreator, TellJoiner, TellOther, Forward, ForwardToNil, RecvEOF,
       RecvError, LeaveRead, LeaveNoRoom
  <2>3. ASSUME NEW s \in Sessions, Outside(s) PROVE roomInfoMap' = roomInfoMap
    BY <2>3 DEF Outside, ClientCloses, NetBreaks, MapAbort
  <2>4. QED
    BY <2>1, <2>2, <2>3 DEF QuietNext, Next, vars
<1>9. QED
  BY <1>1, <1>6, <1>7, <1>8 DEF QuietInv

LEMMA QuietInit == Init => QuietInv /\ Promise!Init
<1> SUFFICES ASSUME Init PROVE QuietInv /\ Promise!Init
  OBVIOUS
<1>1. \A x \in Rooms : roomInfoMap[x].linkType = ""
  BY DEF Init, Absent
<1>2. \A x \in Rooms : Members(x) = {}
  BY DEF Init, Members
<1>3. QED
  BY <1>1, <1>2 DEF Init, QuietInv, Promise!Init, Named

\* As long as handlers do not overlap on a room and no third client comes, the
\* rooms are what Rendezvous promises (rtcSignaling.go:189-244, 494-509).
THEOREM RoomsImplementRendezvous == Spec => RoomsKeepPromise
<1> DEFINE Inv == Quiet => AllCalm
<1>1. Init => Inv /\ Promise!Init
  BY IsoInit, CountInit, PeerInit, LinkInit, QuietInit DEF AllCalm
<1>2. Inv /\ [Next]_vars /\ Quiet' => AllCalm /\ [QuietNext]_vars
  <2> SUFFICES ASSUME Inv, [Next]_vars, Quiet' PROVE AllCalm /\ [QuietNext]_vars
    OBVIOUS
  <2>1. raced \subseteq raced' /\ crowded \subseteq crowded'
    BY HistoryGrows
  <2>2. Quiet /\ raced' = raced /\ crowded' = crowded
    BY <2>1 DEF Quiet
  <2>3. QED
    BY <2>2 DEF QuietNext
<1>3. AllCalm /\ [QuietNext]_vars => AllCalm'
  <2> SUFFICES ASSUME AllCalm, [QuietNext]_vars PROVE AllCalm'
    OBVIOUS
  <2>1. [Next]_vars
    BY DEF QuietNext
  <2>2. QED
    BY <2>1, IsoStep, CountStep, PeerStep, LinkStep, QuietStep DEF AllCalm
<1>4. Inv /\ [Next]_vars => Inv'
  BY <1>2, <1>3
<1>5. Inv /\ [Next]_vars => [Quiet' => [Promise!Next]_(Promise!vars)]_vars
  BY <1>2, QuietStepMaps
<1>6. QED
  BY <1>1, <1>4, <1>5, PTL DEF Spec, RoomsKeepPromise
=============================================================================
