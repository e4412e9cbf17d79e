-------------------------- MODULE RoomServer_proofs --------------------------
(* Theorems about RoomServer, for every number of sessions and rooms, and  *)
(* the inductive invariants they need.                                     *)
EXTENDS RoomServer, FiniteSetTheorems, TLAPS

(***************************************************************************)
(* Typing and isolation are one induction: a handler looks its room up in  *)
(* roomInfoMap when it forwards, and that it then has a room at all is     *)
(* known only from who could have introduced it.                           *)
(***************************************************************************)

\* c, if it is a connection at all, belongs to room x.
Within(c, x) == c # Nil => x \in Rooms /\ roomName[c] = x

NeedsRoom == {"create", "store", "reply", "notify", "forward", "leave"}

EntryWithin(e, x) == Within(e.cws, x) /\ Within(e.clientId, x)

MessageWithin(m, x) == /\ Within(m.from, x)
                       /\ m.cmd \in {"online", "forward"} => x \in Rooms

HandlersWithin == \A s \in Sessions :
    /\ pc[s] \in NeedsRoom => roomName[s] \in Rooms
    /\ Within(otherCws[s], roomName[s])
    /\ EntryWithin(r[s], roomName[s])

EntriesWithin == \A x \in Rooms : EntryWithin(roomInfoMap[x], x)

WiresWithin(w) == \A s \in Sessions : \A i \in DOMAIN w[s] :
    MessageWithin(w[s][i], roomName[s])

IsoInv == TypeOK /\ HandlersWithin /\ EntriesWithin /\ WiresWithin(wire)

-----------------------------------------------------------------------------
(* Sending.                                                                *)

Wires == [Sessions -> Seq(Messages)]

\* Sent keeps the type of the wires, whatever connection it is called with.
LEMMA SentType ==
    ASSUME NEW w \in Wires, NEW c, NEW m \in Messages
    PROVE  Sent(w, c, m) \in Wires
<1>1. ASSUME NEW t \in Sessions PROVE Append(w[t], m) \in Seq(Messages)
  BY DEF Wires
<1>2. CASE c \in Sessions
  <2>1. Append(w[c], m) \in Seq(Messages)
    BY <1>1, <1>2
  <2>2. QED
    BY <2>1 DEF Wires, Sent
<1>3. CASE c \notin Sessions
  BY <1>3 DEF Wires, Sent
<1>4. QED
  BY <1>2, <1>3

\* A message found on a wire after a send was there before, or is the one sent.
LEMMA SentContents ==
    ASSUME NEW w \in Wires, NEW c, NEW m \in Messages,
           NEW t \in Sessions, NEW i \in DOMAIN Sent(w, c, m)[t]
    PROVE  \/ i \in DOMAIN w[t] /\ Sent(w, c, m)[t][i] = w[t][i]
           \/ t = c /\ Sent(w, c, m)[t][i] = m
  BY DEF Wires, Sent

\* The messages handlers build are messages.
LEMMA MessageTypes ==
    ASSUME NEW id \in Sessions \cup {Nil}
    PROVE  /\ \A cmd \in {"connect", "ready", "offline"} : Plain(cmd) \in Messages
           /\ RoomClients(id) \in Messages
           /\ Online(id) \in Messages
           /\ \A md \in {"p2p", "relayed", "unpatched"} :
                 Notice(md) \in Messages /\ Forwarded(id, md) \in Messages
  BY DEF Plain, RoomClients, Online, Notice, Forwarded, Messages

-----------------------------------------------------------------------------
(* Typing and isolation, inductively.                                      *)

\* Any four fields of the right type make an entry.
LEMMA EntryMade ==
    ASSUME NEW id \in Sessions \cup {Nil}, NEW c \in Sessions \cup {Nil},
           NEW l \in LinkTypes \cup {""}, NEW n \in 0..2
    PROVE  [clientId |-> id, cws |-> c, linkType |-> l, users |-> n] \in Entries
  BY DEF Entries

\* The fields of an entry have the right type.
LEMMA EntryFields ==
    ASSUME NEW e \in Entries
    PROVE  /\ e.clientId \in Sessions \cup {Nil} /\ e.cws \in Sessions \cup {Nil}
           /\ e.linkType \in LinkTypes \cup {""} /\ e.users \in 0..2
           /\ e = [clientId |-> e.clientId, cws |-> e.cws,
                   linkType |-> e.linkType, users |-> e.users]
  BY DEF Entries

\* A missing key reads as an entry.
LEMMA AbsentType == Absent \in Entries
  BY DEF Absent, Entries

\* What a handler makes of an entry is an entry.
LEMMA EntryTypes ==
    ASSUME NEW s \in Sessions, NEW lt \in LinkTypes, NEW e \in Entries,
           myClientId[s] \in Sessions \cup {Nil}
    PROVE  /\ Absent \in Entries
           /\ Founded(s, lt) \in Entries
           /\ Joined(s, lt, e) \in Entries
           /\ OneLess(e) \in Entries
<1>1. Absent \in Entries
  BY AbsentType
<1>2. Founded(s, lt) \in Entries
  <2>1. 1 \in 0..2
    OBVIOUS
  <2>2. lt \in LinkTypes \cup {""}
    OBVIOUS
  <2>3. QED
    BY <2>1, <2>2, EntryMade DEF Founded
<1>3. Joined(s, lt, e) \in Entries
  <2> DEFINE link == IF lt = e.linkType THEN lt ELSE "relayed"
             cws == IF otherCws[s] = Nil THEN s ELSE e.cws
  <2>1. link \in LinkTypes \cup {""}
    BY DEF LinkTypes
  <2>2. e.clientId \in Sessions \cup {Nil} /\ e.cws \in Sessions \cup {Nil}
    BY EntryFields
  <2>3. cws \in Sessions \cup {Nil}
    BY <2>2
  <2>4. 2 \in 0..2
    OBVIOUS
  <2> HIDE DEF link, cws
  <2>5. [clientId |-> e.clientId, cws |-> cws, linkType |-> link, users |-> 2] \in Entries
    BY <2>1, <2>2, <2>3, <2>4, EntryMade
  <2>6. QED
    BY <2>5 DEF Joined, link, cws
<1>4. OneLess(e) \in Entries
  <2>1. CASE e.users > 1
    <3>1. e.users \in 0..2
      BY EntryFields
    <3>2. e.users - 1 \in 0..2
      BY <2>1, <3>1
    <3>3. [e EXCEPT !.users = e.users - 1] \in Entries
      BY <3>2 DEF Entries
    <3>4. QED
      BY <2>1, <3>3 DEF OneLess
  <2>2. CASE ~(e.users > 1)
    BY <2>2, <1>1 DEF OneLess
  <2>3. QED
    BY <2>1, <2>2
<1>5. QED
  BY <1>1, <1>2, <1>3, <1>4

\* A wire stays within its room if the message sent on it does.
LEMMA SentWithin ==
    ASSUME NEW w \in Wires, NEW c, NEW m \in Messages, WiresWithin(w),
           c \in Sessions => MessageWithin(m, roomName[c])
    PROVE  Sent(w, c, m) \in Wires /\ WiresWithin(Sent(w, c, m))
<1>1. Sent(w, c, m) \in Wires
  BY SentType
<1>2. ASSUME NEW t \in Sessions, NEW i \in DOMAIN Sent(w, c, m)[t]
      PROVE  MessageWithin(Sent(w, c, m)[t][i], roomName[t])
  BY SentContents DEF WiresWithin
<1>3. QED
  BY <1>1, <1>2 DEF WiresWithin

\* A message that names nobody and introduces nobody fits everywhere.
LEMMA AnonymousWithin ==
    ASSUME NEW x
    PROVE  /\ \A cmd \in {"connect", "ready", "offline"} : MessageWithin(Plain(cmd), x)
           /\ \A md : MessageWithin(Notice(md), x)
           /\ MessageWithin(RoomClients(Nil), x)
           /\ Within(Nil, x)
           /\ EntryWithin(Absent, x)
  BY DEF MessageWithin, Within, EntryWithin, Plain, Notice, RoomClients, Absent

\* The initial state is typed and isolated.
LEMMA IsoInit == Init => IsoInv
<1> SUFFICES ASSUME Init PROVE IsoInv
  OBVIOUS
<1>1. TypeOK
  <2>1. <<>> \in Seq(Messages) /\ Absent \in Entries
    BY AbsentType
  <2>2. wire \in [Sessions -> Seq(Messages)]
    BY <2>1 DEF Init
  <2>3. r \in [Sessions -> Entries] /\ roomInfoMap \in [Rooms -> Entries]
    BY <2>1 DEF Init
  <2>4. forwards \in [Sessions -> 0..MaxForwards]
    <3>1. forwards = [s \in Sessions |-> 0]
      BY DEF Init
    <3>2. QED
      BY <3>1, BoundsAssumption
  <2>5. pc \in [Sessions -> Labels]
    BY DEF Init, Labels
  <2>6. userNum \in [Sessions -> 0..2]
    <3>1. userNum = [s \in Sessions |-> 0]
      BY DEF Init
    <3>2. QED
      BY <3>1
  <2>7. /\ net \in [Sessions -> {"none", "open", "eof", "reset"}]
        /\ myClientId \in [Sessions -> Sessions \cup {Nil}]
        /\ \A s \in Sessions : myClientId[s] \in {s, Nil}
        /\ otherCws \in [Sessions -> Sessions \cup {Nil}]
        /\ roomName \in [Sessions -> Rooms \cup {Nil}]
    BY DEF Init
  <2>8. /\ linkType \in [Sessions -> LinkTypes \cup {""}]
        /\ asked \in [Sessions -> LinkTypes \cup {""}]
        /\ process \in {"up", "panicked", "aborted"}
        /\ raced \in SUBSET Rooms /\ crowded \in SUBSET Rooms
    BY DEF Init
  <2>9. QED
    BY <2>2, <2>3, <2>4, <2>5, <2>6, <2>7, <2>8 DEF TypeOK
<1>2. HandlersWithin
  BY DEF Init, HandlersWithin, NeedsRoom, EntryWithin, Within, Absent
<1>3. EntriesWithin
  BY AnonymousWithin DEF Init, EntriesWithin
<1>4. WiresWithin(wire)
  <2>1. wire = [s \in Sessions |-> <<>>]
    BY DEF Init
  <2>2. QED
    BY <2>1 DEF WiresWithin
<1>5. QED
  BY <1>1, <1>2, <1>3, <1>4 DEF IsoInv

-----------------------------------------------------------------------------
(* The steps of a handler.  All but the subscriptions leave every roomName *)
(* alone, so that what was within a room still is.                         *)

\* A step that changes no roomName keeps the invariant if all it leaves
\* behind is within the rooms.
LEMMA Framed ==
    ASSUME TypeOK', roomName' = roomName, WiresWithin(wire'),
           \A t \in Sessions : /\ pc'[t] \in NeedsRoom => roomName[t] \in Rooms
                              /\ Within(otherCws'[t], roomName[t])
                              /\ EntryWithin(r'[t], roomName[t]),
           \A x \in Rooms : EntryWithin(roomInfoMap'[x], x)
    PROVE  IsoInv'
<1>1. HandlersWithin'
  BY DEF HandlersWithin, EntryWithin, Within
<1>2. EntriesWithin'
  BY DEF EntriesWithin, EntryWithin, Within
<1>3. WiresWithin(wire)'
  BY DEF WiresWithin, MessageWithin, Within
<1>4. QED
  BY <1>1, <1>2, <1>3 DEF IsoInv

\* The same for a step that leaves connections, entries and map alone.
LEMMA FramedTalk ==
    ASSUME IsoInv, TypeOK', roomName' = roomName, WiresWithin(wire'),
           otherCws' = otherCws, r' = r, roomInfoMap' = roomInfoMap,
           \A t \in Sessions : pc'[t] \in NeedsRoom => roomName[t] \in Rooms
    PROVE  IsoInv'
<1>1. \A t \in Sessions : /\ Within(otherCws'[t], roomName[t])
                         /\ EntryWithin(r'[t], roomName[t])
  BY DEF IsoInv, HandlersWithin
<1>2. \A x \in Rooms : EntryWithin(roomInfoMap'[x], x)
  BY DEF IsoInv, EntriesWithin
<1>3. QED
  BY <1>1, <1>2, Framed

\* A handler that moves on to a place where it needs a room has one.
LEMMA MovedOn ==
    ASSUME IsoInv, NEW s \in Sessions, NEW l \in Labels, Goto(s, l),
           l \in NeedsRoom => roomName[s] \in Rooms
    PROVE  /\ pc' \in [Sessions -> Labels]
           /\ \A t \in Sessions : pc'[t] \in NeedsRoom => roomName[t] \in Rooms
<1>1. pc \in [Sessions -> Labels] /\ pc' = [pc EXCEPT ![s] = l]
  BY DEF IsoInv, TypeOK, Goto
<1>2. \A t \in Sessions : pc[t] \in NeedsRoom => roomName[t] \in Rooms
  BY DEF IsoInv, HandlersWithin
<1>3. QED
  BY <1>1, <1>2

\* Greeting a client keeps the invariant.
LEMMA OpenIso == ASSUME IsoInv, NEW s \in Sessions, Open(s) PROVE IsoInv'
<1>1. /\ pc' \in [Sessions -> Labels]
      /\ \A t \in Sessions : pc'[t] \in NeedsRoom => roomName[t] \in Rooms
  <2>1. Goto(s, "receive") /\ "receive" \in Labels /\ "receive" \notin NeedsRoom
    BY DEF Open, Labels, NeedsRoom
  <2>2. QED
    BY <2>1, MovedOn
<1>2. Plain("connect") \in Messages
  BY MessageTypes
<1>3. wire' = [wire EXCEPT ![s] = <<Plain("connect")>>] /\ wire \in Wires
  BY DEF Open, IsoInv, TypeOK, Wires
<1>4. wire' \in Wires
  BY <1>2, <1>3 DEF Wires
<1>5. WiresWithin(wire')
  <2>1. ASSUME NEW t \in Sessions, NEW i \in DOMAIN wire'[t]
        PROVE  MessageWithin(wire'[t][i], roomName[t])
    <3>1. CASE t = s
      <4>1. wire'[t] = <<Plain("connect")>>
        BY <3>1, <1>3 DEF Wires
      <4>2. wire'[t][i] = Plain("connect")
        BY <4>1
      <4>3. QED
        BY <4>2, AnonymousWithin
    <3>2. CASE t # s
      <4>1. wire'[t] = wire[t]
        BY <3>2, <1>3 DEF Wires
      <4>2. QED
        BY <4>1 DEF IsoInv, WiresWithin
    <3>3. QED
      BY <3>1, <3>2
  <2>2. QED
    BY <2>1 DEF WiresWithin
<1>6. net' \in [Sessions -> {"none", "open", "eof", "reset"}]
  BY DEF Open, IsoInv, TypeOK
<1>7. TypeOK'
  BY <1>1, <1>4, <1>6 DEF Open, handler, history, IsoInv, TypeOK, Wires
<1>8. QED
  BY <1>1, <1>5, <1>7, FramedTalk DEF Open, handler

\* A session that is over before it began keeps the invariant.
LEMMA OpenFailsIso == ASSUME IsoInv, NEW s \in Sessions, OpenFails(s) PROVE IsoInv'
<1>1. /\ pc' \in [Sessions -> Labels]
      /\ \A t \in Sessions : pc'[t] \in NeedsRoom => roomName[t] \in Rooms
  <2>1. Goto(s, "done") /\ "done" \in Labels /\ "done" \notin NeedsRoom
    BY DEF OpenFails, Labels, NeedsRoom
  <2>2. QED
    BY <2>1, MovedOn
<1>2. net' \in [Sessions -> {"none", "open", "eof", "reset"}]
  BY DEF OpenFails, IsoInv, TypeOK
<1>3. TypeOK'
  BY <1>1, <1>2 DEF OpenFails, handler, history, IsoInv, TypeOK
<1>4. QED
  BY <1>1, <1>3, FramedTalk DEF OpenFails, handler, IsoInv

\* So does a handler that leaves the loop on an error,
LEMMA RecvErrorIso == ASSUME IsoInv, NEW s \in Sessions, RecvError(s) PROVE IsoInv'
<1>1. /\ pc' \in [Sessions -> Labels]
      /\ \A t \in Sessions : pc'[t] \in NeedsRoom => roomName[t] \in Rooms
  <2>1. Goto(s, "teardown") /\ "teardown" \in Labels /\ "teardown" \notin NeedsRoom
    BY DEF RecvError, Labels, NeedsRoom
  <2>2. QED
    BY <2>1, MovedOn
<1>2. TypeOK'
  BY <1>1 DEF RecvError, handler, history, IsoInv, TypeOK
<1>3. QED
  BY <1>1, <1>2, FramedTalk DEF RecvError, handler, IsoInv

\* a handler that takes the process down,
LEMMA ForwardToNilIso == ASSUME IsoInv, NEW s \in Sessions, ForwardToNil(s) PROVE IsoInv'
<1>1. process' \in {"up", "panicked", "aborted"}
  BY DEF ForwardToNil, IsoInv, TypeOK
<1>2. TypeOK'
  BY <1>1 DEF ForwardToNil, handler, history, IsoInv, TypeOK
<1>3. QED
  BY <1>2, FramedTalk DEF ForwardToNil, handler, IsoInv, HandlersWithin

\* two handlers that do so together,
LEMMA MapAbortIso == ASSUME IsoInv, NEW s \in Sessions, NEW t \in Sessions, MapAbort(s, t) PROVE IsoInv'
<1>1. process' \in {"up", "panicked", "aborted"}
  BY DEF MapAbort, IsoInv, TypeOK
<1>2. TypeOK'
  BY <1>1 DEF MapAbort, handler, history, IsoInv, TypeOK
<1>3. QED
  BY <1>2, FramedTalk DEF MapAbort, handler, IsoInv, HandlersWithin

\* a client that closes,
LEMMA ClientClosesIso == ASSUME IsoInv, NEW s \in Sessions, ClientCloses(s) PROVE IsoInv'
<1>1. net' \in [Sessions -> {"none", "open", "eof", "reset"}]
  BY DEF ClientCloses, IsoInv, TypeOK
<1>2. TypeOK'
  BY <1>1 DEF ClientCloses, handler, history, IsoInv, TypeOK
<1>3. QED
  BY <1>2, FramedTalk DEF ClientCloses, handler, IsoInv, HandlersWithin

\* and a connection that breaks.
LEMMA NetBreaksIso == ASSUME IsoInv, NEW s \in Sessions, NetBreaks(s) PROVE IsoInv'
<1>1. net' \in [Sessions -> {"none", "open", "eof", "reset"}]
  BY DEF NetBreaks, IsoInv, TypeOK
<1>2. TypeOK'
  BY <1>1 DEF NetBreaks, handler, history, IsoInv, TypeOK
<1>3. QED
  BY <1>2, FramedTalk DEF NetBreaks, handler, IsoInv, HandlersWithin

-----------------------------------------------------------------------------
(* Steps that send.                                                        *)

\* The connection a handler took for the other one is in its own room, and so
\* is its own clientId.
LEMMA OtherWithin ==
    ASSUME IsoInv, NEW s \in Sessions
    PROVE  /\ otherCws[s] \in Sessions => /\ roomName[otherCws[s]] = roomName[s]
                                          /\ roomName[s] \in Rooms
           /\ wire \in Wires /\ WiresWithin(wire)
  BY NilAssumption DEF IsoInv, TypeOK, HandlersWithin, Within, Wires

\* "ready" names nobody else.
LEMMA RecvConnectIso == ASSUME IsoInv, NEW s \in Sessions, RecvConnect(s) PROVE IsoInv'
<1>1. Plain("ready") \in Messages /\ MessageWithin(Plain("ready"), roomName[s])
  BY MessageTypes, AnonymousWithin
<1>2. wire' \in Wires /\ WiresWithin(wire')
  BY <1>1, OtherWithin, SentWithin DEF RecvConnect
<1>3. /\ myClientId' \in [Sessions -> Sessions \cup {Nil}]
      /\ \A t \in Sessions : myClientId'[t] \in {t, Nil}
  BY DEF RecvConnect, IsoInv, TypeOK
<1>4. TypeOK'
  BY <1>2, <1>3 DEF RecvConnect, handler, history, IsoInv, TypeOK, Wires
<1>5. QED
  BY <1>2, <1>4, FramedTalk DEF RecvConnect, handler, IsoInv, HandlersWithin

\* The creator is told of an empty room.
LEMMA TellCreatorIso == ASSUME IsoInv, NEW s \in Sessions, TellCreator(s) PROVE IsoInv'
<1>1. RoomClients(Nil) \in Messages /\ MessageWithin(RoomClients(Nil), roomName[s])
  BY MessageTypes, AnonymousWithin
<1>2. wire' \in Wires /\ WiresWithin(wire')
  BY <1>1, OtherWithin, SentWithin DEF TellCreator
<1>3. /\ pc' \in [Sessions -> Labels]
      /\ \A t \in Sessions : pc'[t] \in NeedsRoom => roomName[t] \in Rooms
  <2>1. Goto(s, "store") /\ "store" \in Labels /\ roomName[s] \in Rooms
    BY DEF TellCreator, At, Labels, NeedsRoom, IsoInv, HandlersWithin
  <2>2. QED
    BY <2>1, MovedOn
<1>4. TypeOK'
  BY <1>2, <1>3 DEF TellCreator, handler, history, IsoInv, TypeOK, Wires
<1>5. QED
  BY <1>2, <1>3, <1>4, FramedTalk DEF TellCreator, handler, IsoInv

\* The copy of the entry may go out of scope: it leaves nothing behind.
LEMMA ScopeLeft ==
    ASSUME IsoInv, NEW s \in Sessions, OutOfScope(s)
    PROVE  /\ r' \in [Sessions -> Entries]
           /\ \A t \in Sessions : EntryWithin(r'[t], roomName[t])
<1>1. r \in [Sessions -> Entries] /\ r' = [r EXCEPT ![s] = Absent]
  BY DEF IsoInv, TypeOK, OutOfScope
<1>2. \A t \in Sessions : EntryWithin(r[t], roomName[t])
  BY DEF IsoInv, HandlersWithin
<1>3. EntryWithin(Absent, roomName[s])
  BY AnonymousWithin
<1>4. QED
  BY <1>1, <1>2, <1>3, AbsentType

\* The joiner is told the clientId of somebody in its own room.
LEMMA TellJoinerIso == ASSUME IsoInv, NEW s \in Sessions, TellJoiner(s) PROVE IsoInv'
<1> DEFINE m == RoomClients(r[s].clientId)
<1>1. roomName[s] \in Rooms
  BY DEF TellJoiner, At, NeedsRoom, IsoInv, HandlersWithin
<1>2. m \in Messages /\ MessageWithin(m, roomName[s])
  <2>1. r[s] \in Entries /\ EntryWithin(r[s], roomName[s])
    BY DEF IsoInv, TypeOK, HandlersWithin
  <2>2. r[s].clientId \in Sessions \cup {Nil}
    BY <2>1, EntryFields
  <2>3. QED
    BY <1>1, <2>1, <2>2, MessageTypes DEF EntryWithin, MessageWithin, RoomClients
<1>3. wire' \in Wires /\ WiresWithin(wire')
  BY <1>2, OtherWithin, SentWithin DEF TellJoiner
<1>4. /\ pc' \in [Sessions -> Labels]
      /\ \A t \in Sessions : pc'[t] \in NeedsRoom => roomName[t] \in Rooms
  <2>1. Goto(s, "notify") \/ Goto(s, "receive")
    BY DEF TellJoiner
  <2>2. "notify" \in Labels /\ "receive" \in Labels
    BY DEF Labels
  <2>3. QED
    BY <1>1, <2>1, <2>2, MovedOn
<1>5. /\ r' \in [Sessions -> Entries]
      /\ \A t \in Sessions : EntryWithin(r'[t], roomName[t])
  BY ScopeLeft DEF TellJoiner
<1>6. TypeOK'
  BY <1>3, <1>4, <1>5 DEF TellJoiner, handler, history, IsoInv, TypeOK, Wires
<1>7. QED
  BY <1>3, <1>4, <1>5, <1>6, Framed
     DEF TellJoiner, handler, IsoInv, HandlersWithin, EntriesWithin

\* The one who waited is told of the joiner, who is in the same room.
LEMMA TellOtherIso == ASSUME IsoInv, NEW s \in Sessions, TellOther(s) PROVE IsoInv'
<1> DEFINE m == Online(myClientId[s])
<1>1. roomName[s] \in Rooms /\ myClientId[s] \in {s, Nil}
  BY DEF TellOther, At, NeedsRoom, IsoInv, TypeOK, HandlersWithin
<1>2. m \in Messages /\ MessageWithin(m, roomName[s])
  BY <1>1, MessageTypes DEF MessageWithin, Within, Online
<1>3. wire' \in Wires /\ WiresWithin(wire')
  BY <1>2, OtherWithin, SentWithin DEF TellOther
<1>4. /\ pc' \in [Sessions -> Labels]
      /\ \A t \in Sessions : pc'[t] \in NeedsRoom => roomName[t] \in Rooms
  <2>1. Goto(s, "receive") /\ "receive" \in Labels /\ "receive" \notin NeedsRoom
    BY DEF TellOther, Labels, NeedsRoom
  <2>2. QED
    BY <2>1, MovedOn
<1>5. TypeOK'
  BY <1>3, <1>4 DEF TellOther, handler, history, IsoInv, TypeOK, Wires
<1>6. QED
  BY <1>3, <1>4, <1>5, FramedTalk DEF TellOther, handler, IsoInv

\* What is forwarded goes to, and comes from, the handler's own room.
LEMMA ForwardIso == ASSUME IsoInv, NEW s \in Sessions, Forward(s) PROVE IsoInv'
<1>1. roomName[s] \in Rooms
  BY DEF Forward, At, NeedsRoom, IsoInv, HandlersWithin
<1>2. wire' \in Wires /\ WiresWithin(wire')
  <2>1. PICK m \in Outcomes(s) :
          LET both(w) == Sent(Sent(w, s, Notice(m)), otherCws[s], Notice(m))
              told    == IF userNum[s] < 2 THEN both(wire) ELSE wire
          IN wire' = Sent(told, otherCws[s], Forwarded(s, m))
    BY DEF Forward
  <2> DEFINE own  == Sent(wire, s, Notice(m))
             both == Sent(own, otherCws[s], Notice(m))
             told == IF userNum[s] < 2 THEN both ELSE wire
  <2>2. wire' = Sent(told, otherCws[s], Forwarded(s, m))
    BY <2>1
  <2>3. m \in {"p2p", "relayed", "unpatched"}
    BY DEF Outcomes
  <2>4. Notice(m) \in Messages /\ Forwarded(s, m) \in Messages
    BY <2>3, MessageTypes
  <2>5. MessageWithin(Forwarded(s, m), roomName[s])
    BY <1>1 DEF MessageWithin, Within, Forwarded
  <2>6. own \in Wires /\ WiresWithin(own)
    BY <2>4, OtherWithin, AnonymousWithin, SentWithin
  <2> HIDE DEF own
  <2>7. both \in Wires /\ WiresWithin(both)
    BY <2>4, <2>6, AnonymousWithin, SentWithin
  <2> HIDE DEF both
  <2>8. told \in Wires /\ WiresWithin(told)
    BY <2>7, OtherWithin
  <2> HIDE DEF told
  <2>9. otherCws[s] \in Sessions => MessageWithin(Forwarded(s, m), roomName[otherCws[s]])
    BY <2>5, OtherWithin
  <2>10. QED
    BY <2>2, <2>4, <2>8, <2>9, SentWithin
<1>3. /\ pc' \in [Sessions -> Labels]
      /\ \A t \in Sessions : pc'[t] \in NeedsRoom => roomName[t] \in Rooms
  <2>1. Goto(s, "receive") /\ "receive" \in Labels /\ "receive" \notin NeedsRoom
    BY DEF Forward, Labels, NeedsRoom
  <2>2. QED
    BY <2>1, MovedOn
<1>4. TypeOK'
  BY <1>2, <1>3 DEF Forward, handler, history, IsoInv, TypeOK, Wires
<1>5. QED
  BY <1>2, <1>3, <1>4, FramedTalk DEF Forward, handler, IsoInv

\* "offline" names nobody.
LEMMA RecvEOFIso == ASSUME IsoInv, NEW s \in Sessions, RecvEOF(s) PROVE IsoInv'
<1>1. Plain("offline") \in Messages /\ \A x : MessageWithin(Plain("offline"), x)
  BY MessageTypes, AnonymousWithin
<1>2. wire' \in Wires /\ WiresWithin(wire')
  BY <1>1, OtherWithin, SentWithin DEF RecvEOF
<1>3. /\ pc' \in [Sessions -> Labels]
      /\ \A t \in Sessions : pc'[t] \in NeedsRoom => roomName[t] \in Rooms
  <2>1. Goto(s, "teardown") /\ "teardown" \in Labels /\ "teardown" \notin NeedsRoom
    BY DEF RecvEOF, Labels, NeedsRoom
  <2>2. QED
    BY <2>1, MovedOn
<1>4. TypeOK'
  BY <1>2, <1>3 DEF RecvEOF, handler, history, IsoInv, TypeOK, Wires
<1>5. QED
  BY <1>2, <1>3, <1>4, FramedTalk DEF RecvEOF, handler, IsoInv

-----------------------------------------------------------------------------
(* Steps on the map.                                                       *)

\* A handler stores what it built for its own room.
LEMMA StoreRoomIso == ASSUME IsoInv, NEW s \in Sessions, StoreRoom(s) PROVE IsoInv'
<1>1. roomName[s] \in Rooms /\ r[s] \in Entries /\ EntryWithin(r[s], roomName[s])
  BY DEF StoreRoom, At, NeedsRoom, IsoInv, TypeOK, HandlersWithin
<1>2. roomInfoMap \in [Rooms -> Entries] /\ \A x \in Rooms : EntryWithin(roomInfoMap[x], x)
  BY DEF IsoInv, TypeOK, EntriesWithin
<1>3. roomInfoMap' = [roomInfoMap EXCEPT ![roomName[s]] = r[s]]
  BY DEF StoreRoom
<1>4. /\ roomInfoMap' \in [Rooms -> Entries]
      /\ \A x \in Rooms : EntryWithin(roomInfoMap'[x], x)
  BY <1>1, <1>2, <1>3
<1>5. /\ pc' \in [Sessions -> Labels]
      /\ \A t \in Sessions : pc'[t] \in NeedsRoom => roomName[t] \in Rooms
  <2>1. Goto(s, "receive") \/ Goto(s, "reply")
    BY DEF StoreRoom
  <2>2. "receive" \in Labels /\ "reply" \in Labels
    BY DEF Labels
  <2>3. QED
    BY <1>1, <2>1, <2>2, MovedOn
<1>6. /\ r' \in [Sessions -> Entries]
      /\ \A t \in Sessions : EntryWithin(r'[t], roomName[t])
  BY ScopeLeft DEF StoreRoom, IsoInv, TypeOK, HandlersWithin
<1>7. TypeOK'
  BY <1>4, <1>5, <1>6 DEF StoreRoom, handler, history, IsoInv, TypeOK
<1>8. QED
  BY <1>4, <1>5, <1>6, <1>7, Framed DEF StoreRoom, handler, IsoInv, HandlersWithin

\* A client that was introduced is in a room, and what its handler finds in
\* the room's entry belongs there.
LEMMA RecvForwardIso == ASSUME IsoInv, NEW s \in Sessions, RecvForward(s) PROVE IsoInv'
<1>1. roomName[s] \in Rooms
  BY DEF RecvForward, Introduced, IsoInv, WiresWithin, MessageWithin
<1> DEFINE e == roomInfoMap[roomName[s]]
<1>2. e \in Entries /\ EntryWithin(e, roomName[s])
  BY <1>1 DEF IsoInv, TypeOK, EntriesWithin
<1>3. e.cws \in Sessions \cup {Nil} /\ e.linkType \in LinkTypes \cup {""}
  BY <1>2, EntryFields
<1>4. \/ otherCws' = otherCws /\ linkType' = linkType
      \/ otherCws' = [otherCws EXCEPT ![s] = e.cws] /\ linkType' = [linkType EXCEPT ![s] = e.linkType]
  BY DEF RecvForward
<1> HIDE DEF e
<1>5. /\ otherCws \in [Sessions -> Sessions \cup {Nil}]
      /\ linkType \in [Sessions -> LinkTypes \cup {""}]
      /\ \A t \in Sessions : Within(otherCws[t], roomName[t])
  BY DEF IsoInv, TypeOK, HandlersWithin
<1>6. otherCws' \in [Sessions -> Sessions \cup {Nil}]
  BY <1>3, <1>4, <1>5
<1>7. linkType' \in [Sessions -> LinkTypes \cup {""}]
  BY <1>3, <1>4, <1>5
<1>8. \A t \in Sessions : Within(otherCws'[t], roomName[t])
  <2>1. Within(e.cws, roomName[s])
    BY <1>2 DEF EntryWithin
  <2>2. QED
    BY <2>1, <1>4, <1>5
<1>9. /\ pc' \in [Sessions -> Labels]
      /\ \A t \in Sessions : pc'[t] \in NeedsRoom => roomName[t] \in Rooms
  <2>1. Goto(s, "forward") /\ "forward" \in Labels
    BY DEF RecvForward, Labels
  <2>2. QED
    BY <1>1, <2>1, MovedOn
<1>10. forwards' \in [Sessions -> 0..MaxForwards]
  <2>1. /\ forwards \in [Sessions -> 0..MaxForwards] /\ forwards[s] < MaxForwards
        /\ forwards' = [forwards EXCEPT ![s] = forwards[s] + 1]
    BY DEF RecvForward, IsoInv, TypeOK
  <2>2. forwards[s] + 1 \in 0..MaxForwards
    BY <2>1, BoundsAssumption
  <2>3. QED
    BY <2>1, <2>2
<1>11. TypeOK'
  BY <1>6, <1>7, <1>9, <1>10 DEF RecvForward, history, IsoInv, TypeOK
<1>12. QED
  BY <1>8, <1>9, <1>11, Framed DEF RecvForward, IsoInv, HandlersWithin, EntriesWithin

\* Racing is noted for a room.
LEMMA NotedRace ==
    ASSUME IsoInv, NEW x \in Rooms, NoteRace(x)
    PROVE  raced' \in SUBSET Rooms
  BY DEF NoteRace, IsoInv, TypeOK

\* Leaving starts with a copy of the room's entry ...
LEMMA LeaveReadIso == ASSUME IsoInv, NEW s \in Sessions, LeaveRead(s) PROVE IsoInv'
<1>1. roomName[s] \in Rooms
  BY DEF LeaveRead, HasName, IsoInv, TypeOK
<1>2. roomInfoMap[roomName[s]] \in Entries /\ EntryWithin(roomInfoMap[roomName[s]], roomName[s])
  BY <1>1 DEF IsoInv, TypeOK, EntriesWithin
<1>3. /\ r' = [r EXCEPT ![s] = roomInfoMap[roomName[s]]]
      /\ r \in [Sessions -> Entries]
      /\ \A t \in Sessions : EntryWithin(r[t], roomName[t])
  BY DEF LeaveRead, IsoInv, TypeOK, HandlersWithin
<1>4. /\ r' \in [Sessions -> Entries]
      /\ \A t \in Sessions : EntryWithin(r'[t], roomName[t])
  BY <1>2, <1>3
<1>5. /\ pc' \in [Sessions -> Labels]
      /\ \A t \in Sessions : pc'[t] \in NeedsRoom => roomName[t] \in Rooms
  <2>1. Goto(s, "leave") /\ "leave" \in Labels
    BY DEF LeaveRead, Labels
  <2>2. QED
    BY <1>1, <2>1, MovedOn
<1>6. raced' \in SUBSET Rooms
  BY <1>1, NotedRace DEF LeaveRead
<1>7. TypeOK'
  BY <1>4, <1>5, <1>6 DEF LeaveRead, handler, IsoInv, TypeOK
<1>8. QED
  BY <1>4, <1>5, <1>7, Framed DEF LeaveRead, handler, IsoInv, HandlersWithin, EntriesWithin

\* A handler that ends leaves nothing behind on its own account.
LEMMA Ended ==
    ASSUME IsoInv, NEW s \in Sessions, EndSession(s)
    PROVE  /\ pc' \in [Sessions -> Labels]
           /\ \A t \in Sessions : /\ pc'[t] \in NeedsRoom => roomName[t] \in Rooms
                                  /\ Within(otherCws'[t], roomName[t])
                                  /\ EntryWithin(r'[t], roomName[t])
           /\ linkType' \in [Sessions -> LinkTypes \cup {""}]
           /\ otherCws' \in [Sessions -> Sessions \cup {Nil}]
           /\ userNum' \in [Sessions -> 0..2]
           /\ r' \in [Sessions -> Entries]
           /\ myClientId' \in [Sessions -> Sessions \cup {Nil}]
           /\ \A t \in Sessions : myClientId'[t] \in {t, Nil}
           /\ forwards' \in [Sessions -> 0..MaxForwards]
           /\ wire' \in Wires /\ WiresWithin(wire')
<1>1. /\ pc' \in [Sessions -> Labels]
      /\ \A t \in Sessions : pc'[t] \in NeedsRoom => roomName[t] \in Rooms
  <2>1. Goto(s, "done") /\ "done" \in Labels /\ "done" \notin NeedsRoom
    BY DEF EndSession, Labels, NeedsRoom
  <2>2. QED
    BY <2>1, MovedOn
<1>2. /\ linkType' \in [Sessions -> LinkTypes \cup {""}]
      /\ otherCws' \in [Sessions -> Sessions \cup {Nil}]
      /\ \A t \in Sessions : otherCws'[t] \in {otherCws[t], Nil}
      /\ myClientId' \in [Sessions -> Sessions \cup {Nil}]
      /\ \A t \in Sessions : myClientId'[t] \in {t, Nil}
  BY DEF EndSession, IsoInv, TypeOK
<1>3. \A t \in Sessions : Within(otherCws'[t], roomName[t])
  BY <1>2, AnonymousWithin DEF IsoInv, HandlersWithin
<1>4. userNum' \in [Sessions -> 0..2]
  <2>1. userNum \in [Sessions -> 0..2] /\ userNum' = [userNum EXCEPT ![s] = 0]
    BY DEF EndSession, IsoInv, TypeOK
  <2>2. QED
    BY <2>1
<1>5. /\ r' \in [Sessions -> Entries]
      /\ \A t \in Sessions : EntryWithin(r'[t], roomName[t])
  BY ScopeLeft DEF EndSession, OutOfScope
<1>6. forwards' \in [Sessions -> 0..MaxForwards]
  <2>1. /\ forwards \in [Sessions -> 0..MaxForwards]
        /\ forwards' = [forwards EXCEPT ![s] = 0]
    BY DEF EndSession, IsoInv, TypeOK
  <2>2. QED
    BY <2>1, BoundsAssumption
<1>7. wire' \in Wires /\ WiresWithin(wire')
  <2>1. wire \in Wires /\ WiresWithin(wire) /\ wire' = [wire EXCEPT ![s] = <<>>]
    BY OtherWithin DEF EndSession
  <2>2. <<>> \in Seq(Messages)
    OBVIOUS
  <2>3. wire' \in Wires
    BY <2>1, <2>2 DEF Wires
  <2>4. ASSUME NEW t \in Sessions, NEW i \in DOMAIN wire'[t]
        PROVE  t # s
    BY <2>1 DEF Wires
  <2>5. ASSUME NEW t \in Sessions, NEW i \in DOMAIN wire'[t]
        PROVE  MessageWithin(wire'[t][i], roomName[t])
    BY <2>1, <2>4, <2>5 DEF Wires, WiresWithin
  <2>6. QED
    BY <2>3, <2>5 DEF WiresWithin
<1>8. QED
  BY <1>1, <1>2, <1>3, <1>4, <1>5, <1>6, <1>7

\* ... or, when there is no room, with nothing at all ...
LEMMA LeaveNoRoomIso == ASSUME IsoInv, NEW s \in Sessions, LeaveNoRoom(s) PROVE IsoInv'
<1>1. TypeOK'
  BY Ended DEF LeaveNoRoom, history, IsoInv, TypeOK, Wires
<1>2. QED
  BY <1>1, Ended, Framed DEF LeaveNoRoom, IsoInv, EntriesWithin

\* ... and ends with one user less in it.
LEMMA LeaveWriteIso == ASSUME IsoInv, NEW s \in Sessions, LeaveWrite(s) PROVE IsoInv'
<1>1. roomName[s] \in Rooms /\ r[s] \in Entries /\ EntryWithin(r[s], roomName[s])
  BY DEF LeaveWrite, At, NeedsRoom, IsoInv, TypeOK, HandlersWithin
<1>2. OneLess(r[s]) \in Entries /\ EntryWithin(OneLess(r[s]), roomName[s])
  <2>1. CASE OneLess(r[s]) = Absent
    BY <2>1, AbsentType, AnonymousWithin
  <2>2. CASE OneLess(r[s]) # Absent
    <3>1. r[s].users > 1 /\ OneLess(r[s]) = [r[s] EXCEPT !.users = r[s].users - 1]
      BY <2>2 DEF OneLess
    <3>2. r[s].users - 1 \in 0..2
      <4>1. r[s].users \in 0..2
        BY <1>1, EntryFields
      <4>2. QED
        BY <3>1, <4>1
    <3>3. OneLess(r[s]) \in Entries
      BY <1>1, <3>1, <3>2 DEF Entries
    <3>4. OneLess(r[s]).cws = r[s].cws /\ OneLess(r[s]).clientId = r[s].clientId
      BY <1>1, <3>1 DEF Entries
    <3>5. QED
      BY <1>1, <3>3, <3>4 DEF EntryWithin
  <2>3. QED
    BY <2>1, <2>2
<1>3. roomInfoMap \in [Rooms -> Entries] /\ \A x \in Rooms : EntryWithin(roomInfoMap[x], x)
  BY DEF IsoInv, TypeOK, EntriesWithin
<1>4. roomInfoMap' = [roomInfoMap EXCEPT ![roomName[s]] = OneLess(r[s])] /\ EndSession(s)
  BY DEF LeaveWrite
<1>5. /\ roomInfoMap' \in [Rooms -> Entries]
      /\ \A x \in Rooms : EntryWithin(roomInfoMap'[x], x)
  BY <1>2, <1>3, <1>4
<1>6. TypeOK'
  BY <1>4, <1>5, Ended DEF LeaveWrite, history, IsoInv, TypeOK, Wires
<1>7. QED
  BY <1>4, <1>5, <1>6, Ended, Framed DEF LeaveWrite

-----------------------------------------------------------------------------
(* Subscribing.  A session takes a room once, and nothing was within a     *)
(* session's room before it had one.                                       *)

\* A session that was in room y is not the one that takes a room now.
LEMMA RoomKept ==
    ASSUME NEW s \in Sessions, NEW x \in Rooms, roomName[s] = Nil,
           roomName \in [Sessions -> Rooms \cup {Nil}],
           roomName' = [roomName EXCEPT ![s] = x],
           NEW c \in Sessions \cup {Nil}, NEW y \in Rooms, Within(c, y), c # Nil
    PROVE  roomName'[c] = y
<1>1. c \in Sessions /\ roomName[c] = y
  BY DEF Within
<1>2. c # s
  BY <1>1, NilAssumption
<1>3. QED
  BY <1>1, <1>2

\* What was within some room still is after s has taken room x.
LEMMA RoomTaken ==
    ASSUME IsoInv, NEW s \in Sessions, NEW x \in Rooms, roomName[s] = Nil,
           roomName' = [roomName EXCEPT ![s] = x]
    PROVE  /\ roomName' \in [Sessions -> Rooms \cup {Nil}]
           /\ roomName'[s] = x
           /\ \A t \in Sessions : t # s => roomName'[t] = roomName[t]
           /\ \A c \in Sessions \cup {Nil} : \A y :
                 Within(c, y) => (c # Nil => y \in Rooms /\ roomName'[c] = y)
           /\ \A c : Within(c, Nil) => c = Nil
  BY NilAssumption DEF IsoInv, TypeOK, Within

\* The wires stay within their rooms, too.
LEMMA WiresAfterRoomTaken ==
    ASSUME IsoInv, NEW s \in Sessions, NEW x \in Rooms, roomName[s] = Nil,
           roomName' = [roomName EXCEPT ![s] = x], wire' = wire
    PROVE  WiresWithin(wire)'
<1>1. ASSUME NEW t \in Sessions, NEW i \in DOMAIN wire[t]
      PROVE  MessageWithin(wire[t][i], roomName[t])'
  <2> DEFINE m == wire[t][i]
  <2>1. MessageWithin(m, roomName[t])
    BY DEF IsoInv, WiresWithin
  <2>2. m.from \in Sessions \cup {Nil}
    <3>1. m \in Messages
      <4>1. wire[t] \in Seq(Messages)
        BY DEF IsoInv, TypeOK
      <4>2. QED
        BY <4>1
    <3>2. QED
      BY <3>1 DEF Messages
  <2> HIDE DEF m
  <2>3. CASE t = s
    <3>1. m.from = Nil /\ m.cmd \notin {"online", "forward"}
      BY <2>1, <2>3, RoomTaken, NilAssumption DEF MessageWithin
    <3>2. m' = m
      BY DEF m
    <3>3. QED
      BY <3>1, <3>2 DEF MessageWithin, Within, m
  <2>4. CASE t # s
    <3>1. roomName'[t] = roomName[t]
      BY <2>4, RoomTaken
    <3>2. m.from # Nil => roomName[t] \in Rooms /\ roomName'[m.from] = roomName[t]
      <4>1. Within(m.from, roomName[t])
        BY <2>1 DEF MessageWithin
      <4>2. QED
        BY <4>1, <2>2, RoomTaken
    <3>3. m.cmd \in {"online", "forward"} => roomName[t] \in Rooms
      BY <2>1 DEF MessageWithin
    <3>4. m' = m
      BY DEF m
    <3>5. QED
      BY <3>1, <3>2, <3>3, <3>4 DEF MessageWithin, Within, m
  <2>5. QED
    BY <2>3, <2>4
<1>2. QED
  BY <1>1 DEF WiresWithin

\* A subscription keeps the invariant if the copy of the entry it makes, and
\* the connection it takes for the other one, are in the room it takes.
LEMMA RoomTakenIso ==
    ASSUME IsoInv, TypeOK', NEW s \in Sessions, NEW x \in Rooms, roomName[s] = Nil,
           roomName' = [roomName EXCEPT ![s] = x],
           wire' = wire, roomInfoMap' = roomInfoMap,
           NEW c \in Sessions \cup {Nil}, c # Nil => roomName'[c] = x,
           NEW e \in Entries, e.cws # Nil => roomName'[e.cws] = x,
           e.clientId # Nil => roomName'[e.clientId] = x,
           otherCws' = [otherCws EXCEPT ![s] = c], r' = [r EXCEPT ![s] = e],
           \A t \in Sessions : t # s => pc'[t] = pc[t]
    PROVE  IsoInv'
<1>1. HandlersWithin'
  <2>1. ASSUME NEW t \in Sessions
        PROVE  /\ pc'[t] \in NeedsRoom => roomName'[t] \in Rooms
               /\ Within(otherCws[t], roomName[t])'
               /\ EntryWithin(r[t], roomName[t])'
    <3>1. otherCws \in [Sessions -> Sessions \cup {Nil}] /\ r \in [Sessions -> Entries]
      BY DEF IsoInv, TypeOK
    <3>2. CASE t = s
      <4>1. otherCws'[t] = c /\ r'[t] = e /\ roomName'[t] = x
        BY <3>1, <3>2, RoomTaken
      <4>2. QED
        BY <4>1 DEF Within, EntryWithin
    <3>3. CASE t # s
      <4>1. otherCws'[t] = otherCws[t] /\ r'[t] = r[t] /\ roomName'[t] = roomName[t]
        BY <3>1, <3>3, RoomTaken
      <4>2. /\ Within(otherCws[t], roomName[t])
            /\ Within(r[t].cws, roomName[t]) /\ Within(r[t].clientId, roomName[t])
            /\ pc[t] \in NeedsRoom => roomName[t] \in Rooms
        BY DEF IsoInv, HandlersWithin, EntryWithin
      <4>3. r[t].cws \in Sessions \cup {Nil} /\ r[t].clientId \in Sessions \cup {Nil}
        BY <3>1, EntryFields
      <4>4. \A d \in Sessions \cup {Nil} :
               Within(d, roomName[t]) => (d # Nil => roomName[t] \in Rooms /\ roomName'[d] = roomName[t])
        BY RoomTaken
      <4>5. pc'[t] \in NeedsRoom => roomName'[t] \in Rooms
        BY <3>3, <4>1, <4>2
      <4>6. Within(otherCws[t], roomName[t])'
        BY <3>1, <4>1, <4>2, <4>4 DEF Within
      <4>7. EntryWithin(r[t], roomName[t])'
        BY <4>1, <4>2, <4>3, <4>4 DEF EntryWithin, Within
      <4>8. QED
        BY <4>5, <4>6, <4>7
    <3>4. QED
      BY <3>2, <3>3
  <2>2. QED
    BY <2>1 DEF HandlersWithin
<1>2. EntriesWithin'
  <2>1. ASSUME NEW y \in Rooms
        PROVE  EntryWithin(roomInfoMap[y], y)'
    <3>1. roomInfoMap[y] \in Entries /\ EntryWithin(roomInfoMap[y], y)
      BY DEF IsoInv, TypeOK, EntriesWithin
    <3>2. roomInfoMap[y].cws \in Sessions \cup {Nil} /\ roomInfoMap[y].clientId \in Sessions \cup {Nil}
      BY <3>1, EntryFields
    <3>3. roomName \in [Sessions -> Rooms \cup {Nil}]
      BY DEF IsoInv, TypeOK
    <3>4. Within(roomInfoMap[y].cws, y) /\ Within(roomInfoMap[y].clientId, y)
      BY <3>1 DEF EntryWithin
    <3>5. roomInfoMap[y].cws # Nil => roomName'[roomInfoMap[y].cws] = y
      BY <3>2, <3>3, <3>4, RoomKept
    <3>6. roomInfoMap[y].clientId # Nil => roomName'[roomInfoMap[y].clientId] = y
      BY <3>2, <3>3, <3>4, RoomKept
    <3>7. QED
      BY <3>5, <3>6 DEF EntryWithin, Within
  <2>2. QED
    BY <2>1 DEF EntriesWithin
<1>3. QED
  BY <1>1, <1>2, WiresAfterRoomTaken DEF IsoInv

\* The first user's entry names nobody but the first user.
LEMMA SubscribeNewIso ==
    ASSUME IsoInv, NEW s \in Sessions, NEW x \in Rooms, NEW lt \in LinkTypes,
           SubscribeNew(s, x, lt)
    PROVE  IsoInv'
<1>1. roomName[s] = Nil /\ roomName' = [roomName EXCEPT ![s] = x]
  BY DEF SubscribeNew, MaySubscribe
<1>2. otherCws[s] = Nil
  BY <1>1, NilAssumption DEF IsoInv, HandlersWithin, Within
<1>3. myClientId[s] \in {s, Nil} /\ myClientId[s] \in Sessions \cup {Nil}
  BY DEF IsoInv, TypeOK
<1> DEFINE e == Founded(s, lt)
<1>4. /\ e \in Entries
      /\ e.cws # Nil => roomName'[e.cws] = x
      /\ e.clientId # Nil => roomName'[e.clientId] = x
  <2>1. e \in Entries
    BY <1>3, EntryTypes, AbsentType
  <2>2. e.cws = s /\ e.clientId \in {s, Nil}
    BY <1>3 DEF Founded
  <2>3. roomName'[s] = x
    BY <1>1, RoomTaken
  <2>4. QED
    BY <2>1, <2>2, <2>3
<1>5. /\ r' = [r EXCEPT ![s] = e]
      /\ r' \in [Sessions -> Entries]
  BY <1>4 DEF SubscribeNew, IsoInv, TypeOK
<1>6. /\ otherCws' = [otherCws EXCEPT ![s] = Nil]
  BY <1>2 DEF SubscribeNew, IsoInv, TypeOK
<1>7. Goto(s, "create") /\ pc' \in [Sessions -> Labels] /\ \A t \in Sessions : t # s => pc'[t] = pc[t]
  BY DEF SubscribeNew, Goto, Labels, IsoInv, TypeOK
<1>8. userNum' \in [Sessions -> 0..2]
  <2>1. userNum \in [Sessions -> 0..2] /\ userNum' = [userNum EXCEPT ![s] = 1]
    BY DEF SubscribeNew, IsoInv, TypeOK
  <2>2. QED
    BY <2>1
<1>9. /\ linkType' \in [Sessions -> LinkTypes \cup {""}]
      /\ asked' \in [Sessions -> LinkTypes \cup {""}]
  BY DEF SubscribeNew, IsoInv, TypeOK
<1>10. raced' \in SUBSET Rooms
  BY NotedRace DEF SubscribeNew
<1>11. TypeOK'
  BY <1>1, <1>5, <1>7, <1>8, <1>9, <1>10, RoomTaken DEF SubscribeNew, IsoInv, TypeOK
<1>12. wire' = wire /\ roomInfoMap' = roomInfoMap
  BY DEF SubscribeNew
<1> HIDE DEF e
<1>13. QED
  BY <1>1, <1>4, <1>5, <1>6, <1>7, <1>11, <1>12, RoomTakenIso

\* The second user finds somebody of the same room in the entry.
LEMMA SubscribeFoundIso ==
    ASSUME IsoInv, NEW s \in Sessions, NEW x \in Rooms, NEW lt \in LinkTypes,
           SubscribeFound(s, x, lt)
    PROVE  IsoInv'
<1> DEFINE e == roomInfoMap[x]
           j == Joined(s, lt, e)
<1>1. roomName[s] = Nil /\ roomName' = [roomName EXCEPT ![s] = x]
  BY DEF SubscribeFound, MaySubscribe
<1>2. otherCws[s] = Nil
  BY <1>1, NilAssumption DEF IsoInv, HandlersWithin, Within
<1>3. e \in Entries /\ Within(e.cws, x) /\ Within(e.clientId, x)
  BY DEF IsoInv, TypeOK, EntriesWithin, EntryWithin
<1>4. e.cws \in Sessions \cup {Nil} /\ e.clientId \in Sessions \cup {Nil}
  BY <1>3, EntryFields
<1>5. /\ roomName'[s] = x
      /\ e.cws # Nil => roomName'[e.cws] = x
      /\ e.clientId # Nil => roomName'[e.clientId] = x
  <2>1. roomName \in [Sessions -> Rooms \cup {Nil}]
    BY DEF IsoInv, TypeOK
  <2>2. roomName'[s] = x
    BY <1>1, <2>1
  <2> HIDE DEF e
  <2>3. e.cws # Nil => roomName'[e.cws] = x
    BY <1>1, <1>3, <1>4, <2>1, RoomKept
  <2>4. e.clientId # Nil => roomName'[e.clientId] = x
    BY <1>1, <1>3, <1>4, <2>1, RoomKept
  <2>5. QED
    BY <2>2, <2>3, <2>4
<1>6. j \in Entries
  <2>1. myClientId[s] \in Sessions \cup {Nil}
    BY DEF IsoInv, TypeOK
  <2>2. QED
    BY <1>3, <2>1, EntryTypes
<1>7. j.cws = s /\ j.clientId = e.clientId /\ j.linkType \in LinkTypes
  BY <1>2 DEF Joined, LinkTypes
<1> DEFINE other == e.cws
<1>8. /\ otherCws' = [otherCws EXCEPT ![s] = other]
      /\ r' = [r EXCEPT ![s] = j]
      /\ linkType' = [linkType EXCEPT ![s] = j.linkType]
  BY <1>2 DEF SubscribeFound, IsoInv, TypeOK
<1>9. raced' \in SUBSET Rooms /\ crowded' \in SUBSET Rooms
  <2>1. raced' \in SUBSET Rooms
    BY NotedRace DEF SubscribeFound
  <2>2. crowded' = crowded \/ crowded' = crowded \cup {x}
    BY DEF SubscribeFound
  <2>3. QED
    BY <2>1, <2>2 DEF IsoInv, TypeOK
<1>10. Goto(s, "store") /\ pc' \in [Sessions -> Labels] /\ \A t \in Sessions : t # s => pc'[t] = pc[t]
  BY DEF SubscribeFound, Goto, Labels, IsoInv, TypeOK
<1>11. userNum' \in [Sessions -> 0..2]
  <2>1. userNum \in [Sessions -> 0..2] /\ userNum' = [userNum EXCEPT ![s] = 2]
    BY DEF SubscribeFound, IsoInv, TypeOK
  <2>2. QED
    BY <2>1
<1>12. asked' \in [Sessions -> LinkTypes \cup {""}]
  BY DEF SubscribeFound, IsoInv, TypeOK
<1>13. wire' = wire /\ roomInfoMap' = roomInfoMap
  BY DEF SubscribeFound
<1>14. j.cws # Nil => roomName'[j.cws] = x
  BY <1>5, <1>7
<1> HIDE DEF j
<1>15. /\ otherCws' \in [Sessions -> Sessions \cup {Nil}]
       /\ r' \in [Sessions -> Entries]
       /\ linkType' \in [Sessions -> LinkTypes \cup {""}]
  BY <1>4, <1>6, <1>7, <1>8 DEF IsoInv, TypeOK
<1> HIDE DEF e
<1>16. TypeOK'
  BY <1>1, <1>9, <1>10, <1>11, <1>12, <1>15, RoomTaken DEF SubscribeFound, IsoInv, TypeOK
<1> HIDE DEF other
<1>17. other \in Sessions \cup {Nil} /\ (other # Nil => roomName'[other] = x)
  BY <1>4, <1>5 DEF other
<1>18. j.clientId # Nil => roomName'[j.clientId] = x
  BY <1>5, <1>7
<1>19. QED
  BY <1>1, <1>6, <1>8, <1>10, <1>13, <1>14, <1>16, <1>17, <1>18, RoomTakenIso

-----------------------------------------------------------------------------
(* The theorems of typing and isolation.                                   *)

\* One lemma per step adds up to the induction step.
LEMMA IsoStep == IsoInv /\ [Next]_vars => IsoInv'
<1> SUFFICES ASSUME IsoInv, [Next]_vars PROVE IsoInv'
  OBVIOUS
<1>1. CASE UNCHANGED vars
  <2>1. TypeOK'
    BY <1>1 DEF IsoInv, TypeOK, vars, handler, history
  <2>2. QED
    BY <1>1, <2>1, FramedTalk DEF vars, handler, history, IsoInv, HandlersWithin
<1>2. ASSUME NEW s \in Sessions, Serve(s) PROVE IsoInv'
  <2>1. CASE Subscribe(s)
    <3>1. PICK x \in Rooms, lt \in Asks : SubscribeNew(s, x, lt) \/ SubscribeFound(s, x, lt)
      BY <2>1 DEF Subscribe
    <3>2. lt \in LinkTypes
      BY AsksAssumption DEF LinkTypes
    <3>3. QED
      BY <3>1, <3>2, SubscribeNewIso, SubscribeFoundIso
  <2>2. QED
    BY <1>2, <2>1, OpenIso, OpenFailsIso, RecvConnectIso, RecvForwardIso DEF Serve
<1>3. ASSUME NEW s \in Sessions, Continue(s) PROVE IsoInv'
  BY <1>3, TellCreatorIso, StoreRoomIso, TellJoinerIso, TellOtherIso, ForwardIso,
     ForwardToNilIso, RecvEOFIso, RecvErrorIso, LeaveReadIso, LeaveNoRoomIso,
     LeaveWriteIso DEF Continue
<1>4. ASSUME NEW s \in Sessions, Outside(s) PROVE IsoInv'
  BY <1>4, ClientClosesIso, NetBreaksIso, MapAbortIso DEF Outside
<1>5. QED
  BY <1>1, <1>2, <1>3, <1>4 DEF Next

\* The invariant holds throughout.
LEMMA IsoAlways == Spec => []IsoInv
  BY IsoInit, IsoStep, PTL DEF Spec

\* Whatever the handlers, clients and connections do, every variable of the
\* server keeps its type.
THEOREM TypeCorrect == Spec => []TypeOK
<1>1. IsoInv => TypeOK
  BY DEF IsoInv
<1>2. QED
  BY <1>1, IsoAlways, PTL

\* However the unlocked lookups and stores of the handlers interleave
\* (rtcSignaling.go:183-287, 498-506), no handler ends up with a connection,
\* no room with an entry, and no client with a message of another room.
THEOREM Isolated == Spec => []RoomIsolation
<1>1. IsoInv => RoomIsolation
  <2> SUFFICES ASSUME IsoInv PROVE RoomIsolation
    OBVIOUS
  <2>1. \A s \in Sessions : otherCws[s] # Nil => roomName[otherCws[s]] = roomName[s]
    BY DEF IsoInv, HandlersWithin, Within
  <2>2. \A x \in Rooms : roomInfoMap[x].cws # Nil => roomName[roomInfoMap[x].cws] = x
    BY DEF IsoInv, EntriesWithin, EntryWithin, Within
  <2>3. \A s \in Sessions : \A i \in DOMAIN wire[s] :
          wire[s][i].from # Nil => roomName[wire[s][i].from] = roomName[s]
    BY DEF IsoInv, WiresWithin, MessageWithin, Within
  <2>4. QED
    BY <2>1, <2>2, <2>3 DEF RoomIsolation
<1>2. QED
  BY <1>1, IsoAlways, PTL

-----------------------------------------------------------------------------
(***************************************************************************)
(* That a calm room counts its members (RoomServer!UsersCounted), for any  *)
(* number of sessions and rooms.  In a calm room the entry counts the      *)
(* members, at most one handler holds a copy of it, and that copy is still *)
(* what the map says: so what the handler writes back is right.            *)
(***************************************************************************)

\* No room holds more than two in calm, so counting needs no induction.
CountIs(n, M) == \/ n = 0 /\ M = {}
                 \/ n = 1 /\ \E a \in M : M = {a}
                 \/ n = 2 /\ \E a, b \in M : a # b /\ M = {a, b}

\* What a handler is about to write, compared with what the map says.
CopyIsCurrent(s) ==
    LET e == roomInfoMap[roomName[s]] IN
    /\ pc[s] = "create" => userNum[s] = 1
    /\ pc[s] \in {"create", "store"} =>
          \/ userNum[s] = 1 /\ e.users = 0 /\ r[s].users = 1
          \/ userNum[s] = 2 /\ e.users = 1 /\ r[s].users = 2
    /\ pc[s] = "leave" => r[s] = e

RoomCounted(x) ==
    /\ CountIs(roomInfoMap[x].users, Members(x))
    /\ \A s, t \in Holders(x) : s = t
    /\ \A s \in Holders(x) : CopyIsCurrent(s)

NewOutside == \A s \in Sessions : pc[s] = "new" => roomName[s] = Nil

CountInv == NewOutside /\ \A x \in Rooms : Calm(x) => RoomCounted(x)

InRoom == {"receive", "reply", "notify", "forward", "teardown", "leave"}

-----------------------------------------------------------------------------
(* Steps that leave the map alone.                                         *)

\* What a step may do to t without touching the count of a room with a name: t
\* stays on one side of the door, and a copy it holds stays as it is.
Steady(t) ==
    /\ pc'[t] = "new" => pc[t] = "new"
    /\ roomName[t] \in Named => (pc'[t] \in InRoom <=> pc[t] \in InRoom)
    /\ pc'[t] \in Holding =>
          /\ pc[t] = pc'[t] \/ (pc[t] = "create" /\ pc'[t] = "store")
          /\ r'[t] = r[t] /\ userNum'[t] = userNum[t]

\* A step that does no more than that to anybody keeps the count.
LEMMA SteadyCount ==
    ASSUME CountInv, roomInfoMap' = roomInfoMap, roomName' = roomName,
           raced \subseteq raced', crowded \subseteq crowded',
           \A t \in Sessions : Steady(t)
    PROVE  CountInv'
<1>1. NewOutside'
  BY DEF CountInv, NewOutside, Steady
<1>2. ASSUME NEW x \in Rooms, Calm(x)' PROVE RoomCounted(x)'
  <2>1. RoomCounted(x)
    BY <1>2 DEF CountInv, Calm
  <2>2. Members(x)' = Members(x)
    BY <1>2 DEF Members, InRoom, Steady, Calm, Named
  <2>3. Holders(x)' \subseteq Holders(x)
    BY DEF Holders, Holding, Steady
  <2>4. ASSUME NEW s \in Holders(x)' PROVE CopyIsCurrent(s)'
    <3>1. s \in Sessions /\ s \in Holders(x) /\ Steady(s) /\ pc'[s] \in Holding
      BY <2>3 DEF Holders
    <3>2. CopyIsCurrent(s)
      BY <2>1, <3>1 DEF RoomCounted
    <3>3. QED
      BY <3>1, <3>2 DEF CopyIsCurrent, Steady, Holding
  <2>5. QED
    BY <2>1, <2>2, <2>3, <2>4 DEF RoomCounted
<1>3. QED
  BY <1>1, <1>2 DEF CountInv

\* A step that leaves handlers and map alone keeps it,
LEMMA StillCount ==
    ASSUME CountInv, pc' = pc, roomInfoMap' = roomInfoMap, roomName' = roomName,
           r' = r, userNum' = userNum, raced' = raced, crowded' = crowded
    PROVE  CountInv'
<1>1. \A t \in Sessions : Steady(t)
  BY DEF Steady
<1>2. QED
  BY <1>1, SteadyCount

\* and so does one that moves a handler about outside of the map's accesses.
LEMMA MovedCount ==
    ASSUME IsoInv, CountInv, NEW s \in Sessions, NEW l \in Labels \ {"new"}, Goto(s, l),
           roomName[s] \in Named => (l \in InRoom <=> pc[s] \in InRoom),
           l \in Holding => pc[s] = "create" /\ l = "store" /\ r' = r /\ userNum' = userNum,
           \A t \in Sessions \ {s} : r'[t] = r[t] /\ userNum'[t] = userNum[t],
           roomInfoMap' = roomInfoMap, roomName' = roomName,
           raced' = raced, crowded' = crowded
    PROVE  CountInv'
<1>1. pc' = [pc EXCEPT ![s] = l] /\ pc \in [Sessions -> Labels]
  BY DEF Goto, IsoInv, TypeOK
<1>2. ASSUME NEW t \in Sessions PROVE Steady(t)
  <2>1. CASE t = s
    BY <1>1, <2>1 DEF Steady
  <2>2. CASE t # s
    BY <1>1, <2>2 DEF Steady
  <2>3. QED
    BY <2>1, <2>2
<1>3. QED
  BY <1>2, SteadyCount

-----------------------------------------------------------------------------
\* Nobody is in a room before its websocket is open ...
LEMMA OpenCount == ASSUME IsoInv, CountInv, NEW s \in Sessions, Open(s) \/ OpenFails(s)
                   PROVE  CountInv'
<1>1. roomName[s] \notin Named
  BY NilAssumption DEF Named, Open, OpenFails, At, CountInv, NewOutside
<1>2. PICK l \in {"receive", "done"} : Goto(s, l)
  BY DEF Open, OpenFails
<1>3. /\ r' = r /\ userNum' = userNum /\ roomInfoMap' = roomInfoMap /\ roomName' = roomName
      /\ raced' = raced /\ crowded' = crowded
  BY DEF Open, OpenFails, handler, history
<1>4. l \in Labels \ {"new"} /\ l \notin Holding
  BY <1>2 DEF Labels, Holding
<1>5. QED
  BY <1>1, <1>2, <1>3, <1>4, MovedCount

\* ... and the messages a handler exchanges leave it where it is.
LEMMA TalkCount ==
    ASSUME IsoInv, CountInv, NEW s \in Sessions,
           TellCreator(s) \/ TellJoiner(s) \/ TellOther(s) \/ RecvForward(s)
              \/ Forward(s) \/ RecvEOF(s) \/ RecvError(s)
    PROVE  CountInv'
<1>1. PICK l \in Labels \ {"new"} :
         /\ Goto(s, l)
         /\ l \in InRoom <=> pc[s] \in InRoom
         /\ l \in Holding => pc[s] = "create" /\ l = "store" /\ r' = r /\ userNum' = userNum
  <2>1. CASE TellCreator(s)
    BY <2>1 DEF TellCreator, At, Labels, InRoom, Holding, handler
  <2>2. CASE TellJoiner(s)
    BY <2>2 DEF TellJoiner, At, Labels, InRoom, Holding, handler
  <2>3. CASE TellOther(s)
    BY <2>3 DEF TellOther, At, Labels, InRoom, Holding, handler
  <2>4. CASE RecvForward(s)
    BY <2>4 DEF RecvForward, Receiving, Labels, InRoom, Holding, handler
  <2>5. CASE Forward(s)
    BY <2>5 DEF Forward, At, Labels, InRoom, Holding, handler
  <2>6. CASE RecvEOF(s)
    BY <2>6 DEF RecvEOF, At, Labels, InRoom, Holding, handler
  <2>7. CASE RecvError(s)
    BY <2>7 DEF RecvError, At, Labels, InRoom, Holding, handler
  <2>8. QED
    BY <2>1, <2>2, <2>3, <2>4, <2>5, <2>6, <2>7
<1>2. \A t \in Sessions \ {s} : r'[t] = r[t] /\ userNum'[t] = userNum[t]
  BY DEF TellCreator, TellJoiner, TellOther, RecvForward, Forward, RecvEOF, RecvError,
         OutOfScope, handler, IsoInv, TypeOK
<1>3. /\ roomInfoMap' = roomInfoMap /\ roomName' = roomName
      /\ raced' = raced /\ crowded' = crowded
  BY DEF TellCreator, TellJoiner, TellOther, RecvForward, Forward, RecvEOF, RecvError,
         handler, history
<1>4. QED
  BY <1>1, <1>2, <1>3, MovedCount

\* Steps that leave every handler where it is.
LEMMA QuietCount ==
    ASSUME CountInv, NEW s \in Sessions, NEW t \in Sessions,
           RecvConnect(s) \/ ForwardToNil(s) \/ ClientCloses(s) \/ NetBreaks(s) \/ MapAbort(s, t)
    PROVE  CountInv'
<1>1. /\ pc' = pc /\ roomInfoMap' = roomInfoMap /\ roomName' = roomName
      /\ r' = r /\ userNum' = userNum /\ raced' = raced /\ crowded' = crowded
  BY DEF RecvConnect, ForwardToNil, ClientCloses, NetBreaks, MapAbort, handler, history
<1>2. QED
  BY <1>1, StillCount

\* A session that ends without a room, or in the one without a name.
LEMMA LeaveNoRoomCount == ASSUME IsoInv, CountInv, NEW s \in Sessions, LeaveNoRoom(s)
                          PROVE  CountInv'
<1>1. roomName[s] \notin Named /\ Goto(s, "done")
  BY NilAssumption DEF LeaveNoRoom, HasName, EndSession, Named
<1>2. \A t \in Sessions \ {s} : r'[t] = r[t] /\ userNum'[t] = userNum[t]
  BY DEF LeaveNoRoom, EndSession, IsoInv, TypeOK
<1>3. /\ roomInfoMap' = roomInfoMap /\ roomName' = roomName
      /\ raced' = raced /\ crowded' = crowded
  BY DEF LeaveNoRoom, history
<1>4. "done" \in Labels \ {"new"} /\ "done" \notin Holding
  BY DEF Labels, Holding
<1>5. QED
  BY <1>1, <1>2, <1>3, <1>4, MovedCount

-----------------------------------------------------------------------------
(* Steps that read the map, and those that write it.  Each concerns one    *)
(* handler s and one room.                                                 *)

\* s alone moves, to a place from which it is in no other room than before.
OnlyMoves(s, l) ==
    /\ pc \in [Sessions -> Labels] /\ roomName \in [Sessions -> Rooms \cup {Nil}]
    /\ pc' = [pc EXCEPT ![s] = l] /\ l # "new"
    /\ \A t \in Sessions \ {s} : /\ r'[t] = r[t] /\ userNum'[t] = userNum[t]
                                /\ roomName'[t] = roomName[t]
    /\ roomName[s] # Nil => roomName'[s] = roomName[s]
    /\ raced \subseteq raced' /\ crowded \subseteq crowded'

\* Then every other room keeps its count ...
LEMMA OtherRoomsCount ==
    ASSUME CountInv, NEW s \in Sessions, NEW l, OnlyMoves(s, l),
           NEW x \in Rooms, roomName'[s] = x,
           NEW y \in Rooms, y # x, Calm(y)', roomInfoMap'[y] = roomInfoMap[y]
    PROVE  RoomCounted(y)'
<1>1. RoomCounted(y)
  BY DEF CountInv, Calm, OnlyMoves
<1>2. \A t \in Sessions \ {s} : pc'[t] = pc[t]
  BY DEF OnlyMoves
<1>3. roomName[s] # y /\ roomName'[s] # y
  BY NilAssumption DEF OnlyMoves
<1>4. Members(y)' = Members(y)
  BY <1>2, <1>3 DEF Members, OnlyMoves
<1>5. Holders(y)' = Holders(y)
  BY <1>2, <1>3 DEF Holders, OnlyMoves
<1>6. ASSUME NEW t \in Holders(y) PROVE CopyIsCurrent(t)'
  <2>1. t \in Sessions /\ t # s /\ roomName[t] = y /\ CopyIsCurrent(t)
    BY <1>1, <1>3 DEF Holders, RoomCounted
  <2>2. pc'[t] = pc[t] /\ r'[t] = r[t] /\ userNum'[t] = userNum[t] /\ roomName'[t] = y
    BY <1>2, <2>1 DEF OnlyMoves
  <2>3. QED
    BY <2>1, <2>2 DEF CopyIsCurrent
<1>7. QED
  BY <1>1, <1>4, <1>5, <1>6 DEF RoomCounted

\* ... and the handlers that have not begun are still outside.
LEMMA StillOutside ==
    ASSUME CountInv, NEW s \in Sessions, NEW l, OnlyMoves(s, l)
    PROVE  NewOutside'
  BY DEF CountInv, NewOutside, OnlyMoves

\* A lookup: s gets a copy, while nobody else holds one or the room is raced for.
LEMMA LookupCount ==
    ASSUME CountInv, NEW s \in Sessions, NEW l \in Holding, OnlyMoves(s, l),
           NEW x \in Rooms, roomName'[s] = x, NoteRace(x),
           roomInfoMap' = roomInfoMap,
           s \in Members(x) <=> l = "leave",
           Calm(x)' => CopyIsCurrent(s)'
    PROVE  CountInv'
<1>1. ASSUME Calm(x)' PROVE RoomCounted(x)'
  <2>1. RoomCounted(x) /\ Holders(x) = {}
    BY <1>1 DEF CountInv, Calm, OnlyMoves, NoteRace
  <2>2. \A t \in Sessions \ {s} : pc'[t] = pc[t] /\ roomName'[t] = roomName[t]
    BY DEF OnlyMoves
  <2>3. pc'[s] = l
    BY DEF OnlyMoves
  <2>4. Members(x)' = Members(x)
    BY <2>2, <2>3 DEF Members, Holding
  <2>5. Holders(x)' = {s}
    BY <2>1, <2>2, <2>3 DEF Holders
  <2>6. QED
    BY <1>1, <2>1, <2>4, <2>5 DEF RoomCounted
<1>2. \A y \in Rooms : Calm(y)' => RoomCounted(y)'
  BY <1>1, OtherRoomsCount
<1>3. QED
  BY <1>2, StillOutside DEF CountInv

\* A write: s, which held the only copy, holds none now.
LEMMA WriteCount ==
    ASSUME CountInv, NEW s \in Sessions, NEW l \in Labels \ Holding, OnlyMoves(s, l),
           NEW x \in Rooms, roomName[s] = x, pc[s] \in Holding,
           \A y \in Rooms \ {x} : roomInfoMap'[y] = roomInfoMap[y],
           RoomCounted(x) => CountIs(roomInfoMap'[x].users, Members(x)')
    PROVE  CountInv'
<1>1. roomName'[s] = x
  BY NilAssumption DEF OnlyMoves
<1>2. ASSUME Calm(x)' PROVE RoomCounted(x)'
  <2>1. RoomCounted(x)
    BY <1>2 DEF CountInv, Calm, OnlyMoves
  <2>2. Holders(x) = {s}
    BY <2>1 DEF RoomCounted, Holders
  <2>3. \A t \in Sessions \ {s} : pc'[t] = pc[t] /\ roomName'[t] = roomName[t]
    BY DEF OnlyMoves
  <2>4. pc'[s] = l
    BY DEF OnlyMoves
  <2>5. Holders(x)' = {}
    BY <2>2, <2>3, <2>4 DEF Holders
  <2>6. QED
    BY <2>1, <2>5 DEF RoomCounted
<1>3. \A y \in Rooms : Calm(y)' => RoomCounted(y)'
  BY <1>1, <1>2, OtherRoomsCount
<1>4. QED
  BY <1>3, StillOutside DEF CountInv

-----------------------------------------------------------------------------
\* The first user takes a copy with one user, when there is none.
LEMMA SubscribeNewCount ==
    ASSUME IsoInv, CountInv, NEW s \in Sessions, NEW x \in Rooms, NEW lt \in LinkTypes,
           SubscribeNew(s, x, lt)
    PROVE  CountInv'
<1>1. /\ pc[s] = "receive" /\ roomName[s] = Nil /\ roomInfoMap[x].users = 0
      /\ roomName' = [roomName EXCEPT ![s] = x] /\ userNum' = [userNum EXCEPT ![s] = 1]
      /\ r' = [r EXCEPT ![s] = Founded(s, lt)] /\ NoteRace(x)
      /\ pc' = [pc EXCEPT ![s] = "create"]
      /\ roomInfoMap' = roomInfoMap /\ crowded' = crowded
  BY DEF SubscribeNew, MaySubscribe, Receiving, Goto
<1>2. /\ pc \in [Sessions -> Labels] /\ roomName \in [Sessions -> Rooms \cup {Nil}]
      /\ r \in [Sessions -> Entries] /\ userNum \in [Sessions -> 0..2]
  BY DEF IsoInv, TypeOK
<1>3. raced \subseteq raced'
  BY <1>1 DEF NoteRace
<1>4. OnlyMoves(s, "create") /\ roomName'[s] = x
  BY <1>1, <1>2, <1>3 DEF OnlyMoves
<1>5. s \notin Members(x)
  BY <1>1, NilAssumption DEF Members
<1>6. CopyIsCurrent(s)'
  <2>1. pc'[s] = "create" /\ userNum'[s] = 1 /\ r'[s] = Founded(s, lt)
    BY <1>1, <1>2
  <2>2. Founded(s, lt).users = 1
    BY DEF Founded
  <2>3. roomInfoMap'[roomName'[s]].users = 0
    BY <1>1, <1>4
  <2>4. QED
    BY <2>1, <2>2, <2>3 DEF CopyIsCurrent
<1>7. "create" \in Holding
  BY DEF Holding
<1>8. QED
  BY <1>1, <1>4, <1>5, <1>6, <1>7, LookupCount

\* The second user takes one with two, when there is one; or the room is crowded.
LEMMA SubscribeFoundCount ==
    ASSUME IsoInv, CountInv, NEW s \in Sessions, NEW x \in Rooms, NEW lt \in LinkTypes,
           SubscribeFound(s, x, lt)
    PROVE  CountInv'
<1>1. /\ pc[s] = "receive" /\ roomName[s] = Nil /\ roomInfoMap[x].users > 0
      /\ roomName' = [roomName EXCEPT ![s] = x] /\ userNum' = [userNum EXCEPT ![s] = 2]
      /\ r' = [r EXCEPT ![s] = Joined(s, lt, roomInfoMap[x])] /\ NoteRace(x)
      /\ pc' = [pc EXCEPT ![s] = "store"]
      /\ roomInfoMap' = roomInfoMap
      /\ crowded' = IF roomInfoMap[x].users = 2 THEN crowded \cup {x} ELSE crowded
  BY DEF SubscribeFound, MaySubscribe, Receiving, Goto
<1>2. /\ pc \in [Sessions -> Labels] /\ roomName \in [Sessions -> Rooms \cup {Nil}]
      /\ r \in [Sessions -> Entries] /\ userNum \in [Sessions -> 0..2]
      /\ roomInfoMap[x].users \in 0..2
  BY EntryFields DEF IsoInv, TypeOK
<1>3. raced \subseteq raced' /\ crowded \subseteq crowded'
  BY <1>1 DEF NoteRace
<1>4. OnlyMoves(s, "store") /\ roomName'[s] = x
  BY <1>1, <1>2, <1>3 DEF OnlyMoves
<1>5. s \notin Members(x)
  BY <1>1, NilAssumption DEF Members
<1>6. ASSUME Calm(x)' PROVE CopyIsCurrent(s)'
  <2>1. pc'[s] = "store" /\ userNum'[s] = 2 /\ r'[s] = Joined(s, lt, roomInfoMap[x])
    BY <1>1, <1>2
  <2>2. Joined(s, lt, roomInfoMap[x]).users = 2
    BY DEF Joined
  <2>3. roomInfoMap'[roomName'[s]].users = 1
    <3>1. roomInfoMap[x].users # 2
      BY <1>1, <1>6 DEF Calm
    <3>2. roomInfoMap[x].users = 1
      BY <1>1, <1>2, <3>1
    <3>3. QED
      BY <1>1, <1>4, <3>2
  <2>4. QED
    BY <2>1, <2>2, <2>3 DEF CopyIsCurrent
<1>7. "store" \in Holding /\ "store" # "leave"
  BY DEF Holding
<1>8. QED
  BY <1>1, <1>4, <1>5, <1>6, <1>7, LookupCount

\* A leaver takes the entry as it is.
LEMMA LeaveReadCount == ASSUME IsoInv, CountInv, NEW s \in Sessions, LeaveRead(s)
                        PROVE  CountInv'
<1>1. PICK x \in Rooms : roomName[s] = x
  BY DEF LeaveRead, HasName, IsoInv, TypeOK
<1>2. /\ pc[s] = "teardown"
      /\ r' = [r EXCEPT ![s] = roomInfoMap[x]] /\ NoteRace(x)
      /\ pc' = [pc EXCEPT ![s] = "leave"]
      /\ roomInfoMap' = roomInfoMap /\ crowded' = crowded
      /\ roomName' = roomName /\ userNum' = userNum
  BY <1>1 DEF LeaveRead, At, Goto, handler
<1>3. /\ pc \in [Sessions -> Labels] /\ roomName \in [Sessions -> Rooms \cup {Nil}]
      /\ r \in [Sessions -> Entries]
  BY DEF IsoInv, TypeOK
<1>4. raced \subseteq raced'
  BY <1>2 DEF NoteRace
<1>5. OnlyMoves(s, "leave") /\ roomName'[s] = x
  BY <1>1, <1>2, <1>3, <1>4 DEF OnlyMoves
<1>6. s \in Members(x)
  BY <1>1, <1>2 DEF Members
<1>7. pc'[s] = "leave" /\ r'[s] = roomInfoMap[x]
  BY <1>2, <1>3
<1>8. CopyIsCurrent(s)'
  BY <1>2, <1>5, <1>7 DEF CopyIsCurrent
<1>9. "leave" \in Holding
  BY DEF Holding
<1>10. QED
  BY <1>1, <1>2, <1>5, <1>6, <1>8, <1>9, LookupCount

-----------------------------------------------------------------------------
\* One more of a count, and one less.
LEMMA CountMore == ASSUME NEW M, NEW a, a \notin M
                   PROVE  /\ CountIs(0, M) => CountIs(1, M \cup {a})
                          /\ CountIs(1, M) => CountIs(2, M \cup {a})
<1>1. CountIs(0, M) => CountIs(1, M \cup {a})
  BY DEF CountIs
<1>2. ASSUME CountIs(1, M) PROVE CountIs(2, M \cup {a})
  <2>1. PICK b \in M : M = {b}
    BY <1>2 DEF CountIs
  <2>2. b # a /\ M \cup {a} = {b, a}
    BY <2>1
  <2>3. QED
    BY <2>2 DEF CountIs
<1>3. QED
  BY <1>1, <1>2

LEMMA CountLess == ASSUME NEW M, NEW a \in M, NEW n \in Nat, CountIs(n, M)
                   PROVE  n \in {1, 2} /\ CountIs(n - 1, M \ {a})
<1>1. CASE n = 1
  <2>1. M \ {a} = {}
    BY <1>1 DEF CountIs
  <2>2. QED
    BY <1>1, <2>1 DEF CountIs
<1>2. CASE n = 2
  <2>1. PICK b, c \in M : b # c /\ M = {b, c}
    BY <1>2 DEF CountIs
  <2>2. PICK d \in M : M \ {a} = {d}
    BY <2>1
  <2>3. QED
    BY <1>2, <2>2 DEF CountIs
<1>3. QED
  BY <1>1, <1>2 DEF CountIs

\* The store brings the count and the member together.
LEMMA StoreRoomCount == ASSUME IsoInv, CountInv, NEW s \in Sessions, StoreRoom(s)
                        PROVE  CountInv'
<1>1. PICK x \in Rooms : roomName[s] = x
  BY DEF StoreRoom, At, IsoInv, HandlersWithin, NeedsRoom
<1>2. /\ pc[s] = "store"
      /\ roomInfoMap' = [roomInfoMap EXCEPT ![x] = r[s]]
      /\ raced' = raced /\ crowded' = crowded
      /\ roomName' = roomName /\ userNum' = userNum
  BY <1>1 DEF StoreRoom, At, handler, history
<1>3. /\ pc \in [Sessions -> Labels] /\ roomName \in [Sessions -> Rooms \cup {Nil}]
      /\ r \in [Sessions -> Entries] /\ roomInfoMap \in [Rooms -> Entries]
  BY DEF IsoInv, TypeOK
<1>4. PICK l \in {"receive", "reply"} :
         pc' = [pc EXCEPT ![s] = l] /\ \A t \in Sessions \ {s} : r'[t] = r[t]
  BY <1>3 DEF StoreRoom, Goto, OutOfScope
<1>5. OnlyMoves(s, l)
  BY <1>2, <1>3, <1>4 DEF OnlyMoves
<1>6. l \in Labels \ Holding /\ pc[s] \in Holding
  BY <1>2, <1>4 DEF Labels, Holding
<1>7. \A y \in Rooms \ {x} : roomInfoMap'[y] = roomInfoMap[y]
  BY <1>2, <1>3
<1>8. ASSUME RoomCounted(x) PROVE CountIs(roomInfoMap'[x].users, Members(x)')
  <2>1. s \in Holders(x) /\ s \notin Members(x)
    BY <1>2, <1>1 DEF Holders, Holding, Members
  <2>2. CopyIsCurrent(s)
    BY <1>8, <2>1 DEF RoomCounted
  <2>3. \/ roomInfoMap[x].users = 0 /\ r[s].users = 1
        \/ roomInfoMap[x].users = 1 /\ r[s].users = 2
    BY <1>2, <1>1, <2>2 DEF CopyIsCurrent
  <2>4. Members(x)' = Members(x) \cup {s}
    <3>1. \A t \in Sessions \ {s} : pc'[t] = pc[t]
      BY <1>3, <1>4
    <3>2. pc'[s] = l /\ roomName[s] = x
      BY <1>3, <1>1, <1>4
    <3>3. QED
      BY <1>2, <1>1, <1>4, <3>1, <3>2 DEF Members
  <2>5. roomInfoMap'[x] = r[s]
    BY <1>2, <1>3, <1>1
  <2>6. CountIs(roomInfoMap[x].users, Members(x))
    BY <1>8 DEF RoomCounted
  <2>7. QED
    BY <2>1, <2>3, <2>4, <2>5, <2>6, CountMore
<1>9. QED
  BY <1>1, <1>5, <1>6, <1>7, <1>8, WriteCount

\* The leaver takes itself out of both.
LEMMA LeaveWriteCount == ASSUME IsoInv, CountInv, NEW s \in Sessions, LeaveWrite(s)
                         PROVE  CountInv'
<1>1. PICK x \in Rooms : roomName[s] = x
  BY DEF LeaveWrite, At, IsoInv, HandlersWithin, NeedsRoom
<1>2. /\ pc[s] = "leave"
      /\ roomInfoMap' = [roomInfoMap EXCEPT ![x] = OneLess(r[s])]
      /\ pc' = [pc EXCEPT ![s] = "done"]
      /\ r' = [r EXCEPT ![s] = Absent] /\ userNum' = [userNum EXCEPT ![s] = 0]
      /\ raced' = raced /\ crowded' = crowded /\ roomName' = roomName
  BY <1>1 DEF LeaveWrite, At, EndSession, Goto, history
<1>3. /\ pc \in [Sessions -> Labels] /\ roomName \in [Sessions -> Rooms \cup {Nil}]
      /\ r \in [Sessions -> Entries] /\ roomInfoMap \in [Rooms -> Entries]
      /\ userNum \in [Sessions -> 0..2]
  BY DEF IsoInv, TypeOK
<1>4. OnlyMoves(s, "done")
  BY <1>2, <1>3 DEF OnlyMoves
<1>5. "done" \in Labels \ Holding /\ pc[s] \in Holding
  BY <1>2 DEF Labels, Holding
<1>6. \A y \in Rooms \ {x} : roomInfoMap'[y] = roomInfoMap[y]
  BY <1>2, <1>3
<1>7. ASSUME RoomCounted(x) PROVE CountIs(roomInfoMap'[x].users, Members(x)')
  <2>1. s \in Holders(x) /\ s \in Members(x)
    BY <1>2, <1>1 DEF Holders, Holding, Members
  <2>2. r[s] = roomInfoMap[x]
    BY <1>2, <1>1, <1>7, <2>1 DEF RoomCounted, CopyIsCurrent
  <2>3. roomInfoMap[x] \in Entries /\ roomInfoMap[x].users \in Nat
    <3>1. roomInfoMap[x] \in Entries
      BY <1>3, <1>1
    <3>2. roomInfoMap[x].users \in 0..2
      BY <3>1, EntryFields
    <3>3. QED
      BY <3>1, <3>2
  <2>4. Members(x)' = Members(x) \ {s}
    <3>1. \A t \in Sessions \ {s} : pc'[t] = pc[t]
      BY <1>2, <1>3
    <3>2. pc'[s] = "done"
      BY <1>2, <1>3
    <3>3. QED
      BY <1>2, <1>1, <3>1, <3>2 DEF Members
  <2>5. CountIs(roomInfoMap[x].users, Members(x))
    BY <1>7 DEF RoomCounted
  <2>6. /\ roomInfoMap[x].users \in {1, 2}
        /\ CountIs(roomInfoMap[x].users - 1, Members(x) \ {s})
    BY <2>1, <2>3, <2>5, CountLess
  <2>7. OneLess(roomInfoMap[x]).users = roomInfoMap[x].users - 1
    <3>1. CASE roomInfoMap[x].users = 1
      BY <3>1 DEF OneLess, Absent
    <3>2. CASE roomInfoMap[x].users = 2
      <4>1. OneLess(roomInfoMap[x]) = [roomInfoMap[x] EXCEPT !.users = @ - 1]
        BY <3>2 DEF OneLess
      <4>2. "users" \in DOMAIN roomInfoMap[x]
        BY <2>3 DEF Entries
      <4>3. QED
        BY <4>1, <4>2
    <3>3. QED
      BY <2>6, <3>1, <3>2
  <2>8. roomInfoMap'[x] = OneLess(roomInfoMap[x])
    BY <1>2, <1>3, <1>1, <2>2
  <2>9. QED
    BY <2>4, <2>6, <2>7, <2>8
<1>8. QED
  BY <1>1, <1>4, <1>5, <1>6, <1>7, WriteCount

-----------------------------------------------------------------------------
(* The theorem.                                                            *)

\* Nobody is anywhere at the start.
LEMMA CountInit == Init => CountInv
<1> SUFFICES ASSUME Init PROVE CountInv
  OBVIOUS
<1>1. NewOutside
  BY DEF Init, NewOutside
<1>2. ASSUME NEW x \in Rooms PROVE RoomCounted(x)
  <2>1. Members(x) = {} /\ Holders(x) = {}
    BY DEF Init, Members, Holders, Holding
  <2>2. roomInfoMap[x].users = 0
    BY DEF Init, Absent
  <2>3. QED
    BY <2>1, <2>2 DEF RoomCounted, CountIs
<1>3. QED
  BY <1>1, <1>2 DEF CountInv

\* One lemma per step, or group of steps, adds up to the induction step.
LEMMA CountStep == IsoInv /\ CountInv /\ [Next]_vars => CountInv'
<1> SUFFICES ASSUME IsoInv, CountInv, [Next]_vars PROVE CountInv'
  OBVIOUS
<1>1. CASE UNCHANGED vars
  <2>1. /\ pc' = pc /\ roomInfoMap' = roomInfoMap /\ roomName' = roomName
        /\ r' = r /\ userNum' = userNum /\ raced' = raced /\ crowded' = crowded
    BY <1>1 DEF vars, handler, history
  <2>2. QED
    BY <2>1, StillCount
<1>2. ASSUME NEW s \in Sessions, Serve(s) PROVE CountInv'
  <2>1. CASE Subscribe(s)
    <3>1. PICK x \in Rooms, lt \in Asks : SubscribeNew(s, x, lt) \/ SubscribeFound(s, x, lt)
      BY <2>1 DEF Subscribe
    <3>2. lt \in LinkTypes
      BY AsksAssumption DEF LinkTypes
    <3>3. QED
      BY <3>1, <3>2, SubscribeNewCount, SubscribeFoundCount
  <2>2. QED
    BY <1>2, <2>1, OpenCount, TalkCount, QuietCount DEF Serve
<1>3. ASSUME NEW s \in Sessions, Continue(s) PROVE CountInv'
  BY <1>3, TalkCount, QuietCount, StoreRoomCount, LeaveReadCount, LeaveNoRoomCount,
     LeaveWriteCount DEF Continue
<1>4. ASSUME NEW s \in Sessions, Outside(s) PROVE CountInv'
  BY <1>4, QuietCount DEF Outside
<1>5. QED
  BY <1>1, <1>2, <1>3, <1>4 DEF Next

\* In a calm room every lookup finds as many users as there are members, and the
\* entry that a handler stores or deletes counts them too (rtcSignaling.go:183-241,
\* 496-508), for any number of clients, rooms, broken connections and messages.
THEOREM CalmRoomsCount == Spec => []UsersCounted
<1>1. IsoInv /\ CountInv => UsersCounted
  <2> SUFFICES ASSUME CountInv, NEW x \in Rooms, Calm(x)
               PROVE  roomInfoMap[x].users = Cardinality(Members(x))
    BY DEF UsersCounted
  <2>1. CountIs(roomInfoMap[x].users, Members(x))
    BY DEF CountInv, RoomCounted
  <2>2. CASE roomInfoMap[x].users = 0 /\ Members(x) = {}
    BY <2>2, FS_EmptySet
  <2>3. CASE roomInfoMap[x].users = 1 /\ \E a \in Members(x) : Members(x) = {a}
    BY <2>3, FS_Singleton
  <2>4. CASE roomInfoMap[x].users = 2 /\ \E a, b \in Members(x) : a # b /\ Members(x) = {a, b}
    <3>1. PICK a, b \in Members(x) : a # b /\ Members(x) = {a, b}
      BY <2>4
    <3>2. Cardinality({a, b}) = 2
      <4>1. IsFiniteSet({a}) /\ Cardinality({a}) = 1
        BY FS_Singleton
      <4>2. Cardinality({a} \cup {b}) = 2
        BY <3>1, <4>1, FS_AddElement
      <4>3. {a} \cup {b} = {a, b}
        OBVIOUS
      <4>4. QED
        BY <4>2, <4>3
    <3>3. QED
      BY <2>4, <3>1, <3>2
  <2>5. QED
    BY <2>1, <2>2, <2>3, <2>4 DEF CountIs
<1>2. IsoInv /\ CountInv /\ [Next]_vars => IsoInv' /\ CountInv'
  BY IsoStep, CountStep
<1>3. Init => IsoInv /\ CountInv
  BY IsoInit, CountInit
<1>4. QED
  BY <1>1, <1>2, <1>3, PTL DEF Spec
=============================================================================
