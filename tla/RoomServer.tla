----------------------------- MODULE RoomServer -----------------------------
(***************************************************************************)
(* rtcSignaling.go: WsSessionHandler, one goroutine per websocket, and the *)
(* global roomInfoMap all of them read and write without a lock.           *)
(*                                                                         *)
(* A handler's work on the map is split where another goroutine can come   *)
(* between: the lookup of an entry is one step, the store (or delete) of   *)
(* the changed copy a later one.  Sends are steps of their own where the   *)
(* code can stop half way through them.                                    *)
(*                                                                         *)
(* Left out here: forRing/stopRing (they work on CalleeMap; CallCenter),   *)
(* the admin channels and newRoomCmd (nothing registers a channel or sets  *)
(* a command), and the SDP rewriting with its UDP proxies, of which only   *)
(* the outcome is kept: relayed, direct, or direct because nothing in the  *)
(* SDP could be patched.                                                   *)
(***************************************************************************)
EXTENDS Naturals, Sequences, FiniteSets

CONSTANTS Sessions,     \* websocket sessions that may be opened
          Rooms,        \* room names
          Blank,        \* the empty one among them, if anybody enters it
          Asks,         \* the link types clients ask for
          Nil,          \* Go's nil *websocket.Conn, and the empty string
          Hasty,        \* the clients that name their room before they are "ready"
          MaxForwards,  \* bound: messageForward commands per session
          MaxResets     \* bound: connections that break without a close

ASSUME NilAssumption == Nil \notin Sessions \cup Rooms
ASSUME BlankAssumption == Blank \subseteq Rooms
ASSUME AsksAssumption == Asks \subseteq {"p2p", "relayed"}
ASSUME HastyAssumption == Hasty \subseteq Sessions
ASSUME BoundsAssumption == MaxForwards \in Nat /\ MaxResets \in Nat

VARIABLES
    pc,           \* where each handler stands
    net,          \* each websocket as the client left it
    myClientId, roomName, linkType, otherCws, userNum,    \* locals of the handler
    r,            \* the handler's local copy of a room entry
    roomInfoMap,  \* the shared map; Absent stands for a missing key
    wire,         \* what each client was sent while its session lives, in order
    forwards,     \* messageForward commands handled so far
    process,      \* "up", or how the server process died
    asked,        \* history: the link type each client asked for
    raced,        \* history: rooms an entry of which two handlers overlapped on
    crowded       \* history: rooms a third client subscribed to

handler == <<roomName, linkType, otherCws, userNum>>
history == <<asked, raced, crowded>>
vars == <<pc, net, myClientId, handler, r, roomInfoMap, wire, forwards,
          process, history>>

LinkTypes == {"p2p", "relayed"}

\* Go's zero roomInfo, which a lookup of a missing key returns.
Absent == [clientId |-> Nil, cws |-> Nil, linkType |-> "", users |-> 0]

Entries == [clientId : Sessions \cup {Nil}, cws : Sessions \cup {Nil},
            linkType : LinkTypes \cup {""}, users : 0..2]

Messages ==
    [cmd  : {"connect", "ready", "roomclients", "online", "offline",
             "notice", "forward"},
     from : Sessions \cup {Nil},
     mode : {"", "p2p", "relayed", "unpatched"}]

Plain(cmd)        == [cmd |-> cmd, from |-> Nil, mode |-> ""]
RoomClients(id)   == [cmd |-> "roomclients", from |-> id, mode |-> ""]
Online(id)        == [cmd |-> "online", from |-> id, mode |-> ""]
Notice(m)         == [cmd |-> "notice", from |-> Nil, mode |-> m]
Forwarded(s, m)   == [cmd |-> "forward", from |-> s, mode |-> m]

\* Sending on a websocket whose client is gone reaches nobody.
Sent(w, c, m) == IF net[c] = "open" THEN [w EXCEPT ![c] = Append(@, m)] ELSE w

\* Handlers that hold a copy of x's entry they have not written back yet.
\* (A reader of a "forward" lookup writes nothing back.)
Holding == {"create", "store", "leave"}
Holders(x) == {t \in Sessions : pc[t] \in Holding /\ roomName[t] = x}

\* A handler reads x's entry: does that overlap with somebody's update?
NoteRace(x) == raced' = IF Holders(x) = {} THEN raced ELSE raced \cup {x}

-----------------------------------------------------------------------------
Init ==
    /\ pc = [s \in Sessions |-> "new"]
    /\ net = [s \in Sessions |-> "none"]
    /\ myClientId = [s \in Sessions |-> Nil]
    /\ roomName = [s \in Sessions |-> Nil]
    /\ linkType = [s \in Sessions |-> ""]
    /\ otherCws = [s \in Sessions |-> Nil]
    /\ userNum = [s \in Sessions |-> 0]
    /\ r = [s \in Sessions |-> Absent]
    /\ roomInfoMap = [x \in Rooms |-> Absent]
    /\ wire = [s \in Sessions |-> <<>>]
    /\ forwards = [s \in Sessions |-> 0]
    /\ process = "up"
    /\ asked = [s \in Sessions |-> ""]
    /\ raced = {}
    /\ crowded = {}

Goto(s, label) == pc' = [pc EXCEPT ![s] = label]

\* The loop waits in Receive, and what the client sent can still be read: all
\* that went out before a clean close is delivered ahead of the EOF.
Receiving(s) == process = "up" /\ pc[s] = "receive" /\ net[s] \in {"open", "eof"}

At(s, label) == process = "up" /\ pc[s] = label

MayBreak == Cardinality({s \in Sessions : net[s] = "reset"}) < MaxResets

\* The handler returns and its locals are gone, and so is the client's page.
EndSession(s) ==
    /\ Goto(s, "done")
    /\ linkType' = [linkType EXCEPT ![s] = ""]
    /\ otherCws' = [otherCws EXCEPT ![s] = Nil]
    /\ userNum' = [userNum EXCEPT ![s] = 0]
    /\ r' = [r EXCEPT ![s] = Absent]
    /\ myClientId' = [myClientId EXCEPT ![s] = Nil]
    /\ forwards' = [forwards EXCEPT ![s] = 0]
    /\ wire' = [wire EXCEPT ![s] = <<>>]

-----------------------------------------------------------------------------
(* The beginning of a session, and "connect".                              *)

\* A browser opens the websocket and the handler greets it ...
Open(s) ==
    /\ At(s, "new")
    /\ net' = [net EXCEPT ![s] = "open"]
    /\ wire' = [wire EXCEPT ![s] = <<Plain("connect")>>]
    /\ Goto(s, "receive")
    /\ UNCHANGED <<myClientId, handler, r, roomInfoMap, forwards, process, history>>

\* ... or finds it already broken, and the session is over.
OpenFails(s) ==
    /\ At(s, "new")
    /\ MayBreak
    /\ net' = [net EXCEPT ![s] = "reset"]
    /\ Goto(s, "done")
    /\ UNCHANGED <<myClientId, handler, r, roomInfoMap, wire, forwards, process, history>>

RecvConnect(s) ==
    /\ Receiving(s)
    /\ myClientId[s] = Nil
    /\ myClientId' = [myClientId EXCEPT ![s] = s]
    /\ wire' = Sent(wire, s, Plain("ready"))
    /\ UNCHANGED <<pc, net, handler, r, roomInfoMap, forwards, process, history>>

-----------------------------------------------------------------------------
(* "subscribe".  rtcchat.js sends it once per websocket: after "ready" if   *)
(* the room came with the URL, at any time if the user types it in.        *)

\* (Mutant: the same websocket may subscribe again.)
MaySubscribeAgain(s) == Receiving(s) /\ (myClientId[s] # Nil \/ s \in Hasty)

MaySubscribe(s) == Receiving(s) /\ roomName[s] = Nil /\ (myClientId[s] # Nil \/ s \in Hasty)

\* The entry the first user builds.
Founded(s, lt) == [clientId |-> myClientId[s], cws |-> s,
                   linkType |-> lt, users |-> 1]

\* (Mutants: the first user's link type wins; the second user's does; the entry
\* keeps pointing at the first user.)
JoinedFirstWins(s, lt, e) == [e EXCEPT !.cws = s, !.users = 2]
JoinedLastWins(s, lt, e) == [e EXCEPT !.cws = s, !.users = 2, !.linkType = lt]
JoinedUnseen(s, lt, e) == [e EXCEPT !.users = 2,
                                    !.linkType = IF lt = @ THEN lt ELSE "relayed"]

\* The entry the second user makes of entry e.
Joined(s, lt, e) == [clientId |-> e.clientId,
                     cws |-> IF otherCws[s] = Nil THEN s ELSE e.cws,
                     linkType |-> IF lt = e.linkType THEN lt ELSE "relayed",
                     users |-> 2]

\* The lookup finds no entry: this is user 1.
SubscribeNew(s, x, lt) ==
    /\ MaySubscribe(s)
    /\ roomInfoMap[x].users = 0
    /\ roomName' = [roomName EXCEPT ![s] = x]
    /\ linkType' = [linkType EXCEPT ![s] = lt]
    /\ asked' = [asked EXCEPT ![s] = lt]
    /\ userNum' = [userNum EXCEPT ![s] = 1]
    /\ r' = [r EXCEPT ![s] = Founded(s, lt)]
    /\ NoteRace(x)
    /\ Goto(s, "create")
    /\ UNCHANGED <<net, myClientId, otherCws, roomInfoMap, wire, forwards, process, crowded>>

\* The lookup finds an entry: this is user 2, or is taken for it.
SubscribeFound(s, x, lt) ==
    /\ MaySubscribe(s)
    /\ LET e == roomInfoMap[x] IN
        /\ e.users > 0
        /\ roomName' = [roomName EXCEPT ![s] = x]
        /\ linkType' = [linkType EXCEPT ![s] = Joined(s, lt, e).linkType]
        /\ asked' = [asked EXCEPT ![s] = lt]
        /\ userNum' = [userNum EXCEPT ![s] = 2]
        /\ otherCws' = [otherCws EXCEPT ![s] = IF @ = Nil THEN e.cws ELSE @]
        /\ r' = [r EXCEPT ![s] = Joined(s, lt, e)]
        /\ crowded' = IF e.users = 2 THEN crowded \cup {x} ELSE crowded
    /\ NoteRace(x)
    /\ Goto(s, "store")
    /\ UNCHANGED <<net, myClientId, roomInfoMap, wire, forwards, process>>

\* User 1 is told the room is empty before the entry is stored.
TellCreator(s) ==
    /\ At(s, "create")
    /\ wire' = Sent(wire, s, RoomClients(Nil))
    /\ Goto(s, "store")
    /\ UNCHANGED <<net, myClientId, handler, r, roomInfoMap, forwards, process, history>>

\* The copy of the entry lives as long as the case of the switch.
OutOfScope(s) == r' = [r EXCEPT ![s] = Absent]

StoreRoom(s) ==
    /\ At(s, "store")
    /\ roomInfoMap' = [roomInfoMap EXCEPT ![roomName[s]] = r[s]]
    /\ IF userNum[s] = 1 THEN Goto(s, "receive") /\ OutOfScope(s)
                         ELSE Goto(s, "reply") /\ UNCHANGED r
    /\ UNCHANGED <<net, myClientId, handler, wire, forwards, process, history>>

\* (Mutant: the handler always goes on as if the send had failed.)
TellJoinerOnly(s) ==
    /\ At(s, "reply")
    /\ wire' = Sent(wire, s, RoomClients(r[s].clientId))
    /\ Goto(s, "receive") /\ OutOfScope(s)
    /\ UNCHANGED <<net, myClientId, handler, roomInfoMap, forwards, process, history>>

\* User 2 gets the clientId of the room's creator.  If the send fails, the
\* other client never hears of user 2.
TellJoiner(s) ==
    /\ At(s, "reply")
    /\ wire' = Sent(wire, s, RoomClients(r[s].clientId))
    /\ \/ Goto(s, "notify")
       \/ net[s] # "open" /\ Goto(s, "receive")
    /\ OutOfScope(s)
    /\ UNCHANGED <<net, myClientId, handler, roomInfoMap, forwards, process, history>>

TellOther(s) ==
    /\ At(s, "notify")
    /\ wire' = Sent(wire, otherCws[s], Online(myClientId[s]))
    /\ Goto(s, "receive")
    /\ UNCHANGED <<net, myClientId, handler, r, roomInfoMap, forwards, process, history>>

-----------------------------------------------------------------------------
(* "messageForward".                                                       *)

\* rtcchat.js forwards an offer once it was told of another client, and an
\* answer once an offer came in.
Introduced(s) == \E i \in DOMAIN wire[s] : wire[s][i].cmd \in {"online", "forward"}

\* User 1 learns who the other is only now, by looking the room up again.
RecvForward(s) ==
    /\ Receiving(s)
    /\ Introduced(s)
    /\ forwards[s] < MaxForwards
    /\ forwards' = [forwards EXCEPT ![s] = @ + 1]
    /\ LET e == roomInfoMap[roomName[s]] IN
        IF otherCws[s] = Nil /\ e.users > 0
        THEN /\ otherCws' = [otherCws EXCEPT ![s] = e.cws]
             /\ linkType' = [linkType EXCEPT ![s] = e.linkType]
        ELSE UNCHANGED <<otherCws, linkType>>
    /\ Goto(s, "forward")
    /\ UNCHANGED <<net, myClientId, roomName, userNum, r, roomInfoMap, wire, process, history>>

\* What becomes of the SDP: untouched on a p2p link; on a relayed one it is
\* patched, unless it holds no "typ srflx" entry to patch.
Outcomes(s) == IF linkType[s] = "p2p" THEN {"p2p"} ELSE {"relayed", "unpatched"}

Forward(s) ==
    /\ At(s, "forward")
    /\ otherCws[s] # Nil
    /\ \E m \in Outcomes(s) :
        LET both(w) == Sent(Sent(w, s, Notice(m)), otherCws[s], Notice(m))
            told    == IF userNum[s] < 2 THEN both(wire) ELSE wire
        IN wire' = Sent(told, otherCws[s], Forwarded(s, m))
    /\ Goto(s, "receive")
    /\ UNCHANGED <<net, myClientId, handler, r, roomInfoMap, forwards, process, history>>

\* Send(nil) dereferences the nil connection in a goroutine nobody recovers.
ForwardToNil(s) ==
    /\ At(s, "forward")
    /\ otherCws[s] = Nil
    /\ process' = "panicked"
    /\ UNCHANGED <<pc, net, myClientId, handler, r, roomInfoMap, wire, forwards, history>>

-----------------------------------------------------------------------------
(* The end of a session.                                                   *)

\* (Mutants: the loop is left without an EOF; it is not left on an error.)
RecvEOFUnasked(s) ==
    /\ At(s, "receive")
    /\ wire' = IF otherCws[s] = Nil THEN wire
               ELSE Sent(wire, otherCws[s], Plain("offline"))
    /\ Goto(s, "teardown")
    /\ UNCHANGED <<net, myClientId, handler, r, roomInfoMap, forwards, process, history>>

RecvErrorRetried(s) == At(s, "receive") /\ net[s] = "reset" /\ UNCHANGED vars

\* A clean close is passed on to the other client ...
RecvEOF(s) ==
    /\ At(s, "receive")
    /\ net[s] = "eof"
    /\ wire' = IF otherCws[s] = Nil THEN wire
               ELSE Sent(wire, otherCws[s], Plain("offline"))
    /\ Goto(s, "teardown")
    /\ UNCHANGED <<net, myClientId, handler, r, roomInfoMap, forwards, process, history>>

\* ... any other receive error is not.
RecvError(s) ==
    /\ At(s, "receive")
    /\ net[s] = "reset"
    /\ Goto(s, "teardown")
    /\ UNCHANGED <<net, myClientId, handler, r, roomInfoMap, wire, forwards, process, history>>

HasName(s) == roomName[s] \notin Blank \cup {Nil}

LeaveRead(s) ==
    /\ At(s, "teardown")
    /\ HasName(s)
    /\ r' = [r EXCEPT ![s] = roomInfoMap[roomName[s]]]
    /\ NoteRace(roomName[s])
    /\ Goto(s, "leave")
    /\ UNCHANGED <<net, myClientId, handler, roomInfoMap, wire, forwards, process,
                   asked, crowded>>

\* Who entered no room, or the one of the empty name, gives nothing back.
LeaveNoRoom(s) ==
    /\ At(s, "teardown")
    /\ ~HasName(s)
    /\ EndSession(s)
    /\ UNCHANGED <<net, roomName, roomInfoMap, process, history>>

\* (Mutants: users are counted down from zero; the room is deleted as soon as one
\* of two leaves.)
OneLessOfNone(e) == IF e.users = 1 THEN Absent ELSE [e EXCEPT !.users = @ - 1]
OneLessOfTwo(e) == IF e.users > 2 THEN [e EXCEPT !.users = @ - 1] ELSE Absent

\* "the last user leaving the room must clean up"
OneLess(e) == IF e.users > 1 THEN [e EXCEPT !.users = @ - 1] ELSE Absent

LeaveWrite(s) ==
    /\ At(s, "leave")
    /\ roomInfoMap' = [roomInfoMap EXCEPT ![roomName[s]] = OneLess(r[s])]
    /\ EndSession(s)
    /\ UNCHANGED <<net, roomName, process, history>>

-----------------------------------------------------------------------------
(* The world outside: clients close, networks break, and the Go runtime    *)
(* may abort a process that it catches accessing a map while it is being   *)
(* written.                                                                *)

ClientCloses(s) ==
    /\ process = "up"
    /\ net[s] = "open"
    /\ net' = [net EXCEPT ![s] = "eof"]
    /\ UNCHANGED <<pc, myClientId, handler, r, roomInfoMap, wire, forwards, process, history>>

NetBreaks(s) ==
    /\ process = "up"
    /\ net[s] = "open"
    /\ MayBreak
    /\ net' = [net EXCEPT ![s] = "reset"]
    /\ UNCHANGED <<pc, myClientId, handler, r, roomInfoMap, wire, forwards, process, history>>

AboutToWriteMap(s) == At(s, "store") \/ At(s, "leave")
AboutToReadMap(s)  == \/ MaySubscribe(s)
                      \/ Receiving(s) /\ Introduced(s) /\ otherCws[s] = Nil
                      \/ At(s, "teardown") /\ HasName(s)

MapAbort(s, t) ==
    /\ s # t
    /\ AboutToWriteMap(s)
    /\ AboutToWriteMap(t) \/ AboutToReadMap(t)
    /\ process' = "aborted"
    /\ UNCHANGED <<pc, net, myClientId, handler, r, roomInfoMap, wire, forwards, history>>

-----------------------------------------------------------------------------
Subscribe(s) == \E x \in Rooms, lt \in Asks :
                    SubscribeNew(s, x, lt) \/ SubscribeFound(s, x, lt)

\* Steps a client has to ask for ...
Serve(s) == Open(s) \/ OpenFails(s) \/ RecvConnect(s) \/ Subscribe(s) \/ RecvForward(s)

\* ... and steps the handler takes on its own once it is scheduled.
Continue(s) == \/ TellCreator(s) \/ StoreRoom(s) \/ TellJoiner(s) \/ TellOther(s)
               \/ Forward(s) \/ ForwardToNil(s)
               \/ RecvEOF(s) \/ RecvError(s)
               \/ LeaveRead(s) \/ LeaveNoRoom(s) \/ LeaveWrite(s)

Outside(s) == ClientCloses(s) \/ NetBreaks(s) \/ \E t \in Sessions : MapAbort(s, t)

Next == \E s \in Sessions : Serve(s) \/ Continue(s) \/ Outside(s)

Spec == Init /\ [][Next]_vars

\* The Go scheduler runs every goroutine that can run; clients owe nothing.
Fairness == \A s \in Sessions : WF_vars(Continue(s))

FairSpec == Spec /\ Fairness

-----------------------------------------------------------------------------
(* Properties.                                                             *)

Labels == {"new", "receive", "create", "store", "reply", "notify", "forward",
           "teardown", "leave", "done"}

\* Every variable keeps its type.
TypeOK ==
    /\ pc \in [Sessions -> Labels]
    /\ net \in [Sessions -> {"none", "open", "eof", "reset"}]
    /\ myClientId \in [Sessions -> Sessions \cup {Nil}]
    /\ \A s \in Sessions : myClientId[s] \in {s, Nil}
    /\ roomName \in [Sessions -> Rooms \cup {Nil}]
    /\ linkType \in [Sessions -> LinkTypes \cup {""}]
    /\ otherCws \in [Sessions -> Sessions \cup {Nil}]
    /\ userNum \in [Sessions -> 0..2]
    /\ r \in [Sessions -> Entries]
    /\ roomInfoMap \in [Rooms -> Entries]
    /\ wire \in [Sessions -> Seq(Messages)]
    /\ forwards \in [Sessions -> 0..MaxForwards]
    /\ process \in {"up", "panicked", "aborted"}
    /\ asked \in [Sessions -> LinkTypes \cup {""}]
    /\ raced \in SUBSET Rooms
    /\ crowded \in SUBSET Rooms

\* The sessions that entered room x and have not given it back.
Members(x) == {s \in Sessions :
                  /\ roomName[s] = x
                  /\ pc[s] \in {"receive", "reply", "notify", "forward",
                                "teardown", "leave"}}

Calm(x) == x \notin raced \cup crowded \cup Blank

\* A room with a name, on which no two handlers overlapped and which never had a
\* third visitor, counts its members exactly (rtcSignaling.go:189, 233, 499-508): the
\* entry outlives nobody, and is not deleted under somebody's feet.
UsersCounted == \A x \in Rooms :
    Calm(x) => roomInfoMap[x].users = Cardinality(Members(x))

\* No connection, room entry or message ever crosses from one room into
\* another, however the handlers interleave (the connections a handler keeps
\* past the lookup, rtcSignaling.go:227, 289, are never another room's).
RoomIsolation ==
    /\ \A s \in Sessions : otherCws[s] # Nil => roomName[otherCws[s]] = roomName[s]
    /\ \A x \in Rooms : roomInfoMap[x].cws # Nil => roomName[roomInfoMap[x].cws] = x
    /\ \A s \in Sessions : \A i \in DOMAIN wire[s] :
          wire[s][i].from # Nil => roomName[wire[s][i].from] = roomName[s]

\* A description handled as on a p2p link: sender and receiver both asked for one.
P2PIsMutual ==
    \A s \in Sessions : Calm(roomName[s]) =>
        \A i \in DOMAIN wire[s] :
            wire[s][i].cmd = "forward" /\ wire[s][i].mode = "p2p" =>
                asked[s] = "p2p" /\ asked[wire[s][i].from] = "p2p"

GotForward(s, t, p2p) ==
    \E i \in DOMAIN wire[s] : /\ wire[s][i].cmd = "forward"
                              /\ wire[s][i].from = t
                              /\ (wire[s][i].mode = "p2p") = p2p

\* An offer and its answer are both handled as on a p2p link, or neither is.
SameLinkBothWays ==
    \A s, t \in Sessions : Calm(roomName[s]) =>
        ~(GotForward(s, t, TRUE) /\ GotForward(t, s, FALSE))

\* "both clients use the same linkType now" (rtcSignaling.go:290): in a calm room
\* the server leaves a description alone for its link type only if both asked for
\* p2p, and does the same with the one that answers it, although each handler works
\* with the copy of the link type it took when it subscribed or first forwarded
\* (lines 234-241, 290).  This is about the choice between leaving alone and
\* patching: a description that is to be patched and holds nothing to patch goes
\* out untouched too, whatever was asked ("unpatched", 345-350, 430-434).
LinkAgreement == P2PIsMutual /\ SameLinkBothWays

\* In a calm room a handler that forwards has somebody else to forward to, so
\* Send never gets the nil connection (rtcSignaling.go:285-294, 448).
ForwardHasPeer ==
    \A s \in Sessions : Calm(roomName[s]) /\ pc[s] = "forward" =>
        otherCws[s] \notin {Nil, s}

\* In a calm room nobody is told "offline" while the client it exchanges
\* messages with is still connected (rtcSignaling.go:150-155); rtcchat.js
\* hangs up on that message.
OfflineIsTrue ==
    [][\A s \in Sessions :
          LET news == SubSeq(wire'[s], Len(wire[s]) + 1, Len(wire'[s]))
          IN (\E i \in DOMAIN news : news[i].cmd = "offline") /\ Calm(roomName[s])
                => otherCws[s] = Nil \/ net[otherCws[s]] # "open"]_vars

\* Once its websocket is gone, a session's handler ends (rtcSignaling.go:145-160,
\* 486-521), unless the process died.
SessionEnds ==
    \A s \in Sessions :
        (pc[s] # "done" /\ net[s] \in {"eof", "reset"}) ~> (pc[s] = "done" \/ process # "up")

\* A client that waits in a room hears of whoever joins it (rtcSignaling.go:257-263),
\* unless one of the two goes away or the process dies.
JoinerAnnounced ==
    \A s, t \in Sessions :
        (pc[t] = "store" /\ userNum[t] = 2 /\ otherCws[t] = s)
            ~> \/ process # "up" \/ net[s] # "open" \/ net[t] # "open"
               \/ \E i \in DOMAIN wire[s] : wire[s][i].cmd = "online"

-----------------------------------------------------------------------------
(* What Rendezvous promises of rooms with a name.                           *)

Named == Rooms \ Blank

Promise == INSTANCE Rendezvous WITH
              Rooms <- Named,
              occupants <- [x \in Named |-> Members(x)],
              mode <- [x \in Named |-> roomInfoMap[x].linkType]

Quiet == raced = {} /\ crowded = {}

\* As long as no two handlers overlapped on a room and no third client came, the
\* room table moves as Rendezvous does (rtcSignaling.go:174-268, 486-521).
RoomsKeepPromise ==
    Promise!Init /\ [][Quiet' => [Promise!Next]_(Promise!vars)]_vars

-----------------------------------------------------------------------------
(* What the documentation says, and the program does not do.               *)

Told(s, cmd) == \E i \in DOMAIN wire[s] : wire[s][i].cmd = cmd

\* README.md:100, "Enter the same 'secret word' in both browser tabs. You should
\* see the two instances connect.": when both stay, one is told of the other.
TabsConnect ==
    \A s, t \in Sessions :
        (/\ s # t /\ roomName[s] = roomName[t] /\ roomName[s] # Nil
         /\ net[s] = "open" /\ net[t] = "open")
            ~> \/ process # "up" \/ net[s] # "open" \/ net[t] # "open"
               \/ Told(s, "online") \/ Told(t, "online")
=============================================================================
