----------------------------- MODULE ChatSystem -----------------------------
(***************************************************************************)
(* Chat pages and the room server, composed: RoomServer's handlers take    *)
(* their commands from what ChatClient's pages really send, and the pages  *)
(* read what the handlers really wrote.  A page that hangs up or is left   *)
(* closes its websocket; what it sent before is still delivered.           *)
(***************************************************************************)
EXTENDS RoomServer

CONSTANT Moz  \* pages in a Firefox

ASSUME MozAssumption == Moz \subseteq Sessions

VARIABLES websocket, subscribed, clientId, clientCount, IAmUser, localOffer,
          webrtcDataChannel, offer, answer, alarms, told, outbox,
          read,       \* how many messages of its wire each page has read
          forwarded   \* the kinds of descriptions each handler passed on, in order

Page == INSTANCE ChatClient WITH Typists <- Hasty

role == <<clientId, clientCount, IAmUser>>
link == <<localOffer, webrtcDataChannel, offer, answer>>
pageVars == <<websocket, subscribed, role, link, alarms, told, outbox>>
chatVars == <<vars, pageVars, read, forwarded>>

ChatInit ==
    /\ Init
    /\ Page!PageInit
    /\ read = [s \in Sessions |-> 0]
    /\ forwarded = [s \in Sessions |-> <<>>]

-----------------------------------------------------------------------------
(* The server's side.                                                      *)

PageOpens(s) ==
    /\ Open(s) \/ OpenFails(s)
    /\ Page!OnOpen(s)
    /\ UNCHANGED <<read, forwarded>>

IsCommand(s, commands) == outbox[s] # <<>> /\ Head(outbox[s]) \in commands

\* The handler receives the oldest command that it has not taken yet.
ServerTakes(s) ==
    /\ \/ IsCommand(s, {"connect"}) /\ RecvConnect(s) /\ UNCHANGED forwarded
       \/ IsCommand(s, {"subscribe"}) /\ Subscribe(s) /\ UNCHANGED forwarded
       \/ /\ IsCommand(s, {"offer", "answer"})
          /\ RecvForward(s)
          /\ forwarded' = [forwarded EXCEPT ![s] = Append(@, Head(outbox[s]))]
    /\ outbox' = [outbox EXCEPT ![s] = Tail(@)]
    /\ UNCHANGED <<websocket, subscribed, role, link, alarms, told, read>>

\* The EOF of a clean close comes after everything that was sent.
ServerContinues(s) ==
    /\ pc[s] = "receive" /\ net[s] = "eof" => outbox[s] = <<>>
    /\ Continue(s)
    /\ UNCHANGED <<pageVars, read, forwarded>>

-----------------------------------------------------------------------------
(* The pages' side.                                                        *)

\* What a page does to its websocket closes the connection, if it still is one.
\* (The pages of a server that died are left out.)
ConnectionFollows(s) ==
    /\ process = "up"
    /\ net' = IF websocket[s] = "open" /\ websocket'[s] # "open" /\ net[s] = "open"
              THEN [net EXCEPT ![s] = "eof"] ELSE net
    /\ UNCHANGED <<pc, myClientId, handler, r, roomInfoMap, wire, forwards,
                   process, history, forwarded>>

\* The kind of the forwarded description at place i of what s was sent: the
\* n-th from its sender is the n-th that the sender's handler passed on.
Kind(s, i) ==
    LET from == wire[s][i].from
        n == Cardinality({j \in 1..i : wire[s][j].cmd = "forward" /\ wire[s][j].from = from})
    IN forwarded[from][n]

\* The list names the creator, whoever it is now, to a joiner, and nobody to
\* the creator itself.
Others(s) == IF userNum[s] = 2 THEN 1 ELSE 0

Handles(s, i) ==
    LET cmd == wire[s][i].cmd IN
    \/ cmd = "connect"     /\ Page!OnConnect(s)
    \/ cmd = "ready"       /\ Page!OnReady(s)
    \/ cmd = "roomclients" /\ Page!OnRoomClients(s, Others(s))
    \/ cmd = "online"      /\ Page!OnOnline(s)
    \/ cmd = "offline"     /\ Page!OnOffline(s)
    \/ cmd = "notice"      /\ UNCHANGED pageVars
    \/ cmd = "forward"     /\ Page!OnForward(s, Kind(s, i))

\* A page reads its messages in order while both ends are there.
PageReads(s) ==
    /\ websocket[s] = "open" /\ net[s] = "open"
    /\ read[s] < Len(wire[s])
    /\ read' = [read EXCEPT ![s] = @ + 1]
    /\ Handles(s, read[s] + 1)
    /\ ConnectionFollows(s)

PageMay(s)  == (Page!PageMay(s) \/ Page!Unload(s)) /\ ConnectionFollows(s) /\ UNCHANGED read
PageMust(s) == Page!PageMust(s) /\ ConnectionFollows(s) /\ UNCHANGED read

Breaks(s) ==
    /\ NetBreaks(s) \/ \E t \in Sessions : MapAbort(s, t)
    /\ UNCHANGED <<pageVars, read, forwarded>>

-----------------------------------------------------------------------------
ChatNext == \E s \in Sessions :
    \/ PageOpens(s) \/ ServerTakes(s) \/ ServerContinues(s)
    \/ PageReads(s) \/ PageMay(s) \/ PageMust(s) \/ Breaks(s)

\* The scheduler runs a handler that can run, also one that only has to take
\* a command; the browser delivers messages, fires timers, and calls one of
\* the callbacks of setLocalDescription and setRemoteDescription.
ChatFairness == \A s \in Sessions :
    /\ WF_chatVars(ServerTakes(s) \/ ServerContinues(s))
    /\ WF_chatVars(PageReads(s) \/ PageMust(s))

ChatSpec == ChatInit /\ [][ChatNext]_chatVars /\ ChatFairness

-----------------------------------------------------------------------------
(* Properties.                                                             *)

ChatTypeOK ==
    /\ TypeOK
    /\ Page!PageTypeOK
    /\ \A s \in Sessions : read[s] \in Nat /\ forwarded[s] \in Seq({"offer", "answer"})

Visitors(x) == {s \in Sessions : roomName[s] = x}

\* The only two clients room x ever had, whose handlers never overlapped and who
\* did not subscribe before their page had a clientId.
PairIn(x) ==
    /\ Cardinality(Visitors(x)) = 2
    /\ x \notin raced
    /\ \A s \in Visitors(x) : subscribed[s] = "yes"

\* No third client ever entered room x.
ForTwo(x) == \E s, t \in Sessions : Visitors(x) \subseteq {s, t}

\* Two pages that have a room to themselves never take the same role, although
\* each finds its own by counting messages (rtcchat.js:426-459, 590-659): one of
\* them offers, and the other one answers, also if their handlers overlap.  (Pages
\* that subscribed before they had a clientId do take the same role.)
RolesDiffer ==
    \A x \in Rooms : \A s, t \in Visitors(x) :
        /\ s # t /\ Visitors(x) = {s, t}
        /\ subscribed[s] = "yes" /\ subscribed[t] = "yes"
        /\ IAmUser[s] # 0
        => IAmUser[s] # IAmUser[t]

\* RoomServer's assumptions about its clients are what rtcchat.js guarantees,
\* also of clients that overlap or subscribe early: no handler receives a second
\* connect or subscribe, or a description from a page that was told of nobody,
\* and in a room for two it receives one description only.
CommandsFit ==
    \A s \in Sessions : Receiving(s) /\ outbox[s] # <<>> =>
        /\ Head(outbox[s]) = "connect" => myClientId[s] = Nil
        /\ Head(outbox[s]) = "subscribe" => MaySubscribe(s)
        /\ Head(outbox[s]) \in {"offer", "answer"} =>
              Introduced(s) /\ (ForTwo(roomName[s]) => forwards[s] = 0)

\* A page of a room for two that reads a description has, by then, the role the
\* description is meant for (rtcchat.js:484, 530): offers are never taken for
\* answers.
DescriptionsFit ==
    [][\A s \in Sessions :
          /\ ForTwo(roomName[s])
          /\ read'[s] = read[s] + 1 /\ wire[s][read'[s]].cmd = "forward"
          => IAmUser[s] = IF Kind(s, read'[s]) = "offer" THEN 2 ELSE 1]_chatVars

Lost(s) == websocket[s] = "gone" \/ net[s] = "reset"

\* What fails with a console.warn only: no data channel, or setLocalDescription.
FailsSilently(s) ==
    \/ offer[s] = "nochannel"
    \/ localOffer[s] /\ (offer[s] = "failed" \/ answer[s] = "failed")

\* No pair waits in silence (rtcchat.js:627 "can't wait forever for a response to
\* our offer!"): in the end the answer is in place or one of the two users was
\* told that something is wrong, unless somebody left, or the browser failed in
\* a way that the code only logs.
PairSettles ==
    \A x \in Rooms :
        (PairIn(x) /\ \E s \in Visitors(x) : pc[s] = "reply")
            ~> \/ process # "up"
               \/ \E s \in Visitors(x) :
                     offer[s] = "answered" \/ told[s] \/ Lost(s) \/ FailsSilently(s)

BothOpen(x) == \A s \in Visitors(x) : webrtcDataChannel[s] = "open"

\* Once a pair's link is up both pages hang up, and the server gives the room's name
\* back (rtcchat.js:208-213, rtcSignaling.go:496-513), provided that one handler had
\* written what it read of the entry before the other one read it.  Pages hang up
\* when their channel opens, both at about the same time, so the other case is
\* common (EveryRoomIsFreed); what this says is that nothing but that overlap,
\* neither the order of hanging up nor alarms or broken connections, keeps a room.
RoomIsFreed ==
    \A x \in Rooms :
        (PairIn(x) /\ BothOpen(x))
            ~> \/ process # "up" \/ roomInfoMap[x].users = 0
               \/ x \in raced \/ ~ForTwo(x)

-----------------------------------------------------------------------------
(* What a comment says, and the program does not do.                       *)

\* rtcSignaling.go:497, "the last user leaving the room must clean up": the room of
\* a pair whose link is up becomes free.
EveryRoomIsFreed ==
    \A x \in Rooms :
        (PairIn(x) /\ BothOpen(x))
            ~> process # "up" \/ ~ForTwo(x) \/ roomInfoMap[x].users = 0
=============================================================================
