----------------------------- MODULE ChatClient -----------------------------
(***************************************************************************)
(* rtcchat.js, one page per session: what it makes of the server's         *)
(* messages, how it counts the clients of its room and so finds its role,  *)
(* the chain of browser callbacks behind an offer and an answer, the       *)
(* five-second alarms, and the data channel that ends the signaling.       *)
(*                                                                         *)
(* The module leaves open where messages come from and go to: outbox is    *)
(* what a page has sent, and the On... operators are given what it reads.  *)
(* ChatSystem composes it with RoomServer.  Left out: stopRing and forRing *)
(* (CallCenter), ICE candidates of the page's own pc1 and pc2 (the handler *)
(* tests e & e.candidate, which is never true), media streams.             *)
(***************************************************************************)
EXTENDS Naturals, Sequences

CONSTANTS Sessions,   \* the pages, named like their websocket sessions
          Typists,    \* pages opened without a room: the user types it in
          Moz         \* pages in a Firefox, which makes its channel at "ready"

VARIABLES
    websocket,     \* "none" until onopen, "open", "null" once hung up, "gone" with its page
    subscribed,    \* "no", "early" (before the page had a clientId), "yes"
    clientId,      \* is it known?
    clientCount, IAmUser,
    localOffer,    \* is it set?
    webrtcDataChannel,
    offer,         \* how far the offer and its callbacks got
    answer,        \* how far the answer and its callbacks got
    alarms,        \* window.setTimeout(..., 5000) that have not fired and still may tell
    told,          \* has the user been shown that something is wrong?
    outbox         \* what the page sent and the server has not received

role == <<clientId, clientCount, IAmUser>>
link == <<localOffer, webrtcDataChannel, offer, answer>>
pageVars == <<websocket, subscribed, role, link, alarms, told, outbox>>

OfferSteps  == {"no", "nochannel", "creating", "describing", "sent", "unsent",
                "settling", "answered", "refused", "failed"}
AnswerSteps == {"no", "hearing", "creating", "describing", "sent", "unsent", "failed"}

PageTypeOK ==
    /\ websocket \in [Sessions -> {"none", "open", "null", "gone"}]
    /\ subscribed \in [Sessions -> {"no", "early", "yes"}]
    /\ clientId \in [Sessions -> BOOLEAN]
    /\ clientCount \in [Sessions -> Nat]
    /\ IAmUser \in [Sessions -> 0..2]
    /\ localOffer \in [Sessions -> BOOLEAN]
    /\ webrtcDataChannel \in [Sessions -> {"none", "pc1", "pc2", "open"}]
    /\ offer \in [Sessions -> OfferSteps]
    /\ answer \in [Sessions -> AnswerSteps]
    /\ alarms \in [Sessions -> SUBSET {"id", "offer", "answer"}]
    /\ told \in [Sessions -> BOOLEAN]
    /\ outbox \in [Sessions -> Seq({"connect", "subscribe", "offer", "answer"})]

PageInit ==
    /\ websocket = [s \in Sessions |-> "none"]
    /\ subscribed = [s \in Sessions |-> "no"]
    /\ clientId = [s \in Sessions |-> FALSE]
    /\ clientCount = [s \in Sessions |-> 0]
    /\ IAmUser = [s \in Sessions |-> 0]
    /\ localOffer = [s \in Sessions |-> FALSE]
    /\ webrtcDataChannel = [s \in Sessions |-> "none"]
    /\ offer = [s \in Sessions |-> "no"]
    /\ answer = [s \in Sessions |-> "no"]
    /\ alarms = [s \in Sessions |-> {}]
    /\ told = [s \in Sessions |-> FALSE]
    /\ outbox = [s \in Sessions |-> <<>>]

Send(s, command) == outbox' = [outbox EXCEPT ![s] = Append(@, command)]
SetAlarm(s, a)   == alarms' = [alarms EXCEPT ![s] = @ \cup {a}]
Tell(s)          == told' = [told EXCEPT ![s] = TRUE]
Live(s)          == websocket[s] \in {"open", "null"}

\* (Mutant: the variable is not set to null.)
HangUpOnly(s) == websocket' = [websocket EXCEPT ![s] = IF @ = "open" THEN "closing" ELSE @]

\* websocket.close(); websocket = null
HangUp(s) == websocket' = [websocket EXCEPT ![s] = IF @ = "open" THEN "null" ELSE @]

-----------------------------------------------------------------------------
(* From onopen to the room.                                                *)

OnOpen(s) ==
    /\ websocket[s] = "none"
    /\ websocket' = [websocket EXCEPT ![s] = "open"]
    /\ SetAlarm(s, "id")
    /\ UNCHANGED <<subscribed, role, link, told, outbox>>

\* (Mutant: the form can be sent again.)
SetRoomAgain(s) ==
    /\ s \in Typists
    /\ websocket[s] = "open"
    /\ subscribed' = [subscribed EXCEPT ![s] = IF clientId[s] THEN "yes" ELSE "early"]
    /\ Send(s, "subscribe")
    /\ UNCHANGED <<websocket, role, link, alarms, told>>

\* The user types the room in, and perhaps before the page has a clientId.
SetRoom(s) ==
    /\ s \in Typists
    /\ websocket[s] = "open"
    /\ subscribed[s] = "no"
    /\ subscribed' = [subscribed EXCEPT ![s] = IF clientId[s] THEN "yes" ELSE "early"]
    /\ Send(s, "subscribe")
    /\ UNCHANGED <<websocket, role, link, alarms, told>>

OnConnect(s) ==
    /\ Send(s, "connect")
    /\ UNCHANGED <<websocket, subscribed, role, link, alarms, told>>

\* createDataChannel may throw or return null, and throws if there is no pc1.
pc1CreateDataChannel(s) ==
    \/ webrtcDataChannel' = [webrtcDataChannel EXCEPT ![s] = "pc1"]
    \/ UNCHANGED webrtcDataChannel

\* The clientId, the subscription if the room came with the URL, pc1 and pc2.
OnReady(s) ==
    /\ clientId' = [clientId EXCEPT ![s] = TRUE]
    /\ IF s \in Typists
       THEN UNCHANGED <<outbox, subscribed>>
       ELSE Send(s, "subscribe") /\ subscribed' = [subscribed EXCEPT ![s] = "yes"]
    /\ IF s \in Moz THEN pc1CreateDataChannel(s) ELSE UNCHANGED webrtcDataChannel
    /\ alarms' = [alarms EXCEPT ![s] = @ \ {"id"}]
    /\ UNCHANGED <<websocket, clientCount, IAmUser, localOffer, offer, answer, told>>

-----------------------------------------------------------------------------
(* The clients of the room, and the role that follows from their number.   *)

\* (Mutant: the page counts itself before the others.)
OnRoomClientsMeFirst(s, others) ==
    /\ clientCount' = [clientCount EXCEPT ![s] = others + 1]
    /\ IAmUser' = [IAmUser EXCEPT ![s] = IF others = 0 THEN @ ELSE IF clientId[s] THEN 1 ELSE 2]
    /\ UNCHANGED <<websocket, subscribed, clientId, link, alarms, told, outbox>>

\* The list starts anew: the others, then the page itself if it has a clientId.
\* Adding the one other client first makes a count of 1, which means user 2.
OnRoomClients(s, others) ==
    /\ clientCount' = [clientCount EXCEPT ![s] = others + (IF clientId[s] THEN 1 ELSE 0)]
    /\ IAmUser' = [IAmUser EXCEPT ![s] = IF others > 0 THEN 2 ELSE @]
    /\ UNCHANGED <<websocket, subscribed, clientId, link, alarms, told, outbox>>

\* (Mutant: without an alarm.)
StartOfferOnly(s) ==
    /\ offer' = [offer EXCEPT ![s] = "creating"]
    /\ localOffer' = [localOffer EXCEPT ![s] = FALSE]
    /\ UNCHANGED alarms

StartOffer(s) ==
    /\ offer' = [offer EXCEPT ![s] = "creating"]
    /\ localOffer' = [localOffer EXCEPT ![s] = FALSE]
    /\ SetAlarm(s, "offer")

\* (Mutant: a page starts an offer without a role.)
OnOnlineRoleKept(s) ==
    /\ clientCount' = [clientCount EXCEPT ![s] = @ + 1]
    /\ IF s \in Moz THEN UNCHANGED webrtcDataChannel ELSE pc1CreateDataChannel(s)
    /\ StartOffer(s)
    /\ UNCHANGED <<websocket, subscribed, clientId, IAmUser, answer, told, outbox>>

\* addClient for somebody else: the second client makes this page user 1, who
\* offers if it has, or in Chrome now gets, a data channel.
OnOnline(s) ==
    /\ clientCount' = [clientCount EXCEPT ![s] = @ + 1]
    /\ IF clientCount[s] + 1 = 2
       THEN /\ IAmUser' = [IAmUser EXCEPT ![s] = 1]
            /\ IF s \notin Moz /\ clientId[s]
               THEN pc1CreateDataChannel(s) ELSE UNCHANGED webrtcDataChannel
            /\ IF webrtcDataChannel'[s] # "none"
               THEN StartOffer(s)
               ELSE /\ offer' = [offer EXCEPT ![s] = "nochannel"]
                    /\ UNCHANGED <<localOffer, alarms>>
       ELSE /\ IAmUser' = [IAmUser EXCEPT ![s] = 2]
            /\ UNCHANGED <<link, alarms>>
    /\ UNCHANGED <<websocket, subscribed, clientId, answer, told, outbox>>

\* The other client left the server, which may well be because the link is up.
OnOffline(s) ==
    /\ IF clientCount[s] > 0
       THEN clientCount' = [clientCount EXCEPT ![s] = @ - 1] /\ HangUp(s)
       ELSE UNCHANGED <<clientCount, websocket>>
    /\ UNCHANGED <<subscribed, clientId, IAmUser, link, alarms, told, outbox>>

-----------------------------------------------------------------------------
(* A forwarded session description.  The browser refuses an answer where   *)
(* it needs an offer, and the other way round.                             *)

\* webrtcDisconnect: a line in the chat log, and no channel any more.
webrtcDisconnect(s) ==
    /\ webrtcDataChannel' = [webrtcDataChannel EXCEPT ![s] = "none"]
    /\ Tell(s)

TakeOffer(s, kind) ==
    /\ localOffer' = [localOffer EXCEPT ![s] = FALSE]
    /\ answer' = [answer EXCEPT ![s] = IF kind = "offer" THEN "hearing" ELSE "failed"]
    /\ SetAlarm(s, "answer")
    /\ UNCHANGED <<websocket, subscribed, role, webrtcDataChannel, offer, told, outbox>>

TakeAnswer(s, kind) ==
    /\ IF kind = "answer"
       THEN /\ offer' = [offer EXCEPT ![s] = "settling"]
            /\ UNCHANGED <<webrtcDataChannel, told>>
       ELSE /\ offer' = [offer EXCEPT ![s] = "refused"]
            /\ webrtcDisconnect(s)
    /\ UNCHANGED <<websocket, subscribed, role, localOffer, answer, alarms, outbox>>

\* Without a role the page only logs what it got.
OnForward(s, kind) ==
    IF IAmUser[s] = 2 THEN TakeOffer(s, kind)
    ELSE IF IAmUser[s] = 1 THEN TakeAnswer(s, kind) ELSE UNCHANGED pageVars

-----------------------------------------------------------------------------
(* The browser's callbacks.  createOffer's "may not be called!!!", and so   *)
(* with those before localOffer is set for an answer.                      *)

OfferCreated(s) ==
    /\ Live(s) /\ offer[s] = "creating"
    /\ \/ /\ offer' = [offer EXCEPT ![s] = "describing"]
          /\ localOffer' = [localOffer EXCEPT ![s] = TRUE]
       \/ /\ offer' = [offer EXCEPT ![s] = "failed"]
          /\ UNCHANGED localOffer
    /\ UNCHANGED <<websocket, subscribed, role, webrtcDataChannel, answer, alarms,
                   told, outbox>>

AnswerCreated(s) ==
    /\ Live(s)
    /\ \/ /\ answer[s] = "hearing"
          /\ answer' = [answer EXCEPT ![s] = "creating"]
          /\ UNCHANGED localOffer
       \/ /\ answer[s] = "creating"
          /\ answer' = [answer EXCEPT ![s] = "describing"]
          /\ localOffer' = [localOffer EXCEPT ![s] = TRUE]
       \/ /\ answer[s] \in {"hearing", "creating"}
          /\ answer' = [answer EXCEPT ![s] = "failed"]
          /\ UNCHANGED localOffer
    /\ UNCHANGED <<websocket, subscribed, role, webrtcDataChannel, offer, alarms,
                   told, outbox>>

\* The description is sent if the websocket is still there, or the user is told.
SendOrTell(s, step, kind) ==
    IF websocket[s] = "open"
    THEN step' = [step EXCEPT ![s] = "sent"] /\ Send(s, kind) /\ UNCHANGED told
    ELSE step' = [step EXCEPT ![s] = "unsent"] /\ Tell(s) /\ UNCHANGED outbox

\* setLocalDescription calls back, or fails with no more than a console.warn.
Described(s, step, kind) ==
    /\ Live(s) /\ step[s] = "describing"
    /\ \/ SendOrTell(s, step, kind)
       \/ step' = [step EXCEPT ![s] = "failed"] /\ UNCHANGED <<told, outbox>>

OfferDescribed(s) ==
    /\ Described(s, offer, "offer")
    /\ UNCHANGED <<websocket, subscribed, role, localOffer, webrtcDataChannel, answer, alarms>>

AnswerDescribed(s) ==
    /\ Described(s, answer, "answer")
    /\ UNCHANGED <<websocket, subscribed, role, localOffer, webrtcDataChannel, offer, alarms>>

AnswerSettled(s) ==
    /\ Live(s) /\ offer[s] = "settling"
    /\ \/ offer' = [offer EXCEPT ![s] = "answered"] /\ UNCHANGED <<webrtcDataChannel, told>>
       \/ offer' = [offer EXCEPT ![s] = "refused"] /\ webrtcDisconnect(s)
    /\ UNCHANGED <<websocket, subscribed, role, localOffer, answer, alarms, outbox>>

\* An alarm looks at the page as it is by then.
AlarmFires(s) ==
    /\ Live(s)
    /\ \E a \in alarms[s] :
        /\ alarms' = [alarms EXCEPT ![s] = @ \ {a}]
        /\ IF IF a = "id" THEN clientId[s] ELSE localOffer[s]
           THEN UNCHANGED told ELSE Tell(s)
    /\ UNCHANGED <<websocket, subscribed, role, link, outbox>>

-----------------------------------------------------------------------------
(* The data channel.                                                       *)

\* Both sides have both descriptions.
Agreed(s, t) == offer[s] = "answered" /\ answer[t] = "sent"

OnDataChannel(t) ==
    /\ Live(t)
    /\ \E s \in Sessions : Agreed(s, t) /\ webrtcDataChannel[s] # "none"
    /\ webrtcDataChannel[t] \in {"none", "pc1"} /\ IAmUser[t] = 2
    /\ webrtcDataChannel' = [webrtcDataChannel EXCEPT ![t] = "pc2"]
    /\ UNCHANGED <<websocket, subscribed, role, localOffer, offer, answer, alarms, told, outbox>>

\* (Mutant: the websocket is kept.)
OnChannelOpenStaying(s) ==
    /\ Live(s)
    /\ \/ webrtcDataChannel[s] = "pc1" /\ \E t \in Sessions : Agreed(s, t)
       \/ webrtcDataChannel[s] = "pc2"
    /\ webrtcDataChannel' = [webrtcDataChannel EXCEPT ![s] = "open"]
    /\ UNCHANGED <<websocket, subscribed, role, localOffer, offer, answer, alarms, told, outbox>>

\* "now is a good time to force disconnect from signaling server"
OnChannelOpen(s) ==
    /\ Live(s)
    /\ \/ webrtcDataChannel[s] = "pc1" /\ \E t \in Sessions : Agreed(s, t)
       \/ webrtcDataChannel[s] = "pc2"
    /\ webrtcDataChannel' = [webrtcDataChannel EXCEPT ![s] = "open"]
    /\ HangUp(s)
    /\ UNCHANGED <<subscribed, role, localOffer, offer, answer, alarms, told, outbox>>

OnChannelClose(s) ==
    /\ Live(s)
    /\ webrtcDataChannel[s] \in {"pc2", "open"}
    /\ webrtcDisconnect(s)
    /\ UNCHANGED <<websocket, subscribed, role, localOffer, offer, answer, alarms, outbox>>

\* The user leaves the page, and all but what it sent is gone.
Unload(s) ==
    /\ Live(s)
    /\ websocket' = [websocket EXCEPT ![s] = "gone"]
    /\ clientId' = [clientId EXCEPT ![s] = FALSE]
    /\ clientCount' = [clientCount EXCEPT ![s] = 0]
    /\ IAmUser' = [IAmUser EXCEPT ![s] = 0]
    /\ localOffer' = [localOffer EXCEPT ![s] = FALSE]
    /\ webrtcDataChannel' = [webrtcDataChannel EXCEPT ![s] = "none"]
    /\ offer' = [offer EXCEPT ![s] = "no"]
    /\ answer' = [answer EXCEPT ![s] = "no"]
    /\ alarms' = [alarms EXCEPT ![s] = {}]
    /\ told' = [told EXCEPT ![s] = FALSE]
    /\ UNCHANGED <<subscribed, outbox>>

-----------------------------------------------------------------------------
\* Events a page may wait for in vain ...
PageMay(s) == SetRoom(s) \/ OfferCreated(s) \/ AnswerCreated(s) \/ OnDataChannel(s)
              \/ OnChannelOpen(s) \/ OnChannelClose(s)

\* ... and those the browser owes it.
PageMust(s) == OfferDescribed(s) \/ AnswerDescribed(s) \/ AnswerSettled(s) \/ AlarmFires(s)
=============================================================================
