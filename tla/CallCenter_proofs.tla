-------------------------- MODULE CallCenter_proofs --------------------------
(***************************************************************************)
(* What CallCenter.tla keeps for any number of pages, connections, keys,   *)
(* callers and sessions: the map of callees holds nobody whose handler has *)
(* ended, and no page rings for a call to another key.                     *)
(***************************************************************************)
EXTENDS CallCenter, SequenceTheorems, TLAPS

Nets  == {"none", "opening", "open", "eof", "reset"}
Pcs   == {"none", "receive", "done"}
Ats   == {"away", "unavailable", "form", "calling", "chatting", "left"}
Wires == {"none", "open", "broken", "closed"}
Lines == {"none", "receive", "called", "found", "offered", "invited", "done", "leaked"}
Chats == {"none", "open", "ringing", "done"}

\* TypeOK in three parts, one for each group of variables that steps change.
PageTypes ==
    /\ key \in [Pages -> Keys]
    /\ page \in [Pages -> {"open", "closed"}]
    /\ socket \in [Pages -> Conns \cup {Nil}]
    /\ told \in [Pages -> Conns \cup {Nil}]
    /\ links \in [Pages -> SUBSET Sessions]
    /\ rings \in [Pages -> SUBSET Sessions]
    /\ answer \in [Sessions -> {"none", "sent", "done"}]

ConnTypes ==
    /\ owner \in [Conns -> Pages \cup {Nil}]
    /\ net \in [Conns -> Nets]
    /\ announces \in [Conns -> Nat]
    /\ inbox \in [Conns -> Seq(Messages)]
    /\ pc \in [Conns -> Pcs]
    /\ callerKey \in [Conns -> Keys \cup {Nil}]
    /\ CalleeMap \in [Keys -> Conns \cup {Nil}]
    /\ process \in {"up", "aborted"}

CallerTypes ==
    /\ at \in [Callers -> Ats]
    /\ dialed \in [Callers -> Keys \cup {Nil}]
    /\ phone \in [Callers -> Sessions \cup {Nil}]
    /\ room \in [Callers -> Sessions \cup {Nil}]
    /\ caller \in [Sessions -> Callers \cup {Nil}]
    /\ wire \in [Sessions -> Wires]
    /\ line \in [Sessions -> Lines]
    /\ callerName \in [Sessions -> Names \cup {""}]
    /\ calleeCws \in [Sessions -> Conns \cup {Nil}]
    /\ chat \in [Callers -> Chats]
    /\ forRingCws \in [Callers -> Conns \cup {Nil}]

LEMMA Types == TypeOK <=> PageTypes /\ ConnTypes /\ CallerTypes
  BY DEF TypeOK, PageTypes, ConnTypes, CallerTypes, Nets, Pcs, Ats, Wires, Lines, Chats

\* A connection belongs to a page from the moment it is opened, and a handler
\* knows no other key than its page's.
ConnInv == \A c \in Conns :
    /\ owner[c] = Nil => /\ pc[c] = "none" /\ net[c] = "none"
                         /\ inbox[c] = <<>> /\ callerKey[c] = Nil
    /\ net[c] = "opening" => pc[c] = "none"
    /\ callerKey[c] # Nil => pc[c] = "receive" /\ callerKey[c] = key[owner[c]]

\* A connection in the map is one whose handler runs, under the key it announced.
MapInv == \A k \in Keys : CalleeMap[k] # Nil =>
    pc[CalleeMap[k]] = "receive" /\ callerKey[CalleeMap[k]] = k

\* Connection c, if it is one, leads to a page with key k.
Reaches(c, k) == c # Nil => owner[c] \in Pages /\ k = key[owner[c]]

\* A page dials before anything else, its websockets, its room and its ring are
\* its own ...
CallerInv == \A x \in Callers :
    /\ at[x] = "away" => dialed[x] = Nil
    /\ at[x] \in {"form", "calling"} => dialed[x] \in Keys
    /\ phone[x] # Nil => caller[phone[x]] = x
    /\ room[x] # Nil => caller[room[x]] = x
    /\ chat[x] # "none" => room[x] # Nil
    /\ Reaches(forRingCws[x], dialed[x])

\* ... and a session looks up what its page dialed.
SessionInv == \A s \in Sessions :
    /\ caller[s] # Nil => dialed[caller[s]] \in Keys
    /\ line[s] # "none" => caller[s] # Nil
    /\ line[s] = "found" => calleeCws[s] \in Conns
    /\ Reaches(calleeCws[s], Dialed(s))

InboxInv == \A c \in Conns : \A i \in DOMAIN inbox[c] :
    inbox[c][i].from # Nil => Dialed(inbox[c][i].from) = key[owner[c]]
LinksInv == \A p \in Pages : \A s \in links[p] \cup rings[p] : Dialed(s) = key[p]

CallsInv == TypeOK /\ ConnInv /\ MapInv /\ CallerInv /\ SessionInv /\ InboxInv /\ LinksInv

LEMMA Fresh == /\ Nil \notin Pages /\ Nil \notin Conns /\ Nil \notin Keys
               /\ Nil \notin Callers /\ Nil \notin Sessions /\ "undefined" \notin Keys
  BY NilAssumption, KeysAssumption

LEMMA InitCalls == Init => CallsInv
  <1> SUFFICES ASSUME Init PROVE CallsInv
    OBVIOUS
  <1>1. PageTypes
    BY DEF Init, PageTypes
  <1>2. ConnTypes
    <2>1. inbox = [c \in Conns |-> <<>>]
      BY DEF Init
    <2>2. inbox \in [Conns -> Seq(Messages)]
      BY <2>1
    <2> QED BY <2>2 DEF Init, ConnTypes, Nets, Pcs
  <1>3. CallerTypes
    BY DEF Init, CallerTypes, Ats, Wires, Lines, Chats
  <1>4. ConnInv
    BY DEF Init, ConnInv
  <1>5. MapInv
    BY DEF Init, MapInv
  <1>6. CallerInv /\ SessionInv
    BY DEF Init, CallerInv, SessionInv, Reaches
  <1>7. InboxInv
    <2>1. inbox = [c \in Conns |-> <<>>]
      BY DEF Init
    <2>2. DOMAIN << >> = {}
      OBVIOUS
    <2> QED BY <2>1, <2>2 DEF InboxInv
  <1>8. LinksInv
    BY DEF Init, LinksInv
  <1> QED BY <1>1, <1>2, <1>3, <1>4, <1>5, <1>6, <1>7, <1>8, Types DEF CallsInv

-----------------------------------------------------------------------------
\* The steps, grouped by what they change.
Connects   == \E p \in Pages, c \in Conns : Connect(p, c)
Openings   == \E c \in Conns : Opens(c) \/ OpenFails(c)
Announces  == \E c \in Conns : RecvAnnounce(c)
Ends       == \E c \in Conns : EndCallee(c)
PageShows  == \E c \in Conns : ShowCallerKey(c) \/ ShowCall(c) \/ CallThrows(c) \/ StopRing(c)
PageClicks == \E p \in Pages : Mute(p) \/ \E s \in Sessions : Answer(p, s)
Answered   == \E s \in Sessions : RecvStopRing(s)
Cuts       == (\E p \in Pages : ClosePage(p)) \/ (\E c \in Conns : NetBreaks(c))
Loads      == \E x \in Callers, s \in Sessions :
                  Redial(x, s) \/ \E k \in Keys : LoadForm(x, k, s)
Finds      == \E s \in Sessions : RecvCall(s)
Sends      == \E s \in Sessions : SendRoom(s)
Hangs      == \E x \in Callers : EndChat(x)
Rings      == \E x \in Callers : RecvForRing(x)
Serves     == \E s \in Sessions :
    RecvCallMisses(s) \/ SendRoomFails(s) \/ Invite(s) \/ EndCaller(s) \/ WireBreaks(s)
Moves      == \E x \in Callers :
    \/ \E k \in Keys : LoadUnavailable(x, k)
    \/ \E name \in Names : MakeCall(x, name)
    \/ \E s \in Sessions : EnterRoom(x, s)
    \/ CallerLeaves(x)
Aborts     == \E c \in Conns : MapAbort(c)

LEMMA Cases ==
    [Next]_vars => \/ Connects \/ Openings \/ Announces \/ Ends \/ PageShows \/ PageClicks
                   \/ Answered \/ Cuts \/ Loads \/ Finds \/ Sends \/ Hangs \/ Rings
                   \/ Serves \/ Moves \/ Aborts \/ UNCHANGED vars
  <1> SUFFICES ASSUME Next
               PROVE  \/ Connects \/ Openings \/ Announces \/ Ends \/ PageShows \/ PageClicks
                      \/ Answered \/ Cuts \/ Loads \/ Finds \/ Sends \/ Hangs \/ Rings
                      \/ Serves \/ Moves \/ Aborts
    OBVIOUS
  <1>1. ASSUME NEW p \in Pages, CalleeDoes(p) PROVE Connects \/ PageClicks \/ Cuts
    BY <1>1 DEF CalleeDoes, Connects, PageClicks, Cuts
  <1>2. ASSUME NEW c \in Conns, Handle(c) \/ PageReads(c) \/ NetDoes(c)
        PROVE Announces \/ Ends \/ PageShows \/ Openings \/ Cuts \/ Aborts
    BY <1>2 DEF Handle, PageReads, NetDoes, Announces, Ends, PageShows, Openings, Cuts, Aborts
  <1>3. ASSUME NEW s \in Sessions, ServeCall(s) \/ ServeAnswer(s) \/ (Up /\ WireBreaks(s))
        PROVE Answered \/ Finds \/ Sends \/ Serves
    BY <1>3 DEF ServeCall, ServeAnswer, Answered, Finds, Sends, Serves
  <1>4. ASSUME NEW x \in Callers, CallerReads(x) \/ ServeChat(x) \/ CallerDoes(x)
        PROVE Loads \/ Hangs \/ Rings \/ Moves
    <2>1. CASE CallerReads(x) \/ ServeChat(x)
      BY <2>1 DEF CallerReads, ServeChat, Moves, Hangs, Rings
    <2>2. CASE CallerDoes(x)
      BY <2>2 DEF CallerDoes, Loads, Moves
    <2> QED BY <1>4, <2>1, <2>2
  <1> QED BY <1>1, <1>2, <1>3, <1>4 DEF Next

\* What the steps of callers and their handlers leave alone.
LEMMA ServesFrame ==
    Serves => UNCHANGED <<pageVars, connVars, inbox, CalleeMap, callerVars, caller, callerName,
                          calleeCws, chatVars, answer, process>>
  BY DEF Serves, RecvCallMisses, SendRoomFails, Invite, EndCaller, WireBreaks, HandlerStep

LEMMA MovesFrame ==
    Moves => UNCHANGED <<pageVars, connVars, inbox, CalleeMap, dialed, phone, caller, calleeCws,
                         forRingCws, answer, process>>
  BY DEF Moves, LoadUnavailable, MakeCall, EnterRoom, CallerLeaves, lineVars, chatVars

LEMMA LoadsFrame ==
    Loads => UNCHANGED <<pageVars, connVars, inbox, CalleeMap, room, callerName, calleeCws,
                         chatVars, answer, process>>
  BY DEF Loads, Redial, LoadForm, Dials

\* A message that is pushed comes after the others, on one open connection.
LEMMA Pushed ==
    ASSUME ConnTypes, NEW c \in Conns \cup {Nil}, NEW m \in Messages, Push(c, m)
    PROVE  /\ inbox' \in [Conns -> Seq(Messages)]
           /\ \A d \in Conns : net[d] # "open" => inbox'[d] = inbox[d]
           /\ \A d \in Conns : \A i \in DOMAIN inbox'[d] :
                 \/ i \in DOMAIN inbox[d] /\ inbox'[d][i] = inbox[d][i]
                 \/ d = c /\ inbox'[d][i] = m
  <1>0. inbox \in [Conns -> Seq(Messages)]
    BY DEF ConnTypes
  <1>1. CASE inbox' = inbox
    BY <1>0, <1>1
  <1>2. CASE c \in Conns /\ net[c] = "open" /\ inbox' = [inbox EXCEPT ![c] = Append(@, m)]
    <2>1. inbox[c] \in Seq(Messages) /\ Append(inbox[c], m) \in Seq(Messages)
      BY <1>0, <1>2
    <2>2. inbox' \in [Conns -> Seq(Messages)] /\ inbox'[c] = Append(inbox[c], m)
      BY <1>0, <1>2, <2>1
    <2>3. \A d \in Conns : d # c => inbox'[d] = inbox[d]
      BY <1>0, <1>2
    <2>4. \A i \in DOMAIN Append(inbox[c], m) :
             \/ i \in DOMAIN inbox[c] /\ Append(inbox[c], m)[i] = inbox[c][i]
             \/ Append(inbox[c], m)[i] = m
      BY <2>1
    <2> QED BY <1>2, <2>2, <2>3, <2>4
  <1> QED BY <1>1, <1>2, Fresh DEF Push

\* What is left after reading was there before.
LEMMA Read ==
    ASSUME ConnTypes, NEW c \in Conns, NEW cmd, Reads(c, cmd)
    PROVE  /\ inbox' \in [Conns -> Seq(Messages)]
           /\ Head(inbox[c]) \in Messages
           /\ 1 \in DOMAIN inbox[c] /\ inbox[c][1] = Head(inbox[c])
           /\ \A d \in Conns : d # c => inbox'[d] = inbox[d]
           /\ \A d \in Conns : \A i \in DOMAIN inbox'[d] :
                 \E j \in DOMAIN inbox[d] : inbox'[d][i] = inbox[d][j]
  <1>0. inbox \in [Conns -> Seq(Messages)]
    BY DEF ConnTypes
  <1>1. inbox[c] \in Seq(Messages) /\ inbox[c] # <<>>
    BY <1>0 DEF Reads
  <1>2. /\ Head(inbox[c]) \in Messages /\ Tail(inbox[c]) \in Seq(Messages)
        /\ 1 \in DOMAIN inbox[c] /\ inbox[c][1] = Head(inbox[c])
    BY <1>1
  <1>3. inbox' = [inbox EXCEPT ![c] = Tail(inbox[c])]
    BY DEF Reads
  <1>4. inbox' \in [Conns -> Seq(Messages)] /\ inbox'[c] = Tail(inbox[c])
    BY <1>0, <1>2, <1>3
  <1>5. \A d \in Conns : d # c => inbox'[d] = inbox[d]
    BY <1>0, <1>3
  <1>6. \A i \in DOMAIN Tail(inbox[c]) :
           i + 1 \in DOMAIN inbox[c] /\ Tail(inbox[c])[i] = inbox[c][i + 1]
    <2> DEFINE q == inbox[c]
    <2>1. q \in Seq(Messages) /\ q # <<>>
      BY <1>1
    <2> HIDE DEF q
    <2>2. \A i \in DOMAIN Tail(q) : i + 1 \in DOMAIN q /\ Tail(q)[i] = q[i + 1]
      BY <2>1
    <2> QED BY <2>2 DEF q
  <1>7. ASSUME NEW d \in Conns, NEW i \in DOMAIN inbox'[d]
        PROVE  \E j \in DOMAIN inbox[d] : inbox'[d][i] = inbox[d][j]
    <2>1. CASE d = c
      BY <1>4, <1>6, <2>1
    <2>2. CASE d # c
      BY <1>5, <2>2
    <2> QED BY <2>1, <2>2
  <1> QED BY <1>2, <1>4, <1>5, <1>7

-----------------------------------------------------------------------------
\* Types.
LEMMA PageTypesStep == CallsInv /\ [Next]_vars => PageTypes'
  <1> SUFFICES ASSUME PageTypes, ConnTypes, ConnInv, [Next]_vars PROVE PageTypes'
    BY Types DEF CallsInv
  <1> USE DEF PageTypes
  <1>1. ASSUME Connects PROVE PageTypes'
    BY <1>1 DEF Connects, Connect
  <1>2. ASSUME Openings \/ Announces \/ Ends PROVE PageTypes'
    BY <1>2 DEF Openings, Opens, OpenFails, Announces, RecvAnnounce, Ends, EndCallee, HandlerDone,
                pageVars
  <1>3. ASSUME PageShows PROVE PageTypes'
    <2>1. PICK c \in Conns : ShowCallerKey(c) \/ ShowCall(c) \/ CallThrows(c) \/ StopRing(c)
      BY <1>3 DEF PageShows
    <2>2. owner[c] \in Pages /\ Head(inbox[c]) \in Messages
      <3>1. inbox[c] # <<>> /\ \E cmd : Reads(c, cmd)
        BY <2>1 DEF ShowCallerKey, ShowCall, CallThrows, StopRing, Reads
      <3>2. owner[c] # Nil
        BY <3>1 DEF ConnInv
      <3> QED BY <3>1, <3>2, Read DEF ConnTypes
    <2>3. CASE ShowCallerKey(c)
      BY <2>2, <2>3 DEF ShowCallerKey, Reads
    <2>4. CASE StopRing(c) \/ CallThrows(c)
      BY <2>2, <2>4 DEF StopRing, CallThrows, Reads
    <2>5. CASE ShowCall(c)
      <3> DEFINE s == Head(inbox[c]).from
      <3>1. s \in Sessions
        BY <2>2, <2>5 DEF ShowCall, Reads, Messages
      <3>2. links' \in [Pages -> SUBSET Sessions]
        BY <2>2, <2>5, <3>1 DEF ShowCall
      <3>3. rings' \in [Pages -> SUBSET Sessions]
        BY <2>2, <2>5, <3>1 DEF ShowCall
      <3>4. answer' \in [Sessions -> {"none", "sent", "done"}]
        BY <2>5, <3>1 DEF ShowCall
      <3> QED BY <2>5, <3>2, <3>3, <3>4 DEF ShowCall, Reads
    <2> QED BY <2>1, <2>3, <2>4, <2>5
  <1>4. ASSUME PageClicks PROVE PageTypes'
    BY <1>4 DEF PageClicks, Mute, Answer, pageVars
  <1>5. ASSUME Answered PROVE PageTypes'
    BY <1>5 DEF Answered, RecvStopRing, pageVars
  <1>6. ASSUME Cuts PROVE PageTypes'
    <2>1. ASSUME NEW p \in Pages, ClosePage(p) PROVE PageTypes'
      BY <2>1 DEF ClosePage
    <2>2. ASSUME NEW c \in Conns, NetBreaks(c) PROVE PageTypes'
      BY <2>2 DEF NetBreaks, pageVars
    <2> QED BY <1>6, <2>1, <2>2 DEF Cuts
  <1>7. ASSUME Finds \/ Sends \/ Hangs \/ Rings \/ Aborts PROVE PageTypes'
    BY <1>7 DEF Finds, RecvCall, Sends, SendRoom, HandlerStep, Hangs, EndChat,
                Rings, RecvForRing, Aborts, MapAbort, pageVars
  <1>8. ASSUME Loads \/ Serves \/ Moves PROVE PageTypes'
    BY <1>8, LoadsFrame, ServesFrame, MovesFrame DEF pageVars
  <1>9. ASSUME UNCHANGED vars PROVE PageTypes'
    BY <1>9 DEF vars, pageVars
  <1> QED BY Cases, <1>1, <1>2, <1>3, <1>4, <1>5, <1>6, <1>7, <1>8, <1>9

LEMMA ConnTypesStep == CallsInv /\ [Next]_vars => ConnTypes'
  <1> SUFFICES ASSUME PageTypes, ConnTypes, CallerTypes, ConnInv, CallerInv, SessionInv,
                      [Next]_vars
               PROVE ConnTypes'
    BY Types DEF CallsInv
  <1>0. \A c \in Conns : /\ owner[c] \in Pages \cup {Nil}
                         /\ callerKey[c] \in Keys \cup {Nil}
                         /\ inbox[c] \in Seq(Messages)
    BY DEF ConnTypes
  <1>1. ASSUME NEW p \in Pages, NEW c \in Conns, Connect(p, c) PROVE ConnTypes'
    <2>1. owner' \in [Conns -> Pages \cup {Nil}]
      BY <1>1 DEF Connect, ConnTypes
    <2>2. net' \in [Conns -> Nets]
      BY <1>1 DEF Connect, ConnTypes, Nets
    <2> QED BY <1>1, <2>1, <2>2 DEF Connect, ConnTypes
  <1>2. ASSUME NEW c \in Conns, Opens(c) \/ OpenFails(c) PROVE ConnTypes'
    <2>1. net' \in [Conns -> Nets] /\ pc' \in [Conns -> Pcs]
      BY <1>2 DEF Opens, OpenFails, ConnTypes, Nets, Pcs
    <2>2. announces' \in [Conns -> Nat]
      <3>1. announces \in [Conns -> Nat]
        BY DEF ConnTypes
      <3>2. announces' = announces \/ \E d : announces' = [announces EXCEPT ![d] = @ + 1]
        BY <1>2 DEF Opens, OpenFails
      <3> QED BY <3>1, <3>2
    <2> QED BY <1>2, <2>1, <2>2 DEF Opens, OpenFails, ConnTypes
  <1>3. ASSUME NEW c \in Conns, RecvAnnounce(c) PROVE ConnTypes'
    <2>1. owner[c] \in Pages
      BY <1>0, <1>3 DEF RecvAnnounce, Announcing, ConnInv
    <2>2. key[owner[c]] \in Keys
      BY <2>1 DEF PageTypes
    <2>3. inbox' \in [Conns -> Seq(Messages)]
      <3>1. Msg("callerKey", Nil) \in Messages
        BY DEF Msg, Messages
      <3> QED BY <1>3, <3>1, Pushed DEF RecvAnnounce
    <2>4. announces' \in [Conns -> Nat]
      <3>1. announces \in [Conns -> Nat] /\ announces[c] > 0
        BY <1>3 DEF RecvAnnounce, Announcing, ConnTypes
      <3>2. announces' = [announces EXCEPT ![c] = @ - 1]
        BY <1>3 DEF RecvAnnounce
      <3> QED BY <3>1, <3>2
    <2>5. /\ CalleeMap' \in [Keys -> Conns \cup {Nil}]
          /\ callerKey' \in [Conns -> Keys \cup {Nil}]
      BY <1>3, <2>2 DEF RecvAnnounce, ConnTypes
    <2> QED BY <1>3, <2>3, <2>4, <2>5 DEF RecvAnnounce, ConnTypes
  <1>4. ASSUME NEW c \in Conns, EndCallee(c) PROVE ConnTypes'
    <2>1. CalleeMap' \in [Keys -> Conns \cup {Nil}]
      BY <1>0, <1>4 DEF EndCallee, Unregistered, ConnTypes
    <2>2. pc' \in [Conns -> Pcs] /\ callerKey' \in [Conns -> Keys \cup {Nil}]
      BY <1>4 DEF EndCallee, HandlerDone, ConnTypes, Pcs
    <2> QED BY <1>4, <2>1, <2>2 DEF EndCallee, HandlerDone, ConnTypes
  <1>5. ASSUME PageShows PROVE ConnTypes'
    <2>1. PICK c \in Conns, cmd \in {"callerKey", "newRoom", "stopRing"} : Reads(c, cmd)
      BY <1>5 DEF PageShows, ShowCallerKey, ShowCall, CallThrows, StopRing
    <2>2. inbox' \in [Conns -> Seq(Messages)]
      BY <2>1, Read
    <2> QED BY <2>1, <2>2 DEF Reads, connVars, ConnTypes
  <1>6. ASSUME PageClicks PROVE ConnTypes'
    BY <1>6 DEF PageClicks, Mute, Answer, connVars, ConnTypes
  <1>p. ASSUME NEW c \in Conns \cup {Nil}, NEW s \in Sessions,
               NEW cmd \in {"newRoom", "stopRing"}, Push(c, Msg(cmd, s)),
               UNCHANGED <<connVars, CalleeMap, process>>
        PROVE ConnTypes'
    <2>1. Msg(cmd, s) \in Messages
      BY DEF Msg, Messages
    <2>2. inbox' \in [Conns -> Seq(Messages)]
      BY <1>p, <2>1, Pushed
    <2> QED BY <1>p, <2>2 DEF connVars, ConnTypes
  <1>7. ASSUME NEW s \in Sessions, RecvStopRing(s) PROVE ConnTypes'
    <2>1. Lookup(LinkKey) = Nil
      BY Fresh DEF Lookup, LinkKey
    <2> QED BY <1>7, <1>p, <2>1 DEF RecvStopRing
  <1>8. ASSUME Cuts PROVE ConnTypes'
    <2>1. ASSUME NEW cs, NEW how \in {"eof", "reset"}, Cut(cs, how),
                 UNCHANGED <<owner, announces, pc, callerKey, CalleeMap, process>>
          PROVE ConnTypes'
      <3>1. net' \in [Conns -> Nets]
        BY <2>1 DEF Cut, ConnTypes, Nets
      <3>2. inbox' \in [Conns -> Seq(Messages)]
        BY <1>0, <2>1 DEF Cut
      <3> QED BY <2>1, <3>1, <3>2 DEF ConnTypes
    <2> QED BY <1>8, <2>1 DEF Cuts, ClosePage, NetBreaks
  <1>9. ASSUME NEW s \in Sessions, SendRoom(s) PROVE ConnTypes'
    <2>1. calleeCws[s] \in Conns \cup {Nil} /\ UNCHANGED <<connVars, CalleeMap, process>>
      BY <1>9 DEF SendRoom, HandlerStep, CallerTypes
    <2> QED BY <1>9, <1>p, <2>1 DEF SendRoom
  <1>10. ASSUME NEW x \in Callers, EndChat(x) PROVE ConnTypes'
    <2>1. room[x] \in Sessions /\ forRingCws[x] \in Conns \cup {Nil}
      BY <1>10 DEF EndChat, CallerInv, CallerTypes
    <2> QED BY <1>10, <1>p, <2>1 DEF EndChat
  <1>11. ASSUME UNCHANGED <<connVars, inbox, CalleeMap>>, process' \in {"up", "aborted"}
         PROVE  ConnTypes'
    BY <1>11 DEF connVars, ConnTypes
  <1>12. process \in {"up", "aborted"}
    BY DEF ConnTypes
  <1>13. ASSUME Finds \/ Rings PROVE ConnTypes'
    BY <1>11, <1>12, <1>13 DEF Finds, RecvCall, HandlerStep, Rings, RecvForRing
  <1>14. ASSUME Loads \/ Serves \/ Moves PROVE ConnTypes'
    BY <1>11, <1>12, <1>14, LoadsFrame, ServesFrame, MovesFrame
  <1>15. ASSUME Aborts \/ UNCHANGED vars PROVE ConnTypes'
    BY <1>11, <1>12, <1>15 DEF Aborts, MapAbort, vars
  <1> QED BY Cases, <1>1, <1>2, <1>3, <1>4, <1>5, <1>6, <1>7, <1>8, <1>9, <1>10, <1>13, <1>14,
             <1>15
          DEF Connects, Openings, Announces, Ends, Answered, Sends, Hangs

LEMMA CallerTypesStep == CallsInv /\ [Next]_vars => CallerTypes'
  <1> SUFFICES ASSUME ConnTypes, CallerTypes, CallerInv, SessionInv, [Next]_vars
               PROVE CallerTypes'
    BY Types DEF CallsInv
  <1>1. ASSUME UNCHANGED <<callerVars, lineVars, chatVars>> PROVE CallerTypes'
    BY <1>1 DEF callerVars, lineVars, chatVars, CallerTypes
  <1>2. Connects \/ Openings \/ Announces \/ Ends => UNCHANGED <<callerVars, lineVars, chatVars>>
    BY DEF Connects, Connect, Openings, Opens, OpenFails, Announces, RecvAnnounce,
           Ends, EndCallee, HandlerDone
  <1>3. PageShows \/ PageClicks \/ Answered => UNCHANGED <<callerVars, lineVars, chatVars>>
    BY DEF PageShows, ShowCallerKey, ShowCall, CallThrows, StopRing, Reads,
           PageClicks, Mute, Answer, Answered, RecvStopRing
  <1>4. Cuts \/ Aborts \/ UNCHANGED vars => UNCHANGED <<callerVars, lineVars, chatVars>>
    BY DEF Cuts, ClosePage, NetBreaks, Aborts, MapAbort, vars
  <1>5. ASSUME NEW x \in Callers, NEW s \in Sessions,
               Redial(x, s) \/ \E k \in Keys : LoadForm(x, k, s)
        PROVE CallerTypes'
    <2>1. at' \in [Callers -> Ats] /\ line' \in [Sessions -> Lines] /\ wire' \in [Sessions -> Wires]
      BY <1>5 DEF Redial, LoadForm, Dials, CallerTypes, Ats, Lines, Wires
    <2>2. /\ dialed' \in [Callers -> Keys \cup {Nil}]
          /\ phone' \in [Callers -> Sessions \cup {Nil}]
          /\ caller' \in [Sessions -> Callers \cup {Nil}]
      <3>1. dialed' \in [Callers -> Keys \cup {Nil}]
        BY <1>5 DEF Redial, LoadForm, CallerTypes
      <3>2. phone' = [phone EXCEPT ![x] = s] /\ caller' = [caller EXCEPT ![s] = x]
        BY <1>5 DEF Redial, LoadForm, Dials
      <3> QED BY <3>1, <3>2 DEF CallerTypes
    <2>3. UNCHANGED <<room, callerName, calleeCws, chatVars>>
      BY <1>5 DEF Redial, LoadForm, Dials
    <2> QED BY <2>1, <2>2, <2>3 DEF chatVars, CallerTypes
  <1>6. ASSUME NEW s \in Sessions, RecvCall(s) PROVE CallerTypes'
    <2>1. Dialed(s) \in Keys
      BY <1>6, Fresh DEF RecvCall, SessionInv, CallerTypes, Dialed
    <2>2. CalleeMap[Dialed(s)] \in Conns \cup {Nil}
      BY <2>1 DEF ConnTypes
    <2> QED BY <1>6, <2>2 DEF RecvCall, HandlerStep, callerVars, chatVars, Lines, CallerTypes
  <1>7. ASSUME NEW s \in Sessions, SendRoom(s) PROVE CallerTypes'
    BY <1>7 DEF SendRoom, HandlerStep, callerVars, chatVars, Lines, CallerTypes
  <1>8. ASSUME NEW x \in Callers, EndChat(x) PROVE CallerTypes'
    BY <1>8 DEF EndChat, callerVars, lineVars, Chats, CallerTypes
  <1>9. ASSUME NEW x \in Callers, RecvForRing(x) PROVE CallerTypes'
    <2>1. Lookup(dialed[x]) \in Conns \cup {Nil}
      BY DEF Lookup, ConnTypes
    <2> QED BY <1>9, <2>1 DEF RecvForRing, callerVars, lineVars, Chats, CallerTypes
  <1>10. ASSUME Serves PROVE CallerTypes'
    <2>1. line' \in [Sessions -> Lines]
      <3>1. line' = line \/ \E s \in Sessions, l \in Lines : line' = [line EXCEPT ![s] = l]
        BY <1>10 DEF Serves, RecvCallMisses, SendRoomFails, Invite, EndCaller, WireBreaks, Lines
      <3> QED BY <3>1 DEF CallerTypes
    <2>2. wire' \in [Sessions -> Wires]
      BY <1>10 DEF Serves, RecvCallMisses, SendRoomFails, Invite, EndCaller, WireBreaks,
                   HandlerStep, Wires, CallerTypes
    <2> QED BY <1>10, <2>1, <2>2, ServesFrame DEF callerVars, chatVars, CallerTypes
  <1>11. ASSUME Moves PROVE CallerTypes'
    <2>0. PICK x \in Callers : \/ \E k \in Keys : LoadUnavailable(x, k)
                               \/ \E name \in Names : MakeCall(x, name)
                               \/ \E s \in Sessions : EnterRoom(x, s)
                               \/ CallerLeaves(x)
      BY <1>11 DEF Moves
    <2>1. at' \in [Callers -> Ats]
      <3>1. \E a \in Ats : at' = [at EXCEPT ![x] = a]
        BY <2>0 DEF LoadUnavailable, MakeCall, EnterRoom, CallerLeaves, Ats
      <3> QED BY <3>1 DEF CallerTypes
    <2>2. room' \in [Callers -> Sessions \cup {Nil}] /\ chat' \in [Callers -> Chats]
      <3>1. \/ UNCHANGED <<room, chat>>
            \/ \E s \in Sessions : /\ room' = [room EXCEPT ![x] = s]
                                   /\ chat' = [chat EXCEPT ![x] = "open"]
        BY <2>0 DEF LoadUnavailable, MakeCall, EnterRoom, CallerLeaves, chatVars
      <3>2. CASE UNCHANGED <<room, chat>>
        BY <3>2 DEF CallerTypes
      <3>3. ASSUME NEW s \in Sessions, room' = [room EXCEPT ![x] = s]
            PROVE  room' \in [Callers -> Sessions \cup {Nil}]
        BY <3>3 DEF CallerTypes
      <3>4. ASSUME chat' = [chat EXCEPT ![x] = "open"] PROVE chat' \in [Callers -> Chats]
        BY <3>4 DEF CallerTypes, Chats
      <3> QED BY <3>1, <3>2, <3>3, <3>4
    <2>3. wire' \in [Sessions -> Wires]
      <3>1. HangUp(x) \/ wire' = wire
        BY <2>0 DEF LoadUnavailable, MakeCall, EnterRoom, CallerLeaves, lineVars
      <3> QED BY <3>1 DEF HangUp, Wires, CallerTypes
    <2>4. line' \in [Sessions -> Lines] /\ callerName' \in [Sessions -> Names \cup {""}]
      <3>1. \/ UNCHANGED <<line, callerName>>
            \/ \E name \in Names :
                  /\ line' = [line EXCEPT ![phone[x]] = "called"]
                  /\ callerName' = [callerName EXCEPT ![phone[x]] = name]
        BY <2>0 DEF LoadUnavailable, MakeCall, EnterRoom, CallerLeaves, lineVars
      <3> QED BY <3>1 DEF Lines, CallerTypes
    <2> QED BY <1>11, <2>1, <2>2, <2>3, <2>4, MovesFrame DEF CallerTypes
  <1> QED BY Cases, <1>1, <1>2, <1>3, <1>4, <1>5, <1>6, <1>7, <1>8, <1>9, <1>10, <1>11
          DEF Loads, Finds, Sends, Hangs, Rings

-----------------------------------------------------------------------------
\* The connections and the map.
LEMMA ConnFrame ==
    ASSUME ConnInv, UNCHANGED <<key, owner, net, pc, callerKey>>,
           \A d \in Conns : net[d] = "none" /\ inbox[d] = <<>> => inbox'[d] = <<>>
    PROVE  ConnInv'
  BY DEF ConnInv

LEMMA ConnStep == CallsInv /\ [Next]_vars => ConnInv'
  <1> SUFFICES ASSUME PageTypes, ConnTypes, CallerTypes, ConnInv, CallerInv, [Next]_vars
               PROVE ConnInv'
    BY Types DEF CallsInv
  <1>0. \A s \in Sessions : Msg("newRoom", s) \in Messages /\ Msg("stopRing", s) \in Messages
    BY DEF Msg, Messages
  <1>1. ASSUME NEW p \in Pages, NEW c \in Conns, Connect(p, c) PROVE ConnInv'
    <2>1. /\ callerKey[c] = Nil /\ pc[c] = "none" /\ owner'[c] = p
          /\ UNCHANGED <<key, pc, callerKey, inbox>>
      BY <1>1 DEF Connect, ConnInv, ConnTypes
    <2>2. \A d \in Conns \ {c} : owner'[d] = owner[d] /\ net'[d] = net[d]
      BY <1>1 DEF Connect, ConnTypes
    <2> QED BY <2>1, <2>2, Fresh DEF ConnInv
  <1>2. ASSUME NEW c \in Conns, Opens(c) \/ OpenFails(c) PROVE ConnInv'
    <2>1. /\ owner[c] # Nil /\ callerKey[c] = Nil /\ net'[c] # "opening"
          /\ UNCHANGED <<key, owner, callerKey, inbox>>
      BY <1>2 DEF Opens, OpenFails, pageVars, ConnInv, ConnTypes
    <2>2. \A d \in Conns \ {c} : pc'[d] = pc[d] /\ net'[d] = net[d]
      BY <1>2 DEF Opens, OpenFails, ConnTypes
    <2> QED BY <2>1, <2>2 DEF ConnInv
  <1>3. ASSUME NEW c \in Conns, RecvAnnounce(c) PROVE ConnInv'
    <2>1. Msg("callerKey", Nil) \in Messages
      BY DEF Msg, Messages
    <2>2. \A d \in Conns : net[d] # "open" => inbox'[d] = inbox[d]
      BY <1>3, <2>1, Pushed DEF RecvAnnounce
    <2>3. callerKey' = [callerKey EXCEPT ![c] = key[owner[c]]]
      BY <1>3 DEF RecvAnnounce
    <2>4. pc[c] = "receive" /\ owner[c] # Nil /\ UNCHANGED <<key, owner, net, pc>>
      BY <1>3 DEF RecvAnnounce, Announcing, pageVars, ConnInv
    <2> QED BY <2>2, <2>3, <2>4 DEF ConnInv, ConnTypes
  <1>4. ASSUME NEW c \in Conns, EndCallee(c) PROVE ConnInv'
    <2>1. owner[c] # Nil
      BY <1>4 DEF EndCallee, ConnInv
    <2> QED BY <1>4, <2>1 DEF EndCallee, HandlerDone, pageVars, ConnInv, ConnTypes
  <1>5. ASSUME PageShows PROVE ConnInv'
    <2>1. PICK c \in Conns, cmd \in {"callerKey", "newRoom", "stopRing"} : Reads(c, cmd)
      BY <1>5 DEF PageShows, ShowCallerKey, ShowCall, CallThrows, StopRing
    <2>2. \A d \in Conns : d # c => inbox'[d] = inbox[d]
      BY <2>1, Read
    <2>3. net[c] = "open" /\ UNCHANGED <<key, connVars>>
      BY <2>1 DEF Reads
    <2> QED BY <2>2, <2>3, ConnFrame DEF connVars
  <1>6. ASSUME UNCHANGED <<key, connVars, inbox>> PROVE ConnInv'
    BY <1>6, ConnFrame DEF connVars
  <1>7. ASSUME NEW s \in Sessions, RecvStopRing(s) PROVE ConnInv'
    <2>1. Lookup(LinkKey) \in Conns \cup {Nil}
      BY DEF Lookup, ConnTypes
    <2>2. \A d \in Conns : net[d] # "open" => inbox'[d] = inbox[d]
      BY <1>0, <1>7, <2>1, Pushed DEF RecvStopRing
    <2> QED BY <1>7, <2>2, ConnFrame DEF RecvStopRing, pageVars, connVars
  <1>8. ASSUME Cuts PROVE ConnInv'
    <2>1. ASSUME NEW cs, NEW how \in {"eof", "reset"}, Cut(cs, how),
                 \A c \in Conns \cap cs : net[c] \in {"opening", "open"},
                 UNCHANGED <<key, owner, pc, callerKey>>
          PROVE ConnInv'
      BY <2>1 DEF Cut, ConnInv
    <2>2. ASSUME NEW p \in Pages, ClosePage(p) PROVE ConnInv'
      BY <2>1, <2>2 DEF ClosePage
    <2>3. ASSUME NEW c \in Conns, NetBreaks(c) PROVE ConnInv'
      BY <2>1, <2>3 DEF NetBreaks, pageVars
    <2> QED BY <1>8, <2>2, <2>3 DEF Cuts
  <1>9. ASSUME NEW s \in Sessions, SendRoom(s) PROVE ConnInv'
    <2>1. calleeCws[s] \in Conns \cup {Nil}
      BY DEF CallerTypes
    <2>2. \A d \in Conns : net[d] # "open" => inbox'[d] = inbox[d]
      BY <1>0, <1>9, <2>1, Pushed DEF SendRoom
    <2> QED BY <1>9, <2>2, ConnFrame DEF SendRoom, HandlerStep, pageVars, connVars
  <1>10. ASSUME NEW x \in Callers, EndChat(x) PROVE ConnInv'
    <2>1. room[x] \in Sessions /\ forRingCws[x] \in Conns \cup {Nil}
      BY <1>10 DEF EndChat, CallerInv, CallerTypes
    <2>2. \A d \in Conns : net[d] # "open" => inbox'[d] = inbox[d]
      BY <1>0, <1>10, <2>1, Pushed DEF EndChat
    <2> QED BY <1>10, <2>2, ConnFrame DEF EndChat, pageVars, connVars
  <1>11. Finds \/ Rings \/ PageClicks \/ Aborts => UNCHANGED <<key, connVars, inbox>>
    BY DEF Finds, RecvCall, HandlerStep, Rings, RecvForRing, PageClicks, Mute, Answer,
           Aborts, MapAbort, pageVars
  <1>12. Loads \/ Serves \/ Moves \/ UNCHANGED vars => UNCHANGED <<key, connVars, inbox>>
    BY LoadsFrame, ServesFrame, MovesFrame DEF vars, pageVars
  <1> QED BY Cases, <1>1, <1>2, <1>3, <1>4, <1>5, <1>6, <1>7, <1>8, <1>9, <1>10, <1>11, <1>12
          DEF Connects, Openings, Announces, Ends, Answered, Sends, Hangs

LEMMA MapStep == CallsInv /\ [Next]_vars => MapInv'
  <1> SUFFICES ASSUME PageTypes, ConnTypes, ConnInv, MapInv, [Next]_vars PROVE MapInv'
    BY Types DEF CallsInv
  <1>0. \A k \in Keys : CalleeMap[k] \in Conns \cup {Nil}
    BY DEF ConnTypes
  <1>1. ASSUME NEW c \in Conns, Opens(c) \/ OpenFails(c) PROVE MapInv'
    <2>1. pc[c] = "none" /\ UNCHANGED <<callerKey, CalleeMap>>
      BY <1>1 DEF Opens, OpenFails, ConnInv
    <2>2. \A d \in Conns \ {c} : pc'[d] = pc[d]
      BY <1>1 DEF Opens, OpenFails, ConnTypes
    <2> QED BY <1>0, <2>1, <2>2 DEF MapInv
  <1>2. ASSUME NEW c \in Conns, RecvAnnounce(c) PROVE MapInv'
    <2> DEFINE k0 == key[owner[c]]
    <2>1. pc[c] = "receive" /\ callerKey[c] \in {k0, Nil} /\ UNCHANGED pc
      BY <1>2 DEF RecvAnnounce, Announcing, ConnInv, ConnTypes
    <2>2. CalleeMap' = [CalleeMap EXCEPT ![k0] = c] /\ callerKey' = [callerKey EXCEPT ![c] = k0]
      BY <1>2 DEF RecvAnnounce
    <2>3. \A k \in Keys \ {k0} : CalleeMap[k] # c
      BY <2>1, Fresh DEF MapInv
    <2>4. ASSUME NEW k \in Keys, CalleeMap'[k] # Nil
          PROVE  pc'[CalleeMap'[k]] = "receive" /\ callerKey'[CalleeMap'[k]] = k
      <3>1. CASE k = k0
        <4>1. CalleeMap'[k] = c
          BY <2>2, <3>1 DEF ConnTypes
        <4>2. callerKey'[c] = k
          BY <2>2, <3>1 DEF ConnTypes
        <4> QED BY <2>1, <4>1, <4>2
      <3>2. CASE k # k0
        <4>1. CalleeMap'[k] = CalleeMap[k]
          BY <2>2, <3>2 DEF ConnTypes
        <4>2. callerKey'[CalleeMap[k]] = callerKey[CalleeMap[k]]
          BY <1>0, <2>2, <2>3, <2>4, <3>2, <4>1 DEF ConnTypes
        <4> QED BY <2>1, <2>4, <4>1, <4>2 DEF MapInv
      <3> QED BY <3>1, <3>2
    <2> QED BY <2>4 DEF MapInv
  <1>3. ASSUME NEW c \in Conns, EndCallee(c) PROVE MapInv'
    <2>1. CalleeMap' = IF callerKey[c] # Nil THEN [CalleeMap EXCEPT ![callerKey[c]] = Nil]
                       ELSE CalleeMap
      BY <1>3 DEF EndCallee, Unregistered
    <2>2. \A d \in Conns \ {c} : pc'[d] = pc[d] /\ callerKey'[d] = callerKey[d]
      BY <1>3 DEF EndCallee, HandlerDone, ConnTypes
    <2>3. ASSUME NEW k \in Keys, CalleeMap'[k] # Nil
          PROVE  CalleeMap'[k] = CalleeMap[k] /\ CalleeMap[k] # c
      <3>1. CASE CalleeMap[k] = c
        <4>1. callerKey[c] = k
          BY <3>1, Fresh DEF MapInv
        <4>2. CalleeMap'[k] = Nil
          BY <2>1, <4>1, Fresh DEF ConnTypes
        <4> QED BY <2>3, <4>2
      <3>2. CASE CalleeMap[k] # c
        BY <2>1, <2>3, <3>2 DEF ConnTypes
      <3> QED BY <3>1, <3>2
    <2> QED BY <1>0, <2>2, <2>3 DEF MapInv
  <1>4. ASSUME UNCHANGED <<pc, callerKey, CalleeMap>> PROVE MapInv'
    BY <1>4 DEF MapInv
  <1>5. Connects \/ PageShows \/ PageClicks \/ Answered \/ Cuts
            => UNCHANGED <<pc, callerKey, CalleeMap>>
    BY DEF Connects, Connect, PageShows, ShowCallerKey, ShowCall, CallThrows, StopRing, Reads,
           PageClicks, Mute, Answer, Answered, RecvStopRing, Cuts, ClosePage, NetBreaks, connVars
  <1>6. Finds \/ Sends \/ Hangs \/ Rings \/ Aborts => UNCHANGED <<pc, callerKey, CalleeMap>>
    BY DEF Finds, RecvCall, Sends, SendRoom, HandlerStep, Hangs, EndChat, Rings, RecvForRing,
           Aborts, MapAbort, connVars
  <1>7. Loads \/ Serves \/ Moves \/ UNCHANGED vars => UNCHANGED <<pc, callerKey, CalleeMap>>
    BY LoadsFrame, ServesFrame, MovesFrame DEF vars, connVars
  <1> QED BY Cases, <1>1, <1>2, <1>3, <1>4, <1>5, <1>6, <1>7 DEF Openings, Announces, Ends

-----------------------------------------------------------------------------
\* The calls: a websocket that a handler looked up leads to the page it dialed.

\* The connection that the map holds under a key belongs to a page with that key.
LEMMA Mapped ==
    ASSUME ConnTypes, ConnInv, MapInv, NEW k \in Keys
    PROVE  Reaches(CalleeMap[k], k)
  <1> SUFFICES ASSUME CalleeMap[k] # Nil
               PROVE owner[CalleeMap[k]] \in Pages /\ k = key[owner[CalleeMap[k]]]
    BY DEF Reaches
  <1> DEFINE c == CalleeMap[k]
  <1>1. c \in Conns
    BY DEF ConnTypes
  <1>2. callerKey[c] = k
    BY DEF MapInv
  <1>3. owner[c] # Nil /\ k = key[owner[c]]
    BY <1>1, <1>2, Fresh DEF ConnInv
  <1> QED BY <1>1, <1>3 DEF ConnTypes

\* Pages keep their keys, connections their pages, and calls the key they dialed.
LEMMA Steady ==
    CallsInv /\ [Next]_vars => /\ key' = key
                               /\ \A c \in Conns : owner[c] # Nil => owner'[c] = owner[c]
                               /\ \A s \in Sessions : Dialed(s) # Nil => Dialed(s)' = Dialed(s)
                               /\ \A x \in Callers : dialed[x] # Nil => dialed'[x] = dialed[x]
  <1> DEFINE Goal == /\ key' = key
                     /\ \A c \in Conns : owner[c] # Nil => owner'[c] = owner[c]
                     /\ \A s \in Sessions : Dialed(s) # Nil => Dialed(s)' = Dialed(s)
                     /\ \A x \in Callers : dialed[x] # Nil => dialed'[x] = dialed[x]
  <1> SUFFICES ASSUME ConnTypes, CallerTypes, CallerInv, [Next]_vars PROVE Goal
    BY Types DEF CallsInv
  <1>1. ASSUME UNCHANGED <<key, owner, dialed, caller>> PROVE Goal
    BY <1>1 DEF Dialed
  <1>2. ASSUME NEW p \in Pages, NEW c \in Conns, Connect(p, c) PROVE Goal
    <2>1. UNCHANGED <<key, dialed, caller>>
      BY <1>2 DEF Connect, callerVars, lineVars
    <2>2. \A d \in Conns : owner[d] # Nil => owner'[d] = owner[d]
      BY <1>2 DEF Connect, ConnTypes
    <2> QED BY <2>1, <2>2 DEF Dialed
  <1>3. ASSUME NEW x \in Callers, NEW s \in Sessions,
               Redial(x, s) \/ \E k \in Keys : LoadForm(x, k, s)
        PROVE Goal
    <2>1. UNCHANGED <<key, owner>>
      BY <1>3 DEF Redial, LoadForm, Dials, pageVars, connVars
    <2>2. \A r \in Sessions : caller[r] # Nil => caller'[r] = caller[r]
      BY <1>3 DEF Redial, LoadForm, Dials, CallerTypes
    <2>3. \A y \in Callers : dialed[y] # Nil => dialed'[y] = dialed[y]
      BY <1>3 DEF Redial, LoadForm, CallerInv, CallerTypes
    <2>4. ASSUME NEW r \in Sessions, Dialed(r) # Nil PROVE Dialed(r)' = Dialed(r)
      <3>1. caller[r] \in Callers /\ dialed[caller[r]] # Nil
        BY <2>4 DEF Dialed
      <3>2. caller'[r] = caller[r]
        BY <2>2, <3>1, Fresh
      <3> QED BY <2>3, <3>1, <3>2 DEF Dialed
    <2> QED BY <2>1, <2>3, <2>4
  <1>4. Openings \/ Announces \/ Ends \/ PageShows => UNCHANGED <<key, owner, dialed, caller>>
    BY DEF Openings, Opens, OpenFails, Announces, RecvAnnounce, Ends, EndCallee, HandlerDone,
           PageShows, ShowCallerKey, ShowCall, CallThrows, StopRing, Reads,
           pageVars, connVars, callerVars, lineVars
  <1>5. PageClicks \/ Answered \/ Cuts \/ Aborts => UNCHANGED <<key, owner, dialed, caller>>
    BY DEF PageClicks, Mute, Answer, Answered, RecvStopRing, Cuts, ClosePage, NetBreaks,
           Aborts, MapAbort, pageVars, connVars, callerVars, lineVars
  <1>6. Finds \/ Sends \/ Hangs \/ Rings => UNCHANGED <<key, owner, dialed, caller>>
    BY DEF Finds, RecvCall, Sends, SendRoom, HandlerStep, Hangs, EndChat, Rings, RecvForRing,
           pageVars, connVars, callerVars, lineVars
  <1>7. Serves \/ Moves \/ UNCHANGED vars => UNCHANGED <<key, owner, dialed, caller>>
    BY ServesFrame, MovesFrame DEF vars, pageVars, connVars, callerVars, lineVars
  <1> HIDE DEF Goal
  <1> QED BY Cases, <1>1, <1>2, <1>3, <1>4, <1>5, <1>6, <1>7 DEF Connects, Loads

\* What led to a page with the key, does so afterwards.
LEMMA ReachesStays ==
    ASSUME CallsInv, [Next]_vars, NEW c \in Conns \cup {Nil}, NEW k, Reaches(c, k)
    PROVE  Reaches(c, k)'
  <1>1. c # Nil => owner[c] # Nil /\ owner'[c] = owner[c] /\ key' = key
    BY Steady, Fresh DEF Reaches
  <1> QED BY <1>1 DEF Reaches

\* Who has not dialed has looked up nobody.
LEMMA NoKeyNoCallee ==
    ASSUME PageTypes, NEW c, Reaches(c, Nil)
    PROVE  c = Nil
  BY Fresh DEF Reaches, PageTypes

LEMMA RingStep ==
    ASSUME CallsInv, [Next]_vars, NEW x \in Callers
    PROVE  Reaches(forRingCws[x], dialed[x])'
  <1>0. PageTypes /\ ConnTypes /\ CallerTypes /\ ConnInv /\ MapInv /\ CallerInv
    BY Types DEF CallsInv
  <1>1. forRingCws[x] \in Conns \cup {Nil} /\ Reaches(forRingCws[x], dialed[x])
    BY <1>0 DEF CallerTypes, CallerInv
  <1>2. dialed[x] # Nil => dialed'[x] = dialed[x]
    BY Steady
  <1>3. CASE forRingCws'[x] = Nil
    BY <1>3 DEF Reaches
  <1>4. CASE forRingCws'[x] = forRingCws[x]
    <2>1. CASE dialed[x] = Nil
      BY <1>0, <1>1, <1>3, <1>4, <2>1, NoKeyNoCallee
    <2>2. CASE dialed[x] # Nil
      <3>1. PICK c \in Conns \cup {Nil}, k \in Keys \cup {Nil} :
                  c = forRingCws[x] /\ k = dialed[x]
        BY <1>0, <1>1 DEF CallerTypes
      <3>2. Reaches(c, k)'
        BY <1>1, <3>1, ReachesStays
      <3> QED BY <1>2, <1>4, <2>2, <3>1, <3>2 DEF Reaches
    <2> QED BY <2>1, <2>2
  <1>5. CASE RecvForRing(x)
    <2>1. forRingCws'[x] = Lookup(dialed[x]) /\ UNCHANGED <<key, owner, dialed>>
      BY <1>0, <1>5 DEF RecvForRing, CallerTypes, pageVars, connVars, callerVars
    <2>2. Reaches(Lookup(dialed[x]), dialed[x])
      BY <1>0, Mapped DEF Lookup, Reaches
    <2> QED BY <2>1, <2>2 DEF Reaches
  <1>6. ASSUME Rings \/ Hangs PROVE forRingCws'[x] \in {forRingCws[x], Nil} \/ RecvForRing(x)
    BY <1>0, <1>6 DEF Rings, RecvForRing, Hangs, EndChat, CallerTypes
  <1>7. Connects \/ Openings \/ Announces \/ Ends \/ PageShows => UNCHANGED forRingCws
    BY DEF Connects, Connect, Openings, Opens, OpenFails, Announces, RecvAnnounce,
           Ends, EndCallee, HandlerDone, PageShows, ShowCallerKey, ShowCall, CallThrows, StopRing,
           Reads, chatVars
  <1>8. PageClicks \/ Answered \/ Cuts \/ Aborts \/ Finds \/ Sends => UNCHANGED forRingCws
    BY DEF PageClicks, Mute, Answer, Answered, RecvStopRing, Cuts, ClosePage, NetBreaks,
           Aborts, MapAbort, Finds, RecvCall, Sends, SendRoom, HandlerStep, chatVars
  <1>9. Loads \/ Serves \/ Moves \/ UNCHANGED vars => UNCHANGED forRingCws
    BY LoadsFrame, ServesFrame, MovesFrame DEF vars, chatVars
  <1> QED BY Cases, <1>3, <1>4, <1>5, <1>6, <1>7, <1>8, <1>9

LEMMA CallerStep == CallsInv /\ [Next]_vars => CallerInv'
  <1> SUFFICES ASSUME CallsInv, [Next]_vars PROVE CallerInv'
    OBVIOUS
  <1>0. PageTypes /\ CallerTypes /\ CallerInv /\ SessionInv
    BY Types DEF CallsInv
  <1> DEFINE Own == \A x \in Callers :
                 /\ at[x] = "away" => dialed[x] = Nil
                 /\ at[x] \in {"form", "calling"} => dialed[x] \in Keys
                 /\ phone[x] # Nil => caller[phone[x]] = x
                 /\ room[x] # Nil => caller[room[x]] = x
                 /\ chat[x] # "none" => room[x] # Nil
  <1>1. Own
    BY <1>0 DEF CallerInv
  <1>2. ASSUME UNCHANGED <<callerVars, caller>>,
               \A x \in Callers : chat'[x] # "none" => chat[x] # "none"
        PROVE  Own'
    BY <1>1, <1>2 DEF callerVars
  <1>3. Connects \/ Openings \/ Announces \/ Ends \/ PageShows
            => UNCHANGED <<callerVars, caller, chat>>
    BY DEF Connects, Connect, Openings, Opens, OpenFails, Announces, RecvAnnounce,
           Ends, EndCallee, HandlerDone, PageShows, ShowCallerKey, ShowCall, CallThrows, StopRing,
           Reads, lineVars, chatVars
  <1>4. PageClicks \/ Answered \/ Cuts \/ Aborts \/ Finds \/ Sends
            => UNCHANGED <<callerVars, caller, chat>>
    BY DEF PageClicks, Mute, Answer, Answered, RecvStopRing, Cuts, ClosePage, NetBreaks,
           Aborts, MapAbort, Finds, RecvCall, Sends, SendRoom, HandlerStep, lineVars, chatVars
  <1>5. Serves \/ UNCHANGED vars => UNCHANGED <<callerVars, caller, chat>>
    BY ServesFrame DEF vars, lineVars, chatVars
  <1>6. ASSUME Hangs \/ Rings PROVE Own'
    <2>1. PICK x \in Callers : EndChat(x) \/ RecvForRing(x)
      BY <1>6 DEF Hangs, Rings
    <2>2. chat[x] # "none" /\ UNCHANGED <<callerVars, caller>>
      BY <2>1 DEF EndChat, RecvForRing, lineVars
    <2>3. \A y \in Callers : chat'[y] # "none" => chat[y] # "none"
      BY <1>0, <2>1, <2>2 DEF EndChat, RecvForRing, CallerTypes
    <2> QED BY <1>2, <2>2, <2>3
  <1>7. ASSUME NEW x \in Callers, NEW s \in Sessions,
               Redial(x, s) \/ \E k \in Keys : LoadForm(x, k, s)
        PROVE Own'
    <2>1. at'[x] = "form" /\ phone'[x] = s /\ caller'[s] = x /\ caller[s] = Nil
      BY <1>0, <1>7 DEF Redial, LoadForm, Dials, CallerTypes
    <2>2. dialed'[x] \in Keys
      <3>1. CASE Redial(x, s)
        BY <1>1, <3>1 DEF Redial
      <3>2. CASE \E k \in Keys : LoadForm(x, k, s)
        BY <1>0, <3>2 DEF LoadForm, CallerTypes
      <3> QED BY <1>7, <3>1, <3>2
    <2>3. UNCHANGED <<room, chat>>
      BY <1>7 DEF Redial, LoadForm, Dials, chatVars
    <2>4. \A y \in Callers \ {x} :
             at'[y] = at[y] /\ phone'[y] = phone[y] /\ dialed'[y] = dialed[y]
      BY <1>0, <1>7 DEF Redial, LoadForm, Dials, CallerTypes
    <2>5. \A r \in Sessions \ {s} : caller'[r] = caller[r]
      BY <1>0, <1>7 DEF Redial, LoadForm, Dials, CallerTypes
    <2>6. \A y \in Callers : /\ phone[y] \in Sessions \cup {Nil} /\ phone[y] # s
                             /\ room[y] \in Sessions \cup {Nil} /\ room[y] # s
      <3>1. ASSUME NEW y \in Callers PROVE phone[y] # s /\ room[y] # s
        <4>1. caller[s] # y /\ s # Nil
          BY <2>1, Fresh
        <4>2. /\ phone[y] # Nil => caller[phone[y]] = y
              /\ room[y] # Nil => caller[room[y]] = y
          BY <1>1
        <4> QED BY <4>1, <4>2
      <3> QED BY <1>0, <3>1 DEF CallerTypes
    <2>7. ASSUME NEW y \in Callers
          PROVE  /\ at'[y] = "away" => dialed'[y] = Nil
                 /\ at'[y] \in {"form", "calling"} => dialed'[y] \in Keys
                 /\ phone'[y] # Nil => caller'[phone'[y]] = y
                 /\ room'[y] # Nil => caller'[room'[y]] = y
                 /\ chat'[y] # "none" => room'[y] # Nil
      <3>1. CASE y = x
        BY <1>1, <2>1, <2>2, <2>3, <2>5, <2>6, <3>1
      <3>2. CASE y # x
        BY <1>1, <2>3, <2>4, <2>5, <2>6, <3>2
      <3> QED BY <3>1, <3>2
    <2> QED BY <2>7
  <1>8. ASSUME Moves PROVE Own'
    <2>1. PICK x \in Callers : \/ \E k \in Keys : LoadUnavailable(x, k)
                               \/ \E name \in Names : MakeCall(x, name)
                               \/ \E s \in Sessions : EnterRoom(x, s)
                               \/ CallerLeaves(x)
      BY <1>8 DEF Moves
    <2>2. UNCHANGED <<dialed, phone, caller>>
      BY <1>8, MovesFrame
    <2>3. at'[x] # "away" /\ (at'[x] \in {"form", "calling"} => at[x] = "form")
      BY <1>0, <2>1 DEF LoadUnavailable, MakeCall, EnterRoom, CallerLeaves, CallerTypes
    <2>4. \A y \in Callers \ {x} : at'[y] = at[y]
      BY <1>0, <2>1 DEF LoadUnavailable, MakeCall, EnterRoom, CallerLeaves, CallerTypes
    <2>5. \/ UNCHANGED <<room, chat>>
          \/ \E s \in Sessions : /\ caller[s] = x /\ room' = [room EXCEPT ![x] = s]
                                 /\ chat' = [chat EXCEPT ![x] = "open"]
      BY <2>1 DEF LoadUnavailable, MakeCall, EnterRoom, CallerLeaves, chatVars
    <2>6. ASSUME NEW y \in Callers
          PROVE  /\ room'[y] # Nil => caller[room'[y]] = y
                 /\ chat'[y] # "none" => room'[y] # Nil
      <3>1. CASE UNCHANGED <<room, chat>>
        BY <1>1, <3>1
      <3>2. ASSUME NEW s \in Sessions, caller[s] = x, room' = [room EXCEPT ![x] = s],
                   chat' = [chat EXCEPT ![x] = "open"]
            PROVE  /\ room'[y] # Nil => caller[room'[y]] = y
                   /\ chat'[y] # "none" => room'[y] # Nil
        <4>1. room'[x] = s /\ s # Nil
          BY <1>0, <3>2, Fresh DEF CallerTypes
        <4>2. y # x => room'[y] = room[y] /\ chat'[y] = chat[y]
          BY <1>0, <3>2 DEF CallerTypes
        <4>3. /\ room[y] # Nil => caller[room[y]] = y
              /\ chat[y] # "none" => room[y] # Nil
          BY <1>1
        <4> QED BY <3>2, <4>1, <4>2, <4>3
      <3> QED BY <2>5, <3>1, <3>2
    <2> QED BY <1>1, <2>2, <2>3, <2>4, <2>6
  <1>9. Own'
    <2> HIDE DEF Own
    <2> QED BY Cases, <1>2, <1>3, <1>4, <1>5, <1>6, <1>7, <1>8 DEF Loads
  <1>10. \A x \in Callers : Reaches(forRingCws[x], dialed[x])'
    BY RingStep
  <1> QED BY <1>9, <1>10 DEF CallerInv

LEMMA FoundStep ==
    ASSUME CallsInv, [Next]_vars, NEW s \in Sessions
    PROVE  Reaches(calleeCws[s], Dialed(s))'
  <1>0. PageTypes /\ ConnTypes /\ CallerTypes /\ ConnInv /\ MapInv /\ SessionInv
    BY Types DEF CallsInv
  <1>1. calleeCws[s] \in Conns \cup {Nil} /\ Reaches(calleeCws[s], Dialed(s))
    BY <1>0 DEF CallerTypes, SessionInv
  <1>2. Dialed(s) # Nil => Dialed(s)' = Dialed(s)
    BY Steady
  <1>3. CASE calleeCws'[s] = calleeCws[s]
    <2>1. CASE Dialed(s) = Nil
      BY <1>0, <1>1, <1>3, <2>1, NoKeyNoCallee DEF Reaches
    <2>2. CASE Dialed(s) # Nil
      <3>1. PICK c \in Conns \cup {Nil}, k \in Keys \cup {Nil} :
                  c = calleeCws[s] /\ k = Dialed(s)
        BY <1>0, <1>1 DEF Dialed, CallerTypes
      <3>2. Reaches(c, k)'
        BY <1>1, <3>1, ReachesStays
      <3> QED BY <1>2, <1>3, <2>2, <3>1, <3>2 DEF Reaches
    <2> QED BY <2>1, <2>2
  <1>4. CASE RecvCall(s)
    <2>1. Dialed(s) \in Keys
      BY <1>0, <1>4, Fresh DEF RecvCall, SessionInv, CallerTypes, Dialed
    <2>2. /\ calleeCws'[s] = CalleeMap[Dialed(s)] /\ Dialed(s)' = Dialed(s)
          /\ UNCHANGED <<key, owner>>
      BY <1>0, <1>2, <1>4, <2>1, Fresh DEF RecvCall, HandlerStep, CallerTypes, pageVars, connVars
    <2>3. Reaches(CalleeMap[Dialed(s)], Dialed(s))
      BY <1>0, <2>1, Mapped
    <2> QED BY <2>2, <2>3 DEF Reaches
  <1>5. ASSUME Finds PROVE calleeCws'[s] = calleeCws[s] \/ RecvCall(s)
    BY <1>0, <1>5 DEF Finds, RecvCall, CallerTypes
  <1>6. Connects \/ Openings \/ Announces \/ Ends \/ PageShows => UNCHANGED calleeCws
    BY DEF Connects, Connect, Openings, Opens, OpenFails, Announces, RecvAnnounce,
           Ends, EndCallee, HandlerDone, PageShows, ShowCallerKey, ShowCall, CallThrows, StopRing,
           Reads, lineVars
  <1>7. PageClicks \/ Answered \/ Cuts \/ Aborts \/ Sends \/ Hangs \/ Rings => UNCHANGED calleeCws
    BY DEF PageClicks, Mute, Answer, Answered, RecvStopRing, Cuts, ClosePage, NetBreaks,
           Aborts, MapAbort, Sends, SendRoom, Hangs, EndChat, Rings, RecvForRing, lineVars
  <1>8. Loads \/ Serves \/ Moves \/ UNCHANGED vars => UNCHANGED calleeCws
    BY LoadsFrame, ServesFrame, MovesFrame DEF vars, lineVars
  <1> QED BY Cases, <1>3, <1>4, <1>5, <1>6, <1>7, <1>8

LEMMA SessionStep == CallsInv /\ [Next]_vars => SessionInv'
  <1> SUFFICES ASSUME CallsInv, [Next]_vars PROVE SessionInv'
    OBVIOUS
  <1>0. ConnTypes /\ CallerTypes /\ CallerInv /\ SessionInv
    BY Types DEF CallsInv
  <1> DEFINE Known == \A s \in Sessions :
                 /\ caller[s] # Nil => dialed[caller[s]] \in Keys
                 /\ line[s] # "none" => caller[s] # Nil
                 /\ line[s] = "found" => calleeCws[s] \in Conns
  <1>1. Known
    BY <1>0 DEF SessionInv
  <1>2. ASSUME UNCHANGED <<dialed, lineVars>> PROVE Known'
    BY <1>1, <1>2 DEF lineVars
  <1>3. Connects \/ Openings \/ Announces \/ Ends \/ PageShows => UNCHANGED <<dialed, lineVars>>
    BY DEF Connects, Connect, Openings, Opens, OpenFails, Announces, RecvAnnounce,
           Ends, EndCallee, HandlerDone, PageShows, ShowCallerKey, ShowCall, CallThrows, StopRing,
           Reads, callerVars
  <1>4. PageClicks \/ Answered \/ Cuts \/ Aborts \/ Hangs \/ Rings \/ UNCHANGED vars
            => UNCHANGED <<dialed, lineVars>>
    BY DEF PageClicks, Mute, Answer, Answered, RecvStopRing, Cuts, ClosePage, NetBreaks,
           Aborts, MapAbort, Hangs, EndChat, Rings, RecvForRing, vars, callerVars
  <1>5. ASSUME UNCHANGED <<dialed, caller, calleeCws>>,
               \A s \in Sessions : /\ line'[s] # "none" => line[s] # "none" \/ caller[s] # Nil
                                   /\ line'[s] = "found" => line[s] = "found"
        PROVE  Known'
    BY <1>1, <1>5
  <1>6. ASSUME Serves \/ Sends PROVE Known'
    <2>1. UNCHANGED <<dialed, caller, calleeCws>>
      BY <1>6, ServesFrame DEF Sends, SendRoom, HandlerStep, callerVars
    <2>2. \A s \in Sessions : /\ line'[s] # "none" => line[s] # "none" \/ caller[s] # Nil
                              /\ line'[s] = "found" => line[s] = "found"
      BY <1>0, <1>6 DEF Serves, RecvCallMisses, SendRoomFails, Invite, EndCaller, WireBreaks,
                        Sends, SendRoom, CallerTypes
    <2> QED BY <1>5, <2>1, <2>2
  <1>7. ASSUME NEW s \in Sessions, RecvCall(s) PROVE Known'
    <2>1. Dialed(s) \in Keys /\ CalleeMap[Dialed(s)] # Nil
      BY <1>0, <1>7, Fresh DEF RecvCall, SessionInv, CallerTypes, Dialed
    <2>2. calleeCws'[s] \in Conns /\ line[s] # "none"
      BY <1>0, <1>7, <2>1 DEF RecvCall, ConnTypes, CallerTypes
    <2>3. \A r \in Sessions \ {s} : calleeCws'[r] = calleeCws[r] /\ line'[r] = line[r]
      BY <1>0, <1>7 DEF RecvCall, CallerTypes
    <2>4. UNCHANGED <<dialed, caller>>
      BY <1>7 DEF RecvCall, HandlerStep, callerVars
    <2> QED BY <1>1, <2>2, <2>3, <2>4
  <1>8. ASSUME NEW x \in Callers, NEW s \in Sessions,
               Redial(x, s) \/ \E k \in Keys : LoadForm(x, k, s)
        PROVE Known'
    <2>1. caller'[s] = x /\ line'[s] = "receive" /\ UNCHANGED calleeCws
      BY <1>0, <1>8 DEF Redial, LoadForm, Dials, CallerTypes
    <2>2. dialed'[x] \in Keys
      <3>1. CASE Redial(x, s)
        BY <1>0, <3>1 DEF Redial, CallerInv
      <3>2. CASE \E k \in Keys : LoadForm(x, k, s)
        BY <1>0, <3>2 DEF LoadForm, CallerTypes
      <3> QED BY <1>8, <3>1, <3>2
    <2>3. \A r \in Sessions \ {s} : caller'[r] = caller[r] /\ line'[r] = line[r]
      BY <1>0, <1>8 DEF Redial, LoadForm, Dials, CallerTypes
    <2>4. \A r \in Sessions :
             caller[r] # Nil => caller[r] \in Callers /\ dialed'[caller[r]] \in Keys
      <3>1. \A y \in Callers : dialed[y] # Nil => dialed'[y] = dialed[y]
        BY Steady
      <3>2. ASSUME NEW r \in Sessions, caller[r] # Nil
            PROVE  caller[r] \in Callers /\ dialed'[caller[r]] \in Keys
        <4>1. caller[r] \in Callers /\ dialed[caller[r]] \in Keys
          BY <1>0, <1>1, <3>2 DEF CallerTypes
        <4> QED BY <3>1, <4>1, Fresh
      <3> QED BY <3>2
    <2>5. ASSUME NEW r \in Sessions
          PROVE  /\ caller'[r] # Nil => dialed'[caller'[r]] \in Keys
                 /\ line'[r] # "none" => caller'[r] # Nil
                 /\ line'[r] = "found" => calleeCws'[r] \in Conns
      <3>1. CASE r = s
        BY <2>1, <2>2, <3>1, Fresh
      <3>2. CASE r # s
        BY <1>1, <2>1, <2>3, <2>4, <3>2
      <3> QED BY <3>1, <3>2
    <2> QED BY <2>5
  <1>9. ASSUME Moves PROVE Known'
    <2>1. UNCHANGED <<dialed, caller, calleeCws>>
      BY <1>9, MovesFrame
    <2>2. line' = line \/ \E x \in Callers : /\ wire[phone[x]] = "open"
                                             /\ line' = [line EXCEPT ![phone[x]] = "called"]
      BY <1>9 DEF Moves, LoadUnavailable, MakeCall, EnterRoom, CallerLeaves, lineVars
    <2>3. \A x \in Callers : phone[x] \in Sessions => caller[phone[x]] # Nil
      BY <1>0, Fresh DEF CallerInv
    <2>4. \A s \in Sessions : /\ line'[s] # "none" => line[s] # "none" \/ caller[s] # Nil
                              /\ line'[s] = "found" => line[s] = "found"
      BY <1>0, <2>2, <2>3 DEF CallerTypes
    <2> QED BY <1>5, <2>1, <2>4
  <1>10. Known'
    <2> HIDE DEF Known
    <2> QED BY Cases, <1>2, <1>3, <1>4, <1>6, <1>7, <1>8, <1>9 DEF Finds, Loads
  <1>11. \A s \in Sessions : Reaches(calleeCws[s], Dialed(s))'
    BY FoundStep
  <1> QED BY <1>10, <1>11 DEF SessionInv

-----------------------------------------------------------------------------
\* What is under way to a page, and what the page shows.

\* Nothing is under way but what was so before, or goes to the page it is for.
LEMMA InboxFrame ==
    ASSUME CallsInv, [Next]_vars,
           \A d \in Conns : \A i \in DOMAIN inbox'[d] :
              \/ \E j \in DOMAIN inbox[d] : inbox'[d][i] = inbox[d][j]
              \/ inbox'[d][i].from = Nil
              \/ /\ inbox'[d][i].from \in Sessions
                 /\ Reaches(d, Dialed(inbox'[d][i].from))
    PROVE  InboxInv'
  <1>0. PageTypes /\ ConnTypes /\ CallerTypes /\ ConnInv /\ InboxInv
    BY Types DEF CallsInv
  <1> SUFFICES ASSUME NEW d \in Conns, NEW i \in DOMAIN inbox'[d],
                      NEW s, s = inbox'[d][i].from, s # Nil
               PROVE  Dialed(s)' = key'[owner'[d]]
    BY DEF InboxInv, Dialed
  <1>1. s \in Sessions /\ owner[d] \in Pages /\ Dialed(s) = key[owner[d]]
    <2>1. CASE \E j \in DOMAIN inbox[d] : inbox'[d][i] = inbox[d][j]
      <3>1. PICK j \in DOMAIN inbox[d] : inbox'[d][i] = inbox[d][j]
        BY <2>1
      <3>2. inbox[d] \in Seq(Messages)
        BY <1>0 DEF ConnTypes
      <3>3. inbox[d][j] \in Messages /\ inbox[d] # <<>>
        BY <3>2
      <3>4. s \in Sessions
        BY <3>1, <3>3 DEF Messages
      <3>5. owner[d] \in Pages
        BY <1>0, <3>3 DEF ConnInv, ConnTypes
      <3> QED BY <1>0, <3>1, <3>4, <3>5 DEF InboxInv
    <2>2. CASE s \in Sessions /\ Reaches(d, Dialed(s))
      BY <2>2, Fresh DEF Reaches
    <2> QED BY <2>1, <2>2
  <1>2. Dialed(s) # Nil
    BY <1>0, <1>1, Fresh DEF PageTypes
  <1>3. Dialed(s)' = Dialed(s) /\ owner'[d] = owner[d] /\ key' = key
    BY <1>1, <1>2, Steady, Fresh
  <1> QED BY <1>1, <1>3

LEMMA InboxPushed ==
    ASSUME CallsInv, [Next]_vars, NEW c \in Conns \cup {Nil}, NEW m \in Messages, Push(c, m),
           m.from = Nil \/ (m.from \in Sessions /\ Reaches(c, Dialed(m.from)))
    PROVE  InboxInv'
  <1>1. \A d \in Conns : \A i \in DOMAIN inbox'[d] :
           \/ i \in DOMAIN inbox[d] /\ inbox'[d][i] = inbox[d][i]
           \/ d = c /\ inbox'[d][i] = m
    BY Pushed, Types DEF CallsInv
  <1> QED BY <1>1, InboxFrame

LEMMA InboxStep == CallsInv /\ [Next]_vars => InboxInv'
  <1> SUFFICES ASSUME CallsInv, [Next]_vars PROVE InboxInv'
    OBVIOUS
  <1>0. ConnTypes /\ CallerTypes /\ CallerInv /\ SessionInv
    BY Types DEF CallsInv
  <1>1. \A s \in Sessions, cmd \in {"newRoom", "stopRing"} :
           Msg(cmd, s) \in Messages /\ Msg(cmd, s).from = s
    BY DEF Msg, Messages
  <1>2. ASSUME NEW c \in Conns, RecvAnnounce(c) PROVE InboxInv'
    <2>1. Msg("callerKey", Nil) \in Messages /\ Msg("callerKey", Nil).from = Nil
      BY DEF Msg, Messages
    <2>2. Push(c, Msg("callerKey", Nil))
      BY <1>2 DEF RecvAnnounce
    <2> QED BY <2>1, <2>2, InboxPushed
  <1>3. ASSUME PageShows PROVE InboxInv'
    <2>1. PICK c \in Conns, cmd \in {"callerKey", "newRoom", "stopRing"} : Reads(c, cmd)
      BY <1>3 DEF PageShows, ShowCallerKey, ShowCall, CallThrows, StopRing
    <2>2. \A d \in Conns : \A i \in DOMAIN inbox'[d] :
              \E j \in DOMAIN inbox[d] : inbox'[d][i] = inbox[d][j]
      BY <1>0, <2>1, Read
    <2> QED BY <2>2, InboxFrame
  <1>4. ASSUME UNCHANGED inbox PROVE InboxInv'
    BY <1>4, InboxFrame
  <1>5. Connects \/ Openings \/ Ends \/ PageClicks => UNCHANGED inbox
    BY DEF Connects, Connect, Openings, Opens, OpenFails, Ends, EndCallee, HandlerDone,
           PageClicks, Mute, Answer
  <1>6. Finds \/ Rings \/ Aborts => UNCHANGED inbox
    BY DEF Finds, RecvCall, Rings, RecvForRing, Aborts, MapAbort
  <1>7. Loads \/ Serves \/ Moves \/ UNCHANGED vars => UNCHANGED inbox
    BY LoadsFrame, ServesFrame, MovesFrame DEF vars
  <1>8. ASSUME NEW s \in Sessions, RecvStopRing(s) PROVE InboxInv'
    <2>1. Lookup(LinkKey) = Nil
      BY Fresh DEF Lookup, LinkKey
    <2>2. UNCHANGED inbox
      BY <1>8, <2>1 DEF RecvStopRing, Push
    <2> QED BY <1>4, <2>2
  <1>9. ASSUME Cuts PROVE InboxInv'
    <2>1. PICK cs, how : Cut(cs, how)
      BY <1>9 DEF Cuts, ClosePage, NetBreaks
    <2>2. \A d \in Conns : inbox'[d] = <<>> \/ inbox'[d] = inbox[d]
      BY <2>1 DEF Cut
    <2>3. DOMAIN << >> = {}
      OBVIOUS
    <2>4. \A d \in Conns : \A i \in DOMAIN inbox'[d] :
              \E j \in DOMAIN inbox[d] : inbox'[d][i] = inbox[d][j]
      BY <2>2, <2>3
    <2> QED BY <2>4, InboxFrame
  <1>10. ASSUME NEW s \in Sessions, SendRoom(s) PROVE InboxInv'
    <2>1. calleeCws[s] \in Conns \cup {Nil} /\ Reaches(calleeCws[s], Dialed(s))
      BY <1>0 DEF CallerTypes, SessionInv
    <2>2. Push(calleeCws[s], Msg("newRoom", s))
      BY <1>10 DEF SendRoom
    <2> QED BY <1>1, <2>1, <2>2, InboxPushed
  <1>11. ASSUME NEW x \in Callers, EndChat(x) PROVE InboxInv'
    <2>1. room[x] \in Sessions /\ caller[room[x]] = x
      BY <1>0, <1>11 DEF EndChat, CallerInv, CallerTypes
    <2>2. forRingCws[x] \in Conns \cup {Nil} /\ Reaches(forRingCws[x], Dialed(room[x]))
      BY <1>0, <2>1 DEF CallerTypes, CallerInv, Dialed
    <2>3. Push(forRingCws[x], Msg("stopRing", room[x]))
      BY <1>11 DEF EndChat
    <2> QED BY <1>1, <2>1, <2>2, <2>3, InboxPushed
  <1> QED BY Cases, <1>2, <1>3, <1>4, <1>5, <1>6, <1>7, <1>8, <1>9, <1>10, <1>11
          DEF Announces, Answered, Sends, Hangs

\* A page shows no other call than those of its key.
LEMMA LinksFrame ==
    ASSUME CallsInv, [Next]_vars,
           \A p \in Pages : \A s \in links'[p] \cup rings'[p] :
              s \in links[p] \cup rings[p] \/ (s \in Sessions /\ Dialed(s) = key[p])
    PROVE  LinksInv'
  <1>0. PageTypes /\ LinksInv
    BY Types DEF CallsInv
  <1> SUFFICES ASSUME NEW p \in Pages, NEW s, s \in links'[p] \cup rings'[p]
               PROVE  Dialed(s)' = key'[p]
    BY DEF LinksInv, Dialed
  <1>1. s \in Sessions /\ Dialed(s) = key[p]
    BY <1>0 DEF PageTypes, LinksInv
  <1>2. Dialed(s) # Nil
    BY <1>0, <1>1, Fresh DEF PageTypes
  <1>3. Dialed(s)' = Dialed(s) /\ key' = key
    BY <1>1, <1>2, Steady
  <1> QED BY <1>1, <1>3

LEMMA LinksStep == CallsInv /\ [Next]_vars => LinksInv'
  <1> SUFFICES ASSUME CallsInv, [Next]_vars PROVE LinksInv'
    OBVIOUS
  <1>0. PageTypes /\ ConnTypes /\ InboxInv
    BY Types DEF CallsInv
  <1>1. ASSUME \A p \in Pages : links'[p] \subseteq links[p] /\ rings'[p] \subseteq rings[p]
        PROVE  LinksInv'
    BY <1>1, LinksFrame
  <1>2. ASSUME UNCHANGED <<links, rings>> PROVE LinksInv'
    BY <1>1, <1>2
  <1>3. Connects \/ Openings \/ Announces \/ Ends => UNCHANGED <<links, rings>>
    BY DEF Connects, Connect, Openings, Opens, OpenFails, Announces, RecvAnnounce,
           Ends, EndCallee, HandlerDone, pageVars
  <1>4. Answered \/ Finds \/ Sends \/ Hangs \/ Rings \/ Aborts => UNCHANGED <<links, rings>>
    BY DEF Answered, RecvStopRing, Finds, RecvCall, Sends, SendRoom, HandlerStep, Hangs, EndChat,
           Rings, RecvForRing, Aborts, MapAbort, pageVars
  <1>5. Loads \/ Serves \/ Moves \/ UNCHANGED vars => UNCHANGED <<links, rings>>
    BY LoadsFrame, ServesFrame, MovesFrame DEF vars, pageVars
  <1>6. ASSUME NEW c \in Conns, ShowCallerKey(c) \/ CallThrows(c) \/ StopRing(c) PROVE LinksInv'
    BY <1>0, <1>1, <1>6 DEF ShowCallerKey, CallThrows, StopRing, PageTypes
  <1>7. ASSUME PageClicks \/ Cuts PROVE LinksInv'
    BY <1>0, <1>1, <1>7 DEF PageClicks, Mute, Answer, Cuts, ClosePage, NetBreaks, pageVars,
                            PageTypes
  <1>8. ASSUME NEW c \in Conns, ShowCall(c) PROVE LinksInv'
    <2> DEFINE p == owner[c]
               s == Head(inbox[c]).from
    <2>1. Reads(c, "newRoom")
      BY <1>8 DEF ShowCall
    <2>2. s \in Sessions
      BY <1>0, <2>1, Read DEF Reads, Messages
    <2>3. Dialed(s) = key[p]
      BY <1>0, <2>1, <2>2, Read, Fresh DEF InboxInv
    <2>4. links' = [links EXCEPT ![p] = @ \cup {s}]
      BY <1>8 DEF ShowCall
    <2>5. rings' = rings \/ rings' = [rings EXCEPT ![p] = @ \cup {s}]
      BY <1>8 DEF ShowCall
    <2> HIDE DEF p, s
    <2>6. \A q \in Pages :
             /\ links'[q] \subseteq links[q] \cup (IF q = p THEN {s} ELSE {})
             /\ rings'[q] \subseteq rings[q] \cup (IF q = p THEN {s} ELSE {})
      BY <1>0, <2>4, <2>5 DEF PageTypes
    <2>7. \A q \in Pages : \A r \in links'[q] \cup rings'[q] :
             r \in links[q] \cup rings[q] \/ (r \in Sessions /\ Dialed(r) = key[q])
      BY <2>2, <2>3, <2>6
    <2> QED BY <2>7, LinksFrame
  <1> QED BY Cases, <1>2, <1>3, <1>4, <1>5, <1>6, <1>7, <1>8 DEF PageShows

-----------------------------------------------------------------------------
LEMMA CallsStep == CallsInv /\ [Next]_vars => CallsInv'
  <1> SUFFICES ASSUME CallsInv, [Next]_vars PROVE CallsInv'
    OBVIOUS
  <1>1. TypeOK'
    BY PageTypesStep, ConnTypesStep, CallerTypesStep
       DEF TypeOK, PageTypes, ConnTypes, CallerTypes, Nets, Pcs, Ats, Wires, Lines, Chats
  <1> QED BY <1>1, ConnStep, MapStep, CallerStep, SessionStep, InboxStep, LinksStep DEF CallsInv

LEMMA Calls == Spec => []CallsInv
  BY InitCalls, CallsStep, PTL DEF Spec

\* Every variable of the call center keeps its type (the session of
\* calleeService.go:144-236 and that of callerService.go:120-197).
THEOREM CallsTyped == Spec => []TypeOK
  <1>1. CallsInv => TypeOK
    BY DEF CallsInv
  <1> QED BY <1>1, Calls, PTL

\* The map never holds a websocket whose handler has ended, however many
\* sessions overlap, and on whichever socket a page announces itself
\* (calleeService.go:189, 229-232; rtccallee.js:49-50).
THEOREM MappedAreOnline == Spec => []OnlineAreMapped
  <1>1. CallsInv => OnlineAreMapped
    BY DEF CallsInv, MapInv, OnlineAreMapped
  <1> QED BY <1>1, Calls, PTL

\* Whatever a handler holds on to, and however often the caller's page connects
\* anew, nobody's page rings, or stops ringing, for a call to another key
\* (callerService.go:163, rtcSignaling.go:474).
THEOREM DialedRingOnly == Spec => []OnlyDialedRings
  <1>1. CallsInv => OnlyDialedRings
    BY DEF CallsInv, InboxInv, LinksInv, OnlyDialedRings
  <1> QED BY <1>1, Calls, PTL
=============================================================================
