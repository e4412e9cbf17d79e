----------------------------- MODULE CallCenter -----------------------------
(***************************************************************************)
(* calleeService.go and callerService.go with the pages that talk to them  *)
(* (rtccallee.js, caller-enter-name.js) and the two commands of            *)
(* rtcSignaling.go that start and stop the ringing.  All of them meet in   *)
(* the global CalleeMap, from a callee's public key to the websocket the   *)
(* callee announced itself on.                                             *)
(*                                                                         *)
(* Both kinds of pages open a new websocket whenever the server has been   *)
(* silent for six seconds, or the old one failed, and do not close the old *)
(* one; so a page may have several connections, each with a handler of its *)
(* own, and an older one may still bring it a call, or an invitation.  No  *)
(* session sends two calls, so a call is named by the caller's session:    *)
(* the room generateId() invents for it is taken to be fresh.              *)
(*                                                                         *)
(* Left out: alive? and alive! (only their timing matters: Connect and     *)
(* Redial), what happens in the room itself (RoomServer), "activateKeys"   *)
(* and the index page (KeyStore).                                          *)
(***************************************************************************)
EXTENDS Naturals, Sequences, FiniteSets

CONSTANTS Pages,         \* open rtccallee.js pages
          Conns,         \* the websockets such pages may open, all told
          Keys,          \* public callee keys
          Callers,       \* open caller-enter-name.js pages
          Sessions,      \* the websockets such pages may open, all told
          Names,         \* the names that callers may enter
          Nil            \* no connection, no page, no key, no session

ASSUME NilAssumption == Nil \notin Pages \cup Conns \cup Keys \cup Callers \cup Sessions
ASSUME KeysAssumption == "undefined" \notin Keys

VARIABLES
    key,         \* the key index.html was patched with, for each callee page
    page,        \* each callee page: "open" or "closed"
    socket,      \* the page's newest websocket
    told,        \* the one on which it last was told "others can call you now"
    links,       \* the calls the page shows a link for, or opened a window for
    rings,       \* the calls that made it ring since it was last silenced
    owner,       \* the page behind a websocket
    net,         \* each callee websocket: "none", "opening", "open", "eof" or "reset"
    announces,   \* "announce" commands sent up it and not yet handled
    inbox,       \* what was sent down it and not yet read
    pc,          \* its handler: "none", "receive" or "done"
    callerKey,   \* its local of that name
    CalleeMap,   \* the shared map; Nil stands for a missing key
    at,          \* what each caller is doing
    dialed,      \* the key in the URL of the caller's page
    phone,       \* the page's newest websocket
    room,        \* the call whose room the page went to
    caller,      \* the page behind a session
    wire,        \* each caller websocket: "none", "open", "broken" or "closed" by its page
    line,        \* where its handler stands
    callerName,  \* the name in its "call"
    calleeCws,   \* its local of that name
    chat,        \* the caller's rtcSignaling session
    forRingCws,  \* that session's local of that name
    answer,      \* the stopRing of the page that answers the call
    process      \* "up", or "aborted" by the Go runtime

pageVars   == <<key, page, socket, told, links, rings>>
connVars   == <<owner, net, announces, pc, callerKey>>
callerVars == <<at, dialed, phone, room>>
lineVars   == <<caller, wire, line, callerName, calleeCws>>
chatVars   == <<chat, forRingCws>>
vars == <<pageVars, connVars, inbox, CalleeMap, callerVars, lineVars, chatVars, answer, process>>

Messages == [cmd : {"callerKey"}, from : {Nil}]
                \cup [cmd : {"newRoom", "stopRing"}, from : Sessions]

\* main.go has the calls of this name answered automatically.
autoAnswer == "auto"

\* The server puts the name into a line of JSON as it is: with a quotation mark
\* in it, the callee's page cannot parse the line.
Parses(name) == name # "quoted"

Msg(cmd, x) == [cmd |-> cmd, from |-> x]

\* Sending on the websocket of a page that is gone reaches nobody.
Push(c, m) == inbox' = IF c # Nil /\ net[c] = "open"
                       THEN [inbox EXCEPT ![c] = Append(@, m)] ELSE inbox

Lookup(k) == IF k \in Keys THEN CalleeMap[k] ELSE Nil

\* The key that the page behind call s dialed.
Dialed(s) == IF caller[s] \in Callers THEN dialed[caller[s]] ELSE Nil

-----------------------------------------------------------------------------
Init ==
    /\ key \in [Pages -> Keys]
    /\ page = [p \in Pages |-> "open"]
    /\ socket = [p \in Pages |-> Nil]
    /\ told = [p \in Pages |-> Nil]
    /\ links = [p \in Pages |-> {}]
    /\ rings = [p \in Pages |-> {}]
    /\ owner = [c \in Conns |-> Nil]
    /\ net = [c \in Conns |-> "none"]
    /\ announces = [c \in Conns |-> 0]
    /\ inbox = [c \in Conns |-> <<>>]
    /\ pc = [c \in Conns |-> "none"]
    /\ callerKey = [c \in Conns |-> Nil]
    /\ CalleeMap = [k \in Keys |-> Nil]
    /\ at = [x \in Callers |-> "away"]
    /\ dialed = [x \in Callers |-> Nil]
    /\ phone = [x \in Callers |-> Nil]
    /\ room = [x \in Callers |-> Nil]
    /\ caller = [s \in Sessions |-> Nil]
    /\ wire = [s \in Sessions |-> "none"]
    /\ line = [s \in Sessions |-> "none"]
    /\ callerName = [s \in Sessions |-> ""]
    /\ calleeCws = [s \in Sessions |-> Nil]
    /\ chat = [x \in Callers |-> "none"]
    /\ forRingCws = [x \in Callers |-> Nil]
    /\ answer = [s \in Sessions |-> "none"]
    /\ process = "up"

-----------------------------------------------------------------------------
(* A callee's websocket and its handler.                                   *)

\* The page creates a websocket: for the first time, after an error, or because
\* six seconds passed without a word from the server.
Connect(p, c) ==
    /\ page[p] = "open"
    /\ owner[c] = Nil
    /\ owner' = [owner EXCEPT ![c] = p]
    /\ socket' = [socket EXCEPT ![p] = c]
    /\ net' = [net EXCEPT ![c] = "opening"]
    /\ UNCHANGED <<key, page, told, links, rings, announces, pc, callerKey, inbox, CalleeMap,
                   callerVars, lineVars, chatVars, answer, process>>

\* It opens, and the handler greets it.  onopen announces the page, but on the
\* newest of its websockets: that may have been announced before, and an
\* "announce" on one that is not open, or no more, is lost.
Opens(c) ==
    /\ net[c] = "opening"
    /\ net' = [net EXCEPT ![c] = "open"]
    /\ pc' = [pc EXCEPT ![c] = "receive"]
    /\ LET d == socket[owner[c]] IN
        announces' = IF d = c \/ net[d] = "open" THEN [announces EXCEPT ![d] = @ + 1] ELSE announces
    /\ UNCHANGED <<pageVars, owner, callerKey, inbox, CalleeMap,
                   callerVars, lineVars, chatVars, answer, process>>

\* It does not open, or the handler's greeting fails.
OpenFails(c) ==
    /\ net[c] = "opening"
    /\ net' = [net EXCEPT ![c] = "reset"]
    /\ pc' = [pc EXCEPT ![c] = "done"]
    /\ UNCHANGED <<pageVars, owner, announces, callerKey, inbox, CalleeMap,
                   callerVars, lineVars, chatVars, answer, process>>

Announcing(c) == pc[c] = "receive" /\ announces[c] > 0 /\ net[c] \in {"open", "eof"}

\* "announce": whoever was registered under the key is so no more.
RecvAnnounce(c) ==
    /\ Announcing(c)
    /\ announces' = [announces EXCEPT ![c] = @ - 1]
    /\ LET k == key[owner[c]] IN
        /\ callerKey' = [callerKey EXCEPT ![c] = k]
        /\ CalleeMap' = [CalleeMap EXCEPT ![k] = c]
    /\ Push(c, Msg("callerKey", Nil))
    /\ UNCHANGED <<pageVars, owner, net, pc, callerVars, lineVars, chatVars, answer, process>>

HandlerDone(c) ==
    /\ pc' = [pc EXCEPT ![c] = "done"]
    /\ callerKey' = [callerKey EXCEPT ![c] = Nil]
    /\ UNCHANGED <<pageVars, owner, net, announces, inbox, callerVars, lineVars, chatVars,
                   answer, process>>

Unregistered(c) == [CalleeMap EXCEPT ![callerKey[c]] = Nil]

\* (Mutants: the handler returns where it should break out of the loop; it
\* leaves the loop on an EOF only.)
EndCalleeReturning(c) ==
    pc[c] = "receive" /\ net[c] \in {"eof", "reset"} /\ HandlerDone(c) /\ UNCHANGED CalleeMap
EndCalleeOnEOF(c) ==
    /\ pc[c] = "receive" /\ net[c] = "eof" /\ HandlerDone(c)
    /\ CalleeMap' = IF callerKey[c] # Nil THEN Unregistered(c) ELSE CalleeMap

\* Receiving fails, or answering an "alive?" does: the handler unregisters the
\* key it was told, whoever is registered under it now.
EndCallee(c) ==
    /\ pc[c] = "receive"
    /\ net[c] \in {"eof", "reset"}
    /\ CalleeMap' = IF callerKey[c] # Nil THEN Unregistered(c) ELSE CalleeMap
    /\ HandlerDone(c)

-----------------------------------------------------------------------------
(* What the callee's page does with what it reads, on any of its sockets.  *)

Reads(c, cmd) ==
    /\ net[c] = "open"
    /\ inbox[c] # <<>>
    /\ Head(inbox[c]).cmd = cmd
    /\ inbox' = [inbox EXCEPT ![c] = Tail(@)]
    /\ UNCHANGED <<key, page, socket, connVars, CalleeMap, callerVars, lineVars, chatVars, process>>

ShowCallerKey(c) ==
    /\ Reads(c, "callerKey")
    /\ told' = [told EXCEPT ![owner[c]] = c]
    /\ UNCHANGED <<links, rings, answer>>

\* An automatically answered call opens the chat window, any other rings.
ShowCall(c) ==
    /\ Reads(c, "newRoom")
    /\ LET p == owner[c]
           s == Head(inbox[c]).from IN
        /\ Parses(callerName[s])
        /\ links' = [links EXCEPT ![p] = @ \cup {s}]
        /\ IF callerName[s] = autoAnswer
           THEN answer' = [answer EXCEPT ![s] = "sent"] /\ UNCHANGED rings
           ELSE rings' = [rings EXCEPT ![p] = @ \cup {s}] /\ UNCHANGED answer
    /\ UNCHANGED told

\* JSON.parse throws: the call is neither shown nor heard.
CallThrows(c) ==
    /\ Reads(c, "newRoom")
    /\ ~Parses(callerName[Head(inbox[c]).from])
    /\ UNCHANGED <<told, links, rings, answer>>

StopRing(c) ==
    /\ Reads(c, "stopRing")
    /\ rings' = [rings EXCEPT ![owner[c]] = {}]
    /\ UNCHANGED <<told, links, answer>>

\* The callee clicks on "mute".
Mute(p) ==
    /\ page[p] = "open"
    /\ rings[p] # {}
    /\ rings' = [rings EXCEPT ![p] = {}]
    /\ UNCHANGED <<key, page, socket, told, links, connVars, inbox, CalleeMap,
                   callerVars, lineVars, chatVars, answer, process>>

\* The callee clicks on the link: rtcchat.js sends "stopRing" from the new window.
Answer(p, s) ==
    /\ page[p] = "open"
    /\ s \in links[p]
    /\ answer[s] = "none"
    /\ answer' = [answer EXCEPT ![s] = "sent"]
    /\ UNCHANGED <<pageVars, connVars, inbox, CalleeMap, callerVars, lineVars, chatVars, process>>

\* The key= in that link.  onmessage has a "var key" of its own, for the
\* "callerKey" message, which is not set while it handles "newRoom".
LinkKey == "undefined"

RecvStopRing(s) ==
    /\ answer[s] = "sent"
    /\ answer' = [answer EXCEPT ![s] = "done"]
    /\ Push(Lookup(LinkKey), Msg("stopRing", s))
    /\ UNCHANGED <<pageVars, connVars, CalleeMap, callerVars, lineVars, chatVars, process>>

-----------------------------------------------------------------------------
(* A caller, from the form to the room.                                    *)

\* Page x has a new websocket, and shows the form as soon as it is open.
Dials(x, s) ==
    /\ caller[s] = Nil
    /\ caller' = [caller EXCEPT ![s] = x]
    /\ wire' = [wire EXCEPT ![s] = "open"]
    /\ line' = [line EXCEPT ![s] = "receive"]
    /\ phone' = [phone EXCEPT ![x] = s]
    /\ at' = [at EXCEPT ![x] = "form"]
    /\ UNCHANGED <<pageVars, connVars, inbox, CalleeMap, room, callerName, calleeCws, chatVars,
                   answer, process>>

\* /call:<key> serves the form ...
LoadForm(x, k, s) ==
    /\ at[x] = "away"
    /\ CalleeMap[k] # Nil
    /\ dialed' = [dialed EXCEPT ![x] = k]
    /\ Dials(x, s)

\* ... or a page that says the callee is not available.
LoadUnavailable(x, k) ==
    /\ at[x] = "away"
    /\ CalleeMap[k] = Nil
    /\ at' = [at EXCEPT ![x] = "unavailable"]
    /\ UNCHANGED <<pageVars, connVars, inbox, CalleeMap, dialed, phone, room, lineVars,
                   chatVars, answer, process>>

\* The page connects anew, after an error or six seconds of silence, whatever
\* the handlers of its older websockets are doing.
Redial(x, s) ==
    /\ at[x] \in {"form", "calling"}
    /\ Dials(x, s)
    /\ UNCHANGED dialed

\* The caller enters a name; a call on a websocket that is broken gets lost.
MakeCall(x, name) ==
    /\ at[x] = "form"
    /\ at' = [at EXCEPT ![x] = "calling"]
    /\ LET s == phone[x] IN
        IF wire[s] = "open"
        THEN /\ callerName' = [callerName EXCEPT ![s] = name]
             /\ line' = [line EXCEPT ![s] = "called"]
        ELSE UNCHANGED <<callerName, line>>
    /\ UNCHANGED <<pageVars, connVars, inbox, CalleeMap, dialed, phone, room, caller, wire,
                   calleeCws, chatVars, answer, process>>

\* What the handler of a caller's websocket leaves alone.
HandlerStep == UNCHANGED <<pageVars, connVars, CalleeMap, callerVars, caller, wire, callerName,
                           chatVars, answer, process>>

\* (Mutant: every registered callee will do.)
RecvCallAny(s) ==
    /\ line[s] = "called"
    /\ \E k \in Keys :
        /\ CalleeMap[k] # Nil
        /\ calleeCws' = [calleeCws EXCEPT ![s] = CalleeMap[k]]
    /\ line' = [line EXCEPT ![s] = "found"]
    /\ HandlerStep /\ UNCHANGED inbox

\* "call": the callee is looked up ...
RecvCall(s) ==
    /\ line[s] = "called"
    /\ CalleeMap[Dialed(s)] # Nil
    /\ calleeCws' = [calleeCws EXCEPT ![s] = CalleeMap[Dialed(s)]]
    /\ line' = [line EXCEPT ![s] = "found"]
    /\ HandlerStep /\ UNCHANGED inbox

\* ... and if the key is gone the handler returns without a word, neither to
\* the caller nor to the goroutine that waits for it and holds the websocket.
RecvCallMisses(s) ==
    /\ line[s] = "called"
    /\ CalleeMap[Dialed(s)] = Nil
    /\ line' = [line EXCEPT ![s] = "leaked"]
    /\ HandlerStep /\ UNCHANGED <<inbox, calleeCws>>

\* (Mutant: the room is announced without the caller.)
SendRoomNameless(s) ==
    /\ line[s] = "found" /\ pc[calleeCws[s]] # "done"
    /\ Push(calleeCws[s], Msg("newRoom", Nil))
    /\ line' = [line EXCEPT ![s] = "offered"]
    /\ HandlerStep /\ UNCHANGED calleeCws

\* The callee gets the new room first.  A send into a connection that is
\* broken, but still being handled, may go through.
SendRoom(s) ==
    /\ line[s] = "found"
    /\ pc[calleeCws[s]] # "done"
    /\ Push(calleeCws[s], Msg("newRoom", s))
    /\ line' = [line EXCEPT ![s] = "offered"]
    /\ HandlerStep /\ UNCHANGED calleeCws

\* The send fails: the handler says nothing and waits for another command.
SendRoomFails(s) ==
    /\ line[s] = "found"
    /\ net[calleeCws[s]] # "open"
    /\ line' = [line EXCEPT ![s] = "receive"]
    /\ HandlerStep /\ UNCHANGED <<inbox, calleeCws>>

\* Then the caller gets it, if its websocket still carries it: the handler does
\* not look, and quits.
Invite(s) ==
    /\ line[s] = "offered"
    /\ line' = [line EXCEPT ![s] = IF wire[s] = "open" THEN "invited" ELSE "done"]
    /\ HandlerStep /\ UNCHANGED <<inbox, calleeCws>>

\* Receiving fails, or answering an "alive?" does: the websocket is gone, and
\* a "call" on its way may be gone with it.
EndCaller(s) ==
    /\ wire[s] \in {"broken", "closed"}
    /\ line[s] \in {"receive", "called"}
    /\ line' = [line EXCEPT ![s] = "done"]
    /\ HandlerStep /\ UNCHANGED <<inbox, calleeCws>>

\* A page that is left closes its websockets.
HangUp(x) == wire' = [s \in Sessions |-> IF caller[s] = x THEN "closed" ELSE wire[s]]

\* (Mutant: the page listens to its newest websocket only.)
EnterRoomNewest(x, s) ==
    /\ at[x] \in {"form", "calling"} /\ phone[x] = s /\ line[s] = "invited" /\ wire[s] = "open"
    /\ at' = [at EXCEPT ![x] = "chatting"]
    /\ room' = [room EXCEPT ![x] = s]
    /\ chat' = [chat EXCEPT ![x] = "open"]
    /\ HangUp(x)
    /\ UNCHANGED <<pageVars, connVars, inbox, CalleeMap, dialed, phone, caller, line, callerName,
                   calleeCws, forRingCws, answer, process>>

\* The page reads the room, on any of its websockets, and the browser goes to
\* the chat page, which sends "forRing" first of all.
EnterRoom(x, s) ==
    /\ at[x] \in {"form", "calling"}
    /\ caller[s] = x
    /\ line[s] = "invited"
    /\ wire[s] = "open"
    /\ at' = [at EXCEPT ![x] = "chatting"]
    /\ room' = [room EXCEPT ![x] = s]
    /\ chat' = [chat EXCEPT ![x] = "open"]
    /\ HangUp(x)
    /\ UNCHANGED <<pageVars, connVars, inbox, CalleeMap, dialed, phone, caller, line, callerName,
                   calleeCws, forRingCws, answer, process>>

RecvForRing(x) ==
    /\ chat[x] = "open"
    /\ forRingCws' = [forRingCws EXCEPT ![x] = Lookup(dialed[x])]
    /\ chat' = [chat EXCEPT ![x] = "ringing"]
    /\ UNCHANGED <<pageVars, connVars, inbox, CalleeMap, callerVars, lineVars, answer, process>>

\* The caller goes away, or the chat page hangs up the websocket because the
\* two browsers have found each other, or that websocket breaks.
CallerLeaves(x) ==
    /\ at[x] \in {"form", "calling", "chatting"}
    /\ at' = [at EXCEPT ![x] = "left"]
    /\ HangUp(x)
    /\ UNCHANGED <<pageVars, connVars, inbox, CalleeMap, dialed, phone, room, caller, line,
                   callerName, calleeCws, chatVars, answer, process>>

\* (Mutant: the ringing is stopped only if the call was answered.)
EndChatAnswered(x) ==
    /\ at[x] = "left" /\ chat[x] \in {"open", "ringing"}
    /\ chat' = [chat EXCEPT ![x] = "done"]
    /\ forRingCws' = [forRingCws EXCEPT ![x] = Nil]
    /\ IF answer[room[x]] = "none"
       THEN UNCHANGED inbox ELSE Push(forRingCws[x], Msg("stopRing", room[x]))
    /\ UNCHANGED <<pageVars, connVars, CalleeMap, callerVars, lineVars, answer, process>>

EndChat(x) ==
    /\ at[x] = "left"
    /\ chat[x] \in {"open", "ringing"}
    /\ chat' = [chat EXCEPT ![x] = "done"]
    /\ forRingCws' = [forRingCws EXCEPT ![x] = Nil]
    /\ Push(forRingCws[x], Msg("stopRing", room[x]))
    /\ UNCHANGED <<pageVars, connVars, CalleeMap, callerVars, lineVars, answer, process>>

-----------------------------------------------------------------------------
(* The world outside.                                                      *)

\* What a broken connection still carried is lost to the page.
Cut(cs, how) ==
    /\ net' = [c \in Conns |-> IF c \in cs THEN how ELSE net[c]]
    /\ inbox' = [c \in Conns |-> IF c \in cs THEN <<>> ELSE inbox[c]]

ClosePage(p) ==
    /\ page[p] = "open"
    /\ page' = [page EXCEPT ![p] = "closed"]
    /\ socket' = [socket EXCEPT ![p] = Nil]
    /\ told' = [told EXCEPT ![p] = Nil]
    /\ links' = [links EXCEPT ![p] = {}]
    /\ rings' = [rings EXCEPT ![p] = {}]
    /\ Cut({c \in Conns : owner[c] = p /\ net[c] \in {"opening", "open"}}, "eof")
    /\ UNCHANGED <<key, owner, announces, pc, callerKey, CalleeMap, callerVars, lineVars,
                   chatVars, answer, process>>

NetBreaks(c) ==
    /\ net[c] = "open"
    /\ Cut({c}, "reset")
    /\ UNCHANGED <<pageVars, owner, announces, pc, callerKey, CalleeMap, callerVars, lineVars,
                   chatVars, answer, process>>

WireBreaks(s) ==
    /\ wire[s] = "open"
    /\ wire' = [wire EXCEPT ![s] = "broken"]
    /\ UNCHANGED <<pageVars, connVars, inbox, CalleeMap, callerVars, caller, line, callerName,
                   calleeCws, chatVars, answer, process>>

WritesMap(c) == Announcing(c) \/ (pc[c] = "receive" /\ callerKey[c] # Nil /\ net[c] # "open")
ReadsMap == \/ \E x \in Callers : at[x] = "away" \/ chat[x] = "open"
            \/ \E s \in Sessions : line[s] = "called" \/ answer[s] = "sent"

\* The Go runtime aborts a process it catches using a map that is being written.
MapAbort(c) ==
    /\ WritesMap(c)
    /\ ReadsMap \/ \E d \in Conns \ {c} : WritesMap(d)
    /\ process' = "aborted"
    /\ UNCHANGED <<pageVars, connVars, inbox, CalleeMap, callerVars, lineVars, chatVars, answer>>

-----------------------------------------------------------------------------
Up == process = "up"

\* Steps that are taken as soon as a goroutine, or a page's event loop, runs.
Handle(c)    == Up /\ (RecvAnnounce(c) \/ EndCallee(c))
PageReads(c) == Up /\ (ShowCallerKey(c) \/ ShowCall(c) \/ CallThrows(c) \/ StopRing(c))
ServeCall(s) == Up /\ (RecvCall(s) \/ RecvCallMisses(s) \/ SendRoom(s) \/ SendRoomFails(s)
                       \/ Invite(s) \/ EndCaller(s))
CallerReads(x) == Up /\ \E s \in Sessions : EnterRoom(x, s)
ServeChat(x) == Up /\ (RecvForRing(x) \/ EndChat(x))
ServeAnswer(s) == Up /\ RecvStopRing(s)

\* Steps people and networks take when they please.
CalleeDoes(p) ==
    /\ Up
    /\ \/ \E c \in Conns : Connect(p, c)
       \/ \E s \in Sessions : Answer(p, s)
       \/ Mute(p)
       \/ ClosePage(p)

CallerDoes(x) ==
    /\ Up
    /\ \/ \E k \in Keys : LoadUnavailable(x, k) \/ \E s \in Sessions : LoadForm(x, k, s)
       \/ \E name \in Names : MakeCall(x, name)
       \/ \E s \in Sessions : Redial(x, s)
       \/ CallerLeaves(x)

NetDoes(c) == Up /\ (Opens(c) \/ OpenFails(c) \/ NetBreaks(c) \/ MapAbort(c))

Next == \/ \E p \in Pages : CalleeDoes(p)
        \/ \E c \in Conns : Handle(c) \/ PageReads(c) \/ NetDoes(c)
        \/ \E s \in Sessions : ServeCall(s) \/ ServeAnswer(s) \/ (Up /\ WireBreaks(s))
        \/ \E x \in Callers : CallerReads(x) \/ ServeChat(x) \/ CallerDoes(x)

Spec == Init /\ [][Next]_vars

\* The Go scheduler and the browsers' event loops get round to everybody.
Fairness == /\ \A c \in Conns : WF_vars(Handle(c)) /\ WF_vars(PageReads(c))
            /\ \A s \in Sessions : WF_vars(ServeCall(s)) /\ WF_vars(ServeAnswer(s))
            /\ \A x \in Callers : WF_vars(CallerReads(x)) /\ WF_vars(ServeChat(x))

FairSpec == Spec /\ Fairness

-----------------------------------------------------------------------------
(* Properties.                                                             *)

\* Every variable keeps its type.
TypeOK ==
    /\ key \in [Pages -> Keys]
    /\ page \in [Pages -> {"open", "closed"}]
    /\ socket \in [Pages -> Conns \cup {Nil}]
    /\ told \in [Pages -> Conns \cup {Nil}]
    /\ links \in [Pages -> SUBSET Sessions]
    /\ rings \in [Pages -> SUBSET Sessions]
    /\ owner \in [Conns -> Pages \cup {Nil}]
    /\ net \in [Conns -> {"none", "opening", "open", "eof", "reset"}]
    /\ announces \in [Conns -> Nat]
    /\ inbox \in [Conns -> Seq(Messages)]
    /\ pc \in [Conns -> {"none", "receive", "done"}]
    /\ callerKey \in [Conns -> Keys \cup {Nil}]
    /\ CalleeMap \in [Keys -> Conns \cup {Nil}]
    /\ at \in [Callers -> {"away", "unavailable", "form", "calling", "chatting", "left"}]
    /\ dialed \in [Callers -> Keys \cup {Nil}]
    /\ phone \in [Callers -> Sessions \cup {Nil}]
    /\ room \in [Callers -> Sessions \cup {Nil}]
    /\ caller \in [Sessions -> Callers \cup {Nil}]
    /\ wire \in [Sessions -> {"none", "open", "broken", "closed"}]
    /\ line \in [Sessions -> {"none", "receive", "called", "found", "offered", "invited",
                              "done", "leaked"}]
    /\ callerName \in [Sessions -> Names \cup {""}]
    /\ calleeCws \in [Sessions -> Conns \cup {Nil}]
    /\ chat \in [Callers -> {"none", "open", "ringing", "done"}]
    /\ forRingCws \in [Callers -> Conns \cup {Nil}]
    /\ answer \in [Sessions -> {"none", "sent", "done"}]
    /\ process \in {"up", "aborted"}

\* "only callee's that are online are mapped" (callerService.go:24): the map
\* never holds a websocket whose handler has ended, however the sessions of a
\* page that reconnects overlap (calleeService.go:189, 231).
OnlineAreMapped == \A k \in Keys : CalleeMap[k] # Nil => pc[CalleeMap[k]] = "receive"

\* Nobody's page rings, or stops ringing, for a call to somebody else, although
\* handlers hold on to websockets they looked up long ago (callerService.go:163,
\* rtcSignaling.go:474).
OnlyDialedRings ==
    /\ \A c \in Conns : \A i \in DOMAIN inbox[c] :
          inbox[c][i].from # Nil => Dialed(inbox[c][i].from) = key[owner[c]]
    /\ \A p \in Pages : \A s \in links[p] \cup rings[p] : Dialed(s) = key[p]

\* A callee whose connection is gone is taken off the map (calleeService.go:168-175,
\* 229-232), unless the process dies.
OfflineUnmapped ==
    \A k \in Keys, c \in Conns :
        (CalleeMap[k] = c /\ net[c] # "open") ~> (CalleeMap[k] # c \/ process # "up")

\* A call that finds its callee is shown on the callee's page, and takes the
\* caller's page to a room (callerService.go:163-191).  Nothing is promised of a
\* name the page cannot parse, for then only the caller goes to the room, nor when
\* either websocket breaks, or when somebody goes.
CallIsOffered ==
    \A s \in Sessions, c \in Conns :
        (line[s] = "found" /\ calleeCws[s] = c /\ Parses(callerName[s]))
            ~> \/ process # "up" \/ net[c] # "open"
               \/ /\ s \in links[owner[c]]
                  /\ \/ room[caller[s]] # Nil
                     \/ wire[s] = "broken" \/ at[caller[s]] = "left"

\* Once a caller whose chat page took hold of the callee's websocket is gone, the
\* callee's page no longer rings for the call that led it there, and no ring for
\* it is on its way (rtcSignaling.go:468-478, 487-491).  (A caller who goes before
\* that leaves the page ringing: nobody knows whom to tell.)
HangupStopsRing ==
    \A x \in Callers, s \in Sessions, c \in Conns :
        (at[x] = "left" /\ room[x] = s /\ forRingCws[x] = c /\ calleeCws[s] = c)
            ~> \/ process # "up" \/ net[c] # "open"
               \/ /\ s \notin rings[owner[c]]
                  /\ \A i \in DOMAIN inbox[c] : inbox[c][i] # Msg("newRoom", s)

-----------------------------------------------------------------------------
(* What the documentation says, and the program does not do.               *)

\* rtccallee.js:83, "connected, others can call you now": a page that was told
\* so on its newest connection, which is still open, can be called.
ReachableWhenTold ==
    \A p \in Pages :
        (/\ page[p] = "open" /\ socket[p] # Nil /\ told[p] = socket[p]
         /\ net[socket[p]] = "open")
            => CalleeMap[key[p]] # Nil
=============================================================================
