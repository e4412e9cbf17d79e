# TLA+ for rtcchat2

rtcchat2 lets two browsers meet in a room, exchange the descriptions of a WebRTC
connection, and chat over it; a directory of callees lets one person ring another.
This directory holds models of the server and of the pages that talk to it, the
TLC configurations that check them on small instances, and proofs, checked by
TLAPS, of what holds for instances of any size.

    tlc -config rooms_safety.cfg MCRoomServer.tla
    tlapm RoomPeer_proofs.tla

## 1. The system and its parts

One Go process runs everything; each websocket has a goroutine of its own, and the
goroutines share three maps and a key file, mostly without locks.

| part | source | state | operations | talks to |
|---|---|---|---|---|
| room signaling | `rtcSignaling.go` | `roomInfoMap`; per session clientId, room, link type, the other's websocket | connect, subscribe, messageForward, stopRing, forRing, end of session | chat pages; `CalleeMap`; UDP relay |
| SDP patching | `rtcSignaling.go:327-443` | `sessionNumber` | replace addresses, start proxies | UDP relay |
| callee service | `calleeService.go` | `CalleeMap`, `MakeKeyMap`; per session callerKey | index page, /callee:, announce, activateKeys, alive?, end of session | callee and new-keys pages; key store |
| caller service | `callerService.go` | per session calleeCws | /call:, call, alive?, end of session | caller page; callee's websocket through `CalleeMap` |
| key store | `calleePersistKey.go` | the collection `C`, its file, the token `gkvCanWrite` | get, set, create, use, clean | callee service; the disk |
| UDP relay | `udpProxy.go` | `udpConns`, two goroutines a proxy | relay, tear down | clients' UDP |
| STUN server | `stun.go` | none | answer a binding request | clients' UDP |
| chat page | `html/signaling/rtcchat.js` | clientCount, IAmUser, pc1, pc2, data channel | subscribe, offer, answer, chat, send a file | room signaling; the other chat page |
| callee page | `html/callee/rtccallee.js` | its websockets, links, ringing | announce, ring, mute | callee service; opens a chat page |
| caller page | `html/caller-enter-name/*.js` | its websocket | call | caller service; becomes a chat page |
| new-keys page | `html/callee-new-keys/*.js` | its keys | activateKeys | callee service |
| heartbeat | the last three pages, word for word | the global socket, `lastServerAction`, chains of timers | ask alive?, reconnect, onopen, onerror | their services |

What is hard about it:

- *Interleaving.* A handler looks an entry of a map up, works on a copy and stores
  it later. Another handler can be anywhere in between. The Go runtime may even
  abort a process it catches using a map that is being written.
- *Stale state.* Handlers keep websockets they looked up long ago, while their
  owners leave or reconnect.
- *Failure.* Connections close, or break without a close, at any moment; sends
  fail half way through a handler; the server crashes between a change in memory
  and the flush to the file.
- *Timing.* Pages reconnect on their own clocks, without closing what they had.

`PROJECT.json` lists these hazards one by one, at their lines, with the properties
that watch over them; the parts with what makes each of them correct:

- room signaling: users are counted, the two in a room are paired with each other
  and agree on the link mode, nothing crosses rooms, sessions end;
- callee and caller service: whoever is mapped is online, only the dialed page rings,
  a call that found its callee is shown there, ringing starts and stops;
- key store: one mutator at a time, confirmed keys survive as long as the disk works,
  unused keys go;
- UDP relay: every port is given back whichever way a proxy's loop ends, and the
  teardown of a session leaves other sessions alone;
- chat page: exactly one side makes the offer, nobody waits in silence, and the
  room's name is given back; file transfer: what arrives is what was sent;
- heartbeat: a page never stops trying, and does not multiply its attempts.

## 2. The modules

`Rendezvous` states what a room is to the people who use it: found it, join it,
leave it, and a link mode that is p2p only if both asked for it.

`RoomServer` is `WsSessionHandler`. `pc` says where each handler stands. A step
that reads the map and a step that writes it back are separate (`SubscribeNew`,
`SubscribeFound`, `LeaveRead` take a copy `r`; `StoreRoom`, `LeaveWrite` write it),
and so are sends where the code can stop between two of them. `net` is the
websocket as the client left it: `eof` after a close, `reset` when it broke.
Everything sent before a close is still delivered ahead of the EOF, and the
handler decides when it reads on. `raced` and `crowded` are history: the rooms
on which two handlers overlapped, and those a third client subscribed to; they do
not touch the behaviour, and let properties speak of the *calm* rooms.
Clients do what rtcchat.js does: one subscribe per websocket, a forward only after
they heard of somebody; `Hasty` clients type their room in before they are ready.
The rooms of `Blank` have the empty name, which the form may send: the end of a session
gives such an entry back to nobody (rtcSignaling.go:496), so they are never calm.

`CallCenter` is the callee and the caller service with their pages, and the two
commands of `rtcSignaling.go` that concern the ringing, because all of them meet
in `CalleeMap`. A callee's page may own several websockets (`Conns`), each with a handler
and an inbox of its own; that is how the heartbeat appears (`Connect` at any time,
without closing the older one). onopen announces the page on the newest of them,
whichever it is that opened. A caller's page may own several too (`Sessions`; `Redial`
at any time), each of which carries one call at most and may break while the page
stays; so a call is named by its session. `line[s]` follows the handler of session
`s` through "call", with the lookup, the two sends and the end as separate steps,
`chat[x]` the session of a caller's chat page, `answer[s]` that of the window in which
the callee answers. A caller gives a name with each call (`callerName`); one of the
names is answered automatically, and one has a quotation mark in it, which makes the
callee's page throw (`Parses`).

`KeyStore` is `calleePersistKey.go` and the commands that use it. `C` is the
collection in memory and `file` the one on disk; `GkvSet` is five steps (wait for
the token and take it, change `C` and put the token back, take the collection for the
flush, write it), `BGCleaner` visits keys one by one and checks, waits, deletes and
flushes. As the code ignores the errors of `C.Get`, `C.Set`, `C.Delete` and `S.Flush`,
each of these may fail and the goroutine goes on (`Fails`); flushes run beside each
other, and the one that began first may write last. A crash may come anywhere and
leaves the file only. `spoiled` is history: did a call fail, or did flushes overlap?

`ChatClient` is rtcchat.js from onopen to the open data channel, one page per
session: `clientCount` and `IAmUser`, the chain of browser callbacks behind an offer
and an answer (`offer[s]` and `answer[s]` say how far they got), the three
five-second alarms, and the data channel whose opening hangs up the websocket. A
callback that the code says "may not be called" need not come. The module leaves open
where messages come from and go to.

`ChatSystem` composes `ChatClient` with `RoomServer`. A handler of `RoomServer` takes
the command that its page really sent (`ServerTakes`), a page reads what the handler
really wrote (`PageReads`), and a page that hangs up or is left closes its
websocket, after everything it sent. So the assumptions that `RoomServer` makes of
its clients become a property of the composition (`CommandsFit`).

`FileTransfer` is `sendFile` and `sendMessage` on one page and `receiveMessage` on the
other. A file is a sequence of units that are all distinct, cut into packets by the
code's own arithmetic (`numberOfPackets`, `LastPieces`), with the header of a data URL
that the receiver splits off at the comma. The channel keeps the order but may lose
messages and may close: the page asks for it with `{reliable:false}`.

`Heartbeat` is `checkHeartBeats` and the websocket events of the callee, the caller and
the new-keys page, which have them word for word. It counts what piles up: chains of
timers (`loops`), reconnects that `onerror` scheduled (`timers`), and connection
attempts (`older`), because every reconnect overwrites the global socket and closes
nothing. `CallCenter` has only its effect, a second connection of a page.

`UdpRelay` is the relayed link: `UdpProxy`, the worker and the sub goroutine of every
proxy, and the teardown through `udpConns`, as the handlers of the forwards start
them. Ports are what the proxies compete for: the proxy of one client listens on the
port the other side's proxy wants to dial from, and `Owners` is what the operating
system allows. A target that does not resolve ends a worker in front of its loop
(`NotResolved`), a write may fail at any time (`WriteFails`), and `nils` says which of the
variables `c` and `c2` have become nil. Checks such as `c2 != nil` and the calls that
follow them are separate steps where another goroutine can come in between: then the
call panics and the process ends (`WorkerPanics`, `SubPanics`), as it may when two
workers use `udpConns` at once (`MapAbort`).

`MCRoomServer`, `MCCallCenter`, `MCKeyStore`, `MCChatSystem`, `MCFileTransfer`,
`MCHeartbeat` and `MCUdpRelay` are the instances for TLC. The theorems are in
`RoomServer_proofs`, which `RoomPeer_proofs` extends and `ChatSystem_proofs` after it,
and in `CallCenter_proofs`, `KeyStore_proofs`, `Heartbeat_proofs`, `UdpRelay_proofs`
and `FileTransfer_proofs`.

Definitions marked *Mutant* are not part of a model: each is a variant of the
definition after it with a plausible mistake in it, and shows that a property
notices that mistake (`PROJECT.json`, "mutants").

### What is abstracted

Messages are records with a command and the one field that matters; identifiers
are model values, and what `generateId` and `CreateNewKeys` draw is taken to be
fresh. Of an SDP only the outcome of patching it is kept. Logging, page layout,
the admin channels and `newRoomCmd` (nothing registers a channel or sets a
command), and alive?/alive! (nothing but their timing matters) are left out. A
send to a websocket whose client is gone reaches nobody; whether the code sees an
error from it is left open. In `KeyStore` a unit of time is a month, and handlers
take no time.

In `ChatClient` the ringing commands (in `CallCenter`), media streams, the links in a
message and the parsing of the URL are left out. In `Heartbeat` the age of the last
answer has three values, one for each branch of the code. In `UdpRelay`
`runningThreads`, which is for debugging, is left out, and so is the fixed size of
`portArray`, which a description with more than 16 candidates
overruns. Its parameter `Sdp` is where the address of a description occurs: the code
takes the first occurrence for the line `c=` and makes no proxy for it.

## 3. The runs

Passing runs:

| run | instance | shows |
|---|---|---|
| `rooms` | 2 hasty sessions, a room and the room of the empty name, 1 broken connection, all interleavings, fair | `TypeOK`, `RoomIsolation`, `SessionEnds`, `JoinerAnnounced` |
| `rooms_safety` | 3 sessions, 1 room, both link types, 1 broken connection, no overlap, but crowds | `UsersCounted`, `LinkAgreement`, `ForwardHasPeer`, `OfflineIsTrue`; `RoomsKeepPromise`: RoomServer implements Rendezvous until a room is crowded |
| `calls_safety` | 2 callee pages, 2 websockets, 2 keys, 1 caller with 1 session, 3 names | `TypeOK`, `OnlineAreMapped`, `OnlyDialedRings` |
| `calls_live` | 1 callee page, 1 websocket, 1 caller with 2 sessions, 3 names, fair | `OfflineUnmapped`, `CallIsOffered`, `HangupStopsRing` |
| `keys` | 1 key, 2 goroutines and the cleaner, 2 crashes, 1 failing call, fair | `OneMutator`, `ConfirmedSurvives`, `WritesEnd`, `IdleKeysGo` |
| `chat` | 2 pages and the room server, one page a Firefox and its room typed in, 1 broken connection, fair | `ChatTypeOK`, `RolesDiffer`, `CommandsFit`, `DescriptionsFit`, `PairSettles`, `RoomIsFreed` |
| `files` | 2 files of 5 sizes, 1 message, 2 losses, fair | `TypeOK`, `LogsAgree`, `WholeFilesIntact`, `FilesArrive`, `ButtonReturns` |
| `heartbeat` | 3 outages, 3 errors, fair | `OpenIsWatched`, `TriesCounted`, `Recovers` |
| `relay` | 1 call with 2 proxies on one side and 1 on the other, fair | `TypeOK`, `PortsGivenBack`, `OneSideStays`, `OwnSessionOnly`, `WindsDown` |

Runs that refute something the documentation says (each a finding in
`PROJECT.json`):

| run | what is said | what happens |
|---|---|---|
| `rooms_tabs` | README.md:100, the two tabs connect | both become user 1 when they come at the same moment |
| `calls_reach` | rtccallee.js:83, others can call you now | the page's old session unregisters it |
| `chat_freed` | rtcSignaling.go:497, the last user leaving the room must clean up | both pages of a pair hang up when their channel opens, both handlers read two users and both write one, and the room stays taken |

**Where the code promises less.** Several properties speak of a part of the behaviour,
because the rest of it is not in order; the models contain all of it.

- `rooms_safety` leaves out the steps in which two handlers begin to overlap on a room,
  and broken connections once a room is crowded (`InTurns`), to stay small. A room that
  three clients crowd is not calm from then on, and `RoomsKeepPromise` ends there. In
  rooms that are not calm a leaver can overwrite or delete the entry a joiner is about
  to store, so that entries outlive their users or users their entry (who forwards then
  sends to nil, and the server panics), a joiner is paired with a client that left
  (rtcSignaling.go:257), and a client can forward in the link mode of an entry it has no
  part in. The isolation of rooms survives all of it: `rooms` shows it for two sessions,
  the theorem for any number.
- A third client turns user 1 into user 2, and an "offline" that a page reads late
  makes it hang up on the successor: the chat properties are about rooms that only
  ever had two clients. `RolesDiffer`, `DescriptionsFit` and the part of `CommandsFit`
  that counts descriptions hold of all of these, also if the handlers overlap;
  `RolesDiffer` needs that both pages had their clientId when they subscribed, which a
  hasty page had not. That a pair settles and frees its room (`PairSettles`,
  `RoomIsFreed`) takes handlers that did not overlap as well (`PairIn`): two that do
  may never hear of each other (`rooms_tabs`).
- `RoomIsFreed` needs that one handler of a pair wrote the entry back before the other
  one read it. Pages hang up when their channel opens, so the other case is common, and
  `chat_freed` shows what comes of it. What `RoomIsFreed` adds is that nothing but this
  overlap keeps a room: no order of hanging up, no alarm and no broken connection.
- `LinkAgreement` is about the server's choice to leave a description alone or to patch
  it. A description that is to be patched and has nothing in it that can be goes out
  untouched, whatever was asked (rtcSignaling.go:345-350, 430-434); so
  html/signaling/index.html:69, "your IP address will not be visible to the other side",
  is not always kept.
- The room of the empty name is never cleaned up (rtcSignaling.go:496). `UsersCounted` and
  `RoomsKeepPromise` are about rooms with a name.
- The links of a call carry `key=undefined` (rtccallee.js:78, 142-149), so that the
  window in which a callee answers stops nobody's ringing; `HangupStopsRing` is about
  the caller's side, and about callers whose forRing found the callee: one that goes
  before leaves the page ringing, against what caller-enter-name.js:73 says.
- `CallIsOffered` leaves out connections that break and names that the callee's page
  cannot parse (callerService.go:175): in both of these cases one side may go to the
  room and meet nobody.
- `ConfirmedSurvives` and `IdleKeysGo` end when a call of the key store fails or two
  flushes overlap (`spoiled`): the errors are ignored and a key is confirmed all the
  same (calleePersistKey.go:157, 161-162, calleeService.go:219-224), and an older
  collection may overwrite a newer one. The cleaner deletes a key that was used between
  its check and its delete (calleePersistKey.go:78, 96), or could not be read (91);
  `ConfirmedSurvives` lets the cleaner delete.
- `LogsAgree` leaves out the typed texts that JSON.parse takes: the sender's page logs
  them, and the other one shows nothing (rtcchat.js:673-684, 803-827). `Legible` counts
  the lines of the sender's log without them.
- In `UdpRelay`, a worker whose target does not resolve keeps its port until the process
  ends (udpProxy.go:44-48); `PortsGivenBack` and `WindsDown` name it. Once a worker has
  torn its session down, the next one of the session calls Close on nil and the server
  panics (udpProxy.go:80-81, 86-87), so that "tear down the partner threads of this
  session now" (72-74) is not stated as a property; the sockets are free then, as the
  operating system closes them.
- `OwnSessionOnly` excludes handlers that start
  proxies in turns (`overlapped`: they share `sessionNumber`) and numbers that were
  used before; an entry that an older session left under index 1 is not overwritten.
  `OneSideStays` allows for two exceptions, which are real: both sides give up when one
  dials before another, already refused, has closed its listening connection, or when
  another call has the port (`collided`). The second one takes two calls, which the
  run does not have and the theorem does.
- After a concurrent use of a map, or a panic, the process is gone: the properties that
  something happens end with it.

**Bounds.** In `rooms` two sessions are enough for a joiner that meets the leftovers
of another one, and two rooms the fewest for something to cross between them; for any
number of both, isolation is a theorem. In `rooms_safety` the third session comes
after a pair, joins what is left of one, or crowds it. One forward
per session gives an offer and its answer (`MaxForwards`); one broken connection
(`MaxResets`) shows every error path while others still live. Two websockets let
a callee's page reconnect or two pages be registered; two sessions of a caller are a
second call while the first is served, or after it failed. One of three names is
answered automatically and one cannot be parsed. `MaxTime` = 2 with `MaxIdle` = 0 lets a
key grow old, be used, and grow old again; two crashes (`MaxCrashes`) are one before and
one after something reached the file, and one failure (`MaxFailures`) spoils any of the
calls. One key is enough there, as the safety is proved for any number.

`chat` has two pages because the properties are about pairs; one is a Firefox, which
makes its channel at "ready", and the other is not. In `files` a chunk has 3 units
and a header 1, and the sizes are one below, at and above one and two chunks, which
are all the cases of the division; two transfers let one follow the leftovers of
another, and two losses (`MaxLosses`) hit two messages of one file or two files.
`MaxOutages` and `MaxErrors` in `heartbeat` let attempts pile up three times, and
the safety is proved for any number. `relay` has two proxies on one side because only
then one teardown closes another proxy's connections, and one on the other because
that already makes both sides compete for each other's ports. `MaxNumber` = 1 gives
each of the two forwards its own session number.

**Deadlock.** Clients need not do anything and every session is opened once, so the
runs of RoomServer, CallCenter, ChatSystem, FileTransfer and UdpRelay end and do not
check deadlock. `KeyStore` and `Heartbeat` never stop: the cleaner and the timers
always come again, and their runs check that.

**Symmetry** is used for safety only: sessions, rooms, pages, websockets, keys and
callers are interchangeable in `rooms_safety` and `calls_safety`.

**Fairness.** Weak fairness of a handler's next step is what the Go scheduler gives
a goroutine that can run, and of a page's next read what the browser's event loop
does. People, clients and networks owe nothing: no fairness is assumed of
connecting, calling, answering, closing. `KeyStore` adds strong fairness of taking
the token, because a Go channel serves those who wait in their order; with weak
fairness alone a waiter could be overtaken for ever.
`ChatFairness` is of a handler that can run or take a command, and of a page that can
read a message, fire a timer, or gets one of the two callbacks of
setLocalDescription and setRemoteDescription; createOffer, createAnswer and the data
channel owe nothing. `FileTransfer` assumes that the reader calls back, the sender's
timer fires, and what is not lost arrives. `Heartbeat` assumes that timers fire, that a
connection attempt ends one way or the other, and that an answer arrives while the
network works. In `UdpRelay` the goroutines run; a read deadline passes only once the
partner's client is gone, since until then every datagram may put it off.

## 4. The proofs

| theorem | states |
|---|---|
| `RoomServer_proofs!TypeCorrect`, `Isolated`, `CalmRoomsCount` | `[]TypeOK`, `[]RoomIsolation`, `[]UsersCounted` |
| `RoomPeer_proofs!ForwardsHavePeers`, `OfflineMeansGone` | `[]ForwardHasPeer`, `OfflineIsTrue` |
| `RoomPeer_proofs!LinksAgree`, `RoomsImplementRendezvous` | `[]LinkAgreement`; `RoomsKeepPromise`, the refinement of Rendezvous |
| `ChatSystem_proofs!ChatRefinesRooms` | `ChatSpec => Spec`: the pages with the server implement RoomServer |
| `ChatSystem_proofs!ChatTypes`, `CommandsAlwaysFit`, `RolesAlwaysDiffer`, `DescriptionsAlwaysFit` | `[]ChatTypeOK`, `[]CommandsFit`, `[]RolesDiffer`, `DescriptionsFit` |
| `FileTransfer_proofs!FilesTypes`, `WholeFilesStayIntact`, `LogsAlwaysAgree` | `[]TypeOK`, `[]WholeFilesIntact`, `[]LogsAgree` |
| `CallCenter_proofs!CallsTyped`, `MappedAreOnline`, `DialedRingOnly` | `[]TypeOK`, `[]OnlineAreMapped`, `[]OnlyDialedRings` |
| `KeyStore_proofs!KeysTyped`, `MutatorsExcluded`, `ConfirmationLasts` | `[]TypeOK`, `[]OneMutator`, `[]ConfirmedSurvives` |
| `Heartbeat_proofs!BeatTyped`, `AlwaysWatched`, `AttemptsBounded` | `[]TypeOK`, `[]OpenIsWatched`, `[]TriesCounted` |
| `UdpRelay_proofs!RelayTypes`, `PortsComeBack`, `OneSideRemains`, `TeardownsStayHome` | `[]TypeOK`, `[]PortsGivenBack`, `[]OneSideStays`, `OwnSessionOnly` |

The type invariants of `KeyStore` and `Heartbeat` are proved and in no run.

They assume no more than the named assumptions of the modules: that Nil, Nobody
and the cleaner are not among the other values, that "undefined" is no key, and
that the bounds are natural numbers; in `FileTransfer` also that a header is shorter
than a chunk, as it is with chunks of 64000 characters, and that a file is not empty
(rtcchat.js does nothing with an empty one); and in `RoomServer` that the empty names
are among the rooms.

*Rooms.* Isolation is inductive only together with facts about what a handler has
in its hands: the copy `r` of an entry, and the clientId in it, belong to the room
the handler is in, and a session that is named anywhere has a room, which it never
changes. The proof goes through the groups of steps that change the same variables.

*Calm rooms.* Four arguments stand on each other. They speak of calm rooms among any
others, so a room that is not calm never has to be described; a calm room has a name,
for the entry of the empty name is never cleaned up.
`CountInv`: at most one handler holds a copy of the entry, and that copy still says
what the map says; so what it writes back is right. Without the copies in the
invariant the count is not inductive.
`PeerInv`: the founder of a room learns who the other is from the entry, when it first
forwards. It forwards only after it was introduced; only somebody who knows the
founder introduces it; and whoever knows the founder has stored an entry of its own,
so the entry does not name the founder. For this the invariant also counts the
handlers that have not stored their entry yet: a calm room has two at most
(`TwoHere`). `NetInv`, that nothing is sent to who is gone, gives the rest of
`OfflineIsTrue`.
`LinkInv`: an entry, a handler and a message under way say p2p only if everybody they
are about asked for it, and two handlers that are connected to each other work with
one type. They do because a joiner stores the type it works with, and because the one
who waits takes the type and the connection from the same entry.
The refinement is of the steps up to the first overlap or crowd, and these histories
only grow; so it needs no more than `QuietInv` (until then every room with a name is calm,
and one without users has no link type): storing an entry is `Found` or `Join` of
Rendezvous, writing back or deleting it is `Leave`, and every other step, on whichever
room, is a stutter.

*Chat.* First, every step of the composition is a step of RoomServer or leaves its
variables alone, so RoomServer's invariants hold with these clients too.
`ChatInv` adds what a page has read, sent and counted, and how this goes with what its
handler has done (`PagesInv`): that gives the types, and that each command comes when
the handler waits for it. The roles are about two pages a and b that have a room to
themselves, whose handlers may overlap in any way, where a is not a joiner. `PairOf`
says what the server sends the two: nobody introduces them before b has joined, an
"online" goes to a only, once and after the list of the room, and forwards come from
each other. `CompanyInv` says that whoever is introduced has company in its room, so
that a page that was introduced is not alone. `Roles` adds to `PairOf` what follows for
the pages: a counts itself first and only offers (`Caller`), b waits for the offer and
only answers (`Callee`), each sends one description, and the answer comes after the
offer (`Between`). `RolesInv` is that one of the two has the one role and the other the
other, from the moment on in which the first subscribes. The parts hold each other up:
what a page sends depends on its role, its role on the order of what it is sent, and
that on what the other one has sent.

*Files.* The proof is a chain (`ChainInv`). Every chunk and every "complete" of an
undamaged file begins where the message of that file before it ends; if none is before
it, `meta` names the file and `downloadBase64` holds its payload up to there; and the
sender goes on where the last one ends. The head of the channel then either is the next
link or is a text: transfers are in order in the channel and none is older than `meta`
(`OrderInv`), so what comes before the next message of the file in `downloadBase64`
belongs to it. For the arithmetic, a round begins before the end of the file and, after
the first, within the counted packets (`SenderInv`): then the last two pieces end at the
end of the file, and no chunk breaks in the header. `LogInv` gives `LogsAgree`:
while nothing was lost there is a sequence of lines, the sender's log without the texts
that JSON.parse takes (`Filters`), and what the receiver shows, with one line for every
message under way that will show one, is that sequence (`Behind`). The invariant says
that such a sequence exists, since a recursive selection could not be reasoned about.

*Calls.* `CallsInv` adds to the types: a websocket nobody owns is untouched, and no
handler knows another key than its page's (`ConnInv`); a connection in the map is one
whose handler runs, under the key it announced (`MapInv`); the websockets, the room
and the ring of a calling page are its own, and lead to the key it dialed
(`CallerInv`); and every websocket a caller's handler holds leads to a page with that
key (`SessionInv`), as do the messages under way (`InboxInv`) and what the page shows
(`LinksInv`). `MapInv` is what makes
the delete in the old session harmless for `OnlineAreMapped`: it may remove
somebody else's registration, never leave its own behind.

*Keys.* The tokens in the channel and the goroutines that mutate the collection
always make one, which a crash restores. Durability is a second invariant
(`Promises`), which holds as long as no write failed and no two flushes overlapped:
what is in the file is in the snapshot that is being written, and what is in that is in
the collection, but for what the cleaner deleted (`DiskInv`); a new key is in the
collection before it is flushed, in the snapshot before it is written and in the file
before it is confirmed, unless the cleaner was faster (`NewInv`).

*Heartbeat.* `BeatInv` is what makes the counting go through: a page has an attempt
under way, a socket that looks open has a chain, a chain that dies of an exception
does so because its socket is connecting, and what is under way is at most one plus
the errors.

*Relay.* A worker that was refused its port, or that has read nothing yet, has no
`c2`; what became nil was closed before; and a worker closes what it has before it
ends (`WorkerOf`), but for one: the worker that cannot resolve its target leaves `c`
open, and `PortsGivenBack` says so. A port never has two owners, because only listening
and dialing take one, and both look first (`OneOwner`). Only a live process has workers
(`HandlerTyped`). For the types, every name in `udpConns` leads to a proxy that was
given the name's number, or to nil, and its index is less than the number of proxies of
its forward (`NamesLead`). As long as
handlers take turns the number of a forward is the number of handlers done before it
(`NumberInv`), so two forwards never have the same one, and a name found by a teardown
is its own forward's. `OneSideStays` follows from what a proxy that gave up leaves
behind: if no proxy collided, whoever refused it was a proxy of the same call that had
not given up (`GaveUpInv`).

Left to TLC: liveness, which TLAPS does not prove under fairness (`SessionEnds`,
`JoinerAnnounced`, `OfflineUnmapped`, `CallIsOffered`, `HangupStopsRing`, `WritesEnd`,
`IdleKeysGo`, `PairSettles`, `RoomIsFreed`, `FilesArrive`, `ButtonReturns`, `Recovers`
and `WindsDown`). Every invariant that a run checks is stated by a
theorem.

## 5. What is not modelled, and the plan

Not modelled:

- the STUN server (`stun.go`): one request, one reply, no state; its hazards would be
  those of reading bytes at fixed places, which a model abstracts away;
- the command line tools and the static pages: input, output and markup;
- third-party scripts: jQuery and Bootstrap, and adapter.js, which hides the
  differences between browsers.

gkvlite, the websocket library, the Go runtime and the browsers appear as the
server's code uses them. Counted in lines the models cover a small share of the
repository, because three copies of jQuery are 26,265 of its 27,722 lines of code; of
the program's own lines they cover most.

Planned, in this order:

1. The safety that the liveness properties rest on, as theorems: that a handler with a
   closed connection can always take a step, and that a page of a pair that has read
   its introduction has a callback or an alarm under way.
2. What UdpRelay does with proxies whose `ListenUDP` failed, as a property.
3. That CallCenter implements an abstract directory of callees.
