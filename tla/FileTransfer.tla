---------------------------- MODULE FileTransfer ----------------------------
(***************************************************************************)
(* rtcchat.js: sendFile and sendMessage on one page, receiveMessage on the *)
(* other, over a data channel that was asked for with {reliable:false}: it *)
(* keeps the order, but may lose a message, and it may close.              *)
(*                                                                         *)
(* A file is read as a data URL: a header that ends in a comma, then the   *)
(* payload.  A unit of that text is a pair <<transfer, place>>, so that    *)
(* every unit of every transfer is distinct.                               *)
(***************************************************************************)
EXTENDS Naturals, Sequences, FiniteSets

CONSTANTS Chunk,         \* chunkSize
          Header,        \* the length of the data URL's header, comma included
          Sizes,         \* lengths of the data URLs of the files there are
          MaxTransfers,  \* bound: files sent
          MaxTexts,      \* bound: messages typed
          MaxLosses      \* bound: messages the channel loses

\* A header is shorter than the 64000 characters of a chunk, and sendFile does
\* nothing with an empty file.
ASSUME ChunkAssumption  == Chunk \in Nat /\ Header \in 1..(Chunk - 1)
ASSUME SizesAssumption  == Sizes \subseteq {n \in Nat : n > Header}
ASSUME LimitsAssumption == MaxTransfers \in Nat /\ MaxTexts \in Nat /\ MaxLosses \in Nat

VARIABLES
    up,              \* is webrtcDataChannel set (on both pages)?
    sending,         \* the sender: idle (with its button), or where sendFile is
    transfer,        \* number of the last transfer
    size,            \* the length of each transfer's data URL
    packet,
    channel,         \* messages under way
    texts, losses,   \* bounds: messages typed and lost
    downloadBase64, meta,    \* of the receiver; meta is a transfer, 0 for {}
    sent, shown,     \* the two chat logs
    damaged          \* history: the transfers that lost a message

senderVars == <<sending, transfer, size, packet>>
receiverVars == <<downloadBase64, meta, shown>>
vars == <<up, senderVars, channel, texts, losses, receiverVars, sent, damaged>>

Transfers == 1..MaxTransfers

\* textToTransfer.slice(from, to), with places counted from 1.
Slice(n, from, to) == [k \in 1..(to - from) |-> <<n, from + k>>]

\* slice stops at the end of the text.
Piece(n, from) ==
    Slice(n, from, IF from + Chunk < size[n] THEN from + Chunk ELSE size[n])

Payload(n) == Slice(n, Header, size[n])

\* What split(",")[1] gives if there is no comma.
Undefined == <<0, 0>>

\* Every message carries its transfer (0 for a text), which nobody reads.
Start(n)      == [status |-> "start", of |-> n, data |-> <<>>]
Data(n, d)    == [status |-> "data", of |-> n, data |-> d]
Complete(n)   == [status |-> "complete", of |-> n, data |-> <<>>]
Typed(kind)   == [status |-> kind, of |-> 0, data |-> <<>>]

\* Lines of the chat logs.
FileLine(n, name, d) == [what |-> "file", of |-> n, name |-> name, data |-> d]
TextLine(kind)       == [what |-> kind, of |-> 0, name |-> 0, data |-> <<>>]

Init ==
    /\ up = TRUE
    /\ sending = "idle"
    /\ transfer = 0
    /\ size = [n \in Transfers |-> 0]
    /\ packet = 0
    /\ channel = <<>>
    /\ texts = 0
    /\ losses = 0
    /\ downloadBase64 = <<>>
    /\ meta = 0
    /\ sent = <<>>
    /\ shown = <<>>
    /\ damaged = {}

-----------------------------------------------------------------------------
(* The sender.                                                             *)

\* The user picks a file.  Without a channel the send throws, and the button
\* has been hidden for good.
SendFile ==
    /\ sending = "idle"
    /\ transfer < MaxTransfers
    /\ IF up THEN /\ transfer' = transfer + 1
                  /\ \E n \in Sizes : size' = [size EXCEPT ![transfer + 1] = n]
                  /\ channel' = Append(channel, Start(transfer + 1))
                  /\ sending' = "reading"
             ELSE /\ sending' = "thrown"
                  /\ UNCHANGED <<transfer, size, channel>>
    /\ UNCHANGED <<up, packet, texts, losses, receiverVars, sent, damaged>>

\* (Mutant: the first packet is numbered from -1.)
LoadedBefore ==
    /\ sending = "reading"
    /\ sending' = "sending"
    /\ packet' = 0 - 1
    /\ UNCHANGED <<up, transfer, size, channel, texts, losses, receiverVars, sent, damaged>>

\* reader.onload, unless the file cannot be read: there is no reader.onerror.
Loaded ==
    /\ sending = "reading"
    /\ sending' \in {"sending", "unreadable"}
    /\ packet' = 0
    /\ UNCHANGED <<up, transfer, size, channel, texts, losses, receiverVars, sent, damaged>>

numberOfPackets == size[transfer] \div Chunk

\* (Mutant: only the counted packets are sent.)
LastPiecesNever(from) == <<>>

\* What is left after the counted packets goes out as one more.
LastPieces(from) ==
    IF size[transfer] > from
    THEN <<Data(transfer, Slice(transfer, from, size[transfer]))>> ELSE <<>>

\* (Mutant: the button stays hidden.)
FinishHidden ==
    /\ sending' = "thrown"
    /\ sent' = Append(sent, FileLine(transfer, transfer, Payload(transfer)))

Finish ==
    /\ sending' = "idle"
    /\ sent' = Append(sent, FileLine(transfer, transfer, Payload(transfer)))

\* One round of onReadAsDataURL.  The first sends a packet however few they are.
SendPacket ==
    /\ sending = "sending"
    /\ LET from == packet * Chunk
           one  == Append(channel, Data(transfer, Piece(transfer, from)))
       IN CASE ~up ->
                 /\ sending' = "thrown"
                 /\ UNCHANGED <<packet, channel, sent>>
            [] up /\ packet + 1 < numberOfPackets ->
                 /\ packet' = packet + 1
                 /\ channel' = one
                 /\ UNCHANGED <<sending, sent>>
            [] up /\ packet + 1 >= numberOfPackets ->
                 /\ packet' = packet + 1
                 /\ channel' = Append(one \o LastPieces(from + Chunk), Complete(transfer))
                 /\ Finish
    /\ UNCHANGED <<up, transfer, size, texts, losses, receiverVars, damaged>>

\* The user types a message, also between two packets, and it may be a text that
\* JSON.parse takes: a number, or "true".  Its own log shows it in any case.  (A
\* text that is one of sendFile's own objects is left out.)
SendMessage ==
    /\ up
    /\ texts < MaxTexts
    /\ texts' = texts + 1
    /\ \E kind \in {"plain", "json"} :
        /\ channel' = Append(channel, Typed(kind))
        /\ sent' = Append(sent, TextLine(kind))
    /\ UNCHANGED <<up, senderVars, losses, receiverVars, damaged>>

-----------------------------------------------------------------------------
(* The receiver.                                                           *)

\* b64[1] of the first chunk of a file.
AfterComma(d) ==
    IF d # <<>> /\ d[1][2] <= Header
    THEN [k \in 1..(Len(d) - Header) |-> d[k + Header]] ELSE <<Undefined>>

\* (Mutant: the last download is kept.)
OnStartKept(m) == meta' = m.of /\ UNCHANGED <<downloadBase64, shown>>

OnStart(m) == meta' = m.of /\ downloadBase64' = <<>> /\ UNCHANGED shown

\* (Mutant: every chunk is split.)
OnDataSplit(m) ==
    /\ downloadBase64' = downloadBase64 \o AfterComma(m.data)
    /\ UNCHANGED <<meta, shown>>

\* A chunk is taken for the first if there is nothing before it.
OnData(m) ==
    /\ downloadBase64' = IF downloadBase64 = <<>> THEN AfterComma(m.data)
                         ELSE downloadBase64 \o m.data
    /\ UNCHANGED <<meta, shown>>

\* atob may throw on what is not the whole of a file.
OnComplete(m) ==
    \/ /\ shown' = Append(shown, FileLine(m.of, meta, downloadBase64))
       /\ downloadBase64' = <<>>
       /\ meta' = 0
    \/ downloadBase64 # Payload(m.of) /\ UNCHANGED receiverVars

ReceiveMessage(m) ==
    \/ m.status = "start" /\ OnStart(m)
    \/ m.status = "data" /\ OnData(m)
    \/ m.status = "complete" /\ OnComplete(m)
    \/ m.status = "plain" /\ shown' = Append(shown, TextLine("plain")) /\ UNCHANGED <<downloadBase64, meta>>
    \/ m.status = "json" /\ UNCHANGED receiverVars

Receive ==
    /\ up
    /\ channel # <<>>
    /\ channel' = Tail(channel)
    /\ ReceiveMessage(Head(channel))
    /\ UNCHANGED <<up, senderVars, texts, losses, sent, damaged>>

-----------------------------------------------------------------------------
(* The channel.                                                            *)

Lose ==
    /\ up
    /\ channel # <<>>
    /\ losses < MaxLosses
    /\ losses' = losses + 1
    /\ channel' = Tail(channel)
    /\ damaged' = damaged \cup {Head(channel).of}
    /\ UNCHANGED <<up, senderVars, texts, receiverVars, sent>>

\* webrtcDisconnect, on both pages.
Disconnect ==
    /\ up
    /\ up' = FALSE
    /\ channel' = <<>>
    /\ UNCHANGED <<senderVars, texts, losses, receiverVars, sent, damaged>>

-----------------------------------------------------------------------------
Next == \/ SendFile \/ Loaded \/ SendPacket \/ SendMessage
        \/ Receive \/ Lose \/ Disconnect

\* Timers fire, the reader calls back or fails, and what is not lost arrives.
Fairness == WF_vars(Loaded) /\ WF_vars(SendPacket) /\ WF_vars(Receive)

Spec == Init /\ [][Next]_vars /\ Fairness

-----------------------------------------------------------------------------
(* Properties.                                                             *)

Units == {0} \cup Transfers

TypeOK ==
    /\ up \in BOOLEAN
    /\ sending \in {"idle", "reading", "sending", "unreadable", "thrown"}
    /\ transfer \in 0..MaxTransfers
    /\ size \in [Transfers -> Nat]
    /\ packet \in Nat
    /\ texts \in 0..MaxTexts
    /\ losses \in 0..MaxLosses
    /\ channel \in Seq([status : {"start", "data", "complete", "plain", "json"},
                        of : Units, data : Seq(Units \X Nat)])
    /\ downloadBase64 \in Seq(Units \X Nat)
    /\ meta \in Units
    /\ sent \in Seq([what : {"file", "plain", "json"}, of : Units, name : Units, data : Seq(Units \X Nat)])
    /\ shown \in Seq([what : {"file", "plain", "json"}, of : Units, name : Units, data : Seq(Units \X Nat)])
    /\ damaged \subseteq Units

\* How many of the first k lines of the sender's log the other page can show: all but
\* the texts that JSON.parse takes, of which receiveMessage makes nothing.
Legible(k) == Cardinality({j \in 1..k : sent[j].what # "json"})

\* As long as nothing is lost the receiver's chat log is the sender's, line for line
\* and byte for byte, only behind it, and without the typed texts that JSON.parse
\* takes: these the sender's page logs as sent, and the other page never shows
\* (rtcchat.js:673-733, 752-795, 803-827).
LogsAgree ==
    losses = 0 =>
      /\ Len(shown) <= Legible(Len(sent))
      /\ \A k \in DOMAIN sent : sent[k].what # "json" /\ Legible(k) <= Len(shown)
                                => shown[Legible(k)] = sent[k]

\* A loss damages no other transfer than its own: every file of which all
\* messages arrive is shown whole and under its name, whatever the ones before it
\* left in downloadBase64 and meta.
WholeFilesIntact ==
    \A i \in DOMAIN shown :
        shown[i].what = "file" /\ shown[i].of \notin damaged =>
            shown[i].name = shown[i].of /\ shown[i].data = Payload(shown[i].of)

\* A file that was sent is shown in the end, unless something of it was lost or
\* the channel closed.
FilesArrive ==
    \A n \in Transfers :
        (\E i \in DOMAIN sent : sent[i].of = n)
            ~> ~up \/ n \in damaged \/ \E i \in DOMAIN shown : shown[i].of = n

\* A transfer gives the file button back, unless the channel closed or the file
\* could not be read; in both of these the button is gone until a reload.
ButtonReturns ==
    (sending # "idle") ~> (sending \in {"idle", "unreadable"} \/ ~up)
=============================================================================
