------------------------- MODULE FileTransfer_proofs -------------------------
(***************************************************************************)
(* What the pages promise about files and messages, for chunks, headers    *)
(* and files of any length.                                                *)
(*                                                                         *)
(* The argument is a chain.  Every message under way that carries or       *)
(* completes a file continues where the message of that file before it     *)
(* ends, or, when there is none before it, where downloadBase64 ends; and  *)
(* the sender goes on where the last of them ends.  So when the "complete" *)
(* of an undamaged file arrives, downloadBase64 is its payload.            *)
(***************************************************************************)
EXTENDS FileTransfer, TLAPS, SequenceTheorems, FiniteSetTheorems

-----------------------------------------------------------------------------
(* Numbers, slices and types.                                              *)

Text == Seq(Units \X Nat)

Message == [status : {"start", "data", "complete", "plain", "json"}, of : Units, data : Text]

Line == [what : {"file", "plain", "json"}, of : Units, name : Units, data : Text]

\* Between SendFile and the last round there is a transfer.
Underway == sending \in {"reading", "sending"} => transfer \in Transfers

\* The assumptions on the constants, as the provers use them.
LEMMA Lengths ==
    /\ Chunk \in Nat /\ Header \in Nat /\ 0 < Header /\ Header < Chunk
    /\ MaxTransfers \in Nat /\ MaxTexts \in Nat /\ MaxLosses \in Nat
    /\ \A n \in Sizes : n \in Nat /\ Header < n
BY ChunkAssumption, SizesAssumption, LimitsAssumption

\* A slice is a text as long as its places are apart.
LEMMA SliceIs ==
    ASSUME NEW n, NEW a \in Nat, NEW b \in Nat, a <= b
    PROVE  /\ Len(Slice(n, a, b)) = b - a
           /\ DOMAIN Slice(n, a, b) = 1..(b - a)
           /\ \A k \in 1..(b - a) : Slice(n, a, b)[k] = <<n, a + k>>
           /\ Slice(n, a, b) \in Seq({n} \X Nat)
<1>1. b - a \in Nat
  OBVIOUS
<1>2. Slice(n, a, b) \in [1..(b - a) -> {n} \X Nat]
  BY DEF Slice
<1>3. Slice(n, a, b) \in Seq({n} \X Nat)
  BY <1>1, <1>2
<1>4. QED
  BY <1>1, <1>2, <1>3 DEF Slice

\* The same where the places may be in either order.
LEMMA SliceText ==
    ASSUME NEW n \in Units, NEW a \in Nat, NEW b \in Nat
    PROVE  Slice(n, a, b) \in Text
<1>1. CASE a <= b
  <2>1. b - a \in Nat
    BY <1>1
  <2>2. Slice(n, a, b) \in [1..(b - a) -> Units \X Nat]
    BY DEF Slice
  <2>3. QED
    BY <2>1, <2>2 DEF Text
<1>2. CASE a > b
  <2>1. 1..(b - a) = 1..0
    BY <1>2
  <2>2. Slice(n, a, b) \in [1..0 -> Units \X Nat]
    BY <2>1 DEF Slice
  <2>3. QED
    BY <2>2 DEF Text
<1>3. QED
  BY <1>1, <1>2

\* Slices that meet make one slice.
LEMMA SlicesJoin ==
    ASSUME NEW n, NEW a \in Nat, NEW b \in Nat, NEW c \in Nat, a <= b, b <= c
    PROVE  Slice(n, a, b) \o Slice(n, b, c) = Slice(n, a, c)
<1>1. /\ Slice(n, a, b) \in Seq({n} \X Nat) /\ Len(Slice(n, a, b)) = b - a
      /\ \A k \in 1..(b - a) : Slice(n, a, b)[k] = <<n, a + k>>
  BY SliceIs
<1>2. /\ Slice(n, b, c) \in Seq({n} \X Nat) /\ Len(Slice(n, b, c)) = c - b
      /\ \A k \in 1..(c - b) : Slice(n, b, c)[k] = <<n, b + k>>
  BY SliceIs
<1>3. /\ Slice(n, a, c) \in Seq({n} \X Nat) /\ Len(Slice(n, a, c)) = c - a
      /\ \A k \in 1..(c - a) : Slice(n, a, c)[k] = <<n, a + k>>
  <2>1. a <= c
    OBVIOUS
  <2>2. QED
    BY <2>1, SliceIs
<1> DEFINE both == Slice(n, a, b) \o Slice(n, b, c)
<1>4. both \in Seq({n} \X Nat) /\ Len(both) = c - a
  <2>1. both \in Seq({n} \X Nat) /\ Len(both) = (b - a) + (c - b)
    BY <1>1, <1>2, ConcatProperties
  <2>2. QED
    BY <2>1
<1>5. ASSUME NEW k \in 1..(c - a) PROVE both[k] = <<n, a + k>>
  <2>1. CASE k <= b - a
    <3>1. k \in 1..(b - a) /\ both[k] = Slice(n, a, b)[k]
      BY <1>1, <1>2, <2>1, ConcatProperties
    <3>2. QED
      BY <1>1, <3>1
  <2>2. CASE k > b - a
    <3>1. k - (b - a) \in 1..(c - b)
      BY <2>2
    <3>2. both[k] = Slice(n, b, c)[k - (b - a)]
      <4>1. k \in 1..(Len(Slice(n, a, b)) + Len(Slice(n, b, c))) /\ ~(k <= Len(Slice(n, a, b)))
        BY <1>1, <1>2, <2>2
      <4>2. both[k] = Slice(n, b, c)[k - Len(Slice(n, a, b))]
        BY <1>1, <1>2, <4>1, ConcatProperties
      <4>3. QED
        BY <1>1, <4>2
    <3>3. b + (k - (b - a)) = a + k
      OBVIOUS
    <3>4. QED
      BY <1>2, <3>1, <3>2, <3>3
  <2>3. k <= b - a \/ k > b - a
    OBVIOUS
  <2>4. QED
    BY <2>1, <2>2, <2>3, Zenon
<1>6. QED
  BY <1>3, <1>4, <1>5, SeqEqual

\* The first piece of a file loses its header.
LEMMA HeaderGoes ==
    ASSUME NEW n, NEW b \in Nat, Header < b
    PROVE  AfterComma(Slice(n, 0, b)) = Slice(n, Header, b)
<1>1. /\ Slice(n, 0, b) \in Seq({n} \X Nat) /\ Len(Slice(n, 0, b)) = b
      /\ \A k \in 1..b : Slice(n, 0, b)[k] = <<n, 0 + k>>
  <2>1. 0 \in Nat /\ 0 <= b /\ b - 0 = b
    OBVIOUS
  <2>2. QED
    BY <2>1, SliceIs
<1>2. 1 \in 1..b /\ Slice(n, 0, b)[1] = <<n, 1>> /\ Slice(n, 0, b) # <<>>
  BY <1>1, Lengths
<1>3. AfterComma(Slice(n, 0, b)) = [k \in 1..(b - Header) |-> Slice(n, 0, b)[k + Header]]
  <2>1. Slice(n, 0, b)[1][2] <= Header
    BY <1>2, Lengths
  <2>2. AfterComma(Slice(n, 0, b))
          = [k \in 1..(Len(Slice(n, 0, b)) - Header) |-> Slice(n, 0, b)[k + Header]]
    BY <1>2, <2>1, Zenon DEF AfterComma
  <2>3. QED
    BY <1>1, <2>2, Zenon
<1>4. \A k \in 1..(b - Header) : /\ k + Header \in 1..b
                                /\ Slice(n, 0, b)[k + Header] = <<n, Header + k>>
  BY <1>1, Lengths
<1>5. QED
  BY <1>3, <1>4 DEF Slice

\* What is left of a chunk that is taken for the first.
LEMMA AfterCommaText ==
    ASSUME NEW d \in Text
    PROVE  AfterComma(d) \in Text
<1>1. CASE d # <<>> /\ d[1][2] <= Header
  <2>1. AfterComma(d) = [k \in 1..(Len(d) - Header) |-> d[k + Header]]
    BY <1>1 DEF AfterComma
  <2>2. AfterComma(d) \in [1..(Len(d) - Header) -> Units \X Nat]
    <3>1. \A k \in 1..(Len(d) - Header) : d[k + Header] \in Units \X Nat
      <4>1. \A k \in 1..(Len(d) - Header) : k + Header \in 1..Len(d)
        BY Lengths DEF Text
      <4>2. QED
        BY <4>1 DEF Text
    <3>2. QED
      BY <2>1, <3>1
  <2>3. CASE Len(d) - Header \in Nat
    BY <2>2, <2>3 DEF Text
  <2>4. CASE Len(d) - Header \notin Nat
    <3>1. 1..(Len(d) - Header) = 1..0
      BY <2>4, Lengths DEF Text
    <3>2. AfterComma(d) \in [1..0 -> Units \X Nat]
      BY <2>2, <3>1
    <3>3. QED
      BY <3>2 DEF Text
  <2>5. QED
    BY <2>3, <2>4
<1>2. CASE ~(d # <<>> /\ d[1][2] <= Header)
  <2>1. AfterComma(d) = <<Undefined>> /\ Undefined \in Units \X Nat
    BY <1>2 DEF AfterComma, Undefined, Units
  <2>2. QED
    BY <2>1 DEF Text
<1>3. QED
  BY <1>1, <1>2

-----------------------------------------------------------------------------
(* The types.                                                              *)

TypeInv == TypeOK /\ Underway

\* What the rounds of onReadAsDataURL leave in the channel.
OnePiece == Append(channel, Data(transfer, Piece(transfer, packet * Chunk)))
AllPieces == OnePiece \o LastPieces(packet * Chunk + Chunk)

\* The three kinds of round, as disjuncts.
LEMMA Rounds ==
    ASSUME packet \in Nat, numberOfPackets \in Nat, SendPacket
    PROVE  /\ sending = "sending"
           /\ UNCHANGED <<up, transfer, size, texts, losses, receiverVars, damaged>>
           /\ \/ ~up /\ sending' = "thrown" /\ UNCHANGED <<packet, channel, sent>>
              \/ /\ up /\ packet + 1 < numberOfPackets /\ packet' = packet + 1
                 /\ channel' = OnePiece /\ UNCHANGED <<sending, sent>>
              \/ /\ up /\ packet + 1 >= numberOfPackets /\ packet' = packet + 1
                 /\ channel' = Append(AllPieces, Complete(transfer))
                 /\ sending' = "idle"
                 /\ sent' = Append(sent, FileLine(transfer, transfer, Payload(transfer)))
<1>1. /\ sending = "sending"
      /\ UNCHANGED <<up, transfer, size, texts, losses, receiverVars, damaged>>
  BY DEF SendPacket
<1>2. CASE ~up
  BY <1>1, <1>2 DEF SendPacket
<1>3. CASE up /\ packet + 1 < numberOfPackets /\ ~(packet + 1 >= numberOfPackets)
  BY <1>1, <1>3 DEF SendPacket, OnePiece
<1>4. CASE up /\ packet + 1 >= numberOfPackets /\ ~(packet + 1 < numberOfPackets)
  BY <1>1, <1>4 DEF SendPacket, Finish, OnePiece, AllPieces
<1>5. packet + 1 < numberOfPackets <=> ~(packet + 1 >= numberOfPackets)
  OBVIOUS
<1>6. QED
  BY <1>1, <1>2, <1>3, <1>4, <1>5, Zenon

\* The kinds of message, as disjuncts.
LEMMA Kinds ==
    ASSUME Receive
    PROVE  /\ up /\ channel # <<>> /\ channel' = Tail(channel)
           /\ UNCHANGED <<up, sending, transfer, size, packet, texts, losses, sent, damaged>>
           /\ \/ /\ Head(channel).status = "start" /\ meta' = Head(channel).of
                 /\ downloadBase64' = <<>> /\ UNCHANGED shown
              \/ /\ Head(channel).status = "data"
                 /\ downloadBase64' = IF downloadBase64 = <<>> THEN AfterComma(Head(channel).data)
                                      ELSE downloadBase64 \o Head(channel).data
                 /\ UNCHANGED <<meta, shown>>
              \/ /\ Head(channel).status = "complete" /\ downloadBase64' = <<>> /\ meta' = 0
                 /\ shown' = Append(shown, FileLine(Head(channel).of, meta, downloadBase64))
              \/ /\ Head(channel).status = "complete"
                 /\ downloadBase64 # Payload(Head(channel).of)
                 /\ UNCHANGED <<downloadBase64, meta, shown>>
              \/ /\ Head(channel).status = "plain" /\ shown' = Append(shown, TextLine("plain"))
                 /\ UNCHANGED <<downloadBase64, meta>>
              \/ /\ Head(channel).status = "json" /\ UNCHANGED <<downloadBase64, meta, shown>>
BY Zenon DEF Receive, ReceiveMessage, OnStart, OnData, OnComplete, senderVars, receiverVars

\* The types hold at the start, and with Underway a step keeps them.
LEMMA TypesInit == Init => TypeInv
BY Lengths DEF Init, TypeInv, TypeOK, Underway, Units, Transfers

LEMMA TypesStep == TypeInv /\ [Next]_vars => TypeInv'
<1> SUFFICES ASSUME TypeInv, [Next]_vars PROVE TypeInv'
  OBVIOUS
<1> USE Lengths
<1>1. /\ up \in BOOLEAN
      /\ sending \in {"idle", "reading", "sending", "unreadable", "thrown"}
      /\ transfer \in 0..MaxTransfers /\ size \in [Transfers -> Nat] /\ packet \in Nat
      /\ texts \in 0..MaxTexts /\ losses \in 0..MaxLosses
      /\ channel \in Seq(Message)
      /\ downloadBase64 \in Text /\ meta \in Units
      /\ sent \in Seq(Line) /\ shown \in Seq(Line) /\ damaged \subseteq Units
  BY DEF TypeInv, TypeOK, Message, Line, Text
<1>2. Underway /\ <<>> \in Text /\ Transfers \subseteq Units /\ 0 \in Units /\ transfer \in Units
  BY <1>1 DEF TypeInv, Text, Units, Transfers
<1>3. SUFFICES /\ up' \in BOOLEAN
               /\ sending' \in {"idle", "reading", "sending", "unreadable", "thrown"}
               /\ transfer' \in 0..MaxTransfers /\ size' \in [Transfers -> Nat] /\ packet' \in Nat
               /\ texts' \in 0..MaxTexts /\ losses' \in 0..MaxLosses
               /\ channel' \in Seq(Message)
               /\ downloadBase64' \in Text /\ meta' \in Units
               /\ sent' \in Seq(Line) /\ shown' \in Seq(Line) /\ damaged' \subseteq Units
               /\ Underway'
  BY DEF TypeInv, TypeOK, Message, Line, Text
<1>4. CASE SendFile
  <2>1. CASE up
    <3>1. transfer + 1 \in Transfers /\ transfer + 1 \in 0..MaxTransfers
      BY <1>1, <1>4 DEF SendFile, Transfers
    <3>2. Start(transfer + 1) \in Message
      BY <1>2, <3>1 DEF Start, Message
    <3>3. channel' \in Seq(Message) /\ transfer' = transfer + 1 /\ sending' = "reading"
      <4>1. /\ channel' = Append(channel, Start(transfer + 1))
            /\ transfer' = transfer + 1 /\ sending' = "reading"
        BY <1>4, <2>1, Zenon DEF SendFile
      <4>2. QED
        BY <1>1, <3>2, <4>1
    <3>4. size' \in [Transfers -> Nat]
      BY <1>1, <1>4, <2>1 DEF SendFile
    <3>5. Underway'
      BY <3>1, <3>3 DEF Underway, Transfers
    <3>6. QED
      BY <1>1, <1>4, <3>1, <3>3, <3>4, <3>5 DEF SendFile, receiverVars
  <2>2. CASE ~up
    BY <1>1, <1>2, <1>4, <2>2 DEF SendFile, Underway, receiverVars, Transfers
  <2>3. QED
    BY <1>1, <2>1, <2>2
<1>5. CASE Loaded
  BY <1>1, <1>2, <1>5 DEF Loaded, receiverVars, Underway, Transfers
<1>6. CASE SendPacket
  <2>1. transfer \in Transfers /\ size[transfer] \in Nat /\ packet * Chunk \in Nat
    BY <1>1, <1>2, <1>6 DEF SendPacket, Underway
  <2>12. numberOfPackets \in Nat
    BY <2>1 DEF numberOfPackets
  <2>2. /\ Data(transfer, Piece(transfer, packet * Chunk)) \in Message
        /\ Data(transfer, Slice(transfer, packet * Chunk + Chunk, size[transfer])) \in Message
        /\ Complete(transfer) \in Message
    <3>1. Piece(transfer, packet * Chunk) \in Text
      <4>1. (IF packet * Chunk + Chunk < size[transfer]
             THEN packet * Chunk + Chunk ELSE size[transfer]) \in Nat
        BY <2>1
      <4>2. QED
        BY <1>2, <2>1, <4>1, SliceText DEF Piece
    <3>2. Slice(transfer, packet * Chunk + Chunk, size[transfer]) \in Text
      BY <1>2, <2>1, SliceText
    <3>3. QED
      BY <1>2, <3>1, <3>2 DEF Data, Complete, Message
  <2>3. LastPieces(packet * Chunk + Chunk) \in Seq(Message)
    BY <2>2 DEF LastPieces
  <2>4. FileLine(transfer, transfer, Payload(transfer)) \in Line
    <3>1. Payload(transfer) \in Text
      BY <1>2, <2>1, SliceText DEF Payload
    <3>2. QED
      BY <1>2, <3>1 DEF FileLine, Line
  <2>5. /\ UNCHANGED <<up, transfer, size, texts, losses, receiverVars, damaged>>
        /\ packet' \in {packet, packet + 1}
        /\ sending' \in {"sending", "idle", "thrown"}
    BY <1>1, <1>6, <2>12, Rounds
  <2>6. sent' \in Seq(Line)
    <3>1. sent' \in {sent, Append(sent, FileLine(transfer, transfer, Payload(transfer)))}
      BY <1>1, <1>6, <2>12, Rounds
    <3>2. Append(sent, FileLine(transfer, transfer, Payload(transfer))) \in Seq(Line)
      BY <1>1, <2>4
    <3>3. QED
      BY <1>1, <3>1, <3>2, Zenon
  <2>7. OnePiece \in Seq(Message)
    BY <1>1, <2>2 DEF OnePiece
  <2>8. Append(AllPieces, Complete(transfer)) \in Seq(Message)
    BY <2>2, <2>3, <2>7 DEF AllPieces
  <2>9. channel' \in Seq(Message)
    BY <1>1, <1>6, <2>12, <2>7, <2>8, Rounds
  <2>10. Underway'
    BY <2>1, <2>5 DEF Underway, Transfers
  <2>11. QED
    BY <1>1, <2>5, <2>6, <2>9, <2>10 DEF receiverVars
<1>7. CASE SendMessage
  <2>1. Typed("plain") \in Message /\ Typed("json") \in Message /\ TextLine("plain") \in Line /\ TextLine("json") \in Line
    BY <1>2 DEF Typed, TextLine, Message, Line
  <2>2. channel' \in Seq(Message) /\ sent' \in Seq(Line)
    BY <1>1, <1>7, <2>1 DEF SendMessage
  <2>3. Underway'
    BY <1>2, <1>7 DEF SendMessage, senderVars, Underway, Transfers
  <2>4. QED
    BY <1>1, <1>7, <2>2, <2>3 DEF SendMessage, senderVars, receiverVars
<1>8. CASE Receive
  <2> DEFINE m == Head(channel)
  <2>1. m \in Message /\ channel' \in Seq(Message) /\ ReceiveMessage(m)
    BY <1>1, <1>8 DEF Receive
  <2>2. m.of \in Units /\ m.data \in Text /\ AfterComma(m.data) \in Text
    BY <2>1, AfterCommaText DEF Message
  <2>3. FileLine(m.of, meta, downloadBase64) \in Line /\ TextLine("plain") \in Line /\ TextLine("json") \in Line
    BY <1>1, <1>2, <2>2 DEF FileLine, TextLine, Line
  <2>4. downloadBase64 \o m.data \in Text
    BY <1>1, <2>2 DEF Text
  <2>5. downloadBase64' \in Text /\ meta' \in Units /\ shown' \in Seq(Line)
    <3>1. downloadBase64' \in {downloadBase64, <<>>, AfterComma(m.data), downloadBase64 \o m.data}
      BY <1>8, Kinds
    <3>2. meta' \in {meta, m.of, 0}
      BY <1>8, Kinds
    <3>3. shown' \in {shown, Append(shown, TextLine("plain")),
                     Append(shown, FileLine(m.of, meta, downloadBase64))}
      BY <1>8, Kinds
    <3>4. downloadBase64' \in Text
      BY <1>1, <1>2, <2>2, <2>4, <3>1, Zenon
    <3>5. meta' \in Units
      BY <1>1, <1>2, <2>2, <3>2
    <3>6. shown' \in Seq(Line)
      <4>1. /\ Append(shown, TextLine("plain")) \in Seq(Line)
            /\ Append(shown, FileLine(m.of, meta, downloadBase64)) \in Seq(Line)
        BY <1>1, <2>3
      <4>2. QED
        BY <1>1, <3>3, <4>1, Zenon
    <3>7. QED
      BY <3>4, <3>5, <3>6
  <2>6. Underway'
    BY <1>2, <1>8 DEF Receive, senderVars, Underway, Transfers
  <2>7. QED
    BY <1>1, <1>8, <2>1, <2>5, <2>6 DEF Receive, senderVars
<1>9. CASE Lose
  <2>1. Head(channel) \in Message /\ channel' \in Seq(Message)
    BY <1>1, <1>9 DEF Lose
  <2>2. damaged' \subseteq Units
    BY <1>1, <1>9, <2>1 DEF Lose, Message
  <2>3. losses' \in 0..MaxLosses
    BY <1>1, <1>9 DEF Lose
  <2>4. Underway'
    BY <1>2, <1>9 DEF Lose, senderVars, Underway, Transfers
  <2>5. QED
    BY <1>1, <1>9, <2>1, <2>2, <2>3, <2>4 DEF Lose, senderVars, receiverVars
<1>10. CASE Disconnect
  <2>1. up' = FALSE /\ channel' = <<>>
    BY <1>10 DEF Disconnect
  <2>2. /\ UNCHANGED <<sending, transfer, size, packet, texts, losses>>
        /\ UNCHANGED <<downloadBase64, meta, shown, sent, damaged>>
    BY <1>10 DEF Disconnect, senderVars, receiverVars
  <2>3. Underway'
    BY <1>2, <2>2 DEF Underway, Transfers
  <2>4. up' \in BOOLEAN
    BY <2>1, Zenon
  <2>6. channel' \in Seq(Message)
    BY <2>1
  <2>5. QED
    BY <1>1, <2>2, <2>3, <2>4, <2>6
<1>11. CASE UNCHANGED vars
  BY <1>1, <1>2, <1>11 DEF vars, senderVars, receiverVars, Underway, Transfers
<1>12. QED
  BY <1>4, <1>5, <1>6, <1>7, <1>8, <1>9, <1>10, <1>11, Zenon DEF Next

\* Every value stays in its type, with files, messages and losses as many and as
\* long as they may be: TypeOK on every run of the two pages.
THEOREM FilesTypes == Spec => []TypeOK
<1>1. Spec => []TypeInv
  BY TypesInit, TypesStep, PTL DEF Spec
<1>2. TypeInv => TypeOK
  BY DEF TypeInv
<1>3. QED
  BY <1>1, <1>2, PTL

-----------------------------------------------------------------------------
(* The chain.                                                              *)

\* What downloadBase64 is to hold when p characters of file n have arrived.
Got(n, p) == IF p = 0 THEN <<>> ELSE Slice(n, Header, p)

\* The place after which a chunk, or the rest that "complete" stands for, begins,
\* and the place where a "start" or a chunk ends.
Begins(m, len) == IF m.status = "complete" THEN len ELSE m.data[1][2] - 1
Ends(m) == IF m.status = "start" THEN 0 ELSE m.data[1][2] - 1 + Len(m.data)

\* In the channel ch the messages of file n before the j-th end at p; or there is
\* none, and downloadBase64 ends there.
Linked(ch, mt, dl, n, j, p) ==
    \/ \E i \in DOMAIN ch :
          /\ i < j /\ ch[i].of = n /\ ch[i].status \in {"start", "data"} /\ Ends(ch[i]) = p
          /\ \A k \in DOMAIN ch : i < k /\ k < j => ch[k].of # n
    \/ /\ \A i \in DOMAIN ch : i < j => ch[i].of # n
       /\ mt = n /\ dl = Got(n, p)

\* Every message of file n begins where the one before it ends.
Chained(ch, mt, dl, n, len) ==
    \A j \in DOMAIN ch : ch[j].of = n /\ ch[j].status \in {"data", "complete"} =>
         Linked(ch, mt, dl, n, j, Begins(ch[j], len))

\* A text has no transfer, and a chunk is a slice that is not empty and does not
\* break in the header.
Fits(m) ==
    /\ m.status \in {"plain", "json"} <=> m.of = 0
    /\ m.status = "data" =>
          \E a, b \in Nat : /\ a < b /\ Header < b /\ (a = 0 \/ Header < a)
                            /\ m.data = Slice(m.of, a, b)

\* Transfers follow one another, a "start" first and a "complete" last.
Sorted(ch) ==
    \A i, j \in DOMAIN ch : i < j /\ ch[i].of # 0 /\ ch[j].of # 0 =>
        /\ ch[i].of <= ch[j].of
        /\ ch[i].of = ch[j].of => ch[i].status # "complete" /\ ch[j].status # "start"

Orderly(ch, mt, last) ==
    /\ \A i \in DOMAIN ch : Fits(ch[i]) /\ ch[i].of <= last /\ (ch[i].of # 0 => mt <= ch[i].of)
    /\ Sorted(ch)

\* The channel may still take more of file n.
Unfinished(ch, n) == \A i \in DOMAIN ch : ch[i].of = n => ch[i].status # "complete"

\* A chunk begins and ends where its slice does.
LEMMA Ending ==
    ASSUME NEW n, NEW a \in Nat, NEW b \in Nat, a < b, NEW m, m.status = "data",
           m.data = Slice(n, a, b)
    PROVE  (\A len : Begins(m, len) = a) /\ Ends(m) = b
<1>1. /\ Len(Slice(n, a, b)) = b - a
      /\ \A k \in 1..(b - a) : Slice(n, a, b)[k] = <<n, a + k>>
  <2>1. a <= b
    OBVIOUS
  <2>2. QED
    BY <2>1, SliceIs
<1>2. 1 \in 1..(b - a)
  OBVIOUS
<1>3. m.data[1][2] = a + 1 /\ Len(m.data) = b - a
  BY <1>1, <1>2
<1>4. QED
  BY <1>3 DEF Begins, Ends

\* The channel grows at its end.
LEMMA Longer ==
    ASSUME NEW ch \in Seq(Message), NEW m \in Message
    PROVE  /\ Len(ch) \in Nat /\ DOMAIN ch = 1..Len(ch)
           /\ DOMAIN Append(ch, m) = 1..(Len(ch) + 1) /\ Len(Append(ch, m)) = Len(ch) + 1
           /\ \A i \in DOMAIN ch : Append(ch, m)[i] = ch[i]
           /\ Append(ch, m)[Len(ch) + 1] = m
BY AppendProperties

\* What is linked stays so, also past a message of another transfer; and a message of
\* the file is the new link.
LEMMA LinkedGrows ==
    ASSUME NEW ch \in Seq(Message), NEW m \in Message, NEW mt, NEW dl, NEW n, NEW p,
           NEW j \in 1..(Len(ch) + 1), Linked(ch, mt, dl, n, j, p)
    PROVE  Linked(Append(ch, m), mt, dl, n, j, p)
<1>1. /\ Len(ch) \in Nat /\ DOMAIN ch = 1..Len(ch) /\ DOMAIN Append(ch, m) = 1..(Len(ch) + 1)
      /\ \A i \in DOMAIN ch : Append(ch, m)[i] = ch[i]
  BY Longer
<1>2. \A i \in DOMAIN Append(ch, m) : i < j => i \in DOMAIN ch /\ Append(ch, m)[i] = ch[i]
  BY <1>1
<1>3. DOMAIN ch \subseteq DOMAIN Append(ch, m)
  BY <1>1
<1>4. QED
  BY <1>1, <1>2, <1>3, Zenon DEF Linked

LEMMA LinkedPasses ==
    ASSUME NEW ch \in Seq(Message), NEW m \in Message, NEW mt, NEW dl, NEW n, NEW p,
           m.of # n, Linked(ch, mt, dl, n, Len(ch) + 1, p)
    PROVE  Linked(Append(ch, m), mt, dl, n, Len(ch) + 2, p)
<1>1. /\ Len(ch) \in Nat /\ DOMAIN ch = 1..Len(ch) /\ DOMAIN Append(ch, m) = 1..(Len(ch) + 1)
      /\ \A i \in DOMAIN ch : Append(ch, m)[i] = ch[i]
      /\ Append(ch, m)[Len(ch) + 1] = m
  BY Longer
<1>2. \A i \in DOMAIN Append(ch, m) : \/ i \in DOMAIN ch /\ Append(ch, m)[i] = ch[i]
                                      \/ Append(ch, m)[i].of # n
  BY <1>1
<1>3. \A i \in DOMAIN ch : i < Len(ch) + 1 /\ i < Len(ch) + 2 /\ i \in DOMAIN Append(ch, m)
  BY <1>1
<1>4. QED
  BY <1>1, <1>2, <1>3, Zenon DEF Linked

LEMMA LinkedHere ==
    ASSUME NEW ch \in Seq(Message), NEW m \in Message, NEW mt, NEW dl, NEW n,
           m.of = n, m.status \in {"start", "data"}
    PROVE  Linked(Append(ch, m), mt, dl, n, Len(ch) + 2, Ends(m))
<1>1. /\ Len(ch) \in Nat /\ DOMAIN Append(ch, m) = 1..(Len(ch) + 1)
      /\ Append(ch, m)[Len(ch) + 1] = m
  BY Longer
<1>2. Len(ch) + 1 \in DOMAIN Append(ch, m) /\ Len(ch) + 1 < Len(ch) + 2
  BY <1>1
<1>3. \A k \in DOMAIN Append(ch, m) : ~(Len(ch) + 1 < k)
  BY <1>1
<1>4. QED
  BY <1>1, <1>2, <1>3, Zenon DEF Linked

\* The chain goes on if the new message is linked to it.
LEMMA ChainedGrows ==
    ASSUME NEW ch \in Seq(Message), NEW m \in Message, NEW mt, NEW dl, NEW n, NEW len,
           Chained(ch, mt, dl, n, len),
           m.of = n /\ m.status \in {"data", "complete"} =>
              Linked(ch, mt, dl, n, Len(ch) + 1, Begins(m, len))
    PROVE  Chained(Append(ch, m), mt, dl, n, len)
<1>1. /\ Len(ch) \in Nat /\ DOMAIN ch = 1..Len(ch) /\ DOMAIN Append(ch, m) = 1..(Len(ch) + 1)
      /\ \A i \in DOMAIN ch : Append(ch, m)[i] = ch[i]
      /\ Append(ch, m)[Len(ch) + 1] = m
  BY Longer
<1>2. ASSUME NEW j \in DOMAIN Append(ch, m), Append(ch, m)[j].of = n,
             Append(ch, m)[j].status \in {"data", "complete"}
      PROVE  Linked(Append(ch, m), mt, dl, n, j, Begins(Append(ch, m)[j], len))
  <2>1. j \in 1..(Len(ch) + 1)
    BY <1>1
  <2>2. Linked(ch, mt, dl, n, j, Begins(Append(ch, m)[j], len))
    <3>1. CASE j \in DOMAIN ch
      BY <1>1, <1>2, <3>1, Zenon DEF Chained
    <3>2. CASE j = Len(ch) + 1
      BY <1>1, <1>2, <3>2, Zenon
    <3>3. QED
      BY <1>1, <2>1, <3>1, <3>2
  <2>3. QED
    BY <2>1, <2>2, LinkedGrows
<1>3. QED
  BY <1>2, Zenon DEF Chained

\* The order is kept by a text, and by what the last transfer sends next.
LEMMA OrderlyGrows ==
    ASSUME NEW ch \in Seq(Message), NEW m \in Message, NEW mt \in Nat, NEW last \in Nat,
           Orderly(ch, mt, last), Fits(m), mt <= last,
           m.of = 0 \/ (m.of = last /\ Unfinished(ch, last)),
           m.status = "start" => \A i \in DOMAIN ch : ch[i].of # m.of
    PROVE  Orderly(Append(ch, m), mt, last)
<1> DEFINE more == Append(ch, m)
<1>1. /\ Len(ch) \in Nat /\ DOMAIN ch = 1..Len(ch) /\ DOMAIN more = 1..(Len(ch) + 1)
      /\ \A i \in DOMAIN ch : more[i] = ch[i]
      /\ more[Len(ch) + 1] = m
  BY Longer
<1>2. \A i \in DOMAIN more : \/ i \in DOMAIN ch /\ more[i] = ch[i]
                             \/ i = Len(ch) + 1 /\ more[i] = m
  BY <1>1
<1>3. \A i \in DOMAIN more : /\ Fits(more[i]) /\ more[i].of <= last
                             /\ more[i].of # 0 => mt <= more[i].of
  BY <1>2 DEF Orderly
<1>4. ASSUME NEW i \in DOMAIN more, NEW j \in DOMAIN more, i < j, more[i].of # 0, more[j].of # 0
      PROVE  /\ more[i].of <= more[j].of
             /\ more[i].of = more[j].of => more[i].status # "complete" /\ more[j].status # "start"
  <2>1. i \in DOMAIN ch /\ more[i] = ch[i]
    BY <1>1, <1>2, <1>4
  <2>2. CASE j \in DOMAIN ch /\ more[j] = ch[j]
    BY <1>4, <2>1, <2>2 DEF Orderly, Sorted
  <2>3. CASE j = Len(ch) + 1 /\ more[j] = m
    BY <1>3, <1>4, <2>1, <2>3 DEF Orderly, Unfinished
  <2>4. QED
    BY <1>2, <2>2, <2>3
<1>5. QED
  BY <1>3, <1>4 DEF Orderly, Sorted

\* The channel loses its head.
LEMMA Shorter ==
    ASSUME NEW ch \in Seq(Message), ch # <<>>
    PROVE  /\ Len(ch) \in Nat /\ Len(ch) > 0 /\ DOMAIN ch = 1..Len(ch)
           /\ Head(ch) = ch[1] /\ Head(ch) \in Message
           /\ Tail(ch) \in Seq(Message)
           /\ DOMAIN Tail(ch) = 1..(Len(ch) - 1) /\ Len(Tail(ch)) = Len(ch) - 1
           /\ \A i \in DOMAIN Tail(ch) : i + 1 \in DOMAIN ch /\ Tail(ch)[i] = ch[i + 1]
BY HeadTailProperties

\* The transfers are numbers.
LEMMA Numbered ==
    ASSUME NEW ch \in Seq(Message)
    PROVE  \A i \in DOMAIN ch : ch[i].of \in Nat
<1>1. \A i \in DOMAIN ch : ch[i] \in Message
  OBVIOUS
<1>2. QED
  BY <1>1, Lengths DEF Message, Units, Transfers

\* What is left is in order, and not of an earlier transfer than the head was.
LEMMA OrderlyFalls ==
    ASSUME NEW ch \in Seq(Message), ch # <<>>, NEW mt, NEW last, Orderly(ch, mt, last),
           NEW mt2 \in {mt, 0, Head(ch).of}
    PROVE  Orderly(Tail(ch), mt2, last)
<1>1. /\ Len(ch) \in Nat /\ Len(ch) > 0 /\ DOMAIN ch = 1..Len(ch)
      /\ Head(ch) = ch[1] /\ \A i \in DOMAIN ch : ch[i].of \in Nat
      /\ DOMAIN Tail(ch) = 1..(Len(ch) - 1)
      /\ \A i \in DOMAIN Tail(ch) : i + 1 \in DOMAIN ch /\ Tail(ch)[i] = ch[i + 1]
  BY Shorter, Numbered
<1>2. \A i \in DOMAIN Tail(ch) : Tail(ch)[i].of # 0 => mt2 <= Tail(ch)[i].of
  <2>1. SUFFICES ASSUME NEW i \in DOMAIN Tail(ch), Tail(ch)[i].of # 0
                 PROVE  mt2 <= Tail(ch)[i].of
    OBVIOUS
  <2>2. CASE mt2 = mt
    BY <1>1, <2>1, <2>2 DEF Orderly
  <2>3. CASE mt2 = 0
    BY <1>1, <2>1, <2>3
  <2>4. CASE mt2 = ch[1].of /\ ch[1].of # 0
    <3>1. 1 \in DOMAIN ch /\ i + 1 \in DOMAIN ch /\ 1 < i + 1 /\ ch[i + 1].of # 0
      BY <1>1, <2>1
    <3>2. ch[1].of <= ch[i + 1].of
      BY <2>4, <3>1 DEF Orderly, Sorted
    <3>3. QED
      BY <1>1, <2>1, <2>4, <3>2
  <2>5. QED
    BY <1>1, <2>2, <2>3, <2>4
<1>3. Sorted(Tail(ch))
  <2>1. \A i, j \in DOMAIN Tail(ch) : i < j => i + 1 < j + 1
    BY <1>1
  <2>2. QED
    BY <1>1, <2>1 DEF Orderly, Sorted
<1>4. QED
  BY <1>1, <1>2, <1>3 DEF Orderly

\* A link survives when the head goes: what it ends at is then in downloadBase64, or
\* it is of an earlier transfer and changes nothing.
LEMMA LinkedFalls ==
    ASSUME NEW ch \in Seq(Message), ch # <<>>, NEW mt, NEW dl, NEW mt2, NEW dl2, NEW n, NEW p,
           NEW j \in 2..(Len(ch) + 1), Linked(ch, mt, dl, n, j, p),
           Head(ch).of = n /\ Head(ch).status \in {"start", "data"} =>
               mt2 = n /\ dl2 = Got(n, Ends(Head(ch))),
           Head(ch).of # n /\ mt = n => mt2 = mt /\ dl2 = dl
    PROVE  Linked(Tail(ch), mt2, dl2, n, j - 1, p)
<1>1. /\ Len(ch) \in Nat /\ Len(ch) > 0 /\ DOMAIN ch = 1..Len(ch) /\ Head(ch) = ch[1]
      /\ DOMAIN Tail(ch) = 1..(Len(ch) - 1)
      /\ \A i \in DOMAIN Tail(ch) : i + 1 \in DOMAIN ch /\ Tail(ch)[i] = ch[i + 1]
  BY Shorter
<1>2. 1 \in DOMAIN ch /\ 1 < j
  BY <1>1
<1>3. CASE \E i \in DOMAIN ch :
              /\ i < j /\ ch[i].of = n /\ ch[i].status \in {"start", "data"} /\ Ends(ch[i]) = p
              /\ \A k \in DOMAIN ch : i < k /\ k < j => ch[k].of # n
  <2>1. PICK i \in DOMAIN ch :
              /\ i < j /\ ch[i].of = n /\ ch[i].status \in {"start", "data"} /\ Ends(ch[i]) = p
              /\ \A k \in DOMAIN ch : i < k /\ k < j => ch[k].of # n
    BY <1>3
  <2>2. \A k \in DOMAIN Tail(ch) : i < k + 1 /\ k < j - 1 => Tail(ch)[k].of # n
    BY <1>1, <2>1
  <2>3. CASE i = 1
    <3>1. mt2 = n /\ dl2 = Got(n, p)
      BY <1>1, <2>1, <2>3
    <3>2. \A k \in DOMAIN Tail(ch) : k < j - 1 => Tail(ch)[k].of # n
      BY <1>1, <2>2, <2>3
    <3>3. QED
      BY <3>1, <3>2 DEF Linked
  <2>4. CASE i > 1
    <3>1. i - 1 \in DOMAIN Tail(ch) /\ i - 1 < j - 1 /\ Tail(ch)[i - 1] = ch[i]
      BY <1>1, <2>1, <2>4
    <3>2. \A k \in DOMAIN Tail(ch) : i - 1 < k /\ k < j - 1 => Tail(ch)[k].of # n
      BY <1>1, <2>2
    <3>3. QED
      BY <2>1, <3>1, <3>2 DEF Linked
  <2>5. QED
    BY <1>1, <2>3, <2>4
<1>4. CASE /\ \A i \in DOMAIN ch : i < j => ch[i].of # n
           /\ mt = n /\ dl = Got(n, p)
  <2>1. mt2 = n /\ dl2 = Got(n, p)
    BY <1>1, <1>2, <1>4
  <2>2. \A k \in DOMAIN Tail(ch) : k < j - 1 => Tail(ch)[k].of # n
    BY <1>1, <1>4
  <2>3. QED
    BY <2>1, <2>2 DEF Linked
<1>5. QED
  BY <1>3, <1>4 DEF Linked

\* So does the chain: what is before the next message of the file is not of a later
\* one.
LEMMA ChainedFalls ==
    ASSUME NEW ch \in Seq(Message), ch # <<>>, NEW mt, NEW dl, NEW mt2, NEW dl2,
           NEW n \in Nat, n # 0, NEW len, Chained(ch, mt, dl, n, len), Sorted(ch),
           Head(ch).of = n /\ Head(ch).status \in {"start", "data"} =>
               mt2 = n /\ dl2 = Got(n, Ends(Head(ch))),
           Head(ch).of < n /\ mt = n => mt2 = mt /\ dl2 = dl
    PROVE  Chained(Tail(ch), mt2, dl2, n, len)
<1>1. /\ Len(ch) \in Nat /\ Len(ch) > 0 /\ DOMAIN ch = 1..Len(ch) /\ Head(ch) = ch[1]
      /\ DOMAIN Tail(ch) = 1..(Len(ch) - 1) /\ \A i \in DOMAIN ch : ch[i].of \in Nat
      /\ \A i \in DOMAIN Tail(ch) : i + 1 \in DOMAIN ch /\ Tail(ch)[i] = ch[i + 1]
  BY Shorter, Numbered
<1>2. ASSUME NEW j \in DOMAIN Tail(ch), Tail(ch)[j].of = n,
             Tail(ch)[j].status \in {"data", "complete"}
      PROVE  Linked(Tail(ch), mt2, dl2, n, j, Begins(Tail(ch)[j], len))
  <2>1. /\ j + 1 \in DOMAIN ch /\ Tail(ch)[j] = ch[j + 1] /\ ch[j + 1].of = n
        /\ j + 1 \in 2..(Len(ch) + 1) /\ (j + 1) - 1 = j /\ 1 \in DOMAIN ch /\ 1 < j + 1
    BY <1>1, <1>2
  <2>2. Linked(ch, mt, dl, n, j + 1, Begins(ch[j + 1], len))
    BY <1>2, <2>1, Zenon DEF Chained
  <2>3. Head(ch).of <= n
    BY <1>1, <2>1 DEF Sorted
  <2>4. Head(ch).of # n /\ mt = n => mt2 = mt /\ dl2 = dl
    BY <1>1, <2>1, <2>3
  <2>5. Linked(Tail(ch), mt2, dl2, n, (j + 1) - 1, Begins(ch[j + 1], len))
    BY <2>1, <2>2, <2>4, LinkedFalls
  <2>6. QED
    BY <2>1, <2>5
<1>3. QED
  BY <1>2, Zenon DEF Chained

-----------------------------------------------------------------------------
(* The invariant of the chain.                                             *)

Sending == sending \in {"reading", "sending"}

\* How much of the file that is being sent is under way.
Reached == IF sending = "reading" THEN 0 ELSE packet * Chunk

\* The transfers that have lost nothing.
Undamaged == (1..transfer) \ damaged

OrderInv ==
    /\ meta <= transfer
    /\ Orderly(channel, meta, transfer)
    /\ ~up => channel = <<>>

\* The rounds of onReadAsDataURL never begin behind the end of the file, and only the
\* first may be more than the counted packets.
SenderInv ==
    /\ Sending => transfer >= 1
    /\ up /\ Sending => Unfinished(channel, transfer)
    /\ sending = "sending" => /\ packet * Chunk < size[transfer]
                              /\ packet = 0 \/ packet < numberOfPackets
    /\ \A n \in 1..transfer : Header < size[n]

ChainInv ==
    up => /\ \A n \in Undamaged : Chained(channel, meta, downloadBase64, n, size[n])
          /\ Sending /\ transfer \in Undamaged =>
                Linked(channel, meta, downloadBase64, transfer, Len(channel) + 1, Reached)

ShownInv ==
    /\ WholeFilesIntact
    /\ \A i \in DOMAIN shown : shown[i].what = "file" => shown[i].of \in 1..transfer

FilesInv == OrderInv /\ SenderInv /\ ChainInv /\ ShownInv

\* Facts about the types that the steps use.
LEMMA Ranges ==
    ASSUME TypeInv
    PROVE  /\ transfer \in Nat /\ transfer \in Units /\ packet \in Nat /\ meta \in Nat
           /\ 1..transfer \subseteq Transfers
           /\ \A n \in 1..transfer : n \in Units /\ n \in Nat /\ n # 0 /\ size[n] \in Nat
           /\ channel \in Seq(Message) /\ shown \in Seq(Line) /\ sent \in Seq(Line)
           /\ downloadBase64 \in Text /\ size \in [Transfers -> Nat]
           /\ packet * Chunk \in Nat
<1>1. /\ transfer \in 0..MaxTransfers /\ size \in [Transfers -> Nat] /\ packet \in Nat
      /\ channel \in Seq(Message) /\ shown \in Seq(Line) /\ sent \in Seq(Line)
      /\ downloadBase64 \in Text /\ meta \in Units
  BY DEF TypeInv, TypeOK, Message, Line, Text
<1>2. 1..transfer \subseteq Transfers
  BY <1>1, Lengths DEF Transfers
<1>3. packet * Chunk \in Nat
  BY <1>1, Lengths
<1>4. QED
  BY <1>1, <1>2, <1>3, Lengths DEF Units, Transfers

\* The pages start with an empty channel and empty logs.
LEMMA FilesInit == Init => FilesInv
<1> SUFFICES ASSUME Init PROVE FilesInv
  OBVIOUS
<1>1. OrderInv
  BY DEF Init, OrderInv, Orderly, Sorted
<1>2. SenderInv
  BY DEF Init, SenderInv, Sending
<1>3. ChainInv
  BY DEF Init, ChainInv, Sending, Undamaged
<1>4. ShownInv
  BY DEF Init, ShownInv, WholeFilesIntact
<1>5. QED
  BY <1>1, <1>2, <1>3, <1>4 DEF FilesInv

-----------------------------------------------------------------------------
(* What a step leaves alone.                                               *)

\* Nothing new is shown, and the files that were shown are as they were.
LEMMA SameShown ==
    ASSUME TypeInv, ShownInv, shown' = shown, transfer <= transfer', transfer' \in Nat,
           \A n \in 1..transfer : size'[n] = size[n], damaged \subseteq damaged'
    PROVE  ShownInv'
<1>1. transfer \in Nat
  BY Ranges
<1>2. \A i \in DOMAIN shown' : shown'[i].what = "file" => shown'[i].of \in 1..transfer'
  BY <1>1 DEF ShownInv
<1>3. ASSUME NEW i \in DOMAIN shown', shown'[i].what = "file", shown'[i].of \notin damaged'
      PROVE  /\ shown'[i].name = shown'[i].of
             /\ shown'[i].data = Slice(shown'[i].of, Header, size'[shown'[i].of])
  <2>1. shown[i].of \in 1..transfer /\ shown[i].of \notin damaged
    BY <1>3 DEF ShownInv
  <2>2. shown[i].name = shown[i].of /\ shown[i].data = Payload(shown[i].of)
    BY <1>3, <2>1 DEF ShownInv, WholeFilesIntact
  <2>3. QED
    BY <2>1, <2>2 DEF Payload
<1>4. QED
  BY <1>2, <1>3 DEF ShownInv, WholeFilesIntact, Payload

\* The channel that was closed carries nothing.
LEMMA ClosedChannel ==
    ASSUME TypeInv, FilesInv, ~up', channel' = <<>>, UNCHANGED <<transfer, size, packet, damaged>>,
           UNCHANGED <<meta, downloadBase64, shown>>, sending' \in {sending, "thrown"}
    PROVE  FilesInv'
<1>1. OrderInv'
  BY DEF FilesInv, OrderInv, Orderly, Sorted
<1>2. SenderInv'
  <2>1. /\ Sending' => Sending
        /\ sending' = "sending" => sending = "sending"
        /\ numberOfPackets' = numberOfPackets
    BY DEF Sending, numberOfPackets
  <2>2. QED
    BY <2>1 DEF FilesInv, SenderInv
<1>3. ChainInv'
  BY DEF ChainInv
<1>4. ShownInv'
  BY SameShown, Ranges DEF FilesInv
<1>5. QED
  BY <1>1, <1>2, <1>3, <1>4 DEF FilesInv

-----------------------------------------------------------------------------
(* The sender's steps.                                                     *)

\* What the sender may build on: the channel is in order, and the messages of the
\* file end at p.
EndsAt(ch, p) ==
    /\ ch \in Seq(Message)
    /\ Orderly(ch, meta, transfer)
    /\ Unfinished(ch, transfer)
    /\ \A n \in Undamaged : Chained(ch, meta, downloadBase64, n, size[n])
    /\ transfer \in Undamaged =>
          Linked(ch, meta, downloadBase64, transfer, Len(ch) + 1, p)

\* One more piece goes out.
LEMMA PieceGoes ==
    ASSUME TypeInv, meta <= transfer, transfer >= 1, NEW ch, NEW a \in Nat, NEW b \in Nat,
           EndsAt(ch, a), a < b, Header < b, a = 0 \/ Header < a
    PROVE  EndsAt(Append(ch, Data(transfer, Slice(transfer, a, b))), b)
<1> DEFINE m == Data(transfer, Slice(transfer, a, b))
<1>1. /\ transfer \in Nat /\ transfer \in Units /\ meta \in Nat /\ transfer # 0
      /\ ch \in Seq(Message) /\ Len(ch) \in Nat
  BY Ranges DEF EndsAt
<1>2. /\ m.status = "data" /\ m.of = transfer /\ m.data = Slice(transfer, a, b)
      /\ m \in Message
  BY <1>1, SliceText DEF Data, Message
<1>3. (\A len : Begins(m, len) = a) /\ Ends(m) = b
  BY <1>2, Ending
<1>4. Fits(m)
  BY <1>1, <1>2 DEF Fits
<1> HIDE DEF m
<1>5. Append(ch, m) \in Seq(Message) /\ Len(Append(ch, m)) + 1 = Len(ch) + 2
  BY <1>1, <1>2
<1>6. Orderly(Append(ch, m), meta, transfer)
  BY <1>1, <1>2, <1>4, OrderlyGrows DEF EndsAt
<1>7. Unfinished(Append(ch, m), transfer)
  BY <1>1, <1>2, Longer DEF EndsAt, Unfinished
<1>8. \A n \in Undamaged : Chained(Append(ch, m), meta, downloadBase64, n, size[n])
  <2>1. SUFFICES ASSUME NEW n \in Undamaged
                 PROVE  Chained(Append(ch, m), meta, downloadBase64, n, size[n])
    OBVIOUS
  <2>2. Chained(ch, meta, downloadBase64, n, size[n])
    BY DEF EndsAt
  <2>3. m.of = n => Linked(ch, meta, downloadBase64, n, Len(ch) + 1, Begins(m, size[n]))
    BY <1>2, <1>3 DEF EndsAt
  <2>4. QED
    BY <1>1, <1>2, <2>2, <2>3, ChainedGrows
<1>9. Linked(Append(ch, m), meta, downloadBase64, transfer, Len(Append(ch, m)) + 1, b)
  <2>1. Linked(Append(ch, m), meta, downloadBase64, transfer, Len(ch) + 2, Ends(m))
    BY <1>1, <1>2, LinkedHere
  <2>2. QED
    BY <1>3, <1>5, <2>1
<1>10. EndsAt(Append(ch, m), b)
  BY <1>5, <1>6, <1>7, <1>8, <1>9 DEF EndsAt
<1>11. QED
  BY <1>10 DEF m

\* The number of counted packets, and how far they go.
LEMMA Counted ==
    ASSUME NEW s \in Nat, NEW k \in Nat
    PROVE  /\ s \div Chunk \in Nat
           /\ k < s \div Chunk => k * Chunk + Chunk <= s
           /\ (k + 1) * Chunk = k * Chunk + Chunk
           /\ k >= 1 => k * Chunk >= Chunk
<1>1. Chunk \in Nat /\ Chunk > 0
  BY Lengths
<1>2. s \div Chunk \in Nat /\ Chunk * (s \div Chunk) <= s
  BY <1>1
<1>3. (k + 1) * Chunk = k * Chunk + Chunk /\ k * Chunk \in Nat
  BY <1>1
<1>4. ASSUME k < s \div Chunk PROVE k * Chunk + Chunk <= s
  <2> DEFINE q == s \div Chunk
  <2>1. q \in Nat /\ k + 1 <= q /\ Chunk * q <= s
    BY <1>2, <1>4
  <2> HIDE DEF q
  <2>2. (k + 1) * Chunk <= q * Chunk /\ q * Chunk = Chunk * q
    BY <1>1, <2>1
  <2>3. QED
    BY <1>1, <1>3, <2>1, <2>2
<1>5. k >= 1 => k * Chunk >= Chunk
  BY <1>1
<1>6. QED
  BY <1>2, <1>3, <1>4, <1>5

\* The "start" of a new transfer, of which nothing else is under way.
LEMMA FilesSend == TypeInv /\ FilesInv /\ SendFile => FilesInv'
<1> SUFFICES ASSUME TypeInv, FilesInv, SendFile PROVE FilesInv'
  OBVIOUS
<1>1. UNCHANGED <<up, packet, meta, downloadBase64, shown, damaged>> /\ ~Sending
  BY DEF SendFile, receiverVars, Sending
<1>2. CASE ~up
  <2>1. sending' = "thrown" /\ UNCHANGED <<transfer, size, channel>>
    BY <1>2 DEF SendFile
  <2>2. ~up' /\ channel' = <<>>
    BY <1>1, <1>2, <2>1 DEF FilesInv, OrderInv
  <2>3. QED
    BY <1>1, <2>1, <2>2, ClosedChannel
<1>3. CASE up
  <2> DEFINE n == transfer + 1
             m == Start(n)
  <2>1. /\ transfer' = n /\ channel' = Append(channel, m) /\ sending' = "reading"
        /\ transfer < MaxTransfers
    BY <1>3, Zenon DEF SendFile
  <2>2. PICK s \in Sizes : size' = [size EXCEPT ![n] = s]
    BY <1>3, Zenon DEF SendFile
  <2>3. /\ transfer \in Nat /\ meta \in Nat /\ channel \in Seq(Message)
        /\ Len(channel) \in Nat /\ size \in [Transfers -> Nat] /\ n \in Transfers
        /\ 1..transfer \subseteq Transfers /\ n \in Units /\ n \in Nat
    BY <2>1, Ranges, Lengths DEF Transfers, Units
  <2>4. m.status = "start" /\ m.of = n /\ m \in Message /\ Fits(m) /\ Ends(m) = 0
    BY <2>3 DEF Start, Message, Fits, Ends, Text
  <2>5. \A i \in DOMAIN channel : channel[i].of <= transfer /\ channel[i].of # n
    BY <2>3, Numbered DEF FilesInv, OrderInv, Orderly
  <2>6. size'[n] = s /\ Header < s /\ \A k \in 1..transfer : size'[k] = size[k]
    BY <2>2, <2>3, Lengths
  <2> HIDE DEF m
  <2>7. OrderInv'
    <3>1. Orderly(channel, meta, n)
      BY <2>3, <2>5, Numbered DEF FilesInv, OrderInv, Orderly
    <3>2. Unfinished(channel, n) /\ meta <= n
      BY <2>3, <2>5 DEF Unfinished, FilesInv, OrderInv
    <3>3. Orderly(Append(channel, m), meta, n)
      BY <2>3, <2>4, <2>5, <3>1, <3>2, OrderlyGrows
    <3>4. QED
      BY <1>1, <1>3, <2>1, <3>2, <3>3 DEF OrderInv
  <2>8. SenderInv'
    <3>1. Unfinished(channel', transfer')
      BY <2>1, <2>3, <2>4, <2>5, Longer DEF Unfinished
    <3>2. \A k \in 1..transfer' : Header < size'[k]
      BY <2>1, <2>3, <2>6 DEF FilesInv, SenderInv
    <3>3. QED
      BY <2>1, <2>3, <3>1, <3>2 DEF SenderInv
  <2>9. ChainInv'
    <3>1. ASSUME NEW k \in Undamaged' PROVE Chained(channel', meta', downloadBase64', k, size'[k])
      <4>1. k \in 1..n /\ k \notin damaged
        BY <1>1, <2>1 DEF Undamaged
      <4>2. Chained(channel, meta, downloadBase64, k, size'[k])
        <5>1. CASE k = n
          BY <2>5, <5>1 DEF Chained
        <5>2. CASE k # n
          <6>1. k \in 1..transfer /\ k \in Undamaged
            BY <2>3, <4>1, <5>2 DEF Undamaged
          <6>2. QED
            BY <1>3, <2>6, <6>1 DEF FilesInv, ChainInv
        <5>3. QED
          BY <5>1, <5>2
      <4>3. Chained(Append(channel, m), meta, downloadBase64, k, size'[k])
        BY <2>3, <2>4, <4>2, ChainedGrows
      <4>4. QED
        BY <1>1, <2>1, <4>3
    <3>2. Linked(channel', meta', downloadBase64', transfer', Len(channel') + 1, Reached')
      <4>1. Linked(Append(channel, m), meta, downloadBase64, n, Len(channel) + 2, 0)
        BY <2>3, <2>4, LinkedHere
      <4>2. Len(channel') + 1 = Len(channel) + 2 /\ Reached' = 0
        BY <2>1, <2>3, <2>4 DEF Reached
      <4>3. QED
        BY <1>1, <2>1, <4>1, <4>2
    <3>3. QED
      BY <3>1, <3>2 DEF ChainInv
  <2>10. ShownInv'
    BY <1>1, <2>1, <2>3, <2>6, SameShown DEF FilesInv
  <2>11. QED
    BY <2>7, <2>8, <2>9, <2>10 DEF FilesInv
<1>4. QED
  BY <1>2, <1>3

\* The file is read, or cannot be.
LEMMA FilesLoaded == TypeInv /\ FilesInv /\ Loaded => FilesInv'
<1> SUFFICES ASSUME TypeInv, FilesInv, Loaded PROVE FilesInv'
  OBVIOUS
<1>1. /\ UNCHANGED <<up, transfer, size, channel, damaged>>
      /\ UNCHANGED <<meta, downloadBase64, shown>>
      /\ sending = "reading" /\ packet' = 0 /\ sending' \in {"sending", "unreadable"}
  BY DEF Loaded, receiverVars
<1>2. Sending /\ Reached = 0 /\ Reached' = 0 /\ packet' * Chunk = 0
  BY <1>1, Lengths DEF Sending, Reached
<1>3. OrderInv'
  BY <1>1 DEF FilesInv, OrderInv
<1>4. SenderInv'
  <2>1. transfer \in Nat /\ transfer \in 1..transfer /\ size[transfer] \in Nat
    BY <1>2, Ranges DEF FilesInv, SenderInv
  <2>2. 0 < size[transfer]
    BY <2>1, Lengths DEF FilesInv, SenderInv
  <2>3. QED
    BY <1>1, <1>2, <2>2 DEF FilesInv, SenderInv
<1>5. ChainInv'
  <2>1. Undamaged' = Undamaged
    BY <1>1 DEF Undamaged
  <2>2. QED
    BY <1>1, <1>2, <2>1 DEF FilesInv, ChainInv
<1>6. ShownInv'
  BY <1>1, SameShown, Ranges DEF FilesInv
<1>7. QED
  BY <1>3, <1>4, <1>5, <1>6 DEF FilesInv

\* Where a round of onReadAsDataURL ends.
RoundEnd ==
    IF packet * Chunk + Chunk < size[transfer] THEN packet * Chunk + Chunk ELSE size[transfer]

\* Each round sends the next piece, and the last one all that is left.
LEMMA RoundGoes ==
    ASSUME TypeInv, FilesInv, up, sending = "sending"
    PROVE  /\ EndsAt(OnePiece, RoundEnd)
           /\ packet + 1 < numberOfPackets => /\ RoundEnd = (packet + 1) * Chunk
                                              /\ RoundEnd < size[transfer]
           /\ packet + 1 >= numberOfPackets => EndsAt(AllPieces, size[transfer])
<1> DEFINE from == packet * Chunk
           s == size[transfer]
<1>1. /\ transfer \in Nat /\ packet \in Nat /\ transfer >= 1 /\ transfer \in 1..transfer
      /\ from \in Nat /\ s \in Nat /\ Header < s /\ from < s /\ meta <= transfer
      /\ channel \in Seq(Message) /\ Sending /\ Reached = from
      /\ packet = 0 \/ packet < numberOfPackets
  BY Ranges DEF FilesInv, SenderInv, OrderInv, Sending, Reached
<1>2. EndsAt(channel, from)
  BY <1>1 DEF EndsAt, FilesInv, OrderInv, SenderInv, ChainInv
<1>3. /\ packet = 0 => from = 0
      /\ packet >= 1 => Header < from
      /\ (packet + 1) * Chunk = from + Chunk /\ (packet + 1) \in Nat
      /\ (packet + 1) < numberOfPackets => (packet + 1) * Chunk + Chunk <= s
  <2>1. packet >= 1 => packet * Chunk >= Chunk
    BY <1>1, Counted
  <2>2. (packet + 1) * Chunk = packet * Chunk + Chunk
    BY <1>1, Counted
  <2>3. packet + 1 \in Nat
    BY <1>1
  <2>4. (packet + 1) < s \div Chunk => (packet + 1) * Chunk + Chunk <= s
    BY <1>1, <2>3, Counted
  <2>5. packet = 0 => packet * Chunk = 0
    BY Lengths
  <2>6. packet >= 1 => Header < from
    BY <1>1, <2>1, Lengths
  <2>7. QED
    BY <2>2, <2>3, <2>4, <2>5, <2>6 DEF numberOfPackets
<1> HIDE DEF from, s
<1>4. RoundEnd = IF from + Chunk < s THEN from + Chunk ELSE s
  BY DEF RoundEnd, from, s
<1>5. RoundEnd \in Nat /\ from < RoundEnd /\ Header < RoundEnd /\ RoundEnd <= s
  BY <1>1, <1>4, Lengths
<1>6. OnePiece = Append(channel, Data(transfer, Slice(transfer, from, RoundEnd)))
  BY DEF OnePiece, Piece, RoundEnd, from
<1>7. EndsAt(OnePiece, RoundEnd)
  BY <1>1, <1>2, <1>3, <1>5, <1>6, PieceGoes
<1>8. ASSUME packet + 1 < numberOfPackets
      PROVE  RoundEnd = (packet + 1) * Chunk /\ RoundEnd < s
  BY <1>1, <1>3, <1>4, <1>8, Lengths
<1>9. EndsAt(AllPieces, s)
  <2>1. LastPieces(from + Chunk) =
          IF s > from + Chunk THEN <<Data(transfer, Slice(transfer, from + Chunk, s))>> ELSE <<>>
    BY DEF LastPieces, s
  <2>2. OnePiece \in Seq(Message) /\ AllPieces = OnePiece \o LastPieces(from + Chunk)
    BY <1>7 DEF EndsAt, AllPieces, from
  <2>3. CASE s > from + Chunk
    <3>1. RoundEnd = from + Chunk /\ from + Chunk \in Nat /\ from + Chunk < s
          /\ Header < from + Chunk
      BY <1>1, <1>4, <2>3, Lengths
    <3>2. EndsAt(Append(OnePiece, Data(transfer, Slice(transfer, from + Chunk, s))), s)
      BY <1>1, <1>7, <3>1, PieceGoes
    <3>3. Append(OnePiece, Data(transfer, Slice(transfer, from + Chunk, s))) = AllPieces
      <4>1. Data(transfer, Slice(transfer, from + Chunk, s)) \in Message
        BY <1>1, <3>1, SliceText, Ranges DEF Data, Message
      <4>2. QED
        BY <2>1, <2>2, <2>3, <4>1, AppendIsConcat
    <3>4. QED
      BY <3>2, <3>3
  <2>4. CASE ~(s > from + Chunk)
    <3>1. RoundEnd = s
      BY <1>1, <1>4, <2>4, Lengths
    <3>2. AllPieces = OnePiece
      BY <2>1, <2>2, <2>4
    <3>3. QED
      BY <1>7, <3>1, <3>2
  <2>5. QED
    BY <2>3, <2>4
<1>10. QED
  BY <1>7, <1>8, <1>9 DEF s

\* A round sends a piece, or the rest and "complete", or finds the channel closed.
LEMMA FilesPacket == TypeInv /\ FilesInv /\ SendPacket => FilesInv'
<1> SUFFICES ASSUME TypeInv, FilesInv, SendPacket PROVE FilesInv'
  OBVIOUS
<1>1. /\ transfer \in Nat /\ packet \in Nat /\ meta \in Nat /\ size \in [Transfers -> Nat]
      /\ 1..transfer \subseteq Transfers /\ channel \in Seq(Message)
      /\ sending = "sending" /\ Sending /\ transfer >= 1 /\ transfer \in 1..transfer
      /\ size[transfer] \in Nat /\ numberOfPackets \in Nat
  BY Ranges, Counted DEF SendPacket, FilesInv, SenderInv, Sending, numberOfPackets
<1>2. UNCHANGED <<up, transfer, size, damaged>> /\ UNCHANGED <<meta, downloadBase64, shown>>
  BY DEF SendPacket, receiverVars
<1>3. Undamaged' = Undamaged /\ numberOfPackets' = numberOfPackets
  BY <1>2 DEF Undamaged, numberOfPackets
<1>4. ShownInv'
  BY <1>1, <1>2, SameShown DEF FilesInv
<1>5. CASE ~up
  <2>1. sending' = "thrown" /\ UNCHANGED <<packet, channel>>
    BY <1>1, <1>5, Rounds
  <2>2. channel = <<>>
    BY <1>5 DEF FilesInv, OrderInv
  <2>3. QED
    BY <1>2, <1>5, <2>1, <2>2, ClosedChannel
<1>6. CASE /\ up /\ packet + 1 < numberOfPackets
           /\ packet' = packet + 1 /\ channel' = OnePiece /\ sending' = sending
  <2>1. /\ EndsAt(OnePiece, RoundEnd) /\ RoundEnd = (packet + 1) * Chunk
        /\ RoundEnd < size[transfer]
    BY <1>1, <1>6, RoundGoes
  <2>2. Reached' = RoundEnd /\ Sending' /\ sending' = "sending"
    BY <1>1, <1>6, <2>1 DEF Reached, Sending
  <2>3. OrderInv'
    BY <1>2, <1>6, <2>1 DEF EndsAt, OrderInv, FilesInv
  <2>4. SenderInv'
    BY <1>1, <1>2, <1>3, <1>6, <2>1, <2>2 DEF EndsAt, SenderInv, FilesInv
  <2>5. ChainInv'
    BY <1>2, <1>3, <1>6, <2>1, <2>2 DEF EndsAt, ChainInv
  <2>6. QED
    BY <1>4, <2>3, <2>4, <2>5 DEF FilesInv
<1>7. CASE /\ up /\ packet + 1 >= numberOfPackets
           /\ channel' = Append(AllPieces, Complete(transfer)) /\ sending' = "idle"
  <2> DEFINE m == Complete(transfer)
  <2>1. EndsAt(AllPieces, size[transfer])
    BY <1>1, <1>7, RoundGoes
  <2>2. /\ m \in Message /\ m.of = transfer /\ m.status = "complete" /\ Fits(m)
        /\ \A len : Begins(m, len) = len
    BY <1>1, Ranges DEF Complete, Message, Fits, Begins, Text
  <2> HIDE DEF m
  <2>3. channel' = Append(AllPieces, m) /\ ~Sending' /\ AllPieces \in Seq(Message)
    BY <1>7, <2>1 DEF m, Sending, EndsAt
  <2>4. OrderInv'
    <3>1. Orderly(Append(AllPieces, m), meta, transfer)
      BY <1>1, <2>1, <2>2, OrderlyGrows DEF EndsAt, FilesInv, OrderInv
    <3>2. QED
      BY <1>2, <1>7, <2>3, <3>1 DEF FilesInv, OrderInv
  <2>5. SenderInv'
    BY <1>2, <1>7, <2>3 DEF FilesInv, SenderInv
  <2>6. ChainInv'
    <3>1. ASSUME NEW n \in Undamaged
          PROVE  Chained(Append(AllPieces, m), meta, downloadBase64, n, size[n])
      <4>1. Chained(AllPieces, meta, downloadBase64, n, size[n])
        BY <2>1 DEF EndsAt
      <4>2. m.of = n => Linked(AllPieces, meta, downloadBase64, n, Len(AllPieces) + 1,
                               Begins(m, size[n]))
        BY <2>1, <2>2 DEF EndsAt
      <4>3. QED
        BY <2>2, <2>3, <4>1, <4>2, ChainedGrows
    <3>2. QED
      BY <1>2, <1>3, <2>3, <3>1 DEF ChainInv
  <2>7. QED
    BY <1>4, <2>4, <2>5, <2>6 DEF FilesInv
<1>8. QED
  BY <1>1, <1>5, <1>6, <1>7, Rounds

\* A text goes out between two pieces.
LEMMA FilesMessage == TypeInv /\ FilesInv /\ SendMessage => FilesInv'
<1> SUFFICES ASSUME TypeInv, FilesInv, SendMessage PROVE FilesInv'
  OBVIOUS
<1>1. PICK kind \in {"plain", "json"} : channel' = Append(channel, Typed(kind))
  BY DEF SendMessage
<1>2. /\ up /\ UNCHANGED <<up, sending, transfer, size, packet, damaged>>
      /\ UNCHANGED <<meta, downloadBase64, shown>>
  BY DEF SendMessage, senderVars, receiverVars
<1>3. /\ transfer \in Nat /\ meta \in Nat /\ channel \in Seq(Message) /\ Len(channel) \in Nat
  BY Ranges
<1> DEFINE m == Typed(kind)
<1>4. m \in Message /\ m.of = 0 /\ m.status \in {"plain", "json"} /\ Fits(m)
  BY DEF Typed, Message, Fits, Text, Units
<1> HIDE DEF m
<1>5. channel' = Append(channel, m) /\ Len(channel') + 1 = Len(channel) + 2
  BY <1>1, <1>3, <1>4 DEF m
<1>6. /\ Undamaged' = Undamaged /\ Reached' = Reached /\ Sending' = Sending
      /\ numberOfPackets' = numberOfPackets
  BY <1>2 DEF Undamaged, Reached, Sending, numberOfPackets
<1>7. OrderInv'
  <2>1. Orderly(Append(channel, m), meta, transfer)
    BY <1>3, <1>4, OrderlyGrows DEF FilesInv, OrderInv
  <2>2. QED
    BY <1>2, <1>5, <2>1 DEF FilesInv, OrderInv
<1>8. SenderInv'
  <2>1. Unfinished(channel, transfer) => Unfinished(Append(channel, m), transfer)
    BY <1>3, <1>4, Longer DEF Unfinished
  <2>2. QED
    BY <1>2, <1>5, <1>6, <2>1 DEF FilesInv, SenderInv
<1>9. ChainInv'
  <2>1. ASSUME NEW n \in Undamaged
        PROVE  Chained(Append(channel, m), meta, downloadBase64, n, size[n])
    <3>1. Chained(channel, meta, downloadBase64, n, size[n])
      BY <1>2 DEF FilesInv, ChainInv
    <3>2. QED
      BY <1>3, <1>4, <3>1, ChainedGrows
  <2>2. ASSUME Sending, transfer \in Undamaged
        PROVE  Linked(Append(channel, m), meta, downloadBase64, transfer, Len(channel) + 2, Reached)
    <3>1. Linked(channel, meta, downloadBase64, transfer, Len(channel) + 1, Reached)
      BY <1>2, <2>2 DEF FilesInv, ChainInv
    <3>2. m.of # transfer
      BY <1>3, <1>4, <2>2 DEF Undamaged
    <3>3. QED
      BY <1>3, <1>4, <3>1, <3>2, LinkedPasses
  <2>3. QED
    BY <1>2, <1>5, <1>6, <2>1, <2>2 DEF ChainInv
<1>10. ShownInv'
  BY <1>2, <1>3, SameShown DEF FilesInv
<1>11. QED
  BY <1>7, <1>8, <1>9, <1>10 DEF FilesInv

-----------------------------------------------------------------------------
(* The steps at the other end of the channel.                              *)

\* What the head of the channel does to an undamaged file: its own "start" and chunks
\* bring downloadBase64 to where they end, and no earlier transfer touches it.
Brings(n) ==
    /\ Head(channel).of = n /\ Head(channel).status \in {"start", "data"} =>
          meta' = n /\ downloadBase64' = Got(n, Ends(Head(channel)))
    /\ Head(channel).of < n /\ meta = n => meta' = meta /\ downloadBase64' = downloadBase64

\* The chain without its head.
LEMMA HeadGoes ==
    ASSUME TypeInv, FilesInv, up, channel # <<>>, channel' = Tail(channel),
           UNCHANGED <<up, sending, transfer, size, packet>>, damaged \subseteq damaged',
           meta' \in {meta, 0, Head(channel).of}, \A n \in Undamaged' : Brings(n)
    PROVE  OrderInv' /\ SenderInv' /\ ChainInv'
<1>1. /\ transfer \in Nat /\ meta \in Nat /\ channel \in Seq(Message) /\ Len(channel) \in Nat
      /\ \A n \in 1..transfer : n \in Nat /\ n # 0
  BY Ranges
<1>2. /\ DOMAIN channel = 1..Len(channel) /\ Len(channel) > 0 /\ Head(channel) = channel[1]
      /\ Len(Tail(channel)) = Len(channel) - 1 /\ DOMAIN Tail(channel) = 1..(Len(channel) - 1)
      /\ \A i \in DOMAIN Tail(channel) : /\ i + 1 \in DOMAIN channel
                                         /\ Tail(channel)[i] = channel[i + 1]
  BY <1>1, Shorter
<1>3. channel[1].of \in Nat /\ channel[1].of <= transfer
  BY <1>1, <1>2, Numbered DEF FilesInv, OrderInv, Orderly
<1>4. OrderInv'
  <2>1. Orderly(Tail(channel), meta', transfer)
    BY <1>1, OrderlyFalls DEF FilesInv, OrderInv
  <2>2. meta' <= transfer
    BY <1>1, <1>2, <1>3 DEF FilesInv, OrderInv
  <2>3. QED
    BY <2>1, <2>2 DEF OrderInv
<1>5. SenderInv'
  <2>1. Unfinished(channel, transfer) => Unfinished(Tail(channel), transfer)
    BY <1>2 DEF Unfinished
  <2>2. Sending' = Sending /\ numberOfPackets' = numberOfPackets
    BY DEF Sending, numberOfPackets
  <2>3. QED
    BY <2>1, <2>2 DEF FilesInv, SenderInv
<1>6. ASSUME NEW n \in Undamaged' PROVE n \in Undamaged /\ n \in 1..transfer
  BY DEF Undamaged
<1>7. ASSUME NEW n \in Undamaged'
      PROVE  Chained(Tail(channel), meta', downloadBase64', n, size[n])
  <2>1. Chained(channel, meta, downloadBase64, n, size[n]) /\ Sorted(channel)
    BY <1>6 DEF FilesInv, ChainInv, OrderInv, Orderly
  <2>2. QED
    BY <1>1, <1>6, <2>1, ChainedFalls DEF Brings
<1>8. ASSUME Sending, transfer \in Undamaged'
      PROVE  Linked(Tail(channel), meta', downloadBase64', transfer,
                    Len(Tail(channel)) + 1, Reached)
  <2>1. Linked(channel, meta, downloadBase64, transfer, Len(channel) + 1, Reached)
    BY <1>6, <1>8 DEF FilesInv, ChainInv
  <2>2. Brings(transfer)
    BY <1>8
  <2>3. Head(channel).of # transfer /\ meta = transfer =>
            meta' = meta /\ downloadBase64' = downloadBase64
    BY <1>1, <1>2, <1>3, <2>2 DEF Brings
  <2>4. Len(channel) + 1 \in 2..(Len(channel) + 1)
    BY <1>1, <1>2
  <2>5. Linked(Tail(channel), meta', downloadBase64', transfer, (Len(channel) + 1) - 1, Reached)
    BY <1>1, <2>1, <2>2, <2>3, <2>4, LinkedFalls DEF Brings
  <2>6. (Len(channel) + 1) - 1 = Len(Tail(channel)) + 1
    BY <1>1, <1>2
  <2>7. QED
    BY <2>5, <2>6
<1>9. Sending' = Sending /\ Reached' = Reached
  BY DEF Sending, Reached
<1>10. ChainInv'
  BY <1>7, <1>8, <1>9 DEF ChainInv
<1>11. QED
  BY <1>4, <1>5, <1>10

\* When a chunk or the "complete" of an undamaged file is next, downloadBase64 is where
\* it begins.
LEMMA HeadContinues ==
    ASSUME TypeInv, FilesInv, up, channel # <<>>, Head(channel).of \in Undamaged,
           Head(channel).status \in {"data", "complete"}
    PROVE  /\ meta = Head(channel).of
           /\ downloadBase64 = Got(Head(channel).of,
                                   Begins(Head(channel), size[Head(channel).of]))
<1> DEFINE n == Head(channel).of
           p == Begins(Head(channel), size[n])
<1>1. 1 \in DOMAIN channel /\ Head(channel) = channel[1] /\ \A i \in DOMAIN channel : ~(i < 1)
  BY Ranges, Shorter
<1>2. Linked(channel, meta, downloadBase64, n, 1, p)
  BY <1>1 DEF FilesInv, ChainInv, Chained
<1>3. QED
  BY <1>1, <1>2, Zenon DEF Linked

\* The head of the channel, and the kinds it can be of.
LEMMA HeadFits ==
    ASSUME TypeInv, FilesInv, channel # <<>>
    PROVE  /\ Head(channel) \in Message /\ Fits(Head(channel))
           /\ Head(channel).of \in 0..transfer
           /\ Head(channel).of # 0 => meta <= Head(channel).of
           /\ Head(channel).status \in {"plain", "json"} <=> Head(channel).of = 0
<1>1. channel \in Seq(Message) /\ transfer \in Nat
  BY Ranges
<1>2. Head(channel) = channel[1] /\ 1 \in DOMAIN channel /\ Head(channel) \in Message
  BY <1>1, Shorter
<1>3. channel[1].of \in Nat
  BY <1>1, <1>2, Numbered
<1>4. QED
  BY <1>1, <1>2, <1>3 DEF FilesInv, OrderInv, Orderly, Fits

\* The other page takes the head of the channel.
LEMMA FilesReceive == TypeInv /\ FilesInv /\ Receive => FilesInv'
<1> SUFFICES ASSUME TypeInv, FilesInv, Receive PROVE FilesInv'
  OBVIOUS
<1> DEFINE m == Head(channel)
<1>1. /\ up /\ channel # <<>> /\ channel' = Tail(channel)
      /\ UNCHANGED <<up, sending, transfer, size, packet>> /\ damaged' = damaged
  BY Kinds
<1>2. /\ m \in Message /\ Fits(m) /\ m.of \in 0..transfer /\ (m.of # 0 => meta <= m.of)
      /\ m.status \in {"plain", "json"} <=> m.of = 0
  BY <1>1, HeadFits
<1>3. /\ transfer \in Nat /\ meta \in Nat /\ shown \in Seq(Line)
      /\ \A n \in 1..transfer : n \in Nat /\ n # 0 /\ size[n] \in Nat
  BY Ranges
<1>4. meta' \in {meta, 0, m.of}
  BY Kinds
<1>5. ASSUME NEW n \in Undamaged' PROVE Brings(n)
  <2>1. n \in Undamaged /\ n \in 1..transfer
    BY <1>1 DEF Undamaged
  <2>2. ASSUME m.of = n, m.status = "start"
        PROVE  meta' = n /\ downloadBase64' = Got(n, Ends(m))
    BY <2>2, Kinds DEF Got, Ends
  <2>3. ASSUME m.of = n, m.status = "data"
        PROVE  meta' = n /\ downloadBase64' = Got(n, Ends(m))
    <3>1. PICK a \in Nat, b \in Nat : /\ a < b /\ Header < b /\ (a = 0 \/ Header < a)
                                      /\ m.data = Slice(m.of, a, b)
      BY <1>2, <2>3 DEF Fits
    <3>2. Begins(m, size[n]) = a /\ Ends(m) = b
      BY <2>3, <3>1, Ending
    <3>3. meta = n /\ downloadBase64 = Got(n, a)
      BY <1>1, <2>1, <2>3, <3>2, HeadContinues
    <3>4. /\ meta' = meta
          /\ downloadBase64' = IF downloadBase64 = <<>> THEN AfterComma(m.data)
                               ELSE downloadBase64 \o m.data
      BY <2>3, Kinds
    <3>5. Got(n, b) = Slice(n, Header, b)
      BY <3>1, Lengths DEF Got
    <3>6. CASE a = 0
      <4>1. downloadBase64 = <<>> /\ AfterComma(m.data) = Slice(n, Header, b)
        BY <2>3, <3>1, <3>3, <3>6, HeaderGoes DEF Got
      <4>2. QED
        BY <3>2, <3>3, <3>4, <3>5, <4>1
    <3>7. CASE a # 0
      <4>1. downloadBase64 = Slice(n, Header, a) /\ Header < a
        BY <3>1, <3>3, <3>7 DEF Got
      <4>2. downloadBase64 # <<>>
        <5>1. Len(Slice(n, Header, a)) = a - Header
          <6>1. Header \in Nat /\ Header <= a
            BY <4>1, Lengths
          <6>2. QED
            BY <6>1, SliceIs
        <5>2. a - Header # 0
          BY <4>1, Lengths
        <5>3. QED
          BY <4>1, <5>1, <5>2
      <4>3. Slice(n, Header, a) \o Slice(n, a, b) = Slice(n, Header, b)
        <5>1. Header \in Nat /\ Header <= a /\ a <= b
          BY <3>1, <4>1, Lengths
        <5>2. QED
          BY <5>1, SlicesJoin
      <4>4. QED
        BY <2>3, <3>1, <3>2, <3>3, <3>4, <3>5, <4>1, <4>2, <4>3
    <3>8. QED
      BY <3>6, <3>7
  <2>4. ASSUME m.of < n, meta = n PROVE meta' = meta /\ downloadBase64' = downloadBase64
    <3>1. m.of = 0
      BY <1>2, <1>3, <2>1, <2>4
    <3>2. m.status \in {"plain", "json"}
      BY <1>2, <3>1
    <3>3. QED
      BY <3>2, Kinds
  <2>5. QED
    BY <2>2, <2>3, <2>4 DEF Brings
<1>6. OrderInv' /\ SenderInv' /\ ChainInv'
  BY <1>1, <1>4, <1>5, HeadGoes
<1>7. ShownInv'
  <2>1. CASE shown' = shown
    BY <1>1, <1>3, <2>1, SameShown DEF FilesInv
  <2>2. CASE shown' = Append(shown, TextLine("plain"))
    <3>1. /\ DOMAIN shown' = 1..(Len(shown) + 1) /\ Len(shown) \in Nat
          /\ \A i \in 1..Len(shown) : shown'[i] = shown[i]
          /\ shown'[Len(shown) + 1].what = "plain" /\ DOMAIN shown = 1..Len(shown)
      BY <1>3, <2>2 DEF TextLine, Line
    <3>2. \A i \in DOMAIN shown' : shown'[i].what = "file" =>
              i \in DOMAIN shown /\ shown'[i] = shown[i]
      BY <3>1
    <3>3. QED
      BY <1>1, <3>2 DEF FilesInv, ShownInv, WholeFilesIntact, Payload
  <2>3. CASE /\ m.status = "complete"
             /\ shown' = Append(shown, FileLine(m.of, meta, downloadBase64))
    <3>1. /\ DOMAIN shown' = 1..(Len(shown) + 1) /\ Len(shown) \in Nat
          /\ \A i \in 1..Len(shown) : shown'[i] = shown[i]
          /\ shown'[Len(shown) + 1] = FileLine(m.of, meta, downloadBase64)
          /\ DOMAIN shown = 1..Len(shown)
      BY <1>3, <2>3
    <3>2. m.of \in 1..transfer
      BY <1>2, <1>3, <2>3
    <3>3. m.of \notin damaged => meta = m.of /\ downloadBase64 = Slice(m.of, Header, size[m.of])
      <4>1. SUFFICES ASSUME m.of \notin damaged
                     PROVE  meta = m.of /\ downloadBase64 = Slice(m.of, Header, size[m.of])
        OBVIOUS
      <4>2. meta = m.of /\ downloadBase64 = Got(m.of, size[m.of])
        BY <1>1, <2>3, <3>2, <4>1, HeadContinues DEF Undamaged, Begins
      <4>3. size[m.of] # 0
        BY <1>3, <3>2, Lengths DEF FilesInv, SenderInv
      <4>4. QED
        BY <4>2, <4>3 DEF Got
    <3>4. ASSUME NEW i \in DOMAIN shown', shown'[i].what = "file"
          PROVE  /\ shown'[i].of \in 1..transfer
                 /\ shown'[i].of \notin damaged =>
                       /\ shown'[i].name = shown'[i].of
                       /\ shown'[i].data = Slice(shown'[i].of, Header, size[shown'[i].of])
      <4>1. CASE i \in 1..Len(shown)
        BY <3>1, <3>4, <4>1 DEF FilesInv, ShownInv, WholeFilesIntact, Payload
      <4>2. CASE i = Len(shown) + 1
        BY <3>1, <3>2, <3>3, <4>2 DEF FileLine
      <4>3. QED
        BY <3>1, <4>1, <4>2
    <3>5. QED
      BY <1>1, <3>4 DEF ShownInv, WholeFilesIntact, Payload
  <2>4. QED
    BY <2>1, <2>2, <2>3, Kinds
<1>8. QED
  BY <1>6, <1>7 DEF FilesInv

\* A loss takes its transfer out of the undamaged ones.
LEMMA FilesLose == TypeInv /\ FilesInv /\ Lose => FilesInv'
<1> SUFFICES ASSUME TypeInv, FilesInv, Lose PROVE FilesInv'
  OBVIOUS
<1>1. /\ up /\ channel # <<>> /\ channel' = Tail(channel)
      /\ UNCHANGED <<up, sending, transfer, size, packet>>
      /\ UNCHANGED <<meta, downloadBase64, shown>>
      /\ damaged' = damaged \cup {Head(channel).of}
  BY DEF Lose, senderVars, receiverVars
<1>2. ASSUME NEW n \in Undamaged' PROVE Brings(n)
  BY <1>1 DEF Undamaged, Brings
<1>3. OrderInv' /\ SenderInv' /\ ChainInv'
  BY <1>1, <1>2, HeadGoes
<1>4. ShownInv'
  BY <1>1, SameShown, Ranges DEF FilesInv
<1>5. QED
  BY <1>3, <1>4 DEF FilesInv

\* The inductive invariant: a step of either page, of the channel or of the user.
LEMMA FilesStep == TypeInv /\ FilesInv /\ [Next]_vars => FilesInv'
<1> SUFFICES ASSUME TypeInv, FilesInv, [Next]_vars PROVE FilesInv'
  OBVIOUS
<1>1. CASE Disconnect
  <2>1. /\ up' = FALSE /\ channel' = <<>> /\ UNCHANGED <<transfer, size, packet, damaged>>
        /\ UNCHANGED <<meta, downloadBase64, shown>> /\ sending' = sending
    BY <1>1 DEF Disconnect, senderVars, receiverVars
  <2>2. QED
    BY <2>1, ClosedChannel
<1>2. CASE UNCHANGED vars
  BY <1>2 DEF vars, senderVars, receiverVars, FilesInv, OrderInv, SenderInv, ChainInv, ShownInv,
        WholeFilesIntact, Payload, Sending, Reached, Undamaged, numberOfPackets
<1>3. QED
  BY <1>1, <1>2, FilesSend, FilesLoaded, FilesPacket, FilesMessage, FilesReceive, FilesLose
     DEF Next

\* So it holds at all times.
LEMMA FilesAlways == Spec => [](TypeInv /\ FilesInv)
<1>1. Init => TypeInv /\ FilesInv
  BY TypesInit, FilesInit
<1>2. TypeInv /\ FilesInv /\ [Next]_vars => (TypeInv /\ FilesInv)'
  BY TypesStep, FilesStep
<1>3. QED
  BY <1>1, <1>2, PTL DEF Spec

\* A loss damages no other transfer than its own: whatever was lost of the files before
\* it, a file of which nothing is lost is shown whole and under its name
\* (rtcchat.js receiveMessage: meta and downloadBase64 across transfers).
THEOREM WholeFilesStayIntact == Spec => []WholeFilesIntact
<1>1. TypeInv /\ FilesInv => WholeFilesIntact
  BY DEF FilesInv, ShownInv
<1>2. QED
  BY <1>1, FilesAlways, PTL

-----------------------------------------------------------------------------
(* The chat logs.                                                          *)

\* A message that shows a line, and the line it shows.
Says(m) == m.status \in {"plain", "complete"}

LineOf(m, sz) == IF m.status = "plain" THEN TextLine("plain")
                 ELSE FileLine(m.of, m.of, Slice(m.of, Header, sz[m.of]))

Lines(m) == IF Says(m) THEN 1 ELSE 0

\* The sender's log is what is shown already and one line for each message under way
\* that shows one, in their order: f counts the lines up to a message.
Pending(ch, sz, from, log) ==
    \E f \in [0..Len(ch) -> 0..Len(log)] :
      /\ f[0] = from /\ f[Len(ch)] = Len(log)
      /\ \A i \in 1..Len(ch) : /\ f[i] = f[i - 1] + Lines(ch[i])
                               /\ Says(ch[i]) => log[f[i]] = LineOf(ch[i], sz)

\* A log without the texts that JSON.parse takes: the line of the sender's log at k is
\* its line at Legible(k).
Rank(log, k) == Cardinality({j \in 1..k : log[j].what # "json"})

Filters(clean, log) ==
    /\ Len(clean) = Rank(log, Len(log))
    /\ \A k \in 1..Len(log) : log[k].what # "json" => /\ Rank(log, k) \in 1..Len(clean)
                                                     /\ clean[Rank(log, k)] = log[k]

\* What is shown is the start of that log, and the rest of it is under way.
Behind(clean) ==
    /\ damaged = {}
    /\ Len(shown) <= Len(clean) /\ \A i \in 1..Len(shown) : shown[i] = clean[i]
    /\ up => Pending(channel, size, Len(shown), clean)

LogInv == losses = 0 => \E clean \in Seq(Line) : Filters(clean, sent) /\ Behind(clean)

\* A line more does not disturb the count of the lines before it.
LEMMA RankGrows ==
    ASSUME NEW log \in Seq(Line), NEW l \in Line, NEW log2, log2 = Append(log, l)
    PROVE  /\ \A k \in 1..Len(log) : Rank(log2, k) = Rank(log, k)
           /\ Rank(log2, Len(log2)) = Rank(log, Len(log)) + (IF l.what # "json" THEN 1 ELSE 0)
           /\ Rank(log, Len(log)) \in Nat
<1>1. /\ Len(log) \in Nat /\ Len(log2) = Len(log) + 1
      /\ \A j \in 1..Len(log) : log2[j] = log[j]
      /\ log2[Len(log) + 1] = l
  OBVIOUS
<1>2. ASSUME NEW k \in 1..Len(log) PROVE Rank(log2, k) = Rank(log, k)
  <2>1. \A j \in 1..k : j \in 1..Len(log)
    BY <1>1
  <2>2. {j \in 1..k : log2[j].what # "json"} = {j \in 1..k : log[j].what # "json"}
    BY <1>1, <2>1, Zenon
  <2>3. QED
    BY <2>2, Zenon DEF Rank
<1> DEFINE S == {j \in 1..Len(log) : log[j].what # "json"}
           S2 == {j \in 1..(Len(log) + 1) : log2[j].what # "json"}
<1>3. IsFiniteSet(S) /\ Cardinality(S) \in Nat /\ Len(log) + 1 \notin S
  <2>1. IsFiniteSet(1..Len(log))
    BY <1>1, FS_Interval
  <2>2. S \subseteq 1..Len(log)
    OBVIOUS
  <2>3. IsFiniteSet(S)
    BY <2>1, <2>2, FS_Subset, Zenon
  <2>4. Len(log) + 1 \notin 1..Len(log)
    BY <1>1
  <2>5. QED
    BY <2>2, <2>3, <2>4, FS_CardinalityType, Zenon
<1>4. CASE l.what # "json"
  <2>1. S2 = S \cup {Len(log) + 1}
    BY <1>1, <1>4
  <2>2. Cardinality(S \cup {Len(log) + 1}) = Cardinality(S) + 1
    BY <1>3, FS_AddElement, Zenon
  <2> HIDE DEF S, S2
  <2>3. Cardinality(S2) = Cardinality(S) + 1
    BY <2>1, <2>2
  <2>4. Rank(log2, Len(log2)) = Cardinality(S2) /\ Rank(log, Len(log)) = Cardinality(S)
    BY <1>1, Zenon DEF Rank, S, S2
  <2>5. QED
    BY <1>2, <1>3, <1>4, <2>3, <2>4
<1>5. CASE l.what = "json"
  <2>1. S2 = S
    BY <1>1, <1>5
  <2> HIDE DEF S, S2
  <2>2. Rank(log2, Len(log2)) = Cardinality(S2) /\ Rank(log, Len(log)) = Cardinality(S)
    BY <1>1, Zenon DEF Rank, S, S2
  <2>3. QED
    BY <1>2, <1>3, <1>5, <2>1, <2>2
<1>6. QED
  BY <1>4, <1>5

\* A line that the other page can show goes to the end of that log, any other nowhere.
LEMMA FiltersGrow ==
    ASSUME NEW log \in Seq(Line), NEW clean \in Seq(Line), Filters(clean, log), NEW l \in Line,
           NEW clean2, clean2 = IF l.what # "json" THEN Append(clean, l) ELSE clean
    PROVE  Filters(clean2, Append(log, l))
<1> DEFINE log2 == Append(log, l)
<1>1. /\ Len(log) \in Nat /\ Len(log2) = Len(log) + 1
      /\ \A j \in 1..Len(log) : log2[j] = log[j]
      /\ log2[Len(log) + 1] = l
  OBVIOUS
<1>2. /\ \A k \in 1..Len(log) : Rank(log2, k) = Rank(log, k)
      /\ Rank(log2, Len(log2)) = Rank(log, Len(log)) + (IF l.what # "json" THEN 1 ELSE 0)
      /\ Rank(log, Len(log)) \in Nat
  BY RankGrows
<1>3. Len(clean) \in Nat /\ Len(clean) = Rank(log, Len(log))
  BY DEF Filters
<1>4. /\ Len(clean2) = Len(clean) + (IF l.what # "json" THEN 1 ELSE 0)
      /\ \A i \in 1..Len(clean) : i \in 1..Len(clean2) /\ clean2[i] = clean[i]
      /\ l.what # "json" => clean2[Len(clean) + 1] = l
  <2>1. CASE l.what # "json"
    <3>1. clean2 = Append(clean, l)
      BY <2>1
    <3>2. QED
      BY <1>3, <2>1, <3>1
  <2>2. CASE l.what = "json"
    BY <1>3, <2>2
  <2>3. QED
    BY <2>1, <2>2
<1> HIDE DEF log2
<1>5. ASSUME NEW k \in 1..Len(log2), log2[k].what # "json"
      PROVE  Rank(log2, k) \in 1..Len(clean2) /\ clean2[Rank(log2, k)] = log2[k]
  <2>1. CASE k \in 1..Len(log)
    <3>1. Rank(log, k) \in 1..Len(clean) /\ clean[Rank(log, k)] = log[k]
      BY <1>1, <1>5, <2>1 DEF Filters
    <3>2. QED
      BY <1>1, <1>2, <1>4, <2>1, <3>1
  <2>2. CASE k = Len(log) + 1
    <3>1. l.what # "json" /\ Rank(log2, k) = Len(clean) + 1 /\ k = Len(log2)
      BY <1>1, <1>2, <1>3, <1>5, <2>2
    <3>2. QED
      BY <1>1, <1>3, <1>4, <2>2, <3>1
  <2>3. QED
    BY <1>1, <2>1, <2>2
<1>6. Len(clean2) = Rank(log2, Len(log2))
  BY <1>2, <1>3, <1>4
<1>7. Filters(clean2, log2)
  BY <1>5, <1>6, Zenon DEF Filters
<1>8. QED
  BY <1>7 DEF log2

\* What is said at one end is pending until it is shown at the other.
LEMMA PendingGrows ==
    ASSUME NEW ch \in Seq(Message), NEW m \in Message, NEW sz, NEW from, NEW log \in Seq(Line),
           Pending(ch, sz, from, log), NEW log2 \in Seq(Line),
           IF Says(m) THEN log2 = Append(log, LineOf(m, sz)) ELSE log2 = log
    PROVE  Pending(Append(ch, m), sz, from, log2)
<1> DEFINE more == Append(ch, m)
<1>1. PICK f \in [0..Len(ch) -> 0..Len(log)] :
          /\ f[0] = from /\ f[Len(ch)] = Len(log)
          /\ \A i \in 1..Len(ch) : /\ f[i] = f[i - 1] + Lines(ch[i])
                                   /\ Says(ch[i]) => log[f[i]] = LineOf(ch[i], sz)
  BY DEF Pending
<1>2. /\ Len(ch) \in Nat /\ Len(more) = Len(ch) + 1
      /\ \A i \in 1..Len(ch) : more[i] = ch[i]
      /\ more[Len(ch) + 1] = m
  BY Longer
<1>3. /\ Len(log) \in Nat /\ Len(log2) = Len(log) + Lines(m)
      /\ \A i \in 1..Len(log) : log2[i] = log[i]
      /\ Says(m) => log2[Len(log) + 1] = LineOf(m, sz)
  <2>1. CASE Says(m)
    <3>1. log2 = Append(log, LineOf(m, sz)) /\ Lines(m) = 1
      BY <2>1 DEF Lines
    <3>2. QED
      BY <3>1
  <2>2. CASE ~Says(m)
    <3>1. log2 = log /\ Lines(m) = 0
      BY <2>2 DEF Lines
    <3>2. QED
      BY <2>2, <3>1
  <2>3. QED
    BY <2>1, <2>2
<1>4. Lines(m) \in 0..1 /\ \A i \in 1..Len(ch) : Lines(ch[i]) \in 0..1
  BY DEF Lines
<1> HIDE DEF more
<1> DEFINE g == [i \in 0..Len(more) |-> IF i = Len(ch) + 1 THEN Len(log) + Lines(m) ELSE f[i]]
<1>5. /\ \A i \in 0..Len(ch) : i \in 0..Len(more) /\ g[i] = f[i] /\ f[i] \in 0..Len(log)
      /\ g[Len(ch) + 1] = Len(log) + Lines(m)
  <2>1. Len(ch) + 1 \in 0..Len(more)
    BY <1>2
  <2>2. \A i \in 0..Len(ch) : i \in 0..Len(more) /\ i # Len(ch) + 1
    BY <1>2
  <2>3. \A i \in 0..Len(ch) : f[i] \in 0..Len(log)
    BY <1>1
  <2>4. QED
    BY <2>1, <2>2, <2>3
<1>6. g \in [0..Len(more) -> 0..Len(log2)]
  BY <1>1, <1>2, <1>3, <1>4
<1> HIDE DEF g
<1>7. 0 \in 0..Len(ch) /\ g[0] = from /\ g[Len(more)] = Len(log2)
  BY <1>1, <1>2, <1>3, <1>5
<1>8. ASSUME NEW i \in 1..Len(more)
      PROVE  /\ g[i] = g[i - 1] + Lines(more[i])
             /\ Says(more[i]) => log2[g[i]] = LineOf(more[i], sz)
  <2>1. CASE i \in 1..Len(ch)
    <3>1. i \in 0..Len(ch) /\ i - 1 \in 0..Len(ch) /\ more[i] = ch[i]
      BY <1>2, <2>1
    <3>2. g[i] = f[i] /\ g[i - 1] = f[i - 1] /\ f[i] \in 0..Len(log) /\ f[i - 1] \in 0..Len(log)
      BY <1>5, <3>1
    <3>3. f[i] = f[i - 1] + Lines(ch[i]) /\ (Says(ch[i]) => log[f[i]] = LineOf(ch[i], sz))
      BY <1>1, <2>1
    <3>4. Says(ch[i]) => f[i] \in 1..Len(log)
      BY <1>3, <3>2, <3>3 DEF Lines
    <3>5. QED
      BY <1>3, <3>1, <3>2, <3>3, <3>4
  <2>2. CASE i = Len(ch) + 1
    <3>1. i - 1 = Len(ch) /\ i - 1 \in 0..Len(ch) /\ more[i] = m
      BY <1>2, <2>2
    <3>2. g[i - 1] = Len(log) /\ g[i] = Len(log) + Lines(m)
      BY <1>1, <1>5, <2>2, <3>1
    <3>3. Says(m) => g[i] = Len(log) + 1
      BY <3>2 DEF Lines
    <3>4. QED
      BY <1>3, <3>1, <3>2, <3>3
  <2>3. QED
    BY <1>2, <2>1, <2>2
<1>9. Pending(more, sz, from, log2)
  BY <1>6, <1>7, <1>8, Zenon DEF Pending
<1>10. QED
  BY <1>9 DEF more

\* The head's line is the next one of the log.
LEMMA PendingFalls ==
    ASSUME NEW ch \in Seq(Message), ch # <<>>, NEW sz, NEW from \in Nat, NEW log \in Seq(Line),
           Pending(ch, sz, from, log)
    PROVE  /\ Pending(Tail(ch), sz, from + Lines(Head(ch)), log)
           /\ from + Lines(Head(ch)) <= Len(log)
           /\ Says(Head(ch)) => log[from + 1] = LineOf(Head(ch), sz)
<1>1. PICK f \in [0..Len(ch) -> 0..Len(log)] :
          /\ f[0] = from /\ f[Len(ch)] = Len(log)
          /\ \A i \in 1..Len(ch) : /\ f[i] = f[i - 1] + Lines(ch[i])
                                   /\ Says(ch[i]) => log[f[i]] = LineOf(ch[i], sz)
  BY DEF Pending
<1>2. /\ Len(ch) \in Nat /\ Len(ch) > 0 /\ Head(ch) = ch[1]
      /\ Len(Tail(ch)) = Len(ch) - 1
      /\ \A i \in 1..(Len(ch) - 1) : Tail(ch)[i] = ch[i + 1]
  BY Shorter
<1> DEFINE rest == Tail(ch)
<1> HIDE DEF rest
<1>3. /\ Len(rest) \in Nat /\ Len(rest) + 1 = Len(ch)
      /\ \A i \in 1..Len(rest) : rest[i] = ch[i + 1]
  BY <1>2 DEF rest
<1>4. 1 \in 1..Len(ch) /\ 1 - 1 = 0
  BY <1>2
<1>5. f[1] = from + Lines(ch[1]) /\ (Says(ch[1]) => log[f[1]] = LineOf(ch[1], sz))
  BY <1>1, <1>4
<1>6. f[1] \in 0..Len(log) /\ Len(log) \in Nat
  BY <1>1, <1>2
<1> DEFINE g == [i \in 0..Len(rest) |-> f[i + 1]]
<1>7. \A i \in 0..Len(rest) : i + 1 \in 0..Len(ch) /\ f[i + 1] \in 0..Len(log)
  BY <1>1, <1>3
<1>8. g \in [0..Len(rest) -> 0..Len(log)] /\ \A i \in 0..Len(rest) : g[i] = f[i + 1]
  BY <1>7
<1> HIDE DEF g
<1>9. 0 \in 0..Len(rest) /\ Len(rest) \in 0..Len(rest) /\ 0 + 1 = 1
  BY <1>3
<1>10. g[0] = from + Lines(ch[1]) /\ g[Len(rest)] = Len(log)
  BY <1>1, <1>3, <1>5, <1>8, <1>9
<1>11. ASSUME NEW i \in 1..Len(rest)
       PROVE  /\ g[i] = g[i - 1] + Lines(rest[i])
              /\ Says(rest[i]) => log[g[i]] = LineOf(rest[i], sz)
  <2>1. /\ i \in 0..Len(rest) /\ i - 1 \in 0..Len(rest) /\ i + 1 \in 1..Len(ch)
        /\ (i - 1) + 1 = (i + 1) - 1 /\ rest[i] = ch[i + 1]
    BY <1>3
  <2>2. g[i] = f[i + 1] /\ g[i - 1] = f[(i + 1) - 1]
    BY <1>8, <2>1
  <2>3. /\ f[i + 1] = f[(i + 1) - 1] + Lines(ch[i + 1])
        /\ Says(ch[i + 1]) => log[f[i + 1]] = LineOf(ch[i + 1], sz)
    BY <1>1, <2>1
  <2>4. QED
    BY <2>1, <2>2, <2>3
<1>12. Pending(rest, sz, from + Lines(ch[1]), log)
  BY <1>8, <1>10, <1>11, Zenon DEF Pending
<1>13. Says(ch[1]) => Lines(ch[1]) = 1
  BY DEF Lines
<1>14. QED
  BY <1>2, <1>5, <1>6, <1>12, <1>13 DEF rest

\* The lines of the messages under way depend only on the files they are of.
LEMMA PendingSame ==
    ASSUME NEW ch \in Seq(Message), NEW sz, NEW sz2, NEW from, NEW log, Pending(ch, sz, from, log),
           \A i \in 1..Len(ch) : ch[i].status = "complete" => sz2[ch[i].of] = sz[ch[i].of]
    PROVE  Pending(ch, sz2, from, log)
<1>1. \A i \in 1..Len(ch) : Says(ch[i]) => LineOf(ch[i], sz2) = LineOf(ch[i], sz)
  BY DEF Says, LineOf
<1>2. QED
  BY <1>1, Zenon DEF Pending

\* At the start nothing is said, shown or pending.
LEMMA LogInit == Init => LogInv
<1> SUFFICES ASSUME Init PROVE Pending(<<>>, size, 0, <<>>)
  <2>1. Rank(<<>>, 0) = 0
    <3>1. {j \in 1..0 : <<>>[j].what # "json"} = {}
      OBVIOUS
    <3>2. QED
      BY <3>1, FS_EmptySet, Zenon DEF Rank
  <2>2. Filters(<<>>, <<>>)
    BY <2>1 DEF Filters
  <2>3. Init /\ Pending(<<>>, size, 0, <<>>) => Behind(<<>>)
    BY DEF Init, Behind
  <2>4. <<>> \in Seq(Line)
    OBVIOUS
  <2>5. Init => sent = <<>>
    BY DEF Init
  <2>6. QED
    BY <2>2, <2>3, <2>4, <2>5, Zenon DEF LogInv
<1> DEFINE f == [i \in 0..0 |-> 0]
<1>1. f \in [0..Len(<<>>) -> 0..Len(<<>>)] /\ f[0] = 0 /\ f[Len(<<>>)] = Len(<<>>)
  OBVIOUS
<1>2. \A i \in 1..Len(<<>>) : FALSE
  OBVIOUS
<1> HIDE DEF f
<1>3. QED
  BY <1>1, <1>2, Zenon DEF Pending

\* As long as nothing is lost every file is undamaged, so the head shows its line.
LEMMA LogShown ==
    ASSUME TypeInv, FilesInv, damaged = {}, losses = 0, Receive
    PROVE  IF Says(Head(channel)) THEN shown' = Append(shown, LineOf(Head(channel), size))
                                  ELSE shown' = shown
<1> DEFINE m == Head(channel)
<1>1. up /\ channel # <<>>
  BY Kinds
<1>2. m \in Message /\ m.of \in 0..transfer /\ (m.status \in {"plain", "json"} <=> m.of = 0)
  BY <1>1, HeadFits
<1>3. CASE m.status = "complete"
  <2>1. m.of \in 1..transfer /\ m.of \in Undamaged
    BY <1>2, <1>3, Ranges DEF Undamaged
  <2>2. meta = m.of /\ downloadBase64 = Got(m.of, size[m.of])
    BY <1>1, <1>3, <2>1, HeadContinues DEF Begins
  <2>3. size[m.of] # 0
    BY <2>1, Ranges, Lengths DEF FilesInv, SenderInv
  <2>4. downloadBase64 = Payload(m.of)
    BY <2>2, <2>3 DEF Got, Payload
  <2>5. shown' = Append(shown, FileLine(m.of, m.of, Payload(m.of)))
    BY <1>3, <2>2, <2>4, Kinds
  <2>6. QED
    BY <1>3, <2>5 DEF Says, LineOf, Payload
<1>4. CASE m.status = "plain"
  BY <1>4, Kinds DEF Says, LineOf
<1>5. CASE m.status \notin {"complete", "plain"}
  BY <1>5, Kinds DEF Says
<1>6. QED
  BY <1>3, <1>4, <1>5

\* What is said goes to the end of the log, and of what is pending.
LEMMA LogSays ==
    ASSUME TypeInv, up, up' = up, damaged' = damaged, shown' = shown,
           NEW clean \in Seq(Line), Behind(clean), NEW clean2 \in Seq(Line),
           Len(clean) <= Len(clean2), \A i \in 1..Len(clean) : clean2[i] = clean[i],
           Pending(channel', size', Len(shown), clean2)
    PROVE  Behind(clean2)'
<1>1. shown \in Seq(Line)
  BY Ranges
<1>2. \A i \in 1..Len(shown) : i \in 1..Len(clean)
  BY <1>1 DEF Behind
<1>3. Len(shown) <= Len(clean2)
  BY <1>1 DEF Behind
<1>4. \A i \in 1..Len(shown) : shown[i] = clean2[i]
  BY <1>2 DEF Behind
<1>5. QED
  BY <1>3, <1>4 DEF Behind

\* A step says a line, shows one, or does neither.
LEMMA LogStep == TypeInv /\ FilesInv /\ TypeInv' /\ LogInv /\ [Next]_vars => LogInv'
<1> SUFFICES ASSUME TypeInv, FilesInv, TypeInv', LogInv, [Next]_vars, losses' = 0
             PROVE  \E clean2 \in Seq(Line) : Filters(clean2, sent') /\ Behind(clean2)'
  BY Zenon DEF LogInv
<1>1. /\ transfer \in Nat /\ transfer \in Units /\ packet \in Nat
      /\ channel \in Seq(Message) /\ shown \in Seq(Line) /\ sent \in Seq(Line)
      /\ size \in [Transfers -> Nat] /\ 1..transfer \subseteq Transfers
      /\ losses \in Nat
  BY Ranges, Lengths DEF TypeInv, TypeOK
<1>2. ~Lose
  BY <1>1 DEF Lose
<1>3. losses = 0
  BY <1>2 DEF Next, SendFile, Loaded, SendPacket, SendMessage, Receive, Disconnect, vars
<1>0. PICK clean \in Seq(Line) : Filters(clean, sent) /\ Behind(clean)
  BY <1>3, Zenon DEF LogInv
<1>a. ASSUME UNCHANGED sent, Behind(clean)' PROVE Filters(clean, sent') /\ Behind(clean)'
  BY <1>0, <1>a
<1>4. CASE Disconnect
  BY <1>0, <1>a, <1>4 DEF Disconnect, senderVars, receiverVars, Behind
<1>5. CASE UNCHANGED vars
  BY <1>0, <1>a, <1>5 DEF vars, senderVars, receiverVars, Behind
<1>6. CASE Loaded
  BY <1>0, <1>a, <1>6 DEF Loaded, receiverVars, Behind
<1>7. CASE SendFile
  <2>1. UNCHANGED <<up, losses, damaged, shown, sent>>
    BY <1>7 DEF SendFile, receiverVars
  <2>2. CASE ~up
    BY <1>0, <1>a, <2>1, <2>2 DEF Behind
  <2>3. CASE up
    <3> DEFINE m == Start(transfer + 1)
    <3>1. channel' = Append(channel, m) /\ transfer < MaxTransfers
      BY <1>7, <2>3, Zenon DEF SendFile
    <3>2. PICK s \in Sizes : size' = [size EXCEPT ![transfer + 1] = s]
      BY <1>7, <2>3, Zenon DEF SendFile
    <3>3. m \in Message /\ ~Says(m)
      <4>1. transfer + 1 \in Units
        BY <1>1, <3>1, Lengths DEF Units, Transfers
      <4>2. QED
        BY <4>1 DEF Start, Message, Text, Says
    <3>4. Pending(Append(channel, m), size, Len(shown), clean)
      BY <1>0, <1>1, <2>1, <2>3, <3>3, PendingGrows DEF Behind
    <3>5. ASSUME NEW i \in 1..Len(Append(channel, m)), Append(channel, m)[i].status = "complete"
          PROVE  size'[Append(channel, m)[i].of] = size[Append(channel, m)[i].of]
      <4>1. i \in DOMAIN channel /\ Append(channel, m)[i] = channel[i]
        BY <1>1, <3>3, <3>5, Longer DEF Start
      <4>2. channel[i].of \in 1..transfer
        <5>1. Fits(channel[i]) /\ channel[i].of <= transfer /\ channel[i].of \in Nat
          BY <1>1, <4>1, Numbered DEF FilesInv, OrderInv, Orderly
        <5>2. QED
          BY <1>1, <3>5, <4>1, <5>1 DEF Fits
      <4>3. QED
        BY <1>1, <3>2, <4>1, <4>2
    <3>6. Pending(Append(channel, m), size', Len(shown), clean)
      <4>1. Append(channel, m) \in Seq(Message)
        BY <1>1, <3>3
      <4> DEFINE ch == Append(channel, m)
      <4>2. \A i \in 1..Len(ch) : ch[i].status = "complete" => size'[ch[i].of] = size[ch[i].of]
        BY <3>5, Zenon
      <4>3. ch \in Seq(Message) /\ Pending(ch, size, Len(shown), clean)
        BY <3>4, <4>1
      <4> HIDE DEF ch
      <4>4. Pending(ch, size', Len(shown), clean)
        BY <4>2, <4>3, PendingSame
      <4>5. QED
        BY <4>4 DEF ch
    <3>7. QED
      <4>1. Behind(clean)'
        BY <1>0, <1>1, <2>1, <2>3, <3>1, <3>6, LogSays
      <4>2. QED
        BY <1>a, <2>1, <4>1
  <2>4. QED
    BY <2>2, <2>3
<1>8. CASE SendPacket
  <2>1. /\ UNCHANGED <<up, losses, damaged, shown, size>> /\ sending = "sending"
        /\ transfer \in 1..transfer /\ numberOfPackets \in Nat
    <3>1. sending = "sending" /\ transfer >= 1
      BY <1>8 DEF SendPacket, FilesInv, SenderInv, Sending
    <3>2. transfer \in 1..transfer /\ size[transfer] \in Nat
      BY <1>1, <3>1
    <3>3. QED
      BY <1>8, <3>1, <3>2, Counted DEF SendPacket, receiverVars, numberOfPackets
  <2>2. CASE ~up
    <3>1. UNCHANGED sent
      BY <1>1, <1>8, <2>1, <2>2, Rounds
    <3>2. QED
      BY <1>0, <1>a, <2>1, <2>2, <3>1 DEF Behind
  <2>3. CASE up
    <3>1. OnePiece \in Seq(Message)
      BY <2>1, <2>3, RoundGoes DEF EndsAt
    <3>2. Pending(OnePiece, size, Len(shown), clean)
      <4> DEFINE m == Data(transfer, Piece(transfer, packet * Chunk))
      <4>1. OnePiece = Append(channel, m) /\ ~Says(m)
        BY DEF OnePiece, Data, Says
      <4>2. m \in Message
        <5>1. /\ DOMAIN OnePiece = 1..(Len(channel) + 1) /\ OnePiece[Len(channel) + 1] = m
              /\ Len(channel) \in Nat
          BY <1>1, <4>1
        <5>2. QED
          BY <3>1, <5>1
      <4>3. QED
        BY <1>0, <1>1, <2>1, <2>3, <4>1, <4>2, PendingGrows DEF Behind
    <3>3. CASE channel' = OnePiece /\ UNCHANGED sent
      <4>1. Behind(clean)'
        BY <1>0, <1>1, <2>1, <2>3, <3>2, <3>3, LogSays
      <4>2. QED
        BY <1>a, <3>3, <4>1
    <3>4. CASE /\ packet + 1 >= numberOfPackets
               /\ channel' = Append(AllPieces, Complete(transfer))
               /\ sent' = Append(sent, FileLine(transfer, transfer, Payload(transfer)))
      <4>1. AllPieces \in Seq(Message) /\ Pending(AllPieces, size, Len(shown), clean)
        <5> DEFINE from == packet * Chunk + Chunk
                   m == Data(transfer, Slice(transfer, from, size[transfer]))
        <5>1. AllPieces \in Seq(Message)
          BY <2>1, <2>3, <3>4, RoundGoes DEF EndsAt
        <5>2. CASE size[transfer] > from
          <6>1. m \in Message /\ ~Says(m)
            <7>1. from \in Nat /\ size[transfer] \in Nat
              BY <1>1, <2>1, Lengths
            <7>2. Slice(transfer, from, size[transfer]) \in Text
              BY <1>1, <7>1, SliceText
            <7>3. QED
              BY <1>1, <7>2 DEF Data, Message, Says
          <6>2. AllPieces = OnePiece \o <<m>>
            BY <5>2 DEF AllPieces, LastPieces
          <6>3. AllPieces = Append(OnePiece, m)
            BY <3>1, <6>1, <6>2, AppendIsConcat
          <6>4. QED
            BY <1>0, <1>1, <3>1, <3>2, <5>1, <6>1, <6>3, PendingGrows
        <5>3. CASE ~(size[transfer] > from)
          <6>1. AllPieces = OnePiece
            BY <3>1, <5>3 DEF AllPieces, LastPieces
          <6>2. QED
            BY <3>2, <5>1, <6>1
        <5>4. QED
          BY <5>2, <5>3
      <4>2. /\ Complete(transfer) \in Message /\ Says(Complete(transfer))
            /\ LineOf(Complete(transfer), size)
                 = FileLine(transfer, transfer, Payload(transfer))
        BY <1>1 DEF Complete, Message, Text, Says, LineOf, Payload
      <4>3. FileLine(transfer, transfer, Payload(transfer)) \in Line
        <5>1. size[transfer] \in Nat /\ Header \in Nat
          BY <1>1, <2>1, Lengths
        <5>2. Payload(transfer) \in Text
          BY <1>1, <5>1, SliceText DEF Payload
        <5>3. QED
          BY <1>1, <5>2 DEF FileLine, Line
      <4> PICK l \in Line : l = FileLine(transfer, transfer, Payload(transfer))
        BY <4>3
      <4>a. l.what # "json"
        BY DEF FileLine
      <4>b. PICK clean2 \in Seq(Line) : clean2 = Append(clean, l)
        <5>1. Append(clean, l) \in Seq(Line)
          BY <1>0
        <5>2. QED
          BY <5>1, Zenon
      <4>4. clean2 \in Seq(Line) /\ Pending(channel', size', Len(shown), clean2)
        <5>1. clean2 \in Seq(Line) /\ clean2 = Append(clean, LineOf(Complete(transfer), size))
          BY <4>2, <4>b
        <5>2. Pending(Append(AllPieces, Complete(transfer)), size, Len(shown), clean2)
          BY <1>0, <4>1, <4>2, <5>1, PendingGrows
        <5>3. QED
          BY <2>1, <3>4, <5>1, <5>2
      <4>5. Len(clean) <= Len(clean2) /\ \A i \in 1..Len(clean) : clean2[i] = clean[i]
        BY <1>0, <4>b
      <4>6. Filters(clean2, sent')
        BY <1>0, <1>1, <3>4, <4>a, <4>b, FiltersGrow
      <4>7. Behind(clean2)'
        BY <1>0, <1>1, <2>1, <2>3, <4>4, <4>5, LogSays
      <4>8. QED
        BY <4>4, <4>6, <4>7
    <3>5. QED
      BY <1>1, <1>8, <2>1, <2>3, <3>3, <3>4, Rounds
  <2>4. QED
    BY <2>2, <2>3
<1>9. CASE SendMessage
  <2>1. /\ up /\ UNCHANGED <<up, size, losses, damaged, shown>>
    BY <1>9 DEF SendMessage, senderVars, receiverVars
  <2>2. PICK kind \in {"plain", "json"} : /\ channel' = Append(channel, Typed(kind))
                                         /\ sent' = Append(sent, TextLine(kind))
    BY <1>9 DEF SendMessage
  <2> DEFINE m == Typed(kind)
             l == TextLine(kind)
             clean2 == IF l.what # "json" THEN Append(clean, l) ELSE clean
  <2>3. /\ m \in Message /\ (Says(m) <=> l.what # "json")
        /\ Says(m) => LineOf(m, size) = l
    BY DEF Typed, Message, Text, Units, Says, LineOf, TextLine
  <2>4. l \in Line
    BY DEF TextLine, Line, Text, Units
  <2>5. /\ clean2 \in Seq(Line) /\ Len(clean) <= Len(clean2)
        /\ \A i \in 1..Len(clean) : clean2[i] = clean[i]
    BY <1>0, <2>4
  <2>6. IF Says(m) THEN clean2 = Append(clean, LineOf(m, size)) ELSE clean2 = clean
    BY <2>3
  <2>7. Filters(clean2, sent')
    BY <1>0, <1>1, <2>2, <2>4, FiltersGrow
  <2> HIDE DEF m, l, clean2
  <2>8. Pending(Append(channel, m), size, Len(shown), clean2)
    BY <1>0, <1>1, <2>1, <2>3, <2>5, <2>6, PendingGrows DEF Behind
  <2>9. Behind(clean2)'
    <3>1. Pending(channel', size', Len(shown), clean2)
      BY <2>1, <2>2, <2>8 DEF m
    <3>2. QED
      BY <1>0, <1>1, <2>1, <2>5, <3>1, LogSays
  <2>10. QED
    BY <2>5, <2>7, <2>9
<1>10. CASE Receive
  <2> DEFINE m == Head(channel)
  <2>1. /\ up /\ channel # <<>> /\ channel' = Tail(channel)
        /\ UNCHANGED <<up, size, losses, damaged, sent>>
    BY <1>10, Kinds
  <2>2. Pending(channel, size, Len(shown), clean) /\ Len(shown) \in Nat
    BY <1>0, <1>1, <2>1 DEF Behind
  <2>3. /\ Pending(channel', size, Len(shown) + Lines(m), clean)
        /\ Len(shown) + Lines(m) <= Len(clean)
        /\ Says(m) => clean[Len(shown) + 1] = LineOf(m, size)
    BY <1>0, <1>1, <2>1, <2>2, PendingFalls
  <2>4. IF Says(m) THEN shown' = Append(shown, LineOf(m, size)) ELSE shown' = shown
    BY <1>0, <1>3, <1>10, <2>1, LogShown DEF Behind
  <2>5. Len(shown') = Len(shown) + Lines(m) /\ \A i \in 1..Len(shown') : shown'[i] = clean[i]
    <3>1. CASE Says(m)
      <4>1. /\ Len(shown') = Len(shown) + 1 /\ Lines(m) = 1
            /\ \A i \in 1..Len(shown) : shown'[i] = shown[i]
            /\ shown'[Len(shown) + 1] = LineOf(m, size)
        <5>1. shown' = Append(shown, LineOf(m, size))
          BY <2>4, <3>1, Zenon
        <5>2. Lines(m) = 1
          BY <3>1 DEF Lines
        <5>3. QED
          BY <1>1, <5>1, <5>2
      <4>2. \A i \in 1..Len(shown') : i \in 1..Len(shown) \/ i = Len(shown) + 1
        BY <2>2, <4>1
      <4>3. QED
        BY <1>0, <2>1, <2>3, <3>1, <4>1, <4>2 DEF Behind
    <3>2. CASE ~Says(m)
      <4>1. shown' = shown /\ Lines(m) = 0
        BY <2>4, <3>2 DEF Lines
      <4>2. QED
        BY <1>0, <2>1, <2>2, <4>1 DEF Behind
    <3>3. QED
      BY <3>1, <3>2
  <2>6. QED
    BY <1>0, <1>a, <2>1, <2>3, <2>5 DEF Behind
<1>11. QED
  BY <1>2, <1>4, <1>5, <1>6, <1>7, <1>8, <1>9, <1>10 DEF Next

\* While the channel loses nothing the other page's chat log is the sender's without
\* the typed texts that JSON.parse takes, line for line and byte for byte, only behind
\* it (rtcchat.js sendFile, sendMessage and receiveMessage).
THEOREM LogsAlwaysAgree == Spec => []LogsAgree
<1>1. Init => TypeInv /\ FilesInv /\ LogInv
  BY TypesInit, FilesInit, LogInit
<1>2. TypeInv /\ FilesInv /\ LogInv /\ [Next]_vars => (TypeInv /\ FilesInv /\ LogInv)'
  BY TypesStep, FilesStep, LogStep
<1>3. TypeInv /\ LogInv => LogsAgree
  <2>1. SUFFICES ASSUME TypeInv, LogInv, losses = 0
                 PROVE  /\ Len(shown) <= Legible(Len(sent))
                        /\ \A k \in DOMAIN sent :
                             sent[k].what # "json" /\ Legible(k) <= Len(shown)
                               => shown[Legible(k)] = sent[k]
    BY Zenon DEF LogsAgree
  <2>2. PICK clean \in Seq(Line) : Filters(clean, sent) /\ Behind(clean)
    BY <2>1, Zenon DEF LogInv
  <2>3. \A k : Legible(k) = Rank(sent, k)
    BY Zenon DEF Legible, Rank
  <2>4. shown \in Seq(Line) /\ sent \in Seq(Line) /\ DOMAIN sent = 1..Len(sent)
    BY <2>1, Ranges
  <2>5. Len(shown) <= Legible(Len(sent))
    BY <2>2, <2>3 DEF Filters, Behind
  <2>6. ASSUME NEW k \in DOMAIN sent, sent[k].what # "json", Legible(k) <= Len(shown)
        PROVE  shown[Legible(k)] = sent[k]
    <3>1. /\ Rank(sent, k) \in 1..Len(clean) /\ clean[Rank(sent, k)] = sent[k]
          /\ Rank(sent, k) <= Len(shown)
      BY <2>2, <2>3, <2>4, <2>6 DEF Filters
    <3>2. Rank(sent, k) \in 1..Len(shown)
      BY <2>4, <3>1
    <3>3. QED
      BY <2>2, <2>3, <3>1, <3>2 DEF Behind
  <2>7. QED
    BY <2>5, <2>6
<1>4. QED
  BY <1>1, <1>2, <1>3, PTL DEF Spec

=============================================================================
