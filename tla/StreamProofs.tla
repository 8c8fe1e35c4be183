----------------------------- MODULE StreamProofs -----------------------------
(***************************************************************************)
(* The two users of the NI record decoder, the transport and the pumps of  *)
(* the recording proxy, for every width of the prefix, every limit, every  *)
(* payload and every way to cut the stream into reads.                     *)
(***************************************************************************)
EXTENDS Transport, Sniffer, DecoderProofs

USE SMTT(30)

------------------------------------------------------------------------------
(* The inductive invariant of a connection: there is a stream that the     *)
(* peer's payloads fill; the decoder was pushed what Receive has read of   *)
(* it, and the rest is on its way.                                         *)
TransportAt(Z, b, j, k, to) ==
  /\ Decoded(sent, b, Z, dec, j, k, to) /\ Delivered = Piece(sent, 0, j)
  /\ wire = Piece(Z, to, Len(Z))
TransportInv ==
  /\ received \in Rows(Byte) /\ queue \in Rows(Byte) /\ result # "inconsistent"
  /\ \E Z, b, j, k, to : TransportAt(Z, b, j, k, to)

(* A new connection.                                                       *)
LEMMA TransportStarts == TransportInit => TransportInv
<1> SUFFICES ASSUME TransportInit PROVE TransportInv
  OBVIOUS
<1> DEFINE base == [i \in 0..0 |-> 0]
<1>0. received = <<>> /\ queue = <<>> /\ sent = <<>> /\ wire = <<>> /\ dec = NewFrameDecoder /\ result = "none"
  BY DEF TransportInit
<1>1. <<>> \in Rows(Byte) /\ <<>> \in Seq(Byte) /\ Fills(<<>>, base, <<>>)
  BY FillsNone
<1>2. Encoded(<<>>) = <<>> /\ Sendable(<<>>)
  <2>1. \A k \in 1..Len(<<>>) : FALSE
    OBVIOUS
  <2>2. Encoded(<<>>) = <<>>
    BY DEF Encoded
  <2> QED
    BY <1>1, <2>1, <2>2, ZenonT(30) DEF Sendable
<1> HIDE DEF base
<1>3. Stream(<<>>, base, <<>>)
  BY <1>1, <1>2, ZenonT(30) DEF Stream
<1>4. Decoded(<<>>, base, <<>>, NewFrameDecoder, 0, 0, 0)
  BY <1>3, DecodedStart, ZenonT(30)
<1>5. Piece(<<>>, 0, 0) = <<>> /\ Len(<<>>) = 0 /\ <<>> \o <<>> = <<>>
  <2>1. Piece(<<>>, 0, 0) = <<>>
    BY PieceEmpty
  <2> QED
    BY <2>1
<1>6. TransportAt(<<>>, base, 0, 0, 0)
  BY <1>0, <1>4, <1>5, ZenonT(30) DEF TransportAt, Delivered
<1>7. "none" # "inconsistent"
  OBVIOUS
<1> QED
  BY <1>0, <1>1, <1>6, <1>7, ZenonT(30) DEF TransportInv

(* A step that neither reads nor moves a record.                           *)
LEMMA TransportKeeps ==
  ASSUME TransportInv, dec' = dec, sent' = sent, wire' = wire, Delivered' = Delivered,
         received' \in Rows(Byte), queue' \in Rows(Byte), result' # "inconsistent"
  PROVE  TransportInv'
<1>1. PICK Z, b, j, k, to : TransportAt(Z, b, j, k, to)
  BY ZenonT(30) DEF TransportInv
<1>2. TransportAt(Z, b, j, k, to)'
  BY <1>1, ZenonT(30) DEF TransportAt
<1> QED
  BY <1>2, ZenonT(30) DEF TransportInv

(* The read of n bytes: whatever Push returns goes to the queue, which was *)
(* empty.                                                                  *)
LEMMA TransportReads ==
  ASSUME TransportInv, NEW n \in 1..Len(wire), NEW err \in {"none", "closed"}, ReadBytes(n, err)
  PROVE  TransportInv'
<1> DEFINE c == SubSeq(wire, 1, n)
           s == Push(dec, c)
<1>1. PICK Z, b, j, k, to : TransportAt(Z, b, j, k, to)
  BY ZenonT(30) DEF TransportInv
<1>2. Decoded(sent, b, Z, dec, j, k, to) /\ Delivered = Piece(sent, 0, j) /\ wire = Piece(Z, to, Len(Z))
  BY <1>1, ZenonT(30) DEF TransportAt
<1>3. queue = <<>> /\ received' = received /\ sent' = sent /\ wire' = SubSeq(wire, n + 1, Len(wire))
      /\ dec' = s.dec /\ queue' = queue \o s.payloads /\ received \in Rows(Byte) /\ result # "inconsistent"
  BY DEF ReadBytes, Reading, TransportInv
<1>4. Stream(sent, b, Z) /\ k \in 0..Len(sent) /\ j \in 0..k /\ to \in 0..Len(Z)
  BY <1>2, ZenonT(30) DEF Decoded
<1>5. Z \in Seq(Byte) /\ sent \in Rows(Byte) /\ Len(sent) \in Nat
  <2>1. Z \in Seq(Byte) /\ sent \in Rows(Byte)
    BY <1>4, ZenonT(30) DEF Stream, Sendable
  <2> QED
    BY <1>4, <2>1, StreamIs, ZenonT(30)
<1> DEFINE up == to + n
           w == wire
<1>6. up \in 0..Len(Z) /\ to <= up /\ c = Piece(Z, to, up) /\ wire' = Piece(Z, up, Len(Z))
  <2> HIDE DEF w
  <2>1. w = Piece(Z, to, Len(Z)) /\ n \in 0..Len(w)
    <3>1. wire \in Seq(Byte)
      <4>1. Len(Z) \in 0..Len(Z) /\ to \in 0..Len(Z)
        BY <1>4, <1>5, LenProperties
      <4> QED
        BY <1>2, <1>5, <4>1, PieceFacts, ZenonT(30)
    <3>2. n \in 0..Len(wire)
      BY <3>1, LenProperties
    <3> QED
      BY <1>2, <3>2 DEF w
  <2>2. to + n \in 0..Len(Z) /\ to <= to + n
        /\ SubSeq(w, 1, n) = Piece(Z, to, to + n) /\ SubSeq(w, n + 1, Len(w)) = Piece(Z, to + n, Len(Z))
    BY <1>4, <1>5, <2>1, PieceSplit
  <2> QED
    BY <1>3, <2>2, ZenonT(30) DEF w
<1>7. s \in DrainState /\ \E m \in k..Len(sent) : Returned(sent, b, Z, j, k, m, up, s)
  <2> HIDE DEF up
  <2>1. /\ Push(dec, Piece(Z, to, up)) \in DrainState
        /\ \E m \in k..Len(sent) : Returned(sent, b, Z, j, k, m, up, Push(dec, Piece(Z, to, up)))
    BY <1>2, <1>6, DecodedPush, ZenonT(30)
  <2> QED
    BY <1>6, <2>1, ZenonT(30)
<1>8. PICK m \in k..Len(sent) : Returned(sent, b, Z, j, k, m, up, s)
  BY <1>7, ZenonT(30)
<1>9. s.payloads \in Rows(Byte) /\ s.err \in {0, TooLarge}
  BY <1>7 DEF DrainState
<1>10. queue' = s.payloads /\ Delivered = received /\ Delivered' = received \o s.payloads
  <2>1. <<>> \o s.payloads = s.payloads /\ received \o <<>> = received
    BY <1>3, <1>9 DEF Rows
  <2> QED
    BY <1>3, <2>1, ZenonT(30) DEF Delivered
<1>11. result' # "inconsistent"
  <2>1. s.err # Inconsistent
    BY <1>9 DEF TooLarge, Inconsistent
  <2>2. result' \in {result, "oversize", err}
    BY <2>1 DEF ReadBytes, Returns
  <2> QED
    BY <1>3, <2>2
<1> HIDE DEF s, up, c
<1>12. \E i, l : Decoded(sent, b, Z, s.dec, i, l, up) /\ received \o s.payloads = Piece(sent, 0, i)
  <2>1. CASE s.err = 0 /\ j = k /\ s.payloads = Piece(sent, j, m) /\ Decoded(sent, b, Z, s.dec, m, m, up)
    <3>1. sent \in Seq(Seq(Byte)) /\ m \in 0..Len(sent) /\ j \in 0..m /\ 0 \in 0..j
      BY <1>4, <1>5, <2>1 DEF Rows
    <3>2. Piece(sent, 0, j) \o Piece(sent, j, m) = Piece(sent, 0, m)
      BY <3>1, PieceJoin
    <3> QED
      BY <1>2, <1>10, <2>1, <3>2, ZenonT(30)
  <2>2. CASE s.payloads = <<>> /\ Decoded(sent, b, Z, s.dec, j, m, up)
    <3>1. received \o <<>> = received
      BY <1>3 DEF Rows
    <3> QED
      BY <1>2, <1>10, <2>2, <3>1, ZenonT(30)
  <2> QED
    BY <1>8, <2>1, <2>2, ZenonT(30) DEF Returned
<1>13. PICK i, l : Decoded(sent, b, Z, s.dec, i, l, up) /\ received \o s.payloads = Piece(sent, 0, i)
  BY <1>12, ZenonT(30)
<1>14. TransportAt(Z, b, i, l, up)'
  BY <1>3, <1>6, <1>10, <1>13, ZenonT(30) DEF TransportAt
<1> QED
  BY <1>3, <1>9, <1>10, <1>11, <1>14, ZenonT(30) DEF TransportInv

(* The peer sends a record: the stream grows by it.                        *)
LEMMA TransportSends ==
  ASSUME TransportInv, PeerSends
  PROVE  TransportInv'
<1>1. PICK Z, b, j, k, to : TransportAt(Z, b, j, k, to)
  BY ZenonT(30) DEF TransportInv
<1>2. Decoded(sent, b, Z, dec, j, k, to) /\ Delivered = Piece(sent, 0, j) /\ wire = Piece(Z, to, Len(Z))
  BY <1>1, ZenonT(30) DEF TransportAt
<1>3. PICK p \in Payloads : sent' = Append(sent, p) /\ wire' = wire \o EncodeFrame(p)
                            /\ dec' = dec /\ received' = received /\ queue' = queue /\ result' = result
  BY ZenonT(30) DEF PeerSends
<1>4. p \in Seq(Byte) /\ Len(p) < Weight[LengthBytes]
  BY TransportAssumption
<1> DEFINE c == EncodeFrame(p)
           y == Z \o c
           up == Longer(b, Len(sent), Len(y))
<1>5. Decoded(sent', up, y, dec', j, k, to)
  BY <1>2, <1>3, <1>4, DecodedSend, ZenonT(30)
<1>6. Stream(sent, b, Z) /\ k \in 0..Len(sent) /\ j \in 0..k /\ to \in 0..Len(Z)
  BY <1>2, ZenonT(30) DEF Decoded
<1>7. Z \in Seq(Byte) /\ sent \in Seq(Seq(Byte)) /\ Len(sent) \in Nat /\ c \in Seq(Byte)
  <2>1. Z \in Seq(Byte) /\ sent \in Seq(Seq(Byte))
    BY <1>6, ZenonT(30) DEF Stream, Sendable, Rows
  <2> QED
    BY <1>4, <1>6, <2>1, StreamIs, EncodeFrameIs, ZenonT(30)
<1>8. Piece(sent', 0, j) = Piece(sent, 0, j)
  <2>1. j \in 0..Len(sent) /\ 0 \in 0..j
    BY <1>6, <1>7
  <2>2. sent' = sent \o <<p>> /\ <<p>> \in Seq(Seq(Byte))
    BY <1>3, <1>4, <1>7
  <2>3. \A e \in 0..Len(sent) : \A a \in 0..e : Piece(sent \o <<p>>, a, e) = Piece(sent, a, e)
    <3> DEFINE S == Seq(Byte)
               tl == <<p>>
    <3>1. sent \in Seq(S) /\ tl \in Seq(S)
      BY <1>7, <2>2
    <3> HIDE DEF S, tl
    <3>2. \A e \in 0..Len(sent) : \A a \in 0..e : Piece(sent \o tl, a, e) = Piece(sent, a, e)
      BY <3>1, PieceOfLonger
    <3> QED
      BY <3>2, ZenonT(30) DEF tl
  <2> QED
    BY <2>1, <2>2, <2>3, ZenonT(30)
<1>9. wire' = Piece(y, to, Len(y))
  <2> HIDE DEF c
  <2> DEFINE z == Len(Z)
             l == Len(c)
  <2>1. y \in Seq(Byte) /\ Len(y) = z + l /\ (\A e \in 0..z : \A a \in 0..e : Piece(y, a, e) = Piece(Z, a, e))
        /\ Piece(y, z, z + l) = c
    BY <1>7, PieceOfLonger
  <2>2. z \in Nat /\ l \in Nat
    BY <1>7, LenProperties
  <2> HIDE DEF y, z, l
  <2>3. to \in 0..z /\ z \in 0..z /\ z \in 0..(z + l) /\ z + l \in 0..(z + l)
    BY <1>6, <2>2 DEF z
  <2>4. Piece(y, to, z) = wire
    BY <1>2, <2>1, <2>3, ZenonT(30) DEF z
  <2>5. Piece(y, to, z) \o Piece(y, z, z + l) = Piece(y, to, z + l)
    <3> DEFINE e == z + l
    <3>1. e \in 0..Len(y) /\ z \in 0..e
      BY <2>1, <2>3, ZenonT(30)
    <3> HIDE DEF e
    <3>2. Piece(y, to, z) \o Piece(y, z, e) = Piece(y, to, e)
      BY <2>1, <2>3, <3>1, PieceJoin, ZenonT(30)
    <3> QED
      BY <3>2, ZenonT(30) DEF e
  <2> QED
    BY <1>3, <2>1, <2>4, <2>5, ZenonT(30) DEF c
<1> HIDE DEF y, up, c
<1>10. Delivered' = Delivered
  BY <1>3 DEF Delivered
<1>11. PICK x, a : Decoded(sent', a, x, dec', j, k, to) /\ wire' = Piece(x, to, Len(x))
  BY <1>5, <1>9, ZenonT(30)
<1>12. TransportAt(x, a, j, k, to)'
  BY <1>2, <1>8, <1>10, <1>11, ZenonT(30) DEF TransportAt
<1> QED
  BY <1>3, <1>12, ZenonT(30) DEF TransportInv

(* Every step of the connection keeps the invariant.                       *)
LEMMA TransportSteps == TransportInv /\ [TransportNext]_transportVars => TransportInv'
<1> SUFFICES ASSUME TransportInv, [TransportNext]_transportVars PROVE TransportInv'
  OBVIOUS
<1>0. received \in Rows(Byte) /\ queue \in Rows(Byte) /\ result # "inconsistent"
  BY DEF TransportInv
<1>1. ASSUME UNCHANGED <<dec, queue, received, wire, sent>>, result' # "inconsistent" PROVE TransportInv'
  <2>1. dec' = dec /\ sent' = sent /\ wire' = wire /\ received' \in Rows(Byte) /\ queue' \in Rows(Byte)
    BY <1>0, <1>1
  <2>2. Delivered' = Delivered
    BY <1>1 DEF Delivered
  <2> QED
    BY <1>1, <2>1, <2>2, TransportKeeps
<1>2. CASE CallReceive
  BY <1>0, <1>1, <1>2 DEF CallReceive, peerVars
<1>3. CASE ReturnFrame
  <2>1. queue # <<>> /\ received' = Append(received, Head(queue)) /\ queue' = Tail(queue)
        /\ dec' = dec /\ sent' = sent /\ wire' = wire /\ result' # "inconsistent"
    BY <1>3 DEF ReturnFrame, Returns, peerVars
  <2> DEFINE S == Seq(Byte)
  <2>2. received \in Seq(S) /\ queue \in Seq(S)
    BY <1>0 DEF Rows
  <2> HIDE DEF S
  <2>3. Append(received, Head(queue)) \in Seq(S) /\ Tail(queue) \in Seq(S)
        /\ Append(received, Head(queue)) \o Tail(queue) = received \o queue
    BY <2>1, <2>2, Requeue
  <2>4. received' \in Rows(Byte) /\ queue' \in Rows(Byte) /\ Delivered' = Delivered
    BY <2>1, <2>3, ZenonT(30) DEF Rows, Delivered, S
  <2> QED
    BY <2>1, <2>4, TransportKeeps
<1>4. CASE ContextEnded
  BY <1>0, <1>1, <1>4 DEF ContextEnded, Returns, peerVars
<1>5. CASE ReadChunk
  <2>0. PICK n \in 1..Min({ChunkSize, Len(wire)}) :
          \E err \in {"none"} \cup (IF ~peerOpen /\ n = Len(wire) THEN {"closed"} ELSE {}) : ReadBytes(n, err)
    BY <1>5, ZenonT(30) DEF ReadChunk
  <2>1. PICK err \in {"none"} \cup (IF ~peerOpen /\ n = Len(wire) THEN {"closed"} ELSE {}) : ReadBytes(n, err)
    BY <2>0, ZenonT(30)
  <2>2. err \in {"none", "closed"}
    OBVIOUS
  <2>3. wire \in Seq(Byte)
    <3>1. PICK Z, b, j, k, to : TransportAt(Z, b, j, k, to)
      BY ZenonT(30) DEF TransportInv
    <3>2. wire = Piece(Z, to, Len(Z)) /\ Stream(sent, b, Z) /\ to \in 0..Len(Z)
      BY <3>1, ZenonT(30) DEF TransportAt, Decoded
    <3>3. Z \in Seq(Byte)
      BY <3>2, ZenonT(30) DEF Stream
    <3>4. Len(Z) \in 0..Len(Z)
      BY <3>3, LenProperties
    <3> QED
      BY <3>2, <3>3, <3>4, PieceFacts, ZenonT(30)
  <2>4. n \in 1..Len(wire)
    <3> DEFINE l == Len(wire)
    <3>1. l \in Nat /\ ChunkSize \in Nat
      BY <2>3, LenProperties, TransportAssumption
    <3> HIDE DEF l
    <3>2. Min({ChunkSize, l}) <= l /\ Min({ChunkSize, l}) \in Nat
      <4>1. \E x \in {ChunkSize, l} : \A y \in {ChunkSize, l} : x <= y
        BY <3>1
      <4>2. Min({ChunkSize, l}) \in {ChunkSize, l} /\ \A y \in {ChunkSize, l} : Min({ChunkSize, l}) <= y
        BY <4>1, ZenonT(30) DEF Min
      <4> DEFINE m == Min({ChunkSize, l})
      <4> HIDE DEF m
      <4>3. m \in {ChunkSize, l} /\ \A y \in {ChunkSize, l} : m <= y
        BY <4>2 DEF m
      <4>4. m <= l /\ m \in Nat
        BY <3>1, <4>3
      <4> QED
        BY <4>4 DEF m
    <3> DEFINE m == Min({ChunkSize, l})
    <3>3. n \in 1..m
      BY DEF l
    <3> HIDE DEF m
    <3>4. m <= l /\ m \in Nat
      BY <3>2 DEF m
    <3> QED
      BY <3>1, <3>3, <3>4 DEF l
  <2> QED
    BY <2>1, <2>2, <2>4, TransportReads
<1>6. CASE ReadClosed
  BY <1>0, <1>1, <1>6 DEF ReadClosed, Returns, peerVars
<1>7. CASE ReadTimesOut
  BY <1>0, <1>1, <1>7 DEF ReadTimesOut, Returns, peerVars
<1>8. CASE TimePasses
  BY <1>0, <1>1, <1>8 DEF TimePasses, peerVars
<1>9. CASE PeerSends
  BY <1>9, TransportSends
<1>10. CASE PeerCloses
  BY <1>0, <1>1, <1>10 DEF PeerCloses
<1>11. CASE UNCHANGED transportVars
  BY <1>0, <1>1, <1>11 DEF transportVars
<1> QED
  BY <1>2, <1>3, <1>4, <1>5, <1>6, <1>7, <1>8, <1>9, <1>10, <1>11, ZenonT(30) DEF TransportNext, ReceiveStep

(* What the invariant says of the records that Receive hands over.         *)
RefusesFromFault == \A i \in 1..Len(sent) : ~Fits(sent[i]) => Len(received) < i

(* Receive hands over the stream, and nothing from a fault on.             *)
LEMMA TransportSays == TransportInv => StreamIsDelivered /\ RefusesFromFault
<1> SUFFICES ASSUME TransportInv PROVE StreamIsDelivered /\ RefusesFromFault
  OBVIOUS
<1>1. PICK Z, b, j, k, to : TransportAt(Z, b, j, k, to)
  BY ZenonT(30) DEF TransportInv
<1>2. Decoded(sent, b, Z, dec, j, k, to) /\ Delivered = Piece(sent, 0, j)
  BY <1>1, ZenonT(30) DEF TransportAt
<1>3. IsPrefix(Piece(sent, 0, j), sent) /\ Len(Piece(sent, 0, j)) = j
  BY <1>2, DecodedSays, ZenonT(30)
<1>4. (\A i \in 1..Len(sent) : Fits(sent[i])) /\ j + 1 <= Len(sent) => dec.buffered < LengthBytes + Len(sent[j + 1])
  BY <1>2, DecodedSays
<1>5. \A i \in 1..Len(sent) : ~Fits(sent[i]) => j < i
  BY <1>2, DecodedSays
<1>6. Holds(dec, Z, b[k], to)
  BY <1>2, ZenonT(30) DEF Decoded
<1>7. Len(Delivered) = j
  BY <1>2, <1>3, ZenonT(30)
<1>8. DeliversStream
  BY <1>2, <1>3, ZenonT(30) DEF DeliversStream
<1>9. NothingHeldBack
  <2> HIDE DEF Delivered
  <2> QED
    BY <1>4, <1>7, ZenonT(30) DEF NothingHeldBack
<1>10. QueueIsConsistent
  BY <1>6, HoldsConsistent, ZenonT(30) DEF QueueIsConsistent, TransportInv
<1>11. ConsumedIsDropped
  BY <1>6, ZenonT(30) DEF ConsumedIsDropped, Holds, Kept
<1>12. Len(received) \in Nat /\ Len(received) <= j /\ j \in Nat
  <2>1. received \in Seq(Seq(Byte)) /\ queue \in Seq(Seq(Byte))
    BY DEF TransportInv, Rows
  <2>2. Len(received) \in Nat /\ Len(queue) \in Nat /\ Len(received \o queue) = Len(received) + Len(queue)
    BY <2>1
  <2>3. j = Len(received) + Len(queue)
    BY <1>7, <2>2 DEF Delivered
  <2> QED
    BY <2>2, <2>3
<1>13. ASSUME NEW i \in 1..Len(sent), ~Fits(sent[i]) PROVE Len(received) < i
  <2>1. j < i
    BY <1>5, <1>13, ZenonT(30)
  <2>2. i \in Int
    OBVIOUS
  <2> DEFINE l == Len(received)
  <2> HIDE DEF l
  <2>3. l \in Nat /\ l <= j /\ j \in Nat
    BY <1>12 DEF l
  <2>4. l < i
    BY <2>1, <2>2, <2>3
  <2> QED
    BY <2>4 DEF l
<1> QED
  BY <1>8, <1>9, <1>10, <1>11, <1>13, ZenonT(30) DEF StreamIsDelivered, RefusesFromFault

(* What the peer has sent stays sent.                                      *)
LEMMA SentStays ==
  ASSUME TransportInv, TransportNext
  PROVE  \A i \in 1..Len(sent) : i \in 1..Len(sent') /\ sent'[i] = sent[i]
<1>1. CASE sent' = sent
  BY <1>1, ZenonT(30)
<1>2. CASE PeerSends
  <2>1. PICK p \in Payloads : sent' = Append(sent, p)
    BY <1>2, ZenonT(30) DEF PeerSends
  <2>2. p \in Seq(Byte)
    BY TransportAssumption
  <2>3. PICK Z, b, j, k, to : TransportAt(Z, b, j, k, to)
    BY ZenonT(30) DEF TransportInv
  <2>4. sent \in Rows(Byte)
    BY <2>3, ZenonT(30) DEF TransportAt, Decoded, Stream, Sendable
  <2>5. Len(Append(sent, p)) = Len(sent) + 1 /\ \A i \in 1..Len(sent) : Append(sent, p)[i] = sent[i]
    BY <2>2, <2>4, RowAppend
  <2>6. Len(sent) \in Nat
    BY <2>4 DEF Rows
  <2>7. \A i \in 1..Len(sent) : i \in 1..(Len(sent) + 1)
    BY <2>6
  <2> QED
    BY <2>1, <2>5, <2>7, ZenonT(30)
<1> QED
  BY <1>1, <1>2 DEF TransportNext, ReceiveStep, CallReceive, ReturnFrame, ContextEnded, ReadChunk, ReadBytes,
     ReadClosed, ReadTimesOut, TimePasses, PeerCloses, peerVars

(* Receive returns the peer's payloads in order and unaltered, holds no    *)
(* complete record back, counts its buffered bytes right and drops the     *)
(* chunks it has consumed, for every set of payloads, size of a read,      *)
(* width of the prefix and limit.                                          *)
THEOREM TransportDelivers == TransportSpec => []StreamIsDelivered
<1>1. TransportInv => StreamIsDelivered
  BY TransportSays
<1> QED
  BY TransportStarts, TransportSteps, <1>1, PTL DEF TransportSpec

(* No Receive returns a record from behind a length over the limit, nor    *)
(* that record itself, however often it is called.                         *)
THEOREM TransportFaults == TransportSpec => FaultIsFinal
<1> DEFINE A == \A i \in 1..Len(sent) : ~Fits(sent[i]) => Len(received') < i
<1>1. TransportInv' => RefusesFromFault'
  BY TransportSays, PTL
<1>2. TransportInv /\ TransportInv' /\ [TransportNext]_transportVars => [A]_transportVars
  <2> SUFFICES ASSUME TransportInv, TransportInv', TransportNext PROVE A
    BY ZenonT(30)
  <2>1. \A i \in 1..Len(sent') : ~Fits(sent'[i]) => Len(received') < i
    BY <1>1, ZenonT(30) DEF RefusesFromFault
  <2>2. \A i \in 1..Len(sent) : i \in 1..Len(sent') /\ sent'[i] = sent[i]
    BY SentStays
  <2> QED
    BY <2>1, <2>2, ZenonT(30)
<1> QED
  BY TransportStarts, TransportSteps, <1>2, PTL DEF TransportSpec, FaultIsFinal

------------------------------------------------------------------------------
(* The fields of a pump.                                                   *)
Octets == Seq(Byte)
PumpType ==
  [at : {"read", "write", "done"}, unread : Octets, buf : Octets, rerr : BOOLEAN, forwarded : Octets,
   dec : Decoders, observed : Rows(Byte), lost : BOOLEAN, teed : Nat]

(* q is p but for where it is, what it has read and what it has written.   *)
Sees(p, dec0, observed0, lost0, teed0) ==
  p.dec = dec0 /\ p.observed = observed0 /\ p.lost = lost0 /\ p.teed = teed0

(* A pump that has read n bytes.                                           *)
LEMMA FilledIs ==
  ASSUME NEW p \in PumpType, NEW n, NEW rerr \in BOOLEAN,
         SubSeq(p.unread, 1, n) \in Octets, SubSeq(p.unread, n + 1, Len(p.unread)) \in Octets
  PROVE  /\ Filled(p, n, rerr) \in PumpType /\ Filled(p, n, rerr).at = "write"
         /\ Filled(p, n, rerr).buf = SubSeq(p.unread, 1, n)
         /\ Filled(p, n, rerr).unread = SubSeq(p.unread, n + 1, Len(p.unread))
         /\ Filled(p, n, rerr).forwarded = p.forwarded
         /\ Sees(Filled(p, n, rerr), p.dec, p.observed, p.lost, p.teed)
BY ZenonT(30) DEF Filled, PumpType, Sees

(* A pump that has written its chunk.                                      *)
LEMMA WrittenIs ==
  ASSUME NEW p \in PumpType, p.forwarded \o p.buf \in Octets
  PROVE  /\ Written(p) \in PumpType /\ Written(p).at = "read" /\ Written(p).buf = <<>>
         /\ Written(p).unread = p.unread /\ Written(p).forwarded = p.forwarded \o p.buf
         /\ Sees(Written(p), p.dec, p.observed, p.lost, p.teed)
<1>1. <<>> \in Octets
  BY DEF Octets
<1> QED
  BY <1>1, ZenonT(30) DEF Written, PumpType, Sees

(* A pump that returns.                                                    *)
Over(p) == [p EXCEPT !.at = "done"]

(* A pump that ends keeps all it has but its place.                        *)
LEMMA OverIs ==
  ASSUME NEW p \in PumpType
  PROVE  /\ Over(p) \in PumpType /\ Over(p).at = "done" /\ Over(p).forwarded = p.forwarded
         /\ Sees(Over(p), p.dec, p.observed, p.lost, p.teed)
BY DEF Over, PumpType, Sees

(* A pump whose write failed after a part.                                 *)
Broken(p, part) == [p EXCEPT !.forwarded = @ \o part]

(* A failed write changes nothing but what was forwarded.                  *)
LEMMA BrokenIs ==
  ASSUME NEW p \in PumpType, NEW part, p.forwarded \o part \in Octets
  PROVE  /\ Broken(p, part) \in PumpType /\ Broken(p, part).at = p.at
         /\ Broken(p, part).forwarded = p.forwarded \o part
         /\ Sees(Broken(p, part), p.dec, p.observed, p.lost, p.teed)
BY ZenonT(30) DEF Broken, PumpType, Sees

(* A pump that has shown its chunk.                                        *)
LEMMA ShownRawIs ==
  ASSUME NEW p \in PumpType, Append(p.observed, p.buf) \in Rows(Byte), p.teed + Len(p.buf) \in Nat
  PROVE  /\ ShownRaw(p) \in PumpType /\ ShownRaw(p).at = p.at /\ ShownRaw(p).buf = p.buf
         /\ ShownRaw(p).unread = p.unread /\ ShownRaw(p).forwarded = p.forwarded
         /\ Sees(ShownRaw(p), p.dec, Append(p.observed, p.buf), p.lost, p.teed + Len(p.buf))
BY ZenonT(30) DEF ShownRaw, PumpType, Sees

(* A pump that has pushed its chunk.                                       *)
LEMMA ShownIs ==
  ASSUME NEW p \in PumpType, NEW s, s = Push(p.dec, p.buf), s.dec \in Decoders,
         p.observed \o s.payloads \in Rows(Byte), p.teed + Len(p.buf) \in Nat
  PROVE  /\ Shown(p) \in PumpType /\ Shown(p).at = p.at /\ Shown(p).buf = p.buf
         /\ Shown(p).unread = p.unread /\ Shown(p).forwarded = p.forwarded
         /\ s.err # 0 => Sees(Shown(p), s.dec, p.observed, TRUE, p.teed + Len(p.buf))
         /\ s.err = 0 => Sees(Shown(p), s.dec, p.observed \o s.payloads, p.lost, p.teed + Len(p.buf))
<1> DEFINE d == s.dec
           o == p.observed \o s.payloads
           l == p.teed + Len(p.buf)
           e == s.err
           seen == [p EXCEPT !.teed = l, !.dec = d]
<1>1. Shown(p) = IF e # 0 THEN [seen EXCEPT !.lost = TRUE] ELSE [seen EXCEPT !.observed = o]
  BY DEF Shown, PumpType
<1> HIDE DEF d, o, l, e
<1>2. d \in Decoders /\ o \in Rows(Byte) /\ l \in Nat
  BY DEF d, o, l
<1>3. seen \in PumpType /\ seen.at = p.at /\ seen.buf = p.buf /\ seen.unread = p.unread
      /\ seen.forwarded = p.forwarded /\ Sees(seen, d, p.observed, p.lost, l)
  BY <1>2, ZenonT(30) DEF PumpType, Sees
<1> HIDE DEF seen
<1>4. CASE e # 0
  <2>1. Shown(p) = [seen EXCEPT !.lost = TRUE]
    BY <1>1, <1>4
  <2>2. [seen EXCEPT !.lost = TRUE] \in PumpType /\ [seen EXCEPT !.lost = TRUE].at = p.at
        /\ [seen EXCEPT !.lost = TRUE].buf = p.buf /\ [seen EXCEPT !.lost = TRUE].unread = p.unread
        /\ [seen EXCEPT !.lost = TRUE].forwarded = p.forwarded
        /\ Sees([seen EXCEPT !.lost = TRUE], d, p.observed, TRUE, l)
    BY <1>3, ZenonT(30) DEF PumpType, Sees
  <2> QED
    BY <1>4, <2>1, <2>2, ZenonT(30) DEF e, l, d
<1>5. CASE e = 0
  <2>1. Shown(p) = [seen EXCEPT !.observed = o]
    BY <1>1, <1>5
  <2>2. [seen EXCEPT !.observed = o] \in PumpType /\ [seen EXCEPT !.observed = o].at = p.at
        /\ [seen EXCEPT !.observed = o].buf = p.buf /\ [seen EXCEPT !.observed = o].unread = p.unread
        /\ [seen EXCEPT !.observed = o].forwarded = p.forwarded
        /\ Sees([seen EXCEPT !.observed = o], d, o, p.lost, l)
    BY <1>2, <1>3 DEF PumpType, Sees
  <2> QED
    BY <1>5, <2>1, <2>2, ZenonT(30) DEF e, l, d, o
<1> QED
  BY <1>4, <1>5, ZenonT(30)

(* What a pump has forwarded, holds in its buffer and has not read yet are *)
(* the parts of the stream up to w, up to r and behind; what it has looked *)
(* at ends where it has forwarded to, until it stops looking or returns.   *)
Forwards(p, Z, w, r) ==
  /\ r \in 0..Len(Z) /\ w \in 0..r /\ p.forwarded = Piece(Z, 0, w)
  /\ p.at # "done" => p.buf = Piece(Z, w, r) /\ p.unread = Piece(Z, r, Len(Z))
  /\ p.at = "read" => w = r
  /\ p.teed \in 0..w /\ (p.at # "done" /\ ~p.lost => p.teed = w)

(* What the observer was shown, by pumpRaw and by pump.                    *)
LooksRaw(Z, observed, lost, teed) == ~lost /\ FlattenSeq(observed) = Piece(Z, 0, teed)
LooksAt(ps, b, Z, d, observed, lost, teed, j, k) ==
  Decoded(ps, b, Z, d, j, k, teed) /\ observed = Piece(ps, 0, j) /\ (lost <=> Stuck(ps, b, teed, k))
Looks(ps, b, Z, rw, d, observed, lost, teed) ==
  IF rw THEN LooksRaw(Z, observed, lost, teed)
  ELSE \E j, k : LooksAt(ps, b, Z, d, observed, lost, teed, j, k)

(* The inductive invariant of a pump.                                      *)
PumpAt(p, ps, rw, b, Z, w, r) ==
  Stream(ps, b, Z) /\ Forwards(p, Z, w, r) /\ Looks(ps, b, Z, rw, p.dec, p.observed, p.lost, p.teed)
PumpInv(p, ps, rw) == p \in PumpType /\ \E b, Z, w, r : PumpAt(p, ps, rw, b, Z, w, r)

(* The bytes of some payloads, and where the first k of them end.          *)
LEMMA BytesAre ==
  ASSUME NEW ps, NEW b, NEW Z, Stream(ps, b, Z)
  PROVE  Bytes(ps) = Z /\ \A k \in 0..Len(ps) : Len(Bytes(SubSeq(ps, 1, k))) = b[k]
<1> DEFINE N == Len(ps)
           e == Encoded(ps)
<1>1. Z \in Seq(Byte) /\ Fills(e, b, Z) /\ Sendable(ps) /\ ps \in Rows(Byte)
      /\ \A i \in 1..N : Len(ps[i]) < Weight[LengthBytes]
  BY DEF Stream, Sendable
<1>2. e \in Rows(Byte) /\ Len(e) = N /\ N \in Nat /\ \A i \in 1..N : e[i] = EncodeFrame(ps[i])
  BY <1>1, EncodedIs, ZenonT(30)
<1>3. Bytes(ps) = Z
  BY <1>1, <1>2, FillsFlat, ZenonT(30) DEF Bytes, Encoded
<1> HIDE DEF e
<1>4. Lay(e, b, Z) /\ b[0] = 0
  BY <1>1, ZenonT(30) DEF Fills
<1>5. Len(Z) \in Nat /\ \A i \in 0..N : b[i] \in 0..Len(Z)
  BY StreamIs, ZenonT(30)
<1>6. ASSUME NEW k \in 0..N PROVE Len(Bytes(SubSeq(ps, 1, k))) = b[k]
  <2> DEFINE qs == Piece(ps, 0, k)
             up == Cut(b, 0, k)
             es == Piece(e, 0, k)
  <2>1. k \in Nat /\ 0 \in 0..k /\ k - 0 = k /\ 0 + 1 = 1 /\ k \in 0..k /\ 0 + 0 = 0 /\ 0 + k = k
        /\ \A i \in 1..k : i \in 1..N /\ 0 + i = i
    BY <1>2
  <2>2. qs \in Rows(Byte) /\ Len(qs) = k /\ \A i \in 1..k : qs[i] = ps[i]
    <3>1. qs \in Rows(Byte) /\ Len(qs) = k - 0 /\ \A i \in 1..(k - 0) : qs[i] = ps[0 + i]
      <4>1. ps \in Rows(Byte) /\ k \in 0..Len(ps) /\ 0 \in 0..k
        BY <1>1, <2>1
      <4> QED
        BY <4>1, RowPiece
    <3> HIDE DEF qs
    <3> QED
      BY <2>1, <3>1, ZenonT(30)
  <2>3. es \in Rows(Byte) /\ Len(es) = k /\ \A i \in 1..k : es[i] = e[i]
    <3>1. e \in Rows(Byte) /\ k \in 0..Len(e) /\ 0 \in 0..k
      BY <1>2, <2>1
    <3>2. es \in Rows(Byte) /\ Len(es) = k - 0 /\ \A i \in 1..(k - 0) : es[i] = e[0 + i]
      BY <3>1, RowPiece
    <3> HIDE DEF es
    <3> QED
      BY <2>1, <3>2, ZenonT(30)
  <2>4. Lay(es, up, Z) /\ up[0] = 0 /\ up[k] = b[k]
    <3>1. k \in 0..Len(e)
      BY <1>2
    <3>2. Lay(es, up, Z) /\ \A i \in 0..(k - 0) : up[i] = b[0 + i]
      BY <1>1, <1>2, <1>4, <2>1, <3>1, LayCut
    <3> HIDE DEF es, up
    <3> QED
      BY <1>4, <2>1, <3>2, ZenonT(30)
  <2> HIDE DEF qs, es, up
  <2>5. Sendable(qs)
    BY <1>1, <2>1, <2>2, ZenonT(30) DEF Sendable
  <2>6. Encoded(qs) \in Rows(Byte) /\ Len(Encoded(qs)) = k /\ \A i \in 1..k : Encoded(qs)[i] = EncodeFrame(qs[i])
    BY <2>2, <2>5, EncodedIs, ZenonT(30)
  <2>7. Encoded(qs) = es
    <3> DEFINE u == Encoded(qs)
               S == Seq(Byte)
    <3>1. \A i \in 1..k : u[i] = es[i]
      BY <1>2, <2>1, <2>2, <2>3, <2>6, ZenonT(30)
    <3>2. u \in Seq(S) /\ es \in Seq(S) /\ Len(u) = Len(es) /\ \A i \in 1..Len(u) : u[i] = es[i]
      BY <2>3, <2>6, <3>1, ZenonT(30) DEF Rows
    <3> HIDE DEF u, S
    <3>3. u = es
      BY <3>2, SeqEqual, ZenonT(30)
    <3> QED
      BY <3>3 DEF u
  <2>8. FlattenSeq(es) = Piece(Z, 0, b[k])
    BY <1>1, <2>3, <2>4, FlattenIs, ZenonT(30)
  <2>9. Bytes(qs) = FlattenSeq(Encoded(qs))
    BY ZenonT(30) DEF Bytes, Encoded
  <2>10. Len(Piece(Z, 0, b[k])) = b[k]
    <3> DEFINE x == b[k]
    <3>1. x \in 0..Len(Z)
      BY <1>5, ZenonT(30)
    <3> HIDE DEF x
    <3>2. Len(Piece(Z, 0, x)) = x
      BY <1>1, <3>1, PieceIsPrefix, ZenonT(30)
    <3> QED
      BY <3>2 DEF x
  <2>11. SubSeq(ps, 1, k) = qs
    BY <2>1, ZenonT(30) DEF qs, Piece
  <2> QED
    BY <2>7, <2>8, <2>9, <2>10, <2>11, ZenonT(30)
<1> QED
  BY <1>3, <1>6, ZenonT(30)

(* Payloads that can be sent fill their bytes.                             *)
LEMMA BytesFill ==
  ASSUME NEW ps, Sendable(ps)
  PROVE  \E b : Stream(ps, b, Bytes(ps))
<1>1. Encoded(ps) \in Rows(Byte)
  BY EncodedIs, ZenonT(30)
<1>2. FlattenSeq(Encoded(ps)) \in Seq(Byte) /\ \E b : Fills(Encoded(ps), b, FlattenSeq(Encoded(ps)))
  BY <1>1, FillsSome, ZenonT(30)
<1>3. Bytes(ps) = FlattenSeq(Encoded(ps))
  BY ZenonT(30) DEF Bytes, Encoded
<1> QED
  BY <1>2, <1>3, ZenonT(30) DEF Stream

(* A pump that starts.                                                     *)
LEMMA PumpStarts ==
  ASSUME NEW ps, Sendable(ps), NEW rw \in BOOLEAN
  PROVE  PumpInv(Started(ps), ps, rw)
<1> DEFINE p == Started(ps)
           Z == Bytes(ps)
<1>1. PICK b : Stream(ps, b, Z)
  BY BytesFill, ZenonT(30)
<1>2. Z \in Seq(Byte) /\ Len(Z) \in Nat
  <2>1. Z \in Seq(Byte)
    BY <1>1, ZenonT(30) DEF Stream
  <2> QED
    BY <1>1, <2>1, StreamIs, ZenonT(30)
<1> HIDE DEF Z
<1>3. p.at = "read" /\ p.unread = Z /\ p.buf = <<>> /\ p.forwarded = <<>> /\ p.dec = NewFrameDecoder
      /\ p.observed = <<>> /\ p.lost = FALSE /\ p.teed = 0
  BY DEF Started, Z
<1>4. p \in PumpType
  <2>1. <<>> \in Octets /\ Z \in Octets /\ <<>> \in Rows(Byte)
    BY <1>2, FillsNone, ZenonT(30) DEF Octets
  <2>2. NewFrameDecoder \in Decoders
    BY FillsNone DEF NewFrameDecoder, Decoders
  <2> QED
    BY <2>1, <2>2 DEF Started, PumpType, Z
<1> HIDE DEF p
<1>5. Piece(Z, 0, 0) = <<>> /\ Piece(Z, 0, Len(Z)) = Z
  <2>1. Piece(Z, 0, 0) = <<>>
    BY PieceEmpty
  <2> QED
    BY <1>2, <2>1, PieceWhole, ZenonT(30)
<1>6. Forwards(p, Z, 0, 0)
  <2>1. 0 \in 0..Len(Z) /\ 0 \in 0..0
    BY <1>2
  <2> QED
    BY <1>3, <1>5, <2>1, ZenonT(30) DEF Forwards
<1>7. Looks(ps, b, Z, rw, p.dec, p.observed, p.lost, p.teed)
  <2>1. CASE rw
    <3>1. FlattenSeq(<<>>) = <<>>
      BY FillsNone, FillsFlat, ZenonT(30)
    <3> QED
      BY <1>3, <1>5, <2>1, <3>1, ZenonT(30) DEF Looks, LooksRaw
  <2>2. CASE ~rw
    <3>1. Decoded(ps, b, Z, NewFrameDecoder, 0, 0, 0)
      BY <1>1, DecodedStart, ZenonT(30)
    <3>2. ~Stuck(ps, b, 0, 0)
      <4>1. b[0] = 0
        BY <1>1, StreamIs, ZenonT(30)
      <4>2. ~(0 + LengthBytes <= 0)
        BY FrameAssumption
      <4> QED
        BY <4>1, <4>2, ZenonT(30) DEF Stuck
    <3>3. Piece(ps, 0, 0) = <<>>
      BY PieceEmpty
    <3>4. LooksAt(ps, b, Z, p.dec, p.observed, p.lost, p.teed, 0, 0)
      BY <1>3, <3>1, <3>2, <3>3, ZenonT(30) DEF LooksAt
    <3> QED
      BY <2>2, <3>4, ZenonT(30) DEF Looks
  <2> QED
    BY <2>1, <2>2
<1>8. PumpAt(p, ps, rw, b, Z, 0, 0)
  BY <1>1, <1>6, <1>7, ZenonT(30) DEF PumpAt
<1> QED
  BY <1>4, <1>8, ZenonT(30) DEF PumpInv, p

(* A pump that reads.                                                      *)
LEMMA PumpFills ==
  ASSUME NEW p, NEW ps, NEW rw, PumpInv(p, ps, rw), p.at = "read", NEW n \in 1..Len(p.unread), NEW rerr \in BOOLEAN
  PROVE  PumpInv(Filled(p, n, rerr), ps, rw)
<1>1. p \in PumpType
  BY ZenonT(30) DEF PumpInv
<1>2. PICK b, Z, w, r : PumpAt(p, ps, rw, b, Z, w, r)
  BY ZenonT(30) DEF PumpInv
<1>3. Stream(ps, b, Z) /\ Forwards(p, Z, w, r) /\ Looks(ps, b, Z, rw, p.dec, p.observed, p.lost, p.teed)
  BY <1>2, ZenonT(30) DEF PumpAt
<1>4. r \in 0..Len(Z) /\ w = r /\ p.forwarded = Piece(Z, 0, w) /\ p.unread = Piece(Z, r, Len(Z))
      /\ p.teed \in 0..w /\ (~p.lost => p.teed = w)
  <2>1. "read" # "done"
    OBVIOUS
  <2> QED
    BY <1>3, <2>1, ZenonT(30) DEF Forwards
<1>5. Z \in Seq(Byte) /\ Len(Z) \in Nat
  BY <1>3, StreamIs, ZenonT(30) DEF Stream
<1> DEFINE u == p.unread
           up == r + n
           q == Filled(p, n, rerr)
<1>6. up \in 0..Len(Z) /\ w \in 0..up /\ SubSeq(u, 1, n) = Piece(Z, w, up)
      /\ SubSeq(u, n + 1, Len(u)) = Piece(Z, up, Len(Z))
  <2>1. u = Piece(Z, r, Len(Z)) /\ n \in 0..Len(u)
    <3>1. u \in Seq(Byte)
      BY <1>1, ZenonT(30) DEF PumpType, Octets
    <3> QED
      BY <1>4, <3>1, LenProperties
  <2> HIDE DEF u
  <2>2. r + n \in 0..Len(Z) /\ r <= r + n
        /\ SubSeq(u, 1, n) = Piece(Z, r, r + n) /\ SubSeq(u, n + 1, Len(u)) = Piece(Z, r + n, Len(Z))
    BY <1>4, <1>5, <2>1, PieceSplit
  <2> HIDE DEF up
  <2>3. up \in 0..Len(Z) /\ r <= up /\ SubSeq(u, 1, n) = Piece(Z, w, up) /\ SubSeq(u, n + 1, Len(u)) = Piece(Z, up, Len(Z))
    BY <1>4, <2>2, ZenonT(30) DEF up
  <2>4. w \in 0..up
    BY <1>4, <1>5, <2>3
  <2> QED
    BY <2>3, <2>4, ZenonT(30)
<1> HIDE DEF up
<1>7. SubSeq(u, 1, n) \in Octets /\ SubSeq(u, n + 1, Len(u)) \in Octets
  <2>1. Len(Z) \in 0..Len(Z)
    BY <1>5
  <2>2. Piece(Z, w, up) \in Seq(Byte)
    BY <1>5, <1>6, PieceFacts, ZenonT(30)
  <2>3. Piece(Z, up, Len(Z)) \in Seq(Byte)
    BY <1>5, <1>6, <2>1, PieceFacts, ZenonT(30)
  <2> QED
    BY <1>6, <2>2, <2>3, ZenonT(30) DEF Octets
<1>8. /\ q \in PumpType /\ q.at = "write" /\ q.buf = Piece(Z, w, up)
      /\ q.unread = Piece(Z, up, Len(Z)) /\ q.forwarded = p.forwarded
      /\ Sees(q, p.dec, p.observed, p.lost, p.teed)
  BY <1>1, <1>6, <1>7, FilledIs, ZenonT(30)
<1> HIDE DEF q, u
<1>9. q.dec = p.dec /\ q.observed = p.observed /\ q.lost = p.lost /\ q.teed = p.teed
  BY <1>8, ZenonT(30) DEF Sees
<1>10. Forwards(q, Z, w, up)
  <2>1. "write" # "read"
    OBVIOUS
  <2> QED
    BY <1>4, <1>6, <1>8, <1>9, <2>1, ZenonT(30) DEF Forwards
<1>11. PumpAt(q, ps, rw, b, Z, w, up)
  BY <1>3, <1>9, <1>10, ZenonT(30) DEF PumpAt
<1> QED
  BY <1>8, <1>11, ZenonT(30) DEF PumpInv, q

(* A pump that returns.                                                    *)
LEMMA PumpEnds ==
  ASSUME NEW p, NEW ps, NEW rw, PumpInv(p, ps, rw)
  PROVE  PumpInv(Over(p), ps, rw)
<1> DEFINE q == Over(p)
<1>1. p \in PumpType
  BY ZenonT(30) DEF PumpInv
<1>2. PICK b, Z, w, r : PumpAt(p, ps, rw, b, Z, w, r)
  BY ZenonT(30) DEF PumpInv
<1>3. Stream(ps, b, Z) /\ Forwards(p, Z, w, r) /\ Looks(ps, b, Z, rw, p.dec, p.observed, p.lost, p.teed)
  BY <1>2, ZenonT(30) DEF PumpAt
<1>4. q \in PumpType /\ q.at = "done" /\ q.forwarded = p.forwarded /\ Sees(q, p.dec, p.observed, p.lost, p.teed)
  BY <1>1, OverIs, ZenonT(30)
<1> HIDE DEF q
<1>5. q.dec = p.dec /\ q.observed = p.observed /\ q.lost = p.lost /\ q.teed = p.teed
  BY <1>4, ZenonT(30) DEF Sees
<1>6. Forwards(q, Z, w, r)
  <2>1. "done" # "read"
    OBVIOUS
  <2> QED
    BY <1>3, <1>4, <1>5, <2>1, ZenonT(30) DEF Forwards
<1>7. PumpAt(q, ps, rw, b, Z, w, r)
  BY <1>3, <1>5, <1>6, ZenonT(30) DEF PumpAt
<1> QED
  BY <1>4, <1>7, ZenonT(30) DEF PumpInv, q

(* A pump whose write fails after l bytes, and that returns.               *)
LEMMA PumpBreaks ==
  ASSUME NEW p, NEW ps, NEW rw, PumpInv(p, ps, rw), p.at = "write", NEW l \in 0..Len(p.buf)
  PROVE  PumpInv(Over(Broken(p, SubSeq(p.buf, 1, l))), ps, rw)
<1> DEFINE part == SubSeq(p.buf, 1, l)
           m == Broken(p, part)
           q == Over(m)
<1>1. p \in PumpType
  BY ZenonT(30) DEF PumpInv
<1>2. PICK b, Z, w, r : PumpAt(p, ps, rw, b, Z, w, r)
  BY ZenonT(30) DEF PumpInv
<1>3. Stream(ps, b, Z) /\ Forwards(p, Z, w, r) /\ Looks(ps, b, Z, rw, p.dec, p.observed, p.lost, p.teed)
  BY <1>2, ZenonT(30) DEF PumpAt
<1>4. r \in 0..Len(Z) /\ w \in 0..r /\ p.forwarded = Piece(Z, 0, w) /\ p.buf = Piece(Z, w, r)
      /\ p.teed \in 0..w
  <2>1. "write" # "done"
    OBVIOUS
  <2> QED
    BY <1>3, <2>1, ZenonT(30) DEF Forwards
<1>5. Z \in Seq(Byte) /\ Len(Z) \in Nat
  BY <1>3, StreamIs, ZenonT(30) DEF Stream
<1> DEFINE up == w + l
<1>6. up \in 0..r /\ part = Piece(Z, w, up) /\ w \in 0..up /\ 0 \in 0..w
  <2>1. Len(Piece(Z, w, r)) = r - w
    BY <1>4, <1>5, PieceFacts, ZenonT(30)
  <2>2. l \in 0..(r - w) /\ 0 \in 0..l /\ w + 0 = w /\ 0 + 1 = 1
    BY <1>4, <1>5, <2>1
  <2>3. Piece(Piece(Z, w, r), 0, l) = Piece(Z, w + 0, w + l)
    BY <1>4, <1>5, <2>2, PieceOfPiece, ZenonT(30)
  <2>4. part = Piece(Z, w, up)
    BY <1>4, <2>2, <2>3, ZenonT(30) DEF Piece
  <2>5. up \in 0..r /\ w \in 0..up /\ 0 \in 0..w
    BY <1>4, <1>5, <2>2
  <2> QED
    BY <2>4, <2>5, ZenonT(30)
<1> HIDE DEF up, part
<1>7. p.forwarded \o part = Piece(Z, 0, up) /\ Piece(Z, 0, up) \in Octets
  <2>1. up \in 0..Len(Z) /\ 0 \in 0..up
    BY <1>4, <1>5, <1>6
  <2> QED
    BY <1>4, <1>5, <1>6, <2>1, PieceJoin, PieceFacts, ZenonT(30) DEF Octets
<1>8. m \in PumpType /\ m.forwarded = Piece(Z, 0, up) /\ Sees(m, p.dec, p.observed, p.lost, p.teed)
  BY <1>1, <1>7, BrokenIs, ZenonT(30)
<1> HIDE DEF m
<1>9. q \in PumpType /\ q.at = "done" /\ q.forwarded = Piece(Z, 0, up) /\ Sees(q, m.dec, m.observed, m.lost, m.teed)
  BY <1>8, OverIs, ZenonT(30)
<1> HIDE DEF q
<1>10. q.dec = p.dec /\ q.observed = p.observed /\ q.lost = p.lost /\ q.teed = p.teed
  BY <1>8, <1>9, ZenonT(30) DEF Sees
<1>11. Forwards(q, Z, up, r)
  <2>1. "done" # "read"
    OBVIOUS
  <2>2. p.teed \in 0..up
    BY <1>4, <1>5, <1>6
  <2> QED
    BY <1>4, <1>6, <1>9, <1>10, <2>1, <2>2, ZenonT(30) DEF Forwards
<1>12. PumpAt(q, ps, rw, b, Z, up, r)
  BY <1>3, <1>10, <1>11, ZenonT(30) DEF PumpAt
<1> QED
  BY <1>9, <1>12, ZenonT(30) DEF PumpInv, q, m, part

(* A pump that has looked at its chunk, and writes: q is the pump before   *)
(* Written.                                                                *)
LEMMA PumpForwards ==
  ASSUME NEW q \in PumpType, NEW ps, NEW rw, NEW b, NEW Z, Stream(ps, b, Z), NEW r \in 0..Len(Z), NEW w \in 0..r,
         q.forwarded = Piece(Z, 0, w), q.buf = Piece(Z, w, r), q.unread = Piece(Z, r, Len(Z)),
         q.teed \in 0..r, ~q.lost => q.teed = r, Looks(ps, b, Z, rw, q.dec, q.observed, q.lost, q.teed)
  PROVE  PumpInv(Written(q), ps, rw)
<1> DEFINE v == Written(q)
<1>1. Z \in Seq(Byte) /\ Len(Z) \in Nat
  BY StreamIs, ZenonT(30) DEF Stream
<1>2. 0 \in 0..w /\ 0 \in 0..r /\ r \in 0..r
  BY <1>1
<1>3. q.forwarded \o q.buf = Piece(Z, 0, r) /\ Piece(Z, 0, r) \in Octets
  BY <1>1, <1>2, PieceJoin, PieceFacts, ZenonT(30) DEF Octets
<1>4. v \in PumpType /\ v.at = "read" /\ v.buf = <<>> /\ v.unread = q.unread /\ v.forwarded = Piece(Z, 0, r)
      /\ Sees(v, q.dec, q.observed, q.lost, q.teed)
  BY <1>3, WrittenIs, ZenonT(30)
<1> HIDE DEF v
<1>5. v.dec = q.dec /\ v.observed = q.observed /\ v.lost = q.lost /\ v.teed = q.teed
  BY <1>4, ZenonT(30) DEF Sees
<1>6. Piece(Z, r, r) = <<>>
  BY PieceEmpty
<1>7. Forwards(v, Z, r, r)
  BY <1>2, <1>4, <1>5, <1>6, ZenonT(30) DEF Forwards
<1>8. PumpAt(v, ps, rw, b, Z, r, r)
  BY <1>5, <1>7, ZenonT(30) DEF PumpAt
<1> QED
  BY <1>4, <1>8, ZenonT(30) DEF PumpInv, v

(* A pump that writes and looks.                                           *)
LEMMA PumpShows ==
  ASSUME NEW p, NEW ps, NEW rw \in BOOLEAN, PumpInv(p, ps, rw), p.at = "write"
  PROVE  PumpInv(Written(IF rw THEN ShownRaw(p) ELSE IF p.lost THEN Unseen(p) ELSE Shown(p)), ps, rw)
<1> DEFINE q == IF rw THEN ShownRaw(p) ELSE IF p.lost THEN Unseen(p) ELSE Shown(p)
           c == p.buf
           o == p.observed
           e == p.teed
<1>1. p \in PumpType
  BY ZenonT(30) DEF PumpInv
<1>2. PICK b, Z, w, r : PumpAt(p, ps, rw, b, Z, w, r)
  BY ZenonT(30) DEF PumpInv
<1>3. Stream(ps, b, Z) /\ Forwards(p, Z, w, r) /\ Looks(ps, b, Z, rw, p.dec, o, p.lost, e)
  BY <1>2, ZenonT(30) DEF PumpAt
<1>4. r \in 0..Len(Z) /\ w \in 0..r /\ p.forwarded = Piece(Z, 0, w) /\ c = Piece(Z, w, r) /\ p.unread = Piece(Z, r, Len(Z))
      /\ e \in 0..w /\ (~p.lost => e = w)
  <2>1. "write" # "done"
    OBVIOUS
  <2> QED
    BY <1>3, <2>1, ZenonT(30) DEF Forwards
<1>5. Z \in Seq(Byte) /\ Len(Z) \in Nat
  BY <1>3, StreamIs, ZenonT(30) DEF Stream
<1>6. o \in Rows(Byte) /\ c \in Seq(Byte) /\ e \in Nat /\ p.lost \in BOOLEAN
  <2>1. o \in Rows(Byte) /\ c \in Octets /\ e \in Nat /\ p.lost \in BOOLEAN
    BY <1>1 DEF PumpType
  <2> QED
    BY <2>1, ZenonT(30) DEF Octets
<1>7. ASSUME ~p.lost PROVE e = w /\ e + Len(c) = r /\ e + Len(c) \in Nat /\ r \in 0..r
  <2>1. e = w
    BY <1>4, <1>7
  <2>2. Len(Piece(Z, w, r)) = r - w
    BY <1>4, <1>5, PieceFacts, ZenonT(30)
  <2>3. Len(c) = r - w
    BY <1>4, <2>2, ZenonT(30)
  <2> HIDE DEF c, e
  <2>4. e + Len(c) = r /\ r \in Nat /\ r \in 0..r
    BY <1>4, <1>5, <2>1, <2>3
  <2> QED
    BY <2>1, <2>4, ZenonT(30)
<1>8. CASE rw
  <2>1. ~p.lost /\ FlattenSeq(o) = Piece(Z, 0, e) /\ q = ShownRaw(p)
    BY <1>3, <1>8, ZenonT(30) DEF Looks, LooksRaw
  <2>2. e = w /\ e + Len(c) = r /\ e + Len(c) \in Nat /\ r \in 0..r
    BY <1>7, <2>1, ZenonT(30)
  <2> DEFINE os == Append(o, c)
  <2>3. os \in Rows(Byte)
    <3> HIDE DEF o, c
    <3> QED
      BY <1>6, RowAppend
  <2>4. FlattenSeq(os) = Piece(Z, 0, r)
    <3> HIDE DEF o, c, e
    <3> DEFINE f == FlattenSeq(o)
    <3>1. f \in Seq(Byte) /\ \E base : Fills(o, base, f)
      BY <1>6, FillsSome, ZenonT(30)
    <3> HIDE DEF f
    <3>2. PICK base : Fills(o, base, f)
      BY <3>1, ZenonT(30)
    <3> DEFINE y == f \o c
               up == Longer(base, Len(o), Len(y))
    <3>3. Fills(os, up, y)
      BY <1>6, <3>1, <3>2, FillsAppend
    <3>4. y \in Seq(Byte)
      BY <1>6, <3>1, PieceOfLonger, ZenonT(30)
    <3> HIDE DEF y, os, up
    <3>5. FlattenSeq(os) = y
      BY <2>3, <3>3, <3>4, FillsFlat, ZenonT(30)
    <3>6. 0 \in 0..w
      BY <1>4, <1>5
    <3>7. Piece(Z, 0, w) \o Piece(Z, w, r) = Piece(Z, 0, r)
      BY <1>4, <1>5, <3>6, PieceJoin, ZenonT(30)
    <3> QED
      BY <1>4, <2>1, <2>2, <3>5, <3>7, ZenonT(30) DEF y, f
  <2>5. /\ q \in PumpType /\ q.buf = c /\ q.unread = p.unread /\ q.forwarded = p.forwarded
        /\ Sees(q, p.dec, os, p.lost, e + Len(c))
    BY <1>1, <2>1, <2>2, <2>3, ShownRawIs, ZenonT(30)
  <2> HIDE DEF q, os, o, c, e
  <2>6. q.dec = p.dec /\ q.observed = os /\ q.lost = p.lost /\ q.teed = r
    BY <2>2, <2>5, ZenonT(30) DEF Sees
  <2>7. Looks(ps, b, Z, rw, q.dec, q.observed, q.lost, q.teed)
    BY <1>8, <2>1, <2>4, <2>6, ZenonT(30) DEF Looks, LooksRaw
  <2>8. q.forwarded = Piece(Z, 0, w) /\ q.buf = Piece(Z, w, r) /\ q.unread = Piece(Z, r, Len(Z)) /\ q.teed \in 0..r
    BY <1>4, <2>2, <2>5, <2>6, ZenonT(30)
  <2>9. PumpInv(Written(q), ps, rw)
    BY <1>3, <1>4, <2>5, <2>6, <2>7, <2>8, PumpForwards, ZenonT(30)
  <2> QED
    BY <2>9, ZenonT(30) DEF q
<1>9. CASE ~rw /\ p.lost
  <2>1. q = p
    BY <1>9, ZenonT(30) DEF Unseen
  <2>2. e \in 0..r
    BY <1>4, <1>5
  <2> HIDE DEF q
  <2>3. PumpInv(Written(p), ps, rw)
    BY <1>1, <1>3, <1>4, <1>9, <2>2, PumpForwards, ZenonT(30)
  <2> QED
    BY <2>1, <2>3, ZenonT(30) DEF q
<1>10. CASE ~rw /\ ~p.lost
  <2> DEFINE s == Push(p.dec, c)
  <2>1. q = Shown(p)
    BY <1>10, ZenonT(30)
  <2>2. e = w /\ e + Len(c) = r /\ e + Len(c) \in Nat /\ r \in 0..r
    BY <1>7, <1>10, ZenonT(30)
  <2>3. PICK j, k : LooksAt(ps, b, Z, p.dec, o, p.lost, e, j, k)
    BY <1>3, <1>10, ZenonT(30) DEF Looks
  <2>4. Decoded(ps, b, Z, p.dec, j, k, w) /\ o = Piece(ps, 0, j) /\ ~Stuck(ps, b, w, k)
    BY <1>10, <2>2, <2>3, ZenonT(30) DEF LooksAt
  <2>5. w <= r
    BY <1>4, <1>5
  <2>6. s \in DrainState /\ \E m \in k..Len(ps) : Returned(ps, b, Z, j, k, m, r, s)
    <3>1. /\ Push(p.dec, Piece(Z, w, r)) \in DrainState
          /\ \E m \in k..Len(ps) : Returned(ps, b, Z, j, k, m, r, Push(p.dec, Piece(Z, w, r)))
      BY <1>4, <2>4, <2>5, DecodedPush, ZenonT(30)
    <3> QED
      BY <1>4, <3>1, ZenonT(30)
  <2>7. PICK m \in k..Len(ps) : Returned(ps, b, Z, j, k, m, r, s)
    BY <2>6, ZenonT(30)
  <2>8. s.dec \in Decoders /\ s.payloads \in Rows(Byte) /\ s.err \in {0, TooLarge} /\ TooLarge # 0
    BY <2>6 DEF DrainState, TooLarge
  <2>9. o \o s.payloads \in Rows(Byte)
    BY <1>6, <2>8 DEF Rows
  <2>10. /\ q \in PumpType /\ q.buf = c /\ q.unread = p.unread /\ q.forwarded = p.forwarded
         /\ s.err # 0 => Sees(q, s.dec, o, TRUE, e + Len(c))
         /\ s.err = 0 => Sees(q, s.dec, o \o s.payloads, p.lost, e + Len(c))
    BY <1>1, <2>1, <2>2, <2>8, <2>9, ShownIs, ZenonT(30)
  <2> HIDE DEF q, s, c, e, o
  <2>11. q.teed = r
    BY <2>2, <2>10, ZenonT(30) DEF Sees
  <2>12. q.forwarded = Piece(Z, 0, w) /\ q.buf = Piece(Z, w, r) /\ q.unread = Piece(Z, r, Len(Z)) /\ q.teed \in 0..r
    BY <1>4, <2>2, <2>10, <2>11, ZenonT(30)
  <2>13. \E i, l : LooksAt(ps, b, Z, q.dec, q.observed, q.lost, r, i, l)
    <3>1. CASE s.err = 0
      <4>1. j = k /\ s.payloads = Piece(ps, j, m) /\ Waits(ps, b, r, m) /\ Decoded(ps, b, Z, s.dec, m, m, r)
        BY <2>7, <2>8, <3>1, ZenonT(30) DEF Returned
      <4>2. q.dec = s.dec /\ q.observed = o \o s.payloads /\ q.lost = p.lost
        BY <2>10, <3>1, ZenonT(30) DEF Sees
      <4>3. k \in 0..Len(ps) /\ j \in 0..k /\ ps \in Seq(Seq(Byte)) /\ Len(ps) \in Nat
        BY <1>3, <2>4, StreamIs, ZenonT(30) DEF Decoded, Stream, Sendable, Rows
      <4>4. m \in 0..Len(ps) /\ j \in 0..m /\ 0 \in 0..j
        BY <4>1, <4>3
      <4>5. Piece(ps, 0, j) \o Piece(ps, j, m) = Piece(ps, 0, m)
        BY <4>3, <4>4, PieceJoin
      <4>6. ~Stuck(ps, b, r, m)
        <5> DEFINE x == b[m] + LengthBytes
        <5>1. x \in Nat
          <6>1. b[m] \in 0..Len(Z)
            BY <1>3, <4>4, StreamIs, ZenonT(30)
          <6> QED
            BY <1>5, <6>1, FrameAssumption
        <5> SUFFICES ASSUME Stuck(ps, b, r, m) PROVE FALSE
          OBVIOUS
        <5>2. x <= r /\ r < x
          BY <4>1, ZenonT(30) DEF Stuck, Waits
        <5> HIDE DEF x
        <5> QED
          BY <1>4, <1>5, <5>1, <5>2
      <4>7. LooksAt(ps, b, Z, q.dec, q.observed, q.lost, r, m, m)
        BY <1>10, <2>4, <4>1, <4>2, <4>5, <4>6, ZenonT(30) DEF LooksAt
      <4> QED
        BY <4>7, ZenonT(30)
    <3>2. CASE s.err # 0
      <4>1. Stuck(ps, b, r, m) /\ Decoded(ps, b, Z, s.dec, j, m, r)
        BY <2>7, <3>2, ZenonT(30) DEF Returned
      <4>2. q.dec = s.dec /\ q.observed = o /\ q.lost = TRUE
        BY <2>10, <3>2, ZenonT(30) DEF Sees
      <4>3. LooksAt(ps, b, Z, q.dec, q.observed, q.lost, r, j, m)
        BY <2>4, <4>1, <4>2, ZenonT(30) DEF LooksAt
      <4> QED
        BY <4>3, ZenonT(30)
    <3> QED
      BY <3>1, <3>2
  <2>14. Looks(ps, b, Z, rw, q.dec, q.observed, q.lost, q.teed)
    BY <1>10, <2>11, <2>13, ZenonT(30) DEF Looks
  <2>15. PumpInv(Written(q), ps, rw)
    BY <1>3, <1>4, <2>10, <2>11, <2>12, <2>14, PumpForwards, ZenonT(30)
  <2> QED
    BY <2>15, ZenonT(30) DEF q
<1> QED
  BY <1>6, <1>8, <1>9, <1>10, ZenonT(30)

(* The records of a stream end one behind the other.                       *)
LEMMA StreamOrder ==
  ASSUME NEW ps, NEW b, NEW Z, Stream(ps, b, Z), NEW k \in 0..Len(ps), NEW j \in 0..k
  PROVE  b[j] \in Nat /\ b[k] \in Nat /\ b[j] <= b[k]
<1> DEFINE e == Encoded(ps)
           es == Piece(e, j, k)
           up == Cut(b, j, k)
<1>1. e \in Rows(Byte) /\ Len(e) = Len(ps) /\ Len(ps) \in Nat /\ Z \in Seq(Byte) /\ Lay(e, b, Z)
  BY EncodedIs, ZenonT(30) DEF Stream, Fills
<1> HIDE DEF e
<1>2. k \in 0..Len(e) /\ 0 \in 0..(k - j) /\ k - j \in 0..(k - j) /\ j + 0 = j /\ j + (k - j) = k
  BY <1>1
<1>3. Lay(es, up, Z) /\ \A i \in 0..(k - j) : up[i] = b[j + i]
  <2>1. e \in Rows(Byte) /\ Z \in Seq(Byte) /\ Lay(e, b, Z) /\ k \in 0..Len(e) /\ j \in 0..k
    BY <1>1, <1>2
  <2> QED
    BY <2>1, LayCut
<1>4. es \in Rows(Byte) /\ Len(es) = k - j
  BY <1>1, <1>2, RowPiece, ZenonT(30)
<1> HIDE DEF es, up
<1>5. up[0] \in Nat /\ up[Len(es)] \in Nat /\ \A i \in 0..Len(es) : up[0] <= up[i]
  BY <1>1, <1>3, <1>4, LayOrder, ZenonT(30)
<1>6. up[0] = b[j] /\ up[k - j] = b[k]
  BY <1>2, <1>3, ZenonT(30)
<1> QED
  BY <1>2, <1>4, <1>5, <1>6, ZenonT(30)

(* The bytes that a pump has looked at hold a length over the limit        *)
(* exactly when its decoder refuses it.                                    *)
LEMMA StuckIsOverlong ==
  ASSUME NEW ps, NEW b, NEW Z, NEW d, NEW j, NEW k, NEW to, Decoded(ps, b, Z, d, j, k, to)
  PROVE  Stuck(ps, b, to, k) <=> \E i \in 1..Len(ps) : ~Fits(ps[i]) /\ b[i - 1] + LengthBytes <= to
<1> DEFINE N == Len(ps)
<1>1. Stream(ps, b, Z) /\ k \in 0..N /\ j \in 0..k /\ Small(ps, 0, k)
      /\ (Stuck(ps, b, to, k) \/ (j = k /\ Waits(ps, b, to, k))) /\ to \in 0..Len(Z)
  BY ZenonT(30) DEF Decoded
<1>2. N \in Nat /\ Len(Z) \in Nat /\ (\A n \in 0..N : b[n] \in 0..Len(Z)) /\ LengthBytes \in Nat
  <2>1. N \in Nat /\ Len(Z) \in Nat /\ (\A n \in 0..N : b[n] \in 0..Len(Z))
    BY <1>1, StreamIs, ZenonT(30)
  <2> QED
    BY <2>1, FrameAssumption, ZenonT(30)
<1>3. ASSUME Stuck(ps, b, to, k) PROVE \E i \in 1..N : ~Fits(ps[i]) /\ b[i - 1] + LengthBytes <= to
  <2>1. k < N /\ ~Fits(ps[k + 1]) /\ b[k] + LengthBytes <= to
    BY <1>3, ZenonT(30) DEF Stuck
  <2>2. k + 1 \in 1..N /\ (k + 1) - 1 = k
    BY <1>1, <1>2, <2>1
  <2> QED
    BY <2>1, <2>2, ZenonT(30)
<1>4. ASSUME NEW i \in 1..N, ~Fits(ps[i]), b[i - 1] + LengthBytes <= to, Waits(ps, b, to, k) PROVE FALSE
  <2>1. ~(i \in (0 + 1)..k)
    BY <1>1, <1>4, ZenonT(30) DEF Small
  <2>2. i \in (k + 1)..N /\ k < N /\ k + 1 \in 0..N
    BY <1>1, <1>2, <2>1
  <2>3. to < b[k + 1] /\ (~Fits(ps[k + 1]) => to < b[k] + LengthBytes)
    BY <1>4, <2>2, ZenonT(30) DEF Waits
  <2>4. CASE i = k + 1
    <3>1. i - 1 = k
      BY <1>1, <1>2, <2>4
    <3> DEFINE x == b[k] + LengthBytes
    <3>2. x <= to /\ to < x
      BY <1>4, <2>3, <2>4, <3>1, ZenonT(30)
    <3>3. b[k] \in 0..Len(Z)
      BY <1>1, <1>2, ZenonT(30)
    <3>4. x \in Nat
      BY <1>2, <3>3
    <3> HIDE DEF x
    <3> QED
      BY <1>1, <1>2, <3>2, <3>4
  <2>5. CASE i # k + 1
    <3> DEFINE m == i - 1
               y == b[k + 1]
               x == b[m]
    <3>1. m \in 0..N /\ k + 1 \in 0..m
      BY <1>1, <1>2, <2>2, <2>5
    <3> HIDE DEF m
    <3>2. y \in Nat /\ x \in Nat /\ y <= x
      BY <1>1, <3>1, StreamOrder
    <3>3. x + LengthBytes <= to /\ to < y
      BY <1>4, <2>3, ZenonT(30) DEF m
    <3> HIDE DEF x, y
    <3> QED
      BY <1>1, <1>2, <3>2, <3>3
  <2> QED
    BY <2>4, <2>5
<1> QED
  BY <1>1, <1>3, <1>4, ZenonT(30)

(* What the invariant says of a pump that shows frames.                    *)
ShowsFrames(ps, b, observed, lost, to, j) ==
  /\ IsPrefix(observed, ps) /\ Len(observed) = j /\ j \in 0..Len(ps) /\ b[j] <= to
  /\ \A i \in 1..j : Fits(ps[i])
  /\ lost <=> \E i \in 1..Len(ps) : ~Fits(ps[i]) /\ b[i - 1] + LengthBytes <= to
  /\ ~lost /\ j < Len(ps) => to < b[j + 1]

(* A pump that shows frames has shown those that are complete.             *)
LEMMA FramesShown ==
  ASSUME NEW ps, NEW b, NEW Z, NEW d, NEW observed, NEW lost \in BOOLEAN, NEW to, NEW j, NEW k,
         LooksAt(ps, b, Z, d, observed, lost, to, j, k)
  PROVE  ShowsFrames(ps, b, observed, lost, to, j)
<1> DEFINE N == Len(ps)
<1>1. Decoded(ps, b, Z, d, j, k, to) /\ observed = Piece(ps, 0, j) /\ (lost <=> Stuck(ps, b, to, k))
  BY ZenonT(30) DEF LooksAt
<1>2. Stream(ps, b, Z) /\ k \in 0..N /\ j \in 0..k /\ Small(ps, 0, k) /\ Holds(d, Z, b[k], to)
      /\ (Stuck(ps, b, to, k) \/ (j = k /\ Waits(ps, b, to, k))) /\ to \in 0..Len(Z)
  BY <1>1, ZenonT(30) DEF Decoded
<1>3. N \in Nat /\ Len(Z) \in Nat
  BY <1>2, StreamIs, ZenonT(30)
<1>4. IsPrefix(observed, ps) /\ Len(observed) = j
  BY <1>1, DecodedSays, ZenonT(30)
<1>5. j \in 0..N
  BY <1>2, <1>3
<1>6. b[j] <= to
  <2> DEFINE x == b[j]
             y == b[k]
  <2>1. x \in Nat /\ y \in Nat /\ x <= y
    BY <1>2, StreamOrder
  <2>2. y <= to
    BY <1>2, HoldsIs
  <2>3. to \in Nat
    BY <1>2, <1>3
  <2> HIDE DEF x, y
  <2>4. x <= to
    BY <2>1, <2>2, <2>3
  <2> QED
    BY <2>4 DEF x
<1>7. \A i \in 1..j : Fits(ps[i])
  <2>1. \A i \in 1..j : i \in (0 + 1)..k
    BY <1>2, <1>3
  <2> QED
    BY <1>2, <2>1, ZenonT(30) DEF Small
<1>8. Stuck(ps, b, to, k) <=> \E i \in 1..N : ~Fits(ps[i]) /\ b[i - 1] + LengthBytes <= to
  BY <1>1, StuckIsOverlong
<1>9. ASSUME ~lost, j < N PROVE to < b[j + 1]
  BY <1>1, <1>2, <1>9, ZenonT(30) DEF Waits
<1> QED
  BY <1>1, <1>4, <1>5, <1>6, <1>7, <1>8, <1>9, ZenonT(30) DEF ShowsFrames

(* The inductive invariant of a proxied connection: the two pumps.         *)
ProxyInv ==
  /\ raw \in BOOLEAN /\ frames \in Streams /\ pumps \in [Directions -> PumpType]
  /\ \A d \in Directions : PumpInv(pumps[d], frames[d], raw)

(* A connection that is accepted.                                          *)
LEMMA ProxyStarts == ProxyInit => ProxyInv
<1> SUFFICES ASSUME ProxyInit PROVE ProxyInv
  OBVIOUS
<1>1. raw \in BOOLEAN /\ frames \in Streams /\ pumps = [d \in Directions |-> Started(frames[d])]
  BY DEF ProxyInit
<1>2. ASSUME NEW d \in Directions PROVE PumpInv(Started(frames[d]), frames[d], raw)
  <2>1. Sendable(frames[d])
    BY <1>1, SnifferAssumption, ZenonT(30) DEF Sendable, Rows
  <2> QED
    BY <1>1, <2>1, PumpStarts, ZenonT(30)
<1>3. \A d \in Directions : pumps[d] = Started(frames[d])
  BY <1>1, ZenonT(30)
<1>4. \A d \in Directions : PumpInv(pumps[d], frames[d], raw)
  BY <1>2, <1>3, ZenonT(30)
<1>5. \A d \in Directions : Started(frames[d]) \in PumpType
  BY <1>2, ZenonT(30) DEF PumpInv
<1>6. pumps \in [Directions -> PumpType]
  BY <1>1, <1>5, ZenonT(30)
<1> QED
  BY <1>1, <1>4, <1>6, ZenonT(30) DEF ProxyInv

(* A step of one pump leaves the other alone.                              *)
LEMMA OnePump ==
  ASSUME ProxyInv, UNCHANGED <<raw, frames>>, NEW d \in Directions, NEW q,
         pumps' = [pumps EXCEPT ![d] = q], PumpInv(q, frames[d], raw)
  PROVE  ProxyInv'
<1>1. q \in PumpType
  BY ZenonT(30) DEF PumpInv
<1>2. raw' = raw /\ frames' = frames /\ raw \in BOOLEAN /\ frames \in Streams /\ pumps \in [Directions -> PumpType]
      /\ \A e \in Directions : PumpInv(pumps[e], frames[e], raw)
  BY DEF ProxyInv
<1>3. pumps' \in [Directions -> PumpType]
  BY <1>1, <1>2, ZenonT(30)
<1>4. ASSUME NEW e \in Directions PROVE PumpInv(pumps'[e], frames[e], raw)
  <2>1. CASE e = d
    <3>1. pumps'[e] = q
      BY <1>2, <2>1, ZenonT(30)
    <3> QED
      BY <2>1, <3>1, ZenonT(30)
  <2>2. CASE e # d
    <3>1. pumps'[e] = pumps[e]
      BY <1>2, <2>2, ZenonT(30)
    <3> QED
      BY <1>2, <3>1, ZenonT(30)
  <2> QED
    BY <2>1, <2>2
<1> QED
  BY <1>2, <1>3, <1>4, ZenonT(30) DEF ProxyInv

(* Every step of the connection keeps the invariant.                       *)
LEMMA ProxySteps == ProxyInv /\ [ProxyNext]_snifferVars => ProxyInv'
<1> SUFFICES ASSUME ProxyInv, [ProxyNext]_snifferVars PROVE ProxyInv'
  OBVIOUS
<1>0. raw \in BOOLEAN /\ \A d \in Directions : PumpInv(pumps[d], frames[d], raw) /\ pumps[d] \in PumpType
  BY ZenonT(30) DEF ProxyInv, PumpInv
<1>1. CASE UNCHANGED <<raw, frames, pumps>>
  BY <1>1, ZenonT(30) DEF ProxyInv
<1>2. ASSUME NEW d \in Directions, PumpReads(d) PROVE ProxyInv'
  <2> DEFINE p == pumps[d]
  <2>1. PICK n \in 1..Min({ReadSize, Len(p.unread)}), rerr \in {FALSE, Src(d) \in gone} :
          pumps' = [pumps EXCEPT ![d] = Filled(p, n, rerr)]
    BY <1>2, ZenonT(30) DEF PumpReads
  <2>2. p.at = "read" /\ UNCHANGED <<raw, frames>>
    BY <1>2 DEF PumpReads
  <2>3. rerr \in BOOLEAN
    <3>1. (Src(d) \in gone) \in BOOLEAN
      OBVIOUS
    <3> QED
      BY <3>1, ZenonT(30)
  <2>4. n \in 1..Len(p.unread)
    <3> DEFINE l == Len(p.unread)
               m == Min({ReadSize, l})
    <3>1. l \in Nat /\ ReadSize \in Nat
      <4>1. p.unread \in Seq(Byte)
        BY <1>0, ZenonT(30) DEF PumpType, Octets
      <4> QED
        BY <4>1, LenProperties, SnifferAssumption
    <3> HIDE DEF l
    <3>2. \E x \in {ReadSize, l} : \A y \in {ReadSize, l} : x <= y
      BY <3>1
    <3>3. m \in {ReadSize, l} /\ \A y \in {ReadSize, l} : m <= y
      BY <3>2, ZenonT(30) DEF Min
    <3>4. n \in 1..m
      BY DEF l
    <3> HIDE DEF m
    <3>5. n \in 1..l
      BY <3>1, <3>3, <3>4
    <3> QED
      BY <3>5 DEF l
  <2>5. PumpInv(Filled(p, n, rerr), frames[d], raw)
    <3>1. PumpInv(p, frames[d], raw)
      BY <1>0, ZenonT(30)
    <3> HIDE DEF p
    <3> QED
      BY <2>2, <2>3, <2>4, <3>1, PumpFills, ZenonT(30)
  <2> QED
    BY <2>1, <2>2, <2>5, OnePump, ZenonT(30)
<1>3. ASSUME NEW d \in Directions, ReadFails(d) PROVE ProxyInv'
  <2>1. pumps' = [pumps EXCEPT ![d] = Over(pumps[d])] /\ UNCHANGED <<raw, frames>>
    BY <1>3, ZenonT(30) DEF ReadFails, Ends, Over
  <2>2. PumpInv(Over(pumps[d]), frames[d], raw)
    BY <1>0, PumpEnds, ZenonT(30)
  <2> QED
    BY <2>1, <2>2, OnePump, ZenonT(30)
<1>4. ASSUME NEW d \in Directions, PumpWrites(d) PROVE ProxyInv'
  <2> DEFINE p == pumps[d]
             q == IF raw THEN ShownRaw(p) ELSE IF p.lost THEN Unseen(p) ELSE Shown(p)
  <2>1. p.at = "write" /\ UNCHANGED <<raw, frames>>
    BY <1>4, ZenonT(30) DEF PumpWrites
  <2>2. \/ pumps' = [pumps EXCEPT ![d] = Over(Written(q))]
        \/ pumps' = [pumps EXCEPT ![d] = Written(q)]
    BY <1>4, ZenonT(30) DEF PumpWrites, Ends, Over
  <2>3. PumpInv(Written(q), frames[d], raw)
    <3>1. PumpInv(p, frames[d], raw)
      BY <1>0, ZenonT(30)
    <3> HIDE DEF p
    <3> QED
      BY <1>0, <2>1, <3>1, PumpShows, ZenonT(30)
  <2> DEFINE v == Written(q)
  <2> HIDE DEF q
  <2>4. PumpInv(Over(Written(q)), frames[d], raw)
    BY <2>3, PumpEnds, ZenonT(30)
  <2> QED
    BY <2>1, <2>2, <2>3, <2>4, OnePump, ZenonT(30)
<1>5. ASSUME NEW d \in Directions, WriteFails(d) PROVE ProxyInv'
  <2> DEFINE p == pumps[d]
  <2>1. p.at = "write" /\ UNCHANGED <<raw, frames>>
    BY <1>5, ZenonT(30) DEF WriteFails
  <2>2. PICK k \in {0} \cup 1..(IF closed THEN 0 ELSE Len(p.buf) - 1) :
          pumps' = [pumps EXCEPT ![d] = Over(Broken(p, SubSeq(p.buf, 1, k)))]
    BY <1>5, ZenonT(30) DEF WriteFails, Ends, Over, Broken
  <2>3. k \in 0..Len(p.buf)
    <3> DEFINE l == Len(p.buf)
    <3>1. l \in Nat
      <4>1. p.buf \in Seq(Byte)
        BY <1>0, ZenonT(30) DEF PumpType, Octets
      <4> QED
        BY <4>1, LenProperties
    <3> HIDE DEF l
    <3>2. k \in {0} \cup 1..(IF closed THEN 0 ELSE l - 1)
      BY DEF l
    <3>3. k \in 0..l
      BY <3>1, <3>2
    <3> QED
      BY <3>3 DEF l
  <2>4. PumpInv(p, frames[d], raw)
    BY <1>0, ZenonT(30)
  <2> HIDE DEF p
  <2>5. PumpInv(Over(Broken(p, SubSeq(p.buf, 1, k))), frames[d], raw)
    BY <2>1, <2>3, <2>4, PumpBreaks, ZenonT(30)
  <2> QED
    BY <2>1, <2>2, <2>5, OnePump, ZenonT(30)
<1>6. ASSUME NEW end, Leave(end) PROVE ProxyInv'
  BY <1>1, <1>6 DEF Leave
<1>7. CASE UNCHANGED snifferVars
  BY <1>1, <1>7 DEF snifferVars
<1> QED
  BY <1>2, <1>3, <1>4, <1>5, <1>6, <1>7, ZenonT(30) DEF ProxyNext, Pump

(* What the invariant says of the wire and of the observer.                *)
LEMMA ProxySays == ProxyInv => TeeIsFaithful
<1> SUFFICES ASSUME ProxyInv, NEW d \in Directions
             PROVE  LET p == pumps[d]
                        n == Len(p.observed)
                    IN  /\ IsPrefix(p.forwarded, Bytes(frames[d])) /\ p.teed <= Len(p.forwarded)
                        /\ p.at = "read" /\ ~p.lost => p.teed = Len(p.forwarded)
                        /\ raw => FlattenSeq(p.observed) = SubSeq(p.forwarded, 1, p.teed)
                        /\ ~raw => /\ IsPrefix(p.observed, frames[d]) /\ End(d, n) <= p.teed
                                   /\ \A k \in 1..n : Len(frames[d][k]) <= MaxPayload
                                   /\ p.lost <=> Overlong(d)
                                   /\ ~p.lost /\ n < Len(frames[d]) => p.teed < End(d, n + 1)
  BY ZenonT(30) DEF TeeIsFaithful
<1> DEFINE p == pumps[d]
           ps == frames[d]
           n == Len(p.observed)
           to == p.teed
<1>1. PumpInv(p, ps, raw) /\ raw \in BOOLEAN
  BY ZenonT(30) DEF ProxyInv
<1>2. p \in PumpType
  BY <1>1, ZenonT(30) DEF PumpInv
<1>3. PICK b, Z, w, r : PumpAt(p, ps, raw, b, Z, w, r)
  BY <1>1, ZenonT(30) DEF PumpInv
<1>4. Stream(ps, b, Z) /\ Forwards(p, Z, w, r) /\ Looks(ps, b, Z, raw, p.dec, p.observed, p.lost, to)
  BY <1>3, ZenonT(30) DEF PumpAt
<1>5. r \in 0..Len(Z) /\ w \in 0..r /\ p.forwarded = Piece(Z, 0, w) /\ (p.at = "read" => w = r)
      /\ to \in 0..w /\ (p.at # "done" /\ ~p.lost => to = w)
  BY <1>4, ZenonT(30) DEF Forwards
<1>6. Z \in Seq(Byte) /\ Len(Z) \in Nat /\ Len(ps) \in Nat
  BY <1>4, StreamIs, ZenonT(30) DEF Stream
<1>7. Bytes(ps) = Z /\ \A k \in 0..Len(ps) : Len(Bytes(SubSeq(ps, 1, k))) = b[k]
  BY <1>4, BytesAre
<1>8. w \in 0..Len(Z) /\ to <= w /\ 0 \in 0..w /\ w \in Nat /\ to \in Nat
  BY <1>5, <1>6
<1>9. IsPrefix(Piece(Z, 0, w), Z) /\ Len(Piece(Z, 0, w)) = w
  BY <1>6, <1>8, PieceIsPrefix, ZenonT(30)
<1>10. IsPrefix(p.forwarded, Bytes(ps)) /\ to <= Len(p.forwarded)
  BY <1>5, <1>7, <1>8, <1>9, ZenonT(30)
<1>11. p.at = "read" /\ ~p.lost => to = Len(p.forwarded)
  <2>1. "read" # "done"
    OBVIOUS
  <2> QED
    BY <1>5, <1>9, <2>1, ZenonT(30)
<1>12. ASSUME raw PROVE FlattenSeq(p.observed) = SubSeq(p.forwarded, 1, to)
  <2>1. FlattenSeq(p.observed) = Piece(Z, 0, to)
    BY <1>4, <1>12, ZenonT(30) DEF Looks, LooksRaw
  <2>2. to \in 0..(w - 0) /\ 0 \in 0..to /\ 0 + 0 = 0 /\ 0 + to = to /\ 0 + 1 = 1
    BY <1>5, <1>8
  <2>3. Piece(Piece(Z, 0, w), 0, to) = Piece(Z, 0 + 0, 0 + to)
    BY <1>6, <1>8, <2>2, PieceOfPiece, ZenonT(30)
  <2>4. SubSeq(p.forwarded, 1, to) = Piece(p.forwarded, 0, to)
    BY <2>2, ZenonT(30) DEF Piece
  <2> QED
    BY <1>5, <2>1, <2>2, <2>3, <2>4, ZenonT(30)
<1>13. ASSUME ~raw
       PROVE  /\ IsPrefix(p.observed, ps) /\ End(d, n) <= to
              /\ \A k \in 1..n : Len(ps[k]) <= MaxPayload
              /\ p.lost <=> Overlong(d)
              /\ ~p.lost /\ n < Len(ps) => to < End(d, n + 1)
  <2>1. PICK j, k : LooksAt(ps, b, Z, p.dec, p.observed, p.lost, to, j, k)
    BY <1>4, <1>13, ZenonT(30) DEF Looks
  <2>2. p.lost \in BOOLEAN
    BY <1>2, ZenonT(30) DEF PumpType
  <2> DEFINE lost == p.lost
             observed == p.observed
             dd == p.dec
  <2> HIDE DEF lost, observed, dd, to, ps
  <2>3. /\ IsPrefix(observed, ps) /\ Len(observed) = j /\ j \in 0..Len(ps) /\ b[j] <= to
        /\ \A i \in 1..j : Fits(ps[i])
        /\ lost <=> \E i \in 1..Len(ps) : ~Fits(ps[i]) /\ b[i - 1] + LengthBytes <= to
        /\ ~lost /\ j < Len(ps) => to < b[j + 1]
    <3>1. LooksAt(ps, b, Z, dd, observed, lost, to, j, k) /\ lost \in BOOLEAN
      BY <2>1, <2>2, ZenonT(30) DEF lost, observed, dd
    <3>2. ShowsFrames(ps, b, observed, lost, to, j)
      BY <3>1, FramesShown, ZenonT(30)
    <3> QED
      BY <3>2, ZenonT(30) DEF ShowsFrames
  <2>4. n = j
    BY <2>3, ZenonT(30) DEF observed
  <2>5. ASSUME NEW i \in 0..Len(ps) PROVE End(d, i) = b[i]
    BY <1>7, ZenonT(30) DEF End, ps
  <2>6. End(d, n) <= to
    BY <2>3, <2>4, <2>5, ZenonT(30)
  <2>7. \A i \in 1..n : Len(ps[i]) <= MaxPayload
    BY <2>3, <2>4, ZenonT(30) DEF Fits
  <2>8. \A i \in 1..Len(ps) : i - 1 \in 0..Len(ps) /\ (~Fits(ps[i]) <=> Len(ps[i]) > MaxPayload)
    <3> TAKE i \in 1..Len(ps)
    <3>1. i - 1 \in 0..Len(ps)
      BY <1>6
    <3>2. Len(ps[i]) \in Nat /\ MaxPayload \in Nat
      <4>1. ps \in Seq(Seq(Byte))
        BY <1>4, ZenonT(30) DEF Stream, Sendable, Rows
      <4>2. ps[i] \in Seq(Byte)
        BY <4>1
      <4> QED
        BY <4>2, FrameAssumption
    <3> DEFINE l == Len(ps[i])
    <3> HIDE DEF l
    <3>3. l \in Nat
      BY <3>2 DEF l
    <3>4. ~(l <= MaxPayload) <=> l > MaxPayload
      BY <3>2, <3>3
    <3> QED
      BY <3>1, <3>4, ZenonT(30) DEF l, Fits
  <2>9. lost <=> Overlong(d)
    <3>1. Overlong(d) <=> \E i \in 1..Len(ps) : Len(ps[i]) > MaxPayload /\ End(d, i - 1) + LengthBytes <= to
      BY ZenonT(30) DEF Overlong, ps, to
    <3>2. \A i \in 1..Len(ps) : End(d, i - 1) = b[i - 1]
      BY <2>5, <2>8, ZenonT(30)
    <3> QED
      BY <2>3, <2>8, <3>1, <3>2, ZenonT(30)
  <2>10. ~lost /\ n < Len(ps) => to < End(d, n + 1)
    <3>1. n < Len(ps) => n + 1 \in 0..Len(ps)
      BY <1>6, <2>3, <2>4
    <3> QED
      BY <2>3, <2>4, <2>5, <3>1, ZenonT(30)
  <2> QED
    BY <2>3, <2>6, <2>7, <2>9, <2>10, ZenonT(30) DEF lost, observed
<1> QED
  BY <1>10, <1>11, <1>12, <1>13, ZenonT(30)

(* The proxy never alters the wire, and its observer sees every complete   *)
(* frame of what was forwarded once and in order, none from a length over  *)
(* the limit on, for every size of a read, prefix and limit and every      *)
(* stream that the two ends may write.                                     *)
THEOREM ProxyTees == ProxySpec => []TeeIsFaithful
  BY ProxyStarts, ProxySteps, ProxySays, PTL DEF ProxySpec
==============================================================================
