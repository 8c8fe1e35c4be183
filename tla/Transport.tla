------------------------------ MODULE Transport ------------------------------
(***************************************************************************)
(* One NI connection (internal/transport/transport.go): Receive reads      *)
(* chunks of the byte stream, of any size the network hands over, into the *)
(* FrameDecoder and returns the records one by one.                        *)
(*                                                                         *)
(* The peer is external: it writes records, may write a length above the   *)
(* limit, and closes.  A deadline of the connection is "none", "future" or *)
(* "past"; so is the deadline of the context of the Receive in progress.   *)
(***************************************************************************)
EXTENDS FrameDecoder

CONSTANTS
  Payloads,     \* the payloads the peer may send
  MaxFrames,    \* bound: records the peer writes
  MaxReceives,  \* bound: calls of Receive
  ChunkSize,    \* len(Transport.chunk): bytes one read returns at most
  ReadTimeout   \* whether Options.ReadTimeout is set

\* The peer's payloads are byte strings whose length the prefix can hold.
ASSUME TransportAssumption ==
  ChunkSize \in Nat /\ \A p \in Payloads : p \in Seq(Byte) /\ Len(p) < Weight[LengthBytes]

VARIABLES
  dec,       \* Transport.dec
  queue,     \* Transport.queue
  deadline,  \* the read deadline set on the connection
  pc,        \* "idle" or in "receive"
  ctx,       \* the deadline of the context of the Receive in progress
  calls,     \* how many Receives were called
  result,    \* what the last Receive returned: "frame" or an error
  received,  \* the payloads that Receive returned
  wire,      \* bytes on their way
  sent,      \* the payloads the peer wrote
  peerOpen   \* the peer has not closed

transportVars == <<dec, queue, deadline, pc, ctx, calls, result, received, wire, sent, peerOpen>>

Deadlines == {"none", "future", "past"}
TransportInit ==
  /\ dec = NewFrameDecoder /\ queue = <<>> /\ deadline = "none"
  /\ pc = "idle" /\ ctx = "none" /\ calls = 0 /\ result = "none"
  /\ received = <<>> /\ wire = <<>> /\ sent = <<>> /\ peerOpen = TRUE

------------------------------------------------------------------------------
peerVars == <<wire, sent, peerOpen>>

CallReceive ==
  /\ pc = "idle" /\ calls < MaxReceives
  /\ pc' = "receive" /\ calls' = calls + 1
  /\ ctx' \in Deadlines
  /\ UNCHANGED <<dec, queue, deadline, result, received, peerVars>>

Returns(why) == pc' = "idle" /\ result' = why

\* A record is queued: Receive returns it without reading.
ReturnFrame ==
  /\ pc = "receive" /\ queue # <<>>
  /\ received' = Append(received, Head(queue)) /\ queue' = Tail(queue)
  /\ Returns("frame")
  /\ UNCHANGED <<dec, deadline, ctx, calls, peerVars>>

\* ctx.Err() at the top of the loop.
ContextEnded ==
  /\ pc = "receive" /\ queue = <<>> /\ ctx = "past"
  /\ Returns("context")
  /\ UNCHANGED <<dec, queue, deadline, ctx, calls, received, peerVars>>

\* applyReadDeadline: the nearer of the context's deadline and ReadTimeout
\* from now, or, with neither, whatever deadline the connection had.
applyReadDeadline(from) ==
  IF ctx # "none" THEN ctx ELSE IF ReadTimeout THEN "future" ELSE from

Reading == pc = "receive" /\ queue = <<>> /\ ctx # "past"

\* A read that returns bytes, possibly together with an error: records
\* decoded from them are queued, and then the error is not reported.
ReadBytes(n, err) ==
  /\ Reading
  /\ deadline' = applyReadDeadline(deadline)
  /\ wire' = SubSeq(wire, n + 1, Len(wire))
  /\ LET p == Push(dec, SubSeq(wire, 1, n))
     IN /\ dec' = p.dec
        /\ queue' = queue \o p.payloads
        /\ CASE p.err = TooLarge -> Returns("oversize")
             [] p.err = Inconsistent -> Returns("inconsistent")
             [] p.err = 0 /\ err # "none" /\ queue' = <<>> -> Returns(err)
             [] OTHER -> UNCHANGED <<pc, result>>
  /\ UNCHANGED <<ctx, calls, received, sent, peerOpen>>

\* The end of the stream may come with the last bytes of it.
ReadChunk ==
  \E n \in 1..Min({ChunkSize, Len(wire)}) :
    \E err \in {"none"} \cup (IF ~peerOpen /\ n = Len(wire) THEN {"closed"} ELSE {}) :
      ReadBytes(n, err)

\* A read that returns nothing but the end of the stream.
ReadClosed ==
  /\ Reading /\ wire = <<>> /\ ~peerOpen
  /\ deadline' = applyReadDeadline(deadline)
  /\ Returns("closed")
  /\ UNCHANGED <<dec, queue, ctx, calls, received, peerVars>>

\* The read blocks until the deadline set on the connection has passed.
ReadTimesOut ==
  /\ Reading
  /\ deadline' = applyReadDeadline(deadline)
  /\ deadline' # "none"
  /\ Returns("timeout")
  /\ UNCHANGED <<dec, queue, ctx, calls, received, peerVars>>

\* The deadlines of the connection and of the context pass.
TimePasses ==
  /\ "future" \in {deadline, ctx}
  /\ deadline' = (IF deadline = "future" THEN "past" ELSE deadline)
  /\ ctx' = (IF ctx = "future" THEN "past" ELSE ctx)
  /\ UNCHANGED <<dec, queue, pc, calls, result, received, peerVars>>

ReceiveStep ==
  \/ CallReceive \/ ReturnFrame \/ ContextEnded \/ ReadChunk \/ ReadClosed
  \/ ReadTimesOut \/ TimePasses

\* The peer (external) sends a record.
PeerSends ==
  \E payload \in Payloads :
    /\ peerOpen /\ Len(sent) < MaxFrames
    /\ sent' = Append(sent, payload)
    /\ wire' = wire \o EncodeFrame(payload)
    /\ UNCHANGED <<dec, queue, deadline, pc, ctx, calls, result, received, peerOpen>>

PeerCloses ==
  /\ peerOpen /\ peerOpen' = FALSE
  /\ UNCHANGED <<dec, queue, deadline, pc, ctx, calls, result, received, wire, sent>>

TransportNext == ReceiveStep \/ PeerSends \/ PeerCloses

TransportSpec == TransportInit /\ [][TransportNext]_transportVars

------------------------------------------------------------------------------
Delivered == received \o queue

\* However the stream is cut into reads, and whichever reads time out in the
\* middle of a record, Receive hands over the payloads the peer wrote, in
\* order, none altered, none twice.
DeliversStream == IsPrefix(Delivered, sent)

\* A record that has arrived completely is never left in the decoder, unless
\* the stream is at fault.
NothingHeldBack ==
  LET next == Len(Delivered) + 1
  IN (\A i \in 1..Len(sent) : Fits(sent[i])) /\ next <= Len(sent)
       => dec.buffered < LengthBytes + Len(sent[next])

\* "It is unreachable by construction" (ErrInconsistentQueue, ni/frame.go):
\* the decoder's count of buffered bytes agrees with the chunks it retains.
QueueIsConsistent ==
  /\ result # "inconsistent"
  /\ dec.buffered = Len(FlattenSeq(dec.chunks)) - dec.headOffset
       - Len(FlattenSeq(SubSeq(dec.chunks, 1, dec.headIndex)))

\* Consumed chunks do not pile up behind the cursor: what compact keeps is
\* bounded by its threshold or by what is still unread.
ConsumedIsDropped ==
  dec.headIndex < CompactAt \/ 2 * dec.headIndex < Len(dec.chunks)

\* Receive hands over the payloads the peer wrote, in order and as soon as
\* they are complete, however the stream is cut into reads and whichever reads
\* time out; its decoder's count of buffered bytes agrees with the chunks it
\* keeps, and consumed chunks do not pile up.
StreamIsDelivered ==
  DeliversStream /\ NothingHeldBack /\ QueueIsConsistent /\ ConsumedIsDropped

\* A length that cannot be trusted ends the stream for good: no Receive after
\* it returns a record.
FaultIsFinal ==
  [][\A i \in 1..Len(sent) : ~Fits(sent[i]) => Len(received') < i]_transportVars
==============================================================================
