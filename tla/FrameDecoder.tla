----------------------------- MODULE FrameDecoder -----------------------------
(***************************************************************************)
(* The NI record decoder of ni/frame.go: a queue of retained chunks with a *)
(* cursor to its first unconsumed byte, as the operators that Push is made *)
(* of.  A decoder is a record of the fields of the Go struct; indices are  *)
(* the code's, counted from 0.                                             *)
(***************************************************************************)
EXTENDS Integers, Sequences, FiniteSetsExt, Lists

CONSTANTS
  LengthBytes,  \* lengthBytes: width of the length prefix (4 in the code)
  MaxPayload,   \* maxPayloadLength
  CompactAt     \* consumed chunks that make compact copy (64 in the code)

ASSUME FrameAssumption ==
  LengthBytes \in Nat \ {0} /\ MaxPayload \in Nat /\ CompactAt \in Nat \ {0}

Byte == 0..255

NewFrameDecoder == [chunks |-> <<>>, headIndex |-> 0, headOffset |-> 0, buffered |-> 0]

\* The errors of the decoder.
Inconsistent == -1
TooLarge == -2

\* The weight of a byte of the prefix that has i bytes behind it.
Weight[i \in 0..LengthBytes] == IF i = 0 THEN 1 ELSE 256 * Weight[i - 1]

\* The big-endian encoding of a length in LengthBytes bytes, before the
\* payload itself.
EncodeFrame(payload) ==
  [i \in 1..LengthBytes |-> (Len(payload) \div Weight[LengthBytes - i]) % 256] \o payload

\* value<<8 | b for each byte of s.
Shifted(value, s) ==
  LET after[i \in 0..Len(s)] ==
        IF i = 0 THEN value ELSE (after[i - 1] * 256 + s[i]) % Weight[LengthBytes]
  IN after[Len(s)]

\* The first n bytes of the chunk at the cursor.
AtCursor(d, index, offset, n) == SubSeq(d.chunks[index + 1], offset + 1, offset + n)
Available(d, index, offset, n) ==
  LET there == Len(d.chunks[index + 1]) - offset IN IF n < there THEN n ELSE there

\* A round of the loop of peekPayloadLength: the share that one chunk has of
\* the prefix.
PeekChunk(d, s) ==
  IF s.remaining = 0 \/ s.index >= Len(d.chunks) THEN s
  ELSE LET take == Available(d, s.index, s.offset, s.remaining)
       IN [value |-> Shifted(s.value, AtCursor(d, s.index, s.offset, take)),
           remaining |-> s.remaining - take, index |-> s.index + 1, offset |-> 0]

\* peekPayloadLength: the prefix may straddle any number of chunks.  Every
\* round takes another chunk.
peekPayloadLength(d) ==
  LET peek[n \in 0..Len(d.chunks)] ==
        IF n = 0
        THEN [value |-> 0, remaining |-> LengthBytes, index |-> d.headIndex, offset |-> d.headOffset]
        ELSE PeekChunk(d, peek[n - 1])
      last == peek[Len(d.chunks)]
  IN IF last.remaining = 0 THEN last.value ELSE Inconsistent

\* compact drops consumed chunks.
Mut_compactKeepsCursor(d) ==
  IF d.headIndex = Len(d.chunks) THEN [d EXCEPT !.chunks = <<>>, !.headIndex = 0]
  ELSE IF d.headIndex >= CompactAt /\ d.headIndex * 2 >= Len(d.chunks)
  THEN [d EXCEPT !.chunks = SubSeq(d.chunks, d.headIndex + 1, Len(d.chunks)),
                 !.headIndex = 0, !.headOffset = 0]
  ELSE d

Mut_compactWhenEmpty(d) ==
  IF d.headIndex = Len(d.chunks) THEN [d EXCEPT !.chunks = <<>>, !.headIndex = 0] ELSE d

compact(d) ==
  IF d.headIndex = Len(d.chunks) THEN [d EXCEPT !.chunks = <<>>, !.headIndex = 0]
  ELSE IF d.headIndex >= CompactAt /\ d.headIndex * 2 >= Len(d.chunks)
  THEN [d EXCEPT !.chunks = SubSeq(d.chunks, d.headIndex + 1, Len(d.chunks)),
                 !.headIndex = 0]
  ELSE d

\* The cursor moved on by take bytes of the chunk it is in.
Advanced(d, take) ==
  IF d.headOffset + take = Len(d.chunks[d.headIndex + 1])
  THEN [d EXCEPT !.headIndex = @ + 1, !.headOffset = 0]
  ELSE [d EXCEPT !.headOffset = @ + take]

\* A round of the loop of consume: what one chunk has of the bytes wanted.
CopyChunk(s) ==
  IF s.left = 0 \/ s.dec.headIndex >= Len(s.dec.chunks) THEN s
  ELSE LET take == Available(s.dec, s.dec.headIndex, s.dec.headOffset, s.left)
       IN [dec |-> Advanced(s.dec, take), left |-> s.left - take,
           bytes |-> s.bytes \o AtCursor(s.dec, s.dec.headIndex, s.dec.headOffset, take)]

\* consume removes length bytes from the head of the queue.  Every round but
\* the last finishes a chunk.
consume(d, length) ==
  LET copy[n \in 0..Len(d.chunks)] ==
        IF n = 0 THEN [dec |-> d, left |-> length, bytes |-> <<>>] ELSE CopyChunk(copy[n - 1])
      last == copy[Len(d.chunks)]
  IN IF length > d.buffered THEN [dec |-> d, bytes |-> <<>>, ok |-> FALSE]
     ELSE IF last.left # 0 THEN [dec |-> last.dec, bytes |-> <<>>, ok |-> FALSE]
     ELSE [dec |-> compact([last.dec EXCEPT !.buffered = @ - length]), bytes |-> last.bytes, ok |-> TRUE]

\* The limit refuses a record whose payload is above maxPayloadLength.
Fits(payload) == Len(payload) <= MaxPayload

\* The two tests of an advertised length.
Mut_limitOffByOne(advertised) == advertised > MaxPayload + 1
Oversized(advertised) == advertised > MaxPayload

Mut_compareStrictly(d, advertised) == d.buffered <= LengthBytes + advertised
Mut_prefixUncounted(d, advertised) == d.buffered < advertised
Incomplete(d, advertised) == d.buffered < LengthBytes + advertised

\* The return of Push.  On an error no payload is returned.
Drained(d, payloads, err) == [dec |-> d, payloads |-> IF err = 0 THEN payloads ELSE <<>>, err |-> err, done |-> TRUE]

\* A round of the loop of Push: the next payload if it is complete, or else
\* the return.
DrainFrame(s) ==
  IF s.done THEN s
  ELSE IF s.dec.buffered < LengthBytes THEN Drained(s.dec, s.payloads, 0)
  ELSE LET advertised == peekPayloadLength(s.dec)
       IN IF advertised = Inconsistent THEN Drained(s.dec, s.payloads, Inconsistent)
          ELSE IF Oversized(advertised) THEN Drained(s.dec, s.payloads, TooLarge)
          ELSE IF Incomplete(s.dec, advertised) THEN Drained(s.dec, s.payloads, 0)
          ELSE LET prefix == consume(s.dec, LengthBytes)
                   body == consume(prefix.dec, advertised)
               IN IF prefix.ok /\ body.ok
                  THEN [dec |-> body.dec, payloads |-> Append(s.payloads, body.bytes), err |-> 0, done |-> FALSE]
                  ELSE Drained(IF prefix.ok THEN body.dec ELSE prefix.dec, s.payloads, Inconsistent)

\* Push retains a copy of a chunk that is not empty and drains the queue.
\* Every round but the last takes a prefix from the bytes buffered.
Retained(d, chunk) ==
  IF chunk = <<>> THEN d
  ELSE [d EXCEPT !.chunks = Append(@, chunk), !.buffered = @ + Len(chunk)]
Push(d, chunk) ==
  LET begin == Retained(d, chunk)
      drain[n \in 0..(begin.buffered + 1)] ==
        IF n = 0 THEN [dec |-> begin, payloads |-> <<>>, err |-> 0, done |-> FALSE]
        ELSE DrainFrame(drain[n - 1])
  IN drain[begin.buffered + 1]
==============================================================================
