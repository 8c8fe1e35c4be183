------------------------------- MODULE Sniffer --------------------------------
(***************************************************************************)
(* One connection through the recording proxy of sniffer/sniffer.go: two   *)
(* pumps, one for each direction, that forward what they read and show the *)
(* observer the NI frames in it, or with Raw the chunks themselves.        *)
(*                                                                         *)
(* The client and the server are external.  Each writes its frames, the    *)
(* last of which may be over MaxPayload, and may go away at any time; what *)
(* is then still on the wire may or may not be read.                       *)
(***************************************************************************)
EXTENDS FrameDecoder

CONSTANTS
  Streams,   \* what the two ends may send: a sequence of payloads for each direction
  ReadSize   \* len(buf): bytes one read returns at most

VARIABLES
  raw,      \* Proxy.Raw
  frames,   \* the payloads each end writes
  pumps,    \* the two pumps
  closed,   \* a pump has closed both connections
  gone      \* the ends that went away

snifferVars == <<raw, frames, pumps, closed, gone>>

Directions == {"ClientToServer", "ServerToClient"}
Src(d) == IF d = "ClientToServer" THEN "client" ELSE "server"
Dst(d) == IF d = "ClientToServer" THEN "server" ELSE "client"

(* The two ends write byte strings whose length the prefix can hold.       *)
ASSUME SnifferAssumption ==
  /\ ReadSize \in Nat
  /\ \A stream \in Streams, d \in Directions :
       /\ stream[d] \in Seq(Seq(Byte))
       /\ \A k \in 1..Len(stream[d]) : Len(stream[d][k]) < Weight[LengthBytes]

Bytes(payloads) == FlattenSeq([k \in 1..Len(payloads) |-> EncodeFrame(payloads[k])])

(* A pump that starts: nothing read of the stream.  teed counts the bytes  *)
(* it has looked at, forwarded is what it wrote to the other end.          *)
Started(payloads) ==
  [at |-> "read", unread |-> Bytes(payloads), buf |-> <<>>, rerr |-> FALSE, forwarded |-> <<>>,
   dec |-> NewFrameDecoder, observed |-> <<>>, lost |-> FALSE, teed |-> 0]

ProxyInit ==
  /\ raw \in BOOLEAN /\ frames \in Streams
  /\ pumps = [d \in Directions |-> Started(frames[d])]
  /\ closed = FALSE /\ gone = {}
-----------------------------------------------------------------------------
(* src.Read returns n bytes, and perhaps the error that is next.           *)
Filled(p, n, rerr) ==
  [p EXCEPT !.at = "write", !.rerr = rerr, !.buf = SubSeq(p.unread, 1, n), !.unread = SubSeq(@, n + 1, Len(@))]
PumpReads(d) ==
  /\ pumps[d].at = "read" /\ ~closed
  /\ \E n \in 1..Min({ReadSize, Len(pumps[d].unread)}), rerr \in {FALSE, Src(d) \in gone} :
       pumps' = [pumps EXCEPT ![d] = Filled(pumps[d], n, rerr)]
  /\ UNCHANGED <<raw, frames, closed, gone>>

(* Mutant: the pump that ends closes nothing.                              *)
Mut_LeaveOpen(p, d) == pumps' = [pumps EXCEPT ![d] = [p EXCEPT !.at = "done"]] /\ UNCHANGED closed

(* return: the deferred Close of both connections.                         *)
Ends(p, d) == pumps' = [pumps EXCEPT ![d] = [p EXCEPT !.at = "done"]] /\ closed' = TRUE

(* It returns no bytes and an error: the end of the stream, a reset, or a  *)
(* connection that the other pump closed.                                  *)
ReadFails(d) ==
  /\ pumps[d].at = "read" /\ (closed \/ Src(d) \in gone)
  /\ Ends(pumps[d], d)
  /\ UNCHANGED <<raw, frames, gone>>

(* dst.Write returns an error and may have written a part.                 *)
WriteFails(d) ==
  /\ pumps[d].at = "write" /\ (closed \/ Dst(d) \in gone)
  /\ \E k \in {0} \cup 1..(IF closed THEN 0 ELSE Len(pumps[d].buf) - 1) :
       Ends([pumps[d] EXCEPT !.forwarded = @ \o SubSeq(pumps[d].buf, 1, k)], d)
  /\ UNCHANGED <<raw, frames, gone>>

(* pumpRaw shows the observer the chunk as it is.                          *)
ShownRaw(p) == [p EXCEPT !.teed = @ + Len(p.buf), !.observed = Append(@, p.buf)]

(* Mutants: a framing error ends nothing and the next chunk is pushed      *)
(* again; a chunk is taken for a frame.                                    *)
Mut_PushOn(p) ==
  LET push == Push(p.dec, p.buf)
  IN  [p EXCEPT !.teed = @ + Len(p.buf), !.dec = push.dec, !.observed = @ \o push.payloads]
Mut_ChunksAreFrames(p) == ShownRaw(p)

(* pump shows it the frames that the chunk completes.  When the decoder    *)
(* refuses a length it returns no payloads, and the pump stops looking.    *)
Shown(p) ==
  LET push == Push(p.dec, p.buf)
      seen == [p EXCEPT !.teed = @ + Len(p.buf), !.dec = push.dec]
  IN  IF push.err # 0 THEN [seen EXCEPT !.lost = TRUE] ELSE [seen EXCEPT !.observed = @ \o push.payloads]

(* forwardRaw shows it nothing.                                            *)
Unseen(p) == p

(* dst.Write takes the chunk, and then the pump looks at it.  The framing  *)
(* error that starts forwardRaw comes before the test of rerr: it reads    *)
(* again.                                                                  *)
Written(p) == [p EXCEPT !.forwarded = @ \o p.buf, !.buf = <<>>, !.at = "read"]
PumpWrites(d) ==
  /\ pumps[d].at = "write" /\ ~closed
  /\ LET p == IF raw THEN ShownRaw(pumps[d]) ELSE IF pumps[d].lost THEN Unseen(pumps[d]) ELSE Shown(pumps[d])
     IN  IF p.rerr /\ p.lost = pumps[d].lost THEN Ends(Written(p), d)
         ELSE pumps' = [pumps EXCEPT ![d] = Written(p)] /\ UNCHANGED closed
  /\ UNCHANGED <<raw, frames, gone>>

Pump(d) == PumpReads(d) \/ ReadFails(d) \/ PumpWrites(d) \/ WriteFails(d)

Leave(end) ==
  /\ end \notin gone /\ ~closed /\ gone' = gone \cup {end}
  /\ UNCHANGED <<raw, frames, pumps, closed>>

ProxyNext == (\E d \in Directions : Pump(d)) \/ (\E end \in {"client", "server"} : Leave(end))

ProxySpec == ProxyInit /\ [][ProxyNext]_snifferVars

(* A call on a closed connection returns.                                  *)
ProxyFairness == \A d \in Directions : WF_snifferVars(ReadFails(d)) /\ WF_snifferVars(WriteFails(d))
-----------------------------------------------------------------------------
(* Where the first k frames end, and whether the bytes a pump has looked   *)
(* at hold a length over the limit.                                        *)
End(d, k) == Len(Bytes(SubSeq(frames[d], 1, k)))
Overlong(d) ==
  \E k \in 1..Len(frames[d]) :
    Len(frames[d][k]) > MaxPayload /\ End(d, k - 1) + LengthBytes <= pumps[d].teed

(* The proxy never alters the wire: what one end receives is what the      *)
(* other sent, in order and without a gap, for as long as it lasts.  What  *)
(* the observer sees is what was forwarded: every frame of it that is      *)
(* complete, once and in order, however the stream is cut into reads; and  *)
(* none from a length on that cannot be trusted, when the pump forwards    *)
(* without looking.                                                        *)
TeeIsFaithful ==
  \A d \in Directions :
    LET p == pumps[d]
        n == Len(p.observed)
    IN  /\ IsPrefix(p.forwarded, Bytes(frames[d])) /\ p.teed <= Len(p.forwarded)
        /\ p.at = "read" /\ ~p.lost => p.teed = Len(p.forwarded)
        /\ raw => FlattenSeq(p.observed) = SubSeq(p.forwarded, 1, p.teed)
        /\ ~raw => /\ IsPrefix(p.observed, frames[d]) /\ End(d, n) <= p.teed
                   /\ \A k \in 1..n : Len(frames[d][k]) <= MaxPayload
                   /\ p.lost <=> Overlong(d)
                   /\ ~p.lost /\ n < Len(frames[d]) => p.teed < End(d, n + 1)

(* When one pump ends, the other does too: handle does not wait for ever   *)
(* for a peer that has nothing to say.                                     *)
ConnectionUnwinds ==
  (\E d \in Directions : pumps[d].at = "done") ~> (\A d \in Directions : pumps[d].at = "done")
=============================================================================
