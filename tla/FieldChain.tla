------------------------------ MODULE FieldChain ------------------------------
(***************************************************************************)
(* internal/rfcpro and the chained fields of internal/cpic/cpic.go: a field*)
(* is [tag, value], and on the wire a record [prev, header, value] names   *)
(* the tag before it too.  A value is a sequence of bytes; a value shorter *)
(* than its header says is one that was cut off.                           *)
(***************************************************************************)
EXTENDS Structure

ExtendedLengthSentinel == 65535
(* Mutant: the sentinel itself is taken for a compact length.              *)
Mut_OneTooMany == ExtendedLengthSentinel
CompactLengthMax == ExtendedLengthSentinel - 1
FieldHeaderByteLength(n) == IF n <= CompactLengthMax THEN 4 ELSE 8

(* A header: a short length, and a long one when the short is the sentinel.*)
EncodeFieldHeader(tag, n) ==
  IF FieldHeaderByteLength(n) = 4 THEN [tag |-> tag, short |-> n, long |-> <<>>]
  ELSE [tag |-> tag, short |-> ExtendedLengthSentinel, long |-> <<n>>]
DecodeFieldHeaderLimited(h, limit) ==
  LET Header(n, used) ==
        IF n \in 0..limit THEN [ok |-> TRUE, tag |-> h.tag, length |-> n, used |-> used] ELSE Refused
  IN  IF h.short # ExtendedLengthSentinel THEN Header(h.short, 4)
      ELSE IF h.long = <<>> THEN Refused ELSE Header(h.long[1], 8)

-----------------------------------------------------------------------------
(* Limits: field and chain in bytes, count in fields.                      *)
(* Mutant: the tag before is not counted.                                  *)
Mut_PrevNotCounted(f) == FieldHeaderByteLength(Len(f.value)) + Len(f.value)
FieldBytes(f) == 2 + FieldHeaderByteLength(Len(f.value)) + Len(f.value)
FieldChainByteLength(fields) == FoldLeft(LAMBDA n, f : n + FieldBytes(f), 0, fields)
Permitted(fields, limits) ==
  /\ Len(fields) <= limits.count /\ FieldChainByteLength(fields) <= limits.chain
  /\ \A k \in DOMAIN fields : Len(fields[k].value) <= limits.field

EncodeFieldChain(first, fields, limits) ==
  IF ~Permitted(fields, limits) THEN Refused
  ELSE [ok |-> TRUE,
        chain |-> [k \in DOMAIN fields |->
                     [prev |-> IF k = 1 THEN first ELSE fields[k - 1].tag,
                      header |-> EncodeFieldHeader(fields[k].tag, Len(fields[k].value)), value |-> fields[k].value]]]

(* Mutant: the tag before is not looked at.                                *)
Mut_AnyOrder(r, expected) == TRUE
Follows(r, expected) == r.prev = expected

(* decodeFieldChainRegion: up to the terminal tag, or to the end when there*)
(* is none (-1).                                                           *)
ReadField(got, r, terminal, limits) ==
  LET header == DecodeFieldHeaderLimited(r.header, limits.field)
      offset == got.offset + 2 + header.used + header.length
  IN  IF got.state # "reading" THEN got
      ELSE IF Len(got.fields) >= limits.count \/ ~Follows(r, got.expected) \/ ~header.ok THEN [got EXCEPT !.state = "refused"]
      ELSE IF offset > limits.chain \/ header.length > Len(r.value) THEN [got EXCEPT !.state = "refused"]
      ELSE [fields |-> Append(got.fields, [tag |-> header.tag, value |-> r.value]), expected |-> header.tag,
            offset |-> offset, state |-> IF header.tag = terminal THEN "ended" ELSE "reading"]
DecodeFieldChain(chain, first, terminal, limits) ==
  LET got == FoldLeft(LAMBDA g, r : ReadField(g, r, terminal, limits),
                      [fields |-> <<>>, expected |-> first, offset |-> 0, state |-> "reading"], chain)
  IN  IF got.state = (IF terminal = -1 THEN "reading" ELSE "ended")
      THEN [ok |-> TRUE, fields |-> got.fields, consumed |-> Len(got.fields)] ELSE Refused

-----------------------------------------------------------------------------
(* A header survives at every length, on both sides of the sentinel, and   *)
(* the limit decides alone: EncodeFieldHeader, DecodeFieldHeaderLimited.   *)
HeaderRoundTrip(tag, n, limit) ==
  LET back == DecodeFieldHeaderLimited(EncodeFieldHeader(tag, n), limit)
  IN  /\ back.ok = (n <= limit)
      /\ back.ok => back.length = n /\ back.tag = tag /\ back.used = FieldHeaderByteLength(n)

(* What EncodeFieldChain may send under some limits, the decoder reads     *)
(* under the same limits, up to the first terminal field and no further.   *)
ChainRoundTrip(first, fields, limits, r) ==
  LET ends == {k \in DOMAIN fields : fields[k].tag = 9}
      upTo == IF ends = {} THEN 0 ELSE CHOOSE k \in ends : \A j \in ends : k <= j
      whole == DecodeFieldChain(r.chain, first, -1, limits)
      prefix == DecodeFieldChain(r.chain, first, 9, limits)
  IN  /\ whole.ok /\ whole.fields = fields
      /\ prefix.ok = (ends # {}) /\ (prefix.ok => prefix.fields = SubSeq(fields, 1, upTo))

(* "so a decoder can detect dropped or reordered fields": a chain that lost*)
(* a field, or in which two neighbours changed places, is refused unless   *)
(* the field repeats the tag before it.                                    *)
DamageIsRefused(first, fields, limits, r) ==
  LET n == Len(fields)
      Before(k) == IF k = 1 THEN first ELSE fields[k - 1].tag
      Swapped(k) == [r.chain EXCEPT ![k] = r.chain[k + 1], ![k + 1] = r.chain[k]]
  IN  /\ \A k \in 1..(n - 1) : DecodeFieldChain(RemoveAt(r.chain, k), first, -1, limits).ok => fields[k].tag = Before(k)
      /\ \A k \in 1..(n - 1) : DecodeFieldChain(Swapped(k), first, -1, limits).ok =>
           fields[k].tag = Before(k) /\ fields[k + 1].tag = Before(k)
=============================================================================
