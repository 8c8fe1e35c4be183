------------------------------- MODULE CutResult ------------------------------
(***************************************************************************)
(* The answer to a CUT call: the encoders of internal/rfcserver and the    *)
(* readers of internal/cpic/function.go and internal/classicrfc.           *)
(*                                                                         *)
(* A response is [exports, tables, xrfc, outputs, compact, compactName]; an*)
(* export is [name, value], a table [name, width, rows, id], an output     *)
(* [name, value, xml]; compact is empty or holds one document.             *)
(***************************************************************************)
EXTENDS Cut

Success == Field(Control0420, <<0, 0, 0, 0>>)
Output(name) == Field(TagRequestedOutput, Utf16(name))
ResponsePayload(fields) ==
  LET chain == EncodeFieldChain(TagResponseStart, fields \o <<Field(EndTag, <<>>)>>, Limits)
  IN  IF chain.ok THEN [ok |-> TRUE, payload |-> [prefix |-> "response", chain |-> chain.chain, trailer |-> <<255, 255>>]]
      ELSE Refused
HasNames(resp) == \A s \in {resp.exports, resp.tables} : \A k \in DOMAIN s : Len(s[k].name) \in 1..30
FullRows(t) == \A k \in DOMAIN t.rows : Len(t.rows[k]) = t.width

(* EncodeCutFunctionResponse.                                              *)
EncodeCutFunctionResponse(resp) ==
  IF ~HasNames(resp) \/ (\E k \in DOMAIN resp.xrfc : resp.xrfc[k].value = <<>>)
     \/ (\E k \in DOMAIN resp.tables : resp.tables[k].width # 0 /\ ~FullRows(resp.tables[k])) THEN Refused
  ELSE ResponsePayload(<<Success>> \o EachOf(NamedFields, resp.exports)
                       \o EachOf(LAMBDA t : TableFields(t, TagTableCompr), resp.tables)
                       \o EachOf(LAMBDA x : XmlFields(x.value), resp.xrfc))

(* swapRFCGUID: the four groups of a GUID in the other byte order.         *)
Guid(guid) == IF Len(guid) = 16 THEN <<Field(TagSession, guid)>> ELSE <<>>
SwapRFCGUID(g) ==
  IF Len(g) # 16 THEN g
  ELSE <<g[4], g[3], g[2], g[1], g[6], g[5], g[8], g[7]>> \o SubSeq(g, 9, 16)
Program == Field(TagProgram, Utf16(<<79>> \o Fill(Blank, 39)))

(* EncodeCutFunctionResponseS4: rows go out as they are.                   *)
EncodeCutFunctionResponseS4(resp, guid) ==
  IF ~HasNames(resp) \/ (\E k \in DOMAIN resp.xrfc : resp.xrfc[k].value = <<>>) THEN Refused
  ELSE ResponsePayload(<<Field(TagResponseContext, <<>>)>> \o Guid(SwapRFCGUID(guid)) \o <<Success, Field(TagCallContext, <<>>)>>
                       \o [k \in DOMAIN resp.exports |-> Output(resp.exports[k].name)]
                       \o EachOf(NamedFields, resp.exports)
                       \o EachOf(LAMBDA t : TableFields(t, TagTableCompr), resp.tables)
                       \o EachOf(LAMBDA x : XmlFields(x.value), resp.xrfc)
                       \o <<Program, Field(Metric, Fill(0, 8)), Field(\H0104, <<1>>)>>)

(* EncodeCutFunctionExceptionResponse.  Mutant: under the message's tag.   *)
Mut_KeyAsMessage(key) == IF key = <<>> THEN Refused ELSE ResponsePayload(<<Field(ErrorMessage, Utf16(key))>>)
EncodeCutFunctionExceptionResponse(key) ==
  IF key = <<>> THEN Refused ELSE ResponsePayload(<<Field(ExceptionKey, Utf16(key))>>)

-----------------------------------------------------------------------------
(* EncodeEclipseResponse: the root element alone in the first chunk, a     *)
(* table under the number its caller gave it.                              *)
SystemChunks(x) ==
  LET open == Len(x.value) >= Len(x.name) /\ SubSeq(x.value, 1, Len(x.name)) = x.name
      rest == IF open THEN SubSeq(x.value, Len(x.name) + 1, Len(x.value)) ELSE x.value
  IN  <<Field(TagXRfcParameter, <<>>)>> \o (IF open THEN <<Field(TagXRfcData, x.name)>> ELSE <<>>)
        \o XmlChunks(rest) \o <<Field(TagXRfcParameter, <<>>)>>
EclipseTable(t) ==
  IF Len(t.id) # 4 THEN TableFields(t, TagTableContent)
  ELSE <<Field(\H0335, BigEndian(10) \o t.id \o BigEndian(Len(t.rows))), Field(TagTableHeader, Geometry8(t))>>
         \o [k \in DOMAIN t.rows |-> Field(TagTableContent, t.rows[k])] \o <<Field(\H0336, t.id)>>
CompactFields(doc) ==
  <<Field(TagCompactFlag, <<1, 1>>)>>
    \o [k \in DOMAIN XmlChunks(Deflate(doc)) |-> Field(TagCompactResponse, XmlChunks(Deflate(doc))[k].value)]
    \o <<Field(TagCompactEnd, <<>>)>>
EncodeEclipseResponse(resp, guid) ==
  LET tables == resp.tables
      first == IF tables # <<>> /\ Len(tables[1].id) = 4 THEN <<Field(\H0331, tables[1].id)>> ELSE <<>>
      compact == resp.compact # <<>>
      As(seq, xml) == [k \in DOMAIN seq |-> [name |-> seq[k].name, value |-> seq[k].value, xml |-> xml]]
      outputs == IF resp.outputs # <<>> THEN resp.outputs ELSE As(resp.exports, FALSE) \o As(resp.xrfc, TRUE)
  IN  IF \/ \E k \in DOMAIN outputs : ~outputs[k].xml /\ Len(outputs[k].name) \notin 1..30
         \/ \E k \in DOMAIN tables : IF Len(tables[k].id) = 4 THEN ~FullRows(tables[k]) ELSE Len(tables[k].name) \notin 1..30
      THEN Refused
      ELSE ResponsePayload(first \o <<Field(TagResponseContext, <<>>)>> \o Guid(guid) \o <<Success, Field(TagCallContext, <<>>)>>
             \o [k \in DOMAIN outputs |-> Output(outputs[k].name)]
             \o (IF compact THEN <<Output(resp.compactName)>> ELSE <<>>)
             \o EachOf(LAMBDA o : IF o.xml THEN SystemChunks(o) ELSE NamedFields(o), outputs)
             \o (IF compact THEN CompactFields(resp.compact[1]) ELSE <<>>)
             \o <<Program>> \o EachOf(EclipseTable, tables) \o <<Field(Metric, Fill(0, 8))>>
             \o (IF compact THEN <<Field(TagRfcServerResetDn, <<>>)>> ELSE <<>>))

(* eclipseRecords: pieces of at most a record's data; the last one has room*)
(* for the eight bytes of the final SAP parameters.                        *)
Mut_ShortTail(pieces) == pieces
TopUp(pieces) ==
  LET n == Len(pieces)
      last == pieces[n]
      prev == pieces[n - 1]
      take == 8 - Len(last)
  IN  IF n = 1 \/ take <= 0 THEN pieces
      ELSE [pieces EXCEPT ![n - 1] = SubSeq(prev, 1, Len(prev) - take),
                          ![n] = SubSeq(prev, Len(prev) - take + 1, Len(prev)) \o last]
eclipseRecords(cut) ==
  LET total == Len(cut)
      count == IF total <= Fragment THEN 1 ELSE (total + Fragment - 1) \div Fragment
      pieces == [k \in 1..count |-> SubSeq(cut, Fragment * (k - 1) + 1, IF Fragment * k > total THEN total ELSE Fragment * k)]
  IN  [k \in 1..count |-> [verb |-> IF k = 1 THEN "SapSend" ELSE "Receive", final |-> k = count, data |-> TopUp(pieces)[k]]]

-----------------------------------------------------------------------------
(* decodeFunctionResponseEnvelope and what it allows besides.              *)
S4ExtensionTags == {TagXRfcParameter, TagXRfcData, \H0104, \H0331, \H0333, \H0334, \H0335, \H0336}
WithOutcome(envelope, fields) ==
  IF envelope.ok THEN [ok |-> TRUE, success |-> envelope.outcome = "success", envelope |-> envelope, fields |-> fields]
  ELSE Refused
decodeFunctionResponseFields(fields, additional) ==
  WithOutcome(DecodeEnvelope(fields, additional \cup {TagProgram, Metric}, [DefaultEnvelopeLimits EXCEPT !.fields = 100000]), fields)
FramedResponse(p, decoded, additional) ==
  IF p.prefix # "response" \/ ~decoded.ok THEN Refused
  ELSE IF decoded.consumed # Len(p.chain) \/ p.trailer # <<255, 255>> THEN Refused
  ELSE decodeFunctionResponseFields(decoded.fields, additional)
decodeFunctionResponseEnvelope(p, additional) ==
  FramedResponse(p, DecodeFieldChain(p.chain, TagResponseStart, EndTag, Limits), additional)
DecodeFunctionResultFields(p) == decodeFunctionResponseEnvelope(p, S4ExtensionTags)
DecodeResetServerContextResultFields(p) ==
  LET decoded == decodeFunctionResponseEnvelope(p, {TagRfcServerResetDn})
      done == SelectSeq(decoded.fields, LAMBDA f : f.tag = TagRfcServerResetDn)
  IN  IF ~decoded.ok THEN Refused
      ELSE IF Len(done) > 1 \/ (Len(done) = 1 /\ done[1].value # <<>>) THEN Refused ELSE decoded

-----------------------------------------------------------------------------
(* classicrfc: names, rows, and decodeResult.                              *)
NonApplicationTags == {TagResponseContext, TagSession, Control0420, TagCallContext, TagProgram, Metric, EndTag}
decodeParameterName(v) ==
  LET name == TrimRight(FromUtf16(v))
  IN  IF Len(v) % 2 # 0 \/ name = <<>> \/ (\E k \in DOMAIN name : name[k] < 32 \/ name[k] = 127) THEN Refused
      ELSE [ok |-> TRUE, name |-> name]
(* A shortened row is filled with its last byte.                           *)
Expand(v, width) == v \o Fill(v[Len(v)], width - Len(v))
Row(f, width, strict, limits) ==
  LET v == f.value
  IN  IF f.tag = TagTableContent
      THEN IF strict /\ Len(v) \notin 1..width THEN Refused ELSE [ok |-> TRUE, row |-> v]
      ELSE IF Len(v) \notin 1..width \/ (Len(v) < width /\ width > limits.field) THEN Refused
      ELSE [ok |-> TRUE, row |-> Expand(v, width)]

(* What is read so far, and what must come next.                           *)
NoResult ==
  [ok |-> TRUE, mode |-> "top", outputs |-> <<>>, scalars |-> <<>>, tables |-> <<>>, xrfc |-> <<>>, names |-> {}, bytes |-> 0,
   name |-> <<>>, width |-> 0, left |-> 0, rows |-> <<>>, tags |-> {}, xml |-> <<>>, strict |-> TRUE]
Encoding(tags, strict) ==
  IF tags = {TagTableContent, TagTableCompr} THEN "mixed" ELSE IF tags = {TagTableCompr} THEN "structured"
  ELSE IF tags = {} /\ strict THEN "empty" ELSE "flat"
Close(got) ==
  IF got.left > 0 THEN got
  ELSE [got EXCEPT !.mode = "top", !.names = IF got.strict THEN @ \cup {got.name} ELSE @,
                   !.tables = Append(@, [name |-> got.name, width |-> got.width, rows |-> got.rows,
                                         encoding |-> Encoding(got.tags, got.strict)])]
(* Nothing half read is left.                                              *)
Complete(got) == got.mode = "top"

S4Name(id) == <<83, 52, 84, 65, 66, FromBigEndian(id)>>
Top(got, f) ==
  LET name == decodeParameterName(f.value)
      Fail == [got EXCEPT !.ok = FALSE]
      Expect(mode) == IF name.ok THEN [got EXCEPT !.mode = mode, !.name = name.name, !.strict = TRUE] ELSE Fail
      S4(mode) == IF Len(f.value) < 12 THEN Fail
                  ELSE [got EXCEPT !.mode = mode, !.name = S4Name(SubSeq(f.value, 5, 8)), !.strict = FALSE,
                                   !.left = FromBigEndian(SubSeq(f.value, 9, 12))]
  IN  CASE f.tag \in NonApplicationTags \cup {\H0331, \H0336, \H0104} -> got
        [] f.tag = TagRequestedOutput -> IF name.ok THEN [got EXCEPT !.outputs = Append(@, name.name)] ELSE Fail
        [] f.tag = TagXRfcParameter -> IF f.value = <<>> THEN [got EXCEPT !.mode = "xml", !.xml = <<>>] ELSE Fail
        [] f.tag = TagParameterName -> Expect("value")
        [] f.tag = TagTableName -> Expect("header")
        [] f.tag = \H0335 -> S4("header")
        [] f.tag = \H0333 -> S4("native")
        [] OTHER -> Fail
ResultField(got, f, limits) ==
  LET Fail == [got EXCEPT !.ok = FALSE]
      row == Row(f, got.width, got.strict, limits)
      n == got.left
      size == IF n = 0 THEN 0 ELSE Len(f.value) \div n
  IN  IF ~got.ok THEN got
      ELSE CASE got.mode = "top" -> Top(got, f)
        [] got.mode = "value" ->
             IF f.tag # TagParameterValue \/ got.name \in got.names THEN Fail
             ELSE [got EXCEPT !.mode = "top", !.names = @ \cup {got.name}, !.scalars = Append(@, [name |-> got.name, value |-> f.value])]
        [] got.mode = "header" ->
             IF f.tag # TagTableHeader \/ Len(f.value) # 8 \/ (got.strict /\ got.name \in got.names) THEN Fail
             ELSE Close([got EXCEPT !.mode = "rows", !.width = FromBigEndian(f.value), !.left = FromBigEndian(SubSeq(f.value, 5, 8)),
                                    !.rows = <<>>, !.tags = {}])
        [] got.mode = "rows" ->
             IF f.tag \notin {TagTableContent, TagTableCompr} THEN Fail
             ELSE IF ~row.ok THEN Fail
             ELSE Close([got EXCEPT !.rows = Append(@, row.row), !.left = @ - 1, !.tags = @ \cup {f.tag},
                                    !.bytes = IF got.strict THEN @ + Len(row.row) ELSE @])
        [] got.mode = "xml" ->
             IF f.tag = TagXRfcData /\ f.value # <<>> THEN [got EXCEPT !.xml = @ \o f.value]
             ELSE IF f.tag = TagXRfcParameter /\ f.value = <<>> /\ got.xml # <<>>
             THEN [got EXCEPT !.mode = "top", !.xrfc = Append(@, got.xml)] ELSE Fail
        [] got.mode = "native" ->
             IF f.tag # \H0334 \/ (n > 0 /\ Len(f.value) % n # 0) THEN Fail
             ELSE Close([got EXCEPT !.width = size, !.left = 0, !.tags = {},
                                    !.rows = [k \in 1..n |-> SubSeq(f.value, size * (k - 1) + 1, size * k)]])
Judged(got, fields, limits) ==
  IF got.ok /\ Complete(got) /\ got.bytes <= limits.chain /\ Bytes(fields, {fields[k].tag : k \in DOMAIN fields}) <= limits.chain
     /\ Len(fields) <= limits.count
  THEN got ELSE Refused
DecodeResult(fields, limits) == Judged(FoldLeft(LAMBDA g, f : ResultField(g, f, limits), NoResult, fields), fields, limits)

-----------------------------------------------------------------------------
(* The client's reading of a response.                                     *)
ReadOutcome(decoded) ==
  IF ~decoded.ok THEN Refused ELSE IF ~decoded.success THEN Refused ELSE DecodeResult(decoded.fields, Limits)
ReadAnswer(p) == ReadOutcome(DecodeFunctionResultFields(p))
WellFormed(resp) ==
  LET names == NamesOf(resp.exports) \o NamesOf(resp.tables)
  IN  /\ Distinct(names)
      /\ \A k \in DOMAIN resp.tables : FullRows(resp.tables[k]) /\ (resp.tables[k].rows # <<>> => resp.tables[k].width > 0)
      /\ \A k \in DOMAIN resp.xrfc : resp.xrfc[k].value # <<>>
SameAnswer(resp, got) ==
  /\ got.scalars = resp.exports
  /\ [k \in DOMAIN got.tables |-> got.tables[k].rows] = [k \in DOMAIN resp.tables |-> resp.tables[k].rows]
  /\ \A k \in DOMAIN got.tables :
       got.tables[k].name \in {resp.tables[k].name} \cup (IF Len(resp.tables[k].id) = 4 THEN {S4Name(resp.tables[k].id)} ELSE {})
  /\ got.xrfc = [k \in DOMAIN resp.xrfc |-> resp.xrfc[k].value]

GotAnswer(kind, resp, got) ==
  /\ WellFormed(resp) => got.ok
  /\ got.ok /\ (kind = "cut" \/ WellFormed(resp)) => SameAnswer(resp, got)
(* What a handler answers is what the client's decodeResult reads, in each *)
(* of the three envelopes of the server; and EncodeCutFunctionResponse,    *)
(* which checks the width of a row, sends nothing that would be read as    *)
(* something else.                                                         *)
AnswerIsExact(kind, resp, r) == GotAnswer(kind, resp, ReadAnswer(r.payload))

(* An answer that lost a record on the way is not read as a shorter answer:*)
(* the chain or the row counts give it away.  Only the echoed names of the *)
(* outputs and the chunks of a document have nothing that counts them.     *)
LossIsNoticed(r) ==
  \A k \in 1..(Len(r.payload.chain) - 1) :
    LET tag == r.payload.chain[k].header.tag
    IN  ReadAnswer([r.payload EXCEPT !.chain = RemoveAt(@, k)]).ok => tag \in {TagRequestedOutput, TagXRfcData}

Raises(key, got) ==
  /\ got.ok = (IsStrictUTF16LE(Utf16(key)) /\ TrimRight(key) # <<>>)
  /\ got.ok => got.envelope.outcome = "abapException" /\ got.envelope.facts[ExceptionKey] = TrimRight(key)
(* An exception that a handler raises reaches the caller as the declared   *)
(* exception of that name: EncodeCutFunctionExceptionResponse.             *)
ExceptionIsRaised(key, r) == Raises(key, decodeFunctionResponseEnvelope(r.payload, {}))

(* The records of eclipseRecords carry the answer, none too large, only    *)
(* the last one final and that one never shorter than the eight bytes of   *)
(* the final SAP parameters, unless the whole answer is.                   *)
RecordsCarryTheAnswer(cut, records) ==
  LET n == Len(records)
  IN  /\ Concat([k \in 1..n |-> records[k].data]) = cut
      /\ \A k \in 1..n : Len(records[k].data) <= Fragment /\ records[k].final = (k = n) /\ (n > 1 => records[k].data # <<>>)
      /\ n > 1 => Len(records[n].data) >= 8
=============================================================================
