---------------------------------- MODULE Cut ---------------------------------
(***************************************************************************)
(* A call in the classic Unicode (CUT) protocol, from both ends: the       *)
(* request of internal/cpic/function.go and its reader in                  *)
(* internal/rfcserver/request.go, the responses of internal/rfcserver and  *)
(* their reader in internal/cpic and internal/classicrfc.                  *)
(*                                                                         *)
(* A payload is [prefix, chain, trailer].  A name is the sequence of its   *)
(* characters; an XML document is a sequence of bytes whose first stands   *)
(* for its root element.                                                   *)
(***************************************************************************)
EXTENDS Envelope

CONSTANTS
  Fragment,    \* appc.MaxApplicationDataFragmentLength, rfcserver maxRecordData
  Chunk        \* cpic.ClassicXrfcXMLChunkLength and the 1024 of xrfcSystemChunks

TagStart == \H0101
TagFunction == \H0102
TagProgram == \H0130
TagParameterName == \H0201
TagParameterValue == \H0203
TagRequestedOutput == \H0205
TagTableName == \H0301
TagTableHeader == \H0302
TagTableContent == \H0303
TagTableCompr == \H0304
TagResponseStart == \H0500
TagContextEnd == \H0502
TagResponseContext == \H0503
TagKernel == \H000B
TagCallContext == \H0512
TagSession == \H0514
TagRfcServerResetDn == \H0523
TagXRfcParameter == \H3C02
TagXRfcData == \H3C05
TagCompactFlag == \H4000
TagCompactRequest == \H4001
TagCompactResponse == \H4002
TagCompactEnd == \H4004
MaxCompactBytes == 67108864
Metric == \H0667
Limits == [field |-> 268435456, chain |-> 268435456, count |-> 100000]

Field(tag, value) == [tag |-> tag, value |-> value]
Concat(seqs) == FoldLeft(LAMBDA a, b : a \o b, <<>>, seqs)
EachOf(F(_), s) == Concat([k \in DOMAIN s |-> F(s[k])])
BigEndian(n) == <<(n \div 16777216) % 256, (n \div 65536) % 256, (n \div 256) % 256, n % 256>>
FromBigEndian(b) == 16777216 * b[1] + 65536 * b[2] + 256 * b[3] + b[4]
Distinct(s) == \A j, k \in DOMAIN s : s[j] = s[k] => j = k
NamesOf(s) == [k \in DOMAIN s |-> s[k].name]

(* unicodeBytes, and encodeName on the server's side.                      *)
IsName(name, max) == Len(name) \in 1..max /\ \A k \in DOMAIN name : name[k] # 0
(* Mutant: a last chunk that is not full is left out.                      *)
Mut_FullChunksOnly(xml) ==
  [k \in 1..(Len(xml) \div Chunk) |-> Field(TagXRfcData, SubSeq(xml, Chunk * (k - 1) + 1, Chunk * k))]
XmlChunks(xml) ==
  [k \in 1..((Len(xml) + Chunk - 1) \div Chunk) |->
     Field(TagXRfcData, SubSeq(xml, Chunk * (k - 1) + 1, IF Chunk * k > Len(xml) THEN Len(xml) ELSE Chunk * k))]
XmlFields(xml) == <<Field(TagXRfcParameter, <<>>)>> \o XmlChunks(xml) \o <<Field(TagXRfcParameter, <<>>)>>
NamedFields(p) == <<Field(TagParameterName, Utf16(p.name)), Field(TagParameterValue, p.value)>>
Geometry8(t) == BigEndian(t.width) \o BigEndian(Len(t.rows))
TableFields(t, rowTag) ==
  <<Field(TagTableName, Utf16(t.name)), Field(TagTableHeader, Geometry8(t))>>
    \o [k \in DOMAIN t.rows |-> Field(rowTag, t.rows[k])]

-----------------------------------------------------------------------------
(* packetTrailer: compact with the size of what comes before, or a bare    *)
(* sentinel.                                                               *)
Mut_SizeOffByTwo(length) ==
  IF length > Fragment THEN [kind |-> "sentinel", size |-> 0, bytes |-> 2]
  ELSE [kind |-> "compact", size |-> length, bytes |-> 10]
packetTrailer(length) ==
  IF length + 2 > Fragment THEN [kind |-> "sentinel", size |-> 0, bytes |-> 2]
  ELSE [kind |-> "compact", size |-> length + 2, bytes |-> 10]

RequestFields(in) ==
  <<Field(TagKernel, Utf16(in.kernel)), Field(TagFunction, Utf16(in.function)), Field(TagCallContext, <<>>)>>
    \o [k \in DOMAIN in.outputs |-> Field(TagRequestedOutput, Utf16(in.outputs[k]))]
    \o EachOf(NamedFields, in.imports)
    \o EachOf(LAMBDA t : TableFields(t, TagTableCompr), in.tables)
    \o EachOf(LAMBDA x : XmlFields(x.value), in.xrfc)
    \o <<Field(EndTag, <<>>)>>

(* EncodeCutFunctionRequest.                                               *)
RequestIsSound(in) ==
  /\ Distinct(in.outputs) /\ Distinct(NamesOf(in.imports) \o NamesOf(in.tables) \o NamesOf(in.xrfc))
  /\ Len(in.kernel) = 3 /\ \A k \in 1..3 : IsDigit(in.kernel[k])
  /\ IsName(in.function, 40)
  /\ \A name \in {in.outputs[k] : k \in DOMAIN in.outputs} : IsName(name, 30)
  /\ \A s \in {in.imports, in.tables, in.xrfc} : \A k \in DOMAIN s : IsName(s[k].name, 30)
  /\ \A k \in DOMAIN in.tables : \A r \in DOMAIN in.tables[k].rows : Len(in.tables[k].rows[r]) = in.tables[k].width
  /\ \A k \in DOMAIN in.xrfc : in.xrfc[k].value # <<>>
EncodeCutFunctionRequest(in) ==
  LET chain == EncodeFieldChain(TagContextEnd, RequestFields(in), Limits)
  IN  IF ~RequestIsSound(in) \/ ~chain.ok THEN Refused
      ELSE [ok |-> TRUE,
            payload |-> [prefix |-> "request", chain |-> chain.chain,
                         trailer |-> packetTrailer(4 + FieldChainByteLength(RequestFields(in)))]]

ChainBytes(chain) == FieldChainByteLength([k \in DOMAIN chain |-> [tag |-> 0, value |-> chain[k].value]])
PayloadBytes(p) == 4 + ChainBytes(p.chain) + p.trailer.bytes
(* InspectRequestAppcFraming.                                              *)
InspectRequestAppcFraming(p) ==
  LET n == PayloadBytes(p)
      last == p.chain[Len(p.chain)]
  IN  IF p.trailer.kind = "compact" /\ p.trailer.size = n - 8 /\ n - 8 <= Fragment
      THEN [ok |-> TRUE, mode |-> "compact", application |-> n - 8, sap |-> 8]
      ELSE IF n > Fragment /\ p.trailer.kind = "sentinel" /\ last.header.tag = EndTag /\ last.value = <<>>
      THEN [ok |-> TRUE, mode |-> "streamed", application |-> n, sap |-> 0]
      ELSE Refused

-----------------------------------------------------------------------------
(* Text in the byte order the opening field declares, or in the one its    *)
(* zero bytes suggest, without trailing blanks and NULs.                   *)
Mut_OrderIgnored(fields) == "little"
utf16Order(fields) ==
  LET starts == SelectSeq(fields, LAMBDA f : f.tag = TagStart /\ Len(f.value) >= 2)
  IN  IF starts = <<>> THEN "unknown"
      ELSE IF starts[1].value[2] = 1 THEN "little" ELSE IF starts[1].value[2] = 2 THEN "big" ELSE "unknown"
LooksBigEndian(b) ==
  LET pairs == 1..(Len(b) \div 2)
  IN  Cardinality({k \in pairs : b[2 * k - 1] = 0 /\ b[2 * k] # 0}) > Cardinality({k \in pairs : b[2 * k] = 0 /\ b[2 * k - 1] # 0})
TrimBlankNul(text) ==
  SubSeq(text, 1, Len(text) - FoldLeft(LAMBDA n, c : IF c \in {0, Blank} THEN n + 1 ELSE 0, 0, text))
decodeUTF16(b, order) ==
  LET big == order = "big" \/ (order = "unknown" /\ LooksBigEndian(b))
  IN  TrimBlankNul([k \in 1..(Len(b) \div 2) |-> IF big THEN 256 * b[2 * k - 1] + b[2 * k] ELSE b[2 * k - 1] + 256 * b[2 * k]])

(* Raw DEFLATE, external: a stream is its document behind a mark.          *)
Deflate(doc) == <<256>> \o doc
Inflate(stream) == IF stream # <<>> /\ stream[1] = 256 THEN [ok |-> TRUE, doc |-> Tail(stream)] ELSE Refused

(* decodeFunctionRequest, a field at a time.                               *)
NoRequest ==
  [ok |-> TRUE, compact |-> <<>>, deflated |-> FALSE, hasCompact |-> FALSE, function |-> <<>>, kernel |-> <<>>, outputs |-> <<>>, imports |-> <<>>, tables |-> <<>>, xrfc |-> <<>>,
   session |-> <<>>, pending |-> <<>>, inXml |-> FALSE, xml |-> <<>>, boundary |-> <<>>]
Mut_BoundaryNames(req, boundary) == boundary
RootName(req, boundary) == IF req.xml = <<>> THEN <<>> ELSE <<req.xml[1]>>
CloseXml(req) ==
  LET name == RootName(req, req.boundary)
  IN  IF req.xml = <<>> \/ (req.boundary # <<>> /\ req.boundary # name) THEN [req EXCEPT !.ok = FALSE]
      ELSE [req EXCEPT !.xrfc = Append(@, [name |-> name, value |-> req.xml]), !.inXml = FALSE, !.xml = <<>>]
RequestField(req, f, order) ==
  LET text == decodeUTF16(f.value, order)
      n == Len(req.tables)
      Fail == [req EXCEPT !.ok = FALSE]
  IN  IF ~req.ok THEN req
      ELSE CASE f.tag = TagKernel -> [req EXCEPT !.kernel = text]
        [] f.tag = TagFunction -> [req EXCEPT !.function = text]
        [] f.tag = TagRequestedOutput -> [req EXCEPT !.outputs = Append(@, text)]
        [] f.tag = TagParameterName -> IF req.pending # <<>> THEN Fail ELSE [req EXCEPT !.pending = <<text>>]
        [] f.tag = TagParameterValue ->
             IF req.pending = <<>> THEN Fail
             ELSE [req EXCEPT !.imports = Append(@, [name |-> req.pending[1], value |-> f.value]), !.pending = <<>>]
        [] f.tag = TagTableName -> [req EXCEPT !.tables = Append(@, [name |-> text, width |-> 0, rows |-> <<>>, id |-> <<>>])]
        [] f.tag = \H0330 -> IF n = 0 THEN req ELSE [req EXCEPT !.tables[n].id = f.value]
        [] f.tag = TagTableHeader ->
             IF n = 0 \/ Len(f.value) < 8 THEN Fail ELSE [req EXCEPT !.tables[n].width = FromBigEndian(f.value)]
        [] f.tag = TagTableCompr -> IF n = 0 THEN Fail ELSE [req EXCEPT !.tables[n].rows = Append(@, f.value)]
        [] f.tag = TagSession -> IF req.session = <<>> /\ Len(f.value) = 16 THEN [req EXCEPT !.session = f.value] ELSE req
        [] f.tag = TagCompactFlag -> [req EXCEPT !.deflated = Len(f.value) = 2 /\ f.value[2] = 1, !.hasCompact = TRUE]
        [] f.tag = TagCompactRequest -> [req EXCEPT !.compact = @ \o f.value, !.hasCompact = TRUE]
        [] f.tag = TagXRfcParameter -> IF req.inXml THEN CloseXml(req) ELSE [req EXCEPT !.inXml = TRUE, !.boundary = text]
        [] f.tag = TagXRfcData -> [req EXCEPT !.xml = @ \o f.value]
        [] OTHER -> req
RequestOf(req) ==
  LET inflated == Inflate(req.compact)
  IN  IF ~req.ok \/ req.pending # <<>> \/ req.function = <<>> THEN Refused
      ELSE IF ~(req.hasCompact /\ req.deflated) THEN req
      ELSE IF inflated.ok /\ Len(inflated.doc) <= MaxCompactBytes THEN [req EXCEPT !.compact = inflated.doc] ELSE Refused
ReadFields(fields, order) == FoldLeft(LAMBDA r, f : RequestField(r, f, order), NoRequest, fields)
RequestIn(decoded) ==
  IF decoded.ok THEN RequestOf(ReadFields(decoded.fields, utf16Order(decoded.fields))) ELSE Refused
decodeFunctionRequest(chain, first) == RequestIn(DecodeFieldChain(chain, first, EndTag, Limits))

(* DecodeFunctionRequest: with the CUT prefix, or the way Eclipse sends it.*)
DecodeFunctionRequest(p) ==
  decodeFunctionRequest(p.chain, IF p.prefix = "request" THEN TagContextEnd ELSE 0)

-----------------------------------------------------------------------------
SameRequest(in, req) ==
  LET Plain(t) == [name |-> t.name, width |-> t.width, rows |-> t.rows]
  IN  /\ req.ok
      /\ req.function = in.function /\ req.kernel = in.kernel /\ req.outputs = in.outputs /\ req.imports = in.imports
      /\ [k \in DOMAIN req.tables |-> Plain(req.tables[k])] = [k \in DOMAIN in.tables |-> Plain(in.tables[k])]
      /\ req.xrfc = in.xrfc
(* What EncodeCutFunctionRequest sends, DecodeFunctionRequest reads: the   *)
(* function, the outputs asked for, every import, table and document, and  *)
(* the names of the documents, which only the documents carry.             *)
RequestRoundTrip(in, r) == SameRequest(in, DecodeFunctionRequest(r.payload))

(* InspectRequestAppcFraming finds in every request the split that the     *)
(* fragmentation planner demands: compact exactly when the application data*)
(* fits one record, with a tail that declares its length, and streamed     *)
(* otherwise.                                                              *)
FramingAgrees(r) ==
  LET framing == InspectRequestAppcFraming(r.payload)
  IN  /\ framing.ok /\ framing.application + framing.sap = PayloadBytes(r.payload)
      /\ (framing.mode = "compact") = (framing.application <= Fragment)
      /\ framing.mode = "compact" => r.payload.trailer.size = framing.application

(* A request the way Eclipse frames it.                                    *)
TextTagsOfRequest == {TagKernel, TagFunction, TagRequestedOutput, TagParameterName, TagTableName}
Flip(b) == [k \in DOMAIN b |-> IF k % 2 = 1 THEN b[k + 1] ELSE b[k - 1]]
Flipped(fields, big) ==
  [k \in DOMAIN fields |->
     LET f == fields[k] IN IF big /\ f.tag \in TextTagsOfRequest THEN Field(f.tag, Flip(f.value)) ELSE f]
EclipseFields(in, declared, big, doc, deflated) ==
  LET document == IF doc = <<>> THEN <<>>
                  ELSE <<Field(TagCompactFlag, <<1, IF deflated THEN 1 ELSE 0>>)>>
                         \o EachOf(LAMBDA c : <<Field(TagCompactRequest, c.value)>>, XmlChunks(IF deflated THEN Deflate(doc) ELSE doc))
                         \o <<Field(TagCompactEnd, <<>>)>>
  IN  <<Field(TagStart, IF ~declared THEN <<4, 3>> ELSE IF big THEN <<4, 2>> ELSE <<4, 1>>)>>
        \o Front(Flipped(RequestFields(in), big)) \o document \o <<Field(EndTag, <<>>)>>
SameButCompact(got, req, doc) ==
  /\ got.ok /\ got.compact = doc
  /\ [got EXCEPT !.compact = <<>>, !.hasCompact = FALSE, !.deflated = FALSE] = req
(* The same request as Eclipse frames it, without the CUT prefix, in either*)
(* byte order, declared or left to be guessed, reads the same; a compact   *)
(* document comes out as it was, deflated or not.                          *)
EclipseReadsTheSame(in, r) ==
  LET req == DecodeFunctionRequest(r.payload)
  IN  \A declared \in BOOLEAN, big \in BOOLEAN, deflated \in BOOLEAN, doc \in {<<>>, <<1, 2, 3>>} :
        LET chain == EncodeFieldChain(0, EclipseFields(in, declared, big, doc, deflated), Limits).chain
        IN  SameButCompact(DecodeFunctionRequest([prefix |-> "none", chain |-> chain, trailer |-> r.payload.trailer]), req, doc)
=============================================================================
