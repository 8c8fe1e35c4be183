--------------------------------- MODULE Call ---------------------------------
(***************************************************************************)
(* rfc/call.go, rfc/coerce.go and rfc/describe.go: how the values of a call*)
(* become fields of the request, and the fields of the answer values.      *)
(*                                                                         *)
(* A parameter is [name, class, exid, table, len, dec], an interface a     *)
(* sequence of them; layouts maps the name of a structure to its layout and*)
(* plan the parameters that travel recursively to their kind.  A JSON value*)
(* is [json, text, number, bytes, whole]: a "string" with its characters,  *)
(* the number and the bytes (base64) it may stand for; a json.Number       *)
(* ("number") or a "float64" with its text, its integral part as an int64  *)
(* and whether that is all of it; or "null".                               *)
(***************************************************************************)
EXTENDS Structure

isStructureExid(exid) == exid \in {"u", "v"}
isTableExid(exid) == exid = "h"
IsTableParam(p) == p.class = "T" \/ isTableExid(p.exid)
Text(t) == [type |-> "text", v |-> t]
Good(v) == [ok |-> TRUE, value |-> v]

-----------------------------------------------------------------------------
(* A Go string: decimal and temporal fields read it as a number.           *)
StringFor(exid, j) ==
  IF exid \in Temporal \cup {"P", "a", "e"} /\ j.number # <<>> THEN [type |-> "number", v |-> j.number[1].v] ELSE Text(j.text)
(* coerceScalar: json.Number has no Int64 when it is not whole, a float64  *)
(* loses its fraction in toInt64, and fmt.Sprint makes a text of null.     *)
coerceScalar(exid, j) ==
  CASE exid \in {"I", "s", "b", "8"} ->
         IF j.json = "float64" \/ (j.json = "number" /\ j.whole) THEN Good(j.number[1]) ELSE Refused
    [] exid \in {"F", "a", "e"} ->
         IF j.json \in {"number", "float64"} THEN Good([type |-> "float", v |-> j.number[1].v]) ELSE Refused
    [] exid \in {"X", "y"} ->
         IF j.json = "string" /\ j.bytes # <<>> THEN Good([type |-> "bytes", v |-> j.bytes[1]]) ELSE Refused
    [] OTHER -> Good(StringFor(exid, j))

(* fieldSchema: what the description of a tool says of a value; chars is   *)
(* the length of the field in characters.                                  *)
FieldSchema(exid, chars, j) ==
  LET digits == \A k \in DOMAIN j.text : IsDigit(j.text[k])
  IN  CASE exid \in {"C", "N"} -> j.json = "string" /\ Len(j.text) <= chars /\ (exid = "N" => digits)
        [] exid \in {"I", "s", "b", "8"} -> j.json \in {"number", "float64"} /\ j.whole
        [] exid \in {"F", "a", "e", "P"} -> j.json \in {"number", "float64"}
        [] exid \in {"X", "y"} -> j.json = "string" /\ j.bytes # <<>>
        [] exid = "D" -> j.json = "string" /\ digits /\ Len(j.text) = 8
        [] exid = "T" -> j.json = "string" /\ digits /\ Len(j.text) = 6
        [] OTHER -> j.json = "string"

(* scalarFieldDef, encodeScalar, decodeScalar.                             *)
ScalarFieldDef(p, length) ==
  [name |-> "SCALAR", length |-> length,
   fields |-> <<[table |-> "SCALAR", field |-> "V", pos |-> 1, off |-> 0, len |-> length, dec |-> p.dec, exid |-> p.exid]>>]
(* asInt32: the low word, whatever the high one.                           *)
asInt32(v) == v.v
encodeScalar(p, v) ==
  CASE p.exid = "C" -> IF v.type = "text" THEN EncodeAbapChar(v.v, p.len) ELSE Refused
    [] p.exid = "N" -> IF v.type = "text" /\ Len(v.v) <= p.len
                       THEN EncodeAbapChar(Fill(Zero, p.len - Len(v.v)) \o v.v, p.len) ELSE Refused
    [] p.exid = "I" -> IF v.type = "int" THEN Written(LittleEndian(asInt32(v), 4)) ELSE Refused
    [] p.exid = "X" -> IF v.type = "bytes" /\ Len(v.v) <= p.len THEN Written(v.v \o Fill(0, p.len - Len(v.v))) ELSE Refused
    [] p.exid = "g" -> IF v.type = "text" THEN Written(v.v \o <<0>>) ELSE Refused
    [] p.exid = "y" -> IF v.type = "bytes" THEN Written(v.v) ELSE Refused
    [] OTHER -> Encode(ScalarFieldDef(p, p.len), [V |-> v])
(* Mutant: the terminator of a STRING stays.                               *)
Mut_TerminatorStays(b) == b
TrimNul(b) == IF b # <<>> /\ b[Len(b)] = 0 THEN SubSeq(b, 1, Len(b) - 1) ELSE b
decodeScalar(p, b) ==
  LET Bytes == Good([type |-> "bytes", v |-> b])
      one == Decode(ScalarFieldDef(p, Len(b)), b)
  IN  CASE p.exid \in {"C", "N"} -> IF Len(b) = 2 * p.len THEN Good(Text(TrimRight(FromUtf16(b)))) ELSE Refused
        [] p.exid = "I" -> IF Len(b) >= 4 THEN Good(IntValue(FromLittleEndian(b))) ELSE Refused
        [] p.exid \in {"X", "y"} -> Bytes
        [] p.exid = "g" -> Good(Text(TrimNul(b)))
        [] OTHER -> IF one.ok THEN Good(one.values["V"]) ELSE Bytes

-----------------------------------------------------------------------------
(* encodeCall: where each parameter that is given goes.  A value that      *)
(* travels as XML keeps its kind; the XML itself is left out.              *)
Named(iface, name) == {k \in DOMAIN iface : iface[k].name = name}
NeedsXrfc(def) == HasDynamicFields(def)
Request == [ok |-> TRUE, outputs |-> {}, imports |-> <<>>, tables |-> <<>>, xrfc |-> <<>>]
Xml(p, kind, v) == [name |-> p.name, kind |-> kind, v |-> v]
EncodeTable(req, p, def, rows) ==
  LET encoded == [k \in DOMAIN rows |-> Encode(def, rows[k])]
  IN  IF NeedsXrfc(def) THEN [req EXCEPT !.xrfc = Append(@, Xml(p, "table", rows))]
      ELSE IF \E k \in DOMAIN rows : ~encoded[k].ok THEN Refused
      ELSE [req EXCEPT !.tables = Append(@, [name |-> p.name, rows |-> [k \in DOMAIN rows |-> encoded[k].bytes]])]
EncodeImport(req, p, b) ==
  IF b.ok THEN [req EXCEPT !.imports = Append(@, [name |-> p.name, value |-> b.bytes])] ELSE Refused
(* A recursive table has objects or, of a line type, other values as rows. *)
RecursiveFits(kind, v) == v.type \in (IF kind = "table" THEN {"rows", "lines"} ELSE {"object"})
EncodeParam(req, p, v, layouts, plan) ==
  LET def == layouts[p.table]
  IN  IF p.name \in DOMAIN plan
        THEN IF RecursiveFits(plan[p.name], v) THEN [req EXCEPT !.xrfc = Append(@, Xml(p, "recursive", v))] ELSE Refused
      ELSE IF p.class \notin {"T", "I", "C"} THEN Refused
      ELSE IF IsTableParam(p) THEN IF p.table \in DOMAIN layouts /\ v.type = "rows" THEN EncodeTable(req, p, def, v.v) ELSE Refused
      ELSE IF ~isStructureExid(p.exid) THEN EncodeImport(req, p, encodeScalar(p, v))
      ELSE IF p.table \notin DOMAIN layouts \/ v.type # "object" THEN Refused
      ELSE IF NeedsXrfc(def) THEN [req EXCEPT !.xrfc = Append(@, Xml(p, "structure", v.v))]
      ELSE EncodeImport(req, p, Encode(def, v.v))
EncodeStep(req, p, in, layouts, plan) ==
  LET asked == IF p.class \in {"E", "C", "T"} THEN [req EXCEPT !.outputs = @ \cup {p.name}] ELSE req
  IN  IF ~req.ok THEN req
      ELSE IF p.name \notin DOMAIN in THEN asked ELSE EncodeParam(asked, p, in[p.name], layouts, plan)
EncodeCall(iface, in, layouts, plan) ==
  IF \E name \in DOMAIN in : Named(iface, name) = {} THEN Refused
  ELSE FoldLeft(LAMBDA req, p : EncodeStep(req, p, in, layouts, plan), Request, iface)

(* decodeResult: the answer is [imports, tables, xrfc] of the same shape.  *)
Result == [ok |-> TRUE, scalars |-> <<>>, tables |-> <<>>]
Put(map, name, v) == [n \in DOMAIN map \cup {name} |-> IF n = name THEN v ELSE map[n]]
DecodeScalarStep(out, sc, iface, layouts) ==
  LET p == iface[CHOOSE k \in Named(iface, sc.name) : TRUE]
      flat == DecodeFixedRow(layouts[p.table], sc.value)
      one == decodeScalar(p, sc.value)
  IN  IF ~out.ok THEN out
      ELSE IF Named(iface, sc.name) = {} THEN [out EXCEPT !.scalars = Put(@, sc.name, [type |-> "bytes", v |-> sc.value])]
      ELSE IF isStructureExid(p.exid)
        THEN IF p.table \in DOMAIN layouts /\ flat.ok
             THEN [out EXCEPT !.scalars = Put(@, sc.name, [type |-> "object", v |-> flat.values])] ELSE Refused
      ELSE IF one.ok THEN [out EXCEPT !.scalars = Put(@, sc.name, one.value)] ELSE Refused
DecodeTableStep(out, t, iface, layouts) ==
  LET p == iface[CHOOSE k \in Named(iface, t.name) : TRUE]
      rows == [k \in DOMAIN t.rows |-> DecodeFixedRow(layouts[p.table], t.rows[k])]
  IN  IF ~out.ok THEN out
      ELSE IF Named(iface, t.name) = {} \/ p.table = "" THEN [out EXCEPT !.tables = Put(@, t.name, <<>>)]
      ELSE IF p.table \notin DOMAIN layouts \/ \E k \in DOMAIN rows : ~rows[k].ok THEN Refused
      ELSE [out EXCEPT !.tables = Put(@, t.name, [k \in DOMAIN rows |-> rows[k].values])]
(* Mutant: only table types are tables.                                    *)
Mut_KindByExid(p) == isTableExid(p.exid)
(* An XML parameter must be of the kind that its parameter has.            *)
XmlIsTable(p) == p.class = "T" \/ isTableExid(p.exid)
DecodeXmlStep(out, x, iface, layouts, plan) ==
  LET p == iface[CHOOSE k \in Named(iface, x.name) : TRUE]
      table == IF x.name \in DOMAIN plan THEN plan[x.name] = "table" /\ x.v.type = "rows" ELSE XmlIsTable(p)
      kind == IF x.name \in DOMAIN plan THEN "recursive" ELSE IF table THEN "table" ELSE "structure"
  IN  IF ~out.ok \/ Named(iface, x.name) = {} THEN out
      ELSE IF x.kind # kind \/ (kind # "recursive" /\ p.table \notin DOMAIN layouts) THEN Refused
      ELSE IF kind = "recursive"
        THEN IF table THEN [out EXCEPT !.tables = Put(@, x.name, x.v.v)] ELSE [out EXCEPT !.scalars = Put(@, x.name, x.v)]
      ELSE IF table THEN [out EXCEPT !.tables = Put(@, x.name, x.v)]
      ELSE [out EXCEPT !.scalars = Put(@, x.name, [type |-> "object", v |-> x.v])]
DecodeResult(iface, answer, layouts, plan) ==
  LET scalars == FoldLeft(LAMBDA o, s : DecodeScalarStep(o, s, iface, layouts), Result, answer.imports)
      tables == FoldLeft(LAMBDA o, t : DecodeTableStep(o, t, iface, layouts), scalars, answer.tables)
  IN  FoldLeft(LAMBDA o, x : DecodeXmlStep(o, x, iface, layouts, plan), tables, answer.xrfc)

-----------------------------------------------------------------------------
(* What encodeScalar writes, decodeScalar reads, as a value of the same    *)
(* kind: it never falls back on the raw bytes.  An int64 given for an INT4 *)
(* comes back modulo 2^32: as a parameter it is cut, not refused.          *)
ScalarRoundTrip(p, v, r) ==
  LET f == [exid |-> p.exid, len |-> IF p.exid \in {"C", "N"} THEN 2 * p.len ELSE p.len]
  IN  decodeScalar(p, r.bytes) = Good(IF p.exid \in {"g", "y"} THEN v
                                      ELSE IF p.exid = "I" THEN IntValue(v.v)
                                      ELSE IF p.exid = "N" THEN Text(TrimRight(Canonical(f, v).v)) ELSE Canonical(f, v))

Same(iface, name) == \E k \in Named(iface, name) : iface[k].class \in {"C", "T"}
Sent(p, v, layouts, plan) ==
  LET def == layouts[p.table]
      Row(row) == Decode(def, Encode(def, row).bytes).values
  IN  IF p.name \in DOMAIN plan \/ p.table \notin DOMAIN layouts \/ NeedsXrfc(def) THEN v
      ELSE IF v.type = "rows" THEN [v EXCEPT !.v = [k \in DOMAIN v.v |-> Row(v.v[k])]]
      ELSE IF v.type = "object" THEN [v EXCEPT !.v = Row(v.v)] ELSE v
IsBack(name, sent, back) ==
  IF sent.type = "rows" THEN name \in DOMAIN back.tables /\ back.tables[name] = sent.v
  ELSE name \in DOMAIN back.scalars /\ back.scalars[name] = sent
AllBack(iface, in, layouts, plan, r, back) ==
  /\ back.ok
  /\ \A k \in DOMAIN iface :
       LET p == iface[k]
       IN  Same(iface, p.name) /\ p.name \in DOMAIN in =>
             p.name \in r.outputs /\ IsBack(p.name, Sent(p, in[p.name], layouts, plan), back)
(* A function that changes nothing returns its changing and table          *)
(* parameters as they were sent: each is asked for, goes out in the form in*)
(* which it is read, and ends among the tables only when it is one.        *)
EchoRoundTrip(iface, in, layouts, plan, r) ==
  LET Mine(s) == SelectSeq(s, LAMBDA x : Same(iface, x.name))
      echo == [imports |-> Mine(r.imports), tables |-> Mine(r.tables), xrfc |-> Mine(r.xrfc)]
  IN  AllBack(iface, in, layouts, plan, r, DecodeResult(iface, echo, layouts, plan))

(* Whether a JSON value gets through coerceScalar and the codec, as the    *)
(* field of a structure and as a parameter.                                *)
Takes(exid, chars, dec, j) ==
  LET c == coerceScalar(exid, j)
      bytes == IF exid \in {"C", "N", "D", "T"} THEN 2 * chars ELSE chars
      field == [table |-> "s", field |-> "x", pos |-> 1, off |-> 0, len |-> bytes, dec |-> dec, exid |-> exid]
      def == [name |-> "s", length |-> bytes, fields |-> <<field>>]
  IN  [field |-> c.ok /\ (exid \in {"g", "y"} \/ Encode(def, [x |-> c.value]).ok),
       param |-> c.ok /\ encodeScalar([exid |-> exid, len |-> chars, dec |-> dec], c.value).ok]

(* A value that fits the description of a tool is taken, unless it is an   *)
(* integer beyond the range of its type, which the description does not    *)
(* give: a field refuses it, and so does a parameter, but for the INT4 that*)
(* asInt32 cuts.  Decimal floats, and DATE and TIME as parameters, are not *)
(* taken at all; nor is a number that is not whole for an integer, unless  *)
(* it comes as a float64, which is cut too.                                *)
Holds(exid, n) ==
  CASE exid = "b" -> Within(n, 0, 255)
    [] exid = "s" -> Within(n, -32768, 32767)
    [] exid = "I" -> n = IntValue(n.v)
    [] OTHER -> TRUE
Described(exid, chars, j) == FieldSchema(exid, chars, j) /\ (exid \in Temporal => j.number # <<>>)
DescribedIsHeld(exid, chars, j, r) ==
  LET integer == exid \in {"I", "s", "b", "8"}
      held == integer => Holds(exid, j.number[1])
  IN  /\ (Described(exid, chars, j) \/ (integer /\ j.json = "float64")) /\ exid \notin {"a", "e"} =>
           /\ r.field <=> held
           /\ exid \notin {"D", "T"} => (r.param <=> held \/ exid = "I")
      /\ integer /\ j.json = "number" /\ ~j.whole => ~r.field /\ ~r.param
=============================================================================
