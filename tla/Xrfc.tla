-------------------------------- MODULE Xrfc ----------------------------------
(***************************************************************************)
(* internal/xrfc/classic_xrfc.go: a flat row with STRING or XSTRING fields *)
(* as XML, and the text layer that the recursive codec shares.             *)
(*                                                                         *)
(* Names and texts are sequences of code points.  A document is a sequence *)
(* of tokens <<"open", tag>>, <<"close", tag>> and <<"text", pieces>>; a   *)
(* piece is a character [cp, ref, size], written raw or as a character     *)
(* reference, in size bytes.  Values are those of module Structure, with   *)
(* the text of a packed number (module Decimals) and "temporal" values     *)
(* (module Temporal).  FLOAT and DECF fields are left out.                 *)
(***************************************************************************)
EXTENDS Structure
TM == INSTANCE Temporal

Item == <<105, 116, 101, 109>>
Utf8Length(c) == IF c < 128 THEN 1 ELSE IF c < 2048 THEN 2 ELSE IF c < 65536 THEN 3 ELSE 4
Bytes(text) == FoldLeft(LAMBDA n, c : n + Utf8Length(c), 0, text)
Utf16Len(text) == FoldLeft(LAMBDA n, c : n + (IF c > 65535 THEN 2 ELSE 1), 0, text)
Raw(c) == [cp |-> c, ref |-> FALSE, size |-> Utf8Length(c)]
Reference(c) == [cp |-> c, ref |-> TRUE, size |-> 5]
Size(pieces) == FoldLeft(LAMBDA n, p : n + p.size, 0, pieces)
Chars(pieces) == [k \in DOMAIN pieces |-> pieces[k].cp]
TokenSize(t) ==
  CASE t[1] = "open" -> Bytes(t[2]) + 2 [] t[1] = "close" -> Bytes(t[2]) + 3 [] t[1] = "text" -> Size(t[2])
DocumentSize(doc) == FoldLeft(LAMBDA n, t : n + TokenSize(t), 0, doc)
TextToken(pieces) == IF pieces = <<>> THEN <<>> ELSE <<<<"text", pieces>>>>
Lex(text) == [ok |-> TRUE, text |-> text]
Got(type, v) == [ok |-> TRUE, value |-> [type |-> type, v |-> v]]

-----------------------------------------------------------------------------
(* assertXMLCodePoint, EscapedXMLByteLength and writeEscapedText.          *)
XmlCodePoint(c) == c # 0 /\ (c >= 32 \/ c \in {9, 10, 13}) /\ c \notin {65534, 65535}
EscapedText(text) ==
  IF \E k \in DOMAIN text : ~XmlCodePoint(text[k]) THEN Refused
  ELSE [ok |-> TRUE, pieces |-> [k \in DOMAIN text |-> IF text[k] \in {38, 60, 62} THEN Reference(text[k]) ELSE Raw(text[k])]]

(* DecodeXMLEntityReference: -1 stands for a reference it cannot read.     *)
Readable(p) == p.ref => p.cp \in 0..1114111 /\ p.cp \notin 55296..57343
EndsCdata(raw) ==
  \E k \in 1..(Len(raw) - 2) : /\ ~raw[k].ref /\ ~raw[k + 1].ref /\ ~raw[k + 2].ref
                               /\ raw[k].cp = 93 /\ raw[k + 1].cp = 93 /\ raw[k + 2].cp = 62
(* decodeEntities, and the check of "]]>" in cell.                         *)
DecodeEntities(raw) ==
  IF EndsCdata(raw) \/ \E k \in DOMAIN raw : ~Readable(raw[k]) \/ ~XmlCodePoint(raw[k].cp) THEN Refused ELSE Lex(Chars(raw))

(* encoding/base64.                                                        *)
Alphabet(s) == IF s < 26 THEN 65 + s ELSE IF s < 52 THEN 71 + s ELSE IF s < 62 THEN s - 4 ELSE IF s = 62 THEN 43 ELSE 47
Sextet(c) == IF c \in 65..90 THEN c - 65 ELSE IF c \in 97..122 THEN c - 71 ELSE IF c \in 48..57 THEN c + 4
             ELSE IF c = 43 THEN 62 ELSE IF c = 47 THEN 63 ELSE 0
Base64Length(n) == ((n + 2) \div 3) * 4
EncodeBase64(b) ==
  LET Byte(k) == IF k <= Len(b) THEN b[k] ELSE 0
      Word(g) == Byte(3 * g + 1) * 65536 + Byte(3 * g + 2) * 256 + Byte(3 * g + 3)
  IN  [k \in 1..Base64Length(Len(b)) |->
         LET g == (k - 1) \div 4 i == (k - 1) % 4
         IN  IF 3 * g + i > Len(b) THEN 61 ELSE Alphabet((Word(g) \div 64^(3 - i)) % 64)]
Padding(t) == IF Len(t) > 1 /\ t[Len(t) - 1] = 61 THEN 2 ELSE IF t # <<>> /\ t[Len(t)] = 61 THEN 1 ELSE 0
DecodedBytes(t) ==
  LET Word(g) == Sextet(t[4 * g + 1]) * 262144 + Sextet(t[4 * g + 2]) * 4096 + Sextet(t[4 * g + 3]) * 64 + Sextet(t[4 * g + 4])
  IN  [k \in 1..((Len(t) \div 4) * 3 - Padding(t)) |-> (Word((k - 1) \div 3) \div 256^(2 - ((k - 1) % 3))) % 256]
(* Mutant: the lines of a wrapped value are not joined.                    *)
Mut_LinesStay(t) == t
UnwrapBase64(t) == SelectSeq(t, LAMBDA c : c \notin {10, 13})
(* canonicalBase64, and the round trip that refuses stray padding bits.    *)
CanonicalBase64(t) ==
  /\ Len(t) % 4 = 0
  /\ \A k \in 1..(Len(t) - Padding(t)) : t[k] \in (65..90) \cup (97..122) \cup (48..57) \cup {43, 47}
  /\ EncodeBase64(DecodedBytes(t)) = t
DecodeBase64(text, maximum) ==
  LET t == UnwrapBase64(text)
  IN  IF t = <<>> THEN Got("bytes", <<>>)
      ELSE IF CanonicalBase64(t) /\ Len(DecodedBytes(t)) <= maximum THEN Got("bytes", DecodedBytes(t)) ELSE Refused

-----------------------------------------------------------------------------
(* strconv.FormatInt and canonicalInteger with ParseInt.                   *)
DecimalText(n) ==
  LET a == IF n < 0 THEN -n ELSE n
      width == CHOOSE w \in 1..10 : a \div 10^(w - 1) \in 0..9 /\ (w > 1 => a \div 10^(w - 1) # 0)
  IN  (IF n < 0 THEN <<45>> ELSE <<>>) \o [k \in 1..width |-> 48 + ((a \div 10^(width - k)) % 10)]
Unsigned(t) == FoldLeft(LAMBDA n, c : n * 10 + (c - 48), 0, t)
CanonicalInteger(t) ==
  LET body == IF t # <<>> /\ t[1] = 45 THEN Tail(t) ELSE t
  IN  body # <<>> /\ (\A k \in DOMAIN body : IsDigit(body[k])) /\ (body[1] = Zero => t = <<Zero>>) /\ Len(t) <= 20
ParseInteger(t) == IF t[1] = 45 THEN -Unsigned(Tail(t)) ELSE Unsigned(t)
IntegerRange(exid) == IF exid = "s" THEN -32768..32767 ELSE IF exid = "b" THEN 0..255 ELSE -2147483647..2147483647
(* The text of a packed number, and the reading of one.                    *)
DigitText(d) == [k \in DOMAIN d |-> 48 + d[k]]
PlainText(n) ==
  (IF n.neg THEN <<45>> ELSE <<>>) \o DigitText(n.int) \o (IF n.frac = <<>> THEN <<>> ELSE <<46>> \o DigitText(n.frac))
ReadPlain(t) ==
  LET neg == t # <<>> /\ t[1] = 45
      body == IF neg THEN Tail(t) ELSE t
      points == {k \in DOMAIN body : body[k] = 46}
      point == IF points = {} THEN Len(body) + 1 ELSE CHOOSE k \in points : TRUE
      digits == \A k \in DOMAIN body : k # point => IsDigit(body[k])
      Digits(from, to) == [k \in 1..(to - from + 1) |-> body[from + k - 1] - 48]
  IN  IF ~digits \/ Cardinality(points) > 1 \/ body \in {<<>>, <<46>>} THEN Refused
      ELSE [ok |-> TRUE, number |-> [neg |-> neg, int |-> Digits(1, point - 1), frac |-> Digits(point + 1, Len(body)),
                                     exp |-> 0, over |-> 0]]
Unpack(p, dec) == IF p.ok THEN DecodePackedDecimal(p.nibbles, dec) ELSE Refused
PackedText(n, f) == Unpack(EncodePackedDecimal(n, f.len, f.dec), f.dec)
LexNumber(p) == IF p.ok THEN Lex(PlainText(p.text)) ELSE Refused
LexTemporal(t) == IF t.ok THEN Lex(DecimalText(t.raw)) ELSE Refused
GotNumber(p) == IF p.ok THEN Got("number", p.text) ELSE Refused
GotTemporal(t) == IF t.ok THEN Got("temporal", t.value) ELSE Refused

(* canonicalDateText and canonicalTimeText, and the way back.              *)
Parts(exid) == IF exid = "D" THEN [sep |-> 45, at |-> {5, 8}, n |-> 8] ELSE [sep |-> 58, at |-> {3, 6}, n |-> 6]
Separated(exid, t) ==
  LET p == Parts(exid)
      Before(k) == Cardinality({j \in p.at : j < k})
  IN  IF t \in {<<>>, Fill(Blank, p.n)} THEN <<>>
      ELSE [k \in 1..(p.n + 2) |-> IF k \in p.at THEN p.sep ELSE t[k - Before(k)]]
Joined(exid, t) ==
  LET p == Parts(exid)
  IN  IF t = <<>> THEN Got("text", <<>>)
      ELSE IF Len(t) = p.n + 2 /\ \A k \in DOMAIN t : IF k \in p.at THEN t[k] = p.sep ELSE IsDigit(t[k])
           THEN Got("text", SelectSeq(t, LAMBDA c : c # p.sep)) ELSE Refused

-----------------------------------------------------------------------------
(* The lexical form of a value, as planCell and recursiveScalarText choose *)
(* it; which types a codec takes, and its limits, are its own affair.      *)
Lexical(f, v) ==
  LET chars == f.len \div 2
      Given(type) == v.type = type
      digits == \A k \in DOMAIN v.v : IsDigit(v.v[k])
  IN  CASE f.exid = "C" -> IF Given("text") /\ Utf16Len(v.v) <= chars THEN Lex(v.v) ELSE Refused
        [] f.exid = "N" -> IF Given("text") /\ digits /\ Len(v.v) <= chars THEN Lex(Fill(Zero, chars - Len(v.v)) \o v.v) ELSE Refused
        [] f.exid \in {"D", "T"} ->
             IF Given("text") /\ WireText(v.v, Parts(f.exid).n).ok THEN Lex(Separated(f.exid, v.v)) ELSE Refused
        [] f.exid = "X" ->
             IF Given("bytes") /\ Len(v.v) <= f.len THEN Lex(EncodeBase64(v.v \o Fill(0, f.len - Len(v.v)))) ELSE Refused
        [] f.exid = "y" -> IF Given("bytes") THEN Lex(EncodeBase64(v.v)) ELSE Refused
        [] f.exid = "g" -> IF Given("text") THEN Lex(v.v) ELSE Refused
        [] f.exid \in {"I", "s", "b", "8"} ->
             IF Given("int") /\ v.v \in IntegerRange(f.exid) THEN Lex(DecimalText(v.v)) ELSE Refused
        [] f.exid = "P" -> IF Given("number") THEN LexNumber(PackedText(v.v, f)) ELSE Refused
        [] f.exid \in Temporal -> IF Given("temporal") THEN LexTemporal(TM!EncodeClassicTemporal(f.exid, v.v)) ELSE Refused
(* The value that decodeCell and decodedScalar read from a text.           *)
ReadLexical(f, t) ==
  LET chars == f.len \div 2
      plain == ReadPlain(t)
      Width(n) == TemporalLength(f.exid) = 2 => n < 65536
  IN  CASE f.exid = "C" -> IF Utf16Len(t) <= chars THEN Got("text", t) ELSE Refused
        [] f.exid = "N" -> IF Len(t) <= chars /\ \A k \in DOMAIN t : IsDigit(t[k])
                           THEN Got("text", Fill(Zero, chars - Len(t)) \o t) ELSE Refused
        [] f.exid \in {"D", "T"} -> Joined(f.exid, t)
        [] f.exid = "g" -> Got("text", t)
        [] f.exid \in {"I", "s", "b", "8"} ->
             IF CanonicalInteger(t) /\ ParseInteger(t) \in IntegerRange(f.exid) THEN Got("int", ParseInteger(t)) ELSE Refused
        [] f.exid = "P" -> IF plain.ok THEN GotNumber(PackedText(plain.number, f)) ELSE Refused
        [] f.exid \in Temporal ->
             IF CanonicalInteger(t) /\ ParseInteger(t) >= 0 /\ Width(ParseInteger(t))
             THEN GotTemporal(TM!DecodeClassicTemporal(f.exid, ParseInteger(t))) ELSE Refused
(* initialCell and recursiveInitialScalar.                                 *)
InitialCell(f) ==
  CASE f.exid \in {"C", "g", "N"} -> [type |-> "text", v |-> <<>>]
    [] f.exid = "D" -> [type |-> "text", v |-> Fill(Zero, 8)]
    [] f.exid = "T" -> [type |-> "text", v |-> Fill(Zero, 6)]
    [] f.exid \in {"X", "y"} -> [type |-> "bytes", v |-> <<>>]
    [] f.exid = "P" -> [type |-> "number", v |-> [neg |-> FALSE, int |-> <<0>>, frac |-> <<>>, exp |-> 0, over |-> 0]]
    [] f.exid \in {"I", "s", "b", "8"} -> [type |-> "int", v |-> 0]
    [] f.exid \in Temporal -> [type |-> "temporal", v |-> <<>>]

-----------------------------------------------------------------------------
(* A reader of a document: what is left of it, how far it has come, the    *)
(* bytes of the values it made, and the last value.                        *)
Reader(doc) ==
  [ok |-> TRUE, doc |-> doc, offset |-> 0, projected |-> 0, nodes |-> 0, rows |-> 0, cells |-> 0,
   value |-> [type |-> "rows", v |-> <<>>]]
At(r, token) == r.doc # <<>> /\ Head(r.doc) = token
(* open and close.                                                         *)
Skip(r, token) ==
  IF r.ok /\ At(r, token) THEN [r EXCEPT !.doc = Tail(@), !.offset = @ + TokenSize(token)] ELSE Refused
(* cell: the text up to the next tag, which there must be.                 *)
AtText(r) == r.doc # <<>> /\ Head(r.doc)[1] = "text"
RawText(r) == IF AtText(r) THEN Head(r.doc)[2] ELSE <<>>
AfterText(r) == IF AtText(r) THEN [r EXCEPT !.doc = Tail(@), !.offset = @ + TokenSize(Head(r.doc))] ELSE r
TooLong(r, cellBytes) == AfterText(r).doc = <<>> \/ Size(RawText(r)) > cellBytes

(* AssertXMLName, and normalizeDefinition: only rows that need XML.        *)
Letter(c) == c \in (65..90) \cup (97..122) \cup {95}
SimpleName(name) == name # <<>> /\ Letter(name[1]) /\ \A k \in DOMAIN name : Letter(name[k]) \/ IsDigit(name[k])
FlatTypes == {"I", "C", "N", "D", "T", "X", "P", "F", "8", "g", "y"}
NormalizeDefinition(def) ==
  /\ ValidateCodec(def, def.name) /\ HasDynamicFields(def)
  /\ \A k \in DOMAIN def.fields : SimpleName(def.fields[k].field) /\ def.fields[k].exid \in FlatTypes

(* planCell.  Padded numbers and bytes are measured before they are made.  *)
Measured(f, text, size, L) ==
  IF size > L.cellBytes \/ (f.exid \in {"N", "X", "y"} /\ (size > L.rowBytes \/ size > L.bytes)) THEN Refused ELSE text
Escaped(f, lex, L) ==
  LET text == EscapedText(lex.text)
  IN  IF ~lex.ok THEN Refused ELSE IF ~text.ok THEN Refused ELSE Measured(f, text, Size(text.pieces), L)
PlanCell(f, v, L) == Escaped(f, Lexical(f, v), L)
(* planRow and writePlannedRow: every field in order, the ones not given   *)
(* with their initial values.                                              *)
Tagged(name, doc) == <<<<"open", name>>>> \o doc \o <<<<"close", name>>>>
AddCell(row, cell, L) ==
  LET size == row.size + DocumentSize(cell)
  IN  IF size > L.rowBytes THEN Refused ELSE [ok |-> TRUE, doc |-> row.doc \o cell, size |-> size]
PlannedField(row, f, text, L) == IF text.ok THEN AddCell(row, Tagged(f.field, TextToken(text.pieces)), L) ELSE Refused
PlanField(row, f, in, L) ==
  IF row.ok THEN PlannedField(row, f, PlanCell(f, IF f.field \in DOMAIN in THEN in[f.field] ELSE InitialCell(f), L), L) ELSE Refused
WrapRow(row, wrapped) == IF row.ok /\ wrapped THEN [row EXCEPT !.doc = Tagged(Item, @)] ELSE row
PlanRow(def, in, L, wrapped) ==
  LET names == {def.fields[k].field : k \in DOMAIN def.fields}
      wrapper == IF wrapped THEN DocumentSize(Tagged(Item, <<>>)) ELSE 0
  IN  IF DOMAIN in \subseteq names
      THEN WrapRow(FoldLeft(LAMBDA w, f : PlanField(w, f, in, L), [ok |-> TRUE, doc |-> <<>>, size |-> wrapper], def.fields), wrapped)
      ELSE Refused
(* EncodeParameter: byteLength counts what the rows will need, and the     *)
(* document is compared with it at the end.                                *)
AppendRow(out, row, L) ==
  IF ~row.ok THEN Refused ELSE IF out.size + row.size > L.bytes THEN Refused
  ELSE [ok |-> TRUE, doc |-> out.doc \o row.doc, size |-> out.size + row.size]
Finish(name, all) ==
  IF ~all.ok THEN Refused
  ELSE IF DocumentSize(Tagged(name, all.doc)) # all.size THEN Refused ELSE [ok |-> TRUE, doc |-> Tagged(name, all.doc)]
EncodeParameter(name, def, kind, v, L) ==
  LET rows == IF kind = "table" THEN v.v ELSE <<v.v>>
      empty == [ok |-> TRUE, doc |-> <<>>, size |-> DocumentSize(Tagged(name, <<>>))]
      Add(out, row) == IF out.ok THEN AppendRow(out, PlanRow(def, row, L, kind = "table"), L) ELSE Refused
  IN  IF \/ ~SimpleName(name) \/ ~NormalizeDefinition(def) \/ empty.size > L.bytes
         \/ v.type # (IF kind = "table" THEN "rows" ELSE "object") \/ (kind = "table" /\ Len(rows) > L.rows) THEN Refused
      ELSE Finish(name, FoldLeft(Add, empty, rows))

(* decodeBudget.consume.                                                   *)
Consume(r, n, L) == IF n > L.cellBytes \/ r.projected + n > L.bytes THEN Refused ELSE [r EXCEPT !.projected = @ + n]
FixedBytes(f, t, L) ==
  LET b == DecodeBase64(t, L.cellBytes) IN IF b.ok /\ Len(b.value.v) = f.len THEN b ELSE Refused
(* decodeCell: what a cell takes of the budget, and its value.             *)
Keep(r, value) == IF r.ok THEN [r EXCEPT !.value = value] ELSE Refused
TakeCell(f, read, need, L, r) == IF read.ok THEN Keep(Consume(r, need, L), read.value) ELSE Refused
Takes(f, read) ==
  CASE f.exid = "N" -> f.len \div 2 [] f.exid = "X" -> f.len [] f.exid = "y" -> Len(read.value.v) [] OTHER -> 0
Budgeted(f, read, L, r) == TakeCell(f, read, Takes(f, read), L, r)
DecodeCell(f, t, L, r) ==
  Budgeted(f, CASE f.exid = "X" -> FixedBytes(f, t, L) [] f.exid = "y" -> DecodeBase64(t, L.cellBytes)
                [] OTHER -> ReadLexical(f, t), L, r)
Put(map, name, v) == [n \in DOMAIN map \cup {name} |-> IF n = name THEN v ELSE map[n]]
(* A cell between its tags, and parseRow.                                  *)
CellText(f, text, r, L) == IF text.ok THEN DecodeCell(f, text.text, L, AfterText(r)) ELSE Refused
ReadCell(f, r, L) ==
  IF ~r.ok THEN Refused ELSE IF TooLong(r, L.cellBytes) THEN Refused ELSE CellText(f, DecodeEntities(RawText(r)), r, L)
StoreCell(acc, f, r) == [r |-> r, row |-> IF r.ok THEN Put(acc.row, f.field, r.value) ELSE acc.row]
ParseField(acc, f, L) ==
  StoreCell(acc, f, Skip(ReadCell(f, Skip(acc.r, <<"open", f.field>>), L), <<"close", f.field>>))
RowIn(from, to, row, L) ==
  IF ~to.ok THEN Refused ELSE IF to.offset - from.offset > L.rowBytes THEN Refused
  ELSE [to EXCEPT !.value = [type |-> "object", v |-> row]]
RowRead(from, acc, wrapped, L) == RowIn(from, IF wrapped THEN Skip(acc.r, <<"close", Item>>) ELSE acc.r, acc.row, L)
ParseRow(def, r, L, wrapped) ==
  IF r.ok THEN RowRead(r, FoldLeft(LAMBDA a, f : ParseField(a, f, L),
                                   [r |-> IF wrapped THEN Skip(r, <<"open", Item>>) ELSE r, row |-> <<>>], def.fields), wrapped, L)
  ELSE Refused
RECURSIVE ParseRows(_, _, _, _, _)
RowDone(def, name, r, L, rows) == IF r.ok THEN ParseRows(def, name, r, L, Append(rows, r.value.v)) ELSE Refused
ParseRows(def, name, r, L, rows) ==
  IF ~r.ok THEN Refused
  ELSE IF At(r, <<"close", name>>) THEN [r EXCEPT !.value = [type |-> "rows", v |-> rows]]
  ELSE IF Len(rows) >= L.rows THEN Refused
  ELSE RowDone(def, name, ParseRow(def, r, L, TRUE), L, rows)
(* finish, snapshotAndValidate and DecodeParameter.                        *)
Value(r) == IF ~r.ok THEN Refused ELSE IF r.doc # <<>> THEN Refused ELSE [ok |-> TRUE, value |-> r.value]
ParseParameter(def, name, kind, r, L) ==
  IF kind = "table" THEN ParseRows(def, name, r, L, <<>>) ELSE ParseRow(def, r, L, FALSE)
DecodeParameter(name, def, kind, doc, L) ==
  IF ~SimpleName(name) \/ ~NormalizeDefinition(def) \/ DocumentSize(doc) \notin 1..L.bytes THEN Refused
  ELSE Value(Skip(ParseParameter(def, name, kind, Skip(Reader(doc), <<"open", name>>), L), <<"close", name>>))
(* DecodeParameterName: the top-level tag, when it is a simple name.       *)
DecodeParameterName(doc) ==
  IF doc # <<>> /\ doc[1][1] = "open" /\ SimpleName(doc[1][2]) THEN [ok |-> TRUE, name |-> doc[1][2]] ELSE Refused

-----------------------------------------------------------------------------
(* What a reader makes of a value: padded, with its decimals, and no blanks*)
(* for a date or a time that is not set.                                   *)
CanonicalCell(f, v) ==
  CASE f.exid = "N" -> [v EXCEPT !.v = Fill(Zero, f.len \div 2 - Len(@)) \o @]
    [] f.exid = "X" -> [v EXCEPT !.v = @ \o Fill(0, f.len - Len(@))]
    [] f.exid \in {"D", "T"} -> IF v.v = Fill(Blank, Parts(f.exid).n) THEN [v EXCEPT !.v = <<>>] ELSE v
    [] f.exid = "P" -> [v EXCEPT !.v = PackedText(@, f).text]
    [] OTHER -> v
CanonicalRow(def, in) ==
  [name \in {def.fields[k].field : k \in DOMAIN def.fields} |->
     LET f == def.fields[CHOOSE k \in DOMAIN def.fields : def.fields[k].field = name]
     IN  CanonicalCell(f, IF name \in DOMAIN in THEN in[name] ELSE InitialCell(f))]
Without(doc, k) == SubSeq(doc, 1, k - 1) \o SubSeq(doc, k + 1, Len(doc))
CellSizes(doc) == {TokenSize(doc[k]) : k \in {j \in DOMAIN doc : doc[j][1] = "text"}}

Free == [cellBytes |-> 1000, rowBytes |-> 1000, bytes |-> 1000, rows |-> 1000]
(* The document with its XSTRINGs in lines, as a server writes long ones.  *)
Broken(pieces) == SubSeq(pieces, 1, 3) \o <<Raw(13), Raw(10)>> \o SubSeq(pieces, 4, Len(pieces))
InLines(def, doc) ==
  LET long == {def.fields[k].field : k \in {j \in DOMAIN def.fields : def.fields[j].exid = "y"}}
  IN  [k \in DOMAIN doc |-> IF doc[k][1] = "text" /\ doc[k - 1][2] \in long THEN <<"text", Broken(doc[k][2])>> ELSE doc[k]]

(* What EncodeParameter writes DecodeParameter reads under the same limits,*)
(* under its name, with the values that were left out and the padding; it  *)
(* reads XSTRINGs that were broken into lines, and it notices the loss of  *)
(* any tag.                                                                *)
FlatRoundTrip(name, def, kind, v, L, r) ==
  LET want == IF kind = "table" THEN [v EXCEPT !.v = [k \in DOMAIN @ |-> CanonicalRow(def, @[k])]]
              ELSE [v EXCEPT !.v = CanonicalRow(def, @)]
  IN  /\ DecodeParameterName(r.doc) = [ok |-> TRUE, name |-> name]
      /\ DecodeParameter(name, def, kind, r.doc, L) = [ok |-> TRUE, value |-> want]
      /\ DecodeParameter(name, def, kind, InLines(def, r.doc), Free) = [ok |-> TRUE, value |-> want]
      /\ \A k \in DOMAIN r.doc : r.doc[k][1] # "text" => ~DecodeParameter(name, def, kind, Without(r.doc, k), L).ok

Fits(name, def, kind, v, L, doc) ==
  /\ DocumentSize(doc) <= L.bytes /\ \A n \in CellSizes(doc) : n <= L.cellBytes
  /\ IF kind = "table" THEN Len(v.v) <= L.rows /\ \A k \in DOMAIN v.v : PlanRow(def, v.v[k], Free, TRUE).size <= L.rowBytes
     ELSE DocumentSize(doc) - DocumentSize(Tagged(name, <<>>)) <= L.rowBytes
AgreesWithFree(name, def, kind, v, L, r, free) ==
  IF free.ok THEN r.ok = Fits(name, def, kind, v, L, free.doc) /\ DecodeParameter(name, def, kind, free.doc, L).ok = r.ok ELSE ~r.ok
(* EncodeParameter refuses a value for the limits exactly when it does not *)
(* fit them, and DecodeParameter, under the same limits, refuses exactly   *)
(* the documents that EncodeParameter would not have written.              *)
FlatLimitsAreExact(name, def, kind, v, L, r) == AgreesWithFree(name, def, kind, v, L, r, EncodeParameter(name, def, kind, v, Free))
=============================================================================
