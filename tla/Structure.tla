------------------------------ MODULE Structure -------------------------------
(***************************************************************************)
(* internal/structure: fixed-layout rows, and the three sources of their   *)
(* layouts in internal/metadata.                                           *)
(*                                                                         *)
(* A layout is [name, length, fields], a field [table, field, pos, off,    *)
(* len, dec, exid].  A row is a sequence of bytes.  A value is [type, v]:  *)
(* a "text" is the sequence of its characters, "bytes" a sequence; a       *)
(* "float" is a number; "number" is a string that the codec of the value   *)
(* package for the field (modules Temporal and Decimals) reads as that     *)
(* number.  An "int" is an int64 in two words: v, its low 32 bits as an    *)
(* int32, and high, its high ones.                                         *)
(***************************************************************************)
EXTENDS Decimals

Blank == 32
Zero == 48
IsDigit(c) == c \in 48..57
MaxByteLength == 256 * 1024 * 1024
Temporal == {"p", "n", "w", "d", "7", "x", "t", "i", "c"}
TemporalLength(exid) == IF exid \in {"p", "n", "w"} THEN 8 ELSE IF exid \in {"i", "c"} THEN 2 ELSE 4

(* int32 addition of naturals: it wraps.                                   *)
Sum32(a, b) == IF a > 2147483647 - b THEN (a - 2147483647) + (b - 2147483647) - 2 ELSE a + b

StartsAfter(def, k) ==
  def.fields[k].off >= (IF k = 1 THEN 0 ELSE Sum32(def.fields[k - 1].off, def.fields[k - 1].len))

(* SnapshotDefinition.                                                     *)
SnapshotDefinition(def, requested) ==
  /\ Len(def.name) > 0 /\ def.name = requested
  /\ def.length \in 0..MaxByteLength /\ Len(def.fields) <= 100000
  /\ \A k \in DOMAIN def.fields :
       LET f == def.fields[k]
       IN  /\ f.table = def.name /\ Len(f.field) > 0 /\ f.pos = k /\ f.len >= 0 /\ f.dec >= 0
           /\ \A j \in 1..(k - 1) : def.fields[j].field # f.field
           /\ StartsAfter(def, k) /\ Sum32(f.off, f.len) <= def.length

(* assertFieldCodec.                                                       *)
ExactLen == [D |-> 16, T |-> 12, F |-> 8, I |-> 4, s |-> 2, b |-> 1, a |-> 8, e |-> 16, g |-> 8, y |-> 8]
FieldCodec(f) ==
  CASE f.exid \in Temporal -> f.len = TemporalLength(f.exid)
    [] f.exid \in {"C", "N"} -> f.len % 2 = 0
    [] f.exid = "X" -> TRUE
    [] f.exid = "8" -> f.len = 8
    [] f.exid = "P" -> PackedGeometry(f.len, f.dec)
    [] f.exid \in DOMAIN ExactLen -> f.len = ExactLen[f.exid]
    [] OTHER -> FALSE
ValidateCodec(def, requested) ==
  SnapshotDefinition(def, requested) /\ \A k \in DOMAIN def.fields : FieldCodec(def.fields[k])
HasDynamicFields(def) == \E k \in DOMAIN def.fields : def.fields[k].exid \in {"g", "y"}

-----------------------------------------------------------------------------
Fill(c, n) == [k \in 1..n |-> c]
Utf16(text) == [k \in 1..(2 * Len(text)) |-> IF k % 2 = 1 THEN text[(k + 1) \div 2] ELSE 0]
FromUtf16(bytes) == [k \in 1..(Len(bytes) \div 2) |-> bytes[2 * k - 1]]
TrimRight(text) == SubSeq(text, 1, Len(text) - FoldLeft(LAMBDA n, c : IF c = Blank THEN n + 1 ELSE 0, 0, text))
LittleEndian(n, width) ==
  [k \in 1..width |-> IF k > 4 THEN (IF n < 0 THEN 255 ELSE 0) ELSE IF k = 4 THEN (n \div 16777216) % 256
                      ELSE (n \div 256^(k - 1)) % 256]
FromLittleEndian(bytes) ==
  LET n == Len(bytes)
      Signed(k) == IF bytes[k] > 127 THEN bytes[k] - 256 ELSE bytes[k]
  IN  CASE n = 1 -> bytes[1]
        [] n = 2 -> bytes[1] + 256 * Signed(2)
        [] n >= 4 -> bytes[1] + 256 * bytes[2] + 65536 * bytes[3] + 16777216 * Signed(4)

Written(bytes) == [ok |-> TRUE, bytes |-> bytes]
EncodeAbapChar(text, chars) ==
  IF Len(text) > chars THEN Refused ELSE Written(Utf16(text \o Fill(Blank, chars - Len(text))))
(* ClassicDateWireText, ClassicTimeWireText: digits, blanks or nothing.    *)
WireText(text, n) ==
  IF text = <<>> THEN Written(Utf16(Fill(Blank, n)))
  ELSE IF Len(text) = n /\ (text = Fill(Blank, n) \/ \A k \in DOMAIN text : IsDigit(text[k])) THEN Written(Utf16(text))
  ELSE Refused
IntValue(n) == [type |-> "int", v |-> n, high |-> IF n < 0 THEN -1 ELSE 0]
WideValue(low, high) == [type |-> "int", v |-> low, high |-> high]
(* requireInt: a range of an int32.                                        *)
Within(v, low, high) == v.type = "int" /\ v = IntValue(v.v) /\ v.v >= low /\ v.v <= high

InitialValue(f) ==
  CASE f.exid = "C" -> [type |-> "text", v |-> <<>>]
    [] f.exid = "N" -> [type |-> "text", v |-> Fill(Zero, f.len \div 2)]
    [] f.exid = "D" -> [type |-> "text", v |-> Fill(Zero, 8)]
    [] f.exid = "T" -> [type |-> "text", v |-> Fill(Zero, 6)]
    [] f.exid = "X" -> [type |-> "bytes", v |-> <<>>]
    [] f.exid = "F" -> [type |-> "float", v |-> 0]
    [] f.exid \in {"I", "s", "b", "8"} -> IntValue(0)
    [] f.exid \in {"P", "a", "e"} \cup Temporal -> [type |-> "number", v |-> 0]

(* writeValue: the bytes of a value; those of X may be fewer than the field*)
WriteValue(f, v) ==
  LET chars == f.len \div 2
      digits == v.type = "text" /\ Len(v.v) <= chars /\ \A k \in DOMAIN v.v : IsDigit(v.v[k])
  IN  CASE f.exid = "C" -> IF v.type = "text" THEN EncodeAbapChar(v.v, chars) ELSE Refused
        [] f.exid = "N" -> IF digits THEN EncodeAbapChar(Fill(Zero, chars - Len(v.v)) \o v.v, chars) ELSE Refused
        [] f.exid \in {"D", "T"} -> IF v.type = "text" THEN WireText(v.v, chars) ELSE Refused
        [] f.exid = "X" -> IF v.type = "bytes" /\ Len(v.v) <= f.len THEN Written(v.v) ELSE Refused
        [] f.exid = "F" -> IF v.type = "float" THEN Written(LittleEndian(v.v, 8)) ELSE Refused
        [] f.exid = "s" -> IF Within(v, -32768, 32767) THEN Written(LittleEndian(v.v, 2)) ELSE Refused
        [] f.exid = "b" -> IF Within(v, 0, 255) THEN Written(<<v.v>>) ELSE Refused
        [] f.exid = "I" -> IF Within(v, -2147483647 - 1, 2147483647) THEN Written(LittleEndian(v.v, 4)) ELSE Refused
        [] f.exid = "8" -> IF v.type = "int" THEN Written(LittleEndian(v.v, 4) \o LittleEndian(v.high, 4)) ELSE Refused
        [] f.exid = "P" -> IF v.type = "number" THEN Written(Fill(0, f.len - 1) \o <<v.v * 16 + 12>>) ELSE Refused
        [] f.exid \in {"a", "e"} \cup Temporal ->
             IF v.type = "number" THEN Written(LittleEndian(v.v, f.len)) ELSE Refused
        [] OTHER -> Refused

(* readValue.                                                              *)
ReadValue(f, row) ==
  LET seg == SubSeq(row, f.off + 1, f.off + f.len)
      text == FromUtf16(seg)
      Read(type, v) == [ok |-> TRUE, value |-> [type |-> type, v |-> v]]
  IN  CASE f.exid \in {"C", "N"} -> Read("text", TrimRight(text))
        [] f.exid \in {"D", "T"} ->
             IF WireText(text, f.len \div 2).ok THEN Read("text", TrimRight(text)) ELSE Refused
        [] f.exid = "X" -> Read("bytes", seg)
        [] f.exid = "F" -> Read("float", FromLittleEndian(seg))
        [] f.exid \in {"I", "s", "b"} -> [ok |-> TRUE, value |-> IntValue(FromLittleEndian(seg))]
        [] f.exid = "8" ->
             [ok |-> TRUE, value |-> WideValue(FromLittleEndian(SubSeq(seg, 1, 4)), FromLittleEndian(SubSeq(seg, 5, 8)))]
        [] f.exid = "P" -> Read("number", seg[Len(seg)] \div 16)
        [] f.exid \in {"a", "e"} \cup Temporal -> Read("number", FromLittleEndian(seg))

-----------------------------------------------------------------------------
(* copy(row[off:], bytes).                                                 *)
CopyAt(row, off, bytes) ==
  [k \in DOMAIN row |-> IF k - off \in DOMAIN bytes THEN bytes[k - off] ELSE row[k]]
Gap(def, k) ==
  (IF k < Len(def.fields) THEN def.fields[k + 1].off ELSE def.length) - def.fields[k].off - def.fields[k].len
(* Mutant: the fill starts inside the field.                               *)
Mut_FillsTooEarly(def, k) == def.fields[k].off + def.fields[k].len - 2
FillFrom(def, k) == def.fields[k].off + def.fields[k].len
EncodeField(def, in, row, k) ==
  LET f == def.fields[k]
      written == WriteValue(f, IF f.field \in DOMAIN in THEN in[f.field] ELSE InitialValue(f))
      character == f.exid \in {"C", "N"}
      placed == CopyAt(row.bytes, f.off, written.bytes)
      filler == Utf16(Fill(IF f.exid = "N" THEN Zero ELSE Blank, Gap(def, k) \div 2))
  IN  IF ~row.ok \/ ~written.ok \/ (character /\ Gap(def, k) % 2 # 0) THEN Refused
      ELSE Written(IF character THEN CopyAt(placed, FillFrom(def, k), filler) ELSE placed)

(* Encode and Decode.  in is a function on the names of the fields given.  *)
Encode(def, in) ==
  LET names == {def.fields[k].field : k \in DOMAIN def.fields}
  IN  IF ~ValidateCodec(def, def.name) \/ HasDynamicFields(def) \/ ~(DOMAIN in \subseteq names) THEN Refused
      ELSE FoldLeft(LAMBDA row, k : EncodeField(def, in, row, k), Written(Fill(0, def.length)),
                    [k \in DOMAIN def.fields |-> k])
Decode(def, row) ==
  LET Value(k) == ReadValue(def.fields[k], row)
      At(name) == CHOOSE k \in DOMAIN def.fields : def.fields[k].field = name
  IN  IF \/ ~ValidateCodec(def, def.name) \/ HasDynamicFields(def) \/ Len(row) # def.length THEN Refused
      ELSE IF \E k \in DOMAIN def.fields : ~Value(k).ok THEN Refused
      ELSE [ok |-> TRUE, values |-> [name \in {def.fields[k].field : k \in DOMAIN def.fields} |-> Value(At(name)).value]]

(* decodeFixedRow of rfc/call.go: the alignment at the end may be missing. *)
LastEnd(def) ==
  FoldLeft(LAMBDA end, f : IF f.off + f.len > end THEN f.off + f.len ELSE end, 0, def.fields)
(* Mutant: every short row is padded.                                      *)
Mut_PadsAlways(def, row) == row \o Fill(0, def.length - Len(row))
PadTrailingFill(def, row) ==
  IF Len(row) >= def.length \/ Len(row) < LastEnd(def) THEN row ELSE row \o Fill(0, def.length - Len(row))
DecodeFixedRow(def, row) == Decode(def, PadTrailingFill(def, row))

-----------------------------------------------------------------------------
(* The layouts.  A row of metadata is a field with comp, its component     *)
(* type, total and stamp, the length and the time stamp of the structure.  *)
FieldOfRow(r, k) ==
  [table |-> r.table, field |-> r.field, pos |-> k, off |-> r.off, len |-> r.len, dec |-> r.dec, exid |-> r.exid]
Layout(name, length, rows) == [name |-> name, length |-> length, fields |-> [k \in DOMAIN rows |-> FieldOfRow(rows[k], k)]]
Unique(rows) == \A k \in DOMAIN rows : \A j \in 1..(k - 1) : rows[j].field # rows[k].field
(* Mutants: the last byte may not be used; an overlap is not noticed.      *)
Mut_StrictEnd(rows, length) ==
  \A k \in DOMAIN rows :
    /\ rows[k].off >= (IF k = 1 THEN 0 ELSE Sum32(rows[k - 1].off, rows[k - 1].len))
    /\ Sum32(rows[k].off, rows[k].len) < length
Mut_EndOnly(rows, length) == \A k \in DOMAIN rows : Sum32(rows[k].off, rows[k].len) <= length
Geometry(rows, length) ==
  \A k \in DOMAIN rows :
    /\ rows[k].off >= (IF k = 1 THEN 0 ELSE Sum32(rows[k - 1].off, rows[k - 1].len))
    /\ Sum32(rows[k].off, rows[k].len) <= length
(* The same in 64 bits, in NormalizeStructureResult.                       *)
WideGeometry(rows, length) ==
  \A k \in DOMAIN rows :
    /\ k > 1 => rows[k].off - rows[k - 1].len >= rows[k - 1].off
    /\ rows[k].off <= length - rows[k].len
Accepted(def) == [ok |-> TRUE, def |-> def]

(* DecodeRfcStructureDefinitionResult: the fields keep their order and are *)
(* numbered again; the codecs are not looked at.                           *)
DecodeRfcFieldsRow(r) ==
  r.table # "" /\ r.field # "" /\ r.pos >= 1 /\ r.off >= 0 /\ r.len >= 0 /\ r.dec >= 0
FromRfcFields(name, length, rows) ==
  IF /\ length >= 0 /\ Len(rows) <= 20000
     /\ \A k \in DOMAIN rows : DecodeRfcFieldsRow(rows[k]) /\ rows[k].table = name
     /\ Unique(rows) /\ Geometry(rows, length)
  THEN Accepted(Layout(name, length, rows)) ELSE Refused
(* RowStructureName: whose fields these are, when the name is a table type.*)
RowStructureName(name, rows) ==
  LET other == {k \in DOMAIN rows : rows[k].table # name}
  IN  IF \E k \in DOMAIN rows : ~DecodeRfcFieldsRow(rows[k]) /\ \A j \in 1..(k - 1) : j \notin other THEN Refused
      ELSE [ok |-> TRUE, name |-> IF other = {} THEN "" ELSE rows[CHOOSE k \in other : \A j \in other : k <= j].table]

(* DecodeDdIfFieldInfoGetResult: kind is DDOBJTYPE; owner, count, width and*)
(* tabtype are what X030L_WA says.                                         *)
DfiesRow(r) ==
  /\ r.table # "" /\ r.field # "" /\ r.exid # "" /\ r.pos \in 1..9999
  /\ r.off \in 0..999999 /\ r.len \in 0..999999 /\ r.dec \in 0..999999
X030lGeometry(name, a) == a.owner = name /\ a.width = 2 /\ a.count <= 9999 /\ a.tabtype # "L"
FromDdif(name, a, rows) ==
  IF /\ a.kind \notin {"", "DTEL", "TTYP"} /\ X030lGeometry(name, a) /\ a.count = Len(rows)
     /\ \A k \in DOMAIN rows :
          DfiesRow(rows[k]) /\ rows[k].table = name /\ rows[k].pos = k /\ rows[k].comp \in {"", "E"}
     /\ Unique(rows) /\ Geometry(rows, a.length) /\ ValidateCodec(Layout(name, a.length, rows), name)
  THEN Accepted(Layout(name, a.length, rows)) ELSE Refused

(* NormalizeStructureResult: the rows of the structure among all that came.*)
FromMetadataGet(name, all, errors) ==
  LET rows == SelectSeq(all, LAMBDA r : r.table = name)
      length == rows[1].total
  IN  IF /\ ~\E k \in DOMAIN errors : errors[k] = name
         /\ rows # <<>> /\ Len(rows) <= 9999
         /\ \A k \in DOMAIN rows :
              /\ rows[k].total = length /\ rows[k].stamp = rows[1].stamp /\ rows[k].field # ""
              /\ rows[k].comp \in {"", "E"} /\ rows[k].exid \notin {"u", "h", "v"}
              /\ rows[k].off >= 0 /\ rows[k].len >= 0 /\ rows[k].dec >= 0
         /\ Unique(rows) /\ WideGeometry(rows, length) /\ ValidateCodec(Layout(name, length, rows), name)
      THEN Accepted(Layout(name, length, rows)) @@ [token |-> rows[1].stamp] ELSE Refused

-----------------------------------------------------------------------------
(* What Decode must return for a value: texts without trailing blanks,     *)
(* numeric texts with their leading zeros, bytes with zeros at the end.    *)
Canonical(f, v) ==
  CASE f.exid = "N" -> [v EXCEPT !.v = Fill(Zero, f.len \div 2 - Len(v.v)) \o v.v]
    [] f.exid \in {"C", "D", "T"} -> [v EXCEPT !.v = TrimRight(v.v)]
    [] f.exid = "X" -> [v EXCEPT !.v = v.v \o Fill(0, f.len - Len(v.v))]
    [] OTHER -> v

(* What Encode writes, Decode reads: no field disturbs another, whatever   *)
(* the gaps between them and the fill written into those.                  *)
RowRoundTrip(def, in, r) ==
  Decode(def, r.bytes) =
    [ok |-> TRUE,
     values |-> [name \in {def.fields[k].field : k \in DOMAIN def.fields} |->
                   LET f == def.fields[CHOOSE k \in DOMAIN def.fields : def.fields[k].field = name]
                   IN  Canonical(f, IF name \in DOMAIN in THEN in[name] ELSE InitialValue(f))]]

(* decodeFixedRow: a row that lost only alignment bytes reads as the whole *)
(* row; one that lost a byte of a field, or has one too many, is refused.  *)
TruncationIsNoticed(def, r) ==
  LET ends == {def.fields[k].off + def.fields[k].len : k \in DOMAIN def.fields}
  IN  /\ \A n \in 0..(def.length - 1) :
           LET cut == DecodeFixedRow(def, SubSeq(r.bytes, 1, n))
           IN  IF \A end \in ends : end <= n THEN cut = Decode(def, r.bytes) ELSE ~cut.ok
      /\ ~DecodeFixedRow(def, r.bytes \o <<0>>).ok

(* The same structure, as the three sources describe it, gives one layout: *)
(* RFC_METADATA_GET and DDIF_FIELDINFO_GET agree, and what they accept is  *)
(* what RFC_GET_STRUCTURE_DEFINITION and the codec accept together.        *)
SourcesAgree(name, length, rows, fields, ddif, get) ==
  LET dense == \A k \in DOMAIN rows : rows[k].pos = k
      flat == \A k \in DOMAIN rows : rows[k].comp \in {"", "E"} /\ rows[k].total = length /\ rows[k].stamp = rows[1].stamp
      small == \A k \in DOMAIN rows : rows[k].off < 999999 /\ rows[k].len < 999999
  IN  dense /\ flat /\ small /\ rows # <<>> =>
        /\ ddif.ok <=> fields.ok /\ ValidateCodec(fields.def, name)
        /\ (\A k \in DOMAIN rows : rows[k].table = name) => (ddif.ok <=> get.ok)
        /\ ddif.ok => ddif.def = fields.def
        /\ ddif.ok /\ get.ok => ddif.def = get.def

(* An accepted layout has its fields side by side inside the row, except   *)
(* where the sum of an offset and a length wraps in an int32: such a layout*)
(* RFC_GET_STRUCTURE_DEFINITION gets past every check of its geometry, and *)
(* it never has its fields inside the row; the other two sources refuse it.*)
FieldsApart(def) ==
  LET Cells(f) == (f.off + 1)..(f.off + f.len)
  IN  \A k \in DOMAIN def.fields :
        /\ def.fields[k].off >= 0 /\ def.fields[k].off <= def.length - def.fields[k].len
        /\ \A j \in 1..(k - 1) : Cells(def.fields[j]) \cap Cells(def.fields[k]) = {}
LayoutsAreApart(rows, fields, ddif, get) ==
  LET wraps == \E k \in DOMAIN rows : rows[k].off > 2147483647 - rows[k].len
  IN  /\ fields.ok => (FieldsApart(fields.def) <=> ~wraps)
      /\ ddif.ok => FieldsApart(ddif.def)
      /\ get.ok => FieldsApart(get.def)
=============================================================================
