---------------------------- MODULE RecursiveXrfc -----------------------------
(***************************************************************************)
(* internal/xrfc/recursive_xrfc.go and recursive_xrfc_codec.go: parameters *)
(* of nested types as XML, along the graph of their types.                 *)
(*                                                                         *)
(* A graph is [fn, nodes, params, limits]: nodes maps a type name to [name,*)
(* kind, fields], a field is [name, exid, len, dec, ref], a reference      *)
(* [kind, target, cyclic], a parameter [name, fn, class, exid, type, ref]; *)
(* the interface's row for it is [name, class, exid, table].  limits are   *)
(* [depth, nodes, rows, cells, cellBytes, bytes] for a value and [nodes,   *)
(* rows, edges] for a graph.  A reference's own copy of the field's type,  *)
(* which validateNode compares with the field's, is left out.              *)
(***************************************************************************)
EXTENDS Xrfc

(* Without FLOAT and the decimal floats, as in module Xrfc.                *)
SupportedTypes == {"C", "N", "D", "T", "X", "P", "I", "b", "s", "8", "g", "y"} \cup Temporal
Unnamed(f) == Len(f.name) = 0
LineType(node) == Len(node.fields) = 1 /\ Unnamed(node.fields[1])

(* targetNode and requiredNode.                                            *)
HasTarget(graph, ref) ==
  /\ ~ref.cyclic /\ ref.target \in DOMAIN graph.nodes
  /\ graph.nodes[ref.target].kind = ref.kind /\ graph.nodes[ref.target].name = ref.target

(* matchingParameter: nil, the one descriptor, or an error.                *)
Matches(graph, p) == {k \in DOMAIN graph.params : graph.params[k].name = p.name}
MatchRefused(graph, p) ==
  \/ graph.fn = <<>> \/ Cardinality(Matches(graph, p)) > 1
  \/ \E k \in Matches(graph, p) :
       LET m == graph.params[k]
       IN  \/ m.fn # graph.fn[1] \/ m.class # p.class \/ m.exid # p.exid
           \/ m.ref.kind \in {"structure", "table"} /\ p.table # "" /\ m.type # p.table
(* nodeRequiresXrfc: the first field that is not fixed decides.            *)
Decisive(f) == f.ref.kind # "scalar" \/ f.exid \in {"g", "y"}
NodeRefused(graph, node) ==
  LET decisive == SelectSeq(node.fields, Decisive)
  IN  \/ graph.limits.nodes < 1 \/ Len(node.fields) > graph.limits.rows
      \/ /\ decisive # <<>> /\ decisive[1].ref.kind # "scalar"
         /\ graph.limits.edges < 1 \/ ~HasTarget(graph, decisive[1].ref)
RequiresXrfc(node) == \E k \in DOMAIN node.fields : Decisive(node.fields[k])
(* newGraphBudget.                                                         *)
OverBudget(graph) == Cardinality(DOMAIN graph.nodes) > graph.limits.nodes \/ Len(graph.params) > graph.limits.rows

(* ResolveParameter: FALSE when the parameter stays with the binary codec. *)
Binary == [ok |-> TRUE, needed |-> FALSE]
ResolveParameter(graph, p) ==
  LET m == graph.params[CHOOSE k \in Matches(graph, p) : TRUE]
      untyped == IF Matches(graph, p) = {} THEN TRUE ELSE m.ref.kind \in {"scalar", "exception"} \/ m.ref.target = ""
      row == m.ref.kind = "table" /\ p.class = "T"
      node == graph.nodes[m.ref.target]
      found == IF row THEN m.ref.target \in DOMAIN graph.nodes /\ node.name = m.ref.target /\ node.kind \in {"table", "structure"}
               ELSE HasTarget(graph, m.ref)
  IN  IF p.exid \notin {"u", "v", "h"} THEN Binary
      ELSE IF OverBudget(graph) THEN Refused
      ELSE IF p.class = "T" /\ p.exid = "u" THEN Binary
      ELSE IF MatchRefused(graph, p) THEN Refused
      ELSE IF untyped THEN IF p.exid = "h" THEN Refused ELSE Binary
      ELSE IF ~found \/ (p.exid = "u" /\ NodeRefused(graph, node)) THEN Refused
      ELSE IF p.exid = "u" /\ ~RequiresXrfc(node) THEN Binary
      ELSE [ok |-> TRUE, needed |-> TRUE, kind |-> m.ref.kind, node |-> node]

-----------------------------------------------------------------------------
(* validateNode, before it descends and for one field.                     *)
ShapeRefused(node) ==
  LET unnamed == {k \in DOMAIN node.fields : Unnamed(node.fields[k])}
  IN  CASE node.kind = "scalar" -> ~LineType(node)
        [] node.kind = "table" -> ~LineType(node) /\ (node.fields = <<>> \/ unnamed # {})
        [] node.kind = "structure" -> unnamed # {}
FieldRefused(graph, node, k) ==
  LET f == node.fields[k]
  IN  \/ \E j \in 1..(k - 1) : node.fields[j].name = f.name
      \/ f.ref.kind = "scalar" /\ (f.exid \notin SupportedTypes \/ (f.exid \in {"C", "N", "D", "T"} /\ f.len % 2 # 0))
      \/ f.ref.kind # "scalar" /\ (node.kind = "scalar" \/ ~HasTarget(graph, f.ref))
      \/ f.ref.kind = "structure" /\ f.exid \notin {"u", "v"}
      \/ f.ref.kind = "table" /\ f.exid # "h"
(* Mutant: a type that was seen is not measured again.                     *)
Mut_SeenIsFine(depth, height, maxDepth) == depth > maxDepth
TooDeep(depth, height, maxDepth) == depth + height - 1 > maxDepth

(* The walk: heights remembers the types that were finished.               *)
RECURSIVE ValidateNode(_, _, _, _, _, _)
Raised(height, child) == IF child.ok THEN [child EXCEPT !.height = IF 1 + @ > height THEN 1 + @ ELSE height] ELSE Refused
Descended(graph, f, depth, maxDepth, visiting, s) ==
  IF s.edges > graph.limits.edges THEN Refused
  ELSE Raised(s.height, ValidateNode(graph, graph.nodes[f.ref.target], depth + 1, maxDepth, visiting, s))
ValidateField(graph, node, k, depth, maxDepth, visiting, s) ==
  IF ~s.ok \/ FieldRefused(graph, node, k) THEN Refused
  ELSE IF node.fields[k].ref.kind = "scalar" THEN s
  ELSE Descended(graph, node.fields[k], depth, maxDepth, visiting, [s EXCEPT !.edges = @ + 1])
Remembered(node, done) == IF done.ok THEN [done EXCEPT !.heights = Put(@, node.name, done.height)] ELSE Refused
Entered(graph, node, depth, maxDepth, visiting, s) ==
  IF s.nodes > graph.limits.nodes \/ s.rows > graph.limits.rows \/ ShapeRefused(node) THEN Refused
  ELSE Remembered(node, FoldLeft(LAMBDA w, k : ValidateField(graph, node, k, depth, maxDepth, visiting \cup {node.name}, w),
                                 s, [k \in DOMAIN node.fields |-> k]))
ValidateNode(graph, node, depth, maxDepth, visiting, s) ==
  IF depth > maxDepth THEN Refused
  ELSE IF node.name \in DOMAIN s.heights
    THEN IF TooDeep(depth, s.heights[node.name], maxDepth) THEN Refused ELSE [s EXCEPT !.height = s.heights[node.name]]
  ELSE IF node.name \in visiting THEN Refused
  ELSE Entered(graph, node, depth, maxDepth, visiting, [s EXCEPT !.nodes = @ + 1, !.rows = @ + Len(node.fields), !.height = 1])
Unwalked == [ok |-> TRUE, heights |-> <<>>, height |-> 0, nodes |-> 0, rows |-> 0, edges |-> 0]
(* validateAtDepth.                                                        *)
Validated(graph, p, plan, maxDepth) ==
  IF ~plan.ok THEN Refused
  ELSE IF ~plan.needed \/ p.name = <<>> \/ OverBudget(graph) THEN Refused
  ELSE IF ValidateNode(graph, plan.node, 1, maxDepth, {}, Unwalked).ok THEN plan ELSE Refused
ValidateAtDepth(graph, p, maxDepth) == Validated(graph, p, ResolveParameter(graph, p), maxDepth)

-----------------------------------------------------------------------------
(* EscapeTag: letters and digits stay, "/" becomes "_-", and any other     *)
(* character of Latin-1 "_--" and two hexadecimal digits.                  *)
Hex(d) == IF d < 10 THEN 48 + d ELSE 55 + d
FromHex(c) == IF IsDigit(c) THEN c - 48 ELSE c - 55
IsUpperHex(c) == IsDigit(c) \/ c \in 65..70
(* Mutant: a hyphen stays, and "_-" is read as "/".                        *)
Mut_HyphenStays(c, k) == Letter(c) \/ (k > 1 /\ (IsDigit(c) \/ c = 45)) \/ c > 255
TagCharacter(c, k) == Letter(c) \/ (k > 1 /\ IsDigit(c)) \/ c > 255
EscapeTag(name) ==
  FlattenSeq([k \in DOMAIN name |->
    LET c == name[k]
    IN  IF TagCharacter(c, k) THEN <<c>> ELSE IF c = 47 THEN <<95, 45>> ELSE <<95, 45, 45, Hex(c \div 16), Hex(c % 16)>>])
(* unescapeTag: a character from 128 to 255 comes back as a single byte,   *)
(* which is no UTF-8; -1 stands for it.                                    *)
RECURSIVE Unescaped(_)
Unescaped(t) ==
  LET Is(k, c) == Len(t) >= k /\ t[k] = c
      n == 16 * FromHex(t[4]) + FromHex(t[5])
  IN  IF t = <<>> THEN <<>>
      ELSE IF ~Is(1, 95) \/ ~Is(2, 45) THEN <<t[1]>> \o Unescaped(Tail(t))
      ELSE IF ~Is(3, 45) THEN <<47>> \o Unescaped(SubSeq(t, 3, Len(t)))
      ELSE IF Len(t) < 5 THEN <<-1>>
      ELSE IF ~IsUpperHex(t[4]) \/ ~IsUpperHex(t[5]) THEN <<-1>>
      ELSE <<IF n > 127 THEN -1 ELSE n>> \o Unescaped(SubSeq(t, 6, Len(t)))
Reescaped(t, name) ==
  IF name = <<>> \/ (\E k \in DOMAIN name : name[k] = -1) THEN Refused
  ELSE IF EscapeTag(name) # t THEN Refused ELSE [ok |-> TRUE, name |-> name]
UnescapeTag(t) == Reescaped(t, Unescaped(t))
(* DecodeRecursiveParameterName.                                           *)
DecodeRecursiveParameterName(doc) ==
  IF doc # <<>> /\ doc[1][1] = "open" /\ Bytes(doc[1][2]) \in 1..255 THEN UnescapeTag(doc[1][2]) ELSE Refused

-----------------------------------------------------------------------------
(* The writer: the document so far, its size, and what it has counted.  c  *)
(* holds the graph and the limits of a value.                              *)
Writer == [ok |-> TRUE, doc |-> <<>>, bytes |-> 0, nodes |-> 0, rows |-> 0, cells |-> 0]
Emit(c, token, s) ==
  IF s.ok /\ s.bytes + TokenSize(token) <= c.limits.bytes
  THEN [s EXCEPT !.doc = Append(@, token), !.bytes = @ + TokenSize(token)] ELSE Refused
OpenTag(c, name, s) == Emit(c, <<"open", EscapeTag(name)>>, s)
CloseTag(c, name, s) == Emit(c, <<"close", EscapeTag(name)>>, s)
(* assertDepth and visitContainer, and the same of the reader.             *)
VisitContainer(c, depth, s) ==
  IF s.ok /\ depth <= c.limits.depth /\ s.nodes < c.limits.nodes THEN [s EXCEPT !.nodes = @ + 1] ELSE Refused
CountCell(c, s) == IF s.ok /\ s.cells < c.limits.cells THEN [s EXCEPT !.cells = @ + 1] ELSE Refused
CountRow(c, s) == IF s.ok /\ s.rows < c.limits.rows THEN [s EXCEPT !.rows = @ + 1] ELSE Refused

CanonicalEntity(cp) == cp <= 8 \/ cp \in {11, 12, 38, 60, 62} \cup 14..31
RecursiveEscapedText(lex) ==
  IF ~lex.ok THEN Refused
  ELSE IF \E k \in DOMAIN lex.text : lex.text[k] \in {65534, 65535} THEN Refused
  ELSE [ok |-> TRUE, pieces |-> [k \in DOMAIN lex.text |->
          IF CanonicalEntity(lex.text[k]) THEN Reference(lex.text[k]) ELSE Raw(lex.text[k])]]
EmitText(c, text, s) ==
  IF ~s.ok \/ ~text.ok THEN Refused
  ELSE IF text.pieces = <<>> THEN s
  ELSE IF Size(text.pieces) > c.limits.cellBytes THEN Refused ELSE Emit(c, <<"text", text.pieces>>, s)
RecursiveScalarText(f, v) == IF f.exid \in SupportedTypes THEN Lexical(f, v) ELSE Refused
RecursiveInitialScalar(f) == InitialCell(f)
EncodeScalar(c, f, v, s) == EmitText(c, RecursiveEscapedText(RecursiveScalarText(f, v)), CountCell(c, s))

RECURSIVE EncodeReference(_, _, _, _, _)
(* What stands for a field that is not given.                              *)
Supplied(f, record) ==
  IF f.name \in DOMAIN record THEN record[f.name]
  ELSE IF f.ref.kind = "scalar" THEN RecursiveInitialScalar(f)
  ELSE IF f.ref.kind = "table" THEN [type |-> "rows", v |-> <<>>] ELSE [type |-> "object", v |-> <<>>]
WriteField(c, f, record, depth, s) ==
  IF Unnamed(f) THEN Refused
  ELSE CloseTag(c, f.name, EncodeReference(c, f, Supplied(f, record), depth + 1, OpenTag(c, f.name, s)))
EncodeStructure(c, node, v, depth, s) ==
  IF v.type # "object" THEN Refused
  ELSE IF ~(DOMAIN v.v \subseteq {node.fields[k].name : k \in DOMAIN node.fields}) THEN Refused
  ELSE FoldLeft(LAMBDA w, f : WriteField(c, f, v.v, depth, w), VisitContainer(c, depth, s), node.fields)
(* A line of scalars may be given as an object with an empty name.         *)
Wrapper(f, row) == f.ref.kind = "scalar" /\ row.type = "object" /\ <<>> \in DOMAIN row.v
EncodeLine(c, f, row, depth, s) ==
  IF ~Wrapper(f, row) THEN EncodeReference(c, f, row, depth + 1, s)
  ELSE IF DOMAIN row.v # {<<>>} THEN Refused ELSE EncodeReference(c, f, row.v[<<>>], depth + 1, s)
EncodeTableLine(c, node, row, depth, s) ==
  IF LineType(node) THEN EncodeLine(c, node.fields[1], row, depth, s) ELSE EncodeStructure(c, node, row, depth, s)
(* Mutant: the writer does not count the rows.                             *)
Mut_RowsUncounted(c, node, v, depth, s) ==
  IF v.type # "rows" THEN Refused
  ELSE FoldLeft(LAMBDA w, row : CloseTag(c, Item, EncodeTableLine(c, node, row, depth, OpenTag(c, Item, w))),
                VisitContainer(c, depth, s), v.v)
EncodeTable(c, node, v, depth, s) ==
  IF v.type # "rows" THEN Refused
  ELSE FoldLeft(LAMBDA w, row : CloseTag(c, Item, EncodeTableLine(c, node, row, depth, OpenTag(c, Item, CountRow(c, w)))),
                VisitContainer(c, depth, s), v.v)
EncodeContainer(c, kind, node, v, depth, s) ==
  IF kind = "structure" THEN EncodeStructure(c, node, v, depth, s) ELSE EncodeTable(c, node, v, depth, s)
EncodeReference(c, f, v, depth, s) ==
  IF ~s.ok THEN Refused
  ELSE IF f.ref.kind = "scalar" THEN EncodeScalar(c, f, v, s)
  ELSE IF depth > c.limits.depth \/ ~HasTarget(c.graph, f.ref) THEN Refused
  ELSE EncodeContainer(c, f.ref.kind, c.graph.nodes[f.ref.target], v, depth, s)

Planned(c, p, plan, v) ==
  IF plan.ok THEN CloseTag(c, p.name, EncodeContainer(c, plan.kind, plan.node, v, 1, OpenTag(c, p.name, Writer))) ELSE Refused
EncodeRecursiveParameter(p, graph, v, limits) ==
  Planned([graph |-> graph, limits |-> limits], p, ValidateAtDepth(graph, p, limits.depth), v)

-----------------------------------------------------------------------------
(* recursiveDecodeEntities: a control character may come as a reference.   *)
RecursiveEntities(raw) ==
  IF EndsCdata(raw) \/ \E k \in DOMAIN raw : ~Readable(raw[k]) \/ ~(raw[k].ref \/ XmlCodePoint(raw[k].cp)) \/ raw[k].cp \in {65534, 65535}
  THEN Refused ELSE Lex(Chars(raw))
RecursiveBase64(t, maximum) == IF Len(UnwrapBase64(t)) > maximum THEN Refused ELSE DecodeBase64(t, maximum)
Padded(f, b) ==
  IF ~b.ok THEN Refused ELSE IF Len(b.value.v) > f.len THEN Refused ELSE Got("bytes", b.value.v \o Fill(0, f.len - Len(b.value.v)))
(* decodedScalar, with assertDecodedValueBytes and decodedValue.           *)
DecodedScalar(c, f, t, r) ==
  Budgeted(f, CASE f.exid = "X" -> Padded(f, RecursiveBase64(t, c.limits.cellBytes))
                [] f.exid = "y" -> RecursiveBase64(t, c.limits.cellBytes)
                [] OTHER -> ReadLexical(f, t), c.limits, r)
ScalarText(c, f, text, r) == IF text.ok THEN DecodedScalar(c, f, text.text, AfterText(r)) ELSE Refused
(* rparser.cell.                                                           *)
ParseScalar(c, f, r) ==
  IF ~r.ok THEN Refused ELSE IF TooLong(r, c.limits.cellBytes) THEN Refused ELSE ScalarText(c, f, RecursiveEntities(RawText(r)), r)

RECURSIVE ParseReference(_, _, _, _)
ParseOpen(name, r) == Skip(r, <<"open", EscapeTag(name)>>)
ParseClose(name, r) == Skip(r, <<"close", EscapeTag(name)>>)
StoreField(f, acc, r) == [r |-> r, row |-> IF r.ok THEN Put(acc.row, f.name, r.value) ELSE acc.row]
ParseNamed(c, depth, acc, f) ==
  IF Unnamed(f) THEN [acc EXCEPT !.r = Refused]
  ELSE StoreField(f, acc, ParseClose(f.name, ParseReference(c, f, depth + 1, ParseOpen(f.name, acc.r))))
AsObject(acc) == Keep(acc.r, [type |-> "object", v |-> acc.row])
ParseStructure(c, node, depth, r) ==
  AsObject(FoldLeft(LAMBDA acc, f : ParseNamed(c, depth, acc, f), [r |-> VisitContainer(c, depth, r), row |-> <<>>], node.fields))
ParseTableLine(c, node, depth, r) ==
  IF LineType(node) THEN ParseReference(c, node.fields[1], depth + 1, r) ELSE ParseStructure(c, node, depth, r)
RECURSIVE ParseItems(_, _, _, _, _)
ItemRead(c, node, depth, rows, r) == IF r.ok THEN ParseItems(c, node, depth, Append(rows, r.value), r) ELSE Refused
ParseItems(c, node, depth, rows, r) ==
  IF ~r.ok THEN Refused
  ELSE IF ~At(r, <<"open", Item>>) THEN Keep(r, [type |-> "rows", v |-> rows])
  ELSE ItemRead(c, node, depth, rows, ParseClose(Item, ParseTableLine(c, node, depth, ParseOpen(Item, CountRow(c, r)))))
ParseTable(c, node, depth, r) == ParseItems(c, node, depth, <<>>, VisitContainer(c, depth, r))
ParseContainer(c, kind, node, depth, r) ==
  IF kind = "structure" THEN ParseStructure(c, node, depth, r) ELSE ParseTable(c, node, depth, r)
ParseReference(c, f, depth, r) ==
  IF ~r.ok THEN Refused
  ELSE IF f.ref.kind = "scalar" THEN ParseScalar(c, f, CountCell(c, r))
  ELSE IF depth > c.limits.depth \/ ~HasTarget(c.graph, f.ref) THEN Refused
  ELSE ParseContainer(c, f.ref.kind, c.graph.nodes[f.ref.target], depth, r)

Parsed(c, p, plan, doc) ==
  IF ~plan.ok \/ DocumentSize(doc) > c.limits.bytes THEN Refused
  ELSE Value(ParseClose(p.name, ParseContainer(c, plan.kind, plan.node, 1, ParseOpen(p.name, Reader(doc)))))
DecodeRecursiveParameter(p, graph, doc, limits) ==
  Parsed([graph |-> graph, limits |-> limits], p, ValidateAtDepth(graph, p, limits.depth), doc)

-----------------------------------------------------------------------------
(* The types at distance k from a root, and the references between types.  *)
Edges(graph, n) == {k \in DOMAIN graph.nodes[n].fields : graph.nodes[n].fields[k].ref.kind # "scalar"}
Successors(graph, n) == {graph.nodes[n].fields[k].ref.target : k \in Edges(graph, n)}
WellFormed(graph, n) ==
  n \in DOMAIN graph.nodes /\ ~ShapeRefused(graph.nodes[n])
  /\ \A k \in DOMAIN graph.nodes[n].fields : ~FieldRefused(graph, graph.nodes[n], k)
Total(Of(_), S) == FoldSet(LAMBDA n, sum : Of(n) + sum, 0, S)
InBudget(graph, levels, maxDepth) ==
  LET reached == UNION {levels[k] : k \in 1..maxDepth}
  IN  /\ levels[maxDepth + 1] = {} /\ Cardinality(reached) <= graph.limits.nodes
      /\ Total(LAMBDA n : Len(graph.nodes[n].fields), reached) <= graph.limits.rows
      /\ Total(LAMBDA n : Cardinality(Edges(graph, n)), reached) <= graph.limits.edges
(* validateNode, which remembers the height of a finished type instead of  *)
(* walking it again, accepts a type exactly when everything reachable from *)
(* it is well formed, no path is longer than maxDepth (so that there is no *)
(* cycle) and the graph and what is reached of it fit the budget.          *)
ValidationIsExact(graph, root, maxDepth, ok) ==
  LET Level[k \in 1..(maxDepth + 1)] == IF k = 1 THEN {root} ELSE UNION {Successors(graph, n) : n \in Level[k - 1]}
      sound == \A k \in 1..maxDepth : \A n \in Level[k] : WellFormed(graph, n)
  IN  ok = (~OverBudget(graph) /\ sound /\ InBudget(graph, Level, maxDepth))

(* What a reader makes of a value along the graph.                         *)
RECURSIVE CanonicalNested(_, _, _, _)
CanonicalField(graph, f, v) ==
  IF f.ref.kind = "scalar" THEN CanonicalCell(f, v) ELSE CanonicalNested(graph, f.ref.kind, graph.nodes[f.ref.target], v)
CanonicalRecord(graph, node, record) ==
  [type |-> "object",
   v |-> [name \in {node.fields[k].name : k \in DOMAIN node.fields} |->
            LET f == node.fields[CHOOSE k \in DOMAIN node.fields : node.fields[k].name = name]
            IN  CanonicalField(graph, f, Supplied(f, record))]]
CanonicalNested(graph, kind, node, v) ==
  LET Line(row) == IF ~LineType(node) THEN CanonicalRecord(graph, node, row.v)
                   ELSE CanonicalField(graph, node.fields[1], IF Wrapper(node.fields[1], row) THEN row.v[<<>>] ELSE row)
  IN  IF kind = "structure" THEN CanonicalRecord(graph, node, v.v) ELSE [v EXCEPT !.v = [k \in DOMAIN @ |-> Line(@[k])]]
NoLimits == [depth |-> 9, nodes |-> 99, rows |-> 99, cells |-> 99, cellBytes |-> 999, bytes |-> 9999]
(* What EncodeRecursiveParameter writes is read under its name and with    *)
(* its values, whatever is nested in it, and the loss of a tag is noticed. *)
RecursiveRoundTrip(p, graph, v, limits, r) ==
  LET plan == ResolveParameter(graph, p)
  IN  /\ DecodeRecursiveParameterName(r.doc) = [ok |-> TRUE, name |-> p.name]
      /\ DecodeRecursiveParameter(p, graph, r.doc, limits) = [ok |-> TRUE, value |-> CanonicalNested(graph, plan.kind, plan.node, v)]
      /\ \A k \in DOMAIN r.doc :
           r.doc[k][1] # "text" => ~DecodeRecursiveParameter(p, graph, Without(r.doc, k), limits).ok
AgreesUnbounded(p, graph, limits, r, free) ==
  r.ok = (free.ok /\ DecodeRecursiveParameter(p, graph, IF free.ok THEN free.doc ELSE <<>>, limits).ok)
(* The writer and the reader count nodes, rows, cells and bytes alike: the *)
(* reader takes exactly the documents that the writer would write under    *)
(* the same limits.                                                        *)
RecursiveLimitsAgree(p, graph, v, limits, r) ==
  AgreesUnbounded(p, graph, limits, r, EncodeRecursiveParameter(p, graph, v, NoLimits))
=============================================================================
