------------------------------ MODULE XrfcCases -------------------------------
(***************************************************************************)
(* Bounded families of inputs for the codecs of xRFC: rows with a field of *)
(* every type, nested types, limits around the size of a document, graphs  *)
(* of three types with every order of references, and names of tags.       *)
(***************************************************************************)
EXTENDS Integers, Sequences, FiniteSets, SequencesExt, TLC

XR == INSTANCE RecursiveXrfc

A == <<65>>
B == <<66>>
XText(t) == [type |-> "text", v |-> t]
XObject(m) == [type |-> "object", v |-> m]
XRows(s) == [type |-> "rows", v |-> s]
Plain(neg, int, frac) == [type |-> "number", v |-> [neg |-> neg, int |-> int, frac |-> frac, exp |-> 0, over |-> 0]]
(* Markup, controls, characters of two UTF-16 units, the end of a CDATA    *)
(* section, and texts that fit one field and not another.                  *)
Texts == {<<>>, A, <<48, 55>>, <<38, 65>>, <<60, 62>>, <<9>>, <<1>>, <<31, 65>>, <<65534>>, <<8364, 32>>, <<128512>>, <<93, 93, 62>>,
          [k \in 1..8 |-> 48], [k \in 1..8 |-> 32], [k \in 1..6 |-> 49]}
CellValues ==
  {XText(t) : t \in Texts} \cup {[type |-> "int", v |-> n] : n \in {0, -7, 200, 40000, -2147483647}}
  \cup {[type |-> "bytes", v |-> b] : b \in {<<>>, <<0>>, <<7, 255>>, <<250, 1, 2>>, <<251, 240, 0, 1>>}}
  \cup {Plain(FALSE, <<7>>, <<>>), Plain(TRUE, <<1, 2>>, <<5>>), Plain(FALSE, <<9, 9, 9, 9>>, <<>>)}
  \cup {[type |-> "temporal", v |-> <<>>], [type |-> "temporal", v |-> <<[y |-> 1582, m |-> 10, d |-> 15]>>]}

(* Rows of a field of any type and a string.                               *)
FlatKinds == {<<"C", 4, 0>>, <<"N", 6, 0>>, <<"D", 16, 0>>, <<"T", 12, 0>>, <<"X", 2, 0>>, <<"X", 3, 0>>, <<"P", 2, 1>>, <<"I", 4, 0>>, <<"y", 8, 0>>,
              <<"g", 8, 0>>, <<"b", 1, 0>>}
FlatField(name, kind, pos, off) ==
  [table |-> "s", field |-> name, pos |-> pos, off |-> off, len |-> kind[2], dec |-> kind[3], exid |-> kind[1]]
FlatRow(kind, second) ==
  [name |-> "s", length |-> 32, fields |-> <<FlatField(A, kind, 1, 0), FlatField(second, <<"g", 8, 0>>, 2, 24)>>]
FlatInput(name, def, kind, v, limits) == [name |-> name, def |-> def, kind |-> kind, v |-> v, limits |-> limits]
Limited(base, cells, sizes) == {[base EXCEPT !.cellBytes = n] : n \in cells} \cup {[base EXCEPT !.rowBytes = n] : n \in sizes}
                               \cup {[base EXCEPT !.bytes = n] : n \in sizes} \cup {[base EXCEPT !.rows = n] : n \in 0..3}
FlatInputs ==
  LET Given == {XR!Put(<<>>, A, v) : v \in CellValues} \cup {<<>>, XR!Put(<<>>, <<67>>, XText(A))}
      Two(v) == XRows(<<XR!Put(<<>>, A, v), XR!Put(<<>>, B, XText(<<38>>))>>)
      Some == {[type |-> "bytes", v |-> <<7, 255>>], XText(<<48, 55>>)}
  IN  {FlatInput(<<80>>, FlatRow(k, B), "structure", XObject(in), XR!Free) : k \in FlatKinds, in \in Given}
      \cup {FlatInput(<<80>>, FlatRow(k, B), "table", Two(v), XR!Free) : k \in FlatKinds, v \in CellValues}
      \cup {FlatInput(n, FlatRow(<<"C", 4, 0>>, s), kind, v, XR!Free) :
              n \in {<<80>>, <<95, 49>>, <<49>>, <<47, 78>>, <<>>}, s \in {B, A, <<45>>}, kind \in {"structure", "table"},
              v \in {XObject(<<>>), XRows(<<>>)}}
      \cup {FlatInput(<<80>>, FlatRow(k, B), "table", Two(v), L) :
              k \in {<<"X", 2, 0>>, <<"N", 6, 0>>, <<"y", 8, 0>>}, v \in Some, L \in Limited(XR!Free, 0..8, 15..90)}
      \cup {FlatInput(<<80>>, FlatRow(<<"N", 6, 0>>, B), "structure", XObject(XR!Put(<<>>, A, XText(<<48, 55>>))), L) :
              L \in Limited(XR!Free, 0..8, 5..40)}

(* Parameters of nested types: a structure S of a scalar, a table and a    *)
(* structure, where the table has lines of every form.                     *)
Scalar(name, exid, len, dec) ==
  [name |-> name, exid |-> exid, len |-> len, dec |-> dec, ref |-> [kind |-> "scalar", target |-> "", cyclic |-> FALSE]]
Nested(name, kind, target) ==
  [name |-> name, exid |-> IF kind = "table" THEN "h" ELSE "u", len |-> 8, dec |-> 0,
   ref |-> [kind |-> kind, target |-> target, cyclic |-> FALSE]]
Node(name, kind, fields) == [name |-> name, kind |-> kind, fields |-> fields]
LineForms ==
  {<<Scalar(<<>>, "g", 8, 0)>>, <<Nested(<<>>, "structure", "I")>>, <<Nested(<<>>, "table", "M")>>,
   <<Scalar(A, "y", 8, 0), Nested(B, "table", "M")>>, <<Nested(A, "structure", "I"), Scalar(<<66, 47>>, "s", 2, 0)>>}
Limits == [nodes |-> 9, rows |-> 20, edges |-> 9]
GraphFor(p, kind, target, scalar, lines) ==
  [fn |-> <<"F">>, limits |-> Limits,
   nodes |-> [S |-> Node("S", "structure", <<scalar, Nested(B, "table", "L"), Nested(<<67>>, "structure", "I")>>),
              L |-> Node("L", "table", lines), M |-> Node("M", "table", <<Scalar(<<>>, "I", 4, 0)>>),
              I |-> Node("I", "structure", <<Scalar(A, "g", 8, 0)>>)],
   params |-> <<[name |-> p.name, fn |-> "F", class |-> p.class, exid |-> p.exid, type |-> target,
                 ref |-> [kind |-> kind, target |-> target, cyclic |-> FALSE]]>>]
XParam(name, class, exid, table) == [name |-> name, class |-> class, exid |-> exid, table |-> table]
Ints == XRows(<<[type |-> "int", v |-> 5], [type |-> "int", v |-> -1]>>)
Inner == XObject(XR!Put(<<>>, A, XText(<<60>>)))
Lines ==
  {XText(<<38, 1>>), XObject(XR!Put(<<>>, <<>>, XText(A))), Inner, Ints, XObject(<<>>), XRows(<<>>),
   XObject(XR!Put(XR!Put(<<>>, A, [type |-> "bytes", v |-> <<7>>]), B, Ints)), XObject(XR!Put(<<>>, A, Inner)),
   XObject(XR!Put(XR!Put(<<>>, A, XText(A)), <<>>, XText(A)))}
ScalarKinds == {<<"C", 4, 0>>, <<"N", 6, 0>>, <<"D", 16, 0>>, <<"T", 12, 0>>, <<"X", 3, 0>>, <<"P", 2, 1>>, <<"I", 4, 0>>, <<"b", 1, 0>>,
                <<"s", 2, 0>>, <<"y", 8, 0>>, <<"g", 8, 0>>, <<"d", 4, 0>>, <<"C", 3, 0>>}
NestedInput(p, graph, v, limits) == [p |-> p, graph |-> graph, v |-> v, limits |-> limits]
ValueOf(lines, inner) == XR!Put(XR!Put(<<>>, B, XRows(lines)), <<67>>, inner)
Around1(base, counts, sizes) ==
  {[base EXCEPT ![k] = n] : k \in {"depth", "nodes", "rows", "cells"}, n \in counts} \cup {[base EXCEPT !.cellBytes = n] : n \in 0..11}
  \cup {[base EXCEPT !.bytes = n] : n \in sizes}
NestedInputs ==
  LET Root == XParam(<<80>>, "I", "v", "S")
      Plain1 == Scalar(A, "g", 8, 0)
      Of(kind) == Scalar(A, kind[1], kind[2], kind[3])
  IN  {NestedInput(Root, GraphFor(Root, "structure", "S", Of(k), <<Scalar(<<>>, "g", 8, 0)>>), XObject(XR!Put(<<>>, A, v)), XR!NoLimits) :
         k \in ScalarKinds, v \in CellValues}
      \cup {NestedInput(Root, GraphFor(Root, "structure", "S", Plain1, f), XObject(ValueOf(<<l, m>>, Inner)), XR!NoLimits) :
              f \in LineForms, l \in Lines, m \in Lines}
      \cup {NestedInput(p, GraphFor(p, ref[1], ref[2], Plain1, f), v, XR!NoLimits) :
              p \in {XParam(n, c, e, "S") : n \in {<<80>>, <<47, 78, 47, 84>>, <<57, 46>>, <<8364>>, <<>>}, c \in {"I", "T"}, e \in {"u", "v", "h", "C"}},
              ref \in {<<"structure", "S">>, <<"table", "S">>, <<"table", "L">>, <<"scalar", "">>}, f \in LineForms,
              v \in {XObject(<<>>), XRows(<<>>), XRows(<<XObject(<<>>)>>)}}
      \cup {NestedInput(Root, GraphFor(Root, "structure", "S", Plain1, f), XObject(ValueOf(<<l, l>>, Inner)), limits) :
              f \in LineForms, l \in {XText(<<38>>), Inner, Ints, XObject(<<>>)}, limits \in Around1(XR!NoLimits, 0..7, 20..120)}

(* Every graph of three types with up to two references each (one for the  *)
(* third), in every order, at every depth; graphs of four, where a type is *)
(* met again on a longer path; budgets around what they need; and          *)
(* references that are marked, dangling or of another kind.                *)
Targets == {<<>>} \cup {<<t>> : t \in {"A", "B", "C"}} \cup {<<t, u>> : t, u \in {"A", "B", "C"}}
TypeFields(targets) ==
  <<Scalar(<<48>>, "g", 8, 0)>> \o [k \in DOMAIN targets |-> Nested(<<64 + k>>, "structure", targets[k])]
TypesOf(a, b, c) ==
  [fn |-> <<"F">>, limits |-> Limits,
   nodes |-> [A |-> Node("A", "structure", TypeFields(a)), B |-> Node("B", "structure", TypeFields(b)), C |-> Node("C", "structure", TypeFields(c))],
   params |-> <<[name |-> <<80>>, fn |-> "F", class |-> "I", exid |-> "v", type |-> "A", ref |-> [kind |-> "structure", target |-> "A", cyclic |-> FALSE]]>>]
FourTypes(a, b, c, d) ==
  LET three == TypesOf(a, b, c)
  IN  [three EXCEPT !.nodes = XR!Put(@, "D", Node("D", "structure", TypeFields(d)))]
UpTo1(names) == {<<>>} \cup {<<t>> : t \in names}
ValidateInputs ==
  {[graph |-> FourTypes(<<t, u>>, b, c, d), depth |-> n] :
     t, u \in {"B", "C", "D"}, b \in UpTo1({"C", "D"}), c \in UpTo1({"B", "D"}), d \in UpTo1({"B", "C"}), n \in 2..4}
  \cup {[graph |-> TypesOf(a, b, c), depth |-> d] : a, b \in Targets, c \in {t \in Targets : Len(t) < 2}, d \in 1..4}
  \cup {[graph |-> [TypesOf(a, b, <<>>) EXCEPT !.limits = [nodes |-> n, rows |-> r, edges |-> e]], depth |-> 4] :
          a \in Targets, b \in {<<>>, <<"C">>, <<"C", "C">>}, n \in {2, 3}, r \in 2..7, e \in 0..4}
  \cup {[graph |-> [TypesOf(<<"B">>, b, <<>>) EXCEPT !.nodes.B.fields[1] = f], depth |-> 4] :
          b \in Targets, f \in {Scalar(<<48>>, "C", 3, 0), Scalar(<<65>>, "C", 4, 0), Scalar(<<>>, "C", 4, 0), Scalar(<<48>>, "?", 4, 0),
                                Nested(<<48>>, "table", "C"), Nested(<<48>>, "structure", "D"),
                                [Nested(<<48>>, "structure", "C") EXCEPT !.ref.cyclic = TRUE], [Nested(<<48>>, "structure", "C") EXCEPT !.exid = "h"]}}

TagInputs == UNION {[1..n -> {65, 95, 45, 47, 48, 32, 46, 8364}] : n \in 1..3}
=============================================================================
