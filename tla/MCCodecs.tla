------------------------------ MODULE MCCodecs --------------------------------
(***************************************************************************)
(* The pure algorithms of the repository on bounded families of inputs.    *)
(* Each operation is a step from an input to its result; the properties    *)
(* relate the two.                                                         *)
(***************************************************************************)
EXTENDS WireCases, XrfcCases

TG == INSTANCE TypeGraph
MG == INSTANCE MetadataGet
TM == INSTANCE Temporal
DC == INSTANCE Decimals
ST == INSTANCE Structure
CL == INSTANCE Call

VARIABLES
  suite,    \* the operation
  input,    \* what it is given
  result    \* what it returned, <<>> before

vars == <<suite, input, result>>

(* Families of inputs of Normalize.  Every graph of three types, the third *)
(* a structure or a table, and every graph of four with one reference each;*)
(* rows with every small geometry; parameters over one fixed closure.      *)
Row(t, f, exid, target, off, len, total) ==
  [type |-> t, field |-> f, exid |-> exid, target |-> target, off |-> off, len |-> len,
   total |-> total, stamp |-> "now"]
Metadata(types) ==
  [names |-> <<"F">>, types |-> types, indirects |-> <<>>, params |-> <<>>, roots |-> {},
   limits |-> [rows |-> 20, properties |-> 400, nodes |-> 4, edges |-> 9, depth |-> 3]]

TypeNames == <<"t1", "t2", "t3", "t4">>
FieldNames == <<"f1", "f2", "f3">>
StructureRows(t, targets, tables) ==
  LET ts == SetToSortSeq(targets, LAMBDA a, b : a < b)
      Ref(j) == IF j \in tables THEN "h" ELSE "u"
  IN  IF ts = <<>> THEN <<Row(TypeNames[t], "c", "C", "", 0, 1, 3)>>
      ELSE [k \in DOMAIN ts |-> Row(TypeNames[t], FieldNames[k], Ref(ts[k]), TypeNames[ts[k]], k - 1, 1, 3)]
GraphOf(edges, tables) ==
  FlattenSeq([t \in DOMAIN edges |->
    IF t \in tables /\ Cardinality(edges[t]) = 1
    THEN [k \in 1..1 |-> [StructureRows(t, edges[t], tables)[1] EXCEPT !.field = ""]]
    ELSE StructureRows(t, edges[t], tables)])
Graphs ==
  {[Metadata(GraphOf(e, tb)) EXCEPT !.roots = r] :
     e \in [1..3 -> SUBSET (1..3)], tb \in {{}, {3}}, r \in {{}, {"t1"}}}
  \cup {Metadata(GraphOf(e, {})) : e \in [1..4 -> {{}, {1}, {2}, {3}, {4}}]}

Geometries ==
  LET Field(n, o, l) == Row("a", n, "C", "", o, l, 3)
      AnyField == {Field(n, o, l) : n \in {"x", "y", ""}, o \in 0..2, l \in 0..2}
      Line == {Row("a", "", "C", "", 0, 2, 0), Row("a", "", "u", "", 0, 2, 3)}
      Nth(n) == {Field(n, o, l) : o \in 0..3, l \in 0..2}
  IN  {Metadata(<<r>>) : r \in AnyField \cup Line} \cup {Metadata(<<r, q>>) : r, q \in AnyField}
      \cup {Metadata(<<r, q, s>>) : r \in Nth("x"), q \in Nth("y"), s \in Nth("z")}
      \cup {Metadata([k \in 1..3 |-> [Row(t[k], FieldNames[k], "C", "", k - 1, 1, 3) EXCEPT !.stamp = st[k]]]) :
              t \in [1..3 -> {"a", "b"}], st \in [1..3 -> {"now", "then"}]}

Parameters ==
  LET Closed == Metadata(<<Row("s", "x", "C", "", 0, 1, 3), Row("s", "y", "u", "i", 1, 1, 3),
                           Row("i", "c", "C", "", 0, 1, 1), Row("l", "", "C", "", 0, 1, 0),
                           Row("h", "", "u", "i", 0, 1, 1)>>)
      Param(fn, c, n, t, p, e) == [fn |-> fn, class |-> c, name |-> n, table |-> t, path |-> p, exid |-> e]
      Paths == {<<>>, <<"x">>, <<"y">>, <<"y", "c">>}
      Indirect(t, p, to) == [table |-> t, path |-> p, target |-> to]
      Maps == {<<>>, <<Indirect("s", <<"y", "c">>, "l")>>, <<Indirect("s", <<"y", "c">>, "h")>>,
               <<Indirect("s", <<"y", "c">>, "l"), Indirect("s", <<"y", "c">>, "l")>>,
               <<Indirect("s", <<"x">>, "l")>>}
      One == {Param("F", c, "p", t, p, e) : c \in {"I", "T", "X"}, t \in {"", "s", "l", "h", "z"}, p \in Paths, e \in {"C", "u", "h", ""}}
      Some == {Param(fn, "I", n, t, <<>>, e) : fn \in {"F", "G"}, n \in {"p", "q"}, t \in {"s", "h"}, e \in {"u", "h"}}
  IN  {[Closed EXCEPT !.params = <<p>>, !.indirects = m, !.roots = {"s", "i", "l", "h"}] : p \in One, m \in Maps}
      \cup {[Closed EXCEPT !.params = <<p, q>>, !.roots = {"l"}] : p, q \in Some}
      \cup {[Closed EXCEPT !.params = <<p>>, !.names = ns] : p \in Some, ns \in {<<>>, <<"F">>, <<"F", "F">>}}
      \cup {[Closed EXCEPT !.limits[k] = b] : k \in {"rows", "nodes", "edges", "depth"}, b \in 0..6}
      \cup {[Closed EXCEPT !.limits.properties = b] : b \in {8, 82, 83, 84}}

MetadataInputs == Graphs \cup Geometries \cup Parameters

(* Answers of RFC_METADATA_GET for the function F: interfaces of one or two*)
(* rows, some of another function; and deep answers with and without       *)
(* errors, in which the type UTCLONG is used in every place it can be.     *)
Answer(types, params) ==
  [names |-> <<"F">>, types |-> types, indirects |-> <<>>, params |-> params, roots |-> {},
   funcErrors |-> <<>>, ddErrors |-> <<>>, basxml |-> "", stamp |-> "now",
   limits |-> [rows |-> 20, properties |-> 400, nodes |-> 4, edges |-> 9, depth |-> 3]]
Formal(fn, class, name, table, exid, len) ==
  [fn |-> fn, class |-> class, name |-> name, table |-> table, path |-> <<>>, exid |-> exid,
   len |-> len, dec |-> 0, opt |-> ""]
FunctionAnswers ==
  LET One == {[Formal(fn, c, n, "", e, l) EXCEPT !.opt = o] :
                fn \in {"F", "G"}, c \in {"I", "X", "Q"}, n \in {"p", "?"}, e \in {"C", "I"}, l \in {3, 4},
                o \in {"", "X", "?"}}
      Some == {Formal(fn, c, n, "", "N", 4) : fn \in {"F", "G"}, c \in {"E", "X"}, n \in {"p", "q"}}
  IN  {Answer(<<>>, <<p>>) : p \in One} \cup {Answer(<<>>, <<p, q>>) : p, q \in Some}
      \cup {[Answer(<<>>, <<p>>) EXCEPT !.names = ns, !.funcErrors = e, !.basxml = b, !.stamp = s] :
              p \in Some, ns \in {<<>>, <<"F">>, <<"G", "F">>, <<"F", "F">>}, b \in {"X", "?"}, s \in {"now", "?"},
              e \in {<<>>, <<[name |-> "F", exception |-> "NOT_FOUND"]>>, <<[name |-> "G", exception |-> "NOT_FOUND"]>>}}
RecursiveAnswers ==
  LET Typed(t, f, exid, target, data) == [Row(t, f, exid, target, 0, 1, 1) EXCEPT !.len = 1] @@ [data |-> data]
      Types == {<<Typed("s", "x", e, t, d)>> \o inner :
                  e \in {"C", "u"}, t \in {"", "i", "UTCLONG"}, d \in {"CHAR", "UTCLONG"},
                  inner \in {<<>>, <<Typed("i", "c", "C", "", "CHAR")>>, <<Typed("UTCLONG", "c", "C", "", "CHAR")>>}}
      Stamp == Formal("F", "C", "t", "UTCLONG", "p", 8)
      Extra == {<<>>, <<Stamp>>, <<[Stamp EXCEPT !.class = "I"]>>, <<[Stamp EXCEPT !.exid = "u"]>>,
                <<Stamp, [Stamp EXCEPT !.name = "v", !.len = 16]>>, <<[Stamp EXCEPT !.fn = "G"]>>,
                <<Formal("F", "X", "e", "", "", 0), Stamp>>, <<Formal("G", "X", "e", "", "", 0)>>}
      Missing == {<<>>, <<[name |-> "UTCLONG", field |-> "", exception |-> "NOT_FOUND"]>>,
                  <<[name |-> "i", field |-> "", exception |-> "NOT_FOUND"]>>}
  IN  {[Answer(ty, <<Formal("F", "I", "p", "s", "u", 0)>> \o ex) EXCEPT !.ddErrors = m, !.funcErrors = fe] :
         ty \in Types, ex \in Extra, m \in Missing,
         fe \in {<<>>, <<[name |-> "i", exception |-> "NOT_FOUND"]>>}}
      \cup {[Answer(<<>>, ex) EXCEPT !.limits.rows = b] : ex \in Extra, b \in 0..3}

(* Timestamp batches of up to two functions and a structure.               *)
TimestampInputs ==
  LET Names == {<<>>, <<"F">>, <<"F", "G">>, <<"F", "F">>, <<"?">>}
      Stamp == {[name |-> n, stamp |-> t] : n \in {"F", "G"}, t \in {"now", "?"}}
      Error == {[name |-> n, exception |-> "NOT_FOUND"] : n \in {"F", "G"}} \cup {[name |-> "F", exception |-> "?"]}
      UpTo2(S) == {<<>>} \cup {<<x>> : x \in S} \cup {<<x, y>> : x, y \in S}
  IN  {[functions |-> q, structures |-> <<>>,
        out |-> [functions |-> f, structures |-> <<>>, funcErrors |-> e, ddErrors |-> <<>>]] :
         q \in Names, f \in UpTo2(Stamp), e \in UpTo2(Error)}
      \cup {[functions |-> <<"F">>, structures |-> q,
             out |-> [functions |-> <<[name |-> "F", stamp |-> "now"]>>, structures |-> s, funcErrors |-> <<>>, ddErrors |-> e]] :
              q \in Names, s \in {<<>>} \cup {<<x>> : x \in Stamp}, e \in {<<>>} \cup {<<x>> : x \in Error}}

(* Compact temporal values: the days around every irregularity of the      *)
(* calendar, weeks of short and long years, clock times up to midnight.    *)
Temporals ==
  LET Days == [y : {0, 1, 3, 4, 5, 100, 400, 1500, 1581, 1582, 1583, 1600, 1601, 1700, 1900, 2000, 2001, 9999},
               m : {1, 2, 3, 9, 10, 12, 13}, d : {0, 1, 4, 5, 14, 15, 28, 29, 30, 31}]
      Early == [y : {1, 4, 5}, m : {2, 3, 12}, d : {1, 28, 29, 31}]
      Clocks == [h : {0, 9, 23, 24, 25}, mi : {0, 59, 60}, s : {0, 59, 60}]
      Minutes == {c \in Clocks : c.s = 0}
      Of(exid, S) == {[exid |-> exid, value |-> <<v>>] : v \in S}
  IN  {[exid |-> e, value |-> <<>>] : e \in {"p", "n", "w", "d", "7", "x", "t", "i", "c"}}
      \cup Of("p", [date : Early, clock : Clocks, f : {0, 9}]) \cup Of("n", [date : Early, clock : Clocks])
      \cup Of("w", [date : Early, clock : Minutes]) \cup Of("d", Days)
      \cup Of("7", [y : {0, 1, 5, 6, 7, 1581, 1582, 1583, 2004, 2026, 9998, 9999}, w : {0, 1, 2, 51, 52, 53, 54}])
      \cup Of("x", [y : {0, 1, 9999}, m : 0..13]) \cup Of("t", Clocks) \cup Of("i", Minutes)
      \cup Of("c", [m : 0..13, d : {0, 1, 28, 29, 30, 31, 32}])

(* Decimal texts for fields of at most three digits, and for a format of   *)
(* three bytes with four digits and exponents from -398 to 369.            *)
Decimal == [neg |-> FALSE, int |-> <<>>, frac |-> <<>>, exp |-> 0, over |-> 0]
PackedInputs ==
  {[text |-> [neg |-> g, int |-> i, frac |-> f, exp |-> e[1], over |-> e[2]], bytes |-> b, decimals |-> d] :
     g \in BOOLEAN, i \in {<<0>>, <<7>>, <<1, 0>>, <<0, 2, 0, 0>>, <<1, 2, 3>>, <<9, 9, 9, 9>>}, f \in {<<>>, <<0>>, <<5>>, <<0, 4>>},
     e \in {<<x, 0>> : x \in -4..4 \cup DC!MinInt..(DC!MinInt + 7) \cup (DC!MaxInt - 7)..DC!MaxInt} \cup {<<0, 1>>, <<0, -1>>}, b \in 0..2, d \in 0..4}
Decf24 == [bytes |-> 3, precision |-> 4, eb |-> 8, cb |-> 10, bias |-> 398]
FloatInputs ==
  {[Decimal EXCEPT !.neg = g, !.int = i, !.frac = f, !.exp = e] :
     g \in BOOLEAN, i \in {<<0>>, <<7>>, <<8, 0>>, <<1, 2, 3>>, <<9, 8, 0, 0>>, <<1, 2, 3, 4, 0>>, <<1, 2, 3, 4, 5>>},
     f \in {<<>>, <<0>>, <<5>>, <<0, 0, 7>>}, e \in (-404)..(-394) \cup (-10)..8 \cup 364..376}
  \cup [neg : BOOLEAN, kind : {"infinity"}, payload : {<<>>}]
  \cup [neg : BOOLEAN, kind : {"nan", "snan"}, payload : {<<>>, <<0, 7>>, <<9, 8, 9>>, <<1, 2, 3, 4>>, <<0, 1, 2, 3>>}]

(* Rows of one to three fields of every kind, with gaps between them, and  *)
(* values that fit them, do not fit, or have the wrong type.               *)
Place(kinds, gaps) ==
  LET Off[k \in 1..Len(kinds)] == gaps[k] + (IF k = 1 THEN 0 ELSE Off[k - 1] + kinds[k - 1].len)
  IN  [name |-> "s", length |-> Off[Len(kinds)] + kinds[Len(kinds)].len + gaps[Len(kinds) + 1],
       fields |-> [k \in DOMAIN kinds |-> [table |-> "s", field |-> FieldNames[k], pos |-> k, off |-> Off[k],
                                         len |-> kinds[k].len, dec |-> 0, exid |-> kinds[k].exid]]]
Kind(e, n) == [exid |-> e, len |-> n]
SampleValues ==
  {[type |-> "text", v |-> t] : t \in {<<>>, <<65>>, <<49>>, <<65, 32>>, <<32, 65>>, <<49, 50, 51>>, ST!Fill(48, 8), ST!Fill(32, 6)}}
  \cup {ST!IntValue(n) : n \in {0, -1, 200, 256, -32768, 40000, -2147483647}} \cup {ST!WideValue(7, 1), ST!WideValue(7, -1)}
  \cup {[type |-> "bytes", v |-> b] : b \in {<<>>, <<7>>, <<7, 0, 9>>}}
  \cup {[type |-> "float", v |-> 3], [type |-> "number", v |-> 5]}
RowInputs ==
  LET Small == {Kind("C", 2), Kind("N", 4), Kind("X", 2), Kind("b", 1), Kind("s", 2), Kind("g", 8), Kind("C", 3)}
      Every == Small \cup {Kind("C", 0), Kind("D", 16), Kind("T", 12), Kind("I", 4), Kind("8", 8), Kind("F", 8), Kind("P", 1),
                          Kind("a", 8), Kind("e", 16), Kind("d", 4), Kind("i", 2), Kind("p", 8), Kind("h", 8), Kind("I", 2), Kind("P", 17)}
      Names(S) == [S -> SampleValues]
  IN  {[def |-> Place(<<k>>, g), in |-> v] :
         k \in Every, g \in {<<0, 0>>, <<1, 2>>, <<2, 3>>}, v \in Names({}) \cup Names({"f1"}) \cup {[f9 |-> ST!IntValue(0)]}}
      \cup {[def |-> Place(k, g), in |-> [f2 |-> v]] :
              k \in [1..3 -> Small], g \in {<<0, 0, 0, 0>>, <<0, 2, 4, 2>>, <<0, 1, 0, 1>>},
              v \in {[type |-> "text", v |-> <<49>>], ST!IntValue(7), [type |-> "bytes", v |-> <<9>>]}}

(* Descriptions of a structure by the three sources of its layout.         *)
LayoutInputs ==
  LET Field(t, n, o, l, e) == [table |-> t, field |-> n, pos |-> 1, off |-> o, len |-> l, dec |-> 0, exid |-> e, comp |-> "",
                               total |-> 6, stamp |-> "now"]
      Firsts == {Field("s", n, o, l, e) : n \in {"x", ""}, o \in {0, 2}, l \in {2, 4, 6}, e \in {"C", "I", "h"}}
      Seconds == {[Field(t, n, o, l, e) EXCEPT !.pos = 2] : t \in {"s", "r"}, n \in {"x", "y"}, o \in {2, 4, 5, 2147483647}, l \in {1, 2}, e \in {"X", "C"}}
      Odd == {[f EXCEPT !.pos = p, !.comp = c, !.total = n, !.stamp = z] :
                f \in {Field("s", "x", 0, 2, "C")}, p \in {0, 1, 3}, c \in {"", "E", "S"}, n \in {6, 8}, z \in {"now", "then"}}
      Nametab == [kind |-> "TABL", owner |-> "s", width |-> 2, tabtype |-> "", count |-> 1, length |-> 6]
      Heads == {Nametab, [Nametab EXCEPT !.kind = "DTEL"], [Nametab EXCEPT !.owner = "r"], [Nametab EXCEPT !.width = 1], [Nametab EXCEPT !.tabtype = "L"], [Nametab EXCEPT !.count = 2]}
  IN  {[rows |-> <<f>>, head |-> h, errors |-> <<>>] : f \in Firsts \cup Odd, h \in {Nametab}}
      \cup {[rows |-> <<Field("s", "x", 0, 2, "C")>>, head |-> h, errors |-> e] : h \in Heads, e \in {<<>>, <<"s">>, <<"r">>}}
      \cup {[rows |-> <<f, g>>, head |-> [Nametab EXCEPT !.count = 2], errors |-> <<>>] :
              f \in Firsts \cup Odd, g \in Seconds}
      \cup {[rows |-> <<>>, head |-> [Nametab EXCEPT !.count = 0], errors |-> <<>>]}

(* Scalar parameters of every type; JSON values for them; and calls whose  *)
(* parameters have every class, kind and form.                             *)
Lengths == [C |-> 2, N |-> 3, D |-> 8, T |-> 6, X |-> 2, F |-> 8, I |-> 4, s |-> 2, b |-> 1, P |-> 2, a |-> 8, e |-> 16,
            g |-> 0, y |-> 0, d |-> 4, i |-> 2, p |-> 8] @@ ("8" :> 8)
ScalarInputs ==
  {[p |-> [exid |-> e, len |-> n, dec |-> 0], v |-> v] :
     e \in DOMAIN Lengths, n \in {2, 3, 4, 8, 12, 16}, v \in SampleValues \cup {[type |-> "text", v |-> <<0, 65, 0>>]}}
Json(kind, text, number, bytes, whole) ==
  [json |-> kind, text |-> text, number |-> number, bytes |-> bytes, whole |-> whole]
JsonInputs ==
  [exid : DOMAIN Lengths,
   j : {Json("string", t, n, b, FALSE) : t \in {<<>>, <<65>>, <<49, 50>>, ST!Fill(49, 8), ST!Fill(49, 6)},
                                         n \in {<<>>, <<ST!IntValue(7)>>}, b \in {<<>>, <<<<9>>>>}}
       \cup {Json(k, <<53>>, <<ST!IntValue(5)>>, <<>>, w) : k \in {"number", "float64"}, w \in BOOLEAN}
       \cup {Json("null", <<60>>, <<>>, <<>>, FALSE)}]
  \cup [exid : {"I", "s", "b", "8"},
        j : {Json(k, <<53>>, <<n>>, <<>>, w) : k \in {"number", "float64"}, w \in BOOLEAN,
               n \in {ST!IntValue(i) : i \in {-1, 0, 255, 256, -32769, -32768, 32767, 32768}} \cup {ST!WideValue(5, 1), ST!WideValue(-1, 0)}}]
CallInputs ==
  LET Flat == Place(<<Kind("C", 2), Kind("I", 4)>>, <<0, 2, 2>>)
      Deep == Place(<<Kind("C", 2), Kind("g", 8)>>, <<0, 6, 0>>)
      Param(n, c, e, t) == [name |-> n, class |-> c, exid |-> e, table |-> t, len |-> 2, dec |-> 0]
      Forms == {<<"C", "">>, <<"I", "">>, <<"u", "flat">>, <<"v", "deep">>, <<"u", "deep">>, <<"h", "flat">>, <<"h", "deep">>, <<"u", "lost">>}
      Row1 == [f1 |-> CL!Text(<<65>>)]
      Given == {CL!Text(<<66>>), ST!IntValue(7), [type |-> "object", v |-> Row1], [type |-> "rows", v |-> <<>>], [type |-> "lines", v |-> <<1>>],
                [type |-> "rows", v |-> <<Row1, [f2 |-> ST!IntValue(3)]>>]}
      Plans == {<<>>, [q |-> "table"], [q |-> "structure"]}
  IN  {[iface |-> <<Param("p", c[1], f[1], f[2]), Param("q", c[2], g[1], g[2])>>, layouts |-> [flat |-> Flat, deep |-> Deep],
        plan |-> pl, in |-> in] :
         c \in {<<"I", "C">>, <<"C", "T">>, <<"E", "C">>, <<"T", "I">>, <<"X", "T">>}, f \in Forms, g \in Forms, pl \in Plans,
         in \in {[q |-> v] : v \in Given} \cup {[p |-> v, q |-> w] : v \in Given, w \in {CL!Text(<<66>>), [type |-> "rows", v |-> <<Row1>>]}}
                \cup {[z |-> CL!Text(<<>>)]}}

Init ==
  /\ result = <<>>
  /\ \/ suite = "normalize" /\ input \in MetadataInputs
     \/ suite = "function" /\ input \in FunctionAnswers
     \/ suite = "recursive" /\ input \in RecursiveAnswers
     \/ suite = "timestamps" /\ input \in TimestampInputs
     \/ suite = "temporal" /\ input \in Temporals
     \/ suite = "packed" /\ input \in PackedInputs
     \/ suite = "decimal float" /\ input \in FloatInputs
     \/ suite = "declet" /\ input \in 0..1023
     \/ suite = "row" /\ input \in RowInputs
     \/ suite = "layout" /\ input \in LayoutInputs
     \/ suite = "scalar" /\ input \in ScalarInputs
     \/ suite = "coerce" /\ input \in JsonInputs
     \/ suite = "call" /\ input \in CallInputs
     \/ suite = "header" /\ input \in HeaderInputs
     \/ suite = "chain" /\ input \in ChainInputs
     \/ suite = "envelope" /\ input \in EnvelopeInputs
     \/ suite = "request" /\ input \in RequestInputs
     \/ suite = "answer" /\ input \in AnswerInputs
     \/ suite = "exception" /\ input \in ExceptionInputs
     \/ suite = "records" /\ input \in RecordInputs
     \/ suite = "logon" /\ input \in LogonInputs
     \/ suite = "logonAnswer" /\ input \in LogonAnswerInputs
     \/ suite = "ticket" /\ input \in TicketInputs
     \/ suite = "flat" /\ input \in FlatInputs
     \/ suite = "nested" /\ input \in NestedInputs
     \/ suite = "validate" /\ input \in ValidateInputs
     \/ suite = "tag" /\ input \in TagInputs

Returns(s, value) == suite = s /\ result = <<>> /\ result' = <<value>> /\ UNCHANGED <<suite, input>>

Normalize == Returns("normalize", TG!Normalize(input))
NormalizeFunctionResult == Returns("function", MG!NormalizeFunctionResult("F", input))
NormalizeRecursiveFunctionResult == Returns("recursive", MG!NormalizeRecursiveFunctionResult("F", input))
NormalizeTimestamps == Returns("timestamps", MG!NormalizeTimestamps(input.functions, input.structures, input.out, 2))
EncodeClassicTemporal == Returns("temporal", TM!EncodeClassicTemporal(input.exid, input.value))
EncodePackedDecimal == Returns("packed", DC!EncodePackedDecimal(input.text, input.bytes, input.decimals))
EncodeDecimalFloat == Returns("decimal float", DC!EncodeDecimalFloat(input, Decf24))
DecodeDpdDeclet == Returns("declet", DC!DecodeDpdDeclet(input))
EncodeRow == Returns("row", ST!Encode(input.def, input.in))
DecodeLayouts ==
  Returns("layout", [fields |-> ST!FromRfcFields("s", input.head.length, input.rows), ddif |-> ST!FromDdif("s", input.head, input.rows),
                     get |-> ST!FromMetadataGet("s", input.rows, input.errors), owner |-> ST!RowStructureName("s", input.rows)])
EncodeScalar == Returns("scalar", CL!encodeScalar(input.p, input.v))
CoerceScalar == Returns("coerce", CL!Takes(input.exid, Lengths[input.exid], 0, input.j))
EncodeCall == Returns("call", CL!EncodeCall(input.iface, input.in, input.layouts, input.plan))
EncodeFieldHeader == Returns("header", W!EncodeFieldHeader(input.tag, input.n))
EncodeFieldChain == Returns("chain", W!EncodeFieldChain(input.first, input.fields, input.limits))
DecodeEnvelope == Returns("envelope", W!DecodeEnvelope(input.fields, {}, input.max))
EncodeCutFunctionRequest == Returns("request", W!EncodeCutFunctionRequest(input))
EncodeAnswer ==
  Returns("answer", CASE input.kind = "cut" -> W!EncodeCutFunctionResponse(input.resp)
                      [] input.kind = "s4" -> W!EncodeCutFunctionResponseS4(input.resp, input.guid)
                      [] input.kind = "eclipse" -> W!EncodeEclipseResponse(input.resp, input.guid))
EncodeException == Returns("exception", W!EncodeCutFunctionExceptionResponse(input))
EclipseRecords == Returns("records", W!eclipseRecords(input))
EncodeInitialLogonRequest == Returns("logon", W!EncodeInitialLogonRequest(input.in))
DecodeInitialLogonResponse == Returns("logonAnswer", W!DecodeInitialLogonResponse(input))
NormalizeTicket == Returns("ticket", W!NormalizeTicket(input))
EncodeParameter == Returns("flat", XR!EncodeParameter(input.name, input.def, input.kind, input.v, input.limits))
EncodeRecursiveParameter == Returns("nested", XR!EncodeRecursiveParameter(input.p, input.graph, input.v, input.limits))
ValidateParameter == Returns("validate", XR!ValidateAtDepth(input.graph, XParam(<<80>>, "I", "v", "A"), input.depth))
EscapeTag == Returns("tag", XR!EscapeTag(input))

Next ==
  \/ Normalize \/ NormalizeFunctionResult \/ NormalizeRecursiveFunctionResult \/ NormalizeTimestamps
  \/ EncodeClassicTemporal \/ EncodePackedDecimal \/ EncodeDecimalFloat \/ DecodeDpdDeclet \/ EncodeRow \/ DecodeLayouts
  \/ EncodeScalar \/ CoerceScalar \/ EncodeCall
  \/ EncodeFieldHeader \/ EncodeFieldChain \/ DecodeEnvelope \/ EncodeCutFunctionRequest \/ EncodeAnswer \/ EncodeException
  \/ EclipseRecords \/ EncodeInitialLogonRequest \/ DecodeInitialLogonResponse \/ NormalizeTicket
  \/ EncodeParameter \/ EncodeRecursiveParameter \/ ValidateParameter \/ EscapeTag

Spec == Init /\ [][Next]_vars

Finished(s) == suite = s /\ result # <<>>
Accepted(s) == Finished(s) /\ result[1].ok
-----------------------------------------------------------------------------
(* What Normalize accepts is a closed graph whose fields have their own    *)
(* places; it marks exactly the references that close a cycle, and its     *)
(* MaximumDepth is the longest acyclic path from a root.  validateNode     *)
(* accepts exactly the graphs that a value can be written along: well      *)
(* formed, without a cycle, and within the depth and the budget.           *)
GraphIsExact ==
  /\ Accepted("normalize") =>
       /\ TG!GraphIsClosed(input, result[1]) /\ TG!FieldsDoNotOverlap(input, result[1])
       /\ TG!CyclesAreExact(input, result[1]) /\ TG!DepthIsLongestPath(input, result[1])
  /\ Finished("validate") => XR!ValidationIsExact(input.graph, "A", input.depth, result[1].ok)

(* The two sources of an interface agree: NormalizeFunctionResult reads    *)
(* what DecodeRfcFunctionInterfaceResult reads, unless an exception has an *)
(* OPTIONAL that is neither blank nor X, which the latter refuses; the     *)
(* graph of a recursive interface fits its parameters and lacks no type    *)
(* they need; and NormalizeTimestamps reports one outcome for each name.   *)
InterfacesAgree ==
  /\ Accepted("function") => MG!InterfacesAgree("F", input, result[1])
  /\ Accepted("recursive") => /\ MG!GraphMatchesInterface("F", input, result[1])
                              /\ MG!UnresolvedTypeIsUnused("F", input, result[1])
  /\ Finished("timestamps") => MG!OneOutcomeEach(input.functions, input.structures, input.out, result[1])

(* A temporal value survives EncodeClassicTemporal, and its ordinals count *)
(* every day and every week once, through 1582, leap years and years of 53 *)
(* weeks.                                                                  *)
CalendarIsExact ==
  Accepted("temporal") =>
    /\ TM!TemporalRoundTrip(input.exid, input.value, result[1])
    /\ input.exid = "d" /\ input.value # <<>> => TM!DaysAreConsecutive(input.value[1], result[1])
    /\ input.exid = "7" /\ input.value # <<>> => TM!WeeksAreConsecutive(input.value[1], result[1])

(* EncodePackedDecimal and encodeDecimalFloat never round, and refuse      *)
(* nothing that fits, also where the exponent makes the sums of the former *)
(* wrap: there it panics at worst, and only within a text and a field of   *)
(* either end of int.  Every declet of encodeDpdDeclet is read back.       *)
NumbersAreExact ==
  /\ Finished("packed") => DC!PackedIsExact(input.text, input.bytes, input.decimals, result[1])
  /\ Finished("decimal float") => DC!DecimalFloatIsExact(input, Decf24, result[1])
  /\ Finished("declet") => DC!DecletsRoundTrip(input)

(* A row that structure.Encode makes is read back by structure.Decode, and *)
(* decodeFixedRow restores what the wire trimmed and nothing else.  The    *)
(* layouts that the three sources accept agree, and their fields do not    *)
(* overlap and lie in the row: except those of RFC_GET_STRUCTURE_DEFINITION*)
(* in which the sum of an offset and a length wraps, which the check of the*)
(* geometry lets pass and with which Encode and Decode are not tried.      *)
RowsAreExact ==
  /\ Accepted("row") => /\ ST!RowRoundTrip(input.def, input.in, result[1])
                        /\ ST!TruncationIsNoticed(input.def, result[1])
  /\ Finished("layout") => ST!LayoutsAreApart(input.rows, result[1].fields, result[1].ddif, result[1].get)
  /\ Finished("layout") /\ input.errors = <<>> /\ input.head.kind = "TABL" /\ ST!X030lGeometry("s", input.head)
       /\ input.head.count = Len(input.rows) =>
       ST!SourcesAgree("s", input.head.length, input.rows, result[1].fields, result[1].ddif, result[1].get)

(* A header survives at every length, what EncodeFieldChain may send       *)
(* decodeFieldChainRegion may read, and a chain that lost or exchanged     *)
(* fields is refused.                                                      *)
ChainIsExact ==
  /\ Finished("header") => W!HeaderRoundTrip(input.tag, input.n, input.limit)
  /\ Accepted("chain") => /\ W!ChainRoundTrip(input.first, input.fields, input.limits, result[1])
                          /\ W!DamageIsRefused(input.first, input.fields, input.limits, result[1])

(* What EncodeCutFunctionRequest sends the server reads, in Eclipse's      *)
(* framing and in either byte order too, and InspectRequestAppcFraming     *)
(* finds the split of it that the planner demands.                         *)
RequestIsExact ==
  Accepted("request") =>
    W!RequestRoundTrip(input, result[1]) /\ W!FramingAgrees(result[1]) /\ W!EclipseReadsTheSame(input, result[1])

(* What a handler answers the client reads, from however many records; an  *)
(* answer that lost a field is not read as a shorter one; an exception     *)
(* reaches the caller under its name; and rfcerr.Decode says success of a  *)
(* clean response only, whatever the order of its facts.                   *)
AnswerIsExact ==
  /\ Accepted("envelope") => W!SuccessIsClean(input.fields, result[1])
  /\ Finished("envelope") => W!OrderIsIrrelevant(input.fields, {}, input.max, result[1])
  /\ Accepted("answer") => W!LossIsNoticed(result[1])
  /\ Accepted("answer") /\ input.resp.compact = <<>> /\ input.resp.outputs = <<>> =>
       W!AnswerIsExact(input.kind, input.resp, result[1])
  /\ Accepted("exception") => W!ExceptionIsRaised(input, result[1])
  /\ Finished("records") => W!RecordsCarryTheAnswer(input, result[1])

(* A logon is read for what it is and the bridge's answer to it accepted;  *)
(* DecodeInitialLogonResponse reports a success or a failure for a reason  *)
(* and what the backend wrote of it, but for a T100 text, without which a  *)
(* rejection may be left with its outcome alone; it takes the composite    *)
(* answers its grammar describes; a ticket without a plus sign is found in *)
(* every form of it.                                                       *)
LogonIsExact ==
  /\ Accepted("logon") => W!LogonIsAnswered(input.in, input.who, result[1])
  /\ Accepted("logonAnswer") => W!LogonOutcomeIsSound(input, result[1])
  /\ Finished("logonAnswer") => W!GrammarIsExact(input, result[1])
  /\ Finished("ticket") /\ (\A k \in DOMAIN input : input[k] # 43) => W!TicketsSurvive(input)

(* NormalizeTicket finds the ticket in every form of it, as the comment on *)
(* the Ticket field of InitialLogonRequestInput promises.                  *)
TicketsSurvive == Finished("ticket") => W!TicketsSurvive(input)


(* What EncodeParameter and EncodeRecursiveParameter write is read back    *)
(* under its name with its values, however deep, and not without one of    *)
(* its tags; and a document that the reader takes under some limits is one *)
(* that the writer writes under the same limits.  EscapeTag is reversible. *)
XmlIsExact ==
  /\ Accepted("flat") => XR!FlatRoundTrip(input.name, input.def, input.kind, input.v, input.limits, result[1])
  /\ Finished("flat") => XR!FlatLimitsAreExact(input.name, input.def, input.kind, input.v, input.limits, result[1])
  /\ Accepted("nested") => XR!RecursiveRoundTrip(input.p, input.graph, input.v, input.limits, result[1])
  /\ Finished("nested") => XR!RecursiveLimitsAgree(input.p, input.graph, input.v, input.limits, result[1])
  /\ Finished("tag") => XR!UnescapeTag(result[1]) = [ok |-> TRUE, name |-> input]

(* decodeResult recovers the name of an xRFC parameter from its document,  *)
(* recursive or not, by DecodeParameterName: a name of letters, digits and *)
(* underscores, with the slashes of a namespace or without.                *)
NamesAreRecovered ==
  Accepted("nested") /\ (\A k \in DOMAIN input.p.name : XR!Letter(input.p.name[k]) \/ input.p.name[k] = 47) =>
    XR!DecodeParameterName(result[1].doc) = [ok |-> TRUE, name |-> input.p.name]

(* A field or a parameter takes the values that its description asks for.  *)
DescribedIsTaken ==
  Finished("coerce") /\ CL!Described(input.exid, Lengths[input.exid], input.j) =>
    result[1].field /\ (input.exid \in {"D", "T"} => result[1].param)
=============================================================================
