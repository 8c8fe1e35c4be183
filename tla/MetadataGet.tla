----------------------------- MODULE MetadataGet ------------------------------
(***************************************************************************)
(* internal/metadata/metadata_get.go: the answers of RFC_METADATA_GET and  *)
(* of RFC_METADATA_GET_TIMESTAMP, and, for comparison, the older           *)
(* RFC_GET_FUNCTION_INTERFACE (function_interface.go).  To the rows of     *)
(* TypeGraph an answer adds                                                *)
(*   funcErrors  [name, exception]       ddErrors  [name, field, exception]*)
(*   type row    data (the DATATYPE column)                                *)
(*   parameter   len, dec, opt ("", "X" or another text)                   *)
(*   stamps      [name, stamp], and basxml, the flag of the identity.      *)
(* "" is an empty name, "?" a text that fails the pattern of its column.   *)
(***************************************************************************)
EXTENDS TypeGraph

Failed == Rejected
Flag(text) == text \in {"", "X"}
Named(name) == name \notin {"", "?"}
ValidException(text) == text \notin {"", "?"}
Repeats(seq) == Cardinality(ToSet(seq)) < Len(seq)

-----------------------------------------------------------------------------
(* matchingError: the first error row of the object decides.               *)
MatchingErrors(rows, name) == SelectSeq(rows, LAMBDA e : e.name = name)

(* NONE_UNICODE_LENGTH was not asked for: character widths are bytes.      *)
(* Mutant: dates, times and digits are not taken for characters.           *)
Mut_CharOnly(exid) == exid = "C"
CharacterExid(exid) == exid \in {"C", "N", "D", "T"}
InternalLength(p) == IF CharacterExid(p.exid) THEN p.len \div 2 ELSE p.len

OwnRows(name, out) == SelectSeq(out.params, LAMBDA p : p.fn = name)
RowRejects(p) ==
  \/ p.class \notin {"I", "E", "C", "X", "T"} \/ ~Named(p.name)
  \/ p.class # "X" /\ (~Flag(p.opt) \/ (CharacterExid(p.exid) /\ p.len % 2 # 0))
Parameter(p, length) ==
  [class |-> p.class, name |-> p.name, table |-> p.table, path |-> p.path, exid |-> p.exid,
   len |-> length, dec |-> p.dec, opt |-> p.opt = "X"]

(* NormalizeFunctionResult: the rows of other functions are passed over.   *)
NormalizeFunctionResult(name, out) ==
  LET own == OwnRows(name, out)
      declared == SelectSeq(own, LAMBDA p : p.class # "X")
      raised == SelectSeq(own, LAMBDA p : p.class = "X")
  IN  IF \/ MatchingErrors(out.funcErrors, name) # <<>>
         \/ Len(SelectSeq(out.names, LAMBDA n : n = name)) # 1
         \/ ~Flag(out.basxml)
         \/ \E p \in ToSet(own) : RowRejects(p)
         \/ Repeats([k \in DOMAIN own |-> own[k].name])
         \/ out.stamp = "?"
      THEN Failed
      ELSE [ok |-> TRUE, name |-> name, token |-> out.stamp, basxml |-> out.basxml = "X",
            params |-> [k \in DOMAIN declared |-> Parameter(declared[k], InternalLength(declared[k]))],
            exceptions |-> [k \in DOMAIN raised |-> raised[k].name]]

(* DecodeRfcFunctionInterfaceResult, whose rows carry character widths and *)
(* belong to the function asked for.                                       *)
DecodeRfcFunctionInterfaceResult(name, basxml, rows) ==
  LET declared == SelectSeq(rows, LAMBDA p : p.class # "X")
      raised == SelectSeq(rows, LAMBDA p : p.class = "X")
  IN  IF ~Flag(basxml) \/ \E p \in ToSet(rows) : ~Flag(p.opt)
      THEN Failed
      ELSE [ok |-> TRUE, name |-> name, basxml |-> basxml = "X",
            params |-> [k \in DOMAIN declared |-> Parameter(declared[k], declared[k].len)],
            exceptions |-> [k \in DOMAIN raised |-> raised[k].name]]

-----------------------------------------------------------------------------
(* isCompleteUtclongScalarFallback: a kernel that knows UTCLONG and a      *)
(* dictionary that does not.                                               *)
IsUtclong(p) ==
  p.class = "C" /\ p.path = <<>> /\ p.exid = "p" /\ p.len = 8 /\ p.dec = 0 /\ p.opt = ""
(* Mutant: a field that is declared with the type is overlooked.           *)
Mut_FallbackIgnoresFields(name, out) ==
  LET rows == {p \in ToSet(out.params) : p.table = "UTCLONG"}
  IN  /\ Len(out.ddErrors) = 1
      /\ out.ddErrors[1] = [name |-> "UTCLONG", field |-> "", exception |-> "NOT_FOUND"]
      /\ rows # {} /\ \A p \in rows : p.fn = name /\ IsUtclong(p)
      /\ \A r \in ToSet(out.types) : r.type # "UTCLONG"
      /\ \A r \in ToSet(out.indirects) : "UTCLONG" \notin {r.table, r.target}
UtclongFallback(name, out) ==
  LET rows == {p \in ToSet(out.params) : p.table = "UTCLONG"}
  IN  /\ Len(out.ddErrors) = 1
      /\ out.ddErrors[1] = [name |-> "UTCLONG", field |-> "", exception |-> "NOT_FOUND"]
      /\ rows # {} /\ \A p \in rows : p.fn = name /\ IsUtclong(p)
      /\ \A r \in ToSet(out.types) : "UTCLONG" \notin {r.type, r.target, r.data}
      /\ \A r \in ToSet(out.indirects) : "UTCLONG" \notin {r.table, r.target}

RowBudgetExceeded(out) == RowCount(out) > out.limits.rows

(* NormalizeRecursiveFunctionResult.                                       *)
Joined(name, out, flat, graph) ==
  IF ~graph.ok \/ out.names[1] # name THEN Failed
  ELSE [ok |-> TRUE, flat |-> flat, graph |-> graph, token |-> flat.token]
NormalizeRecursiveFunctionResult(name, out) ==
  LET flat == NormalizeFunctionResult(name, out)
  IN  IF \/ RowBudgetExceeded(out) \/ ~flat.ok \/ out.funcErrors # <<>>
         \/ out.ddErrors # <<>> /\ ~UtclongFallback(name, out)
      THEN Failed ELSE Joined(name, out, flat, Normalize(out))

(* CreateParameterIndex over the graph's parameters.                       *)
CreateParameterIndex(out) ==
  IF \/ Len(out.params) > out.limits.rows
     \/ \E p \in ToSet(out.params) : p.name = ""
     \/ Repeats([k \in DOMAIN out.params |-> out.params[k].name])
  THEN Failed
  ELSE [ok |-> TRUE, at |-> [n \in {p.name : p \in ToSet(out.params)} |->
                               CHOOSE k \in DOMAIN out.params : out.params[k].name = n]]

-----------------------------------------------------------------------------
(* requestedMetadataNames.                                                 *)
RequestRejects(names, limit) ==
  Len(names) > limit \/ (\E n \in ToSet(names) : ~Named(n)) \/ Repeats(names)

(* One kind of object of a timestamp batch: the rows with a stamp, then    *)
(* the error rows, in the order of the answer.                             *)
StampRejects(requested, rows) ==
  \/ Len(rows) > Len(requested)
  \/ \E k \in DOMAIN rows :
       \/ rows[k].name \notin ToSet(requested) \/ rows[k].stamp = "?"
       \/ \E j \in 1..(k - 1) : rows[j].name = rows[k].name
(* Mutant: an error is not compared with the stamps.                       *)
Mut_ErrorBesideStamp(requested, rows, errors) ==
  \/ Len(errors) > Len(requested)
  \/ \E k \in DOMAIN errors :
       \/ errors[k].name \notin ToSet(requested) \/ ~ValidException(errors[k].exception)
       \/ \E j \in 1..(k - 1) : errors[j].name = errors[k].name
ErrorRejects(requested, rows, errors) ==
  \/ Len(errors) > Len(requested)
  \/ \E k \in DOMAIN errors :
       \/ errors[k].name \notin ToSet(requested) \/ ~ValidException(errors[k].exception)
       \/ \E r \in ToSet(rows) : r.name = errors[k].name
       \/ \E j \in 1..(k - 1) : errors[j].name = errors[k].name
OutcomeMissing(requested, rows, errors) ==
  ToSet(requested) # {x.name : x \in ToSet(rows) \cup ToSet(errors)}

Stamps(rows) == [n \in {r.name : r \in ToSet(rows)} |-> (CHOOSE r \in ToSet(rows) : r.name = n).stamp]
Errors(rows) == [n \in {r.name : r \in ToSet(rows)} |-> (CHOOSE r \in ToSet(rows) : r.name = n).exception]

NormalizeTimestamps(functions, structures, out, limit) ==
  IF \/ RequestRejects(functions, limit) \/ RequestRejects(structures, limit)
     \/ StampRejects(functions, out.functions) \/ StampRejects(structures, out.structures)
     \/ ErrorRejects(functions, out.functions, out.funcErrors)
     \/ ErrorRejects(structures, out.structures, out.ddErrors)
     \/ OutcomeMissing(functions, out.functions, out.funcErrors)
     \/ OutcomeMissing(structures, out.structures, out.ddErrors)
  THEN Failed
  ELSE [ok |-> TRUE, functions |-> Stamps(out.functions), structures |-> Stamps(out.structures),
        functionErrors |-> Errors(out.funcErrors), structureErrors |-> Errors(out.ddErrors)]

-----------------------------------------------------------------------------
(* NormalizeRecursiveFunctionResult returns a graph whose parameters are   *)
(* those of the flat descriptor of the same answer, in their order, with   *)
(* the exceptions in the same places: nothing of another function is in    *)
(* it, nothing was left out, and CreateParameterIndex finds each by name.  *)
GraphMatchesInterface(name, out, r) ==
  LET kept == SelectSeq(out.params, LAMBDA p : p.class # "X")
      index == CreateParameterIndex(out)
  IN  /\ \A p \in ToSet(out.params) : p.fn = name
      /\ [k \in DOMAIN kept |-> kept[k].name] = [k \in DOMAIN r.flat.params |-> r.flat.params[k].name]
      /\ Len(r.graph.params) = Len(r.flat.params) + Len(r.flat.exceptions)
      /\ index.ok
      /\ \A n \in ToSet(r.flat.exceptions) : r.graph.params[index.at[n]].kind = "exception"
      /\ \A k \in DOMAIN r.flat.params : r.graph.params[index.at[r.flat.params[k].name]].kind # "exception"

(* A graph that NormalizeRecursiveFunctionResult accepts in spite of a     *)
(* dictionary error does not need the type that is missing: no node, no    *)
(* field and no composite parameter refers to it, and without such an      *)
(* error every object of the answer was resolved.                          *)
UnresolvedTypeIsUnused(name, out, r) ==
  \A e \in ToSet(out.funcErrors) \cup ToSet(out.ddErrors) :
    /\ e.name \notin Names(r.graph.nodes)
    /\ \A n \in ToSet(r.graph.nodes), f \in UNION {ToSet(x.fields) : x \in ToSet(r.graph.nodes)} :
         e.name # f.ref.target
    /\ \A row \in ToSet(out.types) : row.data # e.name
    /\ \A k \in DOMAIN out.params :
         out.params[k].table = e.name => r.graph.params[k].kind = "scalar"

(* RFC_METADATA_GET and RFC_GET_FUNCTION_INTERFACE describe a function     *)
(* alike: when the one accepts an interface, the other, given the same     *)
(* rows with character widths, decodes the same parameters and exceptions, *)
(* so that a call does not depend on which of them the system offers.  An  *)
(* exception whose OPTIONAL is neither blank nor X is set aside: there they*)
(* disagree, for NormalizeFunctionResult does not look at it and           *)
(* DecodeFunintRow refuses the row.                                        *)
CharacterRows(rows) ==
  [k \in DOMAIN rows |->
     [rows[k] EXCEPT !.len = IF rows[k].exid \in {"C", "N", "D", "T"} THEN @ \div 2 ELSE @]]
InterfacesAgree(name, out, flat) ==
  LET classic == DecodeRfcFunctionInterfaceResult(name, out.basxml, CharacterRows(OwnRows(name, out)))
  IN  (\A p \in ToSet(out.params) : p.class = "X" => Flag(p.opt)) =>
        classic.ok /\ classic.params = flat.params /\ classic.exceptions = flat.exceptions
                   /\ classic.basxml = flat.basxml

(* NormalizeTimestamps accepts a batch exactly when every name that was    *)
(* asked for has one outcome, a stamp or an error, and nothing else is in  *)
(* it; what it returns is then a partition of the request.                 *)
OneOutcomeEach(functions, structures, out, r) ==
  LET Exactly(requested, rows, errors) ==
        /\ \A n \in ToSet(requested) \cup {x.name : x \in ToSet(rows) \cup ToSet(errors)} :
             /\ n \in ToSet(requested)
             /\ Len(SelectSeq(rows, LAMBDA x : x.name = n)) + Len(SelectSeq(errors, LAMBDA x : x.name = n)) = 1
        /\ \A x \in ToSet(rows) : x.stamp # "?"
        /\ \A x \in ToSet(errors) : ValidException(x.exception)
  IN  /\ r.ok => /\ Exactly(functions, out.functions, out.funcErrors)
                 /\ Exactly(structures, out.structures, out.ddErrors)
                 /\ DOMAIN r.functions \cup DOMAIN r.functionErrors = ToSet(functions)
                 /\ DOMAIN r.functions \cap DOMAIN r.functionErrors = {}
      /\ ~r.ok => ~(/\ Exactly(functions, out.functions, out.funcErrors)
                    /\ Exactly(structures, out.structures, out.ddErrors)
                    /\ \A q \in {functions, structures} : ~Repeats(q) /\ \A n \in ToSet(q) : Named(n))
=============================================================================
