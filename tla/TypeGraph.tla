------------------------------ MODULE TypeGraph -------------------------------
(***************************************************************************)
(* Normalize of internal/metadata/recursive.go: the rows of an             *)
(* RFC_METADATA_GET answer become a graph of types, with the references    *)
(* that close a cycle marked, or are rejected.  The internal types are "u" *)
(* (a structure; the code treats "v" alike), "h" (a table) and "C" for     *)
(* every scalar.  Texts, positions, decimals and the non-Unicode columns,  *)
(* which are checked like the Unicode ones, are left out.                  *)
(*   type row   [type, field, exid, target, off, len, total, stamp]        *)
(*   indirect   [table, path, target]                                      *)
(*   parameter  [fn, class, name, table, path, exid]                       *)
(* A field path is the sequence of its segments, "" is an empty name.      *)
(***************************************************************************)
EXTENDS Integers, Sequences, FiniteSets, SequencesExt, Relation

(* What the budget counts: properties per row of the four tables.          *)
RowCount(in) == Len(in.names) + Len(in.types) + Len(in.indirects) + Len(in.params)
PropertyCount(in) ==
  4 + (IF in.names = <<>> THEN 0 ELSE 4)
    + 15 * Len(in.types) + 3 * Len(in.indirects) + 13 * Len(in.params)

(* snapshotFunctionIdentity takes at most one function, and                *)
(* validateFunctionIdentity compares it with the parameters'.              *)
ManyIdentities(in) == Len(in.names) > 1
(* Mutant: the first parameter's function is taken for everyone's.         *)
Mut_FirstFunction(in) ==
  \/ in.names = <<>> /\ in.params # <<>>
  \/ in.names # <<>> /\ in.params # <<>> /\ in.names[1] # in.params[1].fn
IdentityRejects(in) ==
  LET functions == {p.fn : p \in ToSet(in.params)}
  IN  \/ Cardinality(functions) > 1
      \/ in.names = <<>> /\ functions # {}
      \/ in.names # <<>> /\ functions # {} /\ in.names[1] \notin functions

SnapshotRejects(in) ==
  \/ RowCount(in) > in.limits.rows \/ PropertyCount(in) > in.limits.properties
  \/ \E r \in ToSet(in.types) : r.type = ""
  \/ \E r \in ToSet(in.indirects) : r.table = "" \/ r.path = <<>> \/ r.target = ""
  \/ \E p \in ToSet(in.params) : p.name = "" \/ (p.class # "X" /\ p.exid = "")
  \/ ManyIdentities(in) \/ IdentityRejects(in)

-----------------------------------------------------------------------------
(* classifyReference.                                                      *)
RefKind(exid) == CASE exid = "u" -> "structure" [] exid = "h" -> "table" [] OTHER -> "scalar"
End(r) == r.off + r.len

(* Consecutive rows of one type are a group.                               *)
Groups(rows) ==
  FoldLeft(LAMBDA gs, r : IF gs # <<>> /\ Last(gs)[1].type = r.type
                          THEN [gs EXCEPT ![Len(gs)] = Append(@, r)]
                          ELSE Append(gs, <<r>>),
           <<>>, rows)

Anonymous(g) == \E i \in DOMAIN g : g[i].field = ""
Total(g) ==
  IF Anonymous(g) /\ RefKind(g[1].exid) = "scalar" /\ g[1].total = 0
  THEN End(g[1]) ELSE g[1].total

(* Mutant: the end of a field is compared with the first field's.          *)
Mut_FirstEnd(g) ==
  \A i \in DOMAIN g : /\ i > 1 => g[i].off >= End(g[1])
                      /\ End(g[i]) <= Total(g)
Geometry(g) ==
  \A i \in DOMAIN g : /\ i > 1 => g[i].off >= End(g[i - 1])
                      /\ End(g[i]) <= Total(g)

GroupRejects(g) ==
  \/ Anonymous(g) /\ Len(g) # 1
  \/ \E i \in DOMAIN g :
       \/ g[i].total # g[1].total \/ g[i].stamp # g[1].stamp
       \/ \E j \in 1..(i - 1) : g[j].field = g[i].field
       \/ RefKind(g[i].exid) # "scalar" /\ g[i].target = ""
  \/ ~Geometry(g)

EdgesOf(fields) == Cardinality({i \in DOMAIN fields : RefKind(fields[i].exid) # "scalar"})
FieldEdges(gs) == FoldLeft(LAMBDA n, g : n + EdgesOf(g), 0, gs)

BuildRejects(in) ==
  LET gs == Groups(in.types)
  IN  \/ \E i, j \in DOMAIN gs : i < j /\ gs[i][1].type = gs[j][1].type
      \/ Len(gs) > in.limits.nodes
      \/ \E i \in DOMAIN gs : GroupRejects(gs[i])
      \/ FieldEdges(gs) > in.limits.edges

NodeKind(g) ==
  IF ~Anonymous(g) THEN "structure"
  ELSE IF RefKind(g[1].exid) = "scalar" THEN "scalar" ELSE "table"
BuildNodes(in) ==
  LET gs == Groups(in.types)
  IN  [i \in DOMAIN gs |-> [name |-> gs[i][1].type, kind |-> NodeKind(gs[i]), length |-> Total(gs[i]), fields |-> gs[i]]]

(* refineTableNodeKinds: a scalar line that something uses as a table.     *)
IsIndirect(p) == Len(p.path) > 1
MappedTo(in, p) == {r.target : r \in {x \in ToSet(in.indirects) : x.table = p.table /\ x.path = p.path}}
KeyRows(in, p) == Cardinality({i \in DOMAIN in.indirects :
                                 in.indirects[i].table = p.table /\ in.indirects[i].path = p.path})
RequiredTables(in, nodes) ==
  UNION {{f.target : f \in {x \in ToSet(nodes[i].fields) : RefKind(x.exid) = "table"}} : i \in DOMAIN nodes}
  \cup UNION {IF IsIndirect(p) THEN (IF KeyRows(in, p) = 1 THEN MappedTo(in, p) ELSE {})
              ELSE IF p.path = <<>> THEN {p.table} \ {""} ELSE {}
              : p \in {x \in ToSet(in.params) : x.exid = "h"}}
Refined(in, nodes) ==
  [i \in DOMAIN nodes |->
     IF nodes[i].kind = "scalar" /\ nodes[i].name \in RequiredTables(in, nodes)
     THEN [nodes[i] EXCEPT !.kind = "table"] ELSE nodes[i]]

Names(nodes) == {nodes[i].name : i \in DOMAIN nodes}
NodeOf(nodes, name) == nodes[CHOOSE i \in DOMAIN nodes : nodes[i].name = name]
References(node) == {f \in ToSet(node.fields) : RefKind(f.exid) # "scalar"}

(* Mutant: the kind of the target is not compared.                         *)
Mut_AnyKind(nodes) ==
  \E i \in DOMAIN nodes : \E f \in References(nodes[i]) : f.target \notin Names(nodes)
ValidateRejects(nodes) ==
  \E i \in DOMAIN nodes : \E f \in References(nodes[i]) :
    f.target \notin Names(nodes) \/ NodeOf(nodes, f.target).kind # RefKind(f.exid)

-----------------------------------------------------------------------------
(* provisionalParameters.  An undotted path is one segment, so the loop of *)
(* resolveFieldPath looks one field up.                                    *)
IndirectRejects(in) ==
  \E i \in DOMAIN in.indirects :
    \/ Len(in.indirects[i].path) < 2
    \/ \E j \in 1..(i - 1) : /\ in.indirects[j].table = in.indirects[i].table
                             /\ in.indirects[j].path = in.indirects[i].path

IsDirect(p) == Len(p.path) = 1
IsScalarTable(p) == p.class = "T" /\ RefKind(p.exid) = "scalar"
IsTable(p) == ~IsScalarTable(p) /\ (p.class = "T" \/ p.exid = "h")
IsStructure(p) == ~IsTable(p) /\ ~IsScalarTable(p) /\ p.exid = "u"
IsLeaf(p) == ~IsTable(p) /\ ~IsStructure(p)
ScalarLeaf(n) == Len(n.fields) = 1 /\ n.fields[1].field = "" /\ RefKind(n.fields[1].exid) = "scalar"
FieldsNamed(n, p) == {f \in ToSet(n.fields) : f.field = p.path[1]}

(* The type an indirect or direct path leads to; {} when there is none.    *)
Owner(in, nodes, p) == IF IsIndirect(p) THEN MappedTo(in, p) ELSE {p.table} \ {""}
Resolves(in, nodes, p) ==
  /\ p.table # "" /\ Owner(in, nodes, p) # {} /\ Owner(in, nodes, p) \subseteq Names(nodes)
  /\ IsDirect(p) => FieldsNamed(NodeOf(nodes, p.table), p) # {}
FieldOf(nodes, p) == CHOOSE f \in FieldsNamed(NodeOf(nodes, p.table), p) : TRUE

(* scalarTable and scalar parameters: what they name must be a scalar.     *)
LeafRejects(in, nodes, p) ==
  IF p.path = <<>>
  THEN p.table \in Names(nodes) /\ ~ScalarLeaf(NodeOf(nodes, p.table))
  ELSE \/ ~Resolves(in, nodes, p)
       \/ IsIndirect(p) /\ \E t \in MappedTo(in, p) : ~ScalarLeaf(NodeOf(nodes, t))
       \/ IsDirect(p) /\ RefKind(FieldOf(nodes, p).exid) # "scalar"
LeafRoots(in, nodes, p) == IF p.path = <<>> THEN {p.table} \cap Names(nodes) ELSE Owner(in, nodes, p)

(* Structures and tables: the path leads to the target.                    *)
TargetType(in, nodes, p) ==
  IF IsIndirect(p) THEN MappedTo(in, p)
  ELSE IF IsDirect(p) THEN {FieldOf(nodes, p).target} ELSE {p.table}
CompositeRejects(in, nodes, p) ==
  \/ p.table = ""
  \/ p.path # <<>> /\ ~Resolves(in, nodes, p)
  \/ IsDirect(p) /\ RefKind(FieldOf(nodes, p).exid) = "scalar"
  \/ ~(TargetType(in, nodes, p) \subseteq Names(nodes))
  \/ \E t \in TargetType(in, nodes, p) :
       \/ IsStructure(p) /\ NodeOf(nodes, t).kind # "structure"
       \/ p.exid = "h" /\ NodeOf(nodes, t).kind # "table"

ParamRejects(in, nodes, p) ==
  p.class # "X" /\ IF IsLeaf(p) THEN LeafRejects(in, nodes, p) ELSE CompositeRejects(in, nodes, p)

ParamRoots(in, nodes, p) ==
  IF p.class = "X" THEN {}
  ELSE IF IsLeaf(p) THEN LeafRoots(in, nodes, p) ELSE TargetType(in, nodes, p)
ParamEdges(in, nodes, p) ==
  CASE p.class = "X" -> 0
    [] p.class # "X" /\ IsLeaf(p) /\ ~IsScalarTable(p) -> Cardinality(LeafRoots(in, nodes, p))
    [] OTHER -> 1
TotalEdges(in, nodes) ==
  FoldLeft(LAMBDA n, p : n + ParamEdges(in, nodes, p),
           FoldLeft(LAMBDA n, x : n + EdgesOf(x.fields), 0, nodes), in.params)

ParametersReject(in, nodes) ==
  \/ IndirectRejects(in)
  \/ \E i, j \in DOMAIN in.params : i < j /\ in.params[i].name = in.params[j].name
  \/ \E p \in ToSet(in.params) : ParamRejects(in, nodes, p)
  \/ TotalEdges(in, nodes) > in.limits.edges
  \/ \E r \in ToSet(in.indirects) :
       ~\E p \in ToSet(in.params) : p.class # "X" /\ p.table = r.table /\ p.path = r.path
-----------------------------------------------------------------------------
(* graphComponents: Kosaraju's two searches with explicit stacks.          *)
Adjacency(nodes) ==
  [i \in DOMAIN nodes |->
     LET refs == SelectSeq(nodes[i].fields, LAMBDA f : RefKind(f.exid) # "scalar")
     IN  [k \in DOMAIN refs |-> CHOOSE j \in DOMAIN nodes : nodes[j].name = refs[k].target]]
ReverseAdjacency(adj) ==
  [i \in DOMAIN adj |->
     FoldLeft(LAMBDA acc, from : acc \o [k \in 1..Len(SelectSeq(adj[from], LAMBDA t : t = i)) |-> from],
              <<>>, [k \in DOMAIN adj |-> k])]

RECURSIVE Search(_, _, _)
Search(adj, stack, s) ==
  IF stack = <<>> THEN s
  ELSE LET top == Last(stack) IN
       IF top.next < Len(adj[top.node])
       THEN LET target == adj[top.node][top.next + 1]
                rest == [stack EXCEPT ![Len(stack)].next = @ + 1]
            IN  IF target \in s.visited THEN Search(adj, rest, s)
                ELSE Search(adj, Append(rest, [node |-> target, next |-> 0]),
                            [s EXCEPT !.visited = @ \cup {target}])
       ELSE Search(adj, Front(stack), [s EXCEPT !.finish = Append(@, top.node)])
Finish(adj) ==
  FoldLeft(LAMBDA s, start :
             IF start \in s.visited THEN s
             ELSE Search(adj, <<[node |-> start, next |-> 0]>>, [s EXCEPT !.visited = @ \cup {start}]),
           [visited |-> {}, finish |-> <<>>], [k \in DOMAIN adj |-> k]).finish

RECURSIVE Collect(_, _, _, _)
Collect(rev, stack, of, c) ==
  IF stack = <<>> THEN of
  ELSE LET fresh == SetToSeq({x \in ToSet(rev[Last(stack)]) : of[x] = 0})
       IN  Collect(rev, Front(stack) \o fresh, [x \in DOMAIN of |-> IF x \in ToSet(fresh) THEN c ELSE of[x]], c)

(* Mutant: the second search takes the nodes in the order in which the     *)
(* first one finished them.                                                *)
Mut_FinishOrder(adj) ==
  FoldLeft(LAMBDA of, start :
              IF of[start] # 0 THEN of
              ELSE LET c == Cardinality(ToSet(of) \ {0}) + 1
                   IN  Collect(ReverseAdjacency(adj), <<start>>, [of EXCEPT ![start] = c], c),
            [i \in DOMAIN adj |-> 0], Finish(adj))
ComponentByNode(adj) ==
  FoldRight(LAMBDA start, of :
              IF of[start] # 0 THEN of
              ELSE LET c == Cardinality(ToSet(of) \ {0}) + 1
                   IN  Collect(ReverseAdjacency(adj), <<start>>, [of EXCEPT ![start] = c], c),
            Finish(adj), [i \in DOMAIN adj |-> 0])

Members(of, c) == {i \in DOMAIN of : of[i] = c}
CyclicComponents(adj, of) ==
  {c \in ToSet(of) : \/ Cardinality(Members(of, c)) > 1
                     \/ \E i \in Members(of, c) : i \in ToSet(adj[i])}
ComponentAdjacency(adj, of) ==
  [c \in ToSet(of) |-> UNION {{of[t] : t \in ToSet(adj[i])} : i \in Members(of, c)} \ {c}]

RECURSIVE Closure(_, _, _)
Closure(cadj, stack, reached) ==
  IF stack = <<>> THEN reached
  ELSE IF Last(stack) \in reached THEN Closure(cadj, Front(stack), reached)
       ELSE Closure(cadj, Front(stack) \o SetToSeq(cadj[Last(stack)]), reached \cup {Last(stack)})

(* The longest path, in topological order.                                 *)
Before(a, b) == a < b
(* Mutant: the first path to a component counts, not the longest.          *)
Mut_FirstPath(d, source, targets) ==
  [c \in DOMAIN d |-> IF c \in targets /\ d[c] = 0 THEN d[source] + 1 ELSE d[c]]
Deepened(d, source, targets) ==
  [c \in DOMAIN d |-> IF c \in targets /\ d[c] < d[source] + 1 THEN d[source] + 1 ELSE d[c]]
RECURSIVE Depths(_, _, _)
Depths(cadj, reachable, s) ==
  IF s.queue = <<>> THEN s.max
  ELSE LET source == Head(s.queue)
           targets == cadj[source] \cap reachable
           indegree == [c \in DOMAIN cadj |-> IF c \in targets THEN s.indegree[c] - 1 ELSE s.indegree[c]]
           freed == SetToSortSeq({c \in targets : indegree[c] = 0}, Before)
       IN  Depths(cadj, reachable,
                  [queue |-> Tail(s.queue) \o freed, indegree |-> indegree,
                   depth |-> Deepened(s.depth, source, targets),
                   max |-> IF s.depth[source] > s.max THEN s.depth[source] ELSE s.max])
MaximumDepth(cadj, rootComponents) ==
  LET reachable == Closure(cadj, SetToSeq(rootComponents), {})
      indegree == [c \in DOMAIN cadj |-> Cardinality({x \in reachable : c \in cadj[x]})]
  IN  Depths(cadj, reachable,
             [queue |-> SetToSortSeq({c \in reachable : indegree[c] = 0}, Before),
              indegree |-> indegree, max |-> 0,
              depth |-> [c \in DOMAIN cadj |-> IF c \in rootComponents THEN 1 ELSE 0]])

-----------------------------------------------------------------------------
(* finalNodes, finalParameters and finalCycles.                            *)
FinalReference(nodes, of, cyclic, i, f) ==
  IF RefKind(f.exid) = "scalar" THEN [kind |-> "scalar", target |-> "", cyclic |-> FALSE]
  ELSE LET j == CHOOSE j \in DOMAIN nodes : nodes[j].name = f.target
       IN  [kind |-> RefKind(f.exid), target |-> f.target, cyclic |-> of[i] = of[j] /\ of[i] \in cyclic]
FinalNodes(nodes, of, cyclic) ==
  [i \in DOMAIN nodes |->
     [name |-> nodes[i].name, kind |-> nodes[i].kind, length |-> nodes[i].length,
      fields |-> [k \in DOMAIN nodes[i].fields |->
                    LET f == nodes[i].fields[k]
                    IN  [name |-> f.field, off |-> f.off, len |-> f.len,
                         ref |-> FinalReference(nodes, of, cyclic, i, f)]]]]
FinalParameter(in, nodes, of, cyclic, p) ==
  CASE p.class = "X" -> [kind |-> "exception", target |-> "", cyclic |-> FALSE]
    [] p.class # "X" /\ IsLeaf(p) ->
         [kind |-> IF IsScalarTable(p) THEN "table" ELSE "scalar", target |-> "", cyclic |-> FALSE]
    [] OTHER ->
         LET t == CHOOSE t \in TargetType(in, nodes, p) : TRUE
             j == CHOOSE j \in DOMAIN nodes : nodes[j].name = t
         IN  [kind |-> IF IsTable(p) THEN "table" ELSE "structure", target |-> t, cyclic |-> of[j] \in cyclic]
FinalCycles(nodes, of, cyclic) == {{nodes[i].name : i \in Members(of, c)} : c \in cyclic}

Rejected == [ok |-> FALSE]

(* The roots are the ones asked for and the parameters'; without any every *)
(* type is one.                                                            *)
Roots(in, nodes) ==
  LET named == in.roots \cup UNION {ParamRoots(in, nodes, p) : p \in ToSet(in.params)}
  IN  IF named = {} THEN Names(nodes) ELSE named

RECURSIVE ReachableTypes(_, _, _)
ReachableTypes(nodes, stack, reached) ==
  IF stack = <<>> THEN reached
  ELSE IF Last(stack) \in reached THEN ReachableTypes(nodes, Front(stack), reached)
       ELSE ReachableTypes(nodes,
              Front(stack) \o SetToSeq({f.target : f \in References(NodeOf(nodes, Last(stack)))}),
              reached \cup {Last(stack)})

Graph(in, nodes) ==
  LET adj == Adjacency(nodes)
      of == ComponentByNode(adj)
      cyclic == CyclicComponents(adj, of)
      roots == Roots(in, nodes)
      depth == MaximumDepth(ComponentAdjacency(adj, of), {of[i] : i \in {k \in DOMAIN nodes : nodes[k].name \in roots}})
  IN  IF depth > in.limits.depth \/ ReachableTypes(nodes, SetToSeq(roots), {}) # Names(nodes)
      THEN Rejected
      ELSE [ok |-> TRUE, nodes |-> FinalNodes(nodes, of, cyclic), roots |-> roots,
            params |-> [k \in DOMAIN in.params |-> FinalParameter(in, nodes, of, cyclic, in.params[k])],
            cycles |-> FinalCycles(nodes, of, cyclic), depth |-> depth, edges |-> TotalEdges(in, nodes)]

Normalize(in) ==
  IF SnapshotRejects(in) \/ BuildRejects(in) THEN Rejected
  ELSE LET nodes == Refined(in, BuildNodes(in))
       IN  IF \/ ValidateRejects(nodes) \/ ParametersReject(in, nodes)
              \/ ~(in.roots \subseteq Names(nodes))
           THEN Rejected ELSE Graph(in, nodes)

-----------------------------------------------------------------------------
(* What the graph says, from first principles: a type refers to another,   *)
(* and reaches what the closure of that says.                              *)
Refers(g) ==
  LET Types == Names(g.nodes)
  IN  [p \in Types \X Types |->
         \E f \in ToSet(NodeOf(g.nodes, p[1]).fields) : f.ref.kind # "scalar" /\ f.ref.target = p[2]]
Reaches(g) == TransitiveClosure(Refers(g), Names(g.nodes))

(* The graph marks a reference of a field cyclic exactly when its target   *)
(* leads back to the field's owner, a parameter exactly when its type is   *)
(* on a cycle, and lists exactly the classes of types that reach each      *)
(* other: an unmarked one sends the xRFC codecs around for ever, a marked  *)
(* one makes them treat a plain nested structure as recursive.             *)
CyclesAreExact(in, g) ==
  LET reach == Reaches(g)
      Types == Names(g.nodes)
  IN  /\ \A n \in ToSet(g.nodes) : \A f \in ToSet(n.fields) :
           f.ref.cyclic <=> f.ref.kind # "scalar" /\ reach[f.ref.target, n.name]
      /\ \A p \in ToSet(g.params) : p.cyclic <=> p.target # "" /\ reach[p.target, p.target]
      /\ g.cycles = {{s \in Types : reach[s, t] /\ reach[t, s]} : t \in {x \in Types : reach[x, x]}}

(* MaximumDepth, which the depth limit is compared with, is the length of  *)
(* the longest path from a root that does not go around a cycle: the most  *)
(* types of which each reaches the next but not the other way.             *)
DepthIsLongestPath(in, g) ==
  LET reach == Reaches(g)
      Chain(C) == \A s, t \in C : s # t => (reach[s, t] # reach[t, s])
  IN  /\ \E C \in SUBSET Names(g.nodes) : Chain(C) /\ Cardinality(C) = g.depth
      /\ \A C \in SUBSET Names(g.nodes) : Chain(C) => Cardinality(C) <= g.depth
      /\ g.depth <= in.limits.depth

(* An accepted graph is closed: whatever a field or a parameter refers to  *)
(* is one of its types and of the kind the reference says, and nothing is  *)
(* in it that no root leads to.                                            *)
GraphIsClosed(in, g) ==
  LET reach == Reaches(g)
      Types == Names(g.nodes)
  IN  /\ g.roots \subseteq Types
      /\ \A n \in ToSet(g.nodes) : \A f \in ToSet(n.fields) :
           f.ref.kind # "scalar" =>
             f.ref.target \in Types /\ NodeOf(g.nodes, f.ref.target).kind = f.ref.kind
      /\ \A k \in DOMAIN g.params :
           g.params[k].target # "" => /\ g.params[k].target \in g.roots
                                      /\ in.params[k].exid = "h" => NodeOf(g.nodes, g.params[k].target).kind = "table"
      /\ \A t \in Types : t \in g.roots \/ \E r \in g.roots : reach[r, t]

(* No two fields of an accepted type share a byte, and none leaves it: the *)
(* row codecs read every field from its own place.                         *)
FieldsDoNotOverlap(in, g) ==
  \A n \in ToSet(g.nodes) : \A i, j \in DOMAIN n.fields :
    /\ i < j => n.fields[i].off + n.fields[i].len <= n.fields[j].off
    /\ n.fields[i].off + n.fields[i].len <= n.length
=============================================================================
