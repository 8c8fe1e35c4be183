----------------------------- MODULE RfcClient ------------------------------
(***************************************************************************)
(* The public client of rfc/ over its pool of connections: Client.Call,    *)
(* FunctionInterface, StructureDefinition and DescribeTool, the pinned     *)
(* Session with its mutex, and the three caches that all of them share.    *)
(*                                                                         *)
(* A caller is one goroutine.  Client.mu is held only around a cache read  *)
(* or a cache write, so reading a cache, the exchange that follows a miss  *)
(* and the write of its outcome are separate steps.  The pool is what      *)
(* Leases promises.  An exchange over a connection is answered, refused    *)
(* with an ABAP exception, or fails, which leaves the connection broken:   *)
(* the conversation still awaits the reply, or the transport is closed,    *)
(* and every later send on it is refused (module Session).                 *)
(***************************************************************************)
EXTENDS Naturals, FiniteSets

CONSTANTS
  Callers,       \* goroutines
  Conns,         \* identities of *lifecycle.Managed connections
  MaxSize,       \* PoolOptions.MaxSize
  Functions,     \* the function modules that are called
  Kinds,         \* the layouts that their parameters have
  HasDeadline,   \* whether an Acquire stops waiting (its context, AcquireTimeout)
  Pin,           \* the holder that stands for Session.lease
  Nobody

(* A function has one layout-bearing parameter, in and out, or none:       *)
(*   "scalar"  no parameter with a DDIC layout                             *)
(*   "flat"    a structure or TABLES parameter whose RFC_FIELDS decode     *)
(*   "nested"  the same, but the flat layout declares a u/v/h component    *)
(*   "deep"    EXID v or h: only the recursive codec can carry it          *)
Layouts == {"scalar", "flat", "nested", "deep"}

ASSUME ClientAssumption ==
  /\ MaxSize \in Nat \ {0}
  /\ Kinds \subseteq Layouts
  /\ HasDeadline \in BOOLEAN
  /\ Pin \notin Callers /\ Nobody \notin Conns \cup Callers

VARIABLES
  layout,        \* the kind of parameter each function has; it never changes
  lent,          \* the leases that are out: Leases!lent
  conn,          \* "ready", "broken" or "closed", for every connection
  closed,        \* Client.Close has been called
  fnCache,       \* the functions whose interface is cached
  structCache,   \* the functions whose parameter's structure is cached
  graphCache,    \* "none", "graph" or "failed", for every function
  pc, op, fn,    \* where each caller is, in which operation, for which function
  supplied,      \* whether Params has the layout-bearing parameter
  err,           \* the error the operation is about to return, or "nil"
  plan,          \* whether layoutPlan.recursive holds the parameter
  pinned,        \* the Session: "none", "opening", "open" or "done"
  mu,            \* who holds Session.mu
  broke          \* history: the request on which the operation's connection broke

cacheVars == <<fnCache, structCache, graphCache>>
callVars == <<pc, op, fn, supplied, err, plan, broke>>
vars == <<lent, conn, closed, cacheVars, callVars, pinned, mu>>

Pool == INSTANCE Leases
          WITH Holders <- Callers \cup {Pin}, Resources <- Conns, Limit <- MaxSize

Operations ==
  {"Call", "FunctionInterface", "StructureDefinition", "DescribeTool", "Pin",
   "Session.Call", "Session.DescribeTool", "Session.Close"}
Init ==
  /\ layout \in [Functions -> Kinds]
  /\ Pool!Init
  /\ conn = [c \in Conns |-> "closed"] /\ closed = FALSE
  /\ fnCache = {} /\ structCache = {} /\ graphCache = [f \in Functions |-> "none"]
  /\ pc = [p \in Callers |-> "out"] /\ op = [p \in Callers |-> "Call"]
  /\ fn = [p \in Callers |-> CHOOSE f \in Functions : TRUE]
  /\ supplied = [p \in Callers |-> "absent"] /\ err = [p \in Callers |-> "nil"]
  /\ plan = [p \in Callers |-> FALSE]
  /\ pinned = "none" /\ mu = Nobody /\ broke = [p \in Callers |-> "none"]

-----------------------------------------------------------------------------
Goto(p, l) == pc' = [pc EXCEPT ![p] = l]
Fail(p, e) == err' = [err EXCEPT ![p] = e] /\ Goto(p, "return")

(* p is outside again, and its local variables are gone.                   *)
SomeFunction == CHOOSE f \in Functions : TRUE
Returned(p) ==
  /\ Goto(p, "out")
  /\ op' = [op EXCEPT ![p] = "Call"] /\ fn' = [fn EXCEPT ![p] = SomeFunction]
  /\ supplied' = [supplied EXCEPT ![p] = "absent"] /\ err' = [err EXCEPT ![p] = "nil"]
  /\ plan' = [plan EXCEPT ![p] = FALSE] /\ broke' = [broke EXCEPT ![p] = "none"]

(* The holder whose lease p works on: Session.Call uses the pinned one.    *)
Holder(p) == IF op[p] = "Session.Call" THEN Pin ELSE p
Conn(p) == lent[Holder(p)]

(* One exchange over p's connection: the partner answers or refuses ...    *)
Answers(p) == conn[Conn(p)] = "ready" /\ UNCHANGED <<conn, broke>>

(* ... or CallRaw or CallWithCallbacks returns an error: a timeout, an end *)
(* of the conversation or a callback handler's error, or the refusal to    *)
(* send over a connection that broke before.                               *)
Breaks(p, request) ==
  /\ conn' = [conn EXCEPT ![Conn(p)] = "broken"]
  /\ broke' = [broke EXCEPT ![p] = IF conn[Conn(p)] = "ready" THEN request ELSE @]

-----------------------------------------------------------------------------
(* Entry, pool and exit                                                    *)

(* A goroutine calls one of the exported methods.  A lookup of something   *)
(* cached returns at once and is no step.                                  *)
Begin(p, o, f, s) ==
  /\ pc[p] = "out"
  /\ s # "absent" => o \in {"Call", "Session.Call"} /\ layout[f] # "scalar"
  /\ o \in {"Pin", "Session.Close"} => f = SomeFunction
  /\ op' = [op EXCEPT ![p] = o] /\ fn' = [fn EXCEPT ![p] = f]
  /\ supplied' = [supplied EXCEPT ![p] = s]
  /\ CASE o \in {"Call", "DescribeTool"} -> Goto(p, "acquire") /\ UNCHANGED pinned
       [] o = "FunctionInterface" ->
            f \notin fnCache /\ Goto(p, "acquire") /\ UNCHANGED pinned
       [] o = "StructureDefinition" ->
            /\ layout[f] # "scalar" /\ f \notin structCache
            /\ Goto(p, "acquire") /\ UNCHANGED pinned
       [] o = "Pin" ->
            pinned \in {"none", "done"} /\ pinned' = "opening" /\ Goto(p, "acquire")
       [] o \in {"Session.Call", "Session.DescribeTool", "Session.Close"} ->
            pinned \in {"open", "done"} /\ Goto(p, "lock") /\ UNCHANGED pinned
  /\ UNCHANGED <<lent, conn, closed, cacheVars, err, plan, broke, mu>>

(* After pool.Close an Acquire returns ErrClosed at once; one that was     *)
(* under way may still get its lease (module Pool).                        *)
RefuseClosed(p) ==
  /\ pc[p] = "acquire" /\ closed /\ Fail(p, "ErrClosed")
  /\ pinned' = IF op[p] = "Pin" THEN "none" ELSE pinned
  /\ UNCHANGED <<lent, conn, closed, cacheVars, op, fn, supplied, plan, broke, mu>>

(* Mutant: PoolOptions.SkipHealthCheck.                                    *)
Mut_SkipHealthCheck(p, c) ==
  /\ Pool!Lend(IF op[p] = "Pin" THEN Pin ELSE p, c)
  /\ conn' = [conn EXCEPT ![c] = IF @ = "closed" THEN "ready" ELSE @]

(* pool.Acquire gives p (or the Session it opens) a lease on a connection  *)
(* that has just answered RFC_PING, or that was opened and logged on now.  *)
Lent(p, c) ==
  /\ Pool!Lend(IF op[p] = "Pin" THEN Pin ELSE p, c)
  /\ conn' = [conn EXCEPT ![c] = "ready"]

Acquire(p) ==
  /\ pc[p] = "acquire"
  /\ \E c \in Conns : Lent(p, c)
  /\ IF op[p] = "Pin"
       THEN pinned' = "open" /\ Returned(p)
       ELSE /\ Goto(p, IF op[p] = "StructureDefinition" THEN "lookup" ELSE "iface")
            /\ UNCHANGED <<op, fn, supplied, err, plan, broke, pinned>>
  /\ UNCHANGED <<closed, cacheVars, mu>>

(* Acquire gives up waiting, or a slot was free and the dial or the logon  *)
(* failed.                                                                 *)
AcquireFails(p) ==
  /\ pc[p] = "acquire"
  /\ HasDeadline \/ Cardinality(Pool!Lessees) < MaxSize
  /\ Fail(p, "Acquire")
  /\ pinned' = IF op[p] = "Pin" THEN "none" ELSE pinned
  /\ UNCHANGED <<lent, conn, closed, cacheVars, op, fn, supplied, plan, broke, mu>>

(* Mutant: Session.mu is not taken.                                        *)
Mut_NoMutex(p) ==
  /\ pc[p] = "lock" /\ lent[Pin] # Nobody /\ op[p] = "Session.Call" /\ Goto(p, "iface")
  /\ UNCHANGED <<lent, conn, closed, cacheVars, op, fn, supplied, err, plan, broke, pinned, mu>>

(* Session.Call, Session.DescribeTool and Session.Close take Session.mu.   *)
Lock(p) ==
  /\ pc[p] = "lock" /\ mu = Nobody /\ mu' = p
  /\ \/ /\ lent[Pin] = Nobody
        /\ Fail(p, IF op[p] = "Session.Close" THEN "nil" ELSE "ErrClosed")
     \/ /\ lent[Pin] # Nobody /\ UNCHANGED err
        /\ Goto(p, CASE op[p] = "Session.Call" -> "iface"
                     [] op[p] = "Session.DescribeTool" -> "acquire"
                     [] op[p] = "Session.Close" -> "return")
  /\ UNCHANGED <<lent, conn, closed, cacheVars, op, fn, supplied, plan, broke, pinned>>

(* Mutant: Discard does what Release does.                                 *)
Mut_DiscardReleases(h, discard) ==
  /\ Pool!Return(h)
  /\ conn' = [conn EXCEPT ![lent[h]] = IF closed THEN "closed" ELSE @]

(* What becomes of a connection whose lease is given back.                 *)
GiveBack(h, discard) ==
  /\ Pool!Return(h)
  /\ conn' = [conn EXCEPT ![lent[h]] = IF discard \/ closed THEN "closed" ELSE @]

(* The deferred Release (after a Discard, when a Call ended with           *)
(* ErrTransport), the deferred Unlock, and the return.                     *)
Finish(p) ==
  \/ /\ op[p] = "Session.Close" \/ (op[p] = "Session.Call" /\ err[p] = "ErrTransport")
     /\ IF lent[Pin] # Nobody
          THEN GiveBack(Pin, op[p] = "Session.Call") /\ pinned' = "done"
          ELSE UNCHANGED <<lent, conn, pinned>>
  \/ /\ op[p] = "Session.Call" /\ err[p] # "ErrTransport"
     /\ UNCHANGED <<lent, conn, pinned>>
  \/ /\ op[p] \notin {"Session.Call", "Session.Close"}
     /\ IF lent[p] # Nobody
          THEN GiveBack(p, op[p] = "Call" /\ err[p] = "ErrTransport")
          ELSE UNCHANGED <<lent, conn>>
     /\ UNCHANGED pinned

(* Mutants: DescribeTool returns early without its lease's Release; an     *)
(* error return leaves Session.mu locked.                                  *)
Mut_LeaseForgotten(p) ==
  /\ pc[p] = "return" /\ Returned(p)
  /\ IF op[p] = "DescribeTool" /\ err[p] # "nil" THEN UNCHANGED <<lent, conn, pinned>> ELSE Finish(p)
  /\ mu' = IF mu = p THEN Nobody ELSE mu
  /\ UNCHANGED <<closed, cacheVars>>

Mut_NoUnlock(p) ==
  /\ pc[p] = "return" /\ Returned(p)
  /\ Finish(p)
  /\ mu' = IF mu = p /\ err[p] = "nil" THEN Nobody ELSE mu
  /\ UNCHANGED <<closed, cacheVars>>

Return(p) ==
  /\ pc[p] = "return" /\ Returned(p)
  /\ Finish(p)
  /\ mu' = IF mu = p THEN Nobody ELSE mu
  /\ UNCHANGED <<closed, cacheVars>>

(* Client.Close: pool.Close closes what is idle.                           *)
Close ==
  /\ ~closed /\ closed' = TRUE
  /\ conn' = [c \in Conns |-> IF Pool!Available(c) THEN "closed" ELSE conn[c]]
  /\ UNCHANGED <<lent, cacheVars, callVars, pinned, mu>>

-----------------------------------------------------------------------------
(* functionInterfaceOn                                                     *)

Interface(p) ==
  /\ pc[p] = "iface"
  /\ Goto(p, IF fn[p] \notin fnCache THEN "askIface"
             ELSE IF op[p] = "FunctionInterface" THEN "return" ELSE "layout")
  /\ UNCHANGED <<lent, conn, closed, cacheVars, op, fn, supplied, err, plan, broke, pinned, mu>>

AskInterface(p) ==
  /\ pc[p] = "askIface"
  /\ \/ /\ Answers(p) /\ fnCache' = fnCache \cup {fn[p]} /\ UNCHANGED err
        /\ Goto(p, IF op[p] = "FunctionInterface" THEN "return" ELSE "layout")
     \/ /\ Answers(p) /\ UNCHANGED fnCache
        /\ \E e \in {"ABAPException", "ErrProtocol"} : Fail(p, e)
     \/ Breaks(p, "iface") /\ Fail(p, "ErrTransport") /\ UNCHANGED fnCache
  /\ UNCHANGED <<lent, closed, structCache, graphCache, op, fn, supplied, plan, pinned, mu>>

-----------------------------------------------------------------------------
(* structureDefinitionOn                                                   *)

Resolve(p, at, ask, then) ==
  /\ pc[p] = at
  /\ Goto(p, IF fn[p] \in structCache THEN then ELSE ask)
  /\ UNCHANGED <<lent, conn, closed, cacheVars, op, fn, supplied, err, broke, pinned, mu>>

(* What the caller at that place makes of an error: coerceParams wraps it  *)
(* as ErrProtocol, planLayoutOn counts the parameter as unresolved,        *)
(* DescribeTool describes the structure as unresolved, and every other one *)
(* returns it.                                                             *)
OnError(p, at, e) ==
  \/ at = "askCoerce" /\ Fail(p, "ErrProtocol")
  \/ at = "askLayout" /\ Goto(p, "graph") /\ UNCHANGED err
  \/ at = "askSchema" /\ Goto(p, "return") /\ UNCHANGED err
  \/ at \notin {"askCoerce", "askLayout", "askSchema"} /\ Fail(p, e)

(* The exchange for a structure that is not cached.  A layout that is not  *)
(* flat may fail to decode.  A table type takes a second exchange for its  *)
(* row structure, and if that one fails the first one's decoding error is  *)
(* what is returned.                                                       *)
AskStructure(p, at, then) ==
  /\ pc[p] = at
  /\ \/ /\ Answers(p) /\ structCache' = structCache \cup {fn[p]}
        /\ Goto(p, then) /\ UNCHANGED err
     \/ Answers(p) /\ OnError(p, at, "ABAPException") /\ UNCHANGED structCache
     \/ Answers(p) /\ layout[fn[p]] # "flat" /\ OnError(p, at, "ErrProtocol") /\ UNCHANGED structCache
     \/ Breaks(p, "struct") /\ OnError(p, at, "ErrTransport") /\ UNCHANGED structCache
     \/ /\ layout[fn[p]] = "deep" /\ conn[Conn(p)] = "ready"
        /\ Breaks(p, "struct") /\ OnError(p, at, "ErrProtocol") /\ UNCHANGED structCache
  /\ UNCHANGED <<lent, closed, fnCache, graphCache, op, fn, supplied, pinned, mu>>

(* StructureDefinition                                                     *)
Lookup(p) == Resolve(p, "lookup", "askLookup", "return") /\ UNCHANGED plan
AskLookup(p) == AskStructure(p, "askLookup", "return") /\ UNCHANGED plan

-----------------------------------------------------------------------------
(* planLayoutOn and recursiveGraphOn                                       *)

(* Call goes on to coerceParams, DescribeTool to the schemas.              *)
Planned(p) == IF op[p] \in {"DescribeTool", "Session.DescribeTool"} THEN "schema" ELSE "coerce"

(* A scalar parameter needs no layout; one with EXID v or h is unresolved  *)
(* and so is one whose flat layout has nested components; any other is     *)
(* looked up.                                                              *)
PlanLayout(p) ==
  /\ pc[p] = "layout"
  /\ Goto(p, CASE layout[fn[p]] = "scalar" -> Planned(p)
               [] layout[fn[p]] = "deep" -> "graph"
               [] layout[fn[p]] \in {"flat", "nested"} /\ fn[p] \notin structCache -> "askLayout"
               [] layout[fn[p]] = "flat" /\ fn[p] \in structCache -> Planned(p)
               [] layout[fn[p]] = "nested" /\ fn[p] \in structCache -> "graph")
  /\ UNCHANGED <<lent, conn, closed, cacheVars, op, fn, supplied, err, plan, broke, pinned, mu>>

(* An error is no error here: the parameter counts as unresolved.          *)
AskLayout(p) ==
  /\ AskStructure(p, "askLayout", IF layout[fn[p]] = "flat" THEN Planned(p) ELSE "graph")
  /\ UNCHANGED plan

(* ResolveParameter finds in the graph whether the recursive codec must    *)
(* carry the parameter, and fails when the graph does not describe it: in  *)
(* both other cases the plan leaves it out.                                *)
UseGraph(p, g) ==
  /\ Goto(p, Planned(p))
  /\ \E needed \in BOOLEAN :
       plan' = [plan EXCEPT ![p] = g = "graph" /\ needed]

Graph(p) ==
  /\ pc[p] = "graph"
  /\ \/ graphCache[fn[p]] # "none" /\ UseGraph(p, graphCache[fn[p]])
     \/ graphCache[fn[p]] = "none" /\ Goto(p, "askGraph") /\ UNCHANGED plan
  /\ UNCHANGED <<lent, conn, closed, cacheVars, op, fn, supplied, err, broke, pinned, mu>>

(* RFC_METADATA_GET: its outcome is cached, whatever it is and whatever    *)
(* the cache holds by now.                                                 *)
AskGraph(p) ==
  /\ pc[p] = "askGraph"
  /\ \E g \in {"graph", "failed"} :
       /\ Answers(p) \/ (g = "failed" /\ Breaks(p, "graph"))
       /\ graphCache' = [graphCache EXCEPT ![fn[p]] = g]
       /\ UseGraph(p, g)
  /\ UNCHANGED <<lent, closed, fnCache, structCache, op, fn, supplied, err, pinned, mu>>

-----------------------------------------------------------------------------
(* callOn, after the plan                                                  *)

(* A supplied value that is not in the plan and has a layout.              *)
Flat(p) == layout[fn[p]] # "scalar" /\ ~plan[p]

(* coerceParams: a value may be of the wrong type; a flat one needs its    *)
(* structure, and every error is reported as ErrProtocol.                  *)
Coerce(p) ==
  \/ /\ supplied[p] = "value" /\ Flat(p)
     /\ Resolve(p, "coerce", "askCoerce", "encode") /\ UNCHANGED plan
  \/ /\ pc[p] = "coerce" /\ ~(supplied[p] = "value" /\ Flat(p))
     /\ \/ Goto(p, "encode") /\ UNCHANGED err
        \/ supplied[p] = "value" /\ Fail(p, "ErrProtocol")
     /\ UNCHANGED <<lent, conn, closed, cacheVars, op, fn, supplied, plan, broke, pinned, mu>>
AskCoerce(p) == AskStructure(p, "askCoerce", "encode") /\ UNCHANGED plan

(* encodeCall: a flat value needs its structure; nil is no map and no      *)
(* slice; what the fixed-width codec cannot carry is refused, although a   *)
(* table type may go out as a classic table.                               *)
Encode(p) ==
  \/ /\ supplied[p] # "absent" /\ Flat(p) /\ fn[p] \notin structCache
     /\ Resolve(p, "encode", "askEncode", "encode") /\ UNCHANGED plan
  \/ /\ pc[p] = "encode"
     /\ ~(supplied[p] # "absent" /\ Flat(p) /\ fn[p] \notin structCache)
     /\ \/ /\ supplied[p] = "absent" \/ (supplied[p] = "value" /\ (Flat(p) => layout[fn[p]] # "nested"))
           /\ Goto(p, "exchange") /\ UNCHANGED err
        \/ supplied[p] # "absent" /\ Fail(p, "ErrProtocol")
     /\ UNCHANGED <<lent, conn, closed, cacheVars, op, fn, supplied, plan, broke, pinned, mu>>
AskEncode(p) == AskStructure(p, "askEncode", "encode") /\ UNCHANGED plan

(* CallWithCallbacks                                                       *)
Exchange(p) ==
  /\ pc[p] = "exchange"
  /\ \/ Answers(p) /\ Goto(p, "decode") /\ UNCHANGED err
     \/ Answers(p) /\ Fail(p, "ABAPException")
     \/ Breaks(p, "call") /\ Fail(p, "ErrTransport")
  /\ UNCHANGED <<lent, closed, cacheVars, op, fn, supplied, plan, pinned, mu>>

(* decodeResult: the reply carries the parameter or leaves it out; a flat  *)
(* one needs its structure.                                                *)
Decode(p) ==
  \/ Flat(p) /\ Resolve(p, "decode", "askDecode", "return") /\ UNCHANGED plan
  \/ /\ pc[p] = "decode"
     /\ \/ Goto(p, "return") /\ UNCHANGED err
        \/ Fail(p, "ErrProtocol")
     /\ UNCHANGED <<lent, conn, closed, cacheVars, op, fn, supplied, plan, broke, pinned, mu>>
AskDecode(p) == AskStructure(p, "askDecode", "return") /\ UNCHANGED plan

(* DescribeTool: a structure that cannot be resolved is described as such. *)
Schema(p) ==
  \/ Flat(p) /\ Resolve(p, "schema", "askSchema", "return") /\ UNCHANGED plan
  \/ /\ pc[p] = "schema" /\ ~Flat(p) /\ Goto(p, "return")
     /\ UNCHANGED <<lent, conn, closed, cacheVars, op, fn, supplied, err, plan, broke, pinned, mu>>
AskSchema(p) == AskStructure(p, "askSchema", "return") /\ UNCHANGED plan

-----------------------------------------------------------------------------
Step(p) ==
  \/ RefuseClosed(p) \/ Acquire(p) \/ AcquireFails(p) \/ Lock(p) \/ Return(p)
  \/ Interface(p) \/ AskInterface(p) \/ Lookup(p) \/ AskLookup(p)
  \/ PlanLayout(p) \/ AskLayout(p) \/ Graph(p) \/ AskGraph(p)
  \/ Coerce(p) \/ AskCoerce(p) \/ Encode(p) \/ AskEncode(p) \/ Exchange(p)
  \/ Decode(p) \/ AskDecode(p) \/ Schema(p) \/ AskSchema(p)

Next ==
  \/ \E p \in Callers :
       \/ Step(p)
       \/ \E o \in Operations, f \in Functions, s \in {"absent", "value", "null"} :
            Begin(p, o, f, s)
  \/ Close

Spec == Init /\ [][Next /\ UNCHANGED layout]_<<vars, layout>>

(* Goroutines run, a read of a connection ends at its deadline, and        *)
(* sync.Mutex starves nobody who waits for Session.mu.                     *)
FairSpec == Spec /\ \A p \in Callers : WF_vars(Step(p)) /\ SF_vars(Lock(p))
-----------------------------------------------------------------------------
Working(p) == pc[p] \notin {"out", "lock", "acquire", "return"}

(* A lease is held exactly by the operations that work on a connection and *)
(* by the Session that is open: no return of Call, DescribeTool and the    *)
(* lookups leaks one, and nothing works on a lease it has given back.  "A  *)
(* classic RFC connection carries exactly one call at a time": leases and  *)
(* Session.mu keep two goroutines off the same connection.                 *)
LeasesAreAccountedFor ==
  /\ \A p \in Callers :
       /\ Working(p) => Conn(p) # Nobody
       /\ pc[p] \in {"out", "lock", "acquire"} => lent[p] = Nobody
  /\ pinned = "open" <=> lent[Pin] # Nobody
  /\ \A p, q \in Callers : Working(p) /\ Working(q) /\ p # q => Conn(p) # Conn(q)

(* An operation on a pooled connection never pays for an earlier one: if   *)
(* its connection is broken, it broke during this operation.  FunctionInter- *)
(* face, StructureDefinition and DescribeTool release broken connections,  *)
(* and so does a Call whose failure coerceParams reported as ErrProtocol;  *)
(* the RFC_PING on Acquire is what keeps those from the next caller.       *)
FailuresAreNotInherited ==
  \A p \in Callers :
    Working(p) /\ op[p] # "Session.Call" /\ conn[Conn(p)] = "broken" => broke[p] # "none"

(* "drop the connection rather than return a half-dead session to the      *)
(* pool" (Client.Call): a pooled connection on which Call failed with      *)
(* ErrTransport is closed when Call returns.                               *)
TransportFailureIsDropped ==
  [][\A p \in Callers :
       pc[p] = "return" /\ pc'[p] = "out" /\ op[p] \in {"Call", "Session.Call"}
         /\ err[p] = "ErrTransport"
         => conn'[Conn(p)] = "closed" /\ lent'[Holder(p)] = Nobody]_vars

(* Every operation returns, provided its Acquire has a deadline.           *)
OperationsReturn == \A p \in Callers : pc[p] # "out" ~> pc[p] = "out"

(* "The conversation is broken: drop the connection rather than return a   *)
(* half-dead session to the pool, and fail subsequent calls fast"          *)
(* (Session.Call): an open Session between two calls has a connection that *)
(* can carry the next one.                                                 *)
PinnedConnectionWorks ==
  pinned = "open" /\ mu = Nobody => conn[lent[Pin]] = "ready"
=============================================================================
