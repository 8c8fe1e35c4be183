---------------------------- MODULE ClientProofs ------------------------------
(***************************************************************************)
(* Proofs about RfcClient, for any callers, connections, pool size and     *)
(* functions.  No property depends on what is cached or on what kind of    *)
(* parameter a function has, so every step of an operation that has a      *)
(* lease is first reduced to what it does to leases, connections and the   *)
(* program counter (Works).                                                *)
(***************************************************************************)
EXTENDS RfcClient, TLAPS

Waiting == {"out", "lock", "acquire"}
Busy ==
  {"iface", "askIface", "lookup", "askLookup", "layout", "askLayout", "graph", "askGraph",
   "coerce", "askCoerce", "encode", "askEncode", "exchange", "decode", "askDecode", "schema", "askSchema"}
Labels == Waiting \cup Busy \cup {"return"}
Errors == {"nil", "ErrClosed", "Acquire", "ABAPException", "ErrProtocol", "ErrTransport"}
Requests == {"iface", "struct", "graph", "call"}
Leasing == {"Call", "FunctionInterface", "StructureDefinition", "DescribeTool", "Session.DescribeTool"}
OnSession == {"Session.Call", "Session.DescribeTool", "Session.Close"}

TypeOK ==
  /\ layout \in [Functions -> Kinds]
  /\ fn \in [Callers -> Functions \cup {SomeFunction}]
  /\ \A p \in Callers : pc[p] # "out" => fn[p] \in Functions
  /\ lent \in [Callers \cup {Pin} -> Conns \cup {Nobody}]
  /\ conn \in [Conns -> {"ready", "broken", "closed"}]
  /\ pc \in [Callers -> Labels]
  /\ op \in [Callers -> Operations]
  /\ err \in [Callers -> Errors]
  /\ broke \in [Callers -> Requests \cup {"none"}]
  /\ mu \in Callers \cup {Nobody}

(* What p has at each place: a lease of its own or Session.mu.             *)
Held(p) ==
  /\ pc[p] = "lock" => op[p] \in OnSession
  /\ pc[p] = "acquire" => op[p] \in Leasing \cup {"Pin"}
  /\ pc[p] \in Busy => op[p] \in Leasing \cup {"Session.Call"}
  /\ pc[p] \in Busy /\ op[p] \in Leasing => lent[p] # Nobody
  /\ pc[p] \in Busy /\ op[p] = "Session.Call" => mu = p /\ lent[Pin] # Nobody
  /\ pc[p] \in Waiting \/ op[p] \notin Leasing => lent[p] = Nobody
  /\ pc[p] = "return" /\ op[p] \in {"Session.Call", "Session.Close"} => mu = p
  /\ pc[p] = "return" /\ op[p] = "Session.Call" /\ err[p] = "ErrTransport" => lent[Pin] # Nobody
  /\ pc[p] = "return" /\ op[p] = "Call" /\ err[p] = "ErrTransport" => lent[p] # Nobody
HeldInv == \A p \in Callers : Held(p)

(* At most one caller is opening the Session.                              *)
Opening(p) == pc[p] = "acquire" /\ op[p] = "Pin"
PinInv ==
  /\ pinned = "open" <=> lent[Pin] # Nobody
  /\ \A p \in Callers : Opening(p) => pinned = "opening"
  /\ \A p, q \in Callers : Opening(p) /\ Opening(q) => p = q

(* No connection is in two leases, and the pool closes none that is in one. *)
Exclusive ==
  /\ \A h, k \in Callers \cup {Pin} : lent[h] = lent[k] /\ lent[h] # Nobody => h = k
  /\ \A h \in Callers \cup {Pin} : lent[h] # Nobody => conn[lent[h]] # "closed"

(* A connection that broke did so under the operation that has it.         *)
OwnFailures ==
  \A p \in Callers :
    pc[p] \in Busy /\ op[p] \in Leasing /\ conn[lent[p]] = "broken" => broke[p] # "none"

IInv == TypeOK /\ HeldInv /\ PinInv /\ Exclusive /\ OwnFailures

USE SMTT(30)

-------------------------------------------------------------------------------
(* What an operation that has its connection does, between Acquire or Lock *)
(* and the return.                                                         *)
Works(p) ==
  /\ pc[p] \in Busy
  /\ \E l \in Busy \cup {"return"} : Goto(p, l)
  /\ (UNCHANGED <<conn, broke>>) \/ (\E r \in Requests : Breaks(p, r))
  /\ err' = err \/ \E e \in {"ABAPException", "ErrProtocol", "ErrTransport"} : err' = [err EXCEPT ![p] = e]
  /\ UNCHANGED <<lent, closed, op, fn, pinned, mu>>

(* Every step of functionInterfaceOn, structureDefinitionOn, planLayoutOn, *)
(* recursiveGraphOn, callOn and DescribeTool is such a step, whatever is   *)
(* cached.                                                                 *)
LEMMA WorkFacts ==
  ASSUME TypeOK, NEW p \in Callers,
         \/ Interface(p) \/ AskInterface(p) \/ Lookup(p) \/ AskLookup(p)
         \/ PlanLayout(p) \/ AskLayout(p) \/ Graph(p) \/ AskGraph(p)
         \/ Coerce(p) \/ AskCoerce(p) \/ Encode(p) \/ AskEncode(p) \/ Exchange(p)
         \/ Decode(p) \/ AskDecode(p) \/ Schema(p) \/ AskSchema(p)
  PROVE  Works(p)
<1> DEFINE Ls == Busy \cup {"return"}
           Es == {"ABAPException", "ErrProtocol", "ErrTransport"}
           Stays == UNCHANGED <<lent, closed, op, fn, pinned, mu>>
           Moves == \E l \in Ls : Goto(p, l)
           Errs == err' = err \/ \E e \in Es : err' = [err EXCEPT ![p] = e]
           Breaking == (UNCHANGED <<conn, broke>>) \/ (\E r \in Requests : Breaks(p, r))
<1>0. Planned(p) \in Ls
  BY DEF Planned, Busy
<1>a. pc[p] \in Busy /\ Stays
  BY DEF Interface, AskInterface, Lookup, AskLookup, PlanLayout, AskLayout, Graph, AskGraph, Coerce, AskCoerce,
     Encode, AskEncode, Exchange, Decode, AskDecode, Schema, AskSchema, Resolve, AskStructure, Busy
<1>b. Breaking
  BY DEF Interface, AskInterface, Lookup, AskLookup, PlanLayout, AskLayout, Graph, AskGraph, Coerce, AskCoerce,
     Encode, AskEncode, Exchange, Decode, AskDecode, Schema, AskSchema, Resolve, AskStructure, Answers, Requests
<1>c. Errs
  BY DEF Interface, AskInterface, Lookup, AskLookup, PlanLayout, AskLayout, Graph, AskGraph, Coerce, AskCoerce,
     Encode, AskEncode, Exchange, Decode, AskDecode, Schema, AskSchema, Resolve, AskStructure, OnError, Fail
<1>d. CASE PlanLayout(p)
  <2>1. layout[fn[p]] \in Layouts
    BY <1>d, ClientAssumption DEF TypeOK, PlanLayout
  <2>2. Moves
    BY <1>0, <1>d, <2>1 DEF PlanLayout, Layouts, Busy
  <2> QED
    BY <1>a, <1>b, <1>c, <2>2, ZenonT(30) DEF Works
<1>e. CASE Interface(p) \/ AskInterface(p) \/ AskLayout(p)
  <2>1. Moves
    BY <1>0, <1>e DEF Interface, AskInterface, AskLayout, AskStructure, OnError, Fail, Busy
  <2> QED
    BY <1>a, <1>b, <1>c, <2>1, ZenonT(30) DEF Works
<1>f. CASE Lookup(p) \/ AskLookup(p)
  <2>1. Moves
    BY <1>f DEF Lookup, AskLookup, Resolve, AskStructure, OnError, Fail, Busy
  <2> QED
    BY <1>a, <1>b, <1>c, <2>1, ZenonT(30) DEF Works
<1>g. CASE Graph(p) \/ AskGraph(p)
  <2>1. Moves
    BY <1>0, <1>g DEF Graph, AskGraph, UseGraph, Busy
  <2> QED
    BY <1>a, <1>b, <1>c, <2>1, ZenonT(30) DEF Works
<1>h. CASE Coerce(p) \/ AskCoerce(p) \/ Exchange(p)
  <2>1. Moves
    BY <1>h DEF Coerce, AskCoerce, Exchange, Resolve, AskStructure, OnError, Fail, Busy
  <2> QED
    BY <1>a, <1>b, <1>c, <2>1, ZenonT(30) DEF Works
<1>i. CASE Encode(p) \/ AskEncode(p)
  <2>1. Moves
    BY <1>i DEF Encode, AskEncode, Resolve, AskStructure, OnError, Fail, Busy
  <2> QED
    BY <1>a, <1>b, <1>c, <2>1, ZenonT(30) DEF Works
<1>j. CASE Decode(p) \/ AskDecode(p) \/ Schema(p) \/ AskSchema(p)
  <2>1. Moves
    BY <1>j DEF Decode, AskDecode, Schema, AskSchema, Resolve, AskStructure, OnError, Fail, Busy
  <2> QED
    BY <1>a, <1>b, <1>c, <2>1, ZenonT(30) DEF Works
<1> QED
  BY <1>d, <1>e, <1>f, <1>g, <1>h, <1>i, <1>j, ZenonT(30)

-------------------------------------------------------------------------------
(* The invariant is kept, action by action.                                *)

(* A change of one caller's place.                                         *)
LEMMA GotoFacts ==
  ASSUME TypeOK, NEW p \in Callers, NEW l \in Labels, Goto(p, l)
  PROVE  pc' \in [Callers -> Labels] /\ pc'[p] = l /\ \A q \in Callers : q # p => pc'[q] = pc[q]
  BY ZenonT(30) DEF TypeOK, Goto, Labels

(* An exchange, a lookup or a conversion on a connection that p has.       *)
LEMMA WorksStep ==
  ASSUME IInv, NEW p \in Callers, Works(p), layout' = layout
  PROVE  IInv'
<1>1. PICK l \in Busy \cup {"return"} : Goto(p, l)
  BY DEF Works
<1>2. /\ pc[p] \in Busy /\ lent' = lent /\ op' = op /\ fn' = fn /\ pinned' = pinned /\ mu' = mu
      /\ TypeOK /\ HeldInv /\ PinInv /\ Exclusive /\ OwnFailures
  BY DEF Works, IInv
<1>3. pc' \in [Callers -> Labels] /\ pc'[p] = l /\ \A q \in Callers : q # p => pc'[q] = pc[q]
  BY <1>1, <1>2, GotoFacts DEF Labels
<1>4. err' \in [Callers -> Errors] /\ \A q \in Callers : q # p => err'[q] = err[q]
  <2>1. CASE err' = err
    BY <1>2, <2>1, ZenonT(30) DEF TypeOK, Errors
  <2>2. ASSUME NEW e \in {"ABAPException", "ErrProtocol", "ErrTransport"}, err' = [err EXCEPT ![p] = e]
        PROVE  err' \in [Callers -> Errors] /\ \A q \in Callers : q # p => err'[q] = err[q]
    BY <1>2, <2>2 DEF TypeOK, Errors
  <2> QED
    BY <2>1, <2>2, ZenonT(30) DEF Works
<1>5. /\ op[p] \in Leasing \cup {"Session.Call"} /\ Conn(p) \in Conns
      /\ (op[p] \in Leasing => Conn(p) = lent[p]) /\ conn[Conn(p)] # "closed"
      /\ \A q \in Callers : q # p /\ pc[q] \in Busy /\ op[q] \in Leasing => lent[q] # Conn(p)
  <2>1. op[p] \in Leasing \cup {"Session.Call"}
    BY <1>2 DEF HeldInv, Held
  <2>2. CASE op[p] = "Session.Call"
    <3>1. Conn(p) = lent[Pin] /\ lent[Pin] # Nobody /\ op[p] \notin Leasing /\ conn[lent[Pin]] # "closed"
      BY <1>2, <2>2 DEF Exclusive, HeldInv, Held, Conn, Holder, Leasing
    <3>2. lent[Pin] \in Conns
      BY <1>2, <3>1 DEF TypeOK
    <3>3. \A q \in Callers : lent[q] # lent[Pin]
      BY <1>2, <3>1, ClientAssumption DEF Exclusive
    <3> QED
      BY <2>1, <3>1, <3>2, <3>3
  <2>3. CASE op[p] \in Leasing
    <3>1. Conn(p) = lent[p] /\ lent[p] # Nobody /\ conn[lent[p]] # "closed"
      BY <1>2, <2>3 DEF Exclusive, HeldInv, Held, Conn, Holder, Leasing
    <3>2. lent[p] \in Conns
      BY <1>2, <3>1 DEF TypeOK
    <3>3. \A q \in Callers : q # p => lent[q] # lent[p]
      BY <1>2, <3>1 DEF Exclusive
    <3> QED
      BY <2>1, <3>1, <3>2, <3>3
  <2> QED
    BY <2>1, <2>2, <2>3
<1>6. /\ conn' \in [Conns -> {"ready", "broken", "closed"}] /\ broke' \in [Callers -> Requests \cup {"none"}]
      /\ \A c \in Conns : c # Conn(p) => conn'[c] = conn[c]
      /\ \A q \in Callers : q # p => broke'[q] = broke[q]
      /\ conn'[Conn(p)] # "closed"
      /\ conn'[Conn(p)] = "broken" /\ (conn[Conn(p)] = "broken" => broke[p] # "none") => broke'[p] # "none"
  <2>1. CASE UNCHANGED <<conn, broke>>
    BY <1>2, <1>5, <2>1 DEF TypeOK
  <2>2. CASE \E r \in Requests : Breaks(p, r)
    <3> PICK r \in Requests : Breaks(p, r)
      BY <2>2
    <3>1. /\ conn' = [conn EXCEPT ![Conn(p)] = "broken"]
          /\ broke' = [broke EXCEPT ![p] = IF conn[Conn(p)] = "ready" THEN r ELSE broke[p]]
      BY DEF Breaks
    <3> QED
      BY <1>2, <1>5, <3>1 DEF TypeOK, Requests
  <2> QED
    BY <2>1, <2>2, ZenonT(30) DEF Works
<1>7. TypeOK'
  BY <1>2, <1>3, <1>4, <1>6 DEF TypeOK, Labels, Errors, Waiting, Busy
<1>8. HeldInv'
  <2> SUFFICES ASSUME NEW q \in Callers
               PROVE  Held(q)'
    BY DEF HeldInv
  <2>1. Held(q)
    BY <1>2 DEF HeldInv
  <2>2. CASE q # p
    BY <1>2, <1>3, <1>4, <2>1, <2>2 DEF Held
  <2>3. CASE q = p
    BY <1>2, <1>3, <1>5, <2>1, <2>3 DEF Held, Busy, Waiting, Leasing
  <2> QED
    BY <2>2, <2>3
<1>9. PinInv'
  <2>1. \A q \in Callers : Opening(q)' => Opening(q)
    BY <1>2, <1>3 DEF Opening, Busy
  <2> QED
    BY <1>2, <2>1 DEF PinInv
<1>10. Exclusive'
  <2>1. \A h \in Callers \cup {Pin} : lent[h] # Nobody => lent[h] \in Conns /\ conn[lent[h]] # "closed"
    BY <1>2 DEF Exclusive, TypeOK
  <2>2. \A h \in Callers \cup {Pin} : lent[h] # Nobody => conn'[lent[h]] # "closed"
    BY <1>6, <2>1
  <2> QED
    BY <1>2, <2>2 DEF Exclusive
<1>11. OwnFailures'
  <2> SUFFICES ASSUME NEW q \in Callers, pc'[q] \in Busy, op[q] \in Leasing, conn'[lent[q]] = "broken"
               PROVE  broke'[q] # "none"
    BY <1>2 DEF OwnFailures
  <2>1. CASE q = p
    BY <1>2, <1>5, <1>6, <2>1 DEF OwnFailures
  <2>2. CASE q # p
    <3>1. pc[q] \in Busy /\ lent[q] # Conn(p) /\ lent[q] \in Conns
      BY <1>2, <1>3, <1>5, <2>2 DEF HeldInv, Held, TypeOK
    <3> QED
      BY <1>2, <1>6, <2>2, <3>1 DEF OwnFailures
  <2> QED
    BY <2>1, <2>2
<1> QED
  BY <1>7, <1>8, <1>9, <1>10, <1>11 DEF IInv

(* An exported method is called.                                           *)
LEMMA BeginStep ==
  ASSUME IInv, NEW p \in Callers, layout' = layout,
         NEW o \in Operations, NEW f \in Functions, NEW s \in {"absent", "value", "null"}, Begin(p, o, f, s)
  PROVE  IInv'
<1>1. /\ TypeOK /\ HeldInv /\ PinInv /\ Exclusive /\ OwnFailures
      /\ lent' = lent /\ conn' = conn /\ err' = err /\ broke' = broke /\ mu' = mu /\ pc[p] = "out"
      /\ op' = [op EXCEPT ![p] = o] /\ fn' = [fn EXCEPT ![p] = f]
  BY DEF Begin, IInv
<1>2. PICK l \in {"acquire", "lock"} :
        /\ Goto(p, l)
        /\ l = "lock" => o \in OnSession /\ pinned' = pinned
        /\ l = "acquire" => o \in (Leasing \cup {"Pin"}) \ {"Session.DescribeTool"}
        /\ IF o = "Pin" THEN pinned \in {"none", "done"} /\ pinned' = "opening" ELSE pinned' = pinned
  BY ZenonT(30) DEF Begin, Operations, OnSession, Leasing
<1>3. pc' \in [Callers -> Labels] /\ pc'[p] = l /\ \A q \in Callers : q # p => pc'[q] = pc[q]
  BY <1>1, <1>2, GotoFacts DEF Labels, Waiting
<1>4. op' \in [Callers -> Operations] /\ op'[p] = o /\ \A q \in Callers : q # p => op'[q] = op[q]
  BY <1>1 DEF TypeOK
<1>5. TypeOK'
  <2>1. fn' \in [Callers -> Functions \cup {SomeFunction}] /\ \A q \in Callers : pc'[q] # "out" => fn'[q] \in Functions
    BY <1>1, <1>3 DEF TypeOK
  <2> QED
    BY <1>1, <1>3, <1>4, <2>1 DEF TypeOK, Labels
<1>6. lent[p] = Nobody
  BY <1>1 DEF HeldInv, Held, Waiting
<1>7. HeldInv'
  <2> SUFFICES ASSUME NEW q \in Callers
               PROVE  Held(q)'
    BY DEF HeldInv
  <2>1. Held(q)
    BY <1>1 DEF HeldInv
  <2>2. CASE q # p
    BY <1>1, <1>3, <1>4, <2>1, <2>2 DEF Held
  <2>3. CASE q = p
    BY <1>1, <1>2, <1>3, <1>4, <1>6, <2>3 DEF Held, Busy, Waiting
  <2> QED
    BY <2>2, <2>3
<1>8. PinInv'
  <2>1. \A q \in Callers : Opening(q)' => Opening(q) \/ (q = p /\ o = "Pin")
    BY <1>3, <1>4 DEF Opening
  <2>2. \A q \in Callers : Opening(q) => pinned = "opening"
    BY <1>1 DEF PinInv
  <2> QED
    BY <1>1, <1>2, <2>1, <2>2 DEF PinInv
<1>9. Exclusive'
  BY <1>1 DEF Exclusive
<1>10. OwnFailures'
  BY <1>1, <1>2, <1>3, <1>4 DEF OwnFailures, Busy
<1> QED
  BY <1>5, <1>7, <1>8, <1>9, <1>10 DEF IInv

(* pool.Acquire returns an error.                                          *)
LEMMA RefusedStep ==
  ASSUME IInv, NEW p \in Callers, layout' = layout, RefuseClosed(p) \/ AcquireFails(p)
  PROVE  IInv'
<1>1. /\ TypeOK /\ HeldInv /\ PinInv /\ Exclusive /\ OwnFailures
      /\ lent' = lent /\ conn' = conn /\ broke' = broke /\ mu' = mu /\ pc[p] = "acquire" /\ op' = op /\ fn' = fn
      /\ Goto(p, "return") /\ pinned' = IF op[p] = "Pin" THEN "none" ELSE pinned
  BY DEF RefuseClosed, AcquireFails, Fail, IInv
<1>2. PICK e \in {"ErrClosed", "Acquire"} : err' = [err EXCEPT ![p] = e]
  BY DEF RefuseClosed, AcquireFails, Fail
<1>3. pc' \in [Callers -> Labels] /\ pc'[p] = "return" /\ \A q \in Callers : q # p => pc'[q] = pc[q]
  BY <1>1, GotoFacts DEF Labels
<1>4. err' \in [Callers -> Errors] /\ err'[p] = e /\ \A q \in Callers : q # p => err'[q] = err[q]
  BY <1>1, <1>2 DEF TypeOK, Errors
<1>5. TypeOK'
  BY <1>1, <1>3, <1>4 DEF TypeOK, Labels, Errors
<1>6. HeldInv'
  <2> SUFFICES ASSUME NEW q \in Callers
               PROVE  Held(q)'
    BY DEF HeldInv
  <2>1. Held(q)
    BY <1>1 DEF HeldInv
  <2>2. CASE q # p
    BY <1>1, <1>3, <1>4, <2>1, <2>2 DEF Held
  <2>3. CASE q = p
    BY <1>1, <1>2, <1>3, <1>4, <2>1, <2>3 DEF Held, Busy, Waiting, Leasing
  <2> QED
    BY <2>2, <2>3
<1>7. PinInv'
  <2>1. \A q \in Callers : Opening(q)' => Opening(q) /\ q # p
    BY <1>1, <1>3 DEF Opening
  <2>2. op[p] = "Pin" => Opening(p)
    BY <1>1 DEF Opening
  <2> QED
    BY <1>1, <2>1, <2>2 DEF PinInv
<1>8. Exclusive'
  BY <1>1 DEF Exclusive
<1>9. OwnFailures'
  BY <1>1, <1>3 DEF OwnFailures, Busy
<1> QED
  BY <1>5, <1>6, <1>7, <1>8, <1>9 DEF IInv

(* A method of the Session gets Session.mu.                                *)
LEMMA LockStep ==
  ASSUME IInv, NEW p \in Callers, layout' = layout, Lock(p)
  PROVE  IInv'
<1>1. /\ TypeOK /\ HeldInv /\ PinInv /\ Exclusive /\ OwnFailures
      /\ lent' = lent /\ conn' = conn /\ broke' = broke /\ mu = Nobody /\ mu' = p /\ pc[p] = "lock"
      /\ op' = op /\ fn' = fn /\ pinned' = pinned
  BY DEF Lock, IInv
<1>2. op[p] \in OnSession /\ lent[p] = Nobody
  BY <1>1 DEF HeldInv, Held, Waiting
<1>3. PICK l \in {"return", "iface", "acquire"}, e \in {"nil", "ErrClosed", err[p]} :
        /\ Goto(p, l) /\ err' = [err EXCEPT ![p] = e]
        /\ l = "iface" => op[p] = "Session.Call" /\ lent[Pin] # Nobody
        /\ l = "acquire" => op[p] = "Session.DescribeTool"
        /\ l = "return" /\ op[p] = "Session.Call" => e \in {"nil", "ErrClosed"}
  <2>1. err = [err EXCEPT ![p] = err[p]]
    BY <1>1 DEF TypeOK
  <2> QED
    BY <1>2, <2>1 DEF Lock, Fail, OnSession
<1>4. pc' \in [Callers -> Labels] /\ pc'[p] = l /\ \A q \in Callers : q # p => pc'[q] = pc[q]
  BY <1>1, <1>3, GotoFacts DEF Labels, Waiting, Busy
<1>5. err' \in [Callers -> Errors] /\ err'[p] = e /\ \A q \in Callers : q # p => err'[q] = err[q]
  BY <1>1, <1>3 DEF TypeOK, Errors
<1>6. TypeOK'
  BY <1>1, <1>4, <1>5 DEF TypeOK, Labels, Errors
<1>7. HeldInv'
  <2> SUFFICES ASSUME NEW q \in Callers
               PROVE  Held(q)'
    BY DEF HeldInv
  <2>1. Held(q) /\ mu # q
    BY <1>1, ClientAssumption DEF HeldInv
  <2>2. CASE q # p
    BY <1>1, <1>4, <1>5, <2>1, <2>2 DEF Held
  <2>3. CASE q = p
    BY <1>1, <1>2, <1>3, <1>4, <1>5, <2>3 DEF Held, Busy, Waiting, Leasing, OnSession
  <2> QED
    BY <2>2, <2>3
<1>8. PinInv'
  <2>1. \A q \in Callers : Opening(q)' => Opening(q)
    BY <1>1, <1>2, <1>4 DEF Opening, OnSession
  <2> QED
    BY <1>1, <2>1 DEF PinInv
<1>9. Exclusive'
  BY <1>1 DEF Exclusive
<1>10. OwnFailures'
  BY <1>1, <1>3, <1>4 DEF OwnFailures, Busy, Leasing
<1> QED
  BY <1>6, <1>7, <1>8, <1>9, <1>10 DEF IInv

(* What the deferred calls leave.                                          *)
LEMMA ReturnedFacts ==
  ASSUME TypeOK, NEW p \in Callers, Returned(p)
  PROVE  /\ pc' \in [Callers -> Labels] /\ op' \in [Callers -> Operations] /\ err' \in [Callers -> Errors]
         /\ broke' \in [Callers -> Requests \cup {"none"}]
         /\ fn' \in [Callers -> Functions \cup {SomeFunction}]
         /\ pc'[p] = "out" /\ op'[p] = "Call" /\ err'[p] = "nil"
         /\ \A q \in Callers : q # p =>
              pc'[q] = pc[q] /\ op'[q] = op[q] /\ err'[q] = err[q] /\ broke'[q] = broke[q] /\ fn'[q] = fn[q]
<1>1. /\ pc' = [pc EXCEPT ![p] = "out"] /\ op' = [op EXCEPT ![p] = "Call"] /\ err' = [err EXCEPT ![p] = "nil"]
      /\ broke' = [broke EXCEPT ![p] = "none"] /\ fn' = [fn EXCEPT ![p] = SomeFunction]
  BY DEF Returned, Goto
<1>2. /\ pc \in [Callers -> Labels] /\ op \in [Callers -> Operations] /\ err \in [Callers -> Errors]
      /\ broke \in [Callers -> Requests \cup {"none"}] /\ fn \in [Callers -> Functions \cup {SomeFunction}]
  BY DEF TypeOK, Labels, Errors
<1>3. "out" \in Labels /\ "Call" \in Operations /\ "nil" \in Errors
  BY DEF Labels, Waiting, Operations, Errors
<1> QED
  BY <1>1, <1>2, <1>3

(* A lease that is taken: by p, or by the Session that p opens.            *)
LEMMA LentFacts ==
  ASSUME IInv, NEW p \in Callers, NEW h \in {p, Pin}, NEW c \in Conns,
         Pool!Lend(h, c), conn' = [conn EXCEPT ![c] = "ready"]
  PROVE  /\ lent' \in [Callers \cup {Pin} -> Conns \cup {Nobody}]
         /\ conn' \in [Conns -> {"ready", "broken", "closed"}]
         /\ lent'[h] = c /\ c # Nobody /\ conn'[c] = "ready"
         /\ \A k \in Callers \cup {Pin} : k # h => lent'[k] = lent[k] /\ lent[k] # c
         /\ \A d \in Conns : d # c => conn'[d] = conn[d]
         /\ Exclusive'
<1>1. /\ \A k \in Callers \cup {Pin} : lent[k] # c
      /\ lent' = [lent EXCEPT ![h] = c]
  BY DEF Pool!Lend, Pool!Available
<1>2. TypeOK /\ Exclusive /\ c # Nobody
  BY ClientAssumption DEF IInv
<1>3. /\ lent' \in [Callers \cup {Pin} -> Conns \cup {Nobody}]
      /\ conn' \in [Conns -> {"ready", "broken", "closed"}]
      /\ lent'[h] = c /\ conn'[c] = "ready"
      /\ \A k \in Callers \cup {Pin} : k # h => lent'[k] = lent[k] /\ lent[k] # c
      /\ \A d \in Conns : d # c => conn'[d] = conn[d]
  BY <1>1, <1>2 DEF TypeOK
<1>4. \A k \in Callers \cup {Pin} : lent[k] # Nobody => lent[k] \in Conns
  BY <1>2 DEF TypeOK
<1> QED
  BY <1>2, <1>3, <1>4 DEF Exclusive

(* pool.Acquire returns a lease, to p or to the Session that p opens.      *)
LEMMA AcquireStep ==
  ASSUME IInv, NEW p \in Callers, layout' = layout, Acquire(p)
  PROVE  IInv'
<1>1. /\ TypeOK /\ HeldInv /\ PinInv /\ Exclusive /\ OwnFailures
      /\ mu' = mu /\ pc[p] = "acquire"
  BY DEF Acquire, IInv
<1>2. op[p] \in Leasing \cup {"Pin"}
  BY <1>1 DEF HeldInv, Held
<1> DEFINE h == IF op[p] = "Pin" THEN Pin ELSE p
<1>3. PICK c \in Conns : Pool!Lend(h, c) /\ conn' = [conn EXCEPT ![c] = "ready"]
  BY ZenonT(30) DEF Acquire, Lent
<1>4. h \in {p, Pin}
  OBVIOUS
<1>5. /\ lent' \in [Callers \cup {Pin} -> Conns \cup {Nobody}]
      /\ conn' \in [Conns -> {"ready", "broken", "closed"}]
      /\ lent'[h] = c /\ c # Nobody /\ conn'[c] = "ready"
      /\ \A k \in Callers \cup {Pin} : k # h => lent'[k] = lent[k] /\ lent[k] # c
      /\ \A d \in Conns : d # c => conn'[d] = conn[d]
      /\ Exclusive'
  <2> HIDE DEF h
  <2> QED
    BY <1>3, <1>4, LentFacts, ZenonT(30)
<1>6. \A k \in Callers \cup {Pin} : lent[k] # Nobody => lent[k] \in Conns
  BY <1>1 DEF TypeOK
<1>7. \A q \in Callers : pc[q] \in Busy /\ op[q] \in Leasing /\ q # h /\ conn'[lent'[q]] = "broken" => broke[q] # "none"
  <2> SUFFICES ASSUME NEW q \in Callers, pc[q] \in Busy, op[q] \in Leasing, q # h, conn'[lent'[q]] = "broken"
               PROVE  broke[q] # "none"
    OBVIOUS
  <2>1. lent[q] # Nobody
    BY <1>1 DEF HeldInv, Held
  <2>2. lent'[q] = lent[q] /\ lent[q] # c /\ lent[q] \in Conns
    <3> HIDE DEF h
    <3> QED
      BY <1>5, <1>6, <2>1, ZenonT(30)
  <2>3. conn[lent[q]] = "broken"
    BY <1>5, <2>2, ZenonT(30)
  <2> QED
    BY <1>1, <2>3, ZenonT(30) DEF OwnFailures
<1>8. CASE op[p] = "Pin"
  <2>1. Returned(p) /\ pinned' = "open" /\ h = Pin /\ Pin \notin Callers
    BY <1>8, ClientAssumption DEF Acquire
  <2>2. /\ pc' \in [Callers -> Labels] /\ op' \in [Callers -> Operations] /\ err' \in [Callers -> Errors]
        /\ broke' \in [Callers -> Requests \cup {"none"}] /\ fn' \in [Callers -> Functions \cup {SomeFunction}]
        /\ pc'[p] = "out"
        /\ \A q \in Callers : q # p =>
             pc'[q] = pc[q] /\ op'[q] = op[q] /\ err'[q] = err[q] /\ broke'[q] = broke[q] /\ fn'[q] = fn[q]
    BY <1>1, <2>1, ReturnedFacts
  <2>3. /\ lent'[Pin] # Nobody /\ "out" \notin Busy
        /\ \A q \in Callers : lent'[q] = lent[q]
    <3>1. lent'[Pin] # Nobody /\ \A q \in Callers : lent'[q] = lent[q]
      BY <1>5, <2>1, ZenonT(30)
    <3> QED
      BY <3>1 DEF Busy
  <2>4. TypeOK'
    <3>1. \A q \in Callers : pc'[q] # "out" => fn'[q] \in Functions
      BY <1>1, <2>2, ZenonT(30) DEF TypeOK
    <3> QED
      BY <1>1, <1>5, <2>2, <3>1, ZenonT(30) DEF TypeOK
  <2>5. HeldInv'
    <3> SUFFICES ASSUME NEW q \in Callers
                 PROVE  Held(q)'
      BY DEF HeldInv
    <3>1. Held(q) /\ mu' = mu /\ lent'[q] = lent[q]
      BY <1>1, <2>3, ZenonT(30) DEF HeldInv
    <3>2. CASE q # p
      BY <2>2, <2>3, <3>1, <3>2 DEF Held
    <3>3. lent[p] = Nobody
      BY <1>1 DEF HeldInv, Held, Waiting
    <3>4. CASE q = p
      BY <2>2, <2>3, <3>3, <3>4 DEF Held
    <3> QED
      BY <3>2, <3>4
  <2>6. PinInv'
    <3>1. Opening(p) /\ \A q \in Callers : Opening(q)' => Opening(q) /\ q # p
      BY <1>1, <1>8, <2>2, ZenonT(30) DEF Opening
    <3>2. \A q \in Callers : ~Opening(q)'
      BY <1>1, <3>1, ZenonT(30) DEF PinInv
    <3> QED
      BY <2>1, <2>3, <3>2, ZenonT(30) DEF PinInv
  <2>7. OwnFailures'
    <3> SUFFICES ASSUME NEW q \in Callers, pc'[q] \in Busy, op'[q] \in Leasing, conn'[lent'[q]] = "broken"
                 PROVE  broke'[q] # "none"
      BY DEF OwnFailures
    <3>1. q # p /\ q # h
      BY <2>1, <2>2, <2>3
    <3> HIDE DEF h
    <3> QED
      BY <1>7, <2>2, <3>1, ZenonT(30)
  <2> QED
    BY <1>5, <2>4, <2>5, <2>6, <2>7 DEF IInv
<1>9. CASE op[p] # "Pin"
  <2>1. /\ \E l \in {"lookup", "iface"} : Goto(p, l)
        /\ UNCHANGED <<op, fn, err, broke, pinned>> /\ h = p /\ Pin \notin Callers /\ op[p] \in Leasing
    BY <1>2, <1>9, ClientAssumption DEF Acquire
  <2>2. pc' \in [Callers -> Labels] /\ pc'[p] \in Busy /\ \A q \in Callers : q # p => pc'[q] = pc[q]
    <3> PICK l \in {"lookup", "iface"} : Goto(p, l)
      BY <2>1
    <3> QED
      BY <1>1, GotoFacts DEF Labels, Busy
  <2>3. /\ lent'[Pin] = lent[Pin] /\ lent'[p] # Nobody /\ conn'[lent'[p]] # "broken"
        /\ \A q \in Callers : q # p => lent'[q] = lent[q]
    BY <1>5, <2>1, ZenonT(30)
  <2>4. TypeOK'
    <3>1. fn[p] \in Functions
      BY <1>1 DEF TypeOK
    <3>2. \A q \in Callers : pc'[q] # "out" => fn'[q] \in Functions
      BY <1>1, <2>1, <2>2, <3>1, ZenonT(30) DEF TypeOK
    <3> QED
      BY <1>1, <1>5, <2>1, <2>2, <3>2, ZenonT(30) DEF TypeOK
  <2>5. HeldInv'
    <3> SUFFICES ASSUME NEW q \in Callers
                 PROVE  Held(q)'
      BY DEF HeldInv
    <3>1. Held(q) /\ op' = op /\ err' = err /\ mu' = mu
      BY <1>1, <2>1, ZenonT(30) DEF HeldInv
    <3>2. CASE q # p
      BY <2>2, <2>3, <3>1, <3>2, ZenonT(30) DEF Held
    <3>3. op[p] \in Leasing
      BY <2>1
    <3>4. CASE q = p
      BY <2>2, <2>3, <3>1, <3>3, <3>4 DEF Held, Busy, Waiting, Leasing
    <3> QED
      BY <3>2, <3>4
  <2>6. PinInv'
    <3>1. \A q \in Callers : Opening(q)' => Opening(q)
      BY <2>1, <2>2 DEF Opening, Leasing
    <3>2. PinInv /\ pinned' = pinned /\ lent'[Pin] = lent[Pin]
      BY <1>1, <2>1, <2>3, ZenonT(30)
    <3> QED
      BY <3>1, <3>2, ZenonT(30) DEF PinInv
  <2>7. OwnFailures'
    BY <1>7, <2>1, <2>2, <2>3, ZenonT(30) DEF OwnFailures
  <2> QED
    BY <1>5, <2>4, <2>5, <2>6, <2>7 DEF IInv
<1> QED
  BY <1>8, <1>9

(* Finish gives back nothing, p's own lease or, under Session.mu, the      *)
(* Session's.                                                              *)
GivesBack(p, h) ==
  /\ lent[h] # Nobody /\ lent' = [lent EXCEPT ![h] = Nobody]
  /\ \E s \in {"closed", conn[lent[h]]} : conn' = [conn EXCEPT ![lent[h]] = s]
  /\ pinned' = IF h = Pin THEN "done" ELSE pinned
  /\ h = Pin => mu = p

(* The three ways in which the deferred calls can go, by what Held says of *)
(* an operation that returns.                                              *)
LEMMA FinishFacts ==
  ASSUME IInv, NEW p \in Callers, pc[p] = "return", Finish(p)
  PROVE  \/ UNCHANGED <<lent, conn, pinned>> /\ lent[p] = Nobody
         \/ GivesBack(p, Pin) /\ lent[p] = Nobody
         \/ GivesBack(p, p)
<1>1. HeldInv /\ Held(p) /\ p # Pin
  BY ClientAssumption DEF IInv, HeldInv
<1>2. \A h, d : GiveBack(h, d) =>
        /\ lent[h] # Nobody /\ lent' = [lent EXCEPT ![h] = Nobody]
        /\ \E s \in {"closed", conn[lent[h]]} : conn' = [conn EXCEPT ![lent[h]] = s]
  BY ZenonT(30) DEF GiveBack, Pool!Return
<1>3. CASE op[p] \in {"Session.Call", "Session.Close"}
  <2>1. mu = p /\ lent[p] = Nobody
    BY <1>1, <1>3 DEF Held, Leasing
  <2>2. UNCHANGED <<lent, conn, pinned>> \/ (GiveBack(Pin, op[p] = "Session.Call") /\ pinned' = "done")
    BY <1>3 DEF Finish
  <2> QED
    BY <1>2, <2>1, <2>2, ZenonT(30) DEF GivesBack
<1>4. CASE op[p] \notin {"Session.Call", "Session.Close"}
  <2>1. \/ UNCHANGED <<lent, conn, pinned>> /\ lent[p] = Nobody
        \/ GiveBack(p, op[p] = "Call" /\ err[p] = "ErrTransport") /\ pinned' = pinned
    BY <1>4 DEF Finish
  <2> QED
    BY <1>1, <1>2, <2>1, ZenonT(30) DEF GivesBack
<1> QED
  BY <1>3, <1>4

(* A lease that is given back.                                             *)
LEMMA GivenFacts ==
  ASSUME IInv, NEW p \in Callers, NEW h \in {p, Pin}, GivesBack(p, h)
  PROVE  /\ lent' \in [Callers \cup {Pin} -> Conns \cup {Nobody}]
         /\ conn' \in [Conns -> {"ready", "broken", "closed"}]
         /\ lent'[h] = Nobody /\ lent[h] # Nobody
         /\ \A k \in Callers \cup {Pin} : k # h => lent'[k] = lent[k]
         /\ \A k \in Callers \cup {Pin} : k # h /\ lent[k] # Nobody => conn'[lent[k]] = conn[lent[k]]
         /\ Exclusive'
<1>1. TypeOK /\ Exclusive
  BY DEF IInv
<1>2. PICK s \in {"closed", conn[lent[h]]} : conn' = [conn EXCEPT ![lent[h]] = s]
  BY ZenonT(30) DEF GivesBack
<1>3. lent[h] # Nobody /\ lent' = [lent EXCEPT ![h] = Nobody] /\ h \in Callers \cup {Pin}
  BY DEF GivesBack
<1>4. lent[h] \in Conns /\ \A k \in Callers \cup {Pin} : lent[k] # Nobody => lent[k] \in Conns
  BY <1>1, <1>3 DEF TypeOK
<1>5. /\ lent' \in [Callers \cup {Pin} -> Conns \cup {Nobody}]
      /\ conn' \in [Conns -> {"ready", "broken", "closed"}]
      /\ lent'[h] = Nobody
      /\ \A k \in Callers \cup {Pin} : k # h => lent'[k] = lent[k]
      /\ \A d \in Conns : d # lent[h] => conn'[d] = conn[d]
  BY <1>1, <1>2, <1>3, <1>4 DEF TypeOK
<1>6. \A k \in Callers \cup {Pin} : k # h /\ lent[k] # Nobody => conn'[lent[k]] = conn[lent[k]]
  BY <1>1, <1>3, <1>4, <1>5 DEF Exclusive
<1> QED
  BY <1>1, <1>3, <1>5, <1>6 DEF Exclusive

(* The deferred calls run and the operation returns.                       *)
LEMMA ReturnStep ==
  ASSUME IInv, NEW p \in Callers, layout' = layout, Return(p)
  PROVE  IInv'
<1>1. /\ TypeOK /\ HeldInv /\ PinInv /\ Exclusive /\ OwnFailures
      /\ pc[p] = "return" /\ Returned(p) /\ Finish(p) /\ mu' = IF mu = p THEN Nobody ELSE mu
  BY DEF Return, IInv
<1>2. /\ pc' \in [Callers -> Labels] /\ op' \in [Callers -> Operations] /\ err' \in [Callers -> Errors]
      /\ broke' \in [Callers -> Requests \cup {"none"}] /\ fn' \in [Callers -> Functions \cup {SomeFunction}]
      /\ pc'[p] = "out"
      /\ \A q \in Callers : q # p =>
           pc'[q] = pc[q] /\ op'[q] = op[q] /\ err'[q] = err[q] /\ broke'[q] = broke[q] /\ fn'[q] = fn[q]
  BY <1>1, ReturnedFacts
<1>3. Pin \notin Callers
  BY ClientAssumption
<1>4. /\ lent' \in [Callers \cup {Pin} -> Conns \cup {Nobody}]
      /\ conn' \in [Conns -> {"ready", "broken", "closed"}]
      /\ lent'[p] = Nobody
      /\ \A q \in Callers : q # p => lent'[q] = lent[q] /\ (lent[q] # Nobody => conn'[lent[q]] = conn[lent[q]])
      /\ \/ lent'[Pin] = lent[Pin] /\ pinned' = pinned
         \/ mu = p /\ lent[Pin] # Nobody /\ lent'[Pin] = Nobody /\ pinned' = "done"
      /\ Exclusive'
  <2>1. CASE UNCHANGED <<lent, conn, pinned>> /\ lent[p] = Nobody
    BY <1>1, <2>1 DEF TypeOK, Exclusive
  <2>2. CASE GivesBack(p, Pin) /\ lent[p] = Nobody
    <3>1. mu = p /\ pinned' = "done"
      BY <2>2 DEF GivesBack
    <3> QED
      BY <1>3, <2>2, <3>1, GivenFacts
  <2>3. CASE GivesBack(p, p)
    <3>1. pinned' = pinned
      BY <1>3, <2>3 DEF GivesBack
    <3> QED
      BY <1>3, <2>3, <3>1, GivenFacts
  <2> QED
    BY <1>1, <2>1, <2>2, <2>3, FinishFacts
<1>5. TypeOK'
  BY <1>1, <1>2, <1>4 DEF TypeOK, Labels, Errors
<1>6. \A q \in Callers : q # p =>
        /\ pc'[q] = pc[q] /\ op'[q] = op[q] /\ err'[q] = err[q] /\ broke'[q] = broke[q] /\ lent'[q] = lent[q]
        /\ lent[q] # Nobody => conn'[lent[q]] = conn[lent[q]]
        /\ mu = q => mu' = q /\ lent'[Pin] = lent[Pin]
  <2>1. \A q \in Callers : q # p /\ mu = q => mu' = q /\ lent'[Pin] = lent[Pin]
    BY <1>1, <1>4, ZenonT(30)
  <2> QED
    BY <1>2, <1>4, <2>1, ZenonT(30)
<1>7. pc'[p] = "out" /\ lent'[p] = Nobody /\ "out" \notin Busy
  BY <1>2, <1>4 DEF Busy
<1>8. HeldInv'
  <2> SUFFICES ASSUME NEW q \in Callers
               PROVE  Held(q)'
    BY DEF HeldInv
  <2>1. Held(q)
    BY <1>1 DEF HeldInv
  <2>2. CASE q # p
    BY <1>6, <2>1, <2>2, ZenonT(30) DEF Held
  <2>3. CASE q = p
    BY <1>7, <2>3 DEF Held
  <2> QED
    BY <2>2, <2>3
<1>9. PinInv'
  <2>1. \A q \in Callers : Opening(q)' => Opening(q)
    BY <1>6, <1>7 DEF Opening
  <2>2. \/ lent'[Pin] = lent[Pin] /\ pinned' = pinned
        \/ lent[Pin] # Nobody /\ lent'[Pin] = Nobody /\ pinned' = "done"
    BY <1>4
  <2>3. PinInv
    BY <1>1
  <2> QED
    BY <2>1, <2>2, <2>3 DEF PinInv
<1>10. OwnFailures'
  <2> SUFFICES ASSUME NEW q \in Callers, pc'[q] \in Busy, op'[q] \in Leasing, conn'[lent'[q]] = "broken"
               PROVE  broke'[q] # "none"
    BY DEF OwnFailures
  <2>1. q # p
    BY <1>7
  <2>2. pc[q] \in Busy /\ op[q] \in Leasing
    BY <1>6, <2>1
  <2>3. lent[q] # Nobody
    BY <1>1, <2>2 DEF HeldInv, Held
  <2>4. conn[lent[q]] = "broken" /\ broke'[q] = broke[q]
    BY <1>6, <2>1, <2>3
  <2> QED
    BY <1>1, <2>2, <2>4, ZenonT(30) DEF OwnFailures
<1> QED
  BY <1>4, <1>5, <1>8, <1>9, <1>10 DEF IInv

(* Client.Close closes no connection that is leased.                       *)
LEMMA CloseStep ==
  ASSUME IInv, layout' = layout, Close
  PROVE  IInv'
<1>1. /\ TypeOK /\ HeldInv /\ PinInv /\ Exclusive /\ OwnFailures
      /\ UNCHANGED <<lent, pc, op, fn, err, broke, pinned, mu>>
      /\ conn' = [c \in Conns |-> IF Pool!Available(c) THEN "closed" ELSE conn[c]]
  BY DEF Close, callVars, IInv
<1>2. conn' \in [Conns -> {"ready", "broken", "closed"}]
  BY <1>1 DEF TypeOK
<1>3. \A h \in Callers \cup {Pin} : lent[h] # Nobody => lent[h] \in Conns /\ conn'[lent[h]] = conn[lent[h]]
  BY <1>1 DEF TypeOK, Pool!Available
<1>4. TypeOK'
  BY <1>1, <1>2 DEF TypeOK
<1>5. HeldInv'
  BY <1>1 DEF HeldInv, Held
<1>6. PinInv'
  BY <1>1 DEF PinInv, Opening
<1>7. Exclusive'
  BY <1>1, <1>3 DEF Exclusive
<1>8. OwnFailures'
  <2>1. \A q \in Callers : pc[q] \in Busy /\ op[q] \in Leasing => lent[q] # Nobody
    BY <1>1 DEF HeldInv, Held
  <2> QED
    BY <1>1, <1>3, <2>1 DEF OwnFailures
<1> QED
  BY <1>4, <1>5, <1>6, <1>7, <1>8 DEF IInv

-------------------------------------------------------------------------------
(* Theorems.                                                               *)

(* A client that has not been used.                                        *)
LEMMA InitInv == Init => IInv
<1> SUFFICES ASSUME Init
             PROVE  IInv
  OBVIOUS
<1>1. /\ lent = [h \in Callers \cup {Pin} |-> Nobody] /\ pinned = "none" /\ mu = Nobody
      /\ pc = [p \in Callers |-> "out"] /\ op = [p \in Callers |-> "Call"]
      /\ err = [p \in Callers |-> "nil"] /\ broke = [p \in Callers |-> "none"]
      /\ fn = [p \in Callers |-> SomeFunction]
  BY DEF Init, Pool!Init, SomeFunction
<1>2. layout \in [Functions -> Kinds] /\ conn = [c \in Conns |-> "closed"]
  BY DEF Init
<1>3. TypeOK
  BY <1>1, <1>2 DEF TypeOK, Labels, Errors, Waiting, Operations
<1>4. HeldInv
  BY <1>1 DEF HeldInv, Held, Waiting, Busy
<1>5. PinInv /\ Exclusive
  BY <1>1 DEF PinInv, Opening, Exclusive
<1>6. OwnFailures
  BY <1>1 DEF OwnFailures, Busy
<1> QED
  BY <1>3, <1>4, <1>5, <1>6 DEF IInv

(* Every step of every caller, and Close, keep the invariant.              *)
LEMMA NextInv == IInv /\ [Next /\ UNCHANGED layout]_<<vars, layout>> => IInv'
<1> SUFFICES ASSUME IInv, [Next /\ UNCHANGED layout]_<<vars, layout>>
             PROVE  IInv'
  OBVIOUS
<1>1. CASE UNCHANGED <<vars, layout>>
  BY <1>1 DEF vars, callVars, IInv, TypeOK, HeldInv, Held, PinInv, Opening, Exclusive, OwnFailures
<1>2. CASE Close /\ layout' = layout
  BY <1>2, CloseStep
<1>3. ASSUME NEW p \in Callers, Step(p), layout' = layout
      PROVE  IInv'
  <2>1. CASE RefuseClosed(p) \/ AcquireFails(p)
    BY <1>3, <2>1, RefusedStep
  <2>2. CASE Acquire(p)
    BY <1>3, <2>2, AcquireStep
  <2>3. CASE Lock(p)
    BY <1>3, <2>3, LockStep
  <2>4. CASE Return(p)
    BY <1>3, <2>4, ReturnStep
  <2>5. CASE ~(RefuseClosed(p) \/ AcquireFails(p) \/ Acquire(p) \/ Lock(p) \/ Return(p))
    <3>1. TypeOK
      BY DEF IInv
    <3>2. Works(p)
      BY <1>3, <2>5, <3>1, WorkFacts DEF Step
    <3> QED
      BY <1>3, <3>2, WorksStep
  <2> QED
    BY <2>1, <2>2, <2>3, <2>4, <2>5
<1>4. ASSUME NEW p \in Callers, NEW o \in Operations, NEW f \in Functions,
             NEW s \in {"absent", "value", "null"}, Begin(p, o, f, s), layout' = layout
      PROVE  IInv'
  BY <1>4, BeginStep
<1> QED
  BY <1>1, <1>2, <1>3, <1>4, ZenonT(30) DEF Next

(* The invariant holds of every client.                                    *)
THEOREM ClientInvariant == Spec => []IInv
<1> QED
  BY InitInv, NextInv, PTL DEF Spec

(* Every operation of Client and Session gives back what it acquired, none *)
(* works on a lease it no longer has, the Session has a lease exactly      *)
(* while it is open, and no two goroutines are on one connection.          *)
THEOREM LeasesBalance == Spec => []LeasesAreAccountedFor
<1>1. IInv => LeasesAreAccountedFor
  <2> SUFFICES ASSUME IInv
               PROVE  LeasesAreAccountedFor
    OBVIOUS
  <2>1. TypeOK /\ HeldInv /\ PinInv /\ Exclusive /\ Pin \notin Callers
    BY ClientAssumption DEF IInv
  <2>2. \A p \in Callers : Working(p) => pc[p] \in Busy
    BY <2>1 DEF Working, TypeOK, Labels, Waiting
  <2>3. \A p \in Callers : pc[p] \in Waiting => lent[p] = Nobody
    BY <2>1 DEF HeldInv, Held
  <2>4. ASSUME NEW p \in Callers, Working(p)
        PROVE  /\ Holder(p) \in Callers \cup {Pin} /\ Conn(p) = lent[Holder(p)] /\ Conn(p) # Nobody
               /\ Holder(p) = p \/ (Holder(p) = Pin /\ mu = p)
    BY <2>1, <2>2, <2>4 DEF HeldInv, Held, Holder, Conn, Leasing
  <2>5. ASSUME NEW p \in Callers, NEW q \in Callers, Working(p), Working(q), p # q
        PROVE  Conn(p) # Conn(q)
    <3>1. Holder(p) # Holder(q)
      BY <2>1, <2>4, <2>5
    <3> QED
      BY <2>1, <2>4, <2>5, <3>1 DEF Exclusive
  <2> QED
    BY <2>1, <2>3, <2>4, <2>5 DEF LeasesAreAccountedFor, PinInv, Waiting
<1> QED
  BY <1>1, ClientInvariant, PTL

(* An operation on a pooled connection fails for no failure but its own.   *)
THEOREM NoInheritedFailure == Spec => []FailuresAreNotInherited
<1>1. IInv => FailuresAreNotInherited
  <2> SUFFICES ASSUME IInv, NEW p \in Callers, Working(p), op[p] # "Session.Call", conn[Conn(p)] = "broken"
               PROVE  broke[p] # "none"
    BY DEF FailuresAreNotInherited
  <2>1. pc[p] \in Busy
    BY DEF IInv, TypeOK, Labels, Working, Waiting
  <2>2. op[p] \in Leasing /\ Conn(p) = lent[p]
    BY <2>1 DEF IInv, HeldInv, Held, Conn, Holder
  <2> QED
    BY <2>1, <2>2 DEF IInv, OwnFailures
<1> QED
  BY <1>1, ClientInvariant, PTL

(* Only the return from an operation takes a caller from "return" to "out". *)
LEMMA OnlyReturn ==
  ASSUME NEW p \in Callers, TypeOK, pc[p] = "return", pc'[p] = "out", Next
  PROVE  Return(p)
<1>1. ~Close
  BY DEF Close, callVars
<1>2. PICK q \in Callers :
        \/ Step(q)
        \/ \E o \in Operations, f \in Functions, s \in {"absent", "value", "null"} : Begin(q, o, f, s)
  BY <1>1 DEF Next
<1>3. \E l : pc' = [pc EXCEPT ![q] = l]
  <2>1. CASE RefuseClosed(q) \/ AcquireFails(q) \/ Acquire(q) \/ Lock(q) \/ Return(q)
    BY <2>1 DEF RefuseClosed, AcquireFails, Acquire, Lock, Return, Fail, Returned, Goto
  <2>2. CASE \E o \in Operations, f \in Functions, s \in {"absent", "value", "null"} : Begin(q, o, f, s)
    BY <2>2, ZenonT(30) DEF Begin, Goto, Operations
  <2>3. CASE ~(RefuseClosed(q) \/ AcquireFails(q) \/ Acquire(q) \/ Lock(q) \/ Return(q)) /\ Step(q)
    <3>1. Works(q)
      BY <2>3, WorkFacts, ZenonT(30) DEF Step
    <3> QED
      BY <3>1, ZenonT(30) DEF Works, Goto
  <2> QED
    BY <1>2, <2>1, <2>2, <2>3
<1>4. q = p
  BY <1>3 DEF TypeOK
<1>5. \A o, f, s : ~Begin(p, o, f, s)
  BY DEF Begin
<1>6. ~(RefuseClosed(p) \/ AcquireFails(p) \/ Acquire(p) \/ Lock(p))
  BY DEF RefuseClosed, AcquireFails, Acquire, Lock
<1>7. ~Works(p)
  BY DEF Works, Busy
<1> QED
  BY <1>2, <1>4, <1>5, <1>6, <1>7, WorkFacts, ZenonT(30) DEF Step

(* Client.Call and Session.Call never return an ErrTransport and leave the *)
(* connection it happened on to anyone: it is closed and its lease ended   *)
(* by the time the caller sees the error.                                  *)
THEOREM BrokenIsDropped == Spec => TransportFailureIsDropped
<1> DEFINE Dropped(p) == pc[p] = "return" /\ pc'[p] = "out" /\ op[p] \in {"Call", "Session.Call"}
                           /\ err[p] = "ErrTransport"
                           => conn'[Conn(p)] = "closed" /\ lent'[Holder(p)] = Nobody
<1>1. IInv /\ [Next /\ UNCHANGED layout]_<<vars, layout>> => [\A p \in Callers : Dropped(p)]_vars
  <2> SUFFICES ASSUME IInv, Next, NEW p \in Callers, pc[p] = "return", pc'[p] = "out",
                      op[p] \in {"Call", "Session.Call"}, err[p] = "ErrTransport"
               PROVE  conn'[Conn(p)] = "closed" /\ lent'[Holder(p)] = Nobody
    BY DEF vars
  <2>1. TypeOK /\ Held(p)
    BY DEF IInv, HeldInv
  <2>2. Finish(p)
    BY <2>1, OnlyReturn DEF Return
  <2>3. lent[Holder(p)] # Nobody /\ Holder(p) \in Callers \cup {Pin}
    BY <2>1 DEF Held, Holder
  <2>4. lent[Holder(p)] \in Conns
    BY <2>1, <2>3 DEF TypeOK
  <2>5. GiveBack(Holder(p), TRUE)
    BY <2>2, <2>3 DEF Finish, Holder, GiveBack
  <2>6. /\ conn' = [conn EXCEPT ![lent[Holder(p)]] = "closed"]
        /\ lent' = [lent EXCEPT ![Holder(p)] = Nobody]
    BY <2>5 DEF GiveBack, Pool!Return
  <2> QED
    BY <2>1, <2>3, <2>4, <2>6 DEF TypeOK, Conn
<1> QED
  BY <1>1, ClientInvariant, PTL DEF Spec, TransportFailureIsDropped

===============================================================================
