---------------------------- MODULE SessionFacts ------------------------------
(***************************************************************************)
(* The inductive invariant of Session, and what each of its steps does to  *)
(* the state that the invariant speaks of.                                 *)
(***************************************************************************)
EXTENDS Session, SequenceFacts

(* A record that carries data of this conversation.                        *)
OursData(rec) == rec.id = Ours /\ rec.part > 0
NoData == \A i \in 1..Len(fromPeer) : ~OursData(fromPeer[i])

Opening == {"dial", "gateway", "initialize", "allocate"}

Records ==
  [fc : {"NormalClient", "Initialize", "SetPartnerLuName", "Allocate", "SapSend", "Receive"},
   rc : {"ok", "dealloc", "error", "short"}, final : BOOLEAN, id : {Ours, "other"},
   part : Nat, of : Nat, what : {"setup", "reply", "rejection", "callback"}, call : Nat]
Requests ==
  [fc : {"NormalClient", "Initialize", "SetPartnerLuName", "Allocate"}, what : {"setup"}, call : Nat]
    \cup [fc : {"SapSend"}, what : {"request", "answer"}, call : Nat]
Peers ==
  [serving : Nat, waiting : BOOLEAN, loggedOn : BOOLEAN, out : Seq(Records),
   callbacks : Nat, pinged : BOOLEAN, strayed : BOOLEAN, up : BOOLEAN]
Operations == [n : 0..MaxCalls, kind : Kinds, large : BOOLEAN]

TypeOK ==
  /\ setup \in SetupStates /\ authenticated \in BOOLEAN /\ closed \in BOOLEAN
  /\ pc \in Opening \cup {"logon", "idle", "awaiting", "callback", "answer", "discard", "closed"}
  /\ op \in Operations /\ ((op.kind = "logon") <=> (op.n = 0))
  /\ pending \in Seq(Records) /\ delivered \in Seq(Records) /\ fromPeer \in Seq(Records)
  /\ toPeer \in Seq(Requests)
  /\ peer \in Peers
  /\ outcome \in [1..MaxCalls -> Nat]

(* The state machine and the place of the goroutine agree.                 *)
PlaceInv ==
  /\ pc \in {"dial", "gateway"} => setup = "new"
  /\ pc = "initialize" => setup = "initialize-pending"
  /\ pc = "allocate" => setup = "allocate-pending"
  /\ pc = "logon" => setup = "ready"
  /\ pc = "awaiting" => setup = "response-pending"
  /\ pc \in {"callback", "answer"} => op.kind = "call"
  /\ pc \in Opening => ~closed

(* A data record of this conversation carries data.                        *)
Shaped(rec) == rec.id = Ours /\ rec.fc \in DataFunctions => rec.part > 0
ShapeInv ==
  /\ \A i \in 1..Len(fromPeer) : Shaped(fromPeer[i])
  /\ \A i \in 1..Len(peer.out) : Shaped(peer.out[i])

(* The handshake: the partner has not been asked for anything else, and    *)
(* the reply to Allocate is its last.                                      *)
OpenInv ==
  pc \in Opening =>
    /\ peer.serving = NoCall /\ ~peer.waiting /\ NoData
    /\ \A i \in 1..Len(toPeer) : toPeer[i].what = "setup"
    /\ \A i \in 1..Len(toPeer) : toPeer[i].fc = "Allocate" => pc = "allocate" /\ i = Len(toPeer)
    /\ Len(peer.out) <= 1
    /\ \A i \in 1..Len(peer.out) : peer.out[i].part = 0
    /\ \A i \in 1..Len(peer.out) : peer.out[i].fc = "Allocate" => pc = "allocate" /\ toPeer = <<>>
    /\ \A i \in 1..Len(fromPeer) :
         fromPeer[i].fc = "Allocate" => pc = "allocate" /\ toPeer = <<>> /\ peer.out = <<>>

(* What is on its way to the partner: the handshake, or one request to a   *)
(* partner that executes nothing, or one answer to its callback.           *)
RequestInv ==
  \/ \A i \in 1..Len(toPeer) : toPeer[i].what = "setup"
  \/ /\ Len(toPeer) = 1
     /\ \/ toPeer[1].what = "request" /\ peer.serving = NoCall /\ ~peer.waiting
        \/ toPeer[1].what = "answer" /\ peer.serving # NoCall /\ peer.waiting

(* While this side may send, nothing is on its way.                        *)
Silent == toPeer = <<>> /\ peer.out = <<>> /\ NoData
ReadyInv ==
  setup = "ready" =>
    /\ pc \in {"logon", "idle"} => Silent /\ peer.serving = NoCall /\ ~peer.waiting
    /\ pc \in {"callback", "answer"} => Silent /\ peer.serving = op.n /\ peer.waiting

(* How many records of the message the decoder holds.                      *)
Got == IF pending # <<>> /\ pending[1].id # Ours THEN 0 ELSE Len(pending)

(* A record of the message w of k records about operation c.               *)
PartOf(rec, w, k, c) ==
  /\ rec.id = Ours /\ rec.what = w /\ rec.of = k /\ rec.call = c
  /\ rec.part \in 1..k
  /\ rec.fc = IF rec.part = 1 THEN "SapSend" ELSE "Receive"
  /\ rec.final <=> rec.part = k
  /\ rec.rc # "ok" => rec.part = k

(* The sequence f carries the records after g, up to s, of that message,   *)
(* in order and all of them, between records that are not this             *)
(* conversation's data.                                                    *)
Flow(f, g, s, w, k, c) ==
  /\ \A i \in 1..Len(f) : OursData(f[i]) => PartOf(f[i], w, k, c) /\ f[i].part \in (g + 1)..s
  /\ \A i, j \in 1..Len(f) : OursData(f[i]) /\ OursData(f[j]) /\ i < j => f[i].part < f[j].part
  /\ \A m \in (g + 1)..s : \E i \in 1..Len(f) : OursData(f[i]) /\ f[i].part = m

(* The sequence f is made of the records after s of that message.          *)
Rest(f, s, w, k, c) ==
  /\ Len(f) = k - s
  /\ \A i \in 1..Len(f) : PartOf(f[i], w, k, c) /\ f[i].part = s + i

(* A request, or the answer to a callback, that the partner has not read,  *)
(* or a function it executes.                                              *)
Asked ==
  /\ peer.out = <<>> /\ NoData /\ Got = 0
  /\ \/ /\ Len(toPeer) = 1 /\ toPeer[1].call = op.n /\ toPeer[1].what # "setup"
        /\ toPeer[1].what = "answer" => peer.serving = op.n
     \/ toPeer = <<>> /\ peer.serving = op.n /\ ~peer.waiting

(* A message of the partner: of its k records the decoder holds the first, *)
(* the next, up to s, are on their way, and the partner has the rest.      *)
Answered(w, k, s) ==
  /\ toPeer = <<>>
  /\ w = "callback" => peer.waiting /\ peer.serving = op.n /\ op.kind = "call"
  /\ w # "callback" => ~peer.waiting /\ peer.serving = NoCall
  /\ w = "rejection" => op.n = 0
  /\ w = "reply" /\ op.n = 0 => peer.loggedOn
  /\ Got <= s /\ Got < k /\ s <= k
  /\ Got > 0 => \A i \in 1..Len(pending) : PartOf(pending[i], w, k, op.n) /\ pending[i].part = i
  /\ Flow(fromPeer, Got, s, w, k, op.n)
  /\ Rest(peer.out, s, w, k, op.n)
AwaitInv ==
  pc = "awaiting" =>
    Asked \/ \E w \in {"reply", "rejection", "callback"}, k \in 1..MaxParts, s \in 0..MaxParts : Answered(w, k, s)

IInv ==
  /\ TypeOK /\ PlaceInv /\ ShapeInv /\ OpenInv /\ RequestInv /\ ReadyInv /\ AwaitInv
  /\ ReplyMatchesCall /\ AuthenticatedIsLoggedOn

USE SMTT(30)

-------------------------------------------------------------------------------
(* The records on their way.                                               *)

(* Every record on its way has the fields of a record.                     *)
LEMMA RecordFields ==
  ASSUME NEW f \in Seq(Records)
  PROVE  \A i \in 1..Len(f) : f[i] \in Records /\ f[i].part \in Nat
<1>1. \A i \in 1..Len(f) : f[i] \in Records
  BY EmptyFacts
<1> QED
  BY <1>1 DEF Records

(* The first data record of this conversation is the next of the message.  *)
LEMMA FlowHead ==
  ASSUME NEW f \in Seq(Records), f # <<>>, NEW g \in Nat, NEW s \in Nat, NEW w, NEW k \in Nat, NEW c,
         Flow(f, g, s, w, k, c), OursData(f[1])
  PROVE  f[1].part = g + 1 /\ g + 1 <= s /\ PartOf(f[1], w, k, c)
<1>1. Len(f) \in Nat /\ 1 \in 1..Len(f) /\ \A i \in 1..Len(f) : f[i].part \in Nat
  BY TailFacts, RecordFields
<1>2. f[1].part \in (g + 1)..s /\ PartOf(f[1], w, k, c)
  BY <1>1 DEF Flow
<1>3. g + 1 \in (g + 1)..s
  BY <1>1, <1>2
<1>4. PICK i \in 1..Len(f) : OursData(f[i]) /\ f[i].part = g + 1
  BY <1>3 DEF Flow
<1>5. 1 < i => f[1].part < f[i].part
  BY <1>1, <1>4 DEF Flow
<1> QED
  BY <1>1, <1>2, <1>4, <1>5

(* When it is taken, the rest of the message is still on its way.          *)
LEMMA FlowTake ==
  ASSUME NEW f \in Seq(Records), f # <<>>, NEW g \in Nat, NEW s \in Nat, NEW w, NEW k \in Nat, NEW c,
         Flow(f, g, s, w, k, c), OursData(f[1])
  PROVE  Flow(Tail(f), g + 1, s, w, k, c)
<1> DEFINE t == Tail(f)
<1>1. /\ Len(f) \in Nat \ {0} /\ Len(t) = Len(f) - 1
      /\ \A i \in 1..Len(t) : t[i] = f[i + 1] /\ i + 1 \in 1..Len(f)
      /\ \A i \in 1..Len(f) : f[i].part \in Nat
  BY TailFacts, RecordFields
<1>2. f[1].part = g + 1
  BY FlowHead
<1> HIDE DEF t
<1>3. ASSUME NEW i \in 1..Len(t), OursData(t[i])
      PROVE  PartOf(t[i], w, k, c) /\ t[i].part \in (g + 1 + 1)..s
  <2>1. OursData(f[i + 1]) /\ i + 1 \in 1..Len(f) /\ 1 \in 1..Len(f) /\ 1 < i + 1
    BY <1>1, <1>3
  <2>2. f[1].part < f[i + 1].part
    BY <2>1 DEF Flow
  <2>3. PartOf(f[i + 1], w, k, c) /\ f[i + 1].part \in (g + 1)..s
    BY <2>1 DEF Flow
  <2> QED
    BY <1>1, <1>2, <2>2, <2>3
<1>4. ASSUME NEW i \in 1..Len(t), NEW j \in 1..Len(t), OursData(t[i]), OursData(t[j]), i < j
      PROVE  t[i].part < t[j].part
  <2>1. /\ OursData(f[i + 1]) /\ OursData(f[j + 1]) /\ i + 1 < j + 1
        /\ i + 1 \in 1..Len(f) /\ j + 1 \in 1..Len(f)
    BY <1>1, <1>4
  <2>2. f[i + 1].part < f[j + 1].part
    BY <2>1 DEF Flow
  <2> QED
    BY <1>1, <2>2
<1>5. ASSUME NEW m \in (g + 1 + 1)..s
      PROVE  \E i \in 1..Len(t) : OursData(t[i]) /\ t[i].part = m
  <2>1. PICK i \in 1..Len(f) : OursData(f[i]) /\ f[i].part = m
    BY DEF Flow
  <2>2. i - 1 \in 1..Len(t) /\ t[i - 1] = f[i]
    BY <1>1, <1>2, <2>1
  <2> QED
    BY <2>1, <2>2
<1>6. Flow(t, g + 1, s, w, k, c)
  BY <1>3, <1>4, <1>5 DEF Flow
<1> QED
  BY <1>6 DEF t

(* A record that is not this conversation's data does not count.           *)
LEMMA FlowSkip ==
  ASSUME NEW f \in Seq(Records), f # <<>>, NEW g \in Nat, NEW s \in Nat, NEW w, NEW k \in Nat, NEW c,
         Flow(f, g, s, w, k, c), ~OursData(f[1])
  PROVE  Flow(Tail(f), g, s, w, k, c)
<1> DEFINE t == Tail(f)
<1>1. /\ Len(f) \in Nat \ {0} /\ Len(t) = Len(f) - 1
      /\ \A i \in 1..Len(t) : t[i] = f[i + 1] /\ i + 1 \in 1..Len(f)
  BY TailFacts
<1> HIDE DEF t
<1>2. ASSUME NEW i \in 1..Len(t), OursData(t[i])
      PROVE  PartOf(t[i], w, k, c) /\ t[i].part \in (g + 1)..s
  BY <1>1, <1>2 DEF Flow
<1>3. ASSUME NEW i \in 1..Len(t), NEW j \in 1..Len(t), OursData(t[i]), OursData(t[j]), i < j
      PROVE  t[i].part < t[j].part
  <2>1. /\ OursData(f[i + 1]) /\ OursData(f[j + 1]) /\ i + 1 < j + 1
        /\ i + 1 \in 1..Len(f) /\ j + 1 \in 1..Len(f)
    BY <1>1, <1>3
  <2>2. f[i + 1].part < f[j + 1].part
    BY <2>1 DEF Flow
  <2> QED
    BY <1>1, <2>2
<1>4. ASSUME NEW m \in (g + 1)..s
      PROVE  \E i \in 1..Len(t) : OursData(t[i]) /\ t[i].part = m
  <2>1. PICK i \in 1..Len(f) : OursData(f[i]) /\ f[i].part = m
    BY DEF Flow
  <2>2. i - 1 \in 1..Len(t) /\ t[i - 1] = f[i]
    BY <1>1, <2>1
  <2> QED
    BY <2>1, <2>2
<1>5. Flow(t, g, s, w, k, c)
  BY <1>2, <1>3, <1>4 DEF Flow
<1> QED
  BY <1>5 DEF t

(* The partner sends the next record of the message.                       *)
LEMMA FlowSend ==
  ASSUME NEW f \in Seq(Records), NEW r \in Records, NEW g \in Nat, NEW s \in Nat, NEW w, NEW k \in Nat, NEW c,
         Flow(f, g, s, w, k, c), PartOf(r, w, k, c), r.part = s + 1, g <= s
  PROVE  Flow(Append(f, r), g, s + 1, w, k, c)
<1> DEFINE t == Append(f, r)
<1>1. /\ Len(f) \in Nat /\ Len(t) = Len(f) + 1 /\ t[Len(f) + 1] = r
      /\ \A i \in 1..Len(f) : t[i] = f[i]
  BY AppendFacts
<1>2. \A i \in 1..Len(f) : f[i].part \in Nat
  BY RecordFields
<1>3. OursData(r)
  BY DEF PartOf, OursData
<1> HIDE DEF t
<1>4. ASSUME NEW i \in 1..Len(t), OursData(t[i])
      PROVE  PartOf(t[i], w, k, c) /\ t[i].part \in (g + 1)..(s + 1)
  <2>1. CASE i = Len(f) + 1
    BY <1>1, <2>1
  <2>2. CASE i \in 1..Len(f)
    BY <1>1, <1>2, <1>4, <2>2 DEF Flow
  <2> QED
    BY <1>1, <2>1, <2>2
<1>5. ASSUME NEW i \in 1..Len(t), NEW j \in 1..Len(t), OursData(t[i]), OursData(t[j]), i < j
      PROVE  t[i].part < t[j].part
  <2>1. i \in 1..Len(f)
    BY <1>1, <1>5
  <2>2. CASE j = Len(f) + 1
    <3>1. f[i].part \in (g + 1)..s
      BY <1>1, <1>5, <2>1 DEF Flow
    <3> QED
      BY <1>1, <1>2, <2>1, <2>2, <3>1
  <2>3. CASE j \in 1..Len(f)
    BY <1>1, <1>5, <2>1, <2>3 DEF Flow
  <2>4. j = Len(f) + 1 \/ j \in 1..Len(f)
    BY <1>1
  <2> QED
    BY <2>2, <2>3, <2>4
<1>6. ASSUME NEW m \in (g + 1)..(s + 1)
      PROVE  \E i \in 1..Len(t) : OursData(t[i]) /\ t[i].part = m
  <2>1. CASE m = s + 1
    BY <1>1, <1>3, <2>1
  <2>2. CASE m \in (g + 1)..s
    <3>1. PICK i \in 1..Len(f) : OursData(f[i]) /\ f[i].part = m
      BY <2>2 DEF Flow
    <3> QED
      BY <1>1, <3>1
  <2> QED
    BY <2>1, <2>2
<1>7. Flow(t, g, s + 1, w, k, c)
  BY <1>4, <1>5, <1>6 DEF Flow
<1> QED
  BY <1>7 DEF t

(* A keepalive or a record of another conversation comes in between.       *)
LEMMA FlowOther ==
  ASSUME NEW f \in Seq(Records), NEW r \in Records, NEW g \in Nat, NEW s \in Nat, NEW w, NEW k \in Nat, NEW c,
         Flow(f, g, s, w, k, c), ~OursData(r)
  PROVE  Flow(Append(f, r), g, s, w, k, c)
<1> DEFINE t == Append(f, r)
<1>1. /\ Len(f) \in Nat /\ Len(t) = Len(f) + 1 /\ t[Len(f) + 1] = r
      /\ \A i \in 1..Len(f) : t[i] = f[i]
  BY AppendFacts
<1> HIDE DEF t
<1>2. \A i \in 1..Len(t) : OursData(t[i]) => i \in 1..Len(f) /\ t[i] = f[i]
  BY <1>1
<1>3. \A m \in (g + 1)..s : \E i \in 1..Len(t) : OursData(t[i]) /\ t[i].part = m
  <2>1. TAKE m \in (g + 1)..s
  <2>2. PICK i \in 1..Len(f) : OursData(f[i]) /\ f[i].part = m
    BY DEF Flow
  <2> QED
    BY <1>1, <2>2
<1>4. \A i \in 1..Len(t) : OursData(t[i]) => PartOf(t[i], w, k, c) /\ t[i].part \in (g + 1)..s
  BY <1>2 DEF Flow
<1>5. \A i, j \in 1..Len(t) : OursData(t[i]) /\ OursData(t[j]) /\ i < j => t[i].part < t[j].part
  BY <1>2 DEF Flow
<1>6. Flow(t, g, s, w, k, c)
  BY <1>3, <1>4, <1>5 DEF Flow
<1> QED
  BY <1>6 DEF t

(* A message nothing of which has been sent.                               *)
LEMMA FlowNone ==
  ASSUME NEW f \in Seq(Records), \A i \in 1..Len(f) : ~OursData(f[i]), NEW w, NEW k, NEW c
  PROVE  Flow(f, 0, 0, w, k, c)
BY DEF Flow

-------------------------------------------------------------------------------
(* The state machine and the bookkeeping.                                  *)

(* No operation has the number that stands for none, and the two outcomes  *)
(* that are not replies are not numbers of operations.                     *)
LEMMA Numbers ==
  /\ MaxCalls \in Nat /\ MaxParts \in Nat /\ NoCall \in Nat /\ Unset \in Nat /\ Failed \in Nat
  /\ \A n \in 0..MaxCalls : n \in Nat /\ n # NoCall /\ n # Unset /\ n # Failed
  /\ Unset # Failed
BY SessionAssumption DEF NoCall, Unset, Failed

(* What Sent does on the way of a session.                                 *)
LEMMA SentFacts ==
  /\ \A st \in SetupStates : MaySend(st, "SapSend", TRUE) => st = "ready"
  /\ MaySend("ready", "SapSend", TRUE)
  /\ \A st : AfterSent(st, "SapSend", TRUE) = "response-pending"
  /\ \A st : AfterSent(st, "Initialize", TRUE) = "initialize-pending"
  /\ \A st : Sent2(st, "SetPartnerLuName", "Allocate") = "allocate-pending"
<1>1. \A st \in SetupStates : MaySend(st, "SapSend", TRUE) => st = "ready"
  BY DEF MaySend, Sendable, SetupStates
<1>2. MaySend("ready", "SapSend", TRUE)
  BY DEF MaySend, Sendable, WellShaped
<1>3. \A st : AfterSent(st, "SapSend", TRUE) = "response-pending"
  BY DEF AfterSent
<1>4. \A st : AfterSent(st, "Initialize", TRUE) = "initialize-pending"
  BY DEF AfterSent
<1>5. \A st : AfterSent(st, "Allocate", TRUE) = "allocate-pending"
  BY DEF AfterSent
<1>6. \A st : Sent2(st, "SetPartnerLuName", "Allocate") = "allocate-pending"
  BY <1>5, Zenon DEF Sent2
<1> QED
  BY <1>1, <1>2, <1>3, <1>4, <1>6, Zenon

(* What Received does on the way of a session.                             *)
LEMMA ReceivedFacts ==
  ASSUME NEW rec
  PROVE  /\ \A st \in SetupStates : AfterReceived(st, rec) \in SetupStates
         /\ AfterReceived("response-pending", rec) \in {"response-pending", "closed"}
         /\ Disposition("response-pending", rec) # "refused" => rec.fc \in DataFunctions
         /\ Disposition("response-pending", rec) = "normal-deallocation"
              => AfterReceived("response-pending", rec) = "closed"
         /\ Disposition("response-pending", rec) \notin {"normal-deallocation", "refused"}
              => AfterReceived("response-pending", rec) = "response-pending"
         /\ Disposition("allocate-pending", rec) = "accepted"
              => rec.fc = "Allocate" /\ AfterReceived("allocate-pending", rec) = "ready"
<1>1. \A st \in SetupStates : AfterReceived(st, rec) \in SetupStates
  BY DEF AfterReceived, SetupStates
<1>2. AfterReceived("response-pending", rec) \in {"response-pending", "closed"}
  BY DEF AfterReceived
<1>3. Disposition("response-pending", rec) # "refused" => rec.fc \in DataFunctions
  BY DEF Disposition, Receivable
<1>4. Disposition("response-pending", rec) = "normal-deallocation"
        => AfterReceived("response-pending", rec) = "closed"
  BY DEF AfterReceived
<1>5. Disposition("response-pending", rec) \notin {"normal-deallocation", "refused"}
        => AfterReceived("response-pending", rec) = "response-pending"
  <2>1. Disposition("response-pending", rec) \in {"accepted", "normal-deallocation", "refused"}
    BY DEF Disposition
  <2> QED
    BY <2>1 DEF AfterReceived
<1>6. Disposition("allocate-pending", rec) = "accepted"
        => rec.fc = "Allocate" /\ AfterReceived("allocate-pending", rec) = "ready"
  <2>1. Disposition("allocate-pending", rec) = "accepted" => rec.fc = "Allocate"
    BY DEF Disposition, Receivable
  <2> QED
    BY <2>1 DEF AfterReceived
<1> QED
  BY <1>1, <1>2, <1>3, <1>4, <1>5, <1>6, Zenon

(* The fields of an operation, a record and the partner.                   *)
LEMMA Fields ==
  ASSUME TypeOK
  PROVE  /\ op.n \in 0..MaxCalls /\ op.kind \in Kinds /\ op.large \in BOOLEAN
         /\ peer.serving \in Nat /\ peer.out \in Seq(Records) /\ peer.callbacks \in Nat
BY DEF TypeOK, Operations, Peers

(* A failed operation has an outcome and leaves the session to its caller. *)
LEMMA FailsFacts ==
  ASSUME TypeOK, NEW n \in 0..MaxCalls, NEW kind, Fails(n, kind)
  PROVE  /\ outcome' \in [1..MaxCalls -> Nat]
         /\ pc' \in {"idle", "discard"} /\ (pc' = "idle" => kind = "raw")
         /\ \A m \in 1..MaxCalls : outcome'[m] = outcome[m] \/ outcome'[m] = Failed
<1>1. pc' \in {"idle", "discard"} /\ (pc' = "idle" => kind = "raw")
  BY DEF Fails
<1>2. /\ outcome' \in [1..MaxCalls -> Nat]
      /\ \A m \in 1..MaxCalls : outcome'[m] = outcome[m] \/ outcome'[m] = Failed
  BY Numbers DEF Fails, TypeOK
<1> QED
  BY <1>1, <1>2

(* What a request does: it is written, or the operation fails.             *)
LEMMA SendFacts ==
  ASSUME TypeOK, NEW what \in {"request", "answer"}, op' \in Operations, SendData(what)
  PROVE  /\ setup' = "response-pending" /\ pending' = <<>>
         /\ \/ /\ toPeer' = Append(toPeer, [fc |-> "SapSend", what |-> what, call |-> op'.n])
               /\ toPeer' \in Seq(Requests)
               /\ pc' = "awaiting" /\ outcome' = outcome
            \/ Fails(op'.n, op'.kind) /\ toPeer' = toPeer
<1>1. [fc |-> "SapSend", what |-> what, call |-> op'.n] \in Requests
  <2>1. op'.n \in 0..MaxCalls
    BY Zenon DEF Operations
  <2>2. op'.n \in Nat
    BY <2>1, Numbers
  <2> QED
    BY <2>2 DEF Requests
<1>2. setup' = "response-pending" /\ pending' = <<>>
  BY SentFacts, ZenonT(30) DEF SendData
<1>3. Append(toPeer, [fc |-> "SapSend", what |-> what, call |-> op'.n]) \in Seq(Requests)
  BY <1>1, AppendFacts DEF TypeOK
<1> QED
  BY <1>2, <1>3, ZenonT(30) DEF SendData

(* What an operation reads is the first record on its way.                 *)
LEMMA IncomingFacts ==
  ASSUME TypeOK, NEW rec, Incoming(rec)
  PROVE  /\ pc = "awaiting" /\ fromPeer # <<>> /\ rec = fromPeer[1] /\ rec \in Records
         /\ fromPeer' = Tail(fromPeer) /\ fromPeer' \in Seq(Records)
         /\ op' = op /\ toPeer' = toPeer /\ peer' = peer
         /\ Append(pending, rec) \in Seq(Records)
<1>1. /\ pc = "awaiting" /\ fromPeer # <<>> /\ rec = Head(fromPeer) /\ fromPeer' = Tail(fromPeer)
      /\ op' = op /\ toPeer' = toPeer /\ peer' = peer
  BY DEF Incoming
<1>2. fromPeer \in Seq(Records) /\ pending \in Seq(Records)
  BY DEF TypeOK
<1>3. Head(fromPeer) = fromPeer[1] /\ fromPeer[1] \in Records /\ Tail(fromPeer) \in Seq(Records)
  BY <1>1, <1>2, TailFacts
<1>4. Append(pending, rec) \in Seq(Records)
  BY <1>1, <1>2, <1>3, AppendFacts
<1> QED
  BY <1>1, <1>3, <1>4

-------------------------------------------------------------------------------
(* What the partner does.                                                  *)

(* The partner reads: a record of the handshake, which it answers or not,  *)
(* the answer to its callback, or a request.                               *)
LEMMA ReadsFacts ==
  ASSUME TypeOK, PeerReads
  PROVE  /\ UNCHANGED <<clientVars, fromPeer>>
         /\ toPeer # <<>> /\ peer.out = <<>> /\ toPeer' = Tail(toPeer)
         /\ toPeer' \in Seq(Requests) /\ toPeer[1] \in Requests
         /\ peer' \in Peers /\ peer'.loggedOn = peer.loggedOn
         /\ \/ /\ toPeer[1].what = "setup"
               /\ peer'.serving = peer.serving /\ peer'.waiting = peer.waiting
               /\ toPeer[1].fc \in {"NormalClient", "Initialize", "SetPartnerLuName", "Allocate"}
               /\ peer'.out = <<>> \/ \E rc \in {"ok", "error"} : peer'.out = <<Control(toPeer[1].fc, rc)>>
            \/ /\ toPeer[1].what # "setup" /\ peer'.out = <<>> /\ peer'.waiting = FALSE
               /\ peer'.serving = IF peer.waiting THEN peer.serving ELSE toPeer[1].call
<1>1. /\ UNCHANGED <<clientVars, fromPeer>>
      /\ toPeer # <<>> /\ peer.out = <<>> /\ toPeer' = Tail(toPeer)
  BY DEF PeerReads
<1>2. /\ Head(toPeer) = toPeer[1] /\ toPeer[1] \in Requests /\ toPeer' \in Seq(Requests)
  BY <1>1, TailFacts DEF TypeOK
<1>3. peer \in Peers /\ peer.waiting \in BOOLEAN
  BY DEF TypeOK, Peers
<1>4. CASE toPeer[1].what = "setup"
  <2>1. toPeer[1].fc \in {"NormalClient", "Initialize", "SetPartnerLuName", "Allocate"}
    BY <1>2, <1>4 DEF Requests
  <2>2. \/ peer' = peer
        \/ \E rc \in {"ok", "error"} : peer' = [peer EXCEPT !.out = <<Control(toPeer[1].fc, rc)>>]
    BY <1>2, <1>4, ZenonT(30) DEF PeerReads
  <2>3. CASE peer' = peer
    BY <1>1, <1>2, <1>3, <1>4, <2>3, <2>1, ZenonT(30)
  <2>4. CASE \E rc \in {"ok", "error"} : peer' = [peer EXCEPT !.out = <<Control(toPeer[1].fc, rc)>>]
    <3>1. PICK rc \in {"ok", "error"} : peer' = [peer EXCEPT !.out = <<Control(toPeer[1].fc, rc)>>]
      BY <2>4
    <3>2. Control(toPeer[1].fc, rc) \in Records
      BY <2>1 DEF Control, Records
    <3>3. <<Control(toPeer[1].fc, rc)>> \in Seq(Records)
      BY <3>2
    <3>4. /\ peer' \in Peers /\ peer'.loggedOn = peer.loggedOn /\ peer'.serving = peer.serving
          /\ peer'.waiting = peer.waiting /\ peer'.out = <<Control(toPeer[1].fc, rc)>>
      BY <1>3, <3>1, <3>3, ZenonT(30) DEF Peers
    <3> QED
      BY <1>1, <1>2, <1>4, <2>1, <3>4, ZenonT(30)
  <2> QED
    BY <2>2, <2>3, <2>4, Zenon
<1>5. CASE toPeer[1].what # "setup" /\ peer.waiting
  <2>1. peer' = [peer EXCEPT !.waiting = FALSE]
    BY <1>2, <1>5, ZenonT(30) DEF PeerReads
  <2>2. /\ peer' \in Peers /\ peer'.loggedOn = peer.loggedOn /\ peer'.serving = peer.serving
        /\ peer'.waiting = FALSE /\ peer'.out = peer.out
    BY <1>3, <2>1, ZenonT(30) DEF Peers
  <2> QED
    BY <1>1, <1>2, <1>5, <2>2, ZenonT(30)
<1>6. CASE toPeer[1].what # "setup" /\ ~peer.waiting
  <2>1. peer' = [peer EXCEPT !.serving = toPeer[1].call]
    BY <1>2, <1>6, ZenonT(30) DEF PeerReads
  <2>2. toPeer[1].call \in Nat
    BY <1>2 DEF Requests
  <2>3. /\ peer' \in Peers /\ peer'.loggedOn = peer.loggedOn /\ peer'.serving = toPeer[1].call
        /\ peer'.waiting = peer.waiting /\ peer'.out = peer.out
    BY <1>3, <2>1, <2>2, ZenonT(30) DEF Peers
  <2>4. peer.waiting = FALSE
    BY <1>3, <1>6, ZenonT(30)
  <2> QED
    BY <1>1, <1>2, <1>6, <2>3, <2>4, ZenonT(30)
<1> QED
  BY <1>4, <1>5, <1>6, ZenonT(30)

(* The records of a message of the partner, none of which is sent yet.     *)
LEMMA MessageFacts ==
  ASSUME NEW w \in {"reply", "rejection", "callback"}, NEW n \in Nat, NEW k \in 1..MaxParts,
         NEW rc \in {"ok", "dealloc", "error"}
  PROVE  /\ Message(w, n, k, rc) \in Seq(Records)
         /\ Rest(Message(w, n, k, rc), 0, w, k, n)
<1> DEFINE m == Message(w, n, k, rc)
<1>1. k \in Nat /\ k >= 1
  BY Numbers
<1>2. ASSUME NEW i \in 1..k
      PROVE  /\ m[i] \in Records /\ PartOf(m[i], w, k, n) /\ m[i].part = i
  <2> DEFINE fc == IF i = 1 THEN "SapSend" ELSE "Receive"
             last == IF i = k THEN rc ELSE "ok"
             final == i = k
  <2>1. m[i] = [fc |-> fc, rc |-> last, final |-> final, id |-> Ours, part |-> i, of |-> k, what |-> w, call |-> n]
    BY DEF Message
  <2>6. fc \in {"SapSend", "Receive"} /\ last \in {"ok", "dealloc", "error"} /\ final \in BOOLEAN
    OBVIOUS
  <2> HIDE DEF m, fc, last, final
  <2>2. m[i] \in Records
    BY <1>1, <2>1, <2>6 DEF Records
  <2>3. /\ m[i].part = i /\ m[i].id = Ours /\ m[i].what = w /\ m[i].of = k /\ m[i].call = n
        /\ m[i].fc = fc /\ m[i].rc = last
    BY <2>1
  <2>7. m[i].final <=> final
    <3>1. CASE final = TRUE
      BY <2>1, <3>1
    <3>2. CASE final = FALSE
      BY <2>1, <3>2
    <3> QED
      BY <2>6, <3>1, <3>2, ZenonT(30)
  <2>4. fc = (IF i = 1 THEN "SapSend" ELSE "Receive") /\ (final <=> i = k) /\ (last # "ok" => i = k)
    BY DEF fc, final, last
  <2>5. PartOf(m[i], w, k, n)
    BY <2>3, <2>4, <2>7, ZenonT(30) DEF PartOf
  <2> QED
    BY <2>2, <2>3, <2>5
<1>3. m = [i \in 1..k |-> m[i]]
  BY DEF Message
<1>4. m \in Seq(Records) /\ Len(m) = k
  <2> HIDE DEF m
  <2>1. m \in [1..k -> Records]
    BY <1>2, <1>3
  <2> QED
    BY <1>1, <2>1, LenProperties
<1> HIDE DEF m
<1>5. Rest(m, 0, w, k, n)
  BY <1>1, <1>2, <1>4 DEF Rest
<1> QED
  BY <1>4, <1>5 DEF m

(* The function replies.                                                   *)
LEMMA RepliesFacts ==
  ASSUME TypeOK, PeerReplies
  PROVE  /\ UNCHANGED <<clientVars, toPeer, fromPeer>>
         /\ peer.out = <<>> /\ peer.serving # NoCall /\ ~peer.waiting
         /\ peer' \in Peers /\ peer'.serving = NoCall /\ peer'.waiting = FALSE
         /\ (peer.loggedOn => peer'.loggedOn)
         /\ \E k \in 1..MaxParts, w \in {"reply", "rejection"} :
              /\ Rest(peer'.out, 0, w, k, peer.serving)
              /\ w = "rejection" => peer.serving = 0
              /\ w = "reply" /\ peer.serving = 0 => peer'.loggedOn
<1>1. /\ UNCHANGED <<clientVars, toPeer, fromPeer>>
      /\ peer.out = <<>> /\ peer.serving # NoCall /\ ~peer.waiting
  BY DEF PeerReplies, Serving
<1>2. /\ peer \in Peers /\ peer.waiting \in BOOLEAN /\ peer.loggedOn \in BOOLEAN /\ peer.serving \in Nat
  BY DEF TypeOK, Peers
<1>3. PICK k \in 1..MaxParts, rc \in {"ok", "dealloc", "error"},
           w \in IF peer.serving = 0 THEN {"reply", "rejection"} ELSE {"reply"} :
        peer' = [peer EXCEPT !.out = Message(w, peer.serving, k, rc),
                             !.serving = NoCall,
                             !.loggedOn = @ \/ (peer.serving = 0 /\ w = "reply")]
  BY ZenonT(30) DEF PeerReplies
<1>4. w \in {"reply", "rejection"} /\ (w = "rejection" => peer.serving = 0)
  BY <1>3
<1>5. /\ Message(w, peer.serving, k, rc) \in Seq(Records)
      /\ Rest(Message(w, peer.serving, k, rc), 0, w, k, peer.serving)
  <2>1. w \in {"reply", "rejection", "callback"}
    BY <1>4
  <2> QED
    BY <1>2, <2>1, MessageFacts, ZenonT(30)
<1> DEFINE on == peer.loggedOn \/ (peer.serving = 0 /\ w = "reply")
<1>6. peer' = [peer EXCEPT !.out = Message(w, peer.serving, k, rc), !.serving = NoCall, !.loggedOn = on]
  BY <1>3
<1>7. on \in BOOLEAN
  OBVIOUS
<1> HIDE DEF on
<1>8. /\ peer' \in Peers /\ peer'.serving = NoCall /\ peer'.waiting = peer.waiting
      /\ peer'.loggedOn = on /\ peer'.out = Message(w, peer.serving, k, rc)
  BY <1>2, <1>5, <1>6, <1>7, Numbers, ZenonT(30) DEF Peers
<1>9. peer'.waiting = FALSE
  BY <1>1, <1>2, <1>8, ZenonT(30)
<1>10. /\ Rest(peer'.out, 0, w, k, peer.serving)
       /\ w = "reply" /\ peer.serving = 0 => peer'.loggedOn
       /\ (peer.loggedOn => peer'.loggedOn)
  BY <1>5, <1>8, ZenonT(30) DEF on
<1> QED
  BY <1>1, <1>4, <1>8, <1>9, <1>10, ZenonT(30)

(* The function calls back.                                                *)
LEMMA CallsBackFacts ==
  ASSUME TypeOK, PeerCallsBack
  PROVE  /\ UNCHANGED <<clientVars, toPeer, fromPeer>>
         /\ peer.out = <<>> /\ ~peer.waiting /\ op.kind = "call"
         /\ peer' \in Peers /\ peer'.serving = peer.serving /\ peer'.waiting = TRUE
         /\ peer'.loggedOn = peer.loggedOn
         /\ peer.serving = op.n /\ Rest(peer'.out, 0, "callback", 1, op.n)
<1>1. /\ UNCHANGED <<clientVars, toPeer, fromPeer>>
      /\ peer.out = <<>> /\ ~peer.waiting /\ op.kind = "call" /\ peer.serving = op.n
      /\ peer' = [peer EXCEPT !.out = Message("callback", peer.serving, 1, "ok"),
                              !.waiting = TRUE, !.callbacks = @ + 1]
  BY DEF PeerCallsBack, Serving
<1>2. peer \in Peers /\ peer.serving \in Nat /\ peer.callbacks + 1 \in Nat
  BY DEF TypeOK, Peers
<1>3. 1 \in 1..MaxParts
  BY SessionAssumption
<1> DEFINE m == Message("callback", peer.serving, 1, "ok")
           c == peer.callbacks + 1
<1>4. m \in Seq(Records) /\ Rest(m, 0, "callback", 1, peer.serving)
  BY <1>2, <1>3, MessageFacts, ZenonT(30)
<1>5. peer' = [peer EXCEPT !.out = m, !.waiting = TRUE, !.callbacks = c] /\ c \in Nat
  BY <1>1, <1>2
<1> HIDE DEF m, c
<1>6. /\ peer' \in Peers /\ peer'.serving = peer.serving /\ peer'.waiting = TRUE
      /\ peer'.loggedOn = peer.loggedOn /\ peer'.out = m
  BY <1>2, <1>4, <1>5, ZenonT(30) DEF Peers
<1> QED
  BY <1>1, <1>4, <1>6, ZenonT(30)

(* The partner sends the next record it has.                               *)
LEMMA SendsFacts ==
  ASSUME TypeOK, PeerSends
  PROVE  /\ UNCHANGED <<clientVars, toPeer>>
         /\ peer.out # <<>> /\ peer.out[1] \in Records
         /\ fromPeer' = Append(fromPeer, peer.out[1]) /\ fromPeer' \in Seq(Records)
         /\ peer' \in Peers /\ peer'.serving = peer.serving /\ peer'.waiting = peer.waiting
         /\ peer'.loggedOn = peer.loggedOn /\ peer'.out = Tail(peer.out)
<1>1. /\ UNCHANGED <<clientVars, toPeer>> /\ peer.out # <<>>
      /\ fromPeer' = Append(fromPeer, Head(peer.out)) /\ peer' = [peer EXCEPT !.out = Tail(@)]
  BY DEF PeerSends
<1>2. peer \in Peers /\ peer.out \in Seq(Records) /\ fromPeer \in Seq(Records)
  BY DEF TypeOK, Peers
<1>3. Head(peer.out) = peer.out[1] /\ peer.out[1] \in Records /\ Tail(peer.out) \in Seq(Records)
  BY <1>1, <1>2, TailFacts
<1>4. Append(fromPeer, peer.out[1]) \in Seq(Records)
  BY <1>2, <1>3, AppendFacts
<1>5. /\ peer' \in Peers /\ peer'.serving = peer.serving /\ peer'.waiting = peer.waiting
      /\ peer'.loggedOn = peer.loggedOn /\ peer'.out = Tail(peer.out)
  BY <1>1, <1>2, <1>3, ZenonT(30) DEF Peers
<1> QED
  BY <1>1, <1>3, <1>4, <1>5, ZenonT(30)

(* A keepalive, or a record of another conversation, comes in between.     *)
LEMMA IntrudesFacts ==
  ASSUME TypeOK, PeerPings \/ PeerStrays
  PROVE  /\ UNCHANGED <<clientVars, toPeer>>
         /\ fromPeer' \in Seq(Records)
         /\ peer' \in Peers /\ peer'.serving = peer.serving /\ peer'.waiting = peer.waiting
         /\ peer'.loggedOn = peer.loggedOn /\ peer'.out = peer.out
         /\ \E rec \in Records : /\ fromPeer' = Append(fromPeer, rec)
                                 /\ ~OursData(rec) /\ Shaped(rec) /\ rec.fc # "Allocate"
<1>1. peer \in Peers /\ fromPeer \in Seq(Records)
  BY DEF TypeOK
<1>2. CASE PeerPings
  <2> DEFINE rec == Control("NormalClient", "short")
  <2>1. UNCHANGED <<clientVars, toPeer>> /\ fromPeer' = Append(fromPeer, rec) /\ peer' = [peer EXCEPT !.pinged = TRUE]
    BY <1>2 DEF PeerPings
  <2>2. rec \in Records /\ ~OursData(rec) /\ Shaped(rec) /\ rec.fc # "Allocate"
    BY DEF Control, Records, OursData, Shaped, DataFunctions
  <2>3. /\ peer' \in Peers /\ peer'.serving = peer.serving /\ peer'.waiting = peer.waiting
        /\ peer'.loggedOn = peer.loggedOn /\ peer'.out = peer.out
    BY <1>1, <2>1, ZenonT(30) DEF Peers
  <2> HIDE DEF rec
  <2>4. Append(fromPeer, rec) \in Seq(Records)
    BY <1>1, <2>2, AppendFacts
  <2> QED
    BY <2>1, <2>2, <2>3, <2>4, ZenonT(30)
<1>3. CASE PeerStrays
  <2>1. PICK fc \in DataFunctions, final \in BOOLEAN :
          fromPeer' = Append(fromPeer,
            [fc |-> fc, rc |-> "ok", final |-> final, id |-> "other", part |-> 1,
             of |-> 1, what |-> "reply", call |-> NoCall])
    BY <1>3, ZenonT(30) DEF PeerStrays
  <2> DEFINE rec == [fc |-> fc, rc |-> "ok", final |-> final, id |-> "other", part |-> 1,
                     of |-> 1, what |-> "reply", call |-> NoCall]
  <2>2. UNCHANGED <<clientVars, toPeer>> /\ peer' = [peer EXCEPT !.strayed = TRUE]
    BY <1>3 DEF PeerStrays
  <2>3. rec \in Records
    BY Numbers DEF Records, DataFunctions
  <2>4. rec.id = "other" /\ rec.fc \in DataFunctions
    OBVIOUS
  <2>5. fromPeer' = Append(fromPeer, rec)
    BY <2>1
  <2> HIDE DEF rec
  <2>6. ~OursData(rec) /\ Shaped(rec) /\ rec.fc # "Allocate"
    BY <2>4 DEF OursData, Shaped, Ours, DataFunctions
  <2>7. /\ peer' \in Peers /\ peer'.serving = peer.serving /\ peer'.waiting = peer.waiting
        /\ peer'.loggedOn = peer.loggedOn /\ peer'.out = peer.out
    BY <1>1, <2>2, ZenonT(30) DEF Peers
  <2>8. Append(fromPeer, rec) \in Seq(Records)
    BY <1>1, <2>3, AppendFacts
  <2> QED
    BY <2>2, <2>3, <2>5, <2>6, <2>7, <2>8, ZenonT(30)
<1> QED
  BY <1>2, <1>3

(* The partner goes away.                                                  *)
LEMMA AwayFacts ==
  ASSUME TypeOK, PeerGoesAway
  PROVE  /\ UNCHANGED <<clientVars, toPeer, fromPeer>>
         /\ peer' \in Peers /\ peer'.serving = peer.serving /\ peer'.waiting = peer.waiting
         /\ peer'.loggedOn = peer.loggedOn /\ peer'.out = peer.out
<1>1. UNCHANGED <<clientVars, toPeer, fromPeer>> /\ peer' = [peer EXCEPT !.up = FALSE]
  BY DEF PeerGoesAway
<1>2. peer \in Peers
  BY DEF TypeOK
<1>3. /\ peer' \in Peers /\ peer'.serving = peer.serving /\ peer'.waiting = peer.waiting
      /\ peer'.loggedOn = peer.loggedOn /\ peer'.out = peer.out
  BY <1>1, <1>2, ZenonT(30) DEF Peers
<1> QED
  BY <1>1, <1>3

-------------------------------------------------------------------------------
(* What this side does.                                                    *)

(* The handshake.                                                          *)
LEMMA OpeningFacts ==
  ASSUME TypeOK, PlaceInv, Dial \/ GatewayReply \/ InitializeReply \/ AllocateReply
  PROVE  /\ UNCHANGED <<authenticated, closed, op, pending, outcome, delivered, peer>>
         /\ toPeer' \in Seq(Requests) /\ fromPeer' \in Seq(Records)
         /\ \/ /\ pc = "dial" /\ pc' = "gateway" /\ setup' = setup /\ fromPeer' = fromPeer
               /\ toPeer' = <<Setup("NormalClient")>>
            \/ /\ pc = "gateway" /\ pc' = "initialize" /\ setup' = "initialize-pending"
               /\ fromPeer # <<>> /\ fromPeer' = Tail(fromPeer)
               /\ toPeer' = Append(toPeer, Setup("Initialize"))
            \/ /\ pc = "initialize" /\ pc' = "allocate" /\ setup' = "allocate-pending"
               /\ fromPeer # <<>> /\ fromPeer' = Tail(fromPeer)
               /\ toPeer' = toPeer \o <<Setup("SetPartnerLuName"), Setup("Allocate")>>
            \/ /\ pc = "allocate" /\ pc' = "logon" /\ setup' = "ready"
               /\ fromPeer # <<>> /\ fromPeer[1].fc = "Allocate" /\ fromPeer' = Tail(fromPeer)
               /\ toPeer' = toPeer
<1>1. /\ fromPeer \in Seq(Records) /\ toPeer \in Seq(Requests)
      /\ \A fc \in {"NormalClient", "Initialize", "SetPartnerLuName", "Allocate"} : Setup(fc) \in Requests
  BY DEF TypeOK, Setup, Requests
<1>2. fromPeer # <<>> => Tail(fromPeer) \in Seq(Records) /\ Head(fromPeer) = fromPeer[1]
  BY <1>1, TailFacts
<1>3. CASE Dial
  <2>1. <<Setup("NormalClient")>> \in Seq(Requests)
    BY <1>1
  <2> QED
    BY <1>1, <1>3, <2>1, ZenonT(30) DEF Dial
<1>4. CASE GatewayReply
  <2>1. Append(toPeer, Setup("Initialize")) \in Seq(Requests)
    BY <1>1, AppendFacts
  <2> QED
    BY <1>2, <1>4, <2>1, SentFacts, ZenonT(30) DEF GatewayReply
<1>5. CASE InitializeReply
  <2>1. <<Setup("SetPartnerLuName"), Setup("Allocate")>> \in Seq(Requests)
    BY <1>1
  <2>2. toPeer \o <<Setup("SetPartnerLuName"), Setup("Allocate")>> \in Seq(Requests)
    BY <1>1, <2>1, ConcatProperties
  <2> QED
    BY <1>2, <1>5, <2>2, SentFacts, ZenonT(30) DEF InitializeReply
<1>6. CASE AllocateReply
  <2>1. /\ pc = "allocate" /\ setup = "allocate-pending" /\ fromPeer # <<>>
        /\ Disposition(setup, Head(fromPeer)) = "accepted"
        /\ setup' = AfterReceived(setup, Head(fromPeer))
    BY <1>6 DEF AllocateReply, PlaceInv
  <2>2. Head(fromPeer).fc = "Allocate" /\ setup' = "ready"
    BY <2>1, ReceivedFacts, ZenonT(30)
  <2> QED
    BY <1>1, <1>2, <1>6, <2>1, <2>2, ZenonT(30) DEF AllocateReply
<1> QED
  BY <1>3, <1>4, <1>5, <1>6, ZenonT(30)

(* An operation that returns an error, a session that is closed: what      *)
(* happens on the wire is no longer this side's concern.                   *)
Ends ==
  /\ UNCHANGED <<authenticated, toPeer, peer>>
  /\ pc' \in {"idle", "discard", "closed"}
  /\ pc' = "idle" /\ setup' = "ready" => pc = "idle" /\ setup = "ready" /\ fromPeer' = fromPeer
  /\ fromPeer' = fromPeer \/ (fromPeer # <<>> /\ fromPeer' = Tail(fromPeer))
  /\ fromPeer' \in Seq(Records) /\ pending' \in Seq(Records) /\ delivered' \in Seq(Records)
  /\ setup' \in SetupStates /\ closed' \in BOOLEAN
  /\ op' \in Operations /\ ((op'.kind = "logon") <=> (op'.n = 0))
  /\ outcome' \in [1..MaxCalls -> Nat]
  /\ \A m \in 1..MaxCalls : outcome'[m] = outcome[m] \/ outcome'[m] = Failed

(* Open fails, or the session is closed.                                   *)
LEMMA StopFacts ==
  ASSUME TypeOK, OpenFails \/ Close
  PROVE  Ends /\ delivered' = delivered
<1>1. CASE Close
  BY <1>1, ZenonT(30) DEF Close, Ends, TypeOK
<1>2. CASE OpenFails
  <2>1. /\ UNCHANGED <<authenticated, closed, op, pending, outcome, delivered, toPeer, peer>>
        /\ pc' = "closed"
    BY <1>2 DEF OpenFails
  <2>2. /\ fromPeer' = fromPeer \/ (fromPeer # <<>> /\ fromPeer' = Tail(fromPeer))
        /\ setup' = setup \/ setup' = AfterReceived(setup, Head(fromPeer))
    BY <1>2, ZenonT(30) DEF OpenFails
  <2>3. fromPeer' \in Seq(Records)
    <3>1. fromPeer \in Seq(Records)
      BY DEF TypeOK
    <3> QED
      BY <2>2, <3>1, TailFacts, ZenonT(30)
  <2>4. setup' \in SetupStates
    BY <2>2, ReceivedFacts, ZenonT(30) DEF TypeOK
  <2> QED
    BY <2>1, <2>2, <2>3, <2>4, ZenonT(30) DEF Ends, TypeOK
<1> QED
  BY <1>1, <1>2

(* A request that is made, whatever its kind.                              *)
LEMMA RequestFacts ==
  ASSUME TypeOK, NEW n \in 0..MaxCalls, NEW kind \in Kinds, NEW large \in BOOLEAN, Request(n, kind, large)
  PROVE  /\ pc \in {"logon", "idle"} /\ (kind = "raw" => pc = "idle")
         /\ op' \in Operations /\ ((op'.kind = "logon") <=> (op'.n = 0)) /\ op'.n = n /\ op'.kind = kind
         /\ UNCHANGED <<authenticated, closed, delivered, fromPeer, peer>>
         /\ \/ MaySendData(large) /\ setup = "ready" /\ ~closed /\ SendData("request")
            \/ Fails(n, kind) /\ UNCHANGED <<setup, pending, toPeer>>
<1>1. /\ pc = (IF n = 0 THEN "logon" ELSE "idle")
      /\ (kind = "logon") <=> (n = 0)
      /\ op' = [n |-> n, kind |-> kind, large |-> large]
      /\ UNCHANGED <<authenticated, closed, delivered, fromPeer, peer>>
      /\ \/ MaySendData(large) /\ SendData("request")
         \/ Fails(n, kind) /\ UNCHANGED <<setup, pending, toPeer>>
  BY ZenonT(30) DEF Request
<1>2. op' \in Operations /\ op'.n = n /\ op'.kind = kind
  BY <1>1, ZenonT(30) DEF Operations
<1>3. pc \in {"logon", "idle"} /\ (kind = "raw" => pc = "idle")
  BY <1>1
<1>4. MaySendData(large) => setup = "ready" /\ ~closed
  BY SentFacts, ZenonT(30) DEF MaySendData, TypeOK
<1> QED
  BY <1>1, <1>2, <1>3, <1>4, ZenonT(30)

(* The answer to a callback.                                               *)
LEMMA AnswerFacts ==
  ASSUME TypeOK, SendAnswer
  PROVE  /\ pc = "answer" /\ op' = op
         /\ UNCHANGED <<authenticated, closed, delivered, fromPeer, peer>>
         /\ \/ MaySendData(op.large) /\ setup = "ready" /\ ~closed /\ SendData("answer")
            \/ Fails(op.n, op.kind) /\ UNCHANGED <<setup, pending, toPeer>>
<1>1. MaySendData(op.large) => setup = "ready" /\ ~closed
  BY SentFacts, ZenonT(30) DEF MaySendData, TypeOK
<1> QED
  BY <1>1, ZenonT(30) DEF SendAnswer

(* An operation that fails without a message having arrived.               *)
LEMMA FailureFacts ==
  ASSUME TypeOK, PlaceInv,
         \/ \E n \in 0..MaxCalls, kind \in Kinds, large \in BOOLEAN : Request(n, kind, large) /\ pc' # "awaiting"
         \/ ReceiveFails \/ RecordRefused
         \/ SendAnswer /\ pc' # "awaiting"
         \/ HandlerReturns /\ pc' # "answer"
  PROVE  Ends /\ delivered' = delivered
<1>1. /\ op \in Operations /\ ((op.kind = "logon") <=> (op.n = 0)) /\ op.n \in 0..MaxCalls
      /\ fromPeer \in Seq(Records) /\ pending \in Seq(Records) /\ delivered \in Seq(Records)
      /\ setup \in SetupStates /\ closed \in BOOLEAN
  BY Fields DEF TypeOK
<1>2. "response-pending" \in SetupStates /\ <<>> \in Seq(Records)
  BY EmptySeq DEF SetupStates
<1>3. CASE \E n \in 0..MaxCalls, kind \in Kinds, large \in BOOLEAN : Request(n, kind, large) /\ pc' # "awaiting"
  <2>1. PICK n \in 0..MaxCalls, kind \in Kinds, large \in BOOLEAN : Request(n, kind, large) /\ pc' # "awaiting"
    BY <1>3
  <2>2. /\ pc \in {"logon", "idle"} /\ (kind = "raw" => pc = "idle")
        /\ op' \in Operations /\ ((op'.kind = "logon") <=> (op'.n = 0)) /\ op'.n = n /\ op'.kind = kind
        /\ UNCHANGED <<authenticated, closed, delivered, fromPeer, peer>>
        /\ SendData("request") \/ (Fails(n, kind) /\ UNCHANGED <<setup, pending, toPeer>>)
    BY <2>1, RequestFacts, ZenonT(30)
  <2>3. /\ Fails(n, kind) /\ toPeer' = toPeer
        /\ \/ setup' = setup /\ pending' = pending
           \/ setup' = "response-pending" /\ pending' = <<>>
    <3>1. CASE SendData("request")
      BY <2>1, <2>2, <3>1, SendFacts, ZenonT(30)
    <3> QED
      BY <2>2, <3>1, ZenonT(30)
  <2>4. /\ outcome' \in [1..MaxCalls -> Nat]
        /\ pc' \in {"idle", "discard"} /\ (pc' = "idle" => kind = "raw")
        /\ \A m \in 1..MaxCalls : outcome'[m] = outcome[m] \/ outcome'[m] = Failed
    BY <2>3, FailsFacts, ZenonT(30)
  <2> QED
    BY <1>1, <1>2, <2>2, <2>3, <2>4, ZenonT(30) DEF Ends
<1>4. CASE ReceiveFails
  <2>1. /\ UNCHANGED <<setup, authenticated, closed, op, pending, delivered, toPeer, fromPeer, peer>>
        /\ pc = "awaiting" /\ setup = "response-pending" /\ Fails(op.n, op.kind)
    BY <1>4 DEF ReceiveFails, PlaceInv
  <2>2. /\ outcome' \in [1..MaxCalls -> Nat] /\ pc' \in {"idle", "discard"}
        /\ \A m \in 1..MaxCalls : outcome'[m] = outcome[m] \/ outcome'[m] = Failed
    BY <1>1, <2>1, FailsFacts, ZenonT(30)
  <2> QED
    BY <1>1, <2>1, <2>2, ZenonT(30) DEF Ends
<1>5. CASE RecordRefused
  <2>1. PICK rec \in Range(fromPeer) :
          /\ Incoming(rec) /\ setup' = AfterReceived(setup, rec) /\ Fails(op.n, op.kind)
          /\ UNCHANGED <<authenticated, closed, pending, delivered>>
    BY <1>5, ZenonT(30) DEF RecordRefused
  <2>2. /\ pc = "awaiting" /\ fromPeer # <<>> /\ fromPeer' = Tail(fromPeer) /\ fromPeer' \in Seq(Records)
        /\ op' = op /\ toPeer' = toPeer /\ peer' = peer
    BY <2>1, IncomingFacts, ZenonT(30)
  <2>3. setup' \in {"response-pending", "closed"} /\ setup' \in SetupStates
    <3>1. setup = "response-pending"
      BY <2>2 DEF PlaceInv
    <3>2. setup' \in {"response-pending", "closed"}
      BY <2>1, <3>1, ReceivedFacts, ZenonT(30)
    <3> QED
      BY <3>2 DEF SetupStates
  <2>4. /\ outcome' \in [1..MaxCalls -> Nat] /\ pc' \in {"idle", "discard"}
        /\ \A m \in 1..MaxCalls : outcome'[m] = outcome[m] \/ outcome'[m] = Failed
    BY <1>1, <2>1, FailsFacts, ZenonT(30)
  <2>5. setup' # "ready"
    BY <2>3
  <2> QED
    BY <1>1, <2>1, <2>2, <2>3, <2>4, <2>5, ZenonT(30) DEF Ends
<1>6. CASE SendAnswer /\ pc' # "awaiting"
  <2>1. /\ pc = "answer" /\ op' = op /\ op' \in Operations
        /\ UNCHANGED <<authenticated, closed, delivered, fromPeer, peer>>
        /\ SendData("answer") \/ (Fails(op.n, op.kind) /\ UNCHANGED <<setup, pending, toPeer>>)
    BY <1>1, <1>6, AnswerFacts, ZenonT(30)
  <2>2. op.kind = "call"
    BY <2>1 DEF PlaceInv
  <2>3. /\ Fails(op.n, op.kind) /\ toPeer' = toPeer
        /\ \/ setup' = setup /\ pending' = pending
           \/ setup' = "response-pending" /\ pending' = <<>>
    <3>1. CASE SendData("answer")
      BY <1>6, <2>1, <3>1, SendFacts, ZenonT(30)
    <3> QED
      BY <2>1, <3>1, ZenonT(30)
  <2>4. /\ outcome' \in [1..MaxCalls -> Nat]
        /\ pc' \in {"idle", "discard"} /\ (pc' = "idle" => op.kind = "raw")
        /\ \A m \in 1..MaxCalls : outcome'[m] = outcome[m] \/ outcome'[m] = Failed
    BY <1>1, <2>3, FailsFacts, ZenonT(30)
  <2> QED
    BY <1>1, <1>2, <2>1, <2>2, <2>3, <2>4, ZenonT(30) DEF Ends
<1>7. CASE HandlerReturns /\ pc' # "answer"
  <2>1. /\ UNCHANGED <<setup, authenticated, closed, op, pending, delivered, toPeer, fromPeer, peer>>
        /\ pc = "callback" /\ Fails(op.n, op.kind)
    BY <1>7, ZenonT(30) DEF HandlerReturns
  <2>2. op.kind = "call"
    BY <2>1 DEF PlaceInv
  <2>3. /\ outcome' \in [1..MaxCalls -> Nat] /\ pc' \in {"idle", "discard"} /\ (pc' = "idle" => op.kind = "raw")
        /\ \A m \in 1..MaxCalls : outcome'[m] = outcome[m] \/ outcome'[m] = Failed
    BY <1>1, <2>1, FailsFacts, ZenonT(30)
  <2> QED
    BY <1>1, <2>1, <2>2, <2>3, ZenonT(30) DEF Ends
<1> QED
  BY <1>3, <1>4, <1>5, <1>6, <1>7, ZenonT(30)

-------------------------------------------------------------------------------
(* Receiving a message.                                                    *)

(* A record that neither the state machine nor the decoder refuses.        *)
LEMMA TakenFacts ==
  ASSUME TypeOK, PlaceInv, ShapeInv, NEW rec, Incoming(rec), ~Refused(rec)
  PROVE  /\ rec.fc \in DataFunctions /\ (OursData(rec) \/ rec.id # Ours)
         /\ \/ pending = <<>> /\ rec.fc = "SapSend"
            \/ pending # <<>> /\ rec.fc = "Receive" /\ rec.id = pending[1].id
<1>1. /\ pc = "awaiting" /\ fromPeer # <<>> /\ rec = fromPeer[1] /\ fromPeer \in Seq(Records)
  BY IncomingFacts, ZenonT(30) DEF TypeOK
<1>2. Disposition("response-pending", rec) # "refused" /\ ~PushFails(pending, rec, FALSE)
  BY <1>1, ZenonT(30) DEF Refused, PlaceInv
<1>3. rec.fc \in DataFunctions
  BY <1>2, ReceivedFacts, ZenonT(30)
<1>4. Continues(pending, rec, FALSE)
  BY <1>2, <1>3, ZenonT(30) DEF PushFails
<1>5. 1 \in 1..Len(fromPeer)
  BY <1>1, TailFacts
<1>6. OursData(rec) \/ rec.id # Ours
  BY <1>1, <1>3, <1>5, ZenonT(30) DEF ShapeInv, Shaped, OursData
<1> QED
  BY <1>3, <1>4, <1>6, ZenonT(30) DEF Continues

(* What the decoder holds is counted.                                      *)
LEMMA GotFacts ==
  ASSUME TypeOK
  PROVE  /\ Got \in Nat /\ Len(pending) \in Nat
         /\ pending = <<>> => Got = 0
         /\ pending # <<>> /\ pending[1].id = Ours => Got = Len(pending) /\ Got > 0
         /\ pending # <<>> /\ pending[1].id # Ours => Got = 0
<1>1. pending \in Seq(Records)
  BY DEF TypeOK
<1>2. Len(pending) \in Nat /\ (pending = <<>> <=> Len(pending) = 0)
  BY <1>1, EmptyFacts, ZenonT(30)
<1> QED
  BY <1>2 DEF Got

(* A data record of this conversation is the next one of the only message  *)
(* that is under way.                                                      *)
LEMMA NextFacts ==
  ASSUME TypeOK, AwaitInv, NEW rec, Incoming(rec), OursData(rec)
  PROVE  \E w \in {"reply", "rejection", "callback"}, k \in 1..MaxParts, s \in 0..MaxParts :
           /\ Answered(w, k, s) /\ PartOf(rec, w, k, op.n)
           /\ rec.part = Got + 1 /\ Got + 1 <= s /\ Flow(Tail(fromPeer), Got + 1, s, w, k, op.n)
<1>1. /\ pc = "awaiting" /\ fromPeer # <<>> /\ rec = fromPeer[1] /\ fromPeer \in Seq(Records)
  BY IncomingFacts, ZenonT(30) DEF TypeOK
<1>2. 1 \in 1..Len(fromPeer)
  BY <1>1, TailFacts
<1>3. ~Asked
  BY <1>1, <1>2, ZenonT(30) DEF Asked, NoData
<1>4. PICK w \in {"reply", "rejection", "callback"}, k \in 1..MaxParts, s \in 0..MaxParts : Answered(w, k, s)
  BY <1>1, <1>3, ZenonT(30) DEF AwaitInv
<1>5. Flow(fromPeer, Got, s, w, k, op.n) /\ Got \in Nat /\ s \in Nat /\ k \in Nat
  <2>1. Flow(fromPeer, Got, s, w, k, op.n)
    BY <1>4, ZenonT(30) DEF Answered
  <2>2. s \in Nat /\ k \in Nat
    BY Numbers
  <2> QED
    BY <2>1, <2>2, GotFacts
<1>6. OursData(fromPeer[1])
  BY <1>1
<1>7. fromPeer[1].part = Got + 1 /\ Got + 1 <= s /\ PartOf(fromPeer[1], w, k, op.n)
  BY <1>1, <1>5, <1>6, FlowHead, ZenonT(30)
<1>8. Flow(Tail(fromPeer), Got + 1, s, w, k, op.n)
  BY <1>1, <1>5, <1>6, FlowTake, ZenonT(30)
<1> QED
  BY <1>1, <1>4, <1>7, <1>8, ZenonT(30)

(* A record that is added to those of a message.                           *)
LEMMA Collected ==
  ASSUME NEW p \in Seq(Records), NEW rec \in Records, NEW w, NEW k, NEW c,
         \A i \in 1..Len(p) : PartOf(p[i], w, k, c) /\ p[i].part = i,
         PartOf(rec, w, k, c), rec.part = Len(p) + 1
  PROVE  /\ Append(p, rec) \in Seq(Records) /\ Len(Append(p, rec)) = Len(p) + 1
         /\ \A i \in 1..Len(Append(p, rec)) : PartOf(Append(p, rec)[i], w, k, c) /\ Append(p, rec)[i].part = i
<1> DEFINE q == Append(p, rec)
<1>1. /\ Len(p) \in Nat /\ q \in Seq(Records) /\ Len(q) = Len(p) + 1 /\ q[Len(p) + 1] = rec
      /\ \A i \in 1..Len(p) : q[i] = p[i]
  BY AppendFacts, ZenonT(30)
<1> HIDE DEF q
<1>2. ASSUME NEW i \in 1..Len(q)
      PROVE  PartOf(q[i], w, k, c) /\ q[i].part = i
  <2>1. i = Len(p) + 1 \/ i \in 1..Len(p)
    BY <1>1
  <2>2. CASE i = Len(p) + 1
    BY <1>1, <2>2
  <2>3. CASE i \in 1..Len(p)
    BY <1>1, <2>3
  <2> QED
    BY <2>1, <2>2, <2>3
<1>3. q \in Seq(Records) /\ Len(q) = Len(p) + 1 /\ \A i \in 1..Len(q) : PartOf(q[i], w, k, c) /\ q[i].part = i
  BY <1>1, <1>2
<1> QED
  BY <1>3 DEF q

(* The data record of this conversation that an operation reads continues  *)
(* what the decoder holds.                                                 *)
LEMMA OursFacts ==
  ASSUME TypeOK, PlaceInv, ShapeInv, AwaitInv, NEW rec, Incoming(rec), ~Refused(rec), rec.id = Ours
  PROVE  \E w \in {"reply", "rejection", "callback"}, k \in 1..MaxParts, s \in 0..MaxParts :
           /\ Answered(w, k, s) /\ PartOf(rec, w, k, op.n)
           /\ Got = Len(pending) /\ Len(pending) + 1 <= s /\ rec.part = Len(pending) + 1
           /\ Flow(Tail(fromPeer), Len(pending) + 1, s, w, k, op.n)
           /\ Append(pending, rec) \in Seq(Records) /\ Len(Append(pending, rec)) = Len(pending) + 1
           /\ \A i \in 1..Len(Append(pending, rec)) :
                PartOf(Append(pending, rec)[i], w, k, op.n) /\ Append(pending, rec)[i].part = i
<1>1. OursData(rec) /\ (pending # <<>> => pending[1].id = Ours)
  BY TakenFacts, ZenonT(30)
<1>2. PICK w \in {"reply", "rejection", "callback"}, k \in 1..MaxParts, s \in 0..MaxParts :
        /\ Answered(w, k, s) /\ PartOf(rec, w, k, op.n)
        /\ rec.part = Got + 1 /\ Got + 1 <= s /\ Flow(Tail(fromPeer), Got + 1, s, w, k, op.n)
  BY <1>1, NextFacts, ZenonT(30)
<1>3. Len(pending) \in Nat /\ Got = Len(pending) /\ (Len(pending) # 0 => Got > 0)
  <2>1. pending = <<>> => Len(pending) = 0
    BY EmptySeq
  <2> QED
    BY <1>1, <2>1, GotFacts
<1>4. \A i \in 1..Len(pending) : PartOf(pending[i], w, k, op.n) /\ pending[i].part = i
  <2>1. Got > 0 => \A i \in 1..Len(pending) : PartOf(pending[i], w, k, op.n) /\ pending[i].part = i
    BY <1>2, ZenonT(30) DEF Answered
  <2>2. CASE Len(pending) = 0
    BY <2>2
  <2>3. CASE Len(pending) # 0
    BY <1>3, <2>1, <2>3, ZenonT(30)
  <2> QED
    BY <2>2, <2>3
<1>5. pending \in Seq(Records) /\ rec \in Records
  BY IncomingFacts, ZenonT(30) DEF TypeOK
<1>6. rec.part = Len(pending) + 1 /\ Len(pending) + 1 <= s /\ Flow(Tail(fromPeer), Len(pending) + 1, s, w, k, op.n)
  BY <1>2, <1>3, ZenonT(30)
<1>7. /\ Append(pending, rec) \in Seq(Records) /\ Len(Append(pending, rec)) = Len(pending) + 1
      /\ \A i \in 1..Len(Append(pending, rec)) :
           PartOf(Append(pending, rec)[i], w, k, op.n) /\ Append(pending, rec)[i].part = i
  BY <1>2, <1>4, <1>5, <1>6, Collected, ZenonT(30)
<1> QED
  BY <1>2, <1>3, <1>6, <1>7, ZenonT(30)

(* The message is complete: nothing of it, and nothing else, is under way. *)
LEMMA ArrivesFacts ==
  ASSUME TypeOK, PlaceInv, ShapeInv, AwaitInv, NEW rec, MessageArrives(rec)
  PROVE  \E w \in {"reply", "rejection", "callback"}, k \in 1..MaxParts, s \in 0..MaxParts :
           /\ Answered(w, k, s) /\ rec.what = w
           /\ toPeer = <<>> /\ peer.out = <<>> /\ NoData'
           /\ delivered' \in Seq(Records) /\ Len(delivered') = k
           /\ \A i \in 1..k : PartOf(delivered'[i], w, k, op.n) /\ delivered'[i].part = i
           /\ pending' = <<>> /\ setup' \in {"ready", "closed"} /\ closed' \in BOOLEAN
<1>1. /\ Incoming(rec) /\ ~Refused(rec) /\ CompletesMessage(rec) /\ IdentityMatches(rec)
      /\ delivered' = Append(pending, rec)
  BY DEF MessageArrives, Reassembled
<1>2. /\ pc = "awaiting" /\ fromPeer # <<>> /\ rec \in Records
      /\ fromPeer' = Tail(fromPeer) /\ fromPeer' \in Seq(Records)
  BY <1>1, IncomingFacts, ZenonT(30)
<1>3. rec.id = Ours
  <2>1. Append(pending, rec)[1].id = Ours
    BY <1>1 DEF IdentityMatches, Reassembled
  <2>2. pending \in Seq(Records)
    BY DEF TypeOK
  <2>3. CASE pending = <<>>
    <3>1. Append(pending, rec)[1] = rec
      BY <2>3
    <3> QED
      BY <2>1, <3>1
  <2>4. CASE pending # <<>>
    <3>1. 1 \in 1..Len(pending)
      BY <2>2, <2>4, TailFacts
    <3>2. Append(pending, rec)[1] = pending[1]
      BY <1>2, <2>2, <3>1, AppendFacts
    <3>3. rec.id = pending[1].id
      BY <1>1, <2>4, TakenFacts, ZenonT(30)
    <3> QED
      BY <2>1, <3>2, <3>3
  <2> QED
    BY <2>3, <2>4
<1>4. PICK w \in {"reply", "rejection", "callback"}, k \in 1..MaxParts, s \in 0..MaxParts :
        /\ Answered(w, k, s) /\ PartOf(rec, w, k, op.n)
        /\ Got = Len(pending) /\ Len(pending) + 1 <= s /\ rec.part = Len(pending) + 1
        /\ Flow(Tail(fromPeer), Len(pending) + 1, s, w, k, op.n)
        /\ Append(pending, rec) \in Seq(Records) /\ Len(Append(pending, rec)) = Len(pending) + 1
        /\ \A i \in 1..Len(Append(pending, rec)) :
             PartOf(Append(pending, rec)[i], w, k, op.n) /\ Append(pending, rec)[i].part = i
  BY <1>1, <1>3, OursFacts, ZenonT(30)
<1>5. rec.part = k /\ rec.what = w
  <2>1. rec.final \/ rec.rc = "dealloc"
    BY <1>1 DEF CompletesMessage
  <2>2. (rec.final <=> rec.part = k) /\ (rec.rc # "ok" => rec.part = k) /\ rec.what = w
    BY <1>4, ZenonT(30) DEF PartOf
  <2> QED
    BY <2>1, <2>2, ZenonT(30)
<1>6. s <= k /\ Rest(peer.out, s, w, k, op.n) /\ toPeer = <<>>
  BY <1>4, ZenonT(30) DEF Answered
<1>7. Len(pending) + 1 = k /\ s = k
  <2>1. Len(pending) + 1 = k
    BY <1>4, <1>5, ZenonT(30)
  <2>2. Len(pending) + 1 <= s /\ s \in Nat /\ k \in Nat
    BY <1>4, Numbers
  <2> QED
    BY <1>6, <2>1, <2>2
<1>8. peer.out = <<>>
  <2>1. Len(peer.out) = 0
    BY <1>6, <1>7, Numbers DEF Rest
  <2> QED
    BY <2>1, Fields, EmptySeq
<1>9. NoData'
  <2>1. Flow(fromPeer', k, k, w, k, op.n)
    BY <1>2, <1>4, <1>7, ZenonT(30)
  <2>2. \A i \in 1..Len(fromPeer') : ~OursData(fromPeer'[i])
    <3>1. k \in Nat
      BY Numbers
    <3>2. (k + 1)..k = {}
      BY <3>1
    <3> QED
      BY <2>1, <3>2, ZenonT(30) DEF Flow
  <2> QED
    BY <2>2, ZenonT(30) DEF NoData
<1>10. /\ delivered' \in Seq(Records) /\ Len(delivered') = k
       /\ \A i \in 1..k : PartOf(delivered'[i], w, k, op.n) /\ delivered'[i].part = i
  BY <1>1, <1>4, <1>7, ZenonT(30)
<1>11. pending' = <<>>
  BY <1>1 DEF MessageArrives, Pushed
<1>12. setup' \in {"ready", "closed"} /\ closed' \in BOOLEAN
  <2>1. setup = "response-pending"
    BY <1>2 DEF PlaceInv
  <2>2. Disposition(setup, rec) # "refused"
    BY <1>1, ZenonT(30) DEF Refused
  <2>3. CASE Disposition(setup, rec) = "normal-deallocation"
    <3>1. setup' = AfterReceived(setup, rec) /\ closed' = TRUE
      BY <2>3, ZenonT(30) DEF MessageArrives
    <3> QED
      BY <2>1, <2>3, <3>1, ReceivedFacts, ZenonT(30)
  <2>4. CASE Disposition(setup, rec) # "normal-deallocation"
    <3>1. setup' = ResponseComplete(AfterReceived(setup, rec)) /\ closed' = closed
      BY <2>4, ZenonT(30) DEF MessageArrives
    <3>2. AfterReceived(setup, rec) = "response-pending"
      BY <2>1, <2>2, <2>4, ReceivedFacts, ZenonT(30)
    <3> QED
      BY <3>1, <3>2 DEF ResponseComplete, TypeOK
  <2> QED
    BY <2>3, <2>4
<1> QED
  BY <1>4, <1>5, <1>6, <1>8, <1>9, <1>10, <1>11, <1>12, ZenonT(30)

(* A message whose records are those of one message, all of them.          *)
Whole(d) ==
  d # <<>> =>
    /\ Len(d) = d[1].of
    /\ \A i \in DOMAIN d : d[i].part = i /\ d[i].call = d[1].call /\ d[i].what = d[1].what

(* A reassembled message is a whole one.                                   *)
LEMMA WholeFacts ==
  ASSUME NEW d \in Seq(Records), d # <<>>, NEW w, NEW c,
         \A i \in 1..Len(d) : PartOf(d[i], w, Len(d), c) /\ d[i].part = i
  PROVE  Whole(d) /\ d[1].call = c
<1> DEFINE k == Len(d)
<1>1. DOMAIN d = 1..k /\ 1 \in 1..k
  BY LenProperties, TailFacts
<1>2. \A i \in 1..k : d[i].part = i /\ d[i].of = k /\ d[i].call = c /\ d[i].what = w
  BY ZenonT(30) DEF PartOf
<1> HIDE DEF k
<1>3. d[1].of = k /\ d[1].call = c /\ d[1].what = w
  BY <1>1, <1>2, ZenonT(30)
<1> QED
  BY <1>1, <1>2, <1>3, ZenonT(30) DEF Whole, k

-------------------------------------------------------------------------------
(* The steps of the session.                                               *)

Arrives == LogonAccepted \/ CallReturns \/ CallbackArrives \/ MessageUnusable

(* A message arrives: the session is ready or closed, and nothing but what *)
(* the partner waits for is left.                                          *)
Delivery(w) ==
  /\ pc = "awaiting" /\ fromPeer # <<>> /\ fromPeer' = Tail(fromPeer)
  /\ UNCHANGED <<op, toPeer, peer>>
  /\ toPeer = <<>> /\ peer.out = <<>> /\ NoData'
  /\ w = "callback" => peer.waiting /\ peer.serving = op.n /\ op.kind = "call"
  /\ w # "callback" => ~peer.waiting /\ peer.serving = NoCall
  /\ setup' \in {"ready", "closed"} /\ closed' \in BOOLEAN /\ pending' = <<>>
  /\ fromPeer' \in Seq(Records) /\ delivered' \in Seq(Records) /\ Whole(delivered')
  /\ outcome' \in [1..MaxCalls -> Nat]
  /\ \A m \in 1..MaxCalls : outcome'[m] = outcome[m] \/ outcome'[m] \in {m, Failed}
  /\ authenticated' = authenticated \/ (authenticated' = TRUE /\ peer.loggedOn)
  /\ \/ pc' = "idle" /\ w = "reply"
     \/ pc' = "callback" /\ w = "callback"
     \/ pc' = "discard"

(* Every message that arrives is one of these.                             *)
LEMMA DeliveryFacts ==
  ASSUME TypeOK, PlaceInv, ShapeInv, AwaitInv, Arrives
  PROVE  \E w \in {"reply", "rejection", "callback"} : Delivery(w)
<1>1. PICK rec \in Range(fromPeer) :
        /\ MessageArrives(rec)
        /\ \/ /\ op.kind = "logon" /\ rec.what = "reply"
              /\ authenticated' = TRUE /\ pc' = "idle" /\ outcome' = outcome
           \/ /\ op.kind # "logon" /\ rec.what = "reply"
              /\ outcome' = [outcome EXCEPT ![op.n] = delivered'[1].call]
              /\ pc' = "idle" /\ authenticated' = authenticated
           \/ /\ op.kind = "call" /\ rec.what = "callback"
              /\ pc' = "callback" /\ authenticated' = authenticated /\ outcome' = outcome
           \/ /\ rec.what \notin {"reply", "callback"} \/ (rec.what = "callback" /\ ~(op.kind = "call" /\ HasHandler))
              /\ Fails(op.n, op.kind) /\ authenticated' = authenticated
  BY ZenonT(60) DEF Arrives, LogonAccepted, CallReturns, CallbackArrives, MessageUnusable
<1>2. PICK w \in {"reply", "rejection", "callback"}, k \in 1..MaxParts, s \in 0..MaxParts :
        /\ Answered(w, k, s) /\ rec.what = w
        /\ toPeer = <<>> /\ peer.out = <<>> /\ NoData'
        /\ delivered' \in Seq(Records) /\ Len(delivered') = k
        /\ \A i \in 1..k : PartOf(delivered'[i], w, k, op.n) /\ delivered'[i].part = i
        /\ pending' = <<>> /\ setup' \in {"ready", "closed"} /\ closed' \in BOOLEAN
  BY <1>1, ArrivesFacts, ZenonT(30)
<1>3. /\ pc = "awaiting" /\ fromPeer # <<>> /\ fromPeer' = Tail(fromPeer) /\ fromPeer' \in Seq(Records)
      /\ op' = op /\ toPeer' = toPeer /\ peer' = peer
  <2>1. Incoming(rec)
    BY <1>1, ZenonT(30) DEF MessageArrives
  <2> QED
    BY <2>1, IncomingFacts, ZenonT(30)
<1>4. Whole(delivered') /\ delivered'[1].call = op.n
  <2>1. PICK d : d = delivered'
    OBVIOUS
  <2>2. d \in Seq(Records) /\ \A i \in 1..Len(d) : PartOf(d[i], w, Len(d), op.n) /\ d[i].part = i
    BY <1>2, <2>1, ZenonT(30)
  <2>3. d # <<>>
    <3>1. Len(d) \in 1..MaxParts
      BY <1>2, <2>1, ZenonT(30)
    <3> QED
      BY <3>1, Numbers, EmptySeq
  <2>4. Whole(d) /\ d[1].call = op.n
    BY <2>2, <2>3, WholeFacts, ZenonT(30)
  <2> QED
    BY <2>1, <2>4, ZenonT(30) DEF Whole
<1>5. /\ w = "callback" => peer.waiting /\ peer.serving = op.n /\ op.kind = "call"
      /\ w # "callback" => ~peer.waiting /\ peer.serving = NoCall
      /\ w = "rejection" => op.n = 0
      /\ w = "reply" /\ op.n = 0 => peer.loggedOn
  BY <1>2, ZenonT(30) DEF Answered
<1>6. /\ op.n \in 0..MaxCalls /\ ((op.kind = "logon") <=> (op.n = 0)) /\ outcome \in [1..MaxCalls -> Nat]
  BY Fields, ZenonT(30) DEF TypeOK
<1> DEFINE Tells == /\ outcome' \in [1..MaxCalls -> Nat]
                    /\ \A m \in 1..MaxCalls : outcome'[m] = outcome[m] \/ outcome'[m] \in {m, Failed}
                    /\ authenticated' = authenticated \/ (authenticated' = TRUE /\ peer.loggedOn)
                    /\ \/ pc' = "idle" /\ w = "reply"
                       \/ pc' = "callback" /\ w = "callback"
                       \/ pc' = "discard"
<1>7. Tells
  <2>1. CASE /\ op.kind = "logon" /\ w = "reply"
             /\ authenticated' = TRUE /\ pc' = "idle" /\ outcome' = outcome
    BY <1>5, <1>6, <2>1, ZenonT(30)
  <2>2. CASE /\ op.kind # "logon" /\ w = "reply"
             /\ outcome' = [outcome EXCEPT ![op.n] = delivered'[1].call]
             /\ pc' = "idle" /\ authenticated' = authenticated
    <3>1. outcome' = [outcome EXCEPT ![op.n] = op.n] /\ op.n \in 1..MaxCalls /\ op.n \in Nat
      BY <1>4, <1>6, <2>2, Numbers
    <3>2. /\ outcome' \in [1..MaxCalls -> Nat]
          /\ \A m \in 1..MaxCalls : outcome'[m] = outcome[m] \/ outcome'[m] \in {m, Failed}
      BY <1>6, <3>1
    <3> QED
      BY <2>2, <3>2, ZenonT(30)
  <2>3. CASE /\ op.kind = "call" /\ w = "callback"
             /\ pc' = "callback" /\ authenticated' = authenticated /\ outcome' = outcome
    BY <1>6, <2>3, ZenonT(30)
  <2>4. CASE /\ w \notin {"reply", "callback"} \/ w = "callback"
             /\ Fails(op.n, op.kind) /\ authenticated' = authenticated
    <3>1. op.kind # "raw"
      <4>1. CASE w = "callback"
        BY <1>5, <4>1
      <4>2. CASE w # "callback"
        <5>1. w = "rejection"
          BY <2>4, <4>2, ZenonT(30)
        <5> QED
          BY <1>5, <1>6, <5>1
      <4> QED
        BY <4>1, <4>2
    <3>2. /\ outcome' \in [1..MaxCalls -> Nat] /\ pc' = "discard"
          /\ \A m \in 1..MaxCalls : outcome'[m] = outcome[m] \/ outcome'[m] = Failed
      BY <1>6, <2>4, <3>1, FailsFacts, ZenonT(30)
    <3> QED
      BY <2>4, <3>2, ZenonT(30)
  <2> QED
    BY <1>1, <1>2, <2>1, <2>2, <2>3, <2>4, ZenonT(30)
<1>8. Delivery(w)
  BY <1>2, <1>3, <1>4, <1>5, <1>7, ZenonT(30) DEF Delivery
<1> QED
  BY <1>8

(* A record is held: the decoder has it, and the message is still the only *)
(* one under way.                                                          *)
LEMMA HeldFacts ==
  ASSUME TypeOK, PlaceInv, ShapeInv, AwaitInv, RecordHeld
  PROVE  /\ UNCHANGED <<authenticated, closed, pc, op, outcome, delivered, toPeer, peer>>
         /\ pc = "awaiting" /\ fromPeer # <<>> /\ fromPeer' = Tail(fromPeer) /\ fromPeer' \in Seq(Records)
         /\ setup' = "response-pending"
         /\ \E rec \in Records : /\ rec = fromPeer[1] /\ Incoming(rec) /\ ~Refused(rec) /\ ~rec.final
                                 /\ pending' = Append(pending, rec) /\ pending' \in Seq(Records)
<1>1. PICK rec \in Range(fromPeer) :
        /\ Incoming(rec) /\ ~Refused(rec) /\ ~CompletesMessage(rec)
        /\ setup' = AfterReceived(setup, rec) /\ pending' = Pushed(pending, rec)
        /\ UNCHANGED <<authenticated, closed, pc, outcome, delivered>>
  BY ZenonT(30) DEF RecordHeld
<1>2. /\ pc = "awaiting" /\ fromPeer # <<>> /\ rec = fromPeer[1] /\ rec \in Records
      /\ fromPeer' = Tail(fromPeer) /\ fromPeer' \in Seq(Records)
      /\ op' = op /\ toPeer' = toPeer /\ peer' = peer /\ Append(pending, rec) \in Seq(Records)
  BY <1>1, IncomingFacts, ZenonT(30)
<1>3. rec.fc \in DataFunctions
  BY <1>1, TakenFacts, ZenonT(30)
<1>4. ~rec.final /\ rec.rc # "dealloc" /\ pending' = Append(pending, rec)
  BY <1>1, <1>3, ZenonT(30) DEF CompletesMessage, Pushed
<1>5. setup' = "response-pending"
  <2>1. setup = "response-pending"
    BY <1>2 DEF PlaceInv
  <2>2. Disposition(setup, rec) # "refused"
    BY <1>1, ZenonT(30) DEF Refused
  <2>3. Disposition(setup, rec) # "normal-deallocation"
    BY <1>4 DEF Disposition
  <2> QED
    BY <1>1, <2>1, <2>2, <2>3, ReceivedFacts, ZenonT(30)
<1> QED
  BY <1>1, <1>2, <1>4, <1>5, ZenonT(30)

(* A request, or an answer, is on its way.                                 *)
Sends(what) ==
  /\ setup = "ready" /\ ~closed /\ setup' = "response-pending"
  /\ pending' = <<>> /\ pc' = "awaiting"
  /\ toPeer' = Append(toPeer, [fc |-> "SapSend", what |-> what, call |-> op'.n])
  /\ toPeer' \in Seq(Requests)
  /\ UNCHANGED <<authenticated, closed, delivered, fromPeer, peer, outcome>>
  /\ op' \in Operations /\ ((op'.kind = "logon") <=> (op'.n = 0))
  /\ \/ what = "request" /\ pc \in {"logon", "idle"}
     \/ what = "answer" /\ pc = "answer" /\ op' = op

(* The handler has an answer.                                              *)
Handles ==
  /\ pc = "callback" /\ pc' = "answer"
  /\ op' \in Operations /\ op'.n = op.n /\ op'.kind = op.kind
  /\ UNCHANGED <<setup, authenticated, closed, pending, outcome, delivered, toPeer, fromPeer, peer>>

Opens == Dial \/ GatewayReply \/ InitializeReply \/ AllocateReply
Intrudes == PeerPings \/ PeerStrays

(* What a request or an answer that is written does.                       *)
LEMMA AsksFacts ==
  ASSUME TypeOK,
         \/ \E n \in 0..MaxCalls, kind \in Kinds, large \in BOOLEAN : Request(n, kind, large) /\ pc' = "awaiting"
         \/ SendAnswer /\ pc' = "awaiting"
  PROVE  \E what \in {"request", "answer"} : Sends(what)
<1>1. ASSUME NEW n \in 0..MaxCalls, NEW kind, Fails(n, kind), pc' = "awaiting"
      PROVE  FALSE
  BY <1>1, FailsFacts
<1>2. CASE \E n \in 0..MaxCalls, kind \in Kinds, large \in BOOLEAN : Request(n, kind, large) /\ pc' = "awaiting"
  <2>1. PICK n \in 0..MaxCalls, kind \in Kinds, large \in BOOLEAN : Request(n, kind, large) /\ pc' = "awaiting"
    BY <1>2
  <2>2. /\ pc \in {"logon", "idle"}
        /\ op' \in Operations /\ ((op'.kind = "logon") <=> (op'.n = 0)) /\ op'.n = n /\ op'.kind = kind
        /\ UNCHANGED <<authenticated, closed, delivered, fromPeer, peer>>
        /\ setup = "ready" /\ ~closed /\ SendData("request")
    BY <1>1, <2>1, RequestFacts, ZenonT(30)
  <2>3. ~Fails(op'.n, op'.kind)
    BY <1>1, <2>1, <2>2, ZenonT(30)
  <2>4. /\ setup' = "response-pending" /\ pending' = <<>>
        /\ toPeer' = Append(toPeer, [fc |-> "SapSend", what |-> "request", call |-> op'.n])
        /\ toPeer' \in Seq(Requests) /\ pc' = "awaiting" /\ outcome' = outcome
    BY <2>2, <2>3, SendFacts, ZenonT(30)
  <2>5. Sends("request")
    BY <2>2, <2>4, ZenonT(30) DEF Sends
  <2> QED
    BY <2>5
<1>3. CASE SendAnswer /\ pc' = "awaiting"
  <2>1. op \in Operations /\ ((op.kind = "logon") <=> (op.n = 0)) /\ op.n \in 0..MaxCalls
    BY Fields DEF TypeOK
  <2>2. /\ pc = "answer" /\ op' = op /\ op' \in Operations
        /\ UNCHANGED <<authenticated, closed, delivered, fromPeer, peer>>
        /\ setup = "ready" /\ ~closed /\ SendData("answer")
    BY <1>1, <1>3, <2>1, AnswerFacts, ZenonT(30)
  <2>3. ~Fails(op'.n, op'.kind)
    BY <1>1, <1>3, <2>1, <2>2, ZenonT(30)
  <2>4. /\ setup' = "response-pending" /\ pending' = <<>>
        /\ toPeer' = Append(toPeer, [fc |-> "SapSend", what |-> "answer", call |-> op'.n])
        /\ toPeer' \in Seq(Requests) /\ pc' = "awaiting" /\ outcome' = outcome
    BY <2>2, <2>3, SendFacts, ZenonT(30)
  <2>5. Sends("answer")
    BY <2>1, <2>2, <2>4, ZenonT(30) DEF Sends
  <2> QED
    BY <2>5
<1> QED
  BY <1>2, <1>3

(* What a handler that returns an answer does.                             *)
LEMMA HandlesFacts ==
  ASSUME TypeOK, HandlerReturns, pc' = "answer"
  PROVE  Handles
<1>1. op \in Operations /\ op.n \in 0..MaxCalls
  BY Fields DEF TypeOK
<1>2. ~Fails(op.n, op.kind)
  BY <1>1, FailsFacts
<1>3. PICK large \in BOOLEAN : op' = [op EXCEPT !.large = large] /\ outcome' = outcome
  BY <1>2, ZenonT(30) DEF HandlerReturns
<1>4. op' \in Operations /\ op'.n = op.n /\ op'.kind = op.kind
  BY <1>1, <1>3, ZenonT(30) DEF Operations
<1> QED
  BY <1>3, <1>4, ZenonT(30) DEF HandlerReturns, Handles

(* Every step is of one of these shapes.                                   *)
LEMMA Shapes ==
  ASSUME TypeOK, PlaceInv, ShapeInv, AwaitInv, [Next]_vars
  PROVE  \/ Opens
         \/ Ends /\ delivered' = delivered
         \/ \E what \in {"request", "answer"} : Sends(what)
         \/ RecordHeld
         \/ \E w \in {"reply", "rejection", "callback"} : Delivery(w)
         \/ Handles
         \/ PeerReads \/ PeerReplies \/ PeerCallsBack \/ PeerSends \/ Intrudes \/ PeerGoesAway
         \/ UNCHANGED vars
<1>1. CASE Arrives
  BY <1>1, DeliveryFacts, Zenon
<1>2. CASE OpenFails \/ Close
  BY <1>2, StopFacts, Zenon
<1>3. CASE \E n \in 0..MaxCalls, kind \in Kinds, large \in BOOLEAN : Request(n, kind, large)
  BY <1>3, FailureFacts, AsksFacts, ZenonT(30)
<1>4. CASE ReceiveFails \/ RecordRefused
  BY <1>4, FailureFacts, ZenonT(30)
<1>5. CASE SendAnswer
  BY <1>5, FailureFacts, AsksFacts, ZenonT(30)
<1>6. CASE HandlerReturns
  BY <1>6, FailureFacts, HandlesFacts, ZenonT(30)
<1> QED
  BY <1>1, <1>2, <1>3, <1>4, <1>5, <1>6, ZenonT(60)
  DEF Next, ClientStep, PeerStep, Finished, Opens, Intrudes, Arrives

===============================================================================
