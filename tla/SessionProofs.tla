---------------------------- MODULE SessionProofs -----------------------------
(***************************************************************************)
(* Proofs about Session, for any number of operations, messages of any     *)
(* length, any number of callbacks and any limit on fragments.             *)
(***************************************************************************)
EXTENDS SessionFacts, FiniteSetTheorems

USE SMTT(30)

-------------------------------------------------------------------------------
(* The invariant is kept by every step.                                    *)

(* What is left after a read was on its way before.                        *)
LEMMA LeftOnWire ==
  ASSUME TypeOK, fromPeer' = fromPeer \/ (fromPeer # <<>> /\ fromPeer' = Tail(fromPeer))
  PROVE  \A i \in 1..Len(fromPeer') : \E j \in 1..Len(fromPeer) : fromPeer'[i] = fromPeer[j]
<1>1. fromPeer \in Seq(Records)
  BY DEF TypeOK
<1>2. CASE fromPeer' = fromPeer
  BY <1>2, Zenon
<1>3. CASE fromPeer # <<>> /\ fromPeer' = Tail(fromPeer)
  <2>1. \A i \in 1..Len(Tail(fromPeer)) : \E j \in 1..Len(fromPeer) : Tail(fromPeer)[i] = fromPeer[j]
    BY <1>1, <1>3, TailElements, ZenonT(30)
  <2> QED
    BY <1>3, <2>1, ZenonT(30)
<1> QED
  BY <1>2, <1>3

(* What is on its way after a record is sent is that record or was there.  *)
LEMMA AddedOnWire ==
  ASSUME TypeOK, NEW rec \in Records, fromPeer' = Append(fromPeer, rec)
  PROVE  \A i \in 1..Len(fromPeer') : fromPeer'[i] = rec \/ \E j \in 1..Len(fromPeer) : fromPeer'[i] = fromPeer[j]
<1>1. fromPeer \in Seq(Records)
  BY DEF TypeOK
<1>2. \A i \in 1..Len(Append(fromPeer, rec)) :
        Append(fromPeer, rec)[i] = rec \/ \E j \in 1..Len(fromPeer) : Append(fromPeer, rec)[i] = fromPeer[j]
  BY <1>1, AppendElements
<1> QED
  BY <1>2, ZenonT(30)

(* What an operation returned stays, and a new outcome is its own.         *)
LEMMA MatchStep ==
  ASSUME ReplyMatchesCall, Whole(delivered) => Whole(delivered'),
         \A m \in 1..MaxCalls : outcome'[m] = outcome[m] \/ outcome'[m] \in {m, Failed}
  PROVE  ReplyMatchesCall'
<1>1. Whole(delivered)
  BY ZenonT(30) DEF ReplyMatchesCall, Whole
<1>2. Whole(delivered')
  BY <1>1
<1>3. \A m \in 1..MaxCalls : outcome'[m] \notin {Unset, Failed} => outcome'[m] = m
  BY ZenonT(30) DEF ReplyMatchesCall
<1> QED
  BY <1>2, <1>3, ZenonT(30) DEF ReplyMatchesCall, Whole

(* An operation fails, or the session is closed.                           *)
LEMMA EndsStep ==
  ASSUME IInv, Ends, delivered' = delivered
  PROVE  IInv'
<1>1. /\ pc' \in {"idle", "discard", "closed"} /\ UNCHANGED <<authenticated, toPeer, peer>>
      /\ fromPeer' = fromPeer \/ (fromPeer # <<>> /\ fromPeer' = Tail(fromPeer))
  BY DEF Ends
<1>2. TypeOK'
  BY <1>1, ZenonT(30) DEF IInv, TypeOK, Ends
<1>3. PlaceInv'
  BY <1>1 DEF PlaceInv, Opening
<1>4. ShapeInv'
  <2>1. \A i \in 1..Len(fromPeer') : \E j \in 1..Len(fromPeer) : fromPeer'[i] = fromPeer[j]
    BY <1>1, LeftOnWire, ZenonT(30) DEF IInv
  <2> QED
    BY <1>1, <2>1, ZenonT(30) DEF IInv, ShapeInv, Shaped
<1>5. OpenInv'
  BY <1>1 DEF OpenInv, Opening
<1>6. RequestInv'
  BY <1>1, ZenonT(30) DEF IInv, RequestInv
<1>7. ReadyInv'
  <2>1. pc' \notin {"logon", "callback", "answer"}
    BY <1>1
  <2>2. pc' = "idle" /\ setup' = "ready" => pc = "idle" /\ setup = "ready" /\ fromPeer' = fromPeer
    BY DEF Ends
  <2>3. pc' = "idle" /\ setup' = "ready" => Silent' /\ peer'.serving = NoCall /\ ~peer'.waiting
    BY <1>1, <2>2, ZenonT(30) DEF IInv, ReadyInv, Silent, NoData
  <2> QED
    BY <2>1, <2>3, ZenonT(30) DEF ReadyInv
<1>8. AwaitInv'
  BY <1>1 DEF AwaitInv
<1>9. ReplyMatchesCall'
  BY MatchStep, ZenonT(30) DEF IInv, Ends
<1>10. AuthenticatedIsLoggedOn'
  BY <1>1, ZenonT(30) DEF IInv, AuthenticatedIsLoggedOn
<1> QED
  BY <1>2, <1>3, <1>4, <1>5, <1>6, <1>7, <1>8, <1>9, <1>10, ZenonT(30) DEF IInv

(* The queue of the handshake: its last record may be Allocate.            *)
LEMMA OpeningQueue ==
  ASSUME TypeOK, PlaceInv, OpenInv, Opens
  PROVE  \A i \in 1..Len(toPeer') : /\ toPeer'[i].what = "setup"
                                    /\ toPeer'[i].fc = "Allocate" => pc' \in {"allocate", "logon"} /\ i = Len(toPeer')
<1>1. /\ toPeer \in Seq(Requests) /\ Len(toPeer) \in Nat
      /\ \A fc : Setup(fc).what = "setup" /\ Setup(fc).fc = fc
      /\ \A fc \in {"NormalClient", "Initialize", "SetPartnerLuName", "Allocate"} : Setup(fc) \in Requests
  BY LenProperties DEF TypeOK, Setup, Requests
<1>2. pc \in Opening => \A i \in 1..Len(toPeer) : /\ toPeer[i].what = "setup"
                                                  /\ toPeer[i].fc = "Allocate" => pc = "allocate" /\ i = Len(toPeer)
  BY ZenonT(30) DEF OpenInv
<1>3. \/ toPeer' = <<Setup("NormalClient")>>
      \/ pc = "gateway" /\ toPeer' = Append(toPeer, Setup("Initialize"))
      \/ pc = "initialize" /\ pc' = "allocate" /\ toPeer' = toPeer \o <<Setup("SetPartnerLuName"), Setup("Allocate")>>
      \/ pc = "allocate" /\ pc' = "logon" /\ toPeer' = toPeer
  BY OpeningFacts, ZenonT(30) DEF Opens
<1>4. CASE toPeer' = <<Setup("NormalClient")>>
  <2>1. Len(toPeer') = 1 /\ toPeer'[1] = Setup("NormalClient")
    BY <1>4
  <2> QED
    BY <1>1, <2>1
<1>5. CASE pc = "gateway" /\ toPeer' = Append(toPeer, Setup("Initialize"))
  <2> DEFINE e == Setup("Initialize")
             q == Append(toPeer, e)
  <2>1. \A i \in 1..Len(toPeer') : toPeer'[i] = e \/ \E j \in 1..Len(toPeer) : toPeer'[i] = toPeer[j]
    <3>1. e \in Requests
      BY <1>1
    <3> HIDE DEF e
    <3>2. \A i \in 1..Len(q) : q[i] = e \/ \E j \in 1..Len(toPeer) : q[i] = toPeer[j]
      BY <1>1, <3>1, AppendElements
    <3>3. toPeer' = q
      BY <1>5 DEF e
    <3> QED
      BY <3>2, <3>3, ZenonT(30)
  <2>2. Setup("Initialize").what = "setup" /\ Setup("Initialize").fc # "Allocate"
    BY <1>1
  <2>3. \A j \in 1..Len(toPeer) : toPeer[j].what = "setup" /\ toPeer[j].fc # "Allocate"
    BY <1>2, <1>5 DEF Opening
  <2> QED
    BY <2>1, <2>2, <2>3, ZenonT(30)
<1>6. CASE pc = "initialize" /\ pc' = "allocate" /\ toPeer' = toPeer \o <<Setup("SetPartnerLuName"), Setup("Allocate")>>
  <2> DEFINE two == <<Setup("SetPartnerLuName"), Setup("Allocate")>>
  <2>1. two \in Seq(Requests) /\ Len(two) = 2 /\ two[1] = Setup("SetPartnerLuName") /\ two[2] = Setup("Allocate")
    BY <1>1
  <2> HIDE DEF two
  <2>2. /\ Len(toPeer') = Len(toPeer) + 2
        /\ \A i \in 1..Len(toPeer') : toPeer'[i] = IF i <= Len(toPeer) THEN toPeer[i] ELSE two[i - Len(toPeer)]
    BY <1>1, <1>6, <2>1, ConcatProperties DEF two
  <2>3. \A j \in 1..Len(toPeer) : toPeer[j].what = "setup" /\ toPeer[j].fc # "Allocate"
    BY <1>2, <1>6 DEF Opening
  <2>4. ASSUME NEW i \in 1..Len(toPeer')
        PROVE  \/ \E j \in 1..Len(toPeer) : toPeer'[i] = toPeer[j]
               \/ toPeer'[i] = Setup("SetPartnerLuName")
               \/ toPeer'[i] = Setup("Allocate") /\ i = Len(toPeer')
    <3>1. i \in 1..Len(toPeer) \/ i = Len(toPeer) + 1 \/ i = Len(toPeer) + 2
      BY <1>1, <2>2
    <3>2. CASE i \in 1..Len(toPeer)
      BY <1>1, <2>2, <3>2
    <3>3. CASE i = Len(toPeer) + 1
      BY <1>1, <2>1, <2>2, <3>3
    <3>4. CASE i = Len(toPeer) + 2
      BY <1>1, <2>1, <2>2, <3>4
    <3> QED
      BY <3>1, <3>2, <3>3, <3>4, Zenon
  <2>5. Setup("SetPartnerLuName").what = "setup" /\ Setup("SetPartnerLuName").fc # "Allocate" /\ Setup("Allocate").what = "setup"
    BY <1>1
  <2> QED
    BY <1>6, <2>3, <2>4, <2>5, ZenonT(30)
<1>7. CASE pc = "allocate" /\ pc' = "logon" /\ toPeer' = toPeer
  BY <1>2, <1>7, ZenonT(30) DEF Opening
<1> QED
  BY <1>3, <1>4, <1>5, <1>6, <1>7, Zenon

(* The handshake.                                                          *)
LEMMA OpensStep ==
  ASSUME IInv, Opens
  PROVE  IInv'
<1>1. TypeOK /\ PlaceInv /\ ShapeInv /\ OpenInv
  BY DEF IInv
<1>2. /\ UNCHANGED <<authenticated, closed, op, pending, outcome, delivered, peer>>
      /\ toPeer' \in Seq(Requests) /\ fromPeer' \in Seq(Records)
      /\ fromPeer' = fromPeer \/ (fromPeer # <<>> /\ fromPeer' = Tail(fromPeer))
      /\ \/ pc = "dial" /\ pc' = "gateway" /\ setup' = setup
         \/ pc = "gateway" /\ pc' = "initialize" /\ setup' = "initialize-pending"
         \/ pc = "initialize" /\ pc' = "allocate" /\ setup' = "allocate-pending"
         \/ /\ pc = "allocate" /\ pc' = "logon" /\ setup' = "ready"
            /\ fromPeer # <<>> /\ fromPeer[1].fc = "Allocate" /\ toPeer' = toPeer
  BY <1>1, OpeningFacts, ZenonT(30) DEF Opens
<1>3. \A i \in 1..Len(fromPeer') : \E j \in 1..Len(fromPeer) : fromPeer'[i] = fromPeer[j]
  BY <1>1, <1>2, LeftOnWire, ZenonT(30)
<1>4. \A i \in 1..Len(toPeer') : /\ toPeer'[i].what = "setup"
                                 /\ toPeer'[i].fc = "Allocate" => pc' \in {"allocate", "logon"} /\ i = Len(toPeer')
  BY <1>1, OpeningQueue, ZenonT(30)
<1>5. pc \in Opening /\ pc' \in {"gateway", "initialize", "allocate", "logon"}
  BY <1>2 DEF Opening
<1>6. TypeOK'
  <2>1. setup' \in SetupStates
    BY <1>1, <1>2 DEF SetupStates, TypeOK
  <2>2. pc' \in Opening \cup {"logon", "idle", "awaiting", "callback", "answer", "discard", "closed"}
    BY <1>5 DEF Opening
  <2> QED
    BY <1>1, <1>2, <2>1, <2>2, ZenonT(30) DEF TypeOK
<1>7. PlaceInv'
  BY <1>1, <1>2, <1>5 DEF PlaceInv, Opening
<1>8. ShapeInv'
  BY <1>1, <1>2, <1>3, ZenonT(30) DEF ShapeInv, Shaped
<1>9. peer.serving = NoCall /\ ~peer.waiting /\ NoData'
  <2>1. peer.serving = NoCall /\ ~peer.waiting /\ \A i \in 1..Len(fromPeer) : ~OursData(fromPeer[i])
    BY <1>1, <1>5, ZenonT(30) DEF OpenInv, NoData
  <2>2. \A i \in 1..Len(fromPeer') : ~OursData(fromPeer'[i])
    BY <1>3, <2>1, ZenonT(30)
  <2> QED
    BY <2>1, <2>2, ZenonT(30) DEF NoData
<1>10. OpenInv'
  <2>1. CASE pc' = "logon"
    BY <2>1 DEF OpenInv, Opening
  <2>2. CASE pc' # "logon"
    <3>1. pc # "allocate"
      BY <1>2, <2>2
    <3>2. /\ \A i \in 1..Len(peer.out) : peer.out[i].part = 0 /\ peer.out[i].fc # "Allocate"
          /\ \A i \in 1..Len(fromPeer) : fromPeer[i].fc # "Allocate"
          /\ Len(peer.out) <= 1
      BY <1>1, <1>5, <3>1, ZenonT(30) DEF OpenInv
    <3>3. \A i \in 1..Len(fromPeer') : fromPeer'[i].fc # "Allocate"
      BY <1>3, <3>2, ZenonT(30)
    <3>4. \A i \in 1..Len(toPeer') : /\ toPeer'[i].what = "setup"
                                     /\ toPeer'[i].fc = "Allocate" => pc' = "allocate" /\ i = Len(toPeer')
      BY <1>4, <2>2, ZenonT(30)
    <3> QED
      BY <1>2, <1>9, <3>2, <3>3, <3>4, ZenonT(30) DEF OpenInv
  <2> QED
    BY <2>1, <2>2
<1>11. RequestInv'
  BY <1>4, ZenonT(30) DEF RequestInv
<1>12. ReadyInv'
  <2>1. CASE pc' = "logon"
    <3>1. pc = "allocate" /\ fromPeer # <<>> /\ fromPeer[1].fc = "Allocate" /\ toPeer' = toPeer
      BY <1>2, <2>1
    <3>2. 1 \in 1..Len(fromPeer)
      BY <1>1, <3>1, TailFacts DEF TypeOK
    <3>3. toPeer = <<>> /\ peer.out = <<>>
      BY <1>1, <1>5, <3>1, <3>2, ZenonT(30) DEF OpenInv
    <3> QED
      BY <1>2, <1>9, <2>1, <3>1, <3>3, ZenonT(30) DEF ReadyInv, Silent
  <2>2. CASE pc' # "logon"
    BY <1>5, <2>2 DEF ReadyInv
  <2> QED
    BY <2>1, <2>2
<1>13. AwaitInv'
  BY <1>5 DEF AwaitInv
<1>14. ReplyMatchesCall'
  BY <1>2, ZenonT(30) DEF IInv, ReplyMatchesCall
<1>15. AuthenticatedIsLoggedOn'
  BY <1>2, ZenonT(30) DEF IInv, AuthenticatedIsLoggedOn
<1> QED
  BY <1>6, <1>7, <1>8, <1>10, <1>11, <1>12, <1>13, <1>14, <1>15, ZenonT(30) DEF IInv

(* A request or an answer is written.                                      *)
LEMMA SendsStep ==
  ASSUME IInv, NEW what \in {"request", "answer"}, Sends(what)
  PROVE  IInv'
<1>1. TypeOK /\ PlaceInv /\ ShapeInv /\ ReadyInv
  BY DEF IInv
<1>2. /\ setup = "ready" /\ setup' = "response-pending" /\ pending' = <<>> /\ pc' = "awaiting"
      /\ toPeer' \in Seq(Requests)
      /\ UNCHANGED <<authenticated, closed, delivered, fromPeer, peer, outcome>>
      /\ op' \in Operations /\ ((op'.kind = "logon") <=> (op'.n = 0))
      /\ \/ what = "request" /\ pc \in {"logon", "idle"}
         \/ what = "answer" /\ pc = "answer" /\ op' = op
  BY ZenonT(30) DEF Sends
<1>3. /\ Silent
      /\ \/ what = "request" /\ peer.serving = NoCall /\ ~peer.waiting
         \/ what = "answer" /\ peer.serving = op.n /\ peer.waiting /\ op' = op
  BY <1>1, <1>2, ZenonT(30) DEF ReadyInv
<1>4. /\ Len(toPeer') = 1 /\ toPeer'[1].what = what /\ toPeer'[1].call = op'.n
  <2> DEFINE e == [fc |-> "SapSend", what |-> what, call |-> op'.n]
  <2>1. e.what = what /\ e.call = op'.n
    OBVIOUS
  <2>2. toPeer' = Append(toPeer, e) /\ toPeer = <<>>
    BY <1>3 DEF Sends, Silent
  <2> HIDE DEF e
  <2>3. Len(toPeer') = 1 /\ toPeer'[1] = e
    BY <2>2
  <2> QED
    BY <2>1, <2>3
<1>5. TypeOK'
  <2>1. setup' \in SetupStates /\ pending' \in Seq(Records)
    BY <1>2, EmptySeq DEF SetupStates
  <2>2. pc' \in Opening \cup {"logon", "idle", "awaiting", "callback", "answer", "discard", "closed"}
    BY <1>2
  <2> QED
    BY <1>1, <1>2, <2>1, <2>2, ZenonT(30) DEF TypeOK
<1>6. PlaceInv'
  BY <1>2 DEF PlaceInv, Opening
<1>7. ShapeInv'
  BY <1>1, <1>2, ZenonT(30) DEF ShapeInv
<1>8. OpenInv' /\ ReadyInv'
  BY <1>2 DEF OpenInv, ReadyInv, Opening
<1>9. RequestInv'
  <2>1. op.n # NoCall
    BY <1>1, Fields, Numbers
  <2> QED
    BY <1>2, <1>3, <1>4, <2>1, ZenonT(30) DEF RequestInv
<1>10. AwaitInv'
  <2>1. (Got = 0)'
    BY <1>2 DEF Got
  <2>2. Asked'
    BY <1>2, <1>3, <1>4, <2>1, ZenonT(30) DEF Asked, Silent, NoData
  <2> QED
    BY <2>2, ZenonT(30) DEF AwaitInv
<1>11. ReplyMatchesCall'
  BY <1>2, ZenonT(30) DEF IInv, ReplyMatchesCall
<1>12. AuthenticatedIsLoggedOn'
  BY <1>2, ZenonT(30) DEF IInv, AuthenticatedIsLoggedOn
<1> QED
  BY <1>5, <1>6, <1>7, <1>8, <1>9, <1>10, <1>11, <1>12, ZenonT(30) DEF IInv

(* The handler of a callback has an answer.                                *)
LEMMA HandlesStep ==
  ASSUME IInv, Handles
  PROVE  IInv'
<1>1. TypeOK /\ PlaceInv /\ ShapeInv /\ RequestInv /\ ReadyInv
  BY DEF IInv
<1>2. /\ pc = "callback" /\ pc' = "answer"
      /\ op' \in Operations /\ op'.n = op.n /\ op'.kind = op.kind
      /\ UNCHANGED <<setup, authenticated, closed, pending, outcome, delivered, toPeer, fromPeer, peer>>
  BY DEF Handles
<1>3. TypeOK'
  BY <1>1, <1>2, ZenonT(30) DEF TypeOK
<1>4. PlaceInv'
  BY <1>1, <1>2 DEF PlaceInv, Opening
<1>5. ShapeInv' /\ RequestInv'
  BY <1>1, <1>2, ZenonT(30) DEF ShapeInv, RequestInv
<1>6. OpenInv' /\ AwaitInv'
  BY <1>2 DEF OpenInv, AwaitInv, Opening
<1>7. ReadyInv'
  BY <1>1, <1>2, ZenonT(30) DEF ReadyInv, Silent, NoData
<1>8. ReplyMatchesCall'
  BY <1>2, ZenonT(30) DEF IInv, ReplyMatchesCall
<1>9. AuthenticatedIsLoggedOn'
  BY <1>2, ZenonT(30) DEF IInv, AuthenticatedIsLoggedOn
<1> QED
  BY <1>3, <1>4, <1>5, <1>6, <1>7, <1>8, <1>9, ZenonT(30) DEF IInv

(* A message arrives.                                                      *)
LEMMA DeliveryStep ==
  ASSUME IInv, NEW w \in {"reply", "rejection", "callback"}, Delivery(w)
  PROVE  IInv'
<1>1. TypeOK /\ PlaceInv /\ ShapeInv /\ RequestInv
  BY DEF IInv
<1>2. /\ fromPeer # <<>> /\ fromPeer' = Tail(fromPeer) /\ UNCHANGED <<op, toPeer, peer>>
      /\ toPeer = <<>> /\ peer.out = <<>> /\ NoData'
      /\ w = "callback" => peer.waiting /\ peer.serving = op.n /\ op.kind = "call"
      /\ w # "callback" => ~peer.waiting /\ peer.serving = NoCall
      /\ setup' \in {"ready", "closed"} /\ closed' \in BOOLEAN /\ pending' = <<>>
      /\ fromPeer' \in Seq(Records) /\ delivered' \in Seq(Records) /\ Whole(delivered')
      /\ outcome' \in [1..MaxCalls -> Nat]
      /\ \A m \in 1..MaxCalls : outcome'[m] = outcome[m] \/ outcome'[m] \in {m, Failed}
      /\ authenticated' = authenticated \/ (authenticated' = TRUE /\ peer.loggedOn)
  BY ZenonT(30) DEF Delivery
<1>3. \/ pc' = "idle" /\ w = "reply"
      \/ pc' = "callback" /\ w = "callback"
      \/ pc' = "discard"
  BY ZenonT(30) DEF Delivery
<1>4. TypeOK'
  <2>1. setup' \in SetupStates /\ pending' \in Seq(Records)
    BY <1>2, EmptySeq DEF SetupStates
  <2>2. pc' \in Opening \cup {"logon", "idle", "awaiting", "callback", "answer", "discard", "closed"}
    BY <1>3
  <2>3. authenticated' \in BOOLEAN
    BY <1>1, <1>2, ZenonT(30) DEF TypeOK
  <2> QED
    BY <1>1, <1>2, <2>1, <2>2, <2>3, ZenonT(30) DEF TypeOK
<1>5. PlaceInv'
  BY <1>2, <1>3 DEF PlaceInv, Opening
<1>6. ShapeInv'
  <2>1. \A i \in 1..Len(fromPeer') : \E j \in 1..Len(fromPeer) : fromPeer'[i] = fromPeer[j]
    BY <1>1, <1>2, LeftOnWire, ZenonT(30)
  <2> QED
    BY <1>1, <1>2, <2>1, ZenonT(30) DEF ShapeInv, Shaped
<1>7. OpenInv' /\ AwaitInv'
  BY <1>3 DEF OpenInv, AwaitInv, Opening
<1>8. RequestInv'
  BY <1>1, <1>2, ZenonT(30) DEF RequestInv
<1>9. ReadyInv'
  <2>1. Silent'
    BY <1>2, ZenonT(30) DEF Silent
  <2>2. pc' \in {"logon", "idle"} => w = "reply"
    BY <1>3
  <2>3. pc' \in {"callback", "answer"} => w = "callback"
    BY <1>3
  <2> QED
    BY <1>2, <2>1, <2>2, <2>3, ZenonT(30) DEF ReadyInv
<1>10. ReplyMatchesCall'
  BY <1>2, MatchStep, ZenonT(30) DEF IInv
<1>11. AuthenticatedIsLoggedOn'
  BY <1>2, ZenonT(30) DEF IInv, AuthenticatedIsLoggedOn
<1> QED
  BY <1>4, <1>5, <1>6, <1>7, <1>8, <1>9, <1>10, <1>11, ZenonT(30) DEF IInv

(* A record of another conversation is held: nothing of the message is.    *)
LEMMA StrayHeld ==
  ASSUME TypeOK, AwaitInv, pc = "awaiting", NEW rec \in Records, rec = fromPeer[1], ~OursData(rec), rec.id # Ours,
         pending # <<>> => pending[1].id # Ours,
         fromPeer # <<>>, fromPeer' = Tail(fromPeer), pending' = Append(pending, rec),
         UNCHANGED <<op, toPeer, peer>>
  PROVE  AwaitInv'
<1>1. pending \in Seq(Records) /\ fromPeer \in Seq(Records)
  BY DEF TypeOK
<1>2. Got = 0
  BY GotFacts, ZenonT(30)
<1>3. (Got = 0)'
  <2>1. pending' # <<>>
    BY <1>1, AppendFacts
  <2>2. pending'[1].id # Ours
    <3>1. CASE pending = <<>>
      BY <3>1
    <3>2. CASE pending # <<>>
      <4>1. 1 \in 1..Len(pending)
        BY <1>1, <3>2, TailFacts
      <4>2. pending'[1] = pending[1]
        BY <1>1, <4>1, AppendFacts
      <4> QED
        BY <3>2, <4>2
    <3> QED
      BY <3>1, <3>2
  <2> QED
    BY <2>1, <2>2, ZenonT(30) DEF Got
<1>4. CASE Asked
  <2>1. \A i \in 1..Len(fromPeer') : \E j \in 1..Len(fromPeer) : fromPeer'[i] = fromPeer[j]
    BY LeftOnWire, ZenonT(30)
  <2>2. NoData'
    BY <1>4, <2>1, ZenonT(30) DEF Asked, NoData
  <2>3. Asked'
    BY <1>3, <1>4, <2>2, ZenonT(30) DEF Asked
  <2> QED
    BY <2>3, ZenonT(30) DEF AwaitInv
<1>5. CASE ~Asked
  <2>1. PICK w \in {"reply", "rejection", "callback"}, k \in 1..MaxParts, s \in 0..MaxParts : Answered(w, k, s)
    BY <1>5, ZenonT(30) DEF AwaitInv
  <2>2. s \in Nat /\ k \in Nat /\ 0 <= s /\ 0 < k
    BY Numbers
  <2>3. Flow(fromPeer, 0, s, w, k, op.n)
    BY <1>2, <2>1, ZenonT(30) DEF Answered
  <2>4. Flow(Tail(fromPeer), 0, s, w, k, op.n)
    BY <1>1, <2>2, <2>3, FlowSkip
  <2>5. Answered(w, k, s)'
    <3>1. /\ Got' <= s /\ Got' < k /\ ~(Got' > 0)
      BY <1>3, <2>2
    <3>2. Flow(fromPeer', Got', s, w, k, op.n)
      BY <1>3, <2>4, ZenonT(30)
    <3> QED
      BY <2>1, <3>1, <3>2, ZenonT(30) DEF Answered
  <2> QED
    BY <2>5, ZenonT(30) DEF AwaitInv
<1> QED
  BY <1>4, <1>5

(* The next record of the message is held.                                 *)
LEMMA OursHeld ==
  ASSUME TypeOK, PlaceInv, ShapeInv, AwaitInv, NEW rec, Incoming(rec), ~Refused(rec), rec.id = Ours, ~rec.final,
         pending' = Append(pending, rec), pending' \in Seq(Records)
  PROVE  AwaitInv'
<1>1. fromPeer' = Tail(fromPeer) /\ UNCHANGED <<op, toPeer, peer>>
  BY IncomingFacts, ZenonT(30)
<1>2. PICK w \in {"reply", "rejection", "callback"}, k \in 1..MaxParts, s \in 0..MaxParts :
        /\ Answered(w, k, s) /\ PartOf(rec, w, k, op.n)
        /\ Got = Len(pending) /\ Len(pending) + 1 <= s /\ rec.part = Len(pending) + 1
        /\ Flow(Tail(fromPeer), Len(pending) + 1, s, w, k, op.n)
        /\ Append(pending, rec) \in Seq(Records) /\ Len(Append(pending, rec)) = Len(pending) + 1
        /\ \A i \in 1..Len(Append(pending, rec)) :
             PartOf(Append(pending, rec)[i], w, k, op.n) /\ Append(pending, rec)[i].part = i
  BY OursFacts, ZenonT(30)
<1>3. s \in Nat /\ k \in Nat /\ Len(pending) \in Nat
  BY Numbers, GotFacts
<1>4. /\ Len(pending') = Len(pending) + 1
      /\ \A i \in 1..Len(pending') : PartOf(pending'[i], w, k, op.n) /\ pending'[i].part = i
  BY <1>2, ZenonT(30)
<1>5. Got' = Len(pending) + 1
  <2>1. 1 \in 1..Len(pending')
    BY <1>3, <1>4
  <2>2. pending'[1].id = Ours
    BY <1>4, <2>1, ZenonT(30) DEF PartOf
  <2> QED
    BY <1>4, <2>2 DEF Got
<1>6. Got' <= s /\ Got' < k
  <2>1. rec.part # k
    BY <1>2, ZenonT(30) DEF PartOf
  <2>2. s <= k /\ Len(pending) + 1 <= s /\ rec.part = Len(pending) + 1
    BY <1>2, ZenonT(30) DEF Answered
  <2> QED
    BY <1>3, <1>5, <2>1, <2>2
<1>7. Flow(fromPeer', Got', s, w, k, op.n)
  BY <1>1, <1>2, <1>5, ZenonT(30)
<1>8. Answered(w, k, s)'
  BY <1>1, <1>2, <1>4, <1>6, <1>7, ZenonT(30) DEF Answered
<1> QED
  BY <1>8, ZenonT(30) DEF AwaitInv

(* A record is held.                                                       *)
LEMMA HeldStep ==
  ASSUME IInv, RecordHeld
  PROVE  IInv'
<1>1. TypeOK /\ PlaceInv /\ ShapeInv /\ RequestInv /\ AwaitInv
  BY DEF IInv
<1>2. /\ UNCHANGED <<authenticated, closed, pc, op, outcome, delivered, toPeer, peer>>
      /\ pc = "awaiting" /\ fromPeer # <<>> /\ fromPeer' = Tail(fromPeer) /\ fromPeer' \in Seq(Records)
      /\ setup' = "response-pending"
  BY <1>1, HeldFacts, ZenonT(30)
<1>3. PICK rec \in Records : /\ rec = fromPeer[1] /\ Incoming(rec) /\ ~Refused(rec) /\ ~rec.final
                             /\ pending' = Append(pending, rec) /\ pending' \in Seq(Records)
  BY <1>1, HeldFacts, ZenonT(30)
<1>4. TypeOK'
  <2>1. setup' \in SetupStates
    BY <1>2 DEF SetupStates
  <2> QED
    BY <1>1, <1>2, <1>3, <2>1, ZenonT(30) DEF TypeOK
<1>5. PlaceInv'
  BY <1>2 DEF PlaceInv, Opening
<1>6. ShapeInv'
  <2>1. \A i \in 1..Len(fromPeer') : \E j \in 1..Len(fromPeer) : fromPeer'[i] = fromPeer[j]
    BY <1>1, <1>2, LeftOnWire, ZenonT(30)
  <2> QED
    BY <1>1, <1>2, <2>1, ZenonT(30) DEF ShapeInv, Shaped
<1>7. OpenInv' /\ ReadyInv'
  BY <1>2 DEF OpenInv, ReadyInv, Opening
<1>8. RequestInv'
  BY <1>1, <1>2, ZenonT(30) DEF RequestInv
<1>9. AwaitInv'
  <2>1. CASE rec.id = Ours
    BY <1>1, <1>3, <2>1, OursHeld, ZenonT(30)
  <2>2. CASE rec.id # Ours
    <3>1. pending # <<>> => pending[1].id # Ours
      BY <1>1, <1>3, <2>2, TakenFacts, ZenonT(30)
    <3>2. ~OursData(rec)
      BY <2>2 DEF OursData
    <3> QED
      BY <1>1, <1>2, <1>3, <2>2, <3>1, <3>2, StrayHeld, ZenonT(30)
  <2> QED
    BY <2>1, <2>2
<1>10. ReplyMatchesCall'
  BY <1>2, ZenonT(30) DEF IInv, ReplyMatchesCall
<1>11. AuthenticatedIsLoggedOn'
  BY <1>2, ZenonT(30) DEF IInv, AuthenticatedIsLoggedOn
<1> QED
  BY <1>4, <1>5, <1>6, <1>7, <1>8, <1>9, <1>10, <1>11, ZenonT(30) DEF IInv

(* What no step of the partner touches.                                    *)
LEMMA PeerKeeps ==
  ASSUME IInv, UNCHANGED clientVars, toPeer' \in Seq(Requests), fromPeer' \in Seq(Records), peer' \in Peers,
         peer.loggedOn => peer'.loggedOn
  PROVE  TypeOK' /\ PlaceInv' /\ ReplyMatchesCall' /\ AuthenticatedIsLoggedOn'
<1>1. TypeOK /\ PlaceInv /\ ReplyMatchesCall /\ AuthenticatedIsLoggedOn
  BY DEF IInv
<1>2. UNCHANGED <<setup, authenticated, closed, connected, pc, op, pending, outcome, delivered>>
  BY DEF clientVars
<1>3. TypeOK'
  BY <1>1, <1>2, ZenonT(30) DEF TypeOK
<1>4. PlaceInv'
  BY <1>1, <1>2, ZenonT(30) DEF PlaceInv
<1>5. ReplyMatchesCall'
  BY <1>1, <1>2, ZenonT(30) DEF ReplyMatchesCall
<1>6. AuthenticatedIsLoggedOn'
  BY <1>1, <1>2, ZenonT(30) DEF AuthenticatedIsLoggedOn
<1> QED
  BY <1>3, <1>4, <1>5, <1>6

(* The partner reads a record.                                             *)
LEMMA ReadsStep ==
  ASSUME IInv, PeerReads
  PROVE  IInv'
<1>1. TypeOK /\ ShapeInv /\ OpenInv /\ RequestInv /\ ReadyInv /\ AwaitInv
  BY DEF IInv
<1>2. /\ UNCHANGED clientVars /\ fromPeer' = fromPeer
      /\ toPeer # <<>> /\ peer.out = <<>> /\ toPeer' = Tail(toPeer)
      /\ toPeer' \in Seq(Requests) /\ peer' \in Peers /\ peer'.loggedOn = peer.loggedOn
  BY <1>1, ReadsFacts, ZenonT(30)
<1>3. \/ /\ toPeer[1].what = "setup"
         /\ peer'.serving = peer.serving /\ peer'.waiting = peer.waiting
         /\ toPeer[1].fc \in {"NormalClient", "Initialize", "SetPartnerLuName", "Allocate"}
         /\ peer'.out = <<>> \/ \E rc \in {"ok", "error"} : peer'.out = <<Control(toPeer[1].fc, rc)>>
      \/ /\ toPeer[1].what # "setup" /\ peer'.out = <<>> /\ peer'.waiting = FALSE
         /\ peer'.serving = IF peer.waiting THEN peer.serving ELSE toPeer[1].call
  BY <1>1, ReadsFacts, ZenonT(30)
<1>4. setup' = setup /\ pc' = pc /\ op' = op /\ pending' = pending
  BY <1>2 DEF clientVars
<1>5. /\ Len(toPeer) \in Nat \ {0} /\ 1 \in 1..Len(toPeer) /\ Len(toPeer') = Len(toPeer) - 1
      /\ \A i \in 1..Len(toPeer') : toPeer'[i] = toPeer[i + 1] /\ i + 1 \in 1..Len(toPeer)
      /\ (Len(toPeer) = 1 => toPeer' = <<>>)
  <2>1. toPeer \in Seq(Requests)
    BY <1>1 DEF TypeOK
  <2> QED
    BY <1>2, <2>1, TailFacts
<1>6. TypeOK' /\ PlaceInv' /\ ReplyMatchesCall' /\ AuthenticatedIsLoggedOn'
  <2>1. fromPeer' \in Seq(Records)
    BY <1>1, <1>2, ZenonT(30) DEF TypeOK
  <2> QED
    BY <1>2, <2>1, PeerKeeps, ZenonT(30)
<1>7. /\ Len(peer'.out) <= 1
      /\ \A i \in 1..Len(peer'.out) :
           i = 1 /\ peer'.out[i].part = 0 /\ peer'.out[i].fc = toPeer[1].fc /\ Shaped(peer'.out[i])
  <2>1. CASE peer'.out = <<>>
    BY <2>1
  <2>2. CASE \E rc \in {"ok", "error"} : /\ peer'.out = <<Control(toPeer[1].fc, rc)>>
                                         /\ toPeer[1].fc \in {"NormalClient", "Initialize", "SetPartnerLuName", "Allocate"}
    <3>1. PICK rc \in {"ok", "error"} : peer'.out = <<Control(toPeer[1].fc, rc)>>
      BY <2>2
    <3>2. Len(peer'.out) = 1 /\ peer'.out[1] = Control(toPeer[1].fc, rc)
      BY <3>1
    <3>3. Control(toPeer[1].fc, rc).part = 0 /\ Control(toPeer[1].fc, rc).fc = toPeer[1].fc
      BY DEF Control
    <3>4. toPeer[1].fc \notin DataFunctions
      BY <2>2 DEF DataFunctions
    <3>5. Shaped(peer'.out[1])
      BY <3>2, <3>3, <3>4 DEF Shaped
    <3> QED
      BY <3>2, <3>3, <3>5
  <2> QED
    BY <1>3, <2>1, <2>2, ZenonT(30)
<1>8. ShapeInv'
  BY <1>1, <1>2, <1>7, ZenonT(30) DEF ShapeInv, Shaped
<1>9. OpenInv'
  <2> SUFFICES ASSUME pc \in Opening
               PROVE  OpenInv'
    BY <1>4, ZenonT(30) DEF OpenInv
  <2>1. /\ peer.serving = NoCall /\ ~peer.waiting /\ NoData
        /\ \A i \in 1..Len(toPeer) : toPeer[i].what = "setup"
        /\ \A i \in 1..Len(toPeer) : toPeer[i].fc = "Allocate" => pc = "allocate" /\ i = Len(toPeer)
        /\ \A i \in 1..Len(fromPeer) : fromPeer[i].fc # "Allocate"
    BY <1>1, <1>2, ZenonT(30) DEF OpenInv
  <2>2. peer'.serving = NoCall /\ ~peer'.waiting
    BY <1>3, <1>5, <2>1, ZenonT(30)
  <2>3. NoData'
    BY <1>2, <2>1, ZenonT(30) DEF NoData
  <2>4. \A i \in 1..Len(toPeer') : toPeer'[i].what = "setup"
    BY <1>5, <2>1, ZenonT(30)
  <2>5. \A i \in 1..Len(toPeer') : toPeer'[i].fc = "Allocate" => pc = "allocate" /\ i = Len(toPeer')
    BY <1>5, <2>1
  <2>6. toPeer[1].fc = "Allocate" => pc = "allocate" /\ toPeer' = <<>>
    BY <1>5, <2>1
  <2> QED
    BY <1>2, <1>4, <1>7, <2>1, <2>2, <2>3, <2>4, <2>5, <2>6, ZenonT(30) DEF OpenInv
<1>10. RequestInv'
  <2>1. CASE \A i \in 1..Len(toPeer) : toPeer[i].what = "setup"
    BY <1>5, <2>1, ZenonT(30) DEF RequestInv
  <2>2. CASE Len(toPeer) = 1
    <3>1. Len(toPeer') = 0
      BY <1>5, <2>2
    <3> QED
      BY <3>1 DEF RequestInv
  <2> QED
    BY <1>1, <2>1, <2>2, ZenonT(30) DEF RequestInv
<1>11. ReadyInv'
  <2>1. ~Silent
    BY <1>2, ZenonT(30) DEF Silent
  <2> QED
    BY <1>1, <1>4, <2>1, ZenonT(30) DEF ReadyInv
<1>12. AwaitInv'
  <2> SUFFICES ASSUME pc = "awaiting"
               PROVE  Asked'
    BY <1>4, ZenonT(30) DEF AwaitInv
  <2>1. Asked
    BY <1>1, <1>2, ZenonT(30) DEF AwaitInv, Answered
  <2>2. /\ Len(toPeer) = 1 /\ toPeer[1].call = op.n /\ toPeer[1].what # "setup"
        /\ (toPeer[1].what = "answer" => peer.serving = op.n) /\ NoData /\ Got = 0
    BY <1>2, <2>1, ZenonT(30) DEF Asked
  <2>3. toPeer' = <<>> /\ peer'.out = <<>> /\ peer'.waiting = FALSE
    BY <1>3, <1>5, <2>2, ZenonT(30)
  <2>4. peer.waiting => toPeer[1].what = "answer"
    BY <1>1, <1>5, <2>2, ZenonT(30) DEF RequestInv
  <2>5. peer'.serving = op.n
    BY <1>3, <2>2, <2>4, ZenonT(30)
  <2>6. NoData' /\ (Got = 0)'
    BY <1>2, <1>4, <2>2, ZenonT(30) DEF NoData, Got
  <2> QED
    BY <1>4, <2>3, <2>5, <2>6, ZenonT(30) DEF Asked
<1> QED
  BY <1>6, <1>8, <1>9, <1>10, <1>11, <1>12, ZenonT(30) DEF IInv

(* The function that the partner executes replies or calls back.           *)
LEMMA SpeaksStep ==
  ASSUME IInv, UNCHANGED <<clientVars, toPeer, fromPeer>>,
         peer.out = <<>>, peer.serving # NoCall, ~peer.waiting, peer' \in Peers,
         peer.loggedOn => peer'.loggedOn,
         NEW w \in {"reply", "rejection", "callback"}, NEW k \in 1..MaxParts,
         Rest(peer'.out, 0, w, k, peer.serving),
         w = "callback" => peer'.waiting /\ peer'.serving = peer.serving /\ op.kind = "call",
         w # "callback" => ~peer'.waiting /\ peer'.serving = NoCall,
         w = "rejection" => peer.serving = 0,
         w = "reply" /\ peer.serving = 0 => peer'.loggedOn
  PROVE  IInv'
<1>1. TypeOK /\ ShapeInv /\ OpenInv /\ RequestInv /\ ReadyInv /\ AwaitInv
  BY DEF IInv
<1>2. setup' = setup /\ pc' = pc /\ op' = op /\ pending' = pending /\ toPeer' = toPeer /\ fromPeer' = fromPeer
  BY DEF clientVars
<1>3. TypeOK' /\ PlaceInv' /\ ReplyMatchesCall' /\ AuthenticatedIsLoggedOn'
  <2>1. fromPeer' \in Seq(Records) /\ toPeer' \in Seq(Requests)
    BY <1>1, <1>2, ZenonT(30) DEF TypeOK
  <2> QED
    BY <2>1, PeerKeeps, ZenonT(30)
<1>4. ShapeInv'
  <2>1. \A i \in 1..Len(peer'.out) : Shaped(peer'.out[i])
    <3>1. \A i \in 1..Len(peer'.out) : peer'.out[i].part \in 1..k
      BY ZenonT(30) DEF Rest, PartOf
    <3>2. \A i \in 1..Len(peer'.out) : peer'.out[i].part > 0
      BY <3>1, Numbers
    <3> QED
      BY <3>2, ZenonT(30) DEF Shaped
  <2> QED
    BY <1>1, <1>2, <2>1, ZenonT(30) DEF ShapeInv, Shaped
<1>5. OpenInv'
  BY <1>1, <1>2, ZenonT(30) DEF OpenInv
<1>6. \A i \in 1..Len(toPeer) : toPeer[i].what = "setup"
  BY <1>1, ZenonT(30) DEF RequestInv
<1>7. RequestInv'
  BY <1>2, <1>6, ZenonT(30) DEF RequestInv
<1>8. ReadyInv'
  BY <1>1, <1>2, ZenonT(30) DEF ReadyInv
<1>9. AwaitInv'
  <2> SUFFICES ASSUME pc = "awaiting"
               PROVE  Answered(w, k, 0)'
    <3>1. 0 \in 0..MaxParts
      BY Numbers
    <3> QED
      BY <1>2, <3>1, ZenonT(30) DEF AwaitInv
  <2>1. Asked
    BY <1>1, ZenonT(30) DEF AwaitInv, Answered
  <2>2. toPeer = <<>> /\ peer.serving = op.n
    <3>1. Len(toPeer) = 1 => toPeer[1].what = "setup"
      BY <1>6
    <3> QED
      BY <2>1, <3>1, ZenonT(30) DEF Asked
  <2>3. Got' = 0 /\ k \in Nat /\ 0 < k
    BY <1>2, <2>1, Numbers DEF Asked, Got
  <2>4. Flow(fromPeer', 0, 0, w, k, op.n)
    <3>1. fromPeer \in Seq(Records)
      BY <1>1 DEF TypeOK
    <3>2. \A i \in 1..Len(fromPeer) : ~OursData(fromPeer[i])
      BY <2>1, ZenonT(30) DEF Asked, NoData
    <3>3. Flow(fromPeer, 0, 0, w, k, op.n)
      BY <3>1, <3>2, FlowNone, ZenonT(30)
    <3> QED
      BY <1>2, <3>3, ZenonT(30)
  <2>5. Got' <= 0 /\ Got' < k /\ 0 <= k /\ ~(Got' > 0)
    BY <2>3
  <2>6. Flow(fromPeer', Got', 0, w, k, op.n)
    BY <2>3, <2>4, ZenonT(30)
  <2>7. Rest(peer'.out, 0, w, k, op.n)
    BY <2>2, ZenonT(30)
  <2> QED
    BY <1>2, <2>2, <2>5, <2>6, <2>7, ZenonT(30) DEF Answered
<1> QED
  BY <1>3, <1>4, <1>5, <1>7, <1>8, <1>9, ZenonT(30) DEF IInv

(* The partner replies or calls back.                                      *)
LEMMA RepliesStep ==
  ASSUME IInv, PeerReplies \/ PeerCallsBack
  PROVE  IInv'
<1>1. TypeOK
  BY DEF IInv
<1>2. CASE PeerReplies
  <2>1. /\ UNCHANGED <<clientVars, toPeer, fromPeer>>
        /\ peer.out = <<>> /\ peer.serving # NoCall /\ ~peer.waiting
        /\ peer' \in Peers /\ peer'.serving = NoCall /\ peer'.waiting = FALSE
        /\ (peer.loggedOn => peer'.loggedOn)
    BY <1>1, <1>2, RepliesFacts, ZenonT(30)
  <2>2. PICK k \in 1..MaxParts, w \in {"reply", "rejection"} :
          /\ Rest(peer'.out, 0, w, k, peer.serving)
          /\ w = "rejection" => peer.serving = 0
          /\ w = "reply" /\ peer.serving = 0 => peer'.loggedOn
    BY <1>1, <1>2, RepliesFacts, ZenonT(30)
  <2>3. w \in {"reply", "rejection", "callback"} /\ w # "callback"
    BY <2>2
  <2> QED
    BY <2>1, <2>2, <2>3, SpeaksStep, ZenonT(30)
<1>3. CASE PeerCallsBack
  <2>1. /\ UNCHANGED <<clientVars, toPeer, fromPeer>>
        /\ peer.out = <<>> /\ ~peer.waiting /\ op.kind = "call"
        /\ peer' \in Peers /\ peer'.serving = peer.serving /\ peer'.waiting = TRUE
        /\ peer'.loggedOn = peer.loggedOn
        /\ peer.serving = op.n /\ Rest(peer'.out, 0, "callback", 1, op.n)
    BY <1>1, <1>3, CallsBackFacts, ZenonT(30)
  <2>2. op.n # NoCall /\ 1 \in 1..MaxParts
    BY <1>1, Fields, Numbers, SessionAssumption
  <2>3. Rest(peer'.out, 0, "callback", 1, peer.serving) /\ peer.serving # NoCall
    BY <2>1, <2>2, ZenonT(30)
  <2> QED
    BY <2>1, <2>2, <2>3, SpeaksStep, ZenonT(30)
<1> QED
  BY <1>2, <1>3

(* The partner sends the next record it has.                               *)
LEMMA SendStep ==
  ASSUME IInv, PeerSends
  PROVE  IInv'
<1>1. TypeOK /\ ShapeInv /\ OpenInv /\ RequestInv /\ ReadyInv /\ AwaitInv
  BY DEF IInv
<1>2. /\ UNCHANGED clientVars /\ toPeer' = toPeer
      /\ peer.out # <<>> /\ peer.out[1] \in Records
      /\ fromPeer' = Append(fromPeer, peer.out[1]) /\ fromPeer' \in Seq(Records)
      /\ peer' \in Peers /\ peer'.serving = peer.serving /\ peer'.waiting = peer.waiting
      /\ peer'.loggedOn = peer.loggedOn /\ peer'.out = Tail(peer.out)
  BY <1>1, SendsFacts, ZenonT(30)
<1>3. setup' = setup /\ pc' = pc /\ op' = op /\ pending' = pending
  BY <1>2 DEF clientVars
<1>4. /\ Len(peer.out) \in Nat \ {0} /\ 1 \in 1..Len(peer.out) /\ Len(peer'.out) = Len(peer.out) - 1
      /\ \A i \in 1..Len(peer'.out) : peer'.out[i] = peer.out[i + 1] /\ i + 1 \in 1..Len(peer.out)
      /\ (Len(peer.out) = 1 => peer'.out = <<>>)
  <2>1. peer.out \in Seq(Records)
    BY <1>1, Fields
  <2> QED
    BY <1>2, <2>1, TailFacts
<1>5. \A i \in 1..Len(fromPeer') : fromPeer'[i] = peer.out[1] \/ \E j \in 1..Len(fromPeer) : fromPeer'[i] = fromPeer[j]
  BY <1>1, <1>2, AddedOnWire, ZenonT(30)
<1>6. TypeOK' /\ PlaceInv' /\ ReplyMatchesCall' /\ AuthenticatedIsLoggedOn'
  <2>1. toPeer' \in Seq(Requests)
    BY <1>1, <1>2, ZenonT(30) DEF TypeOK
  <2> QED
    BY <1>2, <2>1, PeerKeeps, ZenonT(30)
<1>7. ShapeInv'
  BY <1>1, <1>4, <1>5, ZenonT(30) DEF ShapeInv, Shaped
<1>8. OpenInv'
  <2> SUFFICES ASSUME pc \in Opening
               PROVE  OpenInv'
    BY <1>3, ZenonT(30) DEF OpenInv
  <2>1. /\ peer.serving = NoCall /\ ~peer.waiting /\ NoData
        /\ \A i \in 1..Len(toPeer) : toPeer[i].what = "setup"
        /\ \A i \in 1..Len(toPeer) : toPeer[i].fc = "Allocate" => pc = "allocate" /\ i = Len(toPeer)
        /\ Len(peer.out) <= 1
        /\ peer.out[1].part = 0 /\ (peer.out[1].fc = "Allocate" => pc = "allocate" /\ toPeer = <<>>)
        /\ \A i \in 1..Len(fromPeer) : fromPeer[i].fc # "Allocate"
    BY <1>1, <1>2, <1>4, ZenonT(30) DEF OpenInv
  <2>2. peer'.out = <<>> /\ Len(peer'.out) = 0
    <3>1. Len(peer.out) \in Nat \ {0} /\ Len(peer.out) <= 1
      BY <1>4, <2>1, ZenonT(30)
    <3>2. Len(peer.out) = 1
      <4>1. \A n \in Nat \ {0} : n <= 1 => n = 1
        OBVIOUS
      <4> QED
        BY <3>1, <4>1, ZenonT(30)
    <3>3. peer'.out = <<>>
      BY <1>4, <3>2, ZenonT(30)
    <3> QED
      BY <3>3, EmptySeq
  <2>3. ~OursData(peer.out[1])
    BY <2>1 DEF OursData
  <2>4. NoData'
    BY <1>5, <2>1, <2>3, ZenonT(30) DEF NoData
  <2>5. \A i \in 1..Len(fromPeer') : fromPeer'[i].fc = "Allocate" => pc = "allocate" /\ toPeer = <<>>
    BY <1>5, <2>1, ZenonT(30)
  <2>6. Len(peer'.out) <= 1 /\ 1..Len(peer'.out) = {}
    BY <2>2
  <2> QED
    BY <1>2, <1>3, <2>1, <2>2, <2>4, <2>5, <2>6, ZenonT(30) DEF OpenInv
<1>9. RequestInv'
  BY <1>1, <1>2, ZenonT(30) DEF RequestInv
<1>10. ReadyInv'
  BY <1>1, <1>2, <1>3, ZenonT(30) DEF ReadyInv, Silent
<1>11. AwaitInv'
  <2> SUFFICES ASSUME pc = "awaiting"
               PROVE  AwaitInv'
    BY <1>3, ZenonT(30) DEF AwaitInv
  <2>1. PICK w \in {"reply", "rejection", "callback"}, k \in 1..MaxParts, s \in 0..MaxParts : Answered(w, k, s)
    BY <1>1, <1>2, ZenonT(30) DEF AwaitInv, Asked
  <2>2. s \in Nat /\ k \in Nat /\ k <= MaxParts /\ MaxParts \in Nat /\ Got \in Nat
    BY <1>1, Numbers, GotFacts
  <2>3. /\ Got <= s /\ Got < k /\ Flow(fromPeer, Got, s, w, k, op.n) /\ Rest(peer.out, s, w, k, op.n)
    BY <2>1, ZenonT(30) DEF Answered
  <2>4. /\ Len(peer.out) = k - s
        /\ \A i \in 1..Len(peer.out) : PartOf(peer.out[i], w, k, op.n) /\ peer.out[i].part = s + i
    BY <2>3 DEF Rest
  <2>5. s + 1 <= k /\ s + 1 \in 0..MaxParts /\ Got <= s + 1
    BY <1>4, <2>2, <2>3, <2>4
  <2>6. PartOf(peer.out[1], w, k, op.n) /\ peer.out[1].part = s + 1
    BY <1>4, <2>4, ZenonT(30)
  <2>7. Flow(Append(fromPeer, peer.out[1]), Got, s + 1, w, k, op.n)
    <3>1. fromPeer \in Seq(Records)
      BY <1>1 DEF TypeOK
    <3> QED
      BY <1>2, <2>2, <2>3, <2>6, <3>1, FlowSend, ZenonT(30)
  <2>8. Rest(peer'.out, s + 1, w, k, op.n)
    <3>1. Len(peer'.out) = k - (s + 1)
      BY <1>4, <2>2, <2>4
    <3>2. ASSUME NEW i \in 1..Len(peer'.out)
          PROVE  PartOf(peer'.out[i], w, k, op.n) /\ peer'.out[i].part = s + 1 + i
      <4>1. peer'.out[i] = peer.out[i + 1] /\ i + 1 \in 1..Len(peer.out)
        BY <1>4
      <4>2. PartOf(peer.out[i + 1], w, k, op.n) /\ peer.out[i + 1].part = s + (i + 1)
        BY <2>4, <4>1, ZenonT(30)
      <4>3. s + (i + 1) = s + 1 + i
        BY <1>4, <2>2
      <4> QED
        BY <4>1, <4>2, <4>3, ZenonT(30)
    <3> QED
      BY <3>1, <3>2, ZenonT(30) DEF Rest
  <2>9. Got' = Got
    BY <1>3, ZenonT(30) DEF Got
  <2>10. Answered(w, k, s + 1)'
    BY <1>2, <1>3, <2>1, <2>5, <2>7, <2>8, <2>9, ZenonT(30) DEF Answered
  <2> QED
    BY <2>5, <2>10, ZenonT(30) DEF AwaitInv
<1> QED
  BY <1>6, <1>7, <1>8, <1>9, <1>10, <1>11, ZenonT(30) DEF IInv

(* A keepalive, or a record of another conversation, is on its way.        *)
LEMMA IntrudesStep ==
  ASSUME IInv, Intrudes
  PROVE  IInv'
<1>1. TypeOK /\ ShapeInv /\ OpenInv /\ RequestInv /\ ReadyInv /\ AwaitInv
  BY DEF IInv
<1>2. /\ UNCHANGED clientVars /\ toPeer' = toPeer /\ fromPeer' \in Seq(Records)
      /\ peer' \in Peers /\ peer'.serving = peer.serving /\ peer'.waiting = peer.waiting
      /\ peer'.loggedOn = peer.loggedOn /\ peer'.out = peer.out
  BY <1>1, IntrudesFacts, ZenonT(30) DEF Intrudes
<1>3. PICK rec \in Records : /\ fromPeer' = Append(fromPeer, rec)
                             /\ ~OursData(rec) /\ Shaped(rec) /\ rec.fc # "Allocate"
  BY <1>1, IntrudesFacts, ZenonT(30) DEF Intrudes
<1>4. setup' = setup /\ pc' = pc /\ op' = op /\ pending' = pending
  BY <1>2 DEF clientVars
<1>5. \A i \in 1..Len(fromPeer') : fromPeer'[i] = rec \/ \E j \in 1..Len(fromPeer) : fromPeer'[i] = fromPeer[j]
  BY <1>1, <1>3, AddedOnWire, ZenonT(30)
<1>6. TypeOK' /\ PlaceInv' /\ ReplyMatchesCall' /\ AuthenticatedIsLoggedOn'
  <2>1. toPeer' \in Seq(Requests)
    BY <1>1, <1>2, ZenonT(30) DEF TypeOK
  <2> QED
    BY <1>2, <2>1, PeerKeeps, ZenonT(30)
<1>7. ShapeInv'
  BY <1>1, <1>2, <1>3, <1>5, ZenonT(30) DEF ShapeInv, Shaped
<1>8. NoData => NoData'
  BY <1>3, <1>5, ZenonT(30) DEF NoData
<1>9. OpenInv'
  <2> SUFFICES ASSUME pc \in Opening
               PROVE  OpenInv'
    BY <1>4, ZenonT(30) DEF OpenInv
  <2>1. \A i \in 1..Len(fromPeer') : fromPeer'[i].fc = "Allocate" => pc = "allocate" /\ toPeer = <<>> /\ peer.out = <<>>
    BY <1>1, <1>3, <1>5, ZenonT(30) DEF OpenInv
  <2> QED
    BY <1>1, <1>2, <1>4, <1>8, <2>1, ZenonT(30) DEF OpenInv
<1>10. RequestInv'
  BY <1>1, <1>2, ZenonT(30) DEF RequestInv
<1>11. ReadyInv'
  BY <1>1, <1>2, <1>4, <1>8, ZenonT(30) DEF ReadyInv, Silent
<1>12. AwaitInv'
  <2> SUFFICES ASSUME pc = "awaiting"
               PROVE  AwaitInv'
    BY <1>4, ZenonT(30) DEF AwaitInv
  <2>1. Got' = Got
    BY <1>4, ZenonT(30) DEF Got
  <2>2. CASE Asked
    <3>1. Asked'
      BY <1>2, <1>4, <1>8, <2>1, <2>2, ZenonT(30) DEF Asked
    <3> QED
      BY <3>1, ZenonT(30) DEF AwaitInv
  <2>3. CASE ~Asked
    <3>1. PICK w \in {"reply", "rejection", "callback"}, k \in 1..MaxParts, s \in 0..MaxParts : Answered(w, k, s)
      BY <1>1, <2>3, ZenonT(30) DEF AwaitInv
    <3>2. s \in Nat /\ k \in Nat /\ Got \in Nat
      BY <1>1, Numbers, GotFacts
    <3>3. Flow(fromPeer, Got, s, w, k, op.n)
      BY <3>1, ZenonT(30) DEF Answered
    <3>4. fromPeer \in Seq(Records)
      BY <1>1 DEF TypeOK
    <3>5. Flow(Append(fromPeer, rec), Got, s, w, k, op.n)
      BY <1>3, <3>2, <3>3, <3>4, FlowOther, ZenonT(30)
    <3>6. Answered(w, k, s)'
      BY <1>2, <1>3, <1>4, <2>1, <3>1, <3>5, ZenonT(30) DEF Answered
    <3> QED
      BY <3>6, ZenonT(30) DEF AwaitInv
  <2> QED
    BY <2>2, <2>3
<1> QED
  BY <1>6, <1>7, <1>9, <1>10, <1>11, <1>12, ZenonT(30) DEF IInv

(* The partner goes away, or nothing happens.                              *)
LEMMA AwayStep ==
  ASSUME IInv, PeerGoesAway \/ UNCHANGED vars
  PROVE  IInv'
<1>1. TypeOK /\ ShapeInv /\ OpenInv /\ RequestInv /\ ReadyInv /\ AwaitInv
  BY DEF IInv
<1>2. /\ UNCHANGED clientVars /\ toPeer' = toPeer /\ fromPeer' = fromPeer
      /\ peer' \in Peers /\ peer'.serving = peer.serving /\ peer'.waiting = peer.waiting
      /\ peer'.loggedOn = peer.loggedOn /\ peer'.out = peer.out
  <2>1. CASE PeerGoesAway
    BY <1>1, <2>1, AwayFacts, ZenonT(30)
  <2>2. CASE UNCHANGED vars
    <3>1. peer \in Peers
      BY <1>1 DEF TypeOK
    <3> QED
      BY <2>2, <3>1, ZenonT(30) DEF vars
  <2> QED
    BY <2>1, <2>2
<1>3. setup' = setup /\ pc' = pc /\ op' = op /\ pending' = pending
  BY <1>2 DEF clientVars
<1>4. TypeOK' /\ PlaceInv' /\ ReplyMatchesCall' /\ AuthenticatedIsLoggedOn'
  <2>1. toPeer' \in Seq(Requests) /\ fromPeer' \in Seq(Records)
    BY <1>1, <1>2, ZenonT(30) DEF TypeOK
  <2> QED
    BY <1>2, <2>1, PeerKeeps, ZenonT(30)
<1>5. ShapeInv' /\ RequestInv'
  BY <1>1, <1>2, ZenonT(30) DEF ShapeInv, RequestInv
<1>6. OpenInv' /\ ReadyInv'
  BY <1>1, <1>2, <1>3, ZenonT(30) DEF OpenInv, ReadyInv, Silent, NoData
<1>7. AwaitInv'
  <2>1. Got' = Got
    BY <1>3, ZenonT(30) DEF Got
  <2>2. Asked => Asked'
    BY <1>2, <1>3, <2>1, ZenonT(30) DEF Asked, NoData
  <2>3. ASSUME NEW w \in {"reply", "rejection", "callback"}, NEW k \in 1..MaxParts, NEW s \in 0..MaxParts, Answered(w, k, s)
        PROVE  Answered(w, k, s)'
    BY <1>2, <1>3, <2>1, <2>3, ZenonT(30) DEF Answered
  <2> QED
    BY <1>1, <1>3, <2>2, <2>3, ZenonT(30) DEF AwaitInv
<1> QED
  BY <1>4, <1>5, <1>6, <1>7, ZenonT(30) DEF IInv

-------------------------------------------------------------------------------
(* Theorems.                                                               *)

(* A session that has not dialled.                                         *)
LEMMA InitInv == Init => IInv
<1> SUFFICES ASSUME Init
             PROVE  IInv
  OBVIOUS
<1>1. /\ setup = "new" /\ authenticated = FALSE /\ closed = FALSE /\ pc = "dial"
      /\ pending = <<>> /\ delivered = <<>> /\ toPeer = <<>> /\ fromPeer = <<>>
      /\ outcome = [n \in 1..MaxCalls |-> Unset]
  BY DEF Init
<1>2. op \in Operations /\ op.kind = "logon" /\ op.n = 0
  BY Numbers DEF Init, Operations, Kinds
<1>3. /\ <<>> \in Seq(Records) /\ <<>> \in Seq(Requests)
  BY EmptySeq
<1>4. peer.serving = NoCall /\ peer.waiting = FALSE /\ peer.out = <<>>
  BY ZenonT(30) DEF Init
<1>5. peer \in Peers
  BY <1>3, Numbers DEF Init, Peers
<1>6. outcome \in [1..MaxCalls -> Nat] /\ \A n \in 1..MaxCalls : outcome[n] = Unset
  BY <1>1, Numbers
<1>7. Len(fromPeer) = 0 /\ Len(toPeer) = 0 /\ Len(peer.out) = 0
  BY <1>1, <1>4, EmptySeq
<1>8. 1..Len(fromPeer) = {} /\ 1..Len(toPeer) = {} /\ 1..Len(peer.out) = {} /\ Len(peer.out) <= 1
  BY <1>7
<1>9. TypeOK
  <2>1. setup \in SetupStates /\ pc \in Opening
    BY <1>1 DEF SetupStates, Opening
  <2> QED
    BY <1>1, <1>2, <1>3, <1>5, <1>6, <2>1, ZenonT(30) DEF TypeOK
<1>10. PlaceInv
  BY <1>1 DEF PlaceInv
<1>11. ShapeInv /\ RequestInv
  BY <1>8, ZenonT(30) DEF ShapeInv, RequestInv
<1>12. OpenInv
  BY <1>1, <1>4, <1>8, ZenonT(30) DEF OpenInv, NoData
<1>13. ReadyInv /\ AwaitInv
  BY <1>1 DEF ReadyInv, AwaitInv
<1>14. ReplyMatchesCall /\ AuthenticatedIsLoggedOn
  BY <1>1, <1>6, ZenonT(30) DEF ReplyMatchesCall, AuthenticatedIsLoggedOn
<1> QED
  BY <1>9, <1>10, <1>11, <1>12, <1>13, <1>14 DEF IInv

(* Every step of the session or of the partner keeps the invariant.        *)
LEMMA NextInv == IInv /\ [Next]_vars => IInv'
<1> SUFFICES ASSUME IInv, [Next]_vars
             PROVE  IInv'
  OBVIOUS
<1>1. TypeOK /\ PlaceInv /\ ShapeInv /\ AwaitInv
  BY DEF IInv
<1>2. CASE Opens
  BY <1>2, OpensStep
<1>3. CASE Ends /\ delivered' = delivered
  BY <1>3, EndsStep
<1>4. CASE \E what \in {"request", "answer"} : Sends(what)
  BY <1>4, SendsStep, ZenonT(30)
<1>5. CASE RecordHeld
  BY <1>5, HeldStep
<1>6. CASE \E w \in {"reply", "rejection", "callback"} : Delivery(w)
  BY <1>6, DeliveryStep, ZenonT(30)
<1>7. CASE Handles
  BY <1>7, HandlesStep
<1>8. CASE PeerReads
  BY <1>8, ReadsStep
<1>9. CASE PeerReplies \/ PeerCallsBack
  BY <1>9, RepliesStep
<1>10. CASE PeerSends
  BY <1>10, SendStep
<1>11. CASE Intrudes
  BY <1>11, IntrudesStep
<1>12. CASE PeerGoesAway \/ UNCHANGED vars
  BY <1>12, AwayStep
<1> QED
  BY <1>1, <1>2, <1>3, <1>4, <1>5, <1>6, <1>7, <1>8, <1>9, <1>10, <1>11, <1>12, Shapes, ZenonT(30)

(* The invariant holds of every session.                                   *)
THEOREM SessionInvariant == Spec => []IInv
<1> QED
  BY InitInv, NextInv, PTL DEF Spec

(* What CallRaw, Ping or CallWithCallbacks returns as the reply to an      *)
(* operation is the partner's reply to that operation, whatever timed out, *)
(* failed, strayed or called back before it; and what receiveMessage       *)
(* returns is one whole message.                                           *)
THEOREM RepliesMatchCalls == Spec => []ReplyMatchesCall
<1>1. IInv => ReplyMatchesCall
  BY DEF IInv
<1> QED
  BY <1>1, SessionInvariant, PTL

(* The session believes it is logged on only if the partner accepted the   *)
(* logon.                                                                  *)
THEOREM LogonIsReal == Spec => []AuthenticatedIsLoggedOn
<1>1. IInv => AuthenticatedIsLoggedOn
  BY DEF IInv
<1> QED
  BY <1>1, SessionInvariant, PTL

(* A session that sendData would let send has nothing left of an earlier   *)
(* operation, in either direction or at the partner.                       *)
THEOREM ReadySessionIsQuiet == Spec => []ReadyIsQuiet
<1>1. IInv => ReadyIsQuiet
  <2> SUFFICES ASSUME IInv, pc = "idle", MaySendData(FALSE)
               PROVE  ~DataInFlight /\ peer.out = <<>> /\ peer.serving = NoCall /\ ~peer.waiting
    BY ZenonT(30) DEF ReadyIsQuiet
  <2>1. TypeOK /\ ReadyInv
    BY DEF IInv
  <2>2. setup = "ready"
    BY <2>1, SentFacts, ZenonT(30) DEF MaySendData, TypeOK
  <2>3. Silent /\ peer.serving = NoCall /\ ~peer.waiting
    BY <2>1, <2>2, ZenonT(30) DEF ReadyInv
  <2>4. ~DataInFlight
    <3>1. fromPeer \in Seq(Records) /\ DOMAIN fromPeer = 1..Len(fromPeer)
      BY <2>1, LenProperties DEF TypeOK
    <3>2. DOMAIN toPeer = {}
      BY <2>3 DEF Silent
    <3>3. \A i \in DOMAIN fromPeer : ~(fromPeer[i].id = Ours /\ fromPeer[i].part > 0)
      BY <2>3, <3>1, ZenonT(30) DEF Silent, NoData, OursData
    <3> QED
      BY <3>2, <3>3, ZenonT(30) DEF DataInFlight
  <2> QED
    BY <2>3, <2>4 DEF Silent
<1> QED
  BY <1>1, SessionInvariant, PTL

(* The partner never has a second request before it has answered the first. *)
THEOREM OneRequestAtATime == Spec => []OneCallInFlight
<1>1. IInv => OneCallInFlight
  <2> SUFFICES ASSUME IInv
               PROVE  OneCallInFlight
    OBVIOUS
  <2> DEFINE asked == {i \in DOMAIN toPeer : toPeer[i].what = "request"}
  <2>1. RequestInv /\ DOMAIN toPeer = 1..Len(toPeer)
    BY LenProperties DEF IInv, TypeOK
  <2>2. CASE asked = {}
    <3>1. Cardinality(asked) = 0
      BY <2>2, FS_EmptySet
    <3> QED
      BY <3>1 DEF OneCallInFlight
  <2>3. CASE asked # {}
    <3> PICK i \in 1..Len(toPeer) : toPeer[i].what = "request"
      BY <2>1, <2>3
    <3>1. Len(toPeer) = 1 /\ peer.serving = NoCall
      <4>1. ~ \A j \in 1..Len(toPeer) : toPeer[j].what = "setup"
        OBVIOUS
      <4>2. Len(toPeer) = 1 => i = 1
        OBVIOUS
      <4> QED
        BY <2>1, <4>1, <4>2, ZenonT(30) DEF RequestInv
    <3>2. asked = {1}
      BY <2>1, <2>3, <3>1
    <3>3. Cardinality(asked) = 1
      <4>1. Cardinality({1}) = 1
        BY FS_Singleton, ZenonT(30)
      <4> QED
        BY <3>2, <4>1, ZenonT(30)
    <3> QED
      BY <3>1, <3>3 DEF OneCallInFlight
  <2> QED
    BY <2>2, <2>3
<1> QED
  BY <1>1, SessionInvariant, PTL

(* Once the state machine has reached its terminal state, or the session   *)
(* is closed, no step of the session writes to the connection.             *)
THEOREM SilentAfterTheEnd == Spec => NothingSentAfterTheEnd
<1>1. IInv /\ [Next]_vars => [(setup = "closed" \/ closed) => Len(toPeer') <= Len(toPeer)]_vars
  <2> SUFFICES ASSUME IInv, [Next]_vars, setup = "closed" \/ closed
               PROVE  Len(toPeer') <= Len(toPeer)
    OBVIOUS
  <2>1. TypeOK /\ PlaceInv /\ ShapeInv /\ AwaitInv
    BY DEF IInv
  <2>2. toPeer \in Seq(Requests) /\ Len(toPeer) \in Nat
    BY <2>1, LenProperties DEF TypeOK
  <2>3. ~Opens
    <3>1. Opens => pc \in Opening
      BY <2>1, OpeningFacts, ZenonT(30) DEF Opens, Opening
    <3>2. pc \in Opening => ~closed /\ setup # "closed"
      BY <2>1 DEF PlaceInv, Opening
    <3> QED
      BY <3>1, <3>2
  <2>4. \A what \in {"request", "answer"} : ~Sends(what)
    BY DEF Sends
  <2>5. CASE toPeer' = toPeer
    BY <2>2, <2>5
  <2>6. CASE PeerReads
    <3>1. toPeer # <<>> /\ toPeer' = Tail(toPeer)
      BY <2>6 DEF PeerReads
    <3> QED
      BY <2>2, <3>1, TailFacts
  <2>7. \/ Ends \/ RecordHeld \/ Handles \/ \E w \in {"reply", "rejection", "callback"} : Delivery(w)
        \/ PeerReads \/ PeerReplies \/ PeerCallsBack \/ PeerSends \/ Intrudes \/ PeerGoesAway \/ UNCHANGED vars
    BY <2>1, <2>3, <2>4, Shapes, ZenonT(30)
  <2>8. RecordHeld => toPeer' = toPeer
    BY <2>1, HeldFacts, ZenonT(30)
  <2>9. PeerReads \/ toPeer' = toPeer
    BY <2>7, <2>8, ZenonT(30) DEF Ends, Handles, Delivery, PeerReplies, PeerCallsBack, PeerSends, Intrudes,
       PeerPings, PeerStrays, PeerGoesAway, vars
  <2> QED
    BY <2>5, <2>6, <2>9
<1> QED
  BY <1>1, SessionInvariant, PTL DEF Spec, NothingSentAfterTheEnd

===============================================================================
