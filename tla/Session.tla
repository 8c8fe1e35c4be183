------------------------------- MODULE Session -------------------------------
(***************************************************************************)
(* One direct CPIC session (internal/client/session.go) from its dial to   *)
(* its close, as the public client uses it: the handshake with the         *)
(* gateway, the logon, and the calls that lifecycle.Managed serialises on  *)
(* it, over a connection that delivers records in order but whose reads    *)
(* and writes may fail or time out at any point.                           *)
(*                                                                         *)
(* The partner (gateway and ABAP system) is external.  It answers what it  *)
(* reads, late if it likes, in one or more records; it may call back, end  *)
(* the conversation together with the reply, report an error, send a       *)
(* keepalive ping or go away.                                              *)
(*                                                                         *)
(* Operations on the session are numbered; 0 is the logon.  Their kinds:   *)
(*   "logon"  LogonAndPing                                                 *)
(*   "ping"   Managed.Ping, the pool's validation                          *)
(*   "raw"    CallRaw, a metadata request of the client                    *)
(*   "call"   CallWithCallbacks, a call of the application                 *)
(***************************************************************************)
EXTENDS Appc, FiniteSets, Functions

CONSTANTS
  MaxCalls,      \* bound: operations after the logon
  MaxParts,      \* bound: records in one message of the partner
  MaxCallbacks,  \* bound: callbacks the partner makes
  HasHandler,    \* Destination.Callbacks is not empty
  WritesFail     \* whether Transport.Send may fail

ASSUME SessionAssumption ==
  /\ MaxCalls \in Nat /\ MaxParts \in Nat \ {0} /\ MaxCallbacks \in Nat
  /\ HasHandler \in BOOLEAN /\ WritesFail \in BOOLEAN

VARIABLES
  setup,          \* Session.setup, the ClientSetupStateMachine
  authenticated,  \* Session.authenticated
  closed,         \* Session.closed
  connected,      \* the transport is open on this side
  pc,             \* where the goroutine that uses the session is
  op,             \* the operation in progress: number and kind
  pending,        \* what the ConversationDecoder of the operation holds
  toPeer,         \* records on their way to the partner
  fromPeer,       \* records on their way from the partner
  peer,           \* the partner
  outcome,        \* what each operation returned
  delivered       \* the records of the last reassembled message

clientVars == <<setup, authenticated, closed, connected, pc, op, pending, outcome, delivered>>
vars == <<clientVars, toPeer, fromPeer, peer>>

NoCall == MaxCalls + 1   \* no operation
Unset == MaxCalls + 2    \* outcome of an operation that has not returned
Failed == MaxCalls + 3   \* outcome of an operation that returned an error
Kinds == {"logon", "ping", "raw", "call"}
Ours == "ours"           \* the identity of the session's conversation

Init ==
  /\ setup = "new" /\ authenticated = FALSE /\ closed = FALSE
  /\ connected = FALSE /\ pc = "dial"
  /\ op = [n |-> 0, kind |-> "logon", large |-> FALSE]
  /\ pending = <<>> /\ delivered = <<>> /\ toPeer = <<>> /\ fromPeer = <<>>
  /\ peer = [serving |-> NoCall, waiting |-> FALSE, loggedOn |-> FALSE,
             out |-> <<>>, callbacks |-> 0, pinged |-> FALSE,
             strayed |-> FALSE, up |-> TRUE]
  /\ outcome = [n \in 1..MaxCalls |-> Unset]

-----------------------------------------------------------------------------
(* Open: dial and handshake.                                               *)

Setup(fc) == [fc |-> fc, what |-> "setup", call |-> 0]
Sent2(st, fc1, fc2) == AfterSent(AfterSent(st, fc1, TRUE), fc2, TRUE)

Dial ==
  /\ pc = "dial"
  /\ connected' = TRUE /\ pc' = "gateway"
  /\ toPeer' = <<Setup("NormalClient")>>
  /\ UNCHANGED <<setup, authenticated, closed, op, pending, outcome,
                 delivered, fromPeer, peer>>

(* The reply to GW_NORMAL_CLIENT; Initialize is sent.                      *)
GatewayReply ==
  /\ pc = "gateway" /\ fromPeer # <<>> /\ Head(fromPeer).rc = "ok"
  /\ fromPeer' = Tail(fromPeer)
  /\ setup' = AfterSent(setup, "Initialize", TRUE)
  /\ toPeer' = Append(toPeer, Setup("Initialize"))
  /\ pc' = "initialize"
  /\ UNCHANGED <<authenticated, closed, connected, op, pending, outcome,
                 delivered, peer>>

(* The reply to Initialize; SetPartnerLuName, which has no reply, and      *)
(* Allocate are sent.                                                      *)
InitializeReply ==
  /\ pc = "initialize" /\ fromPeer # <<>>
  /\ Disposition(setup, Head(fromPeer)) = "accepted"
  /\ fromPeer' = Tail(fromPeer)
  /\ setup' = Sent2(AfterReceived(setup, Head(fromPeer)), "SetPartnerLuName", "Allocate")
  /\ toPeer' = toPeer \o <<Setup("SetPartnerLuName"), Setup("Allocate")>>
  /\ pc' = "allocate"
  /\ UNCHANGED <<authenticated, closed, connected, op, pending, outcome,
                 delivered, peer>>

AllocateReply ==
  /\ pc = "allocate" /\ fromPeer # <<>>
  /\ Disposition(setup, Head(fromPeer)) = "accepted"
  /\ fromPeer' = Tail(fromPeer)
  /\ setup' = AfterReceived(setup, Head(fromPeer))
  /\ pc' = "logon"
  /\ UNCHANGED <<authenticated, closed, connected, op, pending, outcome,
                 delivered, toPeer, peer>>

(* A dial, write or read that fails, or a reply that is refused, ends      *)
(* Open, which closes the transport.                                       *)
OpenFails ==
  /\ pc \in {"dial", "gateway", "initialize", "allocate"}
  /\ connected' = FALSE /\ pc' = "closed"
  /\ UNCHANGED <<authenticated, closed, op, pending, outcome, delivered,
                 toPeer, peer>>
  /\ \/ UNCHANGED <<setup, fromPeer>>
     \/ /\ pc # "dial" /\ fromPeer # <<>> /\ fromPeer' = Tail(fromPeer)
        /\ IF pc = "gateway"
             THEN Head(fromPeer).rc # "ok" /\ UNCHANGED setup
             ELSE /\ Disposition(setup, Head(fromPeer)) # "accepted"
                  /\ setup' = AfterReceived(setup, Head(fromPeer))

-----------------------------------------------------------------------------
(* Sending and receiving one message.                                      *)

(* What the caller does with an operation that returned an error: a failed *)
(* logon, validation or application call closes the session (rfc.Open,     *)
(* pool.useIdle, Client.Call), a failed metadata request keeps it.         *)
Fails(n, kind) ==
  /\ outcome' = IF n = 0 THEN outcome ELSE [outcome EXCEPT ![n] = Failed]
  /\ pc' = IF kind = "raw" THEN "idle" ELSE "discard"

(* sendData of a message that fits one F_SAP_SEND, through writeDataPlan:  *)
(* the state machine advances before the record is written, and keeps its  *)
(* new state when the write fails.                                         *)
SendData(what) ==
  /\ setup' = AfterSent(setup, "SapSend", TRUE)
  /\ pending' = <<>>
  /\ \/ /\ toPeer' = Append(toPeer, [fc |-> "SapSend", what |-> what, call |-> op'.n])
        /\ pc' = "awaiting" /\ UNCHANGED outcome
     \/ /\ WritesFail
        /\ Fails(op'.n, op'.kind) /\ UNCHANGED toPeer

(* sendData refuses a closed session, a message above one record (CPIC     *)
(* streaming is disabled) and what the state machine does not allow.       *)
MaySendData(large) == ~closed /\ ~large /\ MaySend(setup, "SapSend", TRUE)

(* LogonAndPing, Call, CallRaw or CallWithCallbacks is called.             *)
Request(n, kind, large) ==
  /\ pc = IF n = 0 THEN "logon" ELSE "idle"
  /\ (kind = "logon") <=> (n = 0)
  /\ n # 0 => authenticated /\ outcome[n] = Unset
              /\ \A m \in 1..(n - 1) : outcome[m] # Unset
  /\ large => kind = "call"
  /\ op' = [n |-> n, kind |-> kind, large |-> large]
  /\ IF MaySendData(large)
       THEN SendData("request")
       ELSE Fails(n, kind) /\ UNCHANGED <<setup, pending, toPeer>>
  /\ UNCHANGED <<authenticated, closed, connected, delivered, fromPeer, peer>>

(* Mutants: a timeout makes the session ready again; the read has no       *)
(* deadline, and only a lost connection ends it.                           *)
Mut_TimeoutResets ==
  /\ pc = "awaiting"
  /\ setup' = "ready" /\ Fails(op.n, op.kind)
  /\ UNCHANGED <<authenticated, closed, connected, op, pending, delivered,
                 toPeer, fromPeer, peer>>
Mut_NoReadDeadline ==
  /\ pc = "awaiting" /\ ~peer.up
  /\ Fails(op.n, op.kind)
  /\ UNCHANGED <<setup, authenticated, closed, connected, op, pending,
                 delivered, toPeer, fromPeer, peer>>

(* Transport.Receive returns an error: the read deadline passed, the       *)
(* context ended, or the connection is gone.                               *)
ReceiveFails ==
  /\ pc = "awaiting"
  /\ Fails(op.n, op.kind)
  /\ UNCHANGED <<setup, authenticated, closed, connected, op, pending,
                 delivered, toPeer, fromPeer, peer>>

Incoming(rec) ==
  /\ pc = "awaiting" /\ fromPeer # <<>> /\ rec = Head(fromPeer)
  /\ fromPeer' = Tail(fromPeer)
  /\ UNCHANGED <<connected, op, toPeer, peer>>

(* What receiveMessage sees of a record it takes off the transport.        *)
Refused(rec) ==
  Disposition(setup, rec) = "refused" \/ PushFails(pending, rec, FALSE)
Reassembled(rec) == Append(pending, rec)
IdentityMatches(rec) == Reassembled(rec)[1].id = Ours

(* Received or the decoder reports an error, or the message belongs to     *)
(* another conversation.                                                   *)
RecordRefused ==
  \E rec \in Range(fromPeer) :
    /\ Incoming(rec)
    /\ Refused(rec) \/ (CompletesMessage(rec) /\ ~IdentityMatches(rec))
    /\ setup' = AfterReceived(setup, rec)
    /\ Fails(op.n, op.kind)
    /\ UNCHANGED <<authenticated, closed, pending, delivered>>

(* The record is held: its message is not complete yet.                    *)
RecordHeld ==
  \E rec \in Range(fromPeer) :
    /\ Incoming(rec)
    /\ ~Refused(rec) /\ ~CompletesMessage(rec)
    /\ setup' = AfterReceived(setup, rec)
    /\ pending' = Pushed(pending, rec)
    /\ UNCHANGED <<authenticated, closed, pc, outcome, delivered>>

(* receiveMessage returns a message: a normal deallocation closes the      *)
(* session, otherwise the response is complete.                            *)
MessageArrives(rec) ==
  /\ Incoming(rec)
  /\ ~Refused(rec) /\ CompletesMessage(rec) /\ IdentityMatches(rec)
  /\ pending' = Pushed(pending, rec) /\ delivered' = Reassembled(rec)
  /\ IF Disposition(setup, rec) = "normal-deallocation"
       THEN setup' = AfterReceived(setup, rec) /\ closed' = TRUE
       ELSE setup' = ResponseComplete(AfterReceived(setup, rec)) /\ UNCHANGED closed

-----------------------------------------------------------------------------
(* What the operations do with the message.                                *)

(* Mutant: the rejection in the logon reply is not looked at.              *)
Mut_AnyLogonReply ==
  \E rec \in Range(fromPeer) :
    /\ MessageArrives(rec)
    /\ op.kind = "logon"
    /\ authenticated' = TRUE /\ pc' = "idle" /\ UNCHANGED outcome

LogonAccepted ==
  \E rec \in Range(fromPeer) :
    /\ MessageArrives(rec)
    /\ op.kind = "logon" /\ rec.what = "reply"
    /\ authenticated' = TRUE /\ pc' = "idle" /\ UNCHANGED outcome

CallReturns ==
  \E rec \in Range(fromPeer) :
    /\ MessageArrives(rec)
    /\ op.kind # "logon" /\ rec.what = "reply"
    /\ outcome' = [outcome EXCEPT ![op.n] = delivered'[1].call]
    /\ pc' = "idle" /\ UNCHANGED authenticated

(* A callback that a handler may answer.                                   *)
CallbackArrives ==
  \E rec \in Range(fromPeer) :
    /\ MessageArrives(rec)
    /\ op.kind = "call" /\ HasHandler /\ rec.what = "callback"
    /\ pc' = "callback" /\ UNCHANGED <<authenticated, outcome>>

(* A rejected logon; a callback without a handler (CallRaw and Ping pass   *)
(* none); a message that is not the kind of reply the operation decodes.   *)
MessageUnusable ==
  \E rec \in Range(fromPeer) :
    /\ MessageArrives(rec)
    /\ \/ rec.what \notin {"reply", "callback"}
       \/ rec.what = "callback" /\ ~(op.kind = "call" /\ HasHandler)
    /\ Fails(op.n, op.kind) /\ UNCHANGED authenticated

(* The registered callback returns an answer, or an error.                 *)
HandlerReturns ==
  /\ pc = "callback"
  /\ \/ \E large \in BOOLEAN :
          op' = [op EXCEPT !.large = large] /\ pc' = "answer" /\ UNCHANGED outcome
     \/ Fails(op.n, op.kind) /\ UNCHANGED op
  /\ UNCHANGED <<setup, authenticated, closed, connected, pending, delivered,
                 toPeer, fromPeer, peer>>

(* CallWithCallbacks sends the answer like any request and waits again.    *)
SendAnswer ==
  /\ pc = "answer"
  /\ UNCHANGED op
  /\ IF MaySendData(op.large)
       THEN SendData("answer")
       ELSE Fails(op.n, op.kind) /\ UNCHANGED <<setup, pending, toPeer>>
  /\ UNCHANGED <<authenticated, closed, connected, delivered, fromPeer, peer>>

(* Session.Close: of a discarded session, or of an idle one the pool       *)
(* evicts.                                                                 *)
Close ==
  /\ pc \in {"discard", "idle"}
  /\ closed' = TRUE /\ connected' = FALSE /\ pc' = "closed"
  /\ UNCHANGED <<setup, authenticated, op, pending, outcome, delivered,
                 toPeer, fromPeer, peer>>

-----------------------------------------------------------------------------
(* The partner (external).                                                 *)

(* The records of one message: F_SAP_SEND, then F_RECEIVE to the last.     *)
Message(what, n, k, lastRc) ==
  [i \in 1..k |-> [fc |-> IF i = 1 THEN "SapSend" ELSE "Receive",
                   rc |-> IF i = k THEN lastRc ELSE "ok", final |-> i = k,
                   id |-> Ours, part |-> i, of |-> k, what |-> what, call |-> n]]
Control(fc, rc) ==
  [fc |-> fc, rc |-> rc, final |-> TRUE, id |-> Ours, part |-> 0, of |-> 0,
   what |-> "setup", call |-> 0]

(* It reads a record: setup records are answered at once, a request starts *)
(* its function, and while a callback is open whatever data arrives is     *)
(* taken for the answer.                                                   *)
PeerReads ==
  /\ peer.up /\ toPeer # <<>> /\ peer.out = <<>>
  /\ toPeer' = Tail(toPeer)
  /\ LET req == Head(toPeer) IN
       CASE req.what = "setup" ->
              IF req.fc = "SetPartnerLuName" THEN UNCHANGED peer
              ELSE \E rc \in {"ok", "error"} :
                     peer' = [peer EXCEPT !.out = <<Control(req.fc, rc)>>]
         [] req.what # "setup" /\ peer.waiting ->
              peer' = [peer EXCEPT !.waiting = FALSE]
         [] OTHER ->
              peer' = [peer EXCEPT !.serving = req.call]
  /\ UNCHANGED <<clientVars, fromPeer>>

Serving == peer.up /\ peer.out = <<>> /\ peer.serving # NoCall /\ ~peer.waiting

(* The function ends: its reply, the last record possibly with a           *)
(* deallocation or an error; a logon is accepted or rejected.              *)
PeerReplies ==
  /\ Serving
  /\ \E k \in 1..MaxParts, rc \in {"ok", "dealloc", "error"},
        what \in IF peer.serving = 0 THEN {"reply", "rejection"} ELSE {"reply"} :
       peer' = [peer EXCEPT !.out = Message(what, peer.serving, k, rc),
                            !.serving = NoCall,
                            !.loggedOn = @ \/ (peer.serving = 0 /\ what = "reply")]
  /\ UNCHANGED <<clientVars, toPeer, fromPeer>>

(* The function of an application call calls back.                         *)
PeerCallsBack ==
  /\ Serving /\ peer.serving = op.n /\ op.kind = "call"
  /\ peer.callbacks < MaxCallbacks
  /\ peer' = [peer EXCEPT !.out = Message("callback", peer.serving, 1, "ok"),
                          !.waiting = TRUE, !.callbacks = @ + 1]
  /\ UNCHANGED <<clientVars, toPeer, fromPeer>>

PeerSends ==
  /\ peer.up /\ peer.out # <<>>
  /\ fromPeer' = Append(fromPeer, Head(peer.out))
  /\ peer' = [peer EXCEPT !.out = Tail(@)]
  /\ UNCHANGED <<clientVars, toPeer>>

(* NI_PING: eight bytes, shorter than any APPC record.                     *)
PeerPings ==
  /\ peer.up /\ connected /\ ~peer.pinged
  /\ fromPeer' = Append(fromPeer, Control("NormalClient", "short"))
  /\ peer' = [peer EXCEPT !.pinged = TRUE]
  /\ UNCHANGED <<clientVars, toPeer>>

(* A record of another conversation arrives on this connection.            *)
PeerStrays ==
  /\ peer.up /\ connected /\ ~peer.strayed
  /\ \E fc \in DataFunctions, final \in BOOLEAN :
       fromPeer' = Append(fromPeer,
         [fc |-> fc, rc |-> "ok", final |-> final, id |-> "other", part |-> 1,
          of |-> 1, what |-> "reply", call |-> NoCall])
  /\ peer' = [peer EXCEPT !.strayed = TRUE]
  /\ UNCHANGED <<clientVars, toPeer>>

PeerGoesAway ==
  /\ peer.up /\ connected
  /\ peer' = [peer EXCEPT !.up = FALSE]
  /\ UNCHANGED <<clientVars, toPeer, fromPeer>>

-----------------------------------------------------------------------------
ClientStep ==
  \/ Dial \/ GatewayReply \/ InitializeReply \/ AllocateReply \/ OpenFails
  \/ \E n \in 0..MaxCalls, kind \in Kinds, large \in BOOLEAN : Request(n, kind, large)
  \/ ReceiveFails \/ RecordRefused \/ RecordHeld
  \/ LogonAccepted \/ CallReturns \/ CallbackArrives \/ MessageUnusable
  \/ HandlerReturns \/ SendAnswer \/ Close

PeerStep ==
  \/ PeerReads \/ PeerReplies \/ PeerCallsBack \/ PeerSends
  \/ PeerPings \/ PeerStrays \/ PeerGoesAway

(* A closed session does nothing more.                                     *)
Finished == pc = "closed" /\ UNCHANGED vars

Next == ClientStep \/ PeerStep \/ Finished

Spec == Init /\ [][Next]_vars

(* Every read has a deadline (Open always sets ReadTimeout), a callback    *)
(* handler is assumed to return, and the session's own steps do not block. *)
Fairness ==
  /\ WF_vars(ReceiveFails)
  /\ WF_vars(HandlerReturns) /\ WF_vars(SendAnswer)
FairSpec == Spec /\ Fairness

-----------------------------------------------------------------------------
(* Properties                                                              *)

(* A reply is never mistaken for a later call's (transport.go:7): what an  *)
(* operation returns as its reply is the partner's reply to that           *)
(* operation, whatever timed out, failed or called back before it; and a   *)
(* reassembled message is a whole one: its records, all of them, in order, *)
(* and none of another message.                                            *)
ReplyMatchesCall ==
  /\ \A n \in 1..MaxCalls : outcome[n] \notin {Unset, Failed} => outcome[n] = n
  /\ delivered # <<>> =>
       /\ Len(delivered) = delivered[1].of
       /\ \A i \in DOMAIN delivered :
            /\ delivered[i].part = i
            /\ delivered[i].call = delivered[1].call
            /\ delivered[i].what = delivered[1].what

DataInFlight ==
  \/ \E i \in DOMAIN toPeer : toPeer[i].what # "setup"
  \/ \E i \in DOMAIN fromPeer : fromPeer[i].id = Ours /\ fromPeer[i].part > 0

(* A session that would accept another request has nothing left of an      *)
(* earlier one: no record in either direction, and a partner that is not   *)
(* working on anything.                                                    *)
ReadyIsQuiet ==
  (pc = "idle" /\ MaySendData(FALSE)) =>
    /\ ~DataInFlight
    /\ peer.out = <<>> /\ peer.serving = NoCall /\ ~peer.waiting

(* At most one call is in flight on a connection (docs/architecture.md,    *)
(* "Ownership invariants"): the partner never has a second request before  *)
(* it has answered the first.                                              *)
OneCallInFlight ==
  Cardinality({i \in DOMAIN toPeer : toPeer[i].what = "request"})
    + (IF peer.serving # NoCall THEN 1 ELSE 0) <= 1

(* The session believes it is logged on only if the partner accepted the   *)
(* logon.                                                                  *)
AuthenticatedIsLoggedOn == authenticated => peer.loggedOn

(* Once the state machine has reached its terminal state, or the session   *)
(* is closed, nothing more is ever written to the connection.              *)
NothingSentAfterTheEnd ==
  [][(setup = "closed" \/ closed) => Len(toPeer') <= Len(toPeer)]_vars

(* Every operation returns, also when the partner never answers.           *)
OperationsReturn ==
  (pc \in {"awaiting", "callback", "answer"}) ~> (pc \in {"idle", "discard", "closed"})
=============================================================================
