-------------------------------- MODULE Appc --------------------------------
(***************************************************************************)
(* The APPC conversation rules of internal/appc/conversation.go, as        *)
(* functions of a state and a record: the client setup state machine       *)
(* (Sent, Received, ResponseComplete) and the reassembly of one message    *)
(* from its data records (the ConversationDecoder).                        *)
(*                                                                         *)
(* A record has a function code fc, return codes rc (below), a flag final  *)
(* (the end-of-message bit of its vector), the identity id of the          *)
(* conversation it belongs to (conversation ID, sequence number and        *)
(* connection indices) and the number of the piece of data it carries,     *)
(* 0 when it carries none.                                                 *)
(*    rc = "ok"       both return codes are zero                           *)
(*    rc = "dealloc"  APPC return code 18 (normal deallocation), SAP code 0 *)
(*    rc = "error"    any other return code                                *)
(*    rc = "short"    fewer bytes than a record header (an NI_PING, say)   *)
(***************************************************************************)
EXTENDS Naturals, Sequences

CONSTANT
  MaxFragments  \* ConversationDecoder.maxFragments

ASSUME MaxFragmentsAssumption == MaxFragments \in Nat \ {0}

SetupStates ==
  {"new", "initialize-pending", "initialized", "tp-set", "partner-set",
   "allocate-pending", "send-continuation", "send-barrier-pending",
   "response-pending", "ready", "closed"}

FunctionCodes == {"Initialize", "SetTpName", "SetPartnerLuName", "Allocate",
                  "SapSend", "AsyncSendData", "SendData", "Receive", "Deallocate"}

-----------------------------------------------------------------------------
(* ClientSetupStateMachine                                                 *)

(* What Sent allows in each state.                                         *)
Sendable(st) ==
  CASE st = "new"               -> {"Initialize"}
    [] st = "initialized"       -> {"SetTpName", "SetPartnerLuName"}
    [] st = "tp-set"            -> {"SetPartnerLuName"}
    [] st = "partner-set"       -> {"Allocate"}
    [] st = "ready"             -> {"SapSend", "AsyncSendData", "Deallocate"}
    [] st = "send-continuation" -> {"AsyncSendData", "SendData", "Receive"}
    [] OTHER                    -> {}

(* The final marker a function code must or must not carry.                *)
WellShaped(st, fc, final) ==
  /\ fc = "SapSend" => final
  /\ fc \in {"AsyncSendData", "SendData"} => ~final
  /\ (fc = "Receive" /\ st = "send-continuation") => final

(* Mutants: the machine accepts a request while a response is pending, or  *)
(* after its end.                                                          *)
Mut_SendWhilePending(st, fc, final) ==
  WellShaped(st, fc, final) /\ (fc \in Sendable(st) \/ st = "response-pending")
Mut_SendAfterEnd(st, fc, final) ==
  WellShaped(st, fc, final) /\ (fc \in Sendable(st) \/ st = "closed")

(* Whether Sent accepts the record; when it does not, the state stays.     *)
MaySend(st, fc, final) ==
  WellShaped(st, fc, final) /\ fc \in Sendable(st)

(* The state after an accepted Sent.                                       *)
AfterSent(st, fc, final) ==
  CASE fc = "Initialize"       -> "initialize-pending"
    [] fc = "SetTpName"        -> "tp-set"
    [] fc = "SetPartnerLuName" -> "partner-set"
    [] fc = "Allocate"         -> "allocate-pending"
    [] fc = "AsyncSendData"    -> "send-continuation"
    [] fc = "SapSend"          -> "response-pending"
    [] fc = "SendData"         -> "send-barrier-pending"
    [] fc = "Receive"          -> IF final THEN "response-pending" ELSE st
    [] fc = "Deallocate"       -> "closed"

DataFunctions == {"SapSend", "Receive"}

(* What Received allows in each state.                                     *)
Receivable(st) ==
  CASE st = "initialize-pending"   -> {"Initialize"}
    [] st = "allocate-pending"     -> {"Allocate"}
    [] st = "send-barrier-pending" -> {"SendData"}
    [] st = "response-pending"     -> DataFunctions
    [] OTHER                       -> {}

(* The disposition Received returns: "refused" is every error.             *)
Disposition(st, rec) ==
  CASE rec.rc = "dealloc" /\ st = "response-pending" /\ rec.fc \in DataFunctions
         -> "normal-deallocation"
    [] rec.rc = "ok" /\ rec.fc \in Receivable(st) -> "accepted"
    [] OTHER -> "refused"

(* The state after Received: only an accepted record keeps it open.        *)
AfterReceived(st, rec) ==
  CASE Disposition(st, rec) # "accepted" -> "closed"
    [] st = "initialize-pending"         -> "initialized"
    [] st = "allocate-pending"           -> "ready"
    [] st = "send-barrier-pending"       -> "send-continuation"
    [] OTHER                             -> st

(* The state after ResponseComplete.                                       *)
ResponseComplete(st) == IF st = "response-pending" THEN "ready" ELSE "closed"

-----------------------------------------------------------------------------
(* ConversationDecoder.  pending is the sequence of data records held for  *)
(* an unfinished message, <<>> when there is none.                         *)

(* Mutant: the identity of a continuation is not compared.                 *)
Mut_AnyContinuation(pending, rec, allowInitialReceive) ==
  rec.fc = IF pending = <<>> THEN "SapSend" ELSE "Receive"

(* A message may open with F_RECEIVE only after a streamed request         *)
(* (allowInitialReceive); a continuation is an F_RECEIVE of the same       *)
(* identity (matchPending).                                                *)
Continues(pending, rec, allowInitialReceive) ==
  IF pending = <<>>
    THEN rec.fc = "SapSend" \/ allowInitialReceive
    ELSE rec.fc = "Receive" /\ rec.id = pending[1].id

(* Whether push, or the terminal push of a deallocation, returns an error. *)
PushFails(pending, rec, allowInitialReceive) ==
  IF rec.fc \in DataFunctions
    THEN \/ rec.rc \notin {"ok", "dealloc"}
         \/ Len(pending) + 1 > MaxFragments
         \/ ~Continues(pending, rec, allowInitialReceive)
         \/ rec.rc = "dealloc" /\ rec.part = 0
    ELSE rec.rc # "ok" \/ pending # <<>>

(* Whether a push that succeeds returns the message: at its final record,  *)
(* or at a deallocation.                                                   *)
CompletesMessage(rec) == rec.fc \in DataFunctions /\ (rec.final \/ rec.rc = "dealloc")

(* What the decoder holds after such a push.                               *)
Pushed(pending, rec) ==
  IF CompletesMessage(rec) THEN <<>>
  ELSE IF rec.fc \in DataFunctions THEN Append(pending, rec) ELSE pending
=============================================================================
