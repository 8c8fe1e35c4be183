---------------------------- MODULE ServeConscious ----------------------------
(***************************************************************************)
(* The serving role of internal/rfcserver/serve_conscious.go: the loop     *)
(* that answers one client connection, from the gateway record through the *)
(* logon to the calls it hands to the dispatcher.                          *)
(*                                                                         *)
(* A payload is the sequence of the pieces its records carried.  The       *)
(* client is external.  It asks one thing at a time, waits for the answer  *)
(* and sends each request or logon in one or more records; it may abandon  *)
(* a request half sent, by initializing the conversation again, and it may *)
(* go away.                                                                *)
(***************************************************************************)
EXTENDS Naturals, Sequences

CONSTANTS
  LogonLimit,    \* Dispatcher.MaxLogonBytes, counted in pieces
  MaxMessages,   \* bound: requests and logons of the client
  MaxPieces,     \* bound: records one of them travels in
  MaxControls    \* bound: control frames of the client

ASSUME ServeConsciousAssumption ==
  /\ LogonLimit \in Nat /\ MaxMessages \in Nat
  /\ MaxPieces \in Nat \ {0} /\ MaxControls \in Nat

VARIABLES
  dispatcher, \* whether AuthenticateLogon is set, and RFC_PING has a handler
  open,      \* the loop runs and the connection is not closed
  counter,   \* conversationCounter
  conv,      \* convID
  eclipse,   \* conversationIsEclipse
  pending,   \* pending
  invoked,   \* the payloads handed to Dispatcher.Invoke
  accepts,   \* how many logon-accepts were sent
  cause,     \* why the loop returned
  inbox,     \* frames on their way to the server
  outbox,    \* frames on their way to the client
  client     \* the client

serverVars == <<open, counter, conv, eclipse, pending, invoked, accepts, cause>>
vars == <<serverVars, inbox, outbox, client>>

Controls == {"gateway", "initialize", "allocate", "cpicinit", "NI_PING"}
Contents == {"good logon", "bad logon", "call", "RFC_PING"}
Logons == {"good logon", "bad logon"}
ClientConv == MaxControls + 1   \* the id a client chose itself in CPIC-init
Causes == {"none", "client gone", "limit", "not supported", "rejected", "decode", "encode"}

Pieces == [what : Contents, msg : 1..MaxMessages, part : 1..MaxPieces, of : 1..MaxPieces]
Frames == [kind : Controls] \cup [kind : {"data"}, piece : Pieces]
Replies == [kind : {"control", "accept", "pong", "response"}, conv : Nat]

\* The client has nothing half sent.
NoMessage == [what |-> "call", msg |-> 0, part |-> 1, of |-> 1]
Sending == client.message.part < client.message.of

\* Piece number k of the message that the client sends.
Part(k) == [client.message EXCEPT !.part = k]

TypeOK ==
  /\ dispatcher \in [auth : BOOLEAN, ping : BOOLEAN]
  /\ open \in BOOLEAN /\ eclipse \in BOOLEAN /\ counter \in Nat
  /\ conv \in Nat /\ accepts \in Nat /\ cause \in Causes
  /\ pending \in Seq(Pieces) /\ invoked \in Seq(Seq(Pieces))
  /\ inbox \in Seq(Frames) /\ outbox \in Seq(Replies)
  /\ client \in [here : BOOLEAN, waits : {"nothing", "data"} \cup Controls,
                 message : Pieces \cup {NoMessage}, controls : Nat, conv : Nat,
                 abandoned : BOOLEAN, proven : BOOLEAN]

Init ==
  /\ dispatcher \in [auth : BOOLEAN, ping : BOOLEAN]
  /\ open = TRUE /\ counter = 0 /\ conv = 0 /\ eclipse = FALSE /\ pending = <<>>
  /\ invoked = <<>> /\ accepts = 0 /\ cause = "none"
  /\ inbox = <<>> /\ outbox = <<>>
  /\ client = [here |-> TRUE, waits |-> "nothing", message |-> NoMessage, controls |-> 0,
               conv |-> 0, abandoned |-> FALSE, proven |-> FALSE]

------------------------------------------------------------------------------
(***************************************************************************)
(* What the server reads in a payload.                                     *)
(***************************************************************************)

\* The pieces are all those of one message, in order: what a chain decoder or
\* a logon decoder accepts.
Whole(payload) ==
  /\ Len(payload) = payload[1].of
  /\ \A i \in 1..Len(payload) :
       payload[i] = [payload[1] EXCEPT !.part = i]

\* isEclipseLogon: the payload opens with the classic header.
IsLogon(payload) == payload[1].what \in Logons /\ payload[1].part = 1

\* AuthenticateLogon: the payload decodes as a logon that names the
\* configured user.
Authenticates(payload) == Whole(payload) /\ payload[1].what = "good logon"

\* The check made on a record before the logon: the bytes joined so far must
\* stay within the limit.
Mut_RecordOnly == 1 > LogonLimit
OverLimit == dispatcher.auth /\ ~eclipse /\ Len(pending) + 1 > LogonLimit

\* Whether a payload must pass AuthenticateLogon before it is read further.
MustAuthenticate(payload) == dispatcher.auth /\ (~eclipse \/ IsLogon(payload))

------------------------------------------------------------------------------
(***************************************************************************)
(* The loop.  Every action takes the next frame and is one case of it.     *)
(***************************************************************************)
Took(kind) ==
  /\ open /\ inbox # <<>> /\ Head(inbox).kind = kind
  /\ inbox' = Tail(inbox)

Reply(kind, id) == outbox' = Append(outbox, [kind |-> kind, conv |-> id])

\* return: the deferred conn.Close ends the connection.
Return(why) ==
  /\ open' = FALSE /\ cause' = why
  /\ UNCHANGED outbox

Stays == UNCHANGED <<open, cause>>

\* Receive returns an error: the client has closed its side and everything it
\* sent has been read.
ReceiveFails ==
  /\ open /\ inbox = <<>> /\ ~client.here
  /\ Return("client gone")
  /\ UNCHANGED <<counter, conv, eclipse, pending, invoked, accepts, inbox, client>>

GatewayRecord ==
  /\ Took("gateway")
  /\ Reply("control", 0) /\ Stays
  /\ UNCHANGED <<counter, conv, eclipse, pending, invoked, accepts, client>>

Mut_IdNotKept ==
  /\ Took("initialize")
  /\ counter' = counter + 1
  /\ Reply("control", counter') /\ Stays
  /\ UNCHANGED <<conv, eclipse, pending, invoked, accepts, client>>

\* F_INITIALIZE (newConversationID): the server chooses the conversation's id.  What was held of
\* an unfinished request and conversationIsEclipse stay as they are.
Initialize ==
  /\ Took("initialize")
  /\ counter' = counter + 1 /\ conv' = counter'
  /\ Reply("control", conv') /\ Stays
  /\ UNCHANGED <<eclipse, pending, invoked, accepts, client>>

\* F_ALLOCATE: the client's record is sent back.
Allocate ==
  /\ Took("allocate")
  /\ Reply("control", client.conv) /\ Stays
  /\ UNCHANGED <<counter, conv, eclipse, pending, invoked, accepts, client>>

\* CPIC-init: an SM59 client's logon, accepted from a template unless logons
\* must be authenticated.
Mut_CpicInitOpen ==
  /\ Took("cpicinit")
  /\ conv' = ClientConv /\ accepts' = accepts + 1
  /\ Reply("accept", ClientConv) /\ Stays
  /\ UNCHANGED <<counter, eclipse, pending, invoked, client>>

CpicInit ==
  /\ Took("cpicinit")
  /\ IF dispatcher.auth
     THEN Return("not supported") /\ UNCHANGED <<conv, accepts>>
     ELSE /\ conv' = ClientConv /\ accepts' = accepts + 1
          /\ Reply("accept", ClientConv) /\ Stays
  /\ UNCHANGED <<counter, eclipse, pending, invoked, client>>

\* A record of a request or a logon exceeds the limit set for logons.
DataOverLimit ==
  /\ Took("data") /\ OverLimit
  /\ Return("limit")
  /\ UNCHANGED <<counter, conv, eclipse, pending, invoked, accepts, client>>

Final(piece) == piece.part = piece.of

\* A record that is not the last of its message is held.
DataContinues ==
  /\ Took("data") /\ ~OverLimit
  /\ ~Final(Head(inbox).piece)
  /\ pending' = Append(pending, Head(inbox).piece)
  /\ Stays
  /\ UNCHANGED <<counter, conv, eclipse, invoked, accepts, outbox, client>>

\* The last record of a message: the payload it completes.
Mut_PendingKept(payload) ==
  /\ Took("data") /\ ~OverLimit
  /\ Final(Head(inbox).piece)
  /\ payload = Append(pending, Head(inbox).piece)
  /\ UNCHANGED pending

Completes(payload) ==
  /\ Took("data") /\ ~OverLimit
  /\ Final(Head(inbox).piece)
  /\ payload = Append(pending, Head(inbox).piece)
  /\ pending' = <<>>

Joined == IF inbox # <<>> /\ Head(inbox).kind = "data"
          THEN Append(pending, Head(inbox).piece) ELSE <<>>

\* AuthenticateLogon refuses the payload.
LogonRejected ==
  /\ Completes(Joined)
  /\ MustAuthenticate(Joined) /\ ~Authenticates(Joined)
  /\ Return("rejected")
  /\ UNCHANGED <<counter, conv, eclipse, invoked, accepts, client>>

\* The logon is accepted; from here on the conversation is Eclipse-framed.
LogonAccepted ==
  /\ Completes(Joined)
  /\ MustAuthenticate(Joined) => Authenticates(Joined)
  /\ IsLogon(Joined)
  /\ eclipse' = TRUE /\ accepts' = accepts + 1
  /\ Reply("accept", conv) /\ Stays
  /\ UNCHANGED <<counter, conv, invoked, client>>

\* The payload is to be read as a call.
IsCall(payload) ==
  /\ Completes(payload)
  /\ MustAuthenticate(payload) => Authenticates(payload)
  /\ ~IsLogon(payload)

\* DecodeFunctionRequest fails.
RequestUndecodable ==
  /\ IsCall(Joined) /\ ~Whole(Joined)
  /\ Return("decode")
  /\ UNCHANGED <<counter, conv, eclipse, invoked, accepts, client>>

Mut_DanceOver ==
  /\ IsCall(Joined) /\ Whole(Joined)
  /\ Joined[1].what = "RFC_PING" /\ ~dispatcher.ping
  /\ Stays
  /\ UNCHANGED <<counter, conv, eclipse, invoked, accepts, outbox, client>>

\* RFC_PING without a handler is answered with the recorded dance.
PingDance ==
  /\ IsCall(Joined) /\ Whole(Joined)
  /\ Joined[1].what = "RFC_PING" /\ ~dispatcher.ping
  /\ Reply("response", conv) /\ Stays
  /\ UNCHANGED <<counter, conv, eclipse, invoked, accepts, client>>

\* The request is dispatched; an unknown function, an exception and a failing
\* handler are answered in-band like a result.
Dispatched ==
  /\ IsCall(Joined) /\ Whole(Joined)
  /\ Joined[1].what = "RFC_PING" => dispatcher.ping
  /\ invoked' = Append(invoked, Joined)
  /\ UNCHANGED <<counter, conv, eclipse, accepts, client>>

Answered ==
  /\ Dispatched
  /\ Reply("response", conv) /\ Stays

\* The response cannot be encoded or wrapped.
Unencodable ==
  /\ Dispatched
  /\ Return("encode")

\* Every other frame, NI_PING among them, falls to the default case.
Ignored ==
  /\ Took("NI_PING")
  /\ Stays
  /\ UNCHANGED <<counter, conv, eclipse, pending, invoked, accepts, outbox, client>>

ServerStep ==
  \/ ReceiveFails \/ GatewayRecord \/ Initialize \/ Allocate \/ CpicInit
  \/ DataOverLimit \/ DataContinues \/ LogonRejected \/ LogonAccepted
  \/ RequestUndecodable \/ PingDance \/ Answered \/ Unencodable \/ Ignored

------------------------------------------------------------------------------
(***************************************************************************)
(* The client (external).                                                  *)
(***************************************************************************)

ClientReady == open /\ client.here /\ client.waits = "nothing"

\* A control frame; F_INITIALIZE abandons what was half sent.
ClientControls ==
  \E kind \in Controls :
    /\ ClientReady /\ client.controls < MaxControls
    /\ Sending => kind = "initialize"
    /\ inbox' = Append(inbox, [kind |-> kind])
    /\ client' = [client EXCEPT
         !.controls = @ + 1,
         !.waits = kind,
         !.conv = IF kind = "cpicinit" THEN ClientConv ELSE @,
         !.abandoned = @ \/ Sending,
         !.message = Part(client.message.of)]
    /\ UNCHANGED <<serverVars, outbox>>

\* The next record of a request or of a logon.
ClientSends ==
  \E piece \in Pieces :
    /\ ClientReady
    /\ IF Sending
       THEN piece = Part(client.message.part + 1)
       ELSE piece.msg = client.message.msg + 1 /\ piece.part = 1
    /\ inbox' = Append(inbox, [kind |-> "data", piece |-> piece])
    /\ client' = [client EXCEPT
         !.message = piece,
         !.waits = IF Final(piece) THEN "data" ELSE "nothing",
         !.proven = @ \/ (Final(piece) /\ piece.what = "good logon")]
    /\ UNCHANGED <<serverVars, outbox>>

\* The client reads what it waits for: a pong if it sent NI_PING.
ClientReads ==
  /\ client.here /\ outbox # <<>>
  /\ (Head(outbox).kind = "pong") = (client.waits = "NI_PING")
  /\ outbox' = Tail(outbox)
  /\ client' = [client EXCEPT
       !.waits = "nothing",
       !.conv = IF client.waits = "initialize" THEN Head(outbox).conv ELSE @]
  /\ UNCHANGED <<serverVars, inbox>>

ClientLeaves ==
  /\ client.here
  /\ client' = [client EXCEPT !.here = FALSE]
  /\ UNCHANGED <<serverVars, inbox, outbox>>

ClientStep == ClientControls \/ ClientSends \/ ClientReads \/ ClientLeaves

Next == ServerStep \/ ClientStep

\* The dispatcher is configured before it serves.
Spec == Init /\ [][Next /\ UNCHANGED dispatcher]_<<vars, dispatcher>>

\* The loop goes on as long as there is something to read: handlers return
\* and a response can be written.  The client reads its answers.
Fairness == WF_vars(ServerStep) /\ WF_vars(ClientReads)
FairSpec == Spec /\ Fairness

------------------------------------------------------------------------------
(***************************************************************************)
(* Properties.                                                             *)
(***************************************************************************)

\* AuthenticateLogon gates every application call: no logon-accept is sent
\* and no request reaches a handler on a connection whose client has not sent
\* a complete logon with the right credentials.
GatedByLogon ==
  dispatcher.auth /\ (accepts > 0 \/ invoked # <<>>) => client.proven

\* What is held before the logon never exceeds MaxLogonBytes, however many
\* records it arrives in; and a client that finishes what it starts never loses
\* its connection to a decoding error: reassembly joins the records of one
\* message, and of that message only, whatever was sent before it.
PendingIsSound ==
  /\ dispatcher.auth /\ ~eclipse => Len(pending) <= LogonLimit
  /\ cause = "decode" => client.abandoned

\* The answer to a request or a logon names the conversation the client is in,
\* the one the last F_INITIALIZE or CPIC-init of the connection opened.
RepliesNameConversation ==
  client.waits = "data" => \A i \in 1..Len(outbox) : outbox[i].conv = client.conv

\* A request, a logon or an APPC control frame that asks for an answer gets
\* one, or the connection ends.  The keepalive is left to PingsAreAnswered.
RequestsAreAnswered ==
  client.waits \notin {"nothing", "NI_PING"} ~> client.waits = "nothing" \/ ~open \/ ~client.here

\* "Answer every NI_PING with NI_PONG, in any state, in any role": a client
\* that sends a keepalive gets its pong, or the connection ends.  The default
\* case of the loop drops the frame, so this does not hold.
PingsAreAnswered ==
  client.waits = "NI_PING" ~> client.waits = "nothing" \/ ~open \/ ~client.here
==============================================================================
