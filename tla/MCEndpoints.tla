----------------------------- MODULE MCEndpoints -----------------------------
(***************************************************************************)
(* Five machines that share no state, checked side by side: the serving    *)
(* loop, the NI transport, the writer of planned APPC records, the handler *)
(* of the ADT bridge and a connection through the recording proxy.  A      *)
(* behaviour runs one of them, the others keep their initial state.        *)
(***************************************************************************)
EXTENDS ServeConscious, Transport, Fragmentation, AdtHandler, Sniffer

(* The last payload is over the limit.                                     *)
MCPayloads == {<<>>, <<0, 2>>, <<3, 4, 5>>}

(* The server of a proxied connection answers with an empty record or is   *)
(* silent; the client's last record may be over the limit.                 *)
MCStreams ==
  [ClientToServer : {<<>>, <<<<1>>, <<0, 2>>>>, <<<<>>, <<3, 4, 5>>>>}, ServerToClient : {<<>>, <<<<>>>>}]

VARIABLE machine

Serving ==
  /\ machine = "serve" /\ Next
  /\ UNCHANGED <<dispatcher, transportVars, writerVars, adtVars, snifferVars>>
Receiving ==
  /\ machine = "transport" /\ TransportNext
  /\ UNCHANGED <<dispatcher, vars, writerVars, adtVars, snifferVars>>
Writing ==
  /\ machine = "fragmentation" /\ WriterNext
  /\ UNCHANGED <<dispatcher, vars, transportVars, adtVars, snifferVars>>
Handling ==
  /\ machine = "handler" /\ AdtNext
  /\ UNCHANGED <<dispatcher, vars, transportVars, writerVars, snifferVars>>
Proxying ==
  /\ machine = "proxy" /\ ProxyNext
  /\ UNCHANGED <<dispatcher, vars, transportVars, writerVars, adtVars>>

NoInput == [length |-> 0, compact |-> -1, maxLength |-> MaxLen, maxFragments |-> 0, streaming |-> FALSE]

MCInit ==
  /\ machine \in {"serve", "transport", "fragmentation", "handler", "proxy"}
  /\ Init /\ (machine # "serve" => dispatcher = [auth |-> FALSE, ping |-> FALSE])
  /\ TransportInit
  /\ WriterInit /\ (machine # "fragmentation" => input = NoInput)
  /\ AdtInit /\ (machine # "handler" => ~backend.protected /\ backend.mints = "never")
  /\ ProxyInit /\ (machine # "proxy" => ~raw /\ frames = [ClientToServer |-> <<>>, ServerToClient |-> <<>>])
MCNext == (Serving \/ Receiving \/ Writing \/ Handling \/ Proxying) /\ UNCHANGED machine

(* The fairness of the serving loop and of the proxy: what it asks of one  *)
(* machine is not enabled while another runs.                              *)
MCSpec ==
  /\ MCInit
  /\ [][MCNext]_<<machine, dispatcher, vars, transportVars, writerVars, adtVars, snifferVars>>
  /\ Fairness /\ ProxyFairness
==============================================================================
