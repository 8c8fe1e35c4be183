------------------------------ MODULE AdtHandler ------------------------------
(***************************************************************************)
(* ADTRestHandler (internal/rfcserver/adt_handler.go) with the token of    *)
(* adt_csrf.go: one conversation's calls of SADT_REST_RFC_ENDPOINT, each   *)
(* made as an HTTP request with the token and the cookies of the bridge's  *)
(* own session, and made once more when it was refused for want of a token.*)
(*                                                                         *)
(* The backend is external.  It judges a request that passes its check of  *)
(* cookie and token, may start a new session with any answer and drop the  *)
(* one it has, and may not answer.  A session is a number, and so is the   *)
(* token that was minted for it; 0 is neither.                             *)
(***************************************************************************)
EXTENDS Naturals

CONSTANTS
  MaxRequests,  \* bound: calls of the handler
  MaxSessions   \* bound: sessions the backend starts

VARIABLES
  token,     \* csrfState.token
  jar,       \* the session the cookie jar holds
  at,        \* where the handler is
  method,    \* "modifying" or "reading"
  attempt,   \* which send of the call it is
  fetched,   \* the token that send put on the request
  answer,    \* the backend's last answer
  returned,  \* what the last call returned
  requests,  \* how many calls were made
  backend,   \* the backend: its policy, its session and how many it started
  judged,    \* how often the backend judged the request of this call
  dropped    \* it dropped a session since the call's last send began

handlerVars == <<token, jar, at, method, attempt, fetched, answer, returned, requests>>
adtVars == <<handlerVars, backend, judged, dropped>>

None == [status |-> "none", token |-> 0]

AdtInit ==
  /\ token = 0 /\ jar = 0 /\ at = "idle" /\ method = "reading" /\ attempt = 0 /\ fetched = 0
  /\ answer = None /\ returned = "nothing" /\ requests = 0
  /\ backend \in [protected : BOOLEAN, mints : {"HEAD", "GET", "never"}, session : {0}, started : {0}]
  /\ judged = 0 /\ dropped = FALSE
-----------------------------------------------------------------------------
(* The backend answers an exchange: the session of the cookie, or a new    *)
(* one when that is gone, which the answer's cookie tells the jar.         *)
Fresh == backend.started < MaxSessions
Sessions == IF jar = backend.session /\ jar # 0 THEN {jar} ELSE IF Fresh THEN {backend.started + 1} ELSE {}
InSession(s) ==
  /\ backend' = [backend EXCEPT !.session = s, !.started = IF s > @ THEN s ELSE @]
  /\ jar' = s

(* The session ends: the next request starts another.                      *)
Drop ==
  /\ at # "idle" \/ requests < MaxRequests
  /\ backend.session # 0 /\ Fresh
  /\ backend' = [backend EXCEPT !.session = 0]
  /\ dropped' = TRUE
  /\ UNCHANGED <<handlerVars, judged>>
-----------------------------------------------------------------------------
(* A call comes in.  One whose REQUEST cannot be read, or whose URI is not *)
(* a path, is refused and nothing is sent.                                 *)
Invoke ==
  /\ at = "idle" /\ requests < MaxRequests
  /\ requests' = requests + 1 /\ judged' = 0 /\ attempt' = 1 /\ dropped' = FALSE
  /\ \/ at' = "send" /\ returned' = "nothing" /\ method' \in {"modifying", "reading"}
     \/ at' = "idle" /\ returned' = "error" /\ UNCHANGED method
  /\ UNCHANGED <<token, jar, fetched, answer, backend>>

(* send: a modifying request needs a token, the one held or a new one.     *)
Send ==
  /\ at = "send"
  /\ at' = IF method = "modifying" /\ token = 0 THEN "HEAD" ELSE "do"
  /\ fetched' = IF method = "modifying" THEN token ELSE 0
  /\ UNCHANGED <<token, jar, method, attempt, answer, returned, requests, backend, judged, dropped>>

(* Mutant: a HEAD without a token is the end of it.                        *)
Mut_HeadOnly(s) ==
  LET minted == IF backend.mints = "HEAD" \/ backend.mints = at THEN s ELSE 0
  IN  /\ at' = "do"
      /\ token' = minted /\ fetched' = minted

(* fetchCSRFToken asks with HEAD and, when that brought none, with GET;    *)
(* having none in the end is no error.                                     *)
Probed(s) ==
  LET minted == IF backend.mints = "HEAD" \/ backend.mints = at THEN s ELSE 0
  IN  IF minted = 0 /\ at = "HEAD" THEN at' = "GET" /\ UNCHANGED <<token, fetched>>
      ELSE at' = "do" /\ token' = minted /\ fetched' = minted
Probe ==
  /\ at \in {"HEAD", "GET"}
  /\ \E s \in Sessions : InSession(s) /\ Probed(s)
  /\ UNCHANGED <<method, attempt, answer, returned, requests, judged, dropped>>

(* Mutant: a request that brought no answer is sent again.                 *)
Mut_SendAgain ==
  IF attempt = 1 THEN at' = "send" /\ attempt' = 2 /\ UNCHANGED returned
  ELSE at' = "idle" /\ returned' = "error" /\ UNCHANGED attempt

(* Return of an error.                                                     *)
Fail == at' = "idle" /\ returned' = "error" /\ UNCHANGED attempt

(* client.Do returns an error for a probe; the token stays what it was.    *)
ProbeFails ==
  /\ at \in {"HEAD", "GET"} /\ Fail
  /\ UNCHANGED <<token, jar, method, fetched, answer, requests, backend, judged, dropped>>

(* The backend's check, and its verdict on what passes it: it may rotate   *)
(* its session with a success.                                             *)
Passes(s) == method = "reading" \/ ~backend.protected \/ (jar = s /\ fetched = s)
Exchange(s, status) ==
  IF ~Passes(s) THEN status = "required" /\ answer' = [status |-> status, token |-> 0] /\ InSession(s) /\ UNCHANGED judged
  ELSE /\ status \in {"ok", "refused"} /\ judged' = judged + 1
       /\ \/ answer' = [status |-> status, token |-> 0] /\ InSession(s)
          \/ /\ status = "ok" /\ Fresh /\ s = jar
             /\ answer' = [status |-> status, token |-> backend.started + 1]
             /\ InSession(backend.started + 1)
Do ==
  /\ at = "do"
  /\ \E s \in Sessions, status \in {"ok", "refused", "required"} : Exchange(s, status)
  /\ at' = "answered"
  /\ UNCHANGED <<token, method, attempt, fetched, returned, requests, dropped>>

(* The request or its answer is lost, before or after it was judged.       *)
DoFails ==
  /\ at = "do" /\ Fail
  /\ judged' \in {judged} \cup (IF jar = backend.session /\ Passes(jar) THEN {judged + 1} ELSE {})
  /\ UNCHANGED <<token, jar, method, fetched, answer, requests, backend, dropped>>

(* Mutants: every refusal is taken for a missing token; the token that was *)
(* refused is kept.                                                        *)
Mut_AnyRefusal == answer.status \in {"required", "refused"}
Mut_TokenKept == attempt' = 2 /\ at' = "send" /\ dropped' = FALSE /\ UNCHANGED token

(* wantsCSRFToken.                                                         *)
WantsToken == answer.status = "required"

(* Once more with a new token.                                             *)
Again == attempt' = 2 /\ at' = "send" /\ dropped' = FALSE /\ token' = 0

Retry ==
  /\ at = "answered" /\ attempt = 1 /\ WantsToken /\ Again
  /\ UNCHANGED <<jar, method, fetched, answer, returned, requests, backend, judged>>

(* The answer is the caller's; a token that came with a success is kept.   *)
(* Reading the body or writing the response may still fail.                *)
Deliver ==
  /\ at = "answered" /\ (attempt = 2 \/ ~WantsToken)
  /\ token' = IF answer.status = "ok" /\ answer.token # 0 THEN answer.token ELSE token
  /\ at' = "idle" /\ returned' \in {answer.status, "error"}
  /\ UNCHANGED <<jar, method, attempt, fetched, answer, requests, backend, judged, dropped>>

AdtNext ==
  \/ Drop \/ Invoke \/ Send \/ Probe \/ ProbeFails \/ Do \/ DoFails \/ Retry \/ Deliver

AdtSpec == AdtInit /\ [][AdtNext]_adtVars
-----------------------------------------------------------------------------
(* The backend judges the request of a call at most once: it is made again *)
(* only if it was refused for want of a token, never because the answer    *)
(* was lost or because the backend refused it on its merits.               *)
JudgedOnce == judged <= 1

(* The caller sees "X-CSRF-Token: Required" only from a backend that mints *)
(* no token or dropped the session between the second fetch and the        *)
(* request: a token gone stale in between two calls, with a rotated or an  *)
(* expired session, is replaced without the caller noticing.               *)
RefusalIsLasting == returned = "required" => backend.mints = "never" \/ dropped
=============================================================================
