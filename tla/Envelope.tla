------------------------------- MODULE Envelope -------------------------------
(***************************************************************************)
(* internal/rfcerr: what a response says went wrong, and whether anything  *)
(* did.                                                                    *)
(***************************************************************************)
EXTENDS FieldChain

EndTag == \HFFFF
ExceptionKey == \H0401
ErrorMessage == \H0402
RuntimeID == \H0403
T100Text == \H0404
Control0420 == \H0420
UseClassExceptions == \H0421
ClassExceptionInfo == \H0422
MessageIdentityTags == {\H0415, \H0416, \H0417}
MessageTextTags == {ErrorMessage, T100Text}
TextTags == {ExceptionKey, RuntimeID, \H0411, \H0412, \H0413, \H0414, \H0418} \cup MessageTextTags \cup MessageIdentityTags
(* Mutant: a call stack on its own does not count.                         *)
Mut_StackForgotten == TextTags \ {ExceptionKey, RuntimeID, \H0418}
SecondaryErrorTags == TextTags \ {ExceptionKey, RuntimeID}
ControlTags == {Control0420, UseClassExceptions, ClassExceptionInfo}
ClassicResponseDataTags ==
  {\H0102, \H0201, \H0203, \H0205, \H0301, \H0302, \H0303, \H0304, \H0502, \H0503, \H0512, \H0514}

(* decodeStrictUTF16LE: no NUL and no half of a surrogate pair.            *)
Units(bytes) == [k \in 1..(Len(bytes) \div 2) |-> bytes[2 * k - 1] + 256 * bytes[2 * k]]
Unit(state, u) ==
  LET high == u \in \HD800..\HDBFF
      low == u \in \HDC00..\HDFFF
  IN  CASE state = "high" -> IF low THEN "text" ELSE "bad"
        [] state = "text" -> IF u = 0 \/ low THEN "bad" ELSE IF high THEN "high" ELSE "text"
        [] OTHER -> "bad"
IsStrictUTF16LE(bytes) == Len(bytes) % 2 = 0 /\ FoldLeft(Unit, "text", Units(bytes)) = "text"

(* A fact that may come once only.                                         *)
Mut_FirstWins(body, t) == TRUE
AtMostOnce(body, t) == Cardinality({k \in DOMAIN body : body[k].tag = t}) <= 1

Bytes(body, tags) ==
  FoldLeft(LAMBDA n, f : IF f.tag \in tags THEN n + Len(f.value) ELSE n, 0, body)
WithinLimits(body, max) ==
  /\ Bytes(body, TextTags) <= max.totalText /\ Bytes(body, ControlTags) <= max.totalControl
  /\ Cardinality({k \in DOMAIN body : body[k].tag \in ControlTags}) <= max.controls
  /\ \A k \in DOMAIN body :
       Len(body[k].value) <= (IF body[k].tag \in TextTags THEN max.text ELSE IF body[k].tag \in ControlTags THEN max.control
                              ELSE Len(body[k].value))
Readable(body, allowed, max) ==
  /\ WithinLimits(body, max)
  /\ \A t \in TextTags \cup {UseClassExceptions, ClassExceptionInfo} : AtMostOnce(body, t)
  /\ \A k \in DOMAIN body :
       /\ body[k].tag \in TextTags \cup ControlTags \cup allowed
       /\ body[k].tag \in TextTags => IsStrictUTF16LE(body[k].value)

(* Decode: the facts, and the outcome they amount to.                      *)
Facts(body) ==
  [t \in TextTags |->
     LET at == {k \in DOMAIN body : body[k].tag = t}
     IN  IF at = {} THEN <<>> ELSE TrimRight(Units(body[CHOOSE k \in at : \A j \in at : k <= j].value))]
Outcome(body, facts) ==
  LET present == {body[k].tag : k \in DOMAIN body}
      Empty(t) == t \in present /\ facts[t] = <<>>
      info == ClassExceptionInfo \in present
      statuses == SelectSeq(body, LAMBDA f : f.tag = Control0420)
  IN  CASE Empty(ExceptionKey) \/ Empty(RuntimeID) -> "none"
        [] {ExceptionKey, RuntimeID} \subseteq present -> "none"
        [] info /\ (ExceptionKey \notin present \/ UseClassExceptions \in present) -> "none"
        [] ExceptionKey \in present -> "abapException"
        [] RuntimeID \in present -> "abapRuntime"
        [] (\E t \in MessageTextTags : facts[t] # <<>>) \/ (\A t \in MessageIdentityTags : facts[t] # <<>>) -> "abapMessage"
        [] present \cap SecondaryErrorTags # {} -> "none"
        [] OTHER -> IF Len(statuses) = 1 /\ statuses[1].value = <<0, 0, 0, 0>> THEN "success" ELSE "none"
DecodeEnvelope(fields, additional, max) ==
  LET ends == {k \in DOMAIN fields : fields[k].tag = EndTag}
      body == SubSeq(fields, 1, Len(fields) - 1)
      outcome == Outcome(body, Facts(body))
  IN  IF Len(fields) > max.fields \/ ends # {Len(fields)} \/ fields[Len(fields)].value # <<>> THEN Refused
      ELSE IF ~Readable(body, ClassicResponseDataTags \cup additional, max) \/ outcome = "none" THEN Refused
      ELSE [ok |-> TRUE, outcome |-> outcome, facts |-> Facts(body)]
DefaultEnvelopeLimits ==
  [text |-> 1048576, totalText |-> 4194304, control |-> 4096, totalControl |-> 65536, controls |-> 64, fields |-> 256]

-----------------------------------------------------------------------------
(* Decode says success only of a response with no error fact whatever in it*)
(* and one zero control; and whatever else it accepts says in a fact of its*)
(* own what went wrong.                                                    *)
SuccessIsClean(fields, r) ==
  LET present == {fields[k].tag : k \in DOMAIN fields}
  IN  IF r.outcome = "success"
      THEN present \cap TextTags = {} /\ ClassExceptionInfo \notin present
           /\ \E one \in DOMAIN fields :
                /\ {k \in DOMAIN fields : fields[k].tag = Control0420} = {one}
                /\ fields[one].value = <<0, 0, 0, 0>>
      ELSE \E t \in present \cap TextTags : r.facts[t] # <<>>

(* The order in which a backend writes its facts and controls decides      *)
(* neither the outcome nor a fact: Decode of the response with any two     *)
(* neighbours exchanged is the same.                                       *)
OrderIsIrrelevant(fields, additional, max, r) ==
  \A k \in 1..(Len(fields) - 2) :
    DecodeEnvelope([fields EXCEPT ![k] = fields[k + 1], ![k + 1] = fields[k]], additional, max) = r
=============================================================================
