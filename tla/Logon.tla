-------------------------------- MODULE Logon ---------------------------------
(***************************************************************************)
(* The first exchange of a conversation: internal/cpic/logon.go, grammar.go*)
(* and ticket.go, internal/scramble, and what the ADT bridge answers       *)
(* (internal/rfcserver/adt_logon.go).                                      *)
(***************************************************************************)
EXTENDS CutResult, Bitwise

TagDestination == \H0006
TagClientAddress == \H0007
TagPartnerHost == \H0008
TagConnectionType == \H0011
TagKernelRelease == \H0012
TagKernelPatch == \H0013
TagSystemCodePage == \H0016
TagPartnerSystem == \H0018
TagProtocolVersion == \H0103
TagCapabilities == \H0106
TagUser == \H0111
TagClient == \H0114
TagLanguage == \H0115
TagPassword == \H0117
TagLogonStatus == \H0161
TagLogonMarker == \H0337
TagUnicodeIndicator == \H0501
TagTicket == \H0670
InitialProtocolVersion == <<0, 0, 14, 9>>
InitialCapabilities == <<4, 1, 0, 3, 0, 10, 2, 0, 0, 0, 35>>

filterTag(fields, tag) == SelectSeq(fields, LAMBDA f : f.tag = tag)
countTag(fields, tag) == Len(filterTag(fields, tag))
TagsOf(fields) == [k \in DOMAIN fields |-> fields[k].tag]

-----------------------------------------------------------------------------
(* ScrambleRfcPassword: the seed, then every byte under a key stream.  Of  *)
(* the seed only the low eleven bits reach the stream.                     *)
ScrambleTable ==
  <<240, 237, 83, 184, 50, 68, 241, 248, 118, 198, 121, 89, 253, 79, 19, 162, 193, 81, 149, 236, 84, 131, 194, 52, 119, 73,
    67, 162, 125, 226, 101, 150, 94, 83, 152, 120, 154, 23, 163, 60, 211, 131, 168, 184, 41, 251, 220, 165, 85, 215, 2, 119,
    132, 19, 172, 221, 249, 184, 49, 22, 97, 14, 109, 250>>
IsAscii(text) == \A k \in DOMAIN text : text[k] \in 32..126
ScrambleRfcPassword(password, seed) ==
  LET start == ((seed % 64) ^^ ((seed \div 32) % 64)) ^^ ((seed * 2) % 64)
      Stream(i) == ScrambleTable[((start + i) % 64) + 1] ^^ (((seed % 256) * i * i - i) % 256)
  IN  IF Len(password) > 40 \/ ~IsAscii(password) THEN Refused
      ELSE [ok |-> TRUE, value |-> <<seed % 256, seed \div 256, 0, 0>> \o [k \in DOMAIN password |-> password[k] ^^ Stream(k - 1)]]

-----------------------------------------------------------------------------
(* Tickets.  QueryUnescape of net/url, external: a plus is a blank, a      *)
(* percent sign takes two hexadecimal digits, and anything else is an error*)
(* that leaves the text as it was.                                         *)
Nibble(c) == IF c \in 48..57 THEN c - 48 ELSE IF c \in 65..70 THEN c - 55 ELSE IF c \in 97..102 THEN c - 87 ELSE -1
QueryUnescape(text) ==
  LET Step(got, c) ==
        CASE got.digits = 2 -> IF Nibble(c) < 0 THEN [got EXCEPT !.ok = FALSE]
                               ELSE [got EXCEPT !.digits = 1, !.value = 16 * Nibble(c)]
          [] got.digits = 1 -> IF Nibble(c) < 0 THEN [got EXCEPT !.ok = FALSE]
                               ELSE [got EXCEPT !.digits = 0, !.text = Append(@, got.value + Nibble(c))]
          [] got.digits = 0 -> IF c = 37 THEN [got EXCEPT !.digits = 2]
                               ELSE [got EXCEPT !.text = Append(@, IF c = 43 THEN Blank ELSE c)]
      end == FoldLeft(Step, [ok |-> TRUE, digits |-> 0, value |-> 0, text |-> <<>>], text)
  IN  IF end.ok /\ end.digits = 0 THEN end.text ELSE text
Slashes(text) == [k \in DOMAIN text |-> IF text[k] = 33 THEN 47 ELSE text[k]]
TrimSpace(text) ==
  LET ink == {k \in DOMAIN text : text[k] # Blank}
  IN  SelectSeq([k \in DOMAIN text |-> IF (\E j \in ink : j <= k) /\ (\E j \in ink : j >= k) THEN text[k] ELSE -1], LAMBDA c : c >= 0)
(* Mutant: the exclamation marks are replaced before the text is unescaped.*)
Mut_SlashesFirst(raw) == QueryUnescape(Slashes(TrimSpace(raw)))
NormalizeTicket(raw) == Slashes(QueryUnescape(TrimSpace(raw)))
EncodeTicketField(raw) == Utf16(NormalizeTicket(raw))
DecodeTicketField(value) == SelectSeq(Units(value), LAMBDA c : c \in 32..126)
TicketFromLogonFields(fields) ==
  LET tickets == filterTag(fields, TagTicket) IN IF tickets = <<>> THEN <<>> ELSE DecodeTicketField(tickets[1].value)

-----------------------------------------------------------------------------
(* EncodeInitialLogonRequest.  The texts of a logon and how long they may  *)
(* be; the session is given here and not drawn.                            *)
LogonTexts(in) ==
  {<<in.user, 40>>, <<in.address, 64>>, <<in.system, 64>>, <<in.host, 120>>, <<in.destination, 120>>, <<in.program, 64>>, <<in.function, 40>>}
IsRelease(text) == Len(text) = 3 /\ \A k \in DOMAIN text : IsDigit(text[k])
UpperASCII(text) == [k \in DOMAIN text |-> IF text[k] \in 97..122 THEN text[k] - 32 ELSE text[k]]
WithDefaults(in) ==
  LET Default(text, default) == IF text = <<>> THEN default ELSE text
  IN  [in EXCEPT !.kernel = Default(@, <<55, 53, 52>>), !.system = Default(@, <<58, 58, 49>>), !.function = Default(@, <<82, 70, 67, 80, 73, 78, 71>>)]
LogonFields(in, password) ==
  <<Field(TagStart, <<>>), Field(TagProtocolVersion, InitialProtocolVersion), Field(TagCapabilities, InitialCapabilities),
    Field(TagLogonMarker, <<>>), Field(TagSession, in.session), Field(TagClient, in.client), Field(TagUser, in.user),
    IF in.ticket = <<>> THEN Field(TagPassword, password) ELSE Field(TagTicket, EncodeTicketField(in.ticket)),
    Field(TagLanguage, UpperASCII(in.language)), Field(TagUnicodeIndicator, <<1>>), Field(TagClientAddress, in.address),
    Field(TagPartnerSystem, in.system), Field(TagConnectionType, <<69>>), Field(TagKernelRelease, in.kernel),
    Field(TagKernelPatch, in.kernel), Field(TagPartnerHost, in.host), Field(TagDestination, in.destination),
    Field(TagProgram, in.program), Field(TagContextEnd, <<>>), Field(TagKernel, in.kernel), Field(TagFunction, in.function),
    Field(EndTag, <<>>)>>
EncodeInitialLogonRequest(given) ==
  LET in == WithDefaults(given)
      password == ScrambleRfcPassword(in.password, in.seed)
      fields == LogonFields(in, password.value)
      size == 18 + FieldChainByteLength(fields) + 2
  IN  IF \/ ~IsRelease(in.client) \/ ~IsRelease(in.kernel) \/ ~password.ok \/ Len(in.session) # 16
         \/ Len(in.language) # 1 \/ UpperASCII(in.language)[1] \notin 65..90
         \/ \E t \in LogonTexts(in) : ~IsAscii(t[1]) \/ Len(t[1]) \notin 1..t[2]
      THEN Refused
      ELSE IF size > 65535 THEN Refused
      ELSE [ok |-> TRUE, payload |-> [prefix |-> "logon", chain |-> EncodeFieldChain(TagStart, fields, Limits).chain,
                                      trailer |-> [kind |-> "compact", size |-> size, bytes |-> 10]]]

(* DecodeInitialLogonRequest.                                              *)
InitialTagOrder ==
  <<TagStart, TagProtocolVersion, TagCapabilities, TagLogonMarker, TagSession, TagClient, TagUser, TagPassword, TagLanguage,
    TagUnicodeIndicator, TagClientAddress, TagPartnerSystem, TagConnectionType, TagKernelRelease, TagKernelPatch, TagPartnerHost,
    TagDestination, TagProgram, TagContextEnd, TagKernel, TagFunction, EndTag>>
CanonicalLogon(p, decoded) ==
  IF p.prefix # "logon" \/ ~decoded.ok THEN Refused
  ELSE IF TagsOf(decoded.fields) # InitialTagOrder \/ decoded.fields[2].value # InitialProtocolVersion
          \/ decoded.fields[3].value # InitialCapabilities \/ p.trailer.kind # "compact"
          \/ decoded.consumed # Len(p.chain) \/ p.trailer.size # 18 + ChainBytes(p.chain) + 2 THEN Refused
  ELSE [ok |-> TRUE, fields |-> decoded.fields]
DecodeInitialLogonRequest(p) == CanonicalLogon(p, DecodeFieldChain(p.chain, TagStart, EndTag, Limits))

-----------------------------------------------------------------------------
(* The grammar of a composite answer, grammar.go: a coordinate is exact, or*)
(* holds up to 255 bytes of text.                                          *)
Exact(tag, n, optional) == [tag |-> tag, min |-> n, max |-> n, optional |-> optional]
Bounded(tag, optional) == [tag |-> tag, min |-> 1, max |-> 255, optional |-> optional]
InitialRichGrammar ==
  <<Exact(TagProtocolVersion, 4, FALSE), Exact(TagCapabilities, 11, FALSE), Exact(TagLogonStatus, 1, TRUE),
    Exact(TagSystemCodePage, 8, FALSE), Exact(\H0450, 6, TRUE), Exact(\H0451, 20, TRUE), Exact(\H0452, 4, TRUE),
    Bounded(\H0453, TRUE), Bounded(TagClientAddress, FALSE), Exact(\H0020, 92, TRUE), Exact(\H0021, 20, TRUE),
    Bounded(TagPartnerSystem, FALSE), Bounded(TagPartnerHost, FALSE), Exact(TagConnectionType, 2, FALSE),
    Exact(TagKernelPatch, 8, FALSE), Exact(TagKernelRelease, 8, FALSE), Bounded(TagDestination, TRUE),
    Bounded(TagProgram, FALSE), Exact(\H0150, 24, FALSE), Exact(\H0151, 6, FALSE), Exact(\H0152, 2, FALSE),
    Exact(TagResponseStart, 0, FALSE), Exact(TagResponseContext, 0, FALSE), Exact(TagSession, 16, FALSE),
    Exact(Control0420, 4, FALSE), Exact(TagCallContext, 0, FALSE), Bounded(TagProgram, FALSE), Exact(Metric, 8, FALSE),
    Exact(\H0126, 4, TRUE), Exact(EndTag, 0, FALSE)>>

matchesCoordinate(f, c) == f.tag = c.tag /\ Len(f.value) \in c.min..c.max
(* Mutant: a program name may be missing, too.                             *)
Mut_AnyMayMiss(c) == c.optional \/ c.tag = TagProgram
Skippable(c) == c.optional
(* matchInitialRichGrammar: one walk along the grammar, at is the field    *)
(* that the next coordinate meets.                                         *)
matchInitialRichGrammar(fields) ==
  LET Walk(got, c) ==
        IF ~got.ok THEN got
        ELSE IF got.at <= Len(fields) /\ matchesCoordinate(fields[got.at], c)
        THEN [got EXCEPT !.at = @ + 1, !.start = IF c.tag = TagResponseStart THEN got.at ELSE @,
                         !.allowed = IF c.tag = \H0126 THEN {\H0126} ELSE @]
        ELSE [got EXCEPT !.ok = Skippable(c)]
      end == FoldLeft(Walk, [ok |-> TRUE, at |-> 1, start |-> 0, allowed |-> {}], InitialRichGrammar)
  IN  [end EXCEPT !.ok = @ /\ end.at = Len(fields) + 1 /\ end.start > 0]
TagLimit(tag) == countTag(InitialRichGrammar, tag)
hasInitialCompositeDuplicate(fields) ==
  \E k \in DOMAIN fields : countTag(fields, fields[k].tag) > TagLimit(fields[k].tag) /\ TagLimit(fields[k].tag) > 0

validateEndField(fields) == countTag(fields, EndTag) = 1 /\ fields[Len(fields)] = Field(EndTag, <<>>)
Zero4 == <<0, 0, 0, 0>>
Answered(status) == [ok |-> TRUE, success |-> status = 0, status |-> status, facts |-> <<>>]
Status(fields) == LET one == filterTag(fields, TagLogonStatus) IN IF one = <<>> THEN 0 ELSE one[1].value[1]
StatusIsSound(fields) ==
  LET one == filterTag(fields, TagLogonStatus) IN Len(one) <= 1 /\ (one # <<>> => Len(one[1].value) = 1)

(* decodeRichInitialRfcPingResponse.                                       *)
Embedded(embedded) == IF ~embedded.ok THEN Refused ELSE IF embedded.success THEN Answered(0) ELSE Refused
RichResponse(fields, match) ==
  LET calls == filterTag(fields, Control0420)
  IN  IF ~validateEndField(fields) \/ ~StatusIsSound(fields) \/ Len(calls) # 1 THEN Refused
      ELSE IF Len(calls[1].value) # 4 \/ hasInitialCompositeDuplicate(fields) \/ ~match.ok THEN Refused
      ELSE IF Status(fields) # 0 THEN Answered(Status(fields))
      ELSE IF calls[1].value # Zero4 THEN Refused
      ELSE Embedded(decodeFunctionResponseFields(SubSeq(fields, match.start + 1, Len(fields)), match.allowed))
decodeRichInitialRfcPingResponse(fields) == RichResponse(fields, matchInitialRichGrammar(fields))

(* The plain answer: a handful of controls in any order but for the two    *)
(* that have a place.                                                      *)
InitialRegularResponseTags ==
  {TagStart, TagProtocolVersion, TagCapabilities, TagLogonStatus, Control0420, \H0450, TagSystemCodePage, EndTag}
StartIsFirst(fields) == countTag(fields, TagStart) = 0 \/ (countTag(fields, TagStart) = 1 /\ fields[1] = Field(TagStart, <<>>))
S4ControlIsPlaced(fields) ==
  LET semantic == SelectSeq(fields, LAMBDA f : f.tag # TagStart)
      at == {k \in DOMAIN semantic : semantic[k].tag = \H0450}
  IN  at = {} \/ (at = {5} /\ Len(semantic[5].value) = 6 /\ semantic[4].tag = Control0420)
(* Mutant: the call status is looked at for its length only.               *)
Mut_AnyCallStatus(fields) == \A k \in DOMAIN filterTag(fields, Control0420) : Len(filterTag(fields, Control0420)[k].value) = 4
CallSucceeded(fields) == \A k \in DOMAIN filterTag(fields, Control0420) : filterTag(fields, Control0420)[k].value = Zero4
decodePlainResponse(fields) ==
  IF /\ \A k \in DOMAIN fields : fields[k].tag \in InitialRegularResponseTags
     /\ validateEndField(fields) /\ StartIsFirst(fields) /\ S4ControlIsPlaced(fields) /\ StatusIsSound(fields)
     /\ \A t \in {TagCapabilities, TagSystemCodePage, Control0420} : countTag(fields, t) <= 1
     /\ countTag(fields, TagLogonStatus) + countTag(fields, Control0420) > 0
     /\ CallSucceeded(fields)
  THEN Answered(Status(fields)) ELSE Refused

(* A rejection: a fixed preamble and an error envelope behind it, of which *)
(* Rejection keeps these facts: not the T100 text, nor the variables of the*)
(* message, nor the call stack.                                            *)
ReportedTags == {ExceptionKey, RuntimeID, ErrorMessage} \cup MessageIdentityTags
InitialErrorPreambleTags ==
  <<TagProtocolVersion, TagCapabilities, TagSystemCodePage, TagClientAddress, TagPartnerSystem, TagPartnerHost,
    TagConnectionType, TagKernelPatch, TagKernelRelease, TagDestination, TagProgram, TagResponseStart>>
Rejection(envelope) ==
  IF ~envelope.ok THEN Refused ELSE IF envelope.outcome = "success" THEN Refused
  ELSE [ok |-> TRUE, success |-> FALSE, status |-> -1, outcome |-> envelope.outcome,
        facts |-> [t \in ReportedTags |-> envelope.facts[t]]]
decodeErrorResponse(fields) ==
  IF Len(fields) <= 13 THEN Refused
  ELSE IF TagsOf(SubSeq(fields, 1, 12)) # InitialErrorPreambleTags \/ fields[12].value # <<>>
          \/ (\E k \in 1..12 : countTag(fields, InitialErrorPreambleTags[k]) # 1) THEN Refused
  ELSE Rejection(DecodeEnvelope(fields, {InitialErrorPreambleTags[k] : k \in 1..12}, DefaultEnvelopeLimits))

LogonResponse(p, decoded) ==
  LET versions == filterTag(decoded.fields, TagProtocolVersion)
  IN  IF p.prefix \notin {"answer", "rejection"} \/ ~decoded.ok THEN Refused
      ELSE IF decoded.consumed # Len(p.chain) \/ p.trailer # <<255, 255>> \/ versions = <<>> THEN Refused
      ELSE IF Len(versions[1].value) # 4 THEN Refused
      ELSE IF p.prefix = "rejection" THEN decodeErrorResponse(decoded.fields)
      ELSE IF Len(versions) # 1 THEN Refused
      ELSE IF countTag(decoded.fields, TagResponseStart) > 0 THEN decodeRichInitialRfcPingResponse(decoded.fields)
      ELSE decodePlainResponse(decoded.fields)
DecodeInitialLogonResponse(p) == LogonResponse(p, DecodeFieldChain(p.chain, TagStart, EndTag, Limits))

-----------------------------------------------------------------------------
(* eclipseLogonAccept: the bridge's answer, out of a template whose slots  *)
(* have the widths they have.  Mutant: a long value is not cut.            *)
Mut_Uncut(width, value) == Utf16(IF Len(value) >= width THEN value ELSE value \o Fill(Blank, width - Len(value)))
writeUTF16Field(width, value) ==
  Utf16(IF Len(value) >= width THEN SubSeq(value, 1, width) ELSE value \o Fill(Blank, width - Len(value)))
(* It is searched for as bytes, and only fixed fields precede it.          *)
sessionGUIDOf(fields) ==
  LET guids == SelectSeq(fields, LAMBDA f : f.tag = TagSession /\ Len(f.value) = 16) IN IF guids = <<>> THEN Fill(0, 16) ELSE guids[1].value
(* The chain of the template: the lengths are its own; a text that nothing *)
(* depends on is one repeated byte.                                        *)
LogonTemplate ==
  <<Field(TagProtocolVersion, <<0, 0, 14, 11>>), Field(TagCapabilities, <<4, 1, 0, 3, 1, 3, 2, 0, 0, 0, 35>>), Field(TagLogonStatus, <<0>>),
    Field(TagSystemCodePage, Fill(49, 8)), Field(\H0450, Fill(79, 6)), Field(\H0451, Fill(79, 20)), Field(\H0452, Fill(48, 4)),
    Field(\H0453, Fill(111, 20)), Field(TagClientAddress, Fill(49, 30)), Field(\H0020, Fill(0, 92)), Field(\H0021, Fill(0, 20)),
    Field(TagPartnerSystem, Fill(49, 20)), Field(TagPartnerHost, Fill(111, 34)), Field(TagConnectionType, <<51, 0>>),
    Field(TagKernelPatch, Fill(55, 8)), Field(TagKernelRelease, Fill(55, 8)), Field(TagDestination, Fill(79, 34)), Field(TagProgram, Fill(83, 16)),
    Field(\H0150, Fill(79, 24)), Field(\H0151, Fill(48, 6)), Field(\H0152, <<69, 0>>), Field(TagResponseStart, <<>>), Field(TagResponseContext, <<>>),
    Field(TagSession, Fill(0, 16)), Field(Control0420, Zero4), Field(TagCallContext, <<>>), Field(TagProgram, Fill(83, 80)),
    Field(Metric, <<0, 0, 0, 0, 0, 112, 134, 64>>), Field(EndTag, <<>>)>>
(* The slots are rewritten when the bridge has a system id; the APPC header*)
(* in front of the chain is left out.                                      *)
eclipseLogonAccept(request, who) ==
  LET Join(texts) == Concat([k \in DOMAIN texts |-> IF k = 1 THEN texts[k] ELSE <<95>> \o texts[k]])
      Slot(f) ==
        CASE f.tag = TagSession -> sessionGUIDOf(request)
          [] f.tag # TagSession /\ who.system = <<>> -> f.value
          [] f.tag = \H0450 /\ who.system # <<>> -> writeUTF16Field(3, who.system)
          [] f.tag = \H0451 /\ who.system # <<>> -> writeUTF16Field(10, who.system \o <<32, 66, 82, 73, 68, 71, 69>>)
          [] f.tag = \H0453 /\ who.system # <<>> -> writeUTF16Field(10, who.host)
          [] f.tag = TagPartnerHost /\ who.system # <<>> -> writeUTF16Field(17, Join(<<who.host, who.system, <<48, 48>>>>))
          [] f.tag = TagDestination /\ who.system # <<>> -> writeUTF16Field(17, Join(<<who.system, who.client, who.user, who.language>>))
          [] f.tag = \H0150 /\ who.system # <<>> -> writeUTF16Field(12, who.user)
          [] OTHER -> f.value
      fields == [k \in DOMAIN LogonTemplate |-> Field(LogonTemplate[k].tag, Slot(LogonTemplate[k]))]
  IN  [prefix |-> "answer", chain |-> EncodeFieldChain(TagStart, fields, Limits).chain, trailer |-> <<255, 255>>]

-----------------------------------------------------------------------------
IsWelcome(in, accept) ==
  /\ DecodeInitialLogonResponse(accept) = Answered(0)
  /\ filterTag(DecodeFieldChain(accept.chain, TagStart, EndTag, Limits).fields, TagSession)[1].value = in.session
FieldsAreAnswered(in, who, fields) ==
  /\ countTag(fields, TagPassword) + countTag(fields, TagTicket) = 1
  /\ TicketFromLogonFields(fields) = NormalizeTicket(in.ticket)
  /\ IsWelcome(in, eclipseLogonAccept(fields, who))
(* A logon says one thing about itself, password or ticket, and is read    *)
(* for what it is: DecodeInitialLogonRequest takes the password logon with *)
(* the size its trailer declares, a server finds the ticket of the other.  *)
(* And the bridge's answer to it is one that DecodeInitialLogonResponse    *)
(* takes for a success, whatever names the bridge was configured with, and *)
(* one that carries the session of the request.                            *)
LogonIsAnswered(in, who, r) ==
  /\ DecodeInitialLogonRequest(r.payload).ok = (in.ticket = <<>>)
  /\ FieldsAreAnswered(in, who, DecodeFieldChain(r.payload.chain, TagStart, EndTag, Limits).fields)

(* An answer is a success only when nothing in it speaks against it.  A    *)
(* failure has a status or is a rejection, of whose facts Rejection says   *)
(* what the backend wrote, and a reason: a rejection that says nothing but *)
(* its outcome is one whose only reason is a T100 text, which is dropped.  *)
LogonOutcomeIsSound(p, r) ==
  LET fields == [k \in DOMAIN p.chain |-> [tag |-> p.chain[k].header.tag, value |-> p.chain[k].value]]
      nonzero == {k \in DOMAIN fields : fields[k].tag \in {TagLogonStatus, Control0420} /\ \E j \in DOMAIN fields[k].value : fields[k].value[j] # 0}
      facts == {k \in DOMAIN fields : fields[k].tag \in TextTags}
      Says(f) == TrimRight(Units(f.value))
  IN  IF r.success THEN p.prefix = "answer" /\ nonzero = {} /\ facts = {}
      ELSE IF p.prefix = "answer" THEN r.status > 0
      ELSE /\ \A t \in ReportedTags :
                r.facts[t] # <<>> <=> \E k \in facts : fields[k].tag = t /\ Says(fields[k]) # <<>> /\ Says(fields[k]) = r.facts[t]
           /\ (\A t \in ReportedTags : r.facts[t] = <<>>) =>
                r.outcome = "abapMessage" /\ \E k \in facts : fields[k].tag = T100Text /\ Says(fields[k]) # <<>>

(* The single walk of matchInitialRichGrammar takes exactly what the       *)
(* grammar describes: the coordinates that are there, in order, and every  *)
(* one that is not optional.                                               *)
GrammarIsExact(p, r) ==
  LET fields == [k \in DOMAIN p.chain |-> [tag |-> p.chain[k].header.tag, value |-> p.chain[k].value]]
      word == SelectSeq(InitialRichGrammar, LAMBDA c : ~c.optional \/ countTag(fields, c.tag) > 0)
      described == Len(word) = Len(fields) /\ \A k \in DOMAIN word : matchesCoordinate(fields[k], word[k])
      zero == Status(fields) = 0 /\ filterTag(fields, Control0420)[1].value = Zero4
  IN  p.prefix = "answer" /\ countTag(fields, TagResponseStart) > 0 =>
        IF described THEN zero => r.ok /\ r.success ELSE ~r.ok

(* "Give it the ticket in any of its wire forms (canonical base64, the     *)
(* cookie form with '!' for '/', or URL-escaped); NormalizeTicket sorts it *)
(* out": whichever form of a ticket it is given, the ticket comes out.     *)
Escape(text, chars) ==
  Concat([k \in DOMAIN text |-> LET Hex(n) == IF n < 10 THEN 48 + n ELSE 55 + n IN
            IF text[k] \in chars THEN <<37, Hex(text[k] \div 16), Hex(text[k] % 16)>> ELSE <<text[k]>>])
Cookie(ticket) == Escape([k \in DOMAIN ticket |-> IF ticket[k] = 47 THEN 33 ELSE ticket[k]], {33, 43, 61})
WireForms(ticket) == {ticket, Cookie(ticket), Escape(ticket, {43, 47, 61}), <<Blank>> \o ticket \o <<Blank>>}
TicketsSurvive(ticket) == \A form \in WireForms(ticket) : NormalizeTicket(form) = ticket
=============================================================================
