------------------------------ MODULE WireCases -------------------------------
(***************************************************************************)
(* Bounded families of inputs for the codecs of the wire: headers, chains, *)
(* envelopes, calls and answers.  A record holds 60 bytes and a chunk two, *)
(* so that a call with a handful of parameters meets every boundary.       *)
(***************************************************************************)
EXTENDS Integers, Sequences, FiniteSets, SequencesExt, TLC

W == INSTANCE Logon WITH Fragment <- 60, Chunk <- 2

UpTo(n, S) == UNION {[1..k -> S] : k \in 0..n}
Around(S) == UNION {{n - 1, n, n + 1} : n \in S}

HeaderInputs ==
  [tag : {257}, n : {0, 1} \cup Around({65535}) \cup {2147483647}, limit : {0, 1} \cup Around({65535}) \cup {2147483647}]

ChainInputs ==
  {[first |-> f, fields |-> s, limits |-> [field |-> 2, chain |-> n, count |-> 3]] :
     f \in {1, 7}, n \in {12, 19, 20, 40}, s \in UpTo(4, [tag : {1, 2, 9}, value : {<<>>, <<5>>}])}
  \cup {[first |-> 1, fields |-> <<[tag |-> 1, value |-> W!Fill(0, n)]>>, limits |-> [field |-> 2, chain |-> 20, count |-> 3]] : n \in 0..4}

(* Facts with text, without, with blanks only, of odd length, with NUL and *)
(* with halves of surrogate pairs; controls, zero and not.                 *)
EnvelopeInputs ==
  LET A == <<65, 0>>
      Facts == {W!Field(t, A) : t \in {\H0401, \H0402, \H0403, \H0411, \H0415, \H0416, \H0417, \H0418}}
               \cup {W!Field(t, <<32, 0>>) : t \in {\H0401, \H0402, \H0403, \H0415}}
               \cup {W!Field(\H0401, v) : v \in {<<66, 0>>, <<65>>, <<0, 0>>, <<0, 216>>, <<0, 216, 0, 220>>, <<0, 220, 0, 216>>}}
      Controls == {W!Field(\H0420, <<0, 0, 0, 0>>), W!Field(\H0420, <<0, 0, 0, 1>>), W!Field(\H0420, <<>>), W!Field(\H0421, <<1>>),
                   W!Field(\H0422, <<1>>), W!Field(\H0423, <<>>)}
      Others == {W!Field(\H0201, A), W!Field(\H9999, <<>>), W!Field(\HFFFF, <<>>)}
      Small == [text |-> 2, totalText |-> 4, control |-> 4, totalControl |-> 5, controls |-> 2, fields |-> 4]
      End == <<W!Field(\HFFFF, <<>>)>>
  IN  {[fields |-> b \o End, max |-> W!DefaultEnvelopeLimits] : b \in UpTo(3, Facts \cup Controls \cup Others)}
      \cup {[fields |-> b \o End, max |-> Small] :
              b \in UpTo(4, {W!Field(\H0402, A), W!Field(\H0404, A), W!Field(\H0411, A), W!Field(\H0420, <<0, 0, 0, 0>>), W!Field(\H0421, <<1>>)})}
      \cup {[fields |-> b, max |-> Small] : b \in {<<W!Field(\H0402, A)>>, <<W!Field(\HFFFF, <<1>>)>>}}

(* Calls with every kind of parameter; one import grows from nothing past  *)
(* what a record holds.                                                    *)
P == <<80>>
Q == <<81>>
Named(n, v) == [name |-> n, value |-> v]
Table(n, w, rows) == [name |-> n, width |-> w, rows |-> rows, id |-> <<>>]
RowSets == {<<>>, <<<<1, 2>>>>, <<<<1, 2>>, <<3, 3>>>>, <<<<1, 2>>, <<3>>>>, <<<<>>>>, <<<<1, 2, 3>>>>}
Documents == {<<82>>, <<82, 1>>, <<82, 1, 2>>}
RequestInputs ==
  {[kernel |-> <<55, 53, 52>>, function |-> P, outputs |-> o, imports |-> i, tables |-> t, xrfc |-> x] :
     o \in {<<>>, <<Q>>, <<P, Q>>, <<P, P>>}, i \in {<<>>, <<Named(Q, <<1, 2>>)>>, <<Named(P, <<>>), Named(Q, <<9>>)>>},
     t \in {<<>>} \cup {<<Table(<<84>>, 2, r)>> : r \in RowSets} \cup {<<Table(Q, 0, <<>>), Table(<<84>>, 2, <<<<1, 2>>>>)>>},
     x \in {<<>>} \cup {<<Named(<<82>>, d)>> : d \in Documents} \cup {<<Named(<<82>>, <<82, 1>>), Named(<<83>>, <<83>>)>>}}
  \cup {[kernel |-> k, function |-> f, outputs |-> <<>>, imports |-> <<Named(n, W!Fill(7, m))>>, tables |-> <<>>, xrfc |-> <<>>] :
          k \in {<<55, 53, 52>>, <<55>>}, f \in {P, <<>>, <<80, 65, 81>>}, n \in {Q, <<>>, W!Fill(65, 31), <<65, 0>>}, m \in 0..70}

AnswerInputs ==
  LET Numbered(t, id) == [t EXCEPT !.id = id]
      Tables == {<<>>} \cup {<<Table(<<84>>, w, r)>> : w \in {0, 2, 3}, r \in RowSets}
                \cup {<<Table(<<84>>, 2, <<<<1, 2>>, <<2, 2>>>>), Table(n, 1, <<<<4>>>>)>> : n \in {Q, <<84>>}}
  IN  {[kind |-> c, guid |-> g,
        resp |-> [exports |-> e, tables |-> [k \in DOMAIN t |-> Numbered(t[k], id)], xrfc |-> x, outputs |-> <<>>, compact |-> <<>>, compactName |-> <<>>]] :
         c \in {"cut", "s4", "eclipse"}, g \in {<<>>, W!Fill(3, 16)}, id \in {<<>>, <<0, 0, 0, 7>>},
         e \in {<<>>, <<Named(P, <<>>)>>, <<Named(P, <<1, 2>>), Named(Q, <<9>>)>>, <<Named(P, <<1>>), Named(P, <<1>>)>>, <<Named(<<>>, <<1>>)>>},
         t \in Tables, x \in {<<>>, <<Named(<<82>>, <<>>)>>, <<Named(<<82>>, <<82>>)>>, <<Named(<<82>>, <<82, 1, 2, 3>>), Named(<<83>>, <<5, 6>>)>>}}
      \cup {[kind |-> "eclipse", guid |-> <<>>, resp |-> [exports |-> <<>>, tables |-> <<>>, xrfc |-> <<>>, outputs |-> o, compact |-> d, compactName |-> Q]] :
              o \in {<<>>, <<[name |-> P, value |-> <<80, 1>>, xml |-> TRUE]>>}, d \in {<<>>, <<<<1, 2, 3>>>>}}

ExceptionInputs == UpTo(3, {0, 32, 65, 55296})
RecordInputs == {[k \in 1..n |-> k] : n \in 0..190}

-----------------------------------------------------------------------------
(* Logons, sound and not, and the names of a bridge that answers them.     *)
Logon ==
  [client |-> <<48, 48, 49>>, user |-> <<85>>, password |-> <<112, 119>>, seed |-> 1234, ticket |-> <<>>, language |-> <<101>>, address |-> <<49>>,
   system |-> <<58>>, host |-> <<104>>, destination |-> <<68>>, program |-> <<112>>, function |-> <<82>>, kernel |-> <<55, 53, 52>>,
   session |-> [k \in 1..16 |-> k]]
LogonInputs ==
  [in : {Logon} \cup {[Logon EXCEPT !.password = p, !.seed = n] : p \in {<<>>, W!Fill(32, 40), W!Fill(126, 41), <<7>>}, n \in {0, 1, 2047}}
        \cup {[Logon EXCEPT !.ticket = t, !.password = p] : t \in {<<65>>, <<65, 33, 66>>, <<32, 37, 50, 70>>}, p \in {<<>>, W!Fill(126, 41)}}
        \cup {[Logon EXCEPT !.client = <<48>>], [Logon EXCEPT !.language = <<49>>], [Logon EXCEPT !.kernel = <<55, 53, 65>>], [Logon EXCEPT !.kernel = <<>>, !.system = <<>>, !.function = <<>>], [Logon EXCEPT !.session = <<>>]}
        \cup UNION {{[Logon EXCEPT !.user = t], [Logon EXCEPT !.host = t], [Logon EXCEPT !.destination = t]} : t \in {<<>>, <<200>>, W!Fill(65, 41), W!Fill(65, 121)}},
   who : [system : {W!Fill(83, n) : n \in 0..4}, host : {<<>>, W!Fill(72, 10), W!Fill(72, 30)}, user : {<<85>>, W!Fill(85, 20)},
          client : {<<48, 48, 49>>}, language : {<<101, 110>>}]]

LogonAnswer(prefix, fields) ==
  [prefix |-> prefix, chain |-> W!EncodeFieldChain(\H0101, fields, W!Limits).chain, trailer |-> <<255, 255>>]
(* Every answer of the grammar with some of its optional coordinates left  *)
(* out, and such an answer with one field of it spoilt.                    *)
Optional == {k \in DOMAIN W!InitialRichGrammar : W!InitialRichGrammar[k].optional}
Rich(omit, status, call) ==
  LET Value(c) == IF c.tag = \H0161 THEN <<status>> ELSE IF c.tag = \H0420 THEN <<0, 0, 0, call>> ELSE W!Fill(0, c.min)
      kept == SelectSeq([k \in DOMAIN W!InitialRichGrammar |-> k], LAMBDA k : k \notin omit)
  IN  [j \in DOMAIN kept |-> W!Field(W!InitialRichGrammar[kept[j]].tag, Value(W!InitialRichGrammar[kept[j]]))]
Spoilt(fields) ==
  UNION {{InsertAt(fields, k, fields[k]), RemoveAt(fields, k), [fields EXCEPT ![k].value = Append(@, 0)], [fields EXCEPT ![k].value = W!Fill(0, 256)],
          [fields EXCEPT ![k] = fields[k + 1], ![k + 1] = fields[k]], [fields EXCEPT ![k].tag = \H0402]} : k \in 1..(Len(fields) - 1)}
PlainFields ==
  {W!Field(\H0101, <<>>), W!Field(\H0103, W!Zero4), W!Field(\H0106, <<1>>), W!Field(\H0161, <<0>>), W!Field(\H0161, <<7>>), W!Field(\H0161, <<>>),
   W!Field(\H0420, W!Zero4), W!Field(\H0420, <<0, 0, 0, 1>>), W!Field(\H0450, W!Fill(0, 6)), W!Field(\H0450, <<>>), W!Field(\H0016, <<>>),
   W!Field(\H0402, <<65, 0>>)}
End1 == <<W!Field(\HFFFF, <<>>)>>
Preamble == [k \in 1..12 |-> W!Field(W!InitialErrorPreambleTags[k], IF k = 1 THEN W!Zero4 ELSE IF k = 12 THEN <<>> ELSE <<1>>)]
Facts == {W!Field(\H0402, <<65, 0>>), W!Field(\H0402, <<32, 0>>), W!Field(\H0401, <<65, 0>>), W!Field(\H0415, <<65, 0>>), W!Field(\H0420, W!Zero4),
          W!Field(\H0130, <<1>>)} \cup {W!Field(t, <<66, 0>>) : t \in {\H0403, \H0404, \H0411, \H0416, \H0417}}
LogonAnswerInputs ==
  {LogonAnswer("answer", Rich(omit, s, c)) : omit \in SUBSET Optional, s \in {0}, c \in {0}}
  \cup {LogonAnswer("answer", Rich(omit, s, c)) : omit \in {{}, {3}, Optional, Optional \ {3}}, s \in {0, 5}, c \in {0, 1}}
  \cup UNION {{LogonAnswer(p, f) : f \in Spoilt(Rich(omit, 0, 0)), p \in {"answer", "rejection"}} : omit \in {{}, {3}, Optional}}
  \cup {LogonAnswer("answer", <<W!Field(\H0103, W!Zero4)>> \o b \o End1) : b \in UpTo(3, PlainFields)}
  \cup {LogonAnswer("answer", a \o <<W!Field(\H0103, W!Zero4), W!Field(\H0106, <<1>>), W!Field(\H0161, <<0>>)>> \o b \o End1) :
          a \in {<<>>, <<W!Field(\H0101, <<>>)>>}, b \in UpTo(2, PlainFields)}
  \cup {LogonAnswer("rejection", Preamble \o b \o End1) : b \in UpTo(3, Facts)}
  \cup {LogonAnswer("rejection", f) : f \in Spoilt(Preamble \o <<W!Field(\H0402, <<65, 0>>)>> \o End1)}

(* Tickets over the characters that one form or another replaces.          *)
TicketInputs == UpTo(4, {65, 43, 47, 61})
=============================================================================
