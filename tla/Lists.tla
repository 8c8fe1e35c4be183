-------------------------------- MODULE Lists --------------------------------
(***************************************************************************)
(* The operators on sequences that the models with proofs share.  They     *)
(* have the names and the meaning of those of SequencesExt, which also     *)
(* brings in Bags: with that in its context TLAPS takes several times as   *)
(* long to prepare an obligation.                                          *)
(***************************************************************************)
EXTENDS Integers, Sequences

(* The elements of s.                                                      *)
ToSet(s) == {s[i] : i \in DOMAIN s}

(* The end of s.                                                           *)
Last(s) == s[Len(s)]

(* s without its i-th element.                                             *)
RemoveAt(s, i) == SubSeq(s, 1, i - 1) \o SubSeq(s, i + 1, Len(s))

(* t begins with s.                                                        *)
IsPrefix(s, t) == Len(s) <= Len(t) /\ s = SubSeq(t, 1, Len(s))

(* The sequences in rows, one behind the other.                            *)
FlattenSeq(rows) ==
  LET flat[n \in 0..Len(rows)] == IF n = 0 THEN <<>> ELSE flat[n - 1] \o rows[n]
  IN  flat[Len(rows)]

==============================================================================
