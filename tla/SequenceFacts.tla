---------------------------- MODULE SequenceFacts -----------------------------
(***************************************************************************)
(* Facts about the queues of the models: connections, inboxes and the      *)
(* records a decoder holds are all read at their head and written at their *)
(* end.  Then induction: a loop of the code is a recursive function from   *)
(* the number of rounds to the state after so many, and what it computes   *)
(* is proved by induction on that number, in the form of a set that has 0  *)
(* and with every round the next.                                          *)
(***************************************************************************)
EXTENDS Integers, Lists, SequenceTheorems, WellFoundedInduction, TLAPS

USE SMTT(30)

(* Taking the first element, as a read from a queue does, and what is left. *)
LEMMA TailFacts ==
  ASSUME NEW S, NEW s \in Seq(S), s # <<>>
  PROVE  /\ Len(s) \in Nat \ {0} /\ Head(s) = s[1] /\ s[1] \in S
         /\ Tail(s) \in Seq(S) /\ Len(Tail(s)) = Len(s) - 1
         /\ \A i \in 1..(Len(s) - 1) : Tail(s)[i] = s[i + 1]
         /\ Len(s) = 1 => Tail(s) = <<>>
<1>1. /\ Len(s) \in Nat \ {0} /\ Head(s) = s[1] /\ s[1] \in S
      /\ Tail(s) \in Seq(S) /\ Len(Tail(s)) = Len(s) - 1
      /\ \A i \in 1..(Len(s) - 1) : Tail(s)[i] = s[i + 1]
  BY HeadTailProperties, EmptySeq, ElementOfSeq, LenProperties
<1>2. Tail(s) # <<>> => Len(Tail(s)) # 0
  BY <1>1, EmptySeq
<1> QED
  BY <1>1, <1>2

(* What is left was there before.                                          *)
LEMMA TailElements ==
  ASSUME NEW S, NEW s \in Seq(S), s # <<>>
  PROVE  \A i \in 1..Len(Tail(s)) : \E j \in 1..Len(s) : Tail(s)[i] = s[j]
<1>1. TAKE i \in 1..Len(Tail(s))
<1>2. i + 1 \in 1..Len(s) /\ Tail(s)[i] = s[i + 1]
  BY TailFacts
<1> QED
  BY <1>2

(* Adding an element at the end, as a write to a queue does.               *)
LEMMA AppendFacts ==
  ASSUME NEW S, NEW s \in Seq(S), NEW e \in S
  PROVE  /\ Len(s) \in Nat /\ Append(s, e) \in Seq(S) /\ Len(Append(s, e)) = Len(s) + 1
         /\ \A i \in 1..Len(s) : Append(s, e)[i] = s[i]
         /\ Append(s, e)[Len(s) + 1] = e
         /\ Append(s, e) # <<>>
<1>1. /\ Len(s) \in Nat /\ Append(s, e) \in Seq(S) /\ Len(Append(s, e)) = Len(s) + 1
      /\ \A i \in 1..Len(s) : Append(s, e)[i] = s[i]
      /\ Append(s, e)[Len(s) + 1] = e
  BY AppendProperties, LenProperties
<1>2. Append(s, e) # <<>>
  BY <1>1, EmptySeq
<1> QED
  BY <1>1, <1>2

(* Every element of the longer queue is the new one or was there before.   *)
LEMMA AppendElements ==
  ASSUME NEW S, NEW s \in Seq(S), NEW e \in S
  PROVE  \A i \in 1..Len(Append(s, e)) : Append(s, e)[i] = e \/ \E j \in 1..Len(s) : Append(s, e)[i] = s[j]
<1>1. TAKE i \in 1..Len(Append(s, e))
<1>2. i = Len(s) + 1 \/ i \in 1..Len(s)
  BY AppendFacts
<1> QED
  BY <1>2, AppendFacts

(* A queue is empty when its length is 0, and has its elements in place.   *)
LEMMA EmptyFacts ==
  ASSUME NEW S, NEW s \in Seq(S)
  PROVE  /\ Len(s) \in Nat /\ (s = <<>> <=> Len(s) = 0) /\ \A i \in 1..Len(s) : s[i] \in S
<1>1. s = <<>> => Len(s) = 0
  BY EmptySeq
<1> QED
  BY <1>1, EmptySeq, LenProperties, ElementOfSeq

-------------------------------------------------------------------------------
(* A set of numbers of rounds that is not empty has a least element.       *)
LEMMA LeastNat ==
  ASSUME NEW T, T \subseteq Nat, T # {}
  PROVE  \E x \in T : \A y \in T : x <= y
<1> DEFINE R == {ss \in Nat \X Nat : ss[1] < ss[2]}
<1>1. IsWellFoundedOn(R, Nat)
  BY NatLessThanWellFounded, ZenonT(30) DEF OpToRel
<1>2. \A x, y \in Nat : <<y, x>> \notin R => x <= y
  OBVIOUS
<1> HIDE DEF R
<1>3. \E x \in T : \A y \in T : ~ (<<y, x>> \in R)
  BY <1>1, WFMin, ZenonT(30)
<1> QED
  BY <1>2, <1>3, ZenonT(30)

(* Induction over the rounds 0..N of a loop.                               *)
LEMMA UpTo ==
  ASSUME NEW N \in Nat, NEW S, 0 \in S, \A i \in 0..(N - 1) : i \in S => i + 1 \in S
  PROVE  \A i \in 0..N : i \in S
<1> DEFINE T == {i \in 0..N : i \notin S}
<1> SUFFICES ASSUME T # {} PROVE FALSE
  OBVIOUS
<1>0. T \subseteq Nat
  OBVIOUS
<1>1. PICK m \in T : \A y \in T : m <= y
  <2> HIDE DEF T
  <2> QED
    BY <1>0, LeastNat, ZenonT(30)
<1>2. m \in 1..N /\ m - 1 \in 0..(N - 1) /\ m - 1 \in 0..N /\ (m - 1) + 1 = m
  OBVIOUS
<1>3. m - 1 \in S
  BY <1>1, <1>2
<1> QED
  BY <1>2, <1>3

(* The body g of a loop of N rounds stays within D.                        *)
Closed(g, N, D) == \A i \in 0..(N - 1), s \in D : g[i][s] \in D

(* p lists the loop's states after 0..N rounds from x.                     *)
Iterates(p, g, N, x) == p[0] = x /\ \A i \in 0..(N - 1) : p[i + 1] = g[i][p[i]]

(* A loop that takes every state of D to one of D has its states after     *)
(* 0..N rounds: this is why the recursive functions of the models exist.   *)
LEMMA LoopExists ==
  ASSUME NEW D, NEW N \in Nat, NEW x \in D, NEW g, Closed(g, N, D)
  PROVE  \E p \in [0..N -> D] : Iterates(p, g, N, x)
<1> USE DEF Closed, Iterates
<1> DEFINE Good(n, p) == p[0] = x /\ \A i \in 0..(n - 1) : p[i + 1] = g[i][p[i]]
           S == {n \in 0..N : \E p \in [0..n -> D] : Good(n, p)}
<1>1. 0 \in S
  <2>1. [i \in 0..0 |-> x] \in [0..0 -> D] /\ Good(0, [i \in 0..0 |-> x])
    OBVIOUS
  <2> HIDE DEF Good
  <2>2. \E p \in [0..0 -> D] : Good(0, p)
    BY <2>1, ZenonT(30)
  <2> QED
    BY <2>2
<1>2. ASSUME NEW n \in 0..(N - 1), n \in S PROVE n + 1 \in S
  <2>1. PICK p \in [0..n -> D] : Good(n, p)
    BY <1>2
  <2> DEFINE y == g[n][p[n]]
             q == [i \in 0..(n + 1) |-> IF i = n + 1 THEN y ELSE p[i]]
  <2>2. p[n] \in D /\ y \in D
    OBVIOUS
  <2>3. \A i \in 0..n : q[i] = p[i]
    OBVIOUS
  <2>4. q[n + 1] = y /\ q \in [0..(n + 1) -> D]
    BY <2>2
  <2> HIDE DEF q
  <2>5. ASSUME NEW i \in 0..n PROVE q[i + 1] = g[i][q[i]]
    <3>1. CASE i = n
      BY <2>3, <2>4, <3>1
    <3>2. CASE i # n
      <4>1. i \in 0..(n - 1) /\ i + 1 \in 0..n
        BY <3>2
      <4> QED
        BY <2>1, <2>3, <4>1
    <3> QED
      BY <3>1, <3>2
  <2>6. (n + 1) - 1 = n /\ n + 1 \in 0..N /\ q[0] = x
    BY <2>1, <2>3
  <2>7. Good(n + 1, q)
    BY <2>5, <2>6
  <2> HIDE DEF Good
  <2> QED
    BY <2>4, <2>6, <2>7
<1> HIDE DEF Good
<1>3. N \in S
  <2> HIDE DEF S
  <2> QED
    BY <1>1, <1>2, UpTo
<1> QED
  BY <1>3 DEF Good

-------------------------------------------------------------------------------
(* Sequences of sequences over S, such as the chunks of a stream.          *)
Rows(S) == Seq(Seq(S))

(* How long they are.                                                      *)
LEMMA RowFacts ==
  ASSUME NEW S, NEW cs \in Rows(S)
  PROVE  Len(cs) \in Nat /\ DOMAIN cs = 1..Len(cs) /\ \A i \in 1..Len(cs) : cs[i] \in Seq(S) /\ Len(cs[i]) \in Nat
<1>1. cs \in Seq(Seq(S))
  BY DEF Rows
<1> QED
  BY <1>1, ElementOfSeq, LenProperties

(* The part of Z from position a to position b.                            *)
Piece(Z, a, b) == SubSeq(Z, a + 1, b)

(* Its bytes are those of Z.                                               *)
LEMMA PieceFacts ==
  ASSUME NEW S, NEW Z \in Seq(S), NEW b \in 0..Len(Z), NEW a \in 0..b
  PROVE  /\ Piece(Z, a, b) \in Seq(S) /\ Len(Piece(Z, a, b)) = b - a
         /\ \A j \in 1..(b - a) : Piece(Z, a, b)[j] = Z[a + j]
<1> DEFINE m == a + 1
           t == SubSeq(Z, m, b)
<1>0. Len(Z) \in Nat
  BY LenProperties
<1>1. m \in Int /\ b \in Int /\ \A j \in m..b : Z[j] \in S
  BY <1>0, ElementOfSeq
<1>2. t \in Seq(S) /\ Len(t) = (IF m <= b THEN b - m + 1 ELSE 0) /\ \A j \in 1..(b - m + 1) : t[j] = Z[m + j - 1]
  BY <1>1, SubSeqProperties
<1> HIDE DEF t
<1>3. Len(t) = b - a
  BY <1>0, <1>2
<1>4. ASSUME NEW j \in 1..(b - a) PROVE t[j] = Z[a + j]
  <2>1. j \in 1..(b - m + 1) /\ m + j - 1 = a + j
    BY <1>0
  <2> QED
    BY <1>2, <2>1
<1> QED
  BY <1>2, <1>3, <1>4 DEF Piece, t

(* A sequence with the bytes of a piece is that piece.                     *)
LEMMA PieceIs ==
  ASSUME NEW S, NEW Z \in Seq(S), NEW b \in 0..Len(Z), NEW a \in 0..b, NEW s \in Seq(S), Len(s) = b - a,
         \A j \in 1..(b - a) : s[j] = Z[a + j]
  PROVE  s = Piece(Z, a, b)
<1> DEFINE t == Piece(Z, a, b)
<1>1. t \in Seq(S) /\ Len(t) = b - a /\ \A j \in 1..(b - a) : t[j] = Z[a + j]
  BY PieceFacts, ZenonT(30)
<1> HIDE DEF t
<1>2. Len(s) = Len(t) /\ \A j \in 1..Len(s) : s[j] = t[j]
  BY <1>1
<1>3. s = t
  BY <1>1, <1>2, SeqEqual
<1> QED
  BY <1>3 DEF t

(* Pieces that meet join; a piece without length is empty; all of Z is a   *)
(* piece of it.                                                            *)
LEMMA PieceJoin ==
  ASSUME NEW S, NEW Z \in Seq(S), NEW c \in 0..Len(Z), NEW b \in 0..c, NEW a \in 0..b
  PROVE  Piece(Z, a, b) \o Piece(Z, b, c) = Piece(Z, a, c)
<1>1. a + 1 \in 1..(Len(Z) + 1) /\ b \in ((a + 1) - 1)..Len(Z) /\ c \in b..Len(Z)
  BY LenProperties
<1> DEFINE m == a + 1
<1> HIDE DEF m
<1>2. SubSeq(Z, m, b) \o SubSeq(Z, b + 1, c) = SubSeq(Z, m, c)
  BY <1>1, ConcatAdjacentSubSeq, ZenonT(30) DEF m
<1> QED
  BY <1>2, ZenonT(30) DEF m, Piece

(* Between a position and itself there is nothing.                         *)
LEMMA PieceEmpty ==
  ASSUME NEW Z, NEW a \in Nat
  PROVE  Piece(Z, a, a) = <<>>
BY SubSeqEmpty DEF Piece

(* The piece from the first byte to the last is the whole.                 *)
LEMMA PieceWhole ==
  ASSUME NEW S, NEW Z \in Seq(S)
  PROVE  Piece(Z, 0, Len(Z)) = Z
<1>1. Len(Z) \in 0..Len(Z) /\ 0 \in 0..Len(Z) /\ Len(Z) = Len(Z) - 0 /\ \A j \in 1..(Len(Z) - 0) : Z[j] = Z[0 + j]
  BY LenProperties
<1> QED
  BY <1>1, PieceIs, ZenonT(30)

(* A piece of a piece, of a longer sequence, and of what made it longer.   *)
LEMMA PieceOfPiece ==
  ASSUME NEW S, NEW Z \in Seq(S), NEW b \in 0..Len(Z), NEW a \in 0..b, NEW j \in 0..(b - a), NEW i \in 0..j
  PROVE  Piece(Piece(Z, a, b), i, j) = Piece(Z, a + i, a + j)
<1> DEFINE y == Piece(Z, a, b)
           t == Piece(y, i, j)
<1>0. Len(Z) \in Nat
  BY LenProperties
<1>1. y \in Seq(S) /\ Len(y) = b - a /\ \A n \in 1..(b - a) : y[n] = Z[a + n]
  BY PieceFacts, ZenonT(30)
<1> HIDE DEF y
<1>2. j \in 0..Len(y)
  BY <1>0, <1>1
<1>3. t \in Seq(S) /\ Len(t) = j - i /\ \A n \in 1..(j - i) : t[n] = y[i + n]
  BY <1>1, <1>2, PieceFacts, ZenonT(30)
<1> HIDE DEF t
<1>4. a + j \in 0..Len(Z) /\ a + i \in 0..(a + j) /\ Len(t) = (a + j) - (a + i)
  BY <1>0, <1>3
<1>5. ASSUME NEW n \in 1..((a + j) - (a + i)) PROVE t[n] = Z[(a + i) + n]
  <2>1. n \in 1..(j - i) /\ i + n \in 1..(b - a) /\ a + (i + n) = (a + i) + n
    BY <1>0
  <2>2. t[n] = y[i + n] /\ y[i + n] = Z[a + (i + n)]
    BY <1>1, <1>3, <2>1, ZenonT(30)
  <2> QED
    BY <2>1, <2>2, ZenonT(30)
<1>6. t = Piece(Z, a + i, a + j)
  <2> DEFINE e == a + i
             f == a + j
  <2>1. \A n \in 1..(f - e) : t[n] = Z[e + n]
    BY <1>5, ZenonT(30)
  <2>2. f \in 0..Len(Z) /\ e \in 0..f /\ Len(t) = f - e
    BY <1>4, ZenonT(30)
  <2> HIDE DEF e, f
  <2>3. t = Piece(Z, e, f)
    BY <1>3, <2>1, <2>2, PieceIs, ZenonT(30)
  <2> QED
    BY <2>3, ZenonT(30) DEF e, f
<1> QED
  BY <1>6 DEF t, y

(* The pieces of Z are still there with c behind it, and so is c.          *)
LEMMA PieceOfLonger ==
  ASSUME NEW S, NEW Z \in Seq(S), NEW c \in Seq(S)
  PROVE  /\ Z \o c \in Seq(S) /\ Len(Z \o c) = Len(Z) + Len(c)
         /\ \A b \in 0..Len(Z) : \A a \in 0..b : Piece(Z \o c, a, b) = Piece(Z, a, b)
         /\ Piece(Z \o c, Len(Z), Len(Z) + Len(c)) = c
<1> DEFINE y == Z \o c
<1>0. Len(Z) \in Nat /\ Len(c) \in Nat
  BY LenProperties
<1>1. y \in Seq(S) /\ Len(y) = Len(Z) + Len(c)
      /\ \A i \in 1..(Len(Z) + Len(c)) : y[i] = IF i <= Len(Z) THEN Z[i] ELSE c[i - Len(Z)]
  BY ConcatProperties
<1> HIDE DEF y
<1>2. ASSUME NEW b \in 0..Len(Z), NEW a \in 0..b PROVE Piece(y, a, b) = Piece(Z, a, b)
  <2> DEFINE t == Piece(y, a, b)
  <2>1. b \in 0..Len(y)
    BY <1>0, <1>1
  <2>2. t \in Seq(S) /\ Len(t) = b - a /\ \A j \in 1..(b - a) : t[j] = y[a + j]
    BY <1>1, <2>1, PieceFacts, ZenonT(30)
  <2> HIDE DEF t
  <2>3. \A j \in 1..(b - a) : t[j] = Z[a + j]
    BY <1>0, <1>1, <2>2
  <2>4. t = Piece(Z, a, b)
    BY <2>2, <2>3, PieceIs, ZenonT(30)
  <2> QED
    BY <2>4 DEF t
<1>3. c = Piece(y, Len(Z), Len(Z) + Len(c))
  <2> DEFINE a == Len(Z)
             b == Len(Z) + Len(c)
  <2>1. b \in 0..Len(y) /\ a \in 0..b /\ Len(c) = b - a
    BY <1>0, <1>1
  <2>2. \A j \in 1..(b - a) : c[j] = y[a + j]
    BY <1>0, <1>1
  <2> HIDE DEF a, b
  <2>3. c = Piece(y, a, b)
    BY <1>1, <2>1, <2>2, PieceIs, ZenonT(30)
  <2> QED
    BY <2>3 DEF a, b
<1> QED
  BY <1>1, <1>2, <1>3 DEF y

(* The sequences cs lie one behind the other in Z: base[i] is where the    *)
(* first i of them end.                                                    *)
Lay(cs, base, Z) ==
  /\ base \in [0..Len(cs) -> 0..Len(Z)]
  /\ \A i \in 1..Len(cs) : base[i - 1] <= base[i] /\ cs[i] = Piece(Z, base[i - 1], base[i])

(* Numbers that never decrease from one to the next are ordered.           *)
LEMMA SumsAreOrdered ==
  ASSUME NEW N \in Nat, NEW base \in [0..N -> Nat],
         \A i \in 1..N : base[i - 1] <= base[i]
  PROVE  \A i \in 0..N : base[i] \in Nat /\ base[0] <= base[i] /\ base[i] <= base[N]
<1> DEFINE Up == {i \in 0..N : base[0] <= base[i]}
           Down == {i \in 0..N : base[N - i] <= base[N]}
<1>2. ASSUME NEW i \in 0..(N - 1) PROVE base[i] <= base[i + 1]
  <2>1. i + 1 \in 1..N /\ (i + 1) - 1 = i
    OBVIOUS
  <2> QED
    BY <2>1
<1>3. \A i \in 0..N : i \in Up
  <2>1. 0 \in Up
    OBVIOUS
  <2>2. ASSUME NEW i \in 0..(N - 1), i \in Up PROVE i + 1 \in Up
    BY <1>2, <2>2
  <2> HIDE DEF Up
  <2> QED
    BY <2>1, <2>2, UpTo, ZenonT(30)
<1>4. \A i \in 0..N : i \in Down
  <2>1. 0 \in Down
    OBVIOUS
  <2>2. ASSUME NEW i \in 0..(N - 1), i \in Down PROVE i + 1 \in Down
    <3>1. N - (i + 1) \in 0..(N - 1) /\ (N - (i + 1)) + 1 = N - i /\ i + 1 \in 0..N
      OBVIOUS
    <3>2. base[N - (i + 1)] <= base[N - i]
      BY <1>2, <3>1
    <3> QED
      BY <2>2, <3>1, <3>2
  <2> HIDE DEF Down
  <2> QED
    BY <2>1, <2>2, UpTo, ZenonT(30)
<1>5. ASSUME NEW i \in 0..N PROVE base[i] <= base[N]
  <2>1. N - i \in 0..N /\ N - (N - i) = i
    OBVIOUS
  <2>2. base[N - (N - i)] <= base[N]
    BY <1>4, <2>1, ZenonT(30)
  <2> QED
    BY <2>1, <2>2, ZenonT(30)
<1> QED
  BY <1>3, <1>5

(* They begin and end where base says, in order.                           *)
LEMMA LayOrder ==
  ASSUME NEW S, NEW cs \in Rows(S), NEW base, NEW Z \in Seq(S), Lay(cs, base, Z)
  PROVE  /\ Len(cs) \in Nat /\ Len(Z) \in Nat /\ base[0] \in Nat /\ base[Len(cs)] \in Nat /\ base[Len(cs)] <= Len(Z)
         /\ \A i \in 0..Len(cs) : base[i] \in Nat /\ base[0] <= base[i] /\ base[i] <= base[Len(cs)]
         /\ \A i \in 0..Len(cs) : base[i] \in 0..Len(Z)
         /\ \A i \in 1..Len(cs) : base[i - 1] \in 0..base[i] /\ base[i] = base[i - 1] + Len(cs[i])
<1> DEFINE N == Len(cs)
           L == Len(Z)
<1>0. N \in Nat /\ L \in Nat /\ base \in [0..N -> 0..L]
  BY RowFacts, LenProperties DEF Lay
<1>2. \A i \in 1..N : base[i - 1] <= base[i] /\ cs[i] = Piece(Z, base[i - 1], base[i])
  BY DEF Lay
<1>3. ASSUME NEW a \in Nat, NEW b \in 0..L, a <= b PROVE Len(Piece(Z, a, b)) = b - a
  <2>1. a \in 0..b
    BY <1>3
  <2> QED
    BY <2>1, PieceFacts, ZenonT(30)
<1> HIDE DEF N, L
<1>4. base \in [0..N -> Nat]
  BY <1>0
<1>5. \A i \in 0..N : base[i] \in Nat /\ base[0] <= base[i] /\ base[i] <= base[N]
  BY <1>0, <1>2, <1>4, SumsAreOrdered, ZenonT(30)
<1>6. 0 \in 0..N /\ N \in 0..N
  BY <1>0
<1>7. ASSUME NEW i \in 1..N PROVE base[i - 1] \in 0..base[i] /\ base[i] = base[i - 1] + Len(cs[i])
  <2>1. i - 1 \in 0..N /\ i \in 0..N
    BY <1>0
  <2>2. base[i - 1] \in Nat /\ base[i] \in 0..L /\ base[i - 1] <= base[i]
    BY <1>0, <1>2, <1>4, <2>1, ZenonT(30)
  <2>3. Len(cs[i]) = base[i] - base[i - 1]
    BY <1>2, <1>3, <2>2, ZenonT(30)
  <2> QED
    BY <1>0, <2>2, <2>3
<1>8. base[N] <= L /\ \A i \in 0..N : base[i] \in 0..L
  BY <1>0, <1>6
<1> QED
  BY <1>0, <1>5, <1>6, <1>7, <1>8, ZenonT(30) DEF N, L

(* One behind the other they are the part of Z that they cover.            *)
LEMMA FlattenIs ==
  ASSUME NEW S, NEW cs \in Rows(S), NEW base, NEW Z \in Seq(S), Lay(cs, base, Z)
  PROVE  FlattenSeq(cs) = Piece(Z, base[0], base[Len(cs)])
<1> DEFINE N == Len(cs)
           F(h) == [n \in 0..N |-> IF n = 0 THEN <<>> ELSE h[n - 1] \o cs[n]]
           f == CHOOSE h : h = F(h)
<1>1. N \in Nat /\ Len(Z) \in Nat /\ base[N] <= Len(Z)
  BY LayOrder, ZenonT(30)
<1>2. FlattenSeq(cs) = f[N]
  BY ZenonT(30) DEF FlattenSeq
<1>3. \A i \in 1..N : cs[i] \in Seq(S) /\ cs[i] = Piece(Z, base[i - 1], base[i])
  BY RowFacts, ZenonT(30) DEF Lay
<1>4. \A i \in 1..N : base[i] = base[i - 1] + Len(cs[i]) /\ Len(cs[i]) \in Nat
  BY LayOrder, RowFacts, ZenonT(30)
<1>5. \A i \in 0..N : base[i] \in Nat /\ base[0] <= base[i] /\ base[i] <= base[N]
  BY LayOrder, ZenonT(30)
<1> HIDE DEF N
<1>6. \E h : h = F(h)
  <2> DEFINE D == Seq(S)
             Joined(i) == [s \in D |-> s \o cs[i + 1]]
             g == [i \in 0..(N - 1) |-> Joined(i)]
  <2>1. ASSUME NEW i \in 0..(N - 1) PROVE \A s \in D : g[i][s] = s \o cs[i + 1]
    BY ZenonT(30)
  <2>2. ASSUME NEW i \in 0..(N - 1), NEW s \in D PROVE g[i][s] \in D
    <3>1. i + 1 \in 1..N
      BY <1>1
    <3>2. s \o cs[i + 1] \in D
      BY <1>3, <3>1, ConcatProperties, ZenonT(30)
    <3> HIDE DEF g, D
    <3> QED
      BY <2>1, <3>2, ZenonT(30)
  <2>3. <<>> \in D
    BY EmptySeq, ZenonT(30)
  <2> HIDE DEF D, g
  <2>4. PICK p \in [0..N -> D] : p[0] = <<>> /\ \A i \in 0..(N - 1) : p[i + 1] = g[i][p[i]]
    <3>1. Closed(g, N, D)
      BY <2>2, ZenonT(30) DEF Closed
    <3>2. \E p \in [0..N -> D] : Iterates(p, g, N, <<>>)
      BY <1>1, <2>3, <3>1, LoopExists, ZenonT(30)
    <3> QED
      BY <3>2, ZenonT(30) DEF Iterates
  <2>5. ASSUME NEW n \in 0..N PROVE p[n] = (IF n = 0 THEN <<>> ELSE p[n - 1] \o cs[n])
    <3> DEFINE i == n - 1
    <3>1. n = 0 \/ (n # 0 /\ i \in 0..(N - 1) /\ i \in 0..N /\ i + 1 = n)
      BY <1>1
    <3> HIDE DEF i
    <3>2. CASE i \in 0..(N - 1) /\ i \in 0..N /\ i + 1 = n
      <4>1. p[i + 1] = g[i][p[i]] /\ p[i] \in D
        BY <2>4, <3>2, ZenonT(30)
      <4>2. g[i][p[i]] = p[i] \o cs[i + 1]
        BY <2>1, <3>2, <4>1, ZenonT(30)
      <4>3. p[n] = p[i] \o cs[n]
        BY <3>2, <4>1, <4>2, ZenonT(30)
      <4>4. n # 0
        BY <3>2
      <4> QED
        BY <4>3, <4>4, ZenonT(30) DEF i
    <3> QED
      BY <2>4, <3>1, <3>2, ZenonT(30)
  <2>6. p = [n \in 0..N |-> p[n]]
    BY ZenonT(30)
  <2>7. p = F(p)
    BY <2>5, <2>6, ZenonT(30)
  <2> QED
    BY <2>7, ZenonT(30)
<1>7. f = F(f)
  <2> HIDE DEF F
  <2> QED
    BY <1>6, ZenonT(30)
<1> HIDE DEF f
<1>8. \A n \in 0..N : f[n] = (IF n = 0 THEN <<>> ELSE f[n - 1] \o cs[n])
  <2>1. \A n \in 0..N : F(f)[n] = (IF n = 0 THEN <<>> ELSE f[n - 1] \o cs[n])
    BY ZenonT(30)
  <2> HIDE DEF F
  <2> QED
    BY <1>7, <2>1, ZenonT(30)
<1> HIDE DEF F
<1> DEFINE T == {n \in 0..N : f[n] = Piece(Z, base[0], base[n])}
<1>9. 0 \in T
  <2>1. 0 \in 0..N
    BY <1>1
  <2>2. base[0] \in Nat
    BY <1>5, <2>1, ZenonT(30)
  <2>3. Piece(Z, base[0], base[0]) = <<>>
    BY <2>2, PieceEmpty, ZenonT(30)
  <2> QED
    BY <1>8, <2>1, <2>3, ZenonT(30)
<1>10. ASSUME NEW i \in 0..(N - 1), i \in T PROVE i + 1 \in T
  <2> DEFINE k == i + 1
             m == base[0]
             a == base[i]
             b == base[k]
  <2>1. k \in 1..N /\ k \in 0..N /\ k # 0 /\ k - 1 = i /\ i \in 0..N /\ 0 \in 0..N /\ N \in 0..N
    BY <1>1
  <2> HIDE DEF k
  <2>2. cs[k] = Piece(Z, a, b) /\ b = a + Len(cs[k]) /\ Len(cs[k]) \in Nat
    BY <1>3, <1>4, <2>1, ZenonT(30)
  <2>3. f[k] = f[i] \o cs[k] /\ f[i] = Piece(Z, m, a)
    BY <1>8, <1>10, <2>1, ZenonT(30)
  <2>4. m \in Nat /\ a \in Nat /\ b \in Nat /\ m <= a /\ base[N] \in Nat /\ b <= base[N]
    BY <1>5, <2>1, ZenonT(30)
  <2> HIDE DEF a, b
  <2>5. b \in 0..Len(Z) /\ a \in 0..b /\ m \in 0..a
    BY <1>1, <2>2, <2>4
  <2> HIDE DEF m
  <2>6. Piece(Z, m, a) \o Piece(Z, a, b) = Piece(Z, m, b)
    BY <2>5, PieceJoin, ZenonT(30)
  <2>7. f[k] = Piece(Z, m, b)
    BY <2>2, <2>3, <2>6, ZenonT(30)
  <2> QED
    BY <2>1, <2>7, ZenonT(30) DEF k, m, b
<1>11. N \in T
  <2> HIDE DEF T
  <2>1. N \in 0..N
    BY <1>1
  <2> QED
    BY <1>1, <1>9, <1>10, <2>1, UpTo, ZenonT(30)
<1> QED
  BY <1>2, <1>11, ZenonT(30) DEF N

(* What is appended to rows, and what is cut from them, are rows again.    *)
LEMMA RowAppend ==
  ASSUME NEW S, NEW cs \in Rows(S), NEW c \in Seq(S)
  PROVE  /\ Append(cs, c) \in Rows(S) /\ Len(Append(cs, c)) = Len(cs) + 1
         /\ Append(cs, c)[Len(cs) + 1] = c /\ \A i \in 1..Len(cs) : Append(cs, c)[i] = cs[i]
<1>1. cs \in Seq(Seq(S))
  BY DEF Rows
<1>2. Append(cs, c) \in Seq(Seq(S))
  BY <1>1, AppendProperties
<1> QED
  BY <1>1, <1>2, AppendProperties DEF Rows

(* Some consecutive rows are rows.                                         *)
LEMMA RowPiece ==
  ASSUME NEW S, NEW cs \in Rows(S), NEW b \in 0..Len(cs), NEW a \in 0..b
  PROVE  /\ Piece(cs, a, b) \in Rows(S) /\ Len(Piece(cs, a, b)) = b - a
         /\ \A j \in 1..(b - a) : Piece(cs, a, b)[j] = cs[a + j]
<1>1. cs \in Seq(Seq(S))
  BY DEF Rows
<1> QED
  BY <1>1, PieceFacts, ZenonT(30) DEF Rows

(* Rows that lie in Z lie in what is longer than Z.                        *)
LEMMA LayLonger ==
  ASSUME NEW S, NEW cs \in Rows(S), NEW base, NEW Z \in Seq(S), Lay(cs, base, Z), NEW c \in Seq(S)
  PROVE  Lay(cs, base, Z \o c)
<1> DEFINE y == Z \o c
           N == Len(cs)
<1>1. Len(y) = Len(Z) + Len(c) /\ \A b \in 0..Len(Z) : \A a \in 0..b : Piece(y, a, b) = Piece(Z, a, b)
  BY PieceOfLonger
<1>2. Len(Z) \in Nat /\ Len(c) \in Nat /\ N \in Nat
  BY RowFacts, LenProperties
<1>3. base \in [0..N -> 0..Len(Z)] /\ \A i \in 1..N : base[i - 1] <= base[i] /\ cs[i] = Piece(Z, base[i - 1], base[i])
  BY ZenonT(30) DEF Lay
<1>4. (\A i \in 0..N : base[i] \in 0..Len(Z)) /\ \A i \in 1..N : base[i - 1] \in 0..base[i]
  BY LayOrder, ZenonT(30)
<1> HIDE DEF y, N
<1>5. base \in [0..N -> 0..Len(y)]
  BY <1>1, <1>2, <1>3
<1>6. ASSUME NEW i \in 1..N PROVE cs[i] = Piece(y, base[i - 1], base[i])
  <2>1. i \in 0..N
    BY <1>2
  <2>2. Piece(y, base[i - 1], base[i]) = Piece(Z, base[i - 1], base[i])
    BY <1>1, <1>4, <2>1, ZenonT(30)
  <2> QED
    BY <1>3, <2>2, ZenonT(30)
<1>7. Lay(cs, base, y)
  BY <1>3, <1>5, <1>6, ZenonT(30) DEF Lay, N
<1> QED
  BY <1>7 DEF y

(* The rows and the piece of Z behind them.                                *)
Longer(base, N, t) == [i \in 0..(N + 1) |-> IF i = N + 1 THEN t ELSE base[i]]

(* Rows that lie in Z go on with the piece of Z behind them.               *)
LEMMA LayAppend ==
  ASSUME NEW S, NEW cs \in Rows(S), NEW base, NEW Z \in Seq(S), Lay(cs, base, Z),
         NEW t \in 0..Len(Z), base[Len(cs)] <= t
  PROVE  /\ Lay(Append(cs, Piece(Z, base[Len(cs)], t)), Longer(base, Len(cs), t), Z)
         /\ Longer(base, Len(cs), t)[Len(cs) + 1] = t
         /\ \A i \in 0..Len(cs) : Longer(base, Len(cs), t)[i] = base[i]
<1> DEFINE N == Len(cs)
           L == Len(Z)
           from == base[N]
           c == Piece(Z, from, t)
           ds == Append(cs, c)
           up == Longer(base, N, t)
<1>1. N \in Nat /\ L \in Nat /\ from \in 0..t /\ from \in 0..L
  <2>1. N \in Nat /\ L \in Nat /\ from \in Nat
    BY LayOrder, ZenonT(30)
  <2> QED
    BY <2>1
<1>2. base \in [0..N -> 0..L] /\ \A i \in 1..N : base[i - 1] <= base[i] /\ cs[i] = Piece(Z, base[i - 1], base[i])
  BY ZenonT(30) DEF Lay
<1>3. c \in Seq(S)
  BY <1>1, PieceFacts, ZenonT(30)
<1> HIDE DEF c, L
<1>4. Len(ds) = N + 1 /\ ds[N + 1] = c /\ \A i \in 1..N : ds[i] = cs[i]
  BY <1>3, RowAppend
<1> HIDE DEF ds, N
<1>5. up[N + 1] = t /\ (\A i \in 0..N : up[i] = base[i]) /\ up \in [0..(N + 1) -> 0..L]
  <2>1. N + 1 \in 0..(N + 1) /\ t \in 0..L /\ \A i \in 0..N : i # N + 1 /\ i \in 0..(N + 1)
    BY <1>1 DEF L
  <2>2. \A i \in 0..(N + 1) : i = N + 1 \/ i \in 0..N
    BY <1>1
  <2>3. (\A i \in 0..(N + 1) : up[i] = IF i = N + 1 THEN t ELSE base[i]) /\ up = [i \in 0..(N + 1) |-> up[i]]
    BY ZenonT(30) DEF Longer
  <2> HIDE DEF up
  <2>4. \A i \in 0..(N + 1) : up[i] \in 0..L
    BY <1>2, <2>1, <2>2, <2>3
  <2> QED
    BY <2>1, <2>3, <2>4
<1> HIDE DEF up
<1>6. ASSUME NEW i \in 1..(N + 1) PROVE up[i - 1] <= up[i] /\ ds[i] = Piece(Z, up[i - 1], up[i])
  <2>1. CASE i = N + 1
    <3>1. i - 1 = N /\ N \in 0..N
      BY <1>1, <2>1
    <3>2. up[i - 1] = from /\ up[i] = t
      BY <1>5, <2>1, <3>1, ZenonT(30)
    <3> HIDE DEF from
    <3>3. from <= t
      BY <1>1
    <3> QED
      BY <1>4, <2>1, <3>2, <3>3, ZenonT(30) DEF c
  <2>2. CASE i # N + 1
    <3>1. i \in 1..N /\ i \in 0..N /\ i - 1 \in 0..N
      BY <1>1, <2>2
    <3> QED
      BY <1>2, <1>4, <1>5, <3>1, ZenonT(30)
  <2> QED
    BY <2>1, <2>2
<1>7. Lay(ds, up, Z)
  BY <1>4, <1>5, <1>6, ZenonT(30) DEF Lay, L
<1> QED
  BY <1>5, <1>7, ZenonT(30) DEF ds, c, up, N

(* Some of the rows, from the a-th to the b-th.                            *)
Cut(base, a, b) == [i \in 0..(b - a) |-> base[a + i]]

(* Some of the rows lie where they lay.                                    *)
LEMMA LayCut ==
  ASSUME NEW S, NEW cs \in Rows(S), NEW base, NEW Z \in Seq(S), Lay(cs, base, Z),
         NEW b \in 0..Len(cs), NEW a \in 0..b
  PROVE  Lay(Piece(cs, a, b), Cut(base, a, b), Z) /\ \A i \in 0..(b - a) : Cut(base, a, b)[i] = base[a + i]
<1> DEFINE N == Len(cs)
           L == Len(Z)
           ds == Piece(cs, a, b)
           cut == Cut(base, a, b)
           M == b - a
<1>1. N \in Nat
  BY RowFacts
<1>2. base \in [0..N -> 0..L] /\ \A i \in 1..N : base[i - 1] <= base[i] /\ cs[i] = Piece(Z, base[i - 1], base[i])
  BY ZenonT(30) DEF Lay
<1>3. Len(ds) = M /\ \A i \in 1..M : ds[i] = cs[a + i]
  BY RowPiece, ZenonT(30)
<1> HIDE DEF ds, L
<1>4. ASSUME NEW i \in 0..M PROVE a + i \in 0..N
  BY <1>1
<1>5. \A i \in 0..M : cut[i] = base[a + i]
  BY ZenonT(30) DEF Cut
<1>6. cut = [i \in 0..M |-> base[a + i]]
  BY ZenonT(30) DEF Cut
<1> HIDE DEF cut, N
<1>7. cut \in [0..M -> 0..L]
  <2>1. \A i \in 0..M : base[a + i] \in 0..L
    BY <1>2, <1>4, ZenonT(30)
  <2> QED
    BY <1>6, <2>1, ZenonT(30)
<1>8. ASSUME NEW i \in 1..M PROVE cut[i - 1] <= cut[i] /\ ds[i] = Piece(Z, cut[i - 1], cut[i])
  <2>1. i \in 0..M /\ i - 1 \in 0..M /\ a + i \in 1..N /\ a + (i - 1) = (a + i) - 1
    BY <1>1 DEF N
  <2>2. cut[i] = base[a + i] /\ cut[i - 1] = base[(a + i) - 1]
    BY <1>5, <2>1, ZenonT(30)
  <2> QED
    BY <1>2, <1>3, <2>1, <2>2, ZenonT(30)
<1>9. Lay(ds, cut, Z)
  BY <1>3, <1>7, <1>8, ZenonT(30) DEF Lay, L
<1> QED
  BY <1>5, <1>9, ZenonT(30) DEF ds, cut

(* A row written behind rows that fill Z.                                  *)
LEMMA LayExtend ==
  ASSUME NEW S, NEW cs \in Rows(S), NEW base, NEW Z \in Seq(S), Lay(cs, base, Z), base[Len(cs)] = Len(Z),
         NEW c \in Seq(S)
  PROVE  /\ Lay(Append(cs, c), Longer(base, Len(cs), Len(Z \o c)), Z \o c)
         /\ Longer(base, Len(cs), Len(Z \o c))[Len(cs) + 1] = Len(Z \o c)
         /\ \A i \in 0..Len(cs) : Longer(base, Len(cs), Len(Z \o c))[i] = base[i]
<1> DEFINE y == Z \o c
           t == Len(y)
<1>1. y \in Seq(S) /\ t = Len(Z) + Len(c) /\ Piece(y, Len(Z), Len(Z) + Len(c)) = c
  BY PieceOfLonger
<1>2. Len(Z) \in Nat /\ Len(c) \in Nat
  BY LenProperties
<1>3. Lay(cs, base, y)
  BY LayLonger, ZenonT(30)
<1> HIDE DEF y
<1>4. t \in 0..Len(y) /\ base[Len(cs)] <= t
  BY <1>1, <1>2
<1>5. Piece(y, base[Len(cs)], t) = c
  BY <1>1, ZenonT(30)
<1> HIDE DEF t
<1>6. Lay(Append(cs, Piece(y, base[Len(cs)], t)), Longer(base, Len(cs), t), y)
      /\ Longer(base, Len(cs), t)[Len(cs) + 1] = t /\ \A i \in 0..Len(cs) : Longer(base, Len(cs), t)[i] = base[i]
  BY <1>1, <1>3, <1>4, LayAppend
<1> QED
  BY <1>5, <1>6, ZenonT(30) DEF t, y

(* Rows that fill Z.                                                       *)
Fills(cs, base, Z) == Lay(cs, base, Z) /\ base[0] = 0 /\ base[Len(cs)] = Len(Z)

(* Rows fill what they are one behind the other, and nothing else.         *)
LEMMA FillsFlat ==
  ASSUME NEW S, NEW cs \in Rows(S), NEW base, NEW Z \in Seq(S), Fills(cs, base, Z)
  PROVE  FlattenSeq(cs) = Z
<1>1. FlattenSeq(cs) = Piece(Z, base[0], base[Len(cs)])
  BY FlattenIs, ZenonT(30) DEF Fills
<1>2. Piece(Z, 0, Len(Z)) = Z
  BY PieceWhole, ZenonT(30)
<1> QED
  BY <1>1, <1>2, ZenonT(30) DEF Fills

(* A first row, and one more.                                              *)
LEMMA FillsNone ==
  ASSUME NEW S
  PROVE  <<>> \in Rows(S) /\ <<>> \in Seq(S) /\ Fills(<<>>, [i \in 0..0 |-> 0], <<>>)
<1>1. <<>> \in Rows(S) /\ <<>> \in Seq(S) /\ Len(<<>>) = 0
  BY EmptySeq DEF Rows
<1> DEFINE base == [i \in 0..0 |-> 0]
<1>2. base \in [0..0 -> 0..0] /\ base[0] = 0
  OBVIOUS
<1> HIDE DEF base
<1>3. 1..0 = {}
  OBVIOUS
<1>4. Fills(<<>>, base, <<>>)
  BY <1>1, <1>2, <1>3, ZenonT(30) DEF Fills, Lay
<1> QED
  BY <1>1, <1>4 DEF base

(* Rows that fill Z, and one more row, fill the longer sequence.           *)
LEMMA FillsAppend ==
  ASSUME NEW S, NEW cs \in Rows(S), NEW base, NEW Z \in Seq(S), Fills(cs, base, Z), NEW c \in Seq(S)
  PROVE  /\ Fills(Append(cs, c), Longer(base, Len(cs), Len(Z \o c)), Z \o c)
         /\ \A i \in 0..Len(cs) : Longer(base, Len(cs), Len(Z \o c))[i] = base[i]
<1> DEFINE up == Longer(base, Len(cs), Len(Z \o c))
           ds == Append(cs, c)
<1>1. Lay(ds, up, Z \o c) /\ up[Len(cs) + 1] = Len(Z \o c) /\ \A i \in 0..Len(cs) : up[i] = base[i]
  BY LayExtend DEF Fills
<1>2. Len(ds) = Len(cs) + 1
  BY RowAppend
<1>3. 0 \in 0..Len(cs)
  BY RowFacts
<1> HIDE DEF up, ds
<1>4. Fills(ds, up, Z \o c)
  BY <1>1, <1>2, <1>3, ZenonT(30) DEF Fills
<1> QED
  BY <1>1, <1>4 DEF up, ds

(* A piece up to the next element is the piece up to this one and it.      *)
LEMMA PieceAppend ==
  ASSUME NEW S, NEW Z \in Seq(S), NEW n \in 0..(Len(Z) - 1), NEW a \in 0..n
  PROVE  Piece(Z, a, n + 1) = Append(Piece(Z, a, n), Z[n + 1])
<1> DEFINE t == Piece(Z, a, n)
           e == Z[n + 1]
           m == n + 1
<1>0. Len(Z) \in Nat
  BY LenProperties
<1>1. n \in 0..Len(Z) /\ n \in Nat /\ m \in 0..Len(Z) /\ a \in 0..m /\ m \in 1..Len(Z) /\ a \in Nat /\ n - a \in Nat
  BY <1>0
<1>2. t \in Seq(S) /\ Len(t) = n - a /\ \A j \in 1..(n - a) : t[j] = Z[a + j]
  BY <1>1, PieceFacts, ZenonT(30)
<1>3. e \in S
  BY <1>1, ElementOfSeq
<1> HIDE DEF t, e
<1> DEFINE u == Append(t, e)
<1>4. u \in Seq(S) /\ Len(u) = Len(t) + 1 /\ u[Len(t) + 1] = e /\ \A i \in 1..Len(t) : u[i] = t[i]
  BY <1>2, <1>3, AppendProperties
<1> HIDE DEF u
<1>5. Len(u) = m - a
  BY <1>1, <1>2, <1>4
<1>6. ASSUME NEW j \in 1..(m - a) PROVE u[j] = Z[a + j]
  <2>1. CASE j = (n - a) + 1
    <3>1. a + j = n + 1 /\ j = Len(t) + 1
      BY <1>1, <1>2, <2>1
    <3> QED
      BY <1>4, <3>1, ZenonT(30) DEF e
  <2>2. CASE j # (n - a) + 1
    <3>1. j \in 1..(n - a)
      BY <1>1, <2>2
    <3> QED
      BY <1>2, <1>4, <3>1, ZenonT(30)
  <2> QED
    BY <2>1, <2>2
<1> HIDE DEF m
<1>7. u = Piece(Z, a, m)
  BY <1>1, <1>4, <1>5, <1>6, PieceIs, ZenonT(30)
<1> QED
  BY <1>7, ZenonT(30) DEF u, t, e, m

(* Every rows fill some Z.                                                 *)
LEMMA FillsSome ==
  ASSUME NEW S, NEW cs \in Rows(S)
  PROVE  FlattenSeq(cs) \in Seq(S) /\ \E base : Fills(cs, base, FlattenSeq(cs))
<1> DEFINE N == Len(cs)
           Has(ds) == \E Z \in Seq(S) : \E base : Fills(ds, base, Z)
           T == {n \in 0..N : Has(Piece(cs, 0, n))}
<1>0. N \in Nat /\ \A i \in 1..N : cs[i] \in Seq(S)
  BY RowFacts
<1>9. \A n \in 0..N : Piece(cs, 0, n) \in Rows(S)
  <2>1. \A n \in 0..N : 0 \in 0..n
    BY <1>0
  <2> QED
    BY <2>1, RowPiece, ZenonT(30)
<1>1. 0 \in T
  <2>1. Piece(cs, 0, 0) = <<>> /\ 0 \in 0..N
    BY <1>0, PieceEmpty
  <2>2. Has(<<>>)
    BY FillsNone, ZenonT(30)
  <2> HIDE DEF Has, N
  <2> QED
    BY <2>1, <2>2, ZenonT(30)
<1>2. ASSUME NEW n \in 0..(N - 1), n \in T PROVE n + 1 \in T
  <2>1. n \in 0..N /\ n + 1 \in 0..N /\ n + 1 \in 1..N
    BY <1>0
  <2> DEFINE ds == Piece(cs, 0, n)
             c == cs[n + 1]
  <2>2. Piece(cs, 0, n + 1) = Append(ds, c)
    <3>1. cs \in Seq(Seq(S)) /\ 0 \in 0..n
      BY DEF Rows
    <3> QED
      BY <3>1, PieceAppend
  <2>3. ds \in Rows(S) /\ c \in Seq(S) /\ Has(ds)
    BY <1>0, <1>2, <1>9, <2>1, ZenonT(30)
  <2> HIDE DEF ds, c
  <2>4. PICK Z \in Seq(S) : \E base : Fills(ds, base, Z)
    BY <2>3, ZenonT(30)
  <2>5. PICK base : Fills(ds, base, Z)
    BY <2>4, ZenonT(30)
  <2>6. Fills(Append(ds, c), Longer(base, Len(ds), Len(Z \o c)), Z \o c)
    BY <2>3, <2>5, FillsAppend, ZenonT(30)
  <2>7. Z \o c \in Seq(S)
    BY <2>3, ConcatProperties
  <2>8. Has(Append(ds, c))
    BY <2>6, <2>7, ZenonT(30)
  <2> HIDE DEF Has, N
  <2> QED
    BY <2>1, <2>2, <2>8, ZenonT(30)
<1>3. N \in T
  <2> HIDE DEF T, N
  <2>1. \A n \in 0..N : n \in T
    BY <1>0, <1>1, <1>2, UpTo, ZenonT(30)
  <2>2. N \in 0..N
    BY <1>0
  <2> QED
    BY <2>1, <2>2, ZenonT(30)
<1>4. Piece(cs, 0, N) = cs
  <2>1. cs \in Seq(Seq(S))
    BY DEF Rows
  <2> QED
    BY <2>1, PieceWhole, ZenonT(30)
<1>5. Has(cs)
  <2> HIDE DEF Has, N
  <2> QED
    BY <1>3, <1>4, ZenonT(30)
<1> QED
  BY <1>5, FillsFlat, ZenonT(30)
==============================================================================
