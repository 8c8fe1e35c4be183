---------------------------- MODULE DecoderProofs ----------------------------
(***************************************************************************)
(* The NI record decoder, for every width of the prefix, every limit,      *)
(* every payload and every way to cut the stream into reads: what Push     *)
(* decodes of a stream that well-formed payloads fill.                     *)
(***************************************************************************)
EXTENDS FrameDecoder, SequenceFacts

USE SMTT(30)

-------------------------------------------------------------------------------
(* Division, as the shifts of the length prefix use it.                    *)
LEMMA DivIs ==
  ASSUME NEW a \in Nat, NEW m \in Nat \ {0}
  PROVE  a \div m \in Nat /\ m * (a \div m) <= a /\ a < m * (a \div m) + m
OBVIOUS

(* A number is its last byte and what is left after a shift by one.        *)
LEMMA DivByteIs ==
  ASSUME NEW a \in Nat
  PROVE  a \div 256 \in Nat /\ a % 256 \in 0..255 /\ a = 256 * (a \div 256) + (a % 256)
OBVIOUS

(* The quotient is the only number with that remainder.                    *)
LEMMA DivUnique ==
  ASSUME NEW a \in Nat, NEW m \in Nat \ {0}, NEW q \in Nat, m * q <= a, a < m * q + m
  PROVE  a \div m = q
OBVIOUS

(* A number below the modulus is its own remainder.                        *)
LEMMA ModSmall ==
  ASSUME NEW a \in Nat, NEW m \in Nat, a < m
  PROVE  a % m = a
OBVIOUS

(* To shift and then to shift by one byte is to shift by one more.         *)
LEMMA DivDiv ==
  ASSUME NEW a \in Nat, NEW m \in Nat \ {0}
  PROVE  (a \div m) \div 256 = a \div (256 * m)
<1> DEFINE q == a \div m
           p == q \div 256
           r == q % 256
<1>1. q \in Nat /\ m * q <= a /\ a < m * q + m
  BY DivIs
<1> HIDE DEF q
<1>2. p \in Nat /\ r \in 0..255 /\ q = 256 * p + r
  BY <1>1, DivByteIs
<1> HIDE DEF p, r
<1>3. m * q = (256 * m) * p + m * r
  BY <1>1, <1>2
<1>4. m * r <= m * 255 /\ m * r \in Nat
  BY <1>2
<1>5. (256 * m) * p <= a /\ a < (256 * m) * p + 256 * m
  <2> DEFINE x == m * q
             y == (256 * m) * p
             z == m * r
  <2>1. x \in Nat /\ y \in Nat /\ z \in Nat
    BY <1>1, <1>2
  <2>2. x = y + z /\ z <= m * 255 /\ x <= a /\ a < x + m
    BY <1>1, <1>3, <1>4
  <2> HIDE DEF x, y, z
  <2>3. y <= a /\ a < y + 256 * m
    BY <2>1, <2>2
  <2> QED
    BY <2>3 DEF y
<1>6. a \div (256 * m) = p
  <2>1. 256 * m \in Nat \ {0}
    OBVIOUS
  <2> DEFINE w == 256 * m
  <2> HIDE DEF w
  <2>2. w \in Nat \ {0} /\ w * p <= a /\ a < w * p + w
    BY <1>5, <2>1 DEF w
  <2>3. a \div w = p
    BY <1>2, <2>2, DivUnique, ZenonT(30)
  <2> QED
    BY <2>3 DEF w
<1> QED
  BY <1>6 DEF p, q

(* The weights of the bytes of the prefix are powers of 256.               *)
LEMMA WeightIs ==
  /\ Weight[0] = 1 /\ \A i \in 0..LengthBytes : Weight[i] \in Nat \ {0}
  /\ \A i \in 0..(LengthBytes - 1) : Weight[i + 1] = 256 * Weight[i]
<1> DEFINE N == LengthBytes
           D == Nat \ {0}
           step == [s \in D |-> 256 * s]
           g == [i \in 0..(N - 1) |-> step]
           F(h) == [i \in 0..N |-> IF i = 0 THEN 1 ELSE 256 * h[i - 1]]
<1>0. N \in Nat
  BY FrameAssumption
<1>1. ASSUME NEW i \in 0..(N - 1) PROVE \A s \in D : g[i][s] = 256 * s
  BY ZenonT(30)
<1>2. Closed(g, N, D)
  <2>1. \A s \in D : 256 * s \in D
    OBVIOUS
  <2> HIDE DEF g, D
  <2> QED
    BY <1>1, <2>1, ZenonT(30) DEF Closed
<1>3. 1 \in D
  OBVIOUS
<1> HIDE DEF g, D
<1>4. PICK p \in [0..N -> D] : Iterates(p, g, N, 1)
  BY <1>0, <1>2, <1>3, LoopExists, ZenonT(30)
<1>5. \A i \in 0..(N - 1) : p[i + 1] = 256 * p[i]
  <2>1. \A i \in 0..(N - 1) : i \in 0..N
    BY <1>0
  <2>2. \A i \in 0..(N - 1) : p[i + 1] = g[i][p[i]] /\ p[i] \in D
    BY <1>4, <2>1, ZenonT(30) DEF Iterates
  <2> QED
    BY <1>1, <2>2, ZenonT(30)
<1>6. p = F(p)
  <2>1. ASSUME NEW i \in 0..N PROVE p[i] = IF i = 0 THEN 1 ELSE 256 * p[i - 1]
    <3>1. CASE i = 0
      BY <1>4, <3>1 DEF Iterates
    <3>2. CASE i # 0
      <4>1. i - 1 \in 0..(N - 1) /\ (i - 1) + 1 = i
        BY <1>0, <3>2
      <4>2. p[(i - 1) + 1] = 256 * p[i - 1]
        BY <1>5, <4>1, ZenonT(30)
      <4> QED
        BY <3>2, <4>1, <4>2, ZenonT(30)
    <3> QED
      BY <3>1, <3>2
  <2>2. p = [i \in 0..N |-> p[i]]
    OBVIOUS
  <2> QED
    BY <2>1, <2>2, ZenonT(30)
<1>7. Weight = F(Weight)
  <2>1. Weight = CHOOSE h : h = F(h)
    BY ZenonT(30) DEF Weight
  <2> HIDE DEF F
  <2> QED
    BY <1>6, <2>1, ZenonT(30)
<1>8. \A i \in 0..N : Weight[i] = F(Weight)[i]
  <2> HIDE DEF F
  <2> QED
    BY <1>7, ZenonT(30)
<1>9. \A i \in 0..N : Weight[i] = IF i = 0 THEN 1 ELSE 256 * Weight[i - 1]
  BY <1>8, ZenonT(30)
<1> HIDE DEF F, N
<1>10. Weight[0] = 1 /\ \A i \in 0..(N - 1) : Weight[i + 1] = 256 * Weight[i]
  <2>1. 0 \in 0..N /\ \A i \in 0..(N - 1) : i + 1 \in 0..N /\ i + 1 # 0 /\ (i + 1) - 1 = i
    BY <1>0
  <2> QED
    BY <1>9, <2>1, ZenonT(30)
<1>11. \A i \in 0..N : Weight[i] \in D
  <2> DEFINE T == {i \in 0..N : Weight[i] \in D}
  <2>1. 0 \in T
    BY <1>0, <1>3, <1>10
  <2>2. ASSUME NEW i \in 0..(N - 1), i \in T PROVE i + 1 \in T
    <3>1. i + 1 \in 0..N
      BY <1>0
    <3> QED
      BY <1>10, <2>2, <3>1 DEF D
  <2> HIDE DEF T
  <2>3. \A i \in 0..N : i \in T
    BY <1>0, <2>1, <2>2, UpTo, ZenonT(30)
  <2> QED
    BY <2>3 DEF T
<1> QED
  BY <1>10, <1>11 DEF N, D

(* No quotient is more than the dividend; what is less than the divisor    *)
(* has none.                                                               *)
LEMMA DivLess ==
  ASSUME NEW a \in Nat, NEW m \in Nat \ {0}
  PROVE  a \div m \in Nat /\ a \div m <= a /\ (a < m => a \div m = 0)
<1> DEFINE q == a \div m
<1>1. q \in Nat /\ m * q <= a /\ a < m * q + m
  BY DivIs
<1> HIDE DEF q
<1>2. m * q >= q
  BY <1>1
<1>3. a < m => q = 0
  BY <1>1
<1>4. q <= a
  <2> DEFINE x == m * q
  <2>1. x \in Nat /\ x <= a /\ q <= x
    BY <1>1, <1>2
  <2> HIDE DEF x
  <2> QED
    BY <1>1, <2>1
<1> QED
  BY <1>1, <1>3, <1>4 DEF q

(* What the j-th byte of the prefix is for a payload of the length L, and  *)
(* what the first j of them have of it.                                    *)
Digit(L, j) == (L \div Weight[LengthBytes - j]) % 256
Leading(L, j) == L \div Weight[LengthBytes - j]

(* One more byte of the prefix, shifted in.                                *)
LEMMA LeadingIs ==
  ASSUME NEW L \in Nat, L < Weight[LengthBytes]
  PROVE  /\ Leading(L, 0) = 0 /\ Leading(L, LengthBytes) = L
         /\ \A j \in 0..LengthBytes : Leading(L, j) \in Nat
         /\ \A j \in 1..LengthBytes : Digit(L, j) \in Byte
         /\ \A j \in 0..(LengthBytes - 1) :
              (Leading(L, j) * 256 + Digit(L, j + 1)) % Weight[LengthBytes] = Leading(L, j + 1)
<1> DEFINE N == LengthBytes
           W == Weight[N]
<1>0. N \in Nat
  BY FrameAssumption
<1>1. Weight[0] = 1 /\ (\A i \in 0..N : Weight[i] \in Nat \ {0})
      /\ \A i \in 0..(N - 1) : Weight[i + 1] = 256 * Weight[i]
  BY WeightIs, ZenonT(30)
<1> HIDE DEF N
<1>2. W \in Nat \ {0}
  BY <1>0, <1>1
<1>3. Leading(L, 0) = 0 /\ Leading(L, N) = L
  <2>1. N - 0 = N /\ N - N = 0
    BY <1>0
  <2>2. L \div W = 0
    BY <1>2, DivLess DEF N
  <2>3. L \div 1 = L
    OBVIOUS
  <2>4. Leading(L, 0) = 0
    BY <2>1, <2>2, ZenonT(30) DEF Leading, N
  <2>5. Leading(L, N) = L
    BY <1>1, <2>1, <2>3, ZenonT(30) DEF Leading, N
  <2> QED
    BY <2>4, <2>5, ZenonT(30)
<1>4. ASSUME NEW j \in 0..N PROVE Leading(L, j) \in Nat /\ Leading(L, j) <= L
  <2>1. N - j \in 0..N
    BY <1>0
  <2>2. Weight[N - j] \in Nat \ {0}
    BY <1>1, <2>1, ZenonT(30)
  <2> QED
    BY <2>2, DivLess, ZenonT(30) DEF Leading, N
<1>5. ASSUME NEW j \in 1..N PROVE Digit(L, j) \in Byte
  <2>1. j \in 0..N
    BY <1>0
  <2>2. Leading(L, j) \in Nat /\ Digit(L, j) = Leading(L, j) % 256
    BY <1>4, <2>1, ZenonT(30) DEF Leading, Digit
  <2> QED
    BY <2>2, DivByteIs DEF Byte
<1>6. ASSUME NEW j \in 0..(N - 1) PROVE (Leading(L, j) * 256 + Digit(L, j + 1)) % W = Leading(L, j + 1)
  <2> DEFINE r == N - (j + 1)
             q == Leading(L, j + 1)
  <2>1. r \in 0..(N - 1) /\ r \in 0..N /\ r + 1 = N - j /\ j + 1 \in 0..N
    BY <1>0
  <2>2. Weight[r] \in Nat \ {0} /\ Weight[r + 1] = 256 * Weight[r]
    BY <1>1, <2>1, ZenonT(30)
  <2>3. q = L \div Weight[r] /\ Digit(L, j + 1) = q % 256
    BY ZenonT(30) DEF Leading, Digit, N
  <2>4. Leading(L, j) = q \div 256
    <3>1. (L \div Weight[r]) \div 256 = L \div (256 * Weight[r])
      BY <2>2, DivDiv, ZenonT(30)
    <3>2. Leading(L, j) = L \div Weight[r + 1]
      BY <2>1, ZenonT(30) DEF Leading, N
    <3> HIDE DEF q, r
    <3> QED
      BY <2>2, <2>3, <3>1, <3>2, ZenonT(30)
  <2>5. q \in Nat /\ q <= L
    BY <1>4, <2>1, ZenonT(30)
  <2> HIDE DEF q, r
  <2>6. q = 256 * (q \div 256) + (q % 256) /\ q \div 256 \in Nat
    BY <2>5, DivByteIs
  <2>7. Leading(L, j) * 256 + Digit(L, j + 1) = q
    BY <2>3, <2>4, <2>6
  <2>8. q % W = q
    BY <1>2, <2>5, ModSmall DEF N
  <2> QED
    BY <2>7, <2>8, ZenonT(30) DEF q
<1> QED
  BY <1>3, <1>4, <1>5, <1>6, ZenonT(30) DEF N

(* Bytes are numbers.                                                      *)
LEMMA ByteIsNat == \A b \in Byte : b \in Nat
BY DEF Byte

(* The loop value<<8 | b over k more bytes of the prefix.                  *)
LEMMA ShiftedIs ==
  ASSUME NEW L \in Nat, L < Weight[LengthBytes], NEW k \in 0..LengthBytes, NEW m \in 0..(LengthBytes - k),
         NEW s \in Seq(Byte), Len(s) = k, \A j \in 1..k : s[j] = Digit(L, m + j)
  PROVE  Shifted(Leading(L, m), s) = Leading(L, m + k)
<1> DEFINE W == Weight[LengthBytes]
           x == Leading(L, m)
           Body(i, v) == (v * 256 + s[i]) % W
           F(h) == [i \in 0..k |-> IF i = 0 THEN x ELSE Body(i, h[i - 1])]
           f == CHOOSE h : h = F(h)
           g == [i \in 0..(k - 1) |-> [v \in Nat |-> Body(i + 1, v)]]
<1>0. LengthBytes \in Nat /\ k \in Nat /\ W \in Nat \ {0}
  BY FrameAssumption, WeightIs
<1>1. ASSUME NEW i \in 1..k, NEW v \in Nat PROVE Body(i, v) \in Nat
  <2>1. s[i] \in Nat
    <3>1. s[i] \in Byte
      BY ElementOfSeq, ZenonT(30)
    <3> QED
      BY <3>1, ByteIsNat, ZenonT(30)
  <2> HIDE DEF W
  <2> QED
    BY <1>0, <2>1
<1>2. x \in Nat
  <2>1. m \in 0..LengthBytes
    BY <1>0
  <2> QED
    BY <2>1, LeadingIs, ZenonT(30)
<1>3. Shifted(x, s) = f[k]
  BY ZenonT(30) DEF Shifted
<1> HIDE DEF x, Body
<1>4. ASSUME NEW i \in 0..(k - 1), NEW v \in Nat PROVE g[i][v] = Body(i + 1, v) /\ g[i][v] \in Nat
  <2>1. i + 1 \in 1..k
    BY <1>0
  <2>2. g[i][v] = Body(i + 1, v)
    BY ZenonT(30)
  <2> HIDE DEF g
  <2> QED
    BY <1>1, <2>1, <2>2, ZenonT(30)
<1> HIDE DEF g
<1>5. Closed(g, k, Nat)
  BY <1>4, ZenonT(30) DEF Closed
<1>6. PICK p \in [0..k -> Nat] : Iterates(p, g, k, x)
  BY <1>0, <1>2, <1>5, LoopExists, ZenonT(30)
<1>7. p = F(p)
  <2>1. ASSUME NEW i \in 0..k PROVE p[i] = IF i = 0 THEN x ELSE Body(i, p[i - 1])
    <3>1. CASE i = 0
      BY <1>6, <3>1, ZenonT(30) DEF Iterates
    <3>2. CASE i # 0
      <4>1. i - 1 \in 0..(k - 1) /\ (i - 1) + 1 = i /\ i - 1 \in 0..k
        BY <1>0, <3>2
      <4>2. p[(i - 1) + 1] = g[i - 1][p[i - 1]] /\ p[i - 1] \in Nat
        BY <1>6, <4>1, ZenonT(30) DEF Iterates
      <4>3. g[i - 1][p[i - 1]] = Body((i - 1) + 1, p[i - 1])
        BY <1>4, <4>1, <4>2, ZenonT(30)
      <4> QED
        BY <3>2, <4>1, <4>2, <4>3, ZenonT(30)
    <3> QED
      BY <3>1, <3>2
  <2>2. p = [i \in 0..k |-> p[i]]
    OBVIOUS
  <2> QED
    BY <2>1, <2>2, ZenonT(30)
<1>8. f = F(f)
  <2> HIDE DEF F
  <2> QED
    BY <1>7, ZenonT(30)
<1> HIDE DEF f
<1>9. \A i \in 0..k : f[i] = IF i = 0 THEN x ELSE Body(i, f[i - 1])
  <2>1. \A i \in 0..k : F(f)[i] = IF i = 0 THEN x ELSE Body(i, f[i - 1])
    BY ZenonT(30)
  <2> HIDE DEF F
  <2> QED
    BY <1>8, <2>1, ZenonT(30)
<1> DEFINE T == {i \in 0..k : f[i] = Leading(L, m + i)}
<1>10. 0 \in T
  <2>1. 0 \in 0..k /\ m + 0 = m
    BY <1>0
  <2> QED
    BY <1>9, <2>1, ZenonT(30) DEF x
<1>11. ASSUME NEW i \in 0..(k - 1), i \in T PROVE i + 1 \in T
  <2>1. i + 1 \in 0..k /\ i + 1 \in 1..k /\ i + 1 # 0 /\ (i + 1) - 1 = i /\ m + i \in 0..(LengthBytes - 1)
        /\ m + (i + 1) = (m + i) + 1
    BY <1>0
  <2>2. f[i + 1] = Body(i + 1, f[i]) /\ f[i] = Leading(L, m + i)
    BY <1>9, <1>11, <2>1, ZenonT(30)
  <2>3. s[i + 1] = Digit(L, m + (i + 1))
    BY <2>1, ZenonT(30)
  <2> DEFINE e == m + i
  <2>4. (Leading(L, e) * 256 + Digit(L, e + 1)) % Weight[LengthBytes] = Leading(L, e + 1)
    <3> HIDE DEF e
    <3>1. e \in 0..(LengthBytes - 1)
      BY <2>1 DEF e
    <3> QED
      BY <3>1, LeadingIs
  <2>5. f[i + 1] = Leading(L, m + (i + 1))
    BY <2>1, <2>2, <2>3, <2>4, ZenonT(30) DEF Body
  <2> QED
    BY <2>1, <2>5, ZenonT(30)
<1>12. k \in T
  <2> HIDE DEF T
  <2>1. \A i \in 0..k : i \in T
    BY <1>0, <1>10, <1>11, UpTo, ZenonT(30)
  <2>2. k \in 0..k
    BY <1>0
  <2> QED
    BY <2>1, <2>2, ZenonT(30)
<1> QED
  BY <1>3, <1>12, ZenonT(30) DEF x

-------------------------------------------------------------------------------
(* The cursor of a decoder: the chunks lie in the stream Z, base says      *)
(* where, and index and offset lead to the position pos of it.             *)
Cursor(cs, base, index, offset, pos) ==
  /\ index \in 0..Len(cs) /\ offset \in Nat /\ pos = base[index] + offset
  /\ IF index = Len(cs) THEN offset = 0 ELSE offset < Len(cs[index + 1])

(* The chunks of a decoder in the stream: none is empty.                   *)
Chunks(cs, base, Z) ==
  /\ cs \in Rows(Byte) /\ Z \in Seq(Byte) /\ Lay(cs, base, Z) /\ \A i \in 1..Len(cs) : Len(cs[i]) > 0

(* The position of a cursor is one of the stream, the end of the chunks    *)
(* only behind the last of them.                                           *)
LEMMA CursorIs ==
  ASSUME NEW cs, NEW base, NEW Z, Chunks(cs, base, Z),
         NEW index, NEW offset, NEW pos, Cursor(cs, base, index, offset, pos)
  PROVE  /\ pos \in Nat /\ base[Len(cs)] \in Nat /\ Len(Z) \in Nat /\ pos <= base[Len(cs)] /\ base[Len(cs)] <= Len(Z)
         /\ Len(cs) \in Nat /\ index \in Nat /\ offset \in Nat
         /\ index = Len(cs) <=> pos = base[Len(cs)]
<1> DEFINE N == Len(cs)
<1>1. N \in Nat /\ Len(Z) \in Nat /\ base[N] \in Nat /\ base[N] <= Len(Z)
      /\ (\A i \in 0..N : base[i] \in Nat /\ base[i] <= base[N])
      /\ \A i \in 1..N : base[i] = base[i - 1] + Len(cs[i])
  BY LayOrder, ZenonT(30) DEF Chunks
<1>2. index \in 0..N /\ offset \in Nat /\ pos = base[index] + offset
      /\ (index = N => offset = 0) /\ (index # N => offset < Len(cs[index + 1]))
  BY DEF Cursor
<1>3. \A i \in 1..N : Len(cs[i]) \in Nat
  BY RowFacts, ZenonT(30) DEF Chunks
<1> HIDE DEF N
<1>4. index \in Nat /\ base[index] \in Nat
  BY <1>1, <1>2
<1>5. CASE index = N
  BY <1>1, <1>2, <1>4, <1>5 DEF N
<1>6. CASE index # N
  <2>1. index + 1 \in 1..N /\ index + 1 \in 0..N /\ (index + 1) - 1 = index
    BY <1>1, <1>2, <1>6
  <2>2. base[index + 1] = base[index] + Len(cs[index + 1]) /\ base[index + 1] \in Nat /\ base[index + 1] <= base[N]
    BY <1>1, <2>1, ZenonT(30)
  <2>3. Len(cs[index + 1]) \in Nat
    BY <1>3, <2>1, ZenonT(30)
  <2>4. pos \in Nat /\ pos < base[N]
    BY <1>1, <1>2, <1>4, <1>6, <2>2, <2>3
  <2> QED
    BY <1>1, <1>2, <1>4, <1>6, <2>4 DEF N
<1> QED
  BY <1>5, <1>6

(* What is taken at a cursor, of the want bytes wanted, is the stream from *)
(* its position on, and the cursor behind it is again one.  Less than what *)
(* is wanted is taken only at the end of a chunk.                          *)
Taken(d, base, Z, index, offset, pos, want) ==
  LET take == Available(d, index, offset, want)
      whole == offset + take = Len(d.chunks[index + 1])
  IN /\ take \in 1..want /\ pos + take <= base[Len(d.chunks)]
     /\ AtCursor(d, index, offset, take) = Piece(Z, pos, pos + take)
     /\ whole => Cursor(d.chunks, base, index + 1, 0, pos + take)
     /\ ~whole => take = want /\ Cursor(d.chunks, base, index, offset + take, pos + take)

(* What peekPayloadLength and consume take from a chunk is that piece.     *)
LEMMA TakenIs ==
  ASSUME NEW d, NEW base, NEW Z, Chunks(d.chunks, base, Z),
         NEW index, NEW offset, NEW pos, Cursor(d.chunks, base, index, offset, pos), index # Len(d.chunks),
         NEW want \in Nat \ {0}
  PROVE  Taken(d, base, Z, index, offset, pos, want)
<1> DEFINE cs == d.chunks
           N == Len(cs)
           take == Available(d, index, offset, want)
           b == base[index]
           e == base[index + 1]
           c == cs[index + 1]
<1>0. cs \in Rows(Byte) /\ Z \in Seq(Byte) /\ Lay(cs, base, Z) /\ \A i \in 1..N : Len(cs[i]) > 0
  BY DEF Chunks
<1>19. Cursor(cs, base, index, offset, pos) /\ index # N /\ d.chunks = cs
  OBVIOUS
<1> HIDE DEF cs
<1>1. N \in Nat /\ Len(Z) \in Nat /\ base[N] \in Nat /\ base[N] <= Len(Z)
      /\ (\A i \in 0..N : base[i] \in Nat /\ base[i] <= base[N])
      /\ \A i \in 1..N : base[i] = base[i - 1] + Len(cs[i])
  BY <1>0, LayOrder, ZenonT(30)
<1>2. index \in 0..N /\ offset \in Nat /\ pos = b + offset /\ offset < Len(c)
  BY <1>19 DEF Cursor
<1>3. \A i \in 1..N : Len(cs[i]) \in Nat
  BY <1>0, RowFacts, ZenonT(30)
<1>4. \A i \in 1..N : cs[i] = Piece(Z, base[i - 1], base[i])
  BY <1>0, ZenonT(30) DEF Lay
<1>14. take = (IF want < Len(c) - offset THEN want ELSE Len(c) - offset)
  BY <1>19, ZenonT(30) DEF Available
<1>15. AtCursor(d, index, offset, take) = Piece(c, offset, offset + take)
  BY <1>19, ZenonT(30) DEF AtCursor, Piece
<1> HIDE DEF take, N
<1>5. index + 1 \in 1..N /\ index + 1 \in 0..N /\ (index + 1) - 1 = index
  BY <1>1, <1>2, <1>19
<1>6. e = b + Len(c) /\ e \in Nat /\ e <= base[N] /\ b \in Nat /\ c = Piece(Z, b, e) /\ Len(c) \in Nat
  BY <1>1, <1>2, <1>3, <1>4, <1>5, ZenonT(30)
<1>17. index + 1 # N => Len(cs[(index + 1) + 1]) > 0
  <2>1. index + 1 # N => (index + 1) + 1 \in 1..N
    BY <1>1, <1>5
  <2> QED
    BY <1>0, <2>1, ZenonT(30)
<1>18. Cursor(cs, base, index + 1, 0, e)
  BY <1>5, <1>6, <1>17 DEF Cursor, N
<1> HIDE DEF b, e, c
<1>7. take \in 1..want /\ offset + take \in 0..(e - b) /\ offset \in 0..(offset + take) /\ pos + take <= base[N]
      /\ (offset + take = Len(c) => e = pos + take)
      /\ (offset + take # Len(c) => take = want /\ offset + take < Len(c) /\ offset + take \in Nat
                                    /\ pos + take = b + (offset + take))
  <2> DEFINE len == Len(c)
             top == base[N]
  <2>1. len \in Nat /\ offset \in Nat /\ offset < len /\ b \in Nat /\ e = b + len /\ pos = b + offset /\ top \in Nat
        /\ e <= top /\ take = IF want < len - offset THEN want ELSE len - offset
    BY <1>1, <1>2, <1>6, <1>14, ZenonT(30)
  <2> HIDE DEF len, top
  <2>2. /\ take \in 1..want /\ offset + take \in 0..(e - b) /\ offset \in 0..(offset + take) /\ pos + take <= top
        /\ offset + take = len => e = pos + take
        /\ offset + take # len => take = want /\ offset + take < len /\ offset + take \in Nat
                                  /\ pos + take = b + (offset + take)
    BY <2>1
  <2> QED
    BY <2>2, ZenonT(30) DEF len, top
<1>8. AtCursor(d, index, offset, take) = Piece(Z, pos, pos + take)
  <2> DEFINE j == offset + take
  <2>1. e \in 0..Len(Z) /\ b \in 0..e /\ j \in 0..(e - b) /\ offset \in 0..j
    BY <1>1, <1>6, <1>7
  <2>2. b + j = pos + take
    BY <1>2, <1>6, <1>7
  <2> HIDE DEF j
  <2>3. Piece(Piece(Z, b, e), offset, j) = Piece(Z, b + offset, b + j)
    BY <1>0, <2>1, PieceOfPiece, ZenonT(30)
  <2> QED
    BY <1>2, <1>6, <1>15, <2>2, <2>3, ZenonT(30) DEF j
<1>11. offset + take # Len(c) => Cursor(cs, base, index, offset + take, pos + take)
  BY <1>2, <1>7, <1>19, ZenonT(30) DEF Cursor, N, b, c
<1>12. offset + take = Len(c) => Cursor(cs, base, index + 1, 0, pos + take)
  BY <1>7, <1>18, ZenonT(30)
<1> QED
  BY <1>7, <1>8, <1>11, <1>12, ZenonT(30) DEF take, N, cs, c, Taken

-------------------------------------------------------------------------------
(* A decoder that holds the bytes of the stream Z from one position to     *)
(* another: its chunks lie there and its count agrees.                     *)
HoldsAt(d, base, Z, from, to) ==
  /\ d = [chunks |-> d.chunks, headIndex |-> d.headIndex, headOffset |-> d.headOffset, buffered |-> d.buffered]
  /\ Chunks(d.chunks, base, Z) /\ Cursor(d.chunks, base, d.headIndex, d.headOffset, from)
  /\ base[Len(d.chunks)] = to /\ d.buffered = to - from

(* The prefix of a payload of the length L is in the stream behind from.   *)
Prefixed(Z, from, L) ==
  /\ L \in Nat /\ L < Weight[LengthBytes] /\ from \in Nat /\ from + LengthBytes <= Len(Z)
  /\ \A j \in 1..LengthBytes : Z[from + j] = Digit(L, j)

(* The loop of peekPayloadLength in its rounds: what it has is the part of *)
(* the length that the bytes read so far are, and its cursor is behind     *)
(* them while bytes are missing.                                           *)
PeekState == [value : Nat, remaining : 0..LengthBytes, index : Nat, offset : Nat]
PeekInv(d, base, from, L, s) ==
  /\ s.value = Leading(L, LengthBytes - s.remaining)
  /\ s.remaining # 0 => Cursor(d.chunks, base, s.index, s.offset, from + (LengthBytes - s.remaining))

(* A round of peekPayloadLength takes up the next bytes of the prefix.     *)
LEMMA PeekChunkIs ==
  ASSUME NEW d, NEW base, NEW Z, Chunks(d.chunks, base, Z), NEW from, NEW L, Prefixed(Z, from, L),
         NEW s \in PeekState, PeekInv(d, base, from, L, s)
  PROVE  /\ PeekChunk(d, s) \in PeekState /\ PeekInv(d, base, from, L, PeekChunk(d, s))
         /\ s.remaining # 0 /\ s.index < Len(d.chunks) => PeekChunk(d, s).index = s.index + 1
         /\ s.remaining = 0 \/ s.index >= Len(d.chunks) => PeekChunk(d, s) = s
<1>0. LengthBytes \in Nat /\ s.remaining \in 0..LengthBytes /\ s.index \in Nat /\ s.offset \in Nat /\ s.value \in Nat
  BY FrameAssumption DEF PeekState
<1>1. CASE s.remaining = 0 \/ s.index >= Len(d.chunks)
  <2>1. PeekChunk(d, s) = s
    BY <1>1, ZenonT(30) DEF PeekChunk
  <2>2. Len(d.chunks) \in Nat
    BY RowFacts DEF Chunks
  <2>3. ~(s.remaining # 0 /\ s.index < Len(d.chunks))
    BY <1>0, <1>1, <2>2
  <2> QED
    BY <2>1, <2>3, ZenonT(30)
<1>2. CASE ~(s.remaining = 0 \/ s.index >= Len(d.chunks))
  <2> DEFINE r == s.remaining
             m == LengthBytes - r
             pos == from + m
             index == s.index
             offset == s.offset
             take == Available(d, index, offset, r)
             bytes == AtCursor(d, index, offset, take)
             value == Shifted(s.value, bytes)
  <2>1. PeekChunk(d, s) = [value |-> value, remaining |-> r - take, index |-> index + 1, offset |-> 0]
    BY <1>2, ZenonT(30) DEF PeekChunk
  <2>2. Len(d.chunks) \in Nat /\ Z \in Seq(Byte) /\ Len(Z) \in Nat
    BY RowFacts, LenProperties DEF Chunks
  <2>3. r \in Nat \ {0} /\ r \in 1..LengthBytes /\ m \in 0..LengthBytes /\ index # Len(d.chunks) /\ m + r = LengthBytes
        /\ index < Len(d.chunks)
    BY <1>0, <1>2, <2>2
  <2>4. Cursor(d.chunks, base, index, offset, pos) /\ s.value = Leading(L, m)
    BY <2>3, ZenonT(30) DEF PeekInv
  <2>5. index \in Nat /\ offset \in Nat
    BY <1>0, ZenonT(30)
  <2> HIDE DEF index, offset, r
  <2>6. /\ take \in 1..r
        /\ bytes = Piece(Z, pos, pos + take)
        /\ r - take # 0 => Cursor(d.chunks, base, index + 1, 0, pos + take)
    <3>1. /\ take \in 1..r
          /\ bytes = Piece(Z, pos, pos + take)
          /\ offset + take = Len(d.chunks[index + 1]) => Cursor(d.chunks, base, index + 1, 0, pos + take)
          /\ offset + take # Len(d.chunks[index + 1]) => take = r
      <4> HIDE DEF pos
      <4>1. Taken(d, base, Z, index, offset, pos, r)
        BY <2>3, <2>4, TakenIs, ZenonT(30)
      <4> QED
        BY <4>1, ZenonT(30) DEF Taken
    <3>2. take = r => r - take = 0
      BY <2>3
    <3> QED
      BY <3>1, <3>2, ZenonT(30)
  <2>7. from \in Nat /\ from + LengthBytes <= Len(Z) /\ L \in Nat /\ L < Weight[LengthBytes]
        /\ \A j \in 1..LengthBytes : Z[from + j] = Digit(L, j)
    BY DEF Prefixed
  <2> HIDE DEF take, bytes
  <2>8. pos \in Nat /\ pos + take \in 0..Len(Z) /\ pos \in 0..(pos + take) /\ take \in 0..LengthBytes
        /\ m \in 0..(LengthBytes - take) /\ (pos + take) - pos = take
    BY <1>0, <2>2, <2>3, <2>6, <2>7
  <2>9. bytes \in Seq(Byte) /\ Len(bytes) = take /\ \A j \in 1..take : bytes[j] = Z[pos + j]
    <3> DEFINE e == pos + take
    <3>1. e \in 0..Len(Z) /\ pos \in 0..e /\ e - pos = take /\ bytes = Piece(Z, pos, e)
      BY <2>6, <2>8, ZenonT(30)
    <3> HIDE DEF e, pos
    <3>2. Piece(Z, pos, e) \in Seq(Byte) /\ Len(Piece(Z, pos, e)) = e - pos
          /\ \A j \in 1..(e - pos) : Piece(Z, pos, e)[j] = Z[pos + j]
      BY <2>2, <3>1, PieceFacts, ZenonT(30)
    <3> QED
      BY <3>1, <3>2, ZenonT(30)
  <2>10. ASSUME NEW j \in 1..take PROVE bytes[j] = Digit(L, m + j)
    <3>1. m + j \in 1..LengthBytes /\ pos + j = from + (m + j)
      BY <1>0, <2>3, <2>7, <2>8
    <3> HIDE DEF m
    <3> QED
      BY <2>7, <2>9, <3>1, ZenonT(30)
  <2>11. value = Leading(L, m + take)
    <3> HIDE DEF m
    <3> QED
      BY <2>4, <2>7, <2>8, <2>9, <2>10, ShiftedIs, ZenonT(30)
  <2>12. m + take = LengthBytes - (r - take) /\ pos + take = from + (LengthBytes - (r - take))
         /\ r - take \in 0..LengthBytes /\ m + take \in 0..LengthBytes /\ index + 1 \in Nat /\ 0 \in Nat
    BY <1>0, <2>3, <2>5, <2>6, <2>7
  <2>13. value \in Nat
    <3> HIDE DEF m
    <3> QED
      BY <2>7, <2>11, <2>12, LeadingIs, ZenonT(30)
  <2> DEFINE t == [value |-> value, remaining |-> r - take, index |-> index + 1, offset |-> 0]
  <2>14. t.value = value /\ t.remaining = r - take /\ t.index = index + 1 /\ t.offset = 0 /\ t \in PeekState
    <3> HIDE DEF value
    <3> QED
      BY <2>12, <2>13 DEF PeekState
  <2> HIDE DEF t, value, pos, m
  <2>15. PeekInv(d, base, from, L, t)
    BY <2>6, <2>11, <2>12, <2>14, ZenonT(30) DEF PeekInv
  <2>16. PeekChunk(d, s) = t
    BY <2>1, ZenonT(30) DEF t
  <2> QED
    BY <1>2, <2>14, <2>15, <2>16, ZenonT(30) DEF index
<1> QED
  BY <1>1, <1>2

(* peekPayloadLength reads the length that was encoded, however the prefix *)
(* straddles the chunks.                                                   *)
LEMMA PeekIs ==
  ASSUME NEW d, NEW base, NEW Z, NEW from, NEW to, HoldsAt(d, base, Z, from, to), from + LengthBytes <= to,
         NEW L, Prefixed(Z, from, L)
  PROVE  peekPayloadLength(d) = L
<1> DEFINE N == Len(d.chunks)
           x == [value |-> 0, remaining |-> LengthBytes, index |-> d.headIndex, offset |-> d.headOffset]
           F(h) == [n \in 0..N |-> IF n = 0 THEN x ELSE PeekChunk(d, h[n - 1])]
           f == CHOOSE h : h = F(h)
           D == {s \in PeekState : PeekInv(d, base, from, L, s)}
           g == [n \in 0..(N - 1) |-> [s \in D |-> PeekChunk(d, s)]]
<1>0. Chunks(d.chunks, base, Z) /\ Cursor(d.chunks, base, d.headIndex, d.headOffset, from) /\ base[N] = to
  BY DEF HoldsAt
<1>1. N \in Nat /\ LengthBytes \in Nat /\ from \in Nat /\ L \in Nat /\ L < Weight[LengthBytes]
      /\ d.headIndex \in Nat /\ d.headOffset \in Nat /\ to \in Nat
  <2>1. N \in Nat /\ d.headIndex \in Nat /\ d.headOffset \in Nat /\ base[N] \in Nat
    BY <1>0, CursorIs, ZenonT(30)
  <2> QED
    BY <1>0, <2>1, FrameAssumption DEF Prefixed
<1>2. peekPayloadLength(d) = IF f[N].remaining = 0 THEN f[N].value ELSE Inconsistent
  BY ZenonT(30) DEF peekPayloadLength
<1>3. x \in D
  <2>1. x \in PeekState /\ x.remaining = LengthBytes /\ x.value = 0 /\ x.index = d.headIndex /\ x.offset = d.headOffset
    BY <1>1 DEF PeekState
  <2>2. LengthBytes - LengthBytes = 0 /\ from + 0 = from
    BY <1>1
  <2>3. Leading(L, 0) = 0
    BY <1>1, LeadingIs, ZenonT(30)
  <2> HIDE DEF x
  <2>4. PeekInv(d, base, from, L, x)
    BY <1>0, <2>1, <2>2, <2>3, ZenonT(30) DEF PeekInv
  <2> QED
    BY <2>1, <2>4, ZenonT(30)
<1>4. x.index = d.headIndex
  OBVIOUS
<1> HIDE DEF x, N
<1>5. ASSUME NEW s \in D
      PROVE  /\ PeekChunk(d, s) \in D
             /\ s.remaining # 0 /\ s.index < N => PeekChunk(d, s).index = s.index + 1
             /\ s.remaining = 0 \/ s.index >= N => PeekChunk(d, s) = s
  <2>1. s \in PeekState /\ PeekInv(d, base, from, L, s)
    OBVIOUS
  <2> QED
    BY <1>0, <2>1, PeekChunkIs, ZenonT(30) DEF N
<1>6. ASSUME NEW n \in 0..(N - 1) PROVE \A s \in D : g[n][s] = PeekChunk(d, s)
  <2> HIDE DEF D
  <2> QED
    BY ZenonT(30)
<1> HIDE DEF g, D
<1>7. Closed(g, N, D)
  BY <1>5, <1>6, ZenonT(30) DEF Closed
<1>8. PICK p \in [0..N -> D] : Iterates(p, g, N, x)
  BY <1>1, <1>3, <1>7, LoopExists, ZenonT(30)
<1>9. p = F(p)
  <2>1. ASSUME NEW n \in 0..N PROVE p[n] = IF n = 0 THEN x ELSE PeekChunk(d, p[n - 1])
    <3>1. CASE n = 0
      BY <1>8, <3>1, ZenonT(30) DEF Iterates
    <3>2. CASE n # 0
      <4>1. n - 1 \in 0..(N - 1) /\ (n - 1) + 1 = n /\ n - 1 \in 0..N
        BY <1>1, <3>2
      <4>2. p[(n - 1) + 1] = g[n - 1][p[n - 1]] /\ p[n - 1] \in D
        BY <1>8, <4>1, ZenonT(30) DEF Iterates
      <4>3. g[n - 1][p[n - 1]] = PeekChunk(d, p[n - 1])
        BY <1>6, <4>1, <4>2, ZenonT(30)
      <4> QED
        BY <3>2, <4>1, <4>2, <4>3, ZenonT(30)
    <3> QED
      BY <3>1, <3>2
  <2>2. p = [n \in 0..N |-> p[n]]
    OBVIOUS
  <2> QED
    BY <2>1, <2>2, ZenonT(30)
<1>10. f = F(f)
  <2> HIDE DEF F
  <2> QED
    BY <1>9, ZenonT(30)
<1> HIDE DEF f
<1>11. \A n \in 0..N : f[n] = IF n = 0 THEN x ELSE PeekChunk(d, f[n - 1])
  <2>1. \A n \in 0..N : F(f)[n] = IF n = 0 THEN x ELSE PeekChunk(d, f[n - 1])
    BY ZenonT(30)
  <2> HIDE DEF F
  <2> QED
    BY <1>10, <2>1, ZenonT(30)
<1> DEFINE Fuel(n, s) == s.remaining = 0 \/ s.index >= N \/ s.index = d.headIndex + n
           T == {n \in 0..N : f[n] \in D /\ Fuel(n, f[n])}
<1>12. 0 \in T
  <2>1. 0 \in 0..N /\ d.headIndex + 0 = d.headIndex
    BY <1>1
  <2> QED
    BY <1>3, <1>4, <1>11, <2>1, ZenonT(30)
<1>13. ASSUME NEW n \in 0..(N - 1), n \in T PROVE n + 1 \in T
  <2>1. n + 1 \in 0..N /\ n + 1 # 0 /\ (n + 1) - 1 = n
    BY <1>1
  <2> DEFINE s == f[n]
             t == f[n + 1]
  <2>2. s \in D /\ Fuel(n, s) /\ t = PeekChunk(d, s)
    BY <1>11, <1>13, <2>1, ZenonT(30)
  <2> HIDE DEF s, t
  <2>3. t \in D /\ (s.remaining # 0 /\ s.index < N => t.index = s.index + 1)
        /\ (s.remaining = 0 \/ s.index >= N => t = s)
    BY <1>5, <2>2, ZenonT(30)
  <2>4. s.index \in Nat
    BY <2>2 DEF D, PeekState
  <2>5. s.remaining = 0 \/ s.index >= N \/ (s.remaining # 0 /\ s.index < N)
    BY <1>1, <2>4
  <2>6. s.index = d.headIndex + n => s.index + 1 = d.headIndex + (n + 1)
    BY <1>1
  <2>7. s.index < N => ~(s.index >= N)
    BY <1>1, <2>4
  <2>8. Fuel(n + 1, t)
    BY <2>2, <2>3, <2>5, <2>6, <2>7, ZenonT(30)
  <2> HIDE DEF Fuel
  <2> QED
    BY <2>1, <2>3, <2>8, ZenonT(30) DEF t
<1>14. N \in T
  <2> HIDE DEF T
  <2>1. \A n \in 0..N : n \in T
    BY <1>1, <1>12, <1>13, UpTo, ZenonT(30)
  <2>2. N \in 0..N
    BY <1>1
  <2> QED
    BY <2>1, <2>2, ZenonT(30)
<1> DEFINE s == f[N]
<1>15. s \in PeekState /\ PeekInv(d, base, from, L, s) /\ Fuel(N, s)
  BY <1>14, ZenonT(30) DEF D
<1> HIDE DEF s
<1>16. s.remaining \in 0..LengthBytes /\ s.index \in Nat
  BY <1>15 DEF PeekState
<1>17. s.remaining = 0
  <2> SUFFICES ASSUME s.remaining # 0 PROVE FALSE
    OBVIOUS
  <2>1. s.index >= N
    BY <1>1, <1>15, <1>16
  <2> DEFINE pos == from + (LengthBytes - s.remaining)
  <2>2. Cursor(d.chunks, base, s.index, s.offset, pos)
    BY <1>15, ZenonT(30) DEF PeekInv
  <2>6. pos < from + LengthBytes
    BY <1>1, <1>16
  <2> HIDE DEF pos
  <2>3. s.index \in 0..N
    BY <2>2, ZenonT(30) DEF Cursor, N
  <2>4. s.index = N
    BY <1>1, <2>1, <2>3
  <2>5. pos = base[Len(d.chunks)] /\ pos \in Nat
    BY <1>0, <2>2, <2>4, CursorIs, ZenonT(30) DEF N
  <2>7. pos = to
    BY <1>0, <2>5, ZenonT(30) DEF N
  <2> QED
    BY <1>1, <2>6, <2>7
<1>18. s.value = L
  <2>1. LengthBytes - 0 = LengthBytes
    BY <1>1
  <2>2. Leading(L, LengthBytes) = L
    BY <1>1, LeadingIs, ZenonT(30)
  <2> QED
    BY <1>15, <1>17, <2>1, <2>2, ZenonT(30) DEF PeekInv
<1> QED
  BY <1>2, <1>17, <1>18, ZenonT(30) DEF s

-------------------------------------------------------------------------------
(* A decoder as the record of its fields.                                  *)
Decoder(cs, index, offset, buffered) ==
  [chunks |-> cs, headIndex |-> index, headOffset |-> offset, buffered |-> buffered]

(* compact, in the fields of its result.                                   *)
Compacted(cs, index, offset, buffered) ==
  IF index = Len(cs) THEN Decoder(<<>>, 0, offset, buffered)
  ELSE IF index >= CompactAt /\ index * 2 >= Len(cs)
  THEN Decoder(SubSeq(cs, index + 1, Len(cs)), 0, offset, buffered)
  ELSE Decoder(cs, index, offset, buffered)

(* What compact makes of the fields of a decoder.                          *)
LEMMA CompactFields ==
  ASSUME NEW cs, NEW index, NEW offset, NEW buffered
  PROVE  compact(Decoder(cs, index, offset, buffered)) = Compacted(cs, index, offset, buffered)
<1> DEFINE d == Decoder(cs, index, offset, buffered)
<1>1. d.chunks = cs /\ d.headIndex = index
  BY DEF Decoder
<1>2. ASSUME NEW x PROVE [d EXCEPT !.chunks = x, !.headIndex = 0] = Decoder(x, 0, offset, buffered)
  <2>1. [d EXCEPT !.chunks = x] = Decoder(x, index, offset, buffered)
    BY DEF Decoder
  <2>2. [Decoder(x, index, offset, buffered) EXCEPT !.headIndex = 0] = Decoder(x, 0, offset, buffered)
    BY DEF Decoder
  <2> HIDE DEF d
  <2> QED
    BY <2>1, <2>2, ZenonT(30)
<1> HIDE DEF d
<1>3. compact(d) = IF index = Len(cs) THEN [d EXCEPT !.chunks = <<>>, !.headIndex = 0]
                   ELSE IF index >= CompactAt /\ index * 2 >= Len(cs)
                   THEN [d EXCEPT !.chunks = SubSeq(cs, index + 1, Len(cs)), !.headIndex = 0]
                   ELSE d
  BY <1>1, ZenonT(30) DEF compact
<1> QED
  BY <1>2, <1>3, ZenonT(30) DEF d, Compacted

(* Dropping the chunks behind the cursor leaves the decoder with the same  *)
(* part of the stream.                                                     *)
LEMMA DropIs ==
  ASSUME NEW cs, NEW base, NEW Z, Chunks(cs, base, Z),
         NEW index, NEW offset, NEW pos, Cursor(cs, base, index, offset, pos)
  PROVE  LET ds == Piece(cs, index, Len(cs))
             cut == Cut(base, index, Len(cs))
         IN Chunks(ds, cut, Z) /\ Cursor(ds, cut, 0, offset, pos) /\ cut[Len(ds)] = base[Len(cs)]
<1> DEFINE N == Len(cs)
           ds == Piece(cs, index, N)
           cut == Cut(base, index, N)
           M == N - index
<1>0. cs \in Rows(Byte) /\ Z \in Seq(Byte) /\ Lay(cs, base, Z) /\ \A i \in 1..N : Len(cs[i]) > 0
  BY DEF Chunks
<1>1. index \in 0..N /\ offset \in Nat /\ pos = base[index] + offset
      /\ (index = N => offset = 0) /\ (index # N => offset < Len(cs[index + 1]))
  BY DEF Cursor
<1>2. N \in Nat
  BY <1>0, RowFacts
<1> HIDE DEF N
<1>3. N \in 0..N /\ index \in 0..N /\ M \in Nat /\ index + 0 = index /\ index + M = N /\ (M = 0 <=> index = N)
      /\ 0 \in 0..M /\ M \in 0..M /\ (M # 0 => 1 \in 1..M) /\ 0 + 1 = 1
  BY <1>1, <1>2
<1>4. ds \in Rows(Byte) /\ Len(ds) = M /\ \A j \in 1..M : ds[j] = cs[index + j]
  BY <1>0, <1>3, RowPiece, ZenonT(30) DEF N
<1>5. Lay(ds, cut, Z) /\ \A i \in 0..M : cut[i] = base[index + i]
  <2>1. N \in 0..N /\ index \in 0..N
    BY <1>3, ZenonT(30)
  <2> QED
    BY <1>0, <2>1, LayCut DEF N
<1> HIDE DEF ds, cut
<1>6. \A j \in 1..M : Len(ds[j]) > 0
  <2>1. \A j \in 1..M : index + j \in 1..N
    BY <1>1, <1>2
  <2> QED
    BY <1>0, <1>4, <2>1, ZenonT(30)
<1>7. Chunks(ds, cut, Z)
  BY <1>0, <1>4, <1>5, <1>6, ZenonT(30) DEF Chunks
<1> HIDE DEF M
<1>8. cut[0] = base[index] /\ cut[M] = base[N]
  BY <1>3, <1>5, ZenonT(30)
<1>9. M # 0 => ds[0 + 1] = cs[index + 1]
  <2>1. M # 0 => ds[1] = cs[index + 1]
    BY <1>3, <1>4
  <2> QED
    BY <2>1
<1>10. Cursor(ds, cut, 0, offset, pos)
  BY <1>1, <1>3, <1>4, <1>8, <1>9, ZenonT(30) DEF Cursor
<1> QED
  BY <1>4, <1>7, <1>8, <1>10, ZenonT(30) DEF ds, cut, N

(* What is kept behind the cursor is bounded.                              *)
Kept(d) == d.headIndex < CompactAt \/ 2 * d.headIndex < Len(d.chunks)

(* compact keeps what the decoder holds and drops what it consumed.        *)
LEMMA CompactIs ==
  ASSUME NEW d, NEW base, NEW Z, NEW from, NEW to, HoldsAt(d, base, Z, from, to)
  PROVE  (\E b : HoldsAt(compact(d), b, Z, from, to)) /\ Kept(compact(d))
<1> DEFINE cs == d.chunks
           N == Len(cs)
           index == d.headIndex
           offset == d.headOffset
<1>1. d = Decoder(cs, index, offset, d.buffered)
  BY DEF HoldsAt, Decoder
<1>2. Chunks(cs, base, Z) /\ Cursor(cs, base, index, offset, from) /\ base[N] = to /\ d.buffered = to - from
  BY DEF HoldsAt
<1> DEFINE buffered == d.buffered
<1> HIDE DEF cs, index, offset, buffered
<1>3. index \in 0..N /\ N \in Nat /\ cs \in Rows(Byte)
  <2>1. index \in 0..N /\ cs \in Rows(Byte)
    BY <1>2 DEF Cursor, Chunks
  <2> QED
    BY <2>1, RowFacts
<1>4. ASSUME NEW e, e = Decoder(Piece(cs, index, N), 0, offset, buffered)
      PROVE  (\E b : HoldsAt(e, b, Z, from, to)) /\ Kept(e)
  <2> DEFINE ds == Piece(cs, index, N)
             cut == Cut(base, index, N)
  <2>1. Chunks(ds, cut, Z) /\ Cursor(ds, cut, 0, offset, from) /\ cut[Len(ds)] = base[N]
    BY <1>2, DropIs, ZenonT(30)
  <2> HIDE DEF ds, cut
  <2>2. e.chunks = ds /\ e.headIndex = 0 /\ e.headOffset = offset /\ e.buffered = buffered
        /\ e = [chunks |-> ds, headIndex |-> 0, headOffset |-> offset, buffered |-> buffered]
    BY <1>4 DEF Decoder, ds
  <2>3. HoldsAt(e, cut, Z, from, to)
    BY <1>2, <2>1, <2>2, ZenonT(30) DEF HoldsAt, buffered
  <2>4. Kept(e)
    BY <2>2, FrameAssumption DEF Kept
  <2> QED
    BY <2>3, <2>4, ZenonT(30)
<1>5. compact(d) = Compacted(cs, index, offset, buffered)
  <2>1. d = Decoder(cs, index, offset, buffered)
    BY <1>1, ZenonT(30) DEF buffered
  <2> QED
    BY <2>1, CompactFields, ZenonT(30)
<1>6. CASE index = N
  <2>1. Piece(cs, index, N) = <<>>
    BY <1>3, <1>6, PieceEmpty, ZenonT(30)
  <2>2. compact(d) = Decoder(Piece(cs, index, N), 0, offset, buffered)
    BY <1>5, <1>6, <2>1, ZenonT(30) DEF Compacted
  <2> QED
    BY <1>4, <2>2, ZenonT(30)
<1>7. CASE index # N /\ index >= CompactAt /\ index * 2 >= N
  <2>2. compact(d) = Decoder(Piece(cs, index, N), 0, offset, buffered)
    BY <1>5, <1>7, ZenonT(30) DEF Piece, Compacted
  <2> QED
    BY <1>4, <2>2, ZenonT(30)
<1>8. CASE index # N /\ ~(index >= CompactAt /\ index * 2 >= N)
  <2>1. compact(d) = d
    BY <1>1, <1>5, <1>8, ZenonT(30) DEF buffered, Compacted
  <2>2. index < CompactAt \/ 2 * index < N
    BY <1>3, <1>8, FrameAssumption
  <2>3. Kept(d)
    BY <2>2, ZenonT(30) DEF Kept, index, cs
  <2> QED
    BY <2>1, <2>3, ZenonT(30)
<1> QED
  BY <1>6, <1>7, <1>8

-------------------------------------------------------------------------------
(* The loop of consume in its rounds: only the cursor moves, it is behind  *)
(* the bytes copied, and they are the stream from the first on.            *)
Decoders == [chunks : Rows(Byte), headIndex : Nat, headOffset : Nat, buffered : Nat]
CopyState(length) == [dec : Decoders, left : 0..length, bytes : Seq(Byte)]
CopyInv(d, base, Z, from, length, s) ==
  /\ s.dec.chunks = d.chunks /\ s.dec.buffered = d.buffered
  /\ Cursor(d.chunks, base, s.dec.headIndex, s.dec.headOffset, from + (length - s.left))
  /\ s.bytes = Piece(Z, from, from + (length - s.left))

(* The cursor moves within a chunk or to the next.                         *)
MovedBy(d, take, e) ==
  /\ e \in Decoders /\ e.chunks = d.chunks /\ e.buffered = d.buffered
  /\ IF d.headOffset + take = Len(d.chunks[d.headIndex + 1])
     THEN e.headIndex = d.headIndex + 1 /\ e.headOffset = 0
     ELSE e.headIndex = d.headIndex /\ e.headOffset = d.headOffset + take

(* What consume does to the cursor when it has taken some bytes.           *)
LEMMA AdvancedFields ==
  ASSUME NEW d \in Decoders, NEW take \in Nat
  PROVE  MovedBy(d, take, Advanced(d, take))
<1> DEFINE whole == d.headOffset + take = Len(d.chunks[d.headIndex + 1])
           a == [d EXCEPT !.headIndex = @ + 1, !.headOffset = 0]
           b == [d EXCEPT !.headOffset = @ + take]
<1>1. a \in Decoders /\ a.chunks = d.chunks /\ a.buffered = d.buffered /\ a.headIndex = d.headIndex + 1 /\ a.headOffset = 0
  <2> DEFINE x == [d EXCEPT !.headIndex = @ + 1]
  <2>1. x \in Decoders /\ x.chunks = d.chunks /\ x.buffered = d.buffered /\ x.headIndex = d.headIndex + 1
    BY DEF Decoders
  <2>2. a = [x EXCEPT !.headOffset = 0]
    BY ZenonT(30)
  <2> HIDE DEF x, a
  <2> QED
    BY <2>1, <2>2 DEF Decoders
<1>2. b \in Decoders /\ b.chunks = d.chunks /\ b.buffered = d.buffered /\ b.headIndex = d.headIndex
      /\ b.headOffset = d.headOffset + take
  BY DEF Decoders
<1>3. Advanced(d, take) = IF whole THEN a ELSE b
  BY ZenonT(30) DEF Advanced
<1> HIDE DEF a, b
<1> QED
  BY <1>1, <1>2, <1>3, ZenonT(30) DEF MovedBy

(* A round of consume copies the next bytes of the stream.                 *)
LEMMA CopyChunkIs ==
  ASSUME NEW d, NEW base, NEW Z, Chunks(d.chunks, base, Z), NEW from \in Nat, NEW length \in Nat,
         NEW s \in CopyState(length), CopyInv(d, base, Z, from, length, s)
  PROVE  /\ CopyChunk(s) \in CopyState(length) /\ CopyInv(d, base, Z, from, length, CopyChunk(s))
         /\ s.left # 0 /\ s.dec.headIndex < Len(d.chunks)
              => CopyChunk(s).left = 0 \/ CopyChunk(s).dec.headIndex = s.dec.headIndex + 1
         /\ s.left = 0 \/ s.dec.headIndex >= Len(d.chunks) => CopyChunk(s) = s
<1> DEFINE e == s.dec
           l == s.left
           index == e.headIndex
           offset == e.headOffset
           pos == from + (length - l)
           N == Len(d.chunks)
<1>0. e \in Decoders /\ l \in 0..length /\ s.bytes \in Seq(Byte)
  BY DEF CopyState
<1>1. e.chunks = d.chunks /\ Cursor(d.chunks, base, index, offset, pos) /\ e.buffered = d.buffered
      /\ s.bytes = Piece(Z, from, pos)
  BY ZenonT(30) DEF CopyInv
<1>2. index \in Nat /\ offset \in Nat /\ N \in Nat /\ Len(Z) \in Nat /\ Z \in Seq(Byte)
  BY <1>0, RowFacts, LenProperties DEF Decoders, Chunks
<1>3. CASE l = 0 \/ index >= N
  <2>1. CopyChunk(s) = s
    BY <1>1, <1>3, ZenonT(30) DEF CopyChunk
  <2>2. ~(l # 0 /\ index < N)
    BY <1>2, <1>3
  <2> QED
    BY <2>1, <2>2, ZenonT(30)
<1>4. CASE ~(l = 0 \/ index >= N)
  <2> DEFINE take == Available(e, index, offset, l)
             bytes == AtCursor(e, index, offset, take)
             ne == Advanced(e, take)
  <2>1. CopyChunk(s) = [dec |-> ne, left |-> l - take, bytes |-> s.bytes \o bytes]
    BY <1>1, <1>4, ZenonT(30) DEF CopyChunk
  <2>2. l \in Nat \ {0} /\ index # N /\ pos \in Nat /\ from \in 0..pos
    BY <1>0, <1>2, <1>4
  <2> HIDE DEF pos
  <2>3. Taken(e, base, Z, index, offset, pos, l)
    <3>1. Chunks(e.chunks, base, Z) /\ Cursor(e.chunks, base, index, offset, pos) /\ index # Len(e.chunks)
      BY <1>1, <2>2, ZenonT(30)
    <3> HIDE DEF e, l, index, offset
    <3> QED
      BY <2>2, <3>1, TakenIs, ZenonT(30)
  <2> HIDE DEF l
  <2> DEFINE whole == offset + take = Len(d.chunks[index + 1])
  <2>4. /\ take \in 1..l /\ pos + take <= base[N] /\ bytes = Piece(Z, pos, pos + take)
        /\ whole => Cursor(d.chunks, base, index + 1, 0, pos + take)
        /\ ~whole => take = l /\ Cursor(d.chunks, base, index, offset + take, pos + take)
    BY <1>1, <2>3, ZenonT(30) DEF Taken
  <2> HIDE DEF take, bytes
  <2>5. take \in Nat
    BY <1>0, <2>4
  <2>6. ne \in Decoders /\ ne.chunks = d.chunks /\ ne.buffered = d.buffered
        /\ (whole => ne.headIndex = index + 1 /\ ne.headOffset = 0)
        /\ (~whole => ne.headIndex = index /\ ne.headOffset = offset + take)
    <3>1. MovedBy(e, take, ne)
      BY <1>0, <2>5, AdvancedFields, ZenonT(30)
    <3> HIDE DEF e, ne
    <3> QED
      BY <1>1, <3>1, ZenonT(30) DEF MovedBy
  <2> HIDE DEF ne, whole, index, offset
  <2>7. pos + take = from + (length - (l - take)) /\ l - take \in 0..length /\ (take = l => l - take = 0)
    BY <1>0, <2>4, <2>5 DEF pos
  <2>8. base[N] \in Nat /\ base[N] <= Len(Z)
    BY <1>1, CursorIs, ZenonT(30)
  <2>9. pos + take \in 0..Len(Z) /\ pos \in 0..(pos + take)
    BY <1>2, <2>2, <2>4, <2>5, <2>8
  <2>10. s.bytes \o bytes = Piece(Z, from, pos + take)
    <3> DEFINE c == pos + take
    <3>1. c \in 0..Len(Z) /\ pos \in 0..c /\ bytes = Piece(Z, pos, c)
      BY <2>4, <2>9, ZenonT(30)
    <3> HIDE DEF c
    <3>2. Piece(Z, from, pos) \o Piece(Z, pos, c) = Piece(Z, from, c)
      BY <1>2, <2>2, <3>1, PieceJoin, ZenonT(30)
    <3> QED
      BY <1>1, <3>1, <3>2, ZenonT(30) DEF c
  <2>11. s.bytes \o bytes \in Seq(Byte)
    <3> DEFINE c == pos + take
    <3>1. c \in 0..Len(Z) /\ from \in 0..c
      BY <2>2, <2>5, <2>9
    <3> HIDE DEF c
    <3>2. Piece(Z, from, c) \in Seq(Byte)
      BY <1>2, <3>1, PieceFacts, ZenonT(30)
    <3> QED
      BY <2>10, <3>2, ZenonT(30) DEF c
  <2> DEFINE joined == s.bytes \o bytes
             left == l - take
             t == [dec |-> ne, left |-> left, bytes |-> joined]
  <2> HIDE DEF joined, left
  <2>12. t.dec = ne /\ t.left = left /\ t.bytes = joined
    OBVIOUS
  <2>13. ne \in Decoders /\ left \in 0..length /\ joined \in Seq(Byte)
    BY <2>6, <2>7, <2>11, ZenonT(30) DEF left, joined
  <2>14. t \in CopyState(length)
    BY <2>13, ZenonT(30) DEF CopyState
  <2> HIDE DEF t
  <2>15. Cursor(d.chunks, base, ne.headIndex, ne.headOffset, pos + take)
    BY <2>4, <2>6, ZenonT(30)
  <2>16. CopyInv(d, base, Z, from, length, t)
    BY <2>6, <2>7, <2>10, <2>12, <2>15, ZenonT(30) DEF CopyInv, joined, left
  <2>17. t.left = 0 \/ t.dec.headIndex = index + 1
    BY <2>4, <2>6, <2>7, <2>12, ZenonT(30) DEF left
  <2>18. CopyChunk(s) = t
    BY <2>1, ZenonT(30) DEF t, joined, left
  <2> QED
    BY <1>4, <2>14, <2>16, <2>17, <2>18, ZenonT(30) DEF index, l
<1> QED
  BY <1>3, <1>4

(* A decoder that holds the stream from one position to another, and does  *)
(* not keep more than it should behind its cursor.                         *)
Holds(d, Z, from, to) == (\E base : HoldsAt(d, base, Z, from, to)) /\ Kept(d)

(* consume returns the bytes at the head of the queue and holds the rest.  *)
LEMMA ConsumeIs ==
  ASSUME NEW d, NEW Z, NEW from, NEW to, \E base : HoldsAt(d, base, Z, from, to),
         NEW length \in Nat, from + length <= to
  PROVE  /\ consume(d, length).ok /\ consume(d, length).bytes = Piece(Z, from, from + length)
         /\ Holds(consume(d, length).dec, Z, from + length, to)
<1>0. PICK base : HoldsAt(d, base, Z, from, to)
  OBVIOUS
<1> DEFINE N == Len(d.chunks)
           x == [dec |-> d, left |-> length, bytes |-> <<>>]
           F(h) == [n \in 0..N |-> IF n = 0 THEN x ELSE CopyChunk(h[n - 1])]
           f == CHOOSE h : h = F(h)
           D == {s \in CopyState(length) : CopyInv(d, base, Z, from, length, s)}
           g == [n \in 0..(N - 1) |-> [s \in D |-> CopyChunk(s)]]
<1>1. Chunks(d.chunks, base, Z) /\ Cursor(d.chunks, base, d.headIndex, d.headOffset, from) /\ base[N] = to
      /\ d.buffered = to - from
  BY <1>0 DEF HoldsAt
<1>27. d = [chunks |-> d.chunks, headIndex |-> d.headIndex, headOffset |-> d.headOffset, buffered |-> d.buffered]
  BY <1>0 DEF HoldsAt
<1>2. N \in Nat /\ from \in Nat /\ to \in Nat /\ from <= to /\ d.headIndex \in Nat /\ d.headOffset \in Nat
      /\ d.chunks \in Rows(Byte)
  <2>1. N \in Nat /\ d.headIndex \in Nat /\ d.headOffset \in Nat /\ base[N] \in Nat /\ from \in Nat /\ from <= base[N]
    BY <1>1, CursorIs, ZenonT(30)
  <2> QED
    BY <1>1, <2>1 DEF Chunks
<1>3. d.buffered \in Nat /\ length <= d.buffered
  BY <1>1, <1>2
<1>4. d \in Decoders
  <2> DEFINE a == d.chunks
             b == d.headIndex
             c == d.headOffset
             e == d.buffered
  <2>1. d = [chunks |-> a, headIndex |-> b, headOffset |-> c, buffered |-> e]
    BY <1>27, ZenonT(30)
  <2>2. a \in Rows(Byte) /\ b \in Nat /\ c \in Nat /\ e \in Nat
    BY <1>2, <1>3, ZenonT(30)
  <2> HIDE DEF a, b, c, e
  <2>3. [chunks |-> a, headIndex |-> b, headOffset |-> c, buffered |-> e] \in Decoders
    BY <2>2 DEF Decoders
  <2> QED
    BY <2>1, <2>3, ZenonT(30)
<1>5. consume(d, length) = IF f[N].left # 0 THEN [dec |-> f[N].dec, bytes |-> <<>>, ok |-> FALSE]
        ELSE [dec |-> compact([f[N].dec EXCEPT !.buffered = @ - length]), bytes |-> f[N].bytes, ok |-> TRUE]
  <2>1. ~(length > d.buffered)
    BY <1>3
  <2> QED
    BY <2>1, ZenonT(30) DEF consume
<1>6. x \in D
  <2>1. x.dec = d /\ x.left = length /\ x.bytes = <<>> /\ x \in CopyState(length)
    <3>1. <<>> \in Seq(Byte) /\ length \in 0..length
      OBVIOUS
    <3> QED
      BY <1>4, <3>1 DEF CopyState
  <2>2. from + (length - length) = from
    BY <1>2
  <2>3. Piece(Z, from, from) = <<>>
    BY <1>2, PieceEmpty, ZenonT(30)
  <2> HIDE DEF x
  <2>4. CopyInv(d, base, Z, from, length, x)
    BY <1>1, <2>1, <2>2, <2>3, ZenonT(30) DEF CopyInv
  <2> QED
    BY <2>1, <2>4, ZenonT(30)
<1>7. x.dec.headIndex = d.headIndex
  OBVIOUS
<1> HIDE DEF x, N
<1>8. ASSUME NEW s \in D
      PROVE  /\ CopyChunk(s) \in D
             /\ s.left # 0 /\ s.dec.headIndex < N
                  => CopyChunk(s).left = 0 \/ CopyChunk(s).dec.headIndex = s.dec.headIndex + 1
             /\ s.left = 0 \/ s.dec.headIndex >= N => CopyChunk(s) = s
  <2>1. s \in CopyState(length) /\ CopyInv(d, base, Z, from, length, s)
    OBVIOUS
  <2>2. Chunks(d.chunks, base, Z) /\ from \in Nat
    BY <1>1, <1>2, ZenonT(30)
  <2> HIDE DEF D
  <2>3. /\ CopyChunk(s) \in CopyState(length) /\ CopyInv(d, base, Z, from, length, CopyChunk(s))
        /\ s.left # 0 /\ s.dec.headIndex < Len(d.chunks)
             => CopyChunk(s).left = 0 \/ CopyChunk(s).dec.headIndex = s.dec.headIndex + 1
        /\ s.left = 0 \/ s.dec.headIndex >= Len(d.chunks) => CopyChunk(s) = s
    BY <2>1, <2>2, CopyChunkIs
  <2> QED
    BY <2>3, ZenonT(30) DEF N, D
<1>9. ASSUME NEW n \in 0..(N - 1) PROVE \A s \in D : g[n][s] = CopyChunk(s)
  <2> HIDE DEF D
  <2> QED
    BY ZenonT(30)
<1> HIDE DEF g, D
<1>10. Closed(g, N, D)
  BY <1>8, <1>9, ZenonT(30) DEF Closed
<1>11. PICK p \in [0..N -> D] : Iterates(p, g, N, x)
  BY <1>2, <1>6, <1>10, LoopExists, ZenonT(30)
<1>12. p = F(p)
  <2>1. ASSUME NEW n \in 0..N PROVE p[n] = IF n = 0 THEN x ELSE CopyChunk(p[n - 1])
    <3>1. CASE n = 0
      BY <1>11, <3>1, ZenonT(30) DEF Iterates
    <3>2. CASE n # 0
      <4>1. n - 1 \in 0..(N - 1) /\ (n - 1) + 1 = n /\ n - 1 \in 0..N
        BY <1>2, <3>2
      <4>2. p[(n - 1) + 1] = g[n - 1][p[n - 1]] /\ p[n - 1] \in D
        BY <1>11, <4>1, ZenonT(30) DEF Iterates
      <4>3. g[n - 1][p[n - 1]] = CopyChunk(p[n - 1])
        BY <1>9, <4>1, <4>2, ZenonT(30)
      <4> QED
        BY <3>2, <4>1, <4>2, <4>3, ZenonT(30)
    <3> QED
      BY <3>1, <3>2
  <2>2. p = [n \in 0..N |-> p[n]]
    OBVIOUS
  <2> QED
    BY <2>1, <2>2, ZenonT(30)
<1>13. f = F(f)
  <2> HIDE DEF F
  <2> QED
    BY <1>12, ZenonT(30)
<1> HIDE DEF f
<1>14. \A n \in 0..N : f[n] = IF n = 0 THEN x ELSE CopyChunk(f[n - 1])
  <2>1. \A n \in 0..N : F(f)[n] = IF n = 0 THEN x ELSE CopyChunk(f[n - 1])
    BY ZenonT(30)
  <2> HIDE DEF F
  <2> QED
    BY <1>13, <2>1, ZenonT(30)
<1> DEFINE Fuel(n, s) == s.left = 0 \/ s.dec.headIndex >= N \/ s.dec.headIndex = d.headIndex + n
           T == {n \in 0..N : f[n] \in D /\ Fuel(n, f[n])}
<1>15. 0 \in T
  <2>1. 0 \in 0..N /\ d.headIndex + 0 = d.headIndex
    BY <1>2
  <2> QED
    BY <1>6, <1>7, <1>14, <2>1, ZenonT(30)
<1>16. ASSUME NEW n \in 0..(N - 1), n \in T PROVE n + 1 \in T
  <2>1. n + 1 \in 0..N /\ n + 1 # 0 /\ (n + 1) - 1 = n
    BY <1>2
  <2> DEFINE s == f[n]
             t == f[n + 1]
             i == s.dec.headIndex
  <2>2. s \in D /\ Fuel(n, s) /\ t = CopyChunk(s)
    BY <1>14, <1>16, <2>1, ZenonT(30)
  <2> HIDE DEF s, t
  <2>3. t \in D /\ (s.left # 0 /\ i < N => t.left = 0 \/ t.dec.headIndex = i + 1)
        /\ (s.left = 0 \/ i >= N => t = s)
    BY <1>8, <2>2, ZenonT(30)
  <2>4. i \in Nat
    BY <2>2 DEF D, CopyState, Decoders
  <2>5. s.left = 0 \/ i >= N \/ (s.left # 0 /\ i < N)
    BY <1>2, <2>4
  <2>6. i = d.headIndex + n => i + 1 = d.headIndex + (n + 1)
    BY <1>2
  <2>7. i < N => ~(i >= N)
    BY <1>2, <2>4
  <2>8. Fuel(n + 1, t)
    BY <2>2, <2>3, <2>5, <2>6, <2>7, ZenonT(30)
  <2> HIDE DEF Fuel
  <2> QED
    BY <2>1, <2>3, <2>8, ZenonT(30) DEF t
<1>17. N \in T
  <2> HIDE DEF T
  <2>1. \A n \in 0..N : n \in T
    BY <1>2, <1>15, <1>16, UpTo, ZenonT(30)
  <2>2. N \in 0..N
    BY <1>2
  <2> QED
    BY <2>1, <2>2, ZenonT(30)
<1> DEFINE s == f[N]
           e == s.dec
           pos == from + (length - s.left)
<1>18. s \in CopyState(length) /\ Fuel(N, s)
  BY <1>17, ZenonT(30) DEF D
<1>19. e.chunks = d.chunks /\ e.buffered = d.buffered /\ Cursor(d.chunks, base, e.headIndex, e.headOffset, pos)
       /\ s.bytes = Piece(Z, from, pos)
  BY <1>17, ZenonT(30) DEF D, CopyInv
<1> HIDE DEF s, pos
<1>20. s.left \in 0..length /\ e.headIndex \in Nat /\ e \in Decoders
  BY <1>18 DEF CopyState, Decoders
<1>21. s.left = 0
  <2> SUFFICES ASSUME s.left # 0 PROVE FALSE
    OBVIOUS
  <2>1. e.headIndex >= N
    BY <1>2, <1>18, <1>20
  <2>6. pos < from + length
    BY <1>2, <1>20 DEF pos
  <2>3. e.headIndex \in 0..N
    BY <1>19, ZenonT(30) DEF Cursor, N
  <2>4. e.headIndex = N
    BY <1>2, <2>1, <2>3
  <2>5. pos = base[Len(d.chunks)] /\ pos \in Nat
    <3> DEFINE cs == d.chunks
               index == e.headIndex
               offset == e.headOffset
    <3>1. Chunks(cs, base, Z) /\ Cursor(cs, base, index, offset, pos) /\ index = Len(cs)
      BY <1>1, <1>19, <2>4, ZenonT(30) DEF N
    <3> HIDE DEF cs, index, offset
    <3>2. pos \in Nat /\ (index = Len(cs) <=> pos = base[Len(cs)])
      BY <3>1, CursorIs, ZenonT(30)
    <3> QED
      BY <3>1, <3>2, ZenonT(30) DEF cs
  <2>7. pos = to
    BY <1>1, <2>5, ZenonT(30) DEF N
  <2> QED
    BY <1>2, <2>6, <2>7
<1>22. pos = from + length
  BY <1>2, <1>21 DEF pos
<1> DEFINE rest == [e EXCEPT !.buffered = @ - length]
<1>23. HoldsAt(rest, base, Z, pos, to)
  <2>1. rest.chunks = e.chunks /\ rest.headIndex = e.headIndex /\ rest.headOffset = e.headOffset
        /\ rest.buffered = e.buffered - length
        /\ rest = [chunks |-> rest.chunks, headIndex |-> rest.headIndex, headOffset |-> rest.headOffset,
                   buffered |-> rest.buffered]
    BY <1>20 DEF Decoders
  <2>2. d.buffered - length = to - pos
    BY <1>1, <1>2, <1>22
  <2> HIDE DEF rest, e
  <2>3. base[Len(d.chunks)] = to
    BY <1>1, ZenonT(30) DEF N
  <2> QED
    BY <1>1, <1>19, <2>1, <2>2, <2>3, ZenonT(30) DEF HoldsAt
<1> DEFINE c == compact(rest)
<1>24. Holds(c, Z, pos, to)
  <2> HIDE DEF rest
  <2> QED
    BY <1>23, CompactIs, ZenonT(30) DEF Holds
<1>25. consume(d, length) = [dec |-> c, bytes |-> s.bytes, ok |-> TRUE]
  BY <1>5, <1>21, ZenonT(30) DEF s
<1> HIDE DEF c
<1>26. consume(d, length).dec = c /\ consume(d, length).bytes = s.bytes /\ consume(d, length).ok
  BY <1>25
<1> QED
  BY <1>19, <1>22, <1>24, <1>26, ZenonT(30)

-------------------------------------------------------------------------------
(* A record on the wire: the digits of its length, and the payload.        *)
LEMMA EncodeFrameIs ==
  ASSUME NEW p \in Seq(Byte), Len(p) < Weight[LengthBytes]
  PROVE  /\ EncodeFrame(p) \in Seq(Byte) /\ Len(EncodeFrame(p)) = LengthBytes + Len(p)
         /\ \A j \in 1..LengthBytes : EncodeFrame(p)[j] = Digit(Len(p), j)
         /\ Piece(EncodeFrame(p), LengthBytes, LengthBytes + Len(p)) = p
<1> DEFINE h == [i \in 1..LengthBytes |-> (Len(p) \div Weight[LengthBytes - i]) % 256]
<1>0. LengthBytes \in Nat /\ Len(p) \in Nat
  BY FrameAssumption, LenProperties
<1>1. EncodeFrame(p) = h \o p
  BY ZenonT(30) DEF EncodeFrame
<1>2. \A j \in 1..LengthBytes : h[j] = Digit(Len(p), j)
  BY ZenonT(30) DEF Digit
<1>3. \A j \in 1..LengthBytes : Digit(Len(p), j) \in Byte
  BY <1>0, LeadingIs, ZenonT(30)
<1>4. h \in [1..LengthBytes -> Byte]
  <2>1. \A j \in 1..LengthBytes : (Len(p) \div Weight[LengthBytes - j]) % 256 \in Byte
    BY <1>3, ZenonT(30) DEF Digit
  <2> QED
    BY <2>1, ZenonT(30)
<1> HIDE DEF h
<1>5. h \in Seq(Byte) /\ Len(h) = LengthBytes
  <2>1. h \in Seq(Byte) /\ DOMAIN h = 1..LengthBytes
    BY <1>0, <1>4, SeqDef
  <2>2. Len(h) \in Nat /\ DOMAIN h = 1..Len(h)
    BY <2>1, LenProperties
  <2> QED
    BY <1>0, <2>1, <2>2
<1> DEFINE y == h \o p
<1>6. /\ y \in Seq(Byte) /\ Len(y) = Len(h) + Len(p)
      /\ Piece(y, Len(h), Len(h) + Len(p)) = p
  BY <1>5, PieceOfLonger
<1>7. ASSUME NEW j \in 1..LengthBytes PROVE y[j] = h[j]
  <2>1. j \in 1..(Len(h) + Len(p)) /\ j <= Len(h)
    BY <1>0, <1>5
  <2> HIDE DEF y
  <2>2. \A i \in 1..(Len(h) + Len(p)) : y[i] = IF i <= Len(h) THEN h[i] ELSE p[i - Len(h)]
    BY <1>5, ConcatProperties DEF y
  <2> QED
    BY <2>1, <2>2
<1> QED
  BY <1>1, <1>2, <1>5, <1>6, <1>7, ZenonT(30)

(* The records of some payloads, and the stream Z that they fill: b[k] is  *)
(* where the first k of them end.                                          *)
Encoded(ps) == [k \in 1..Len(ps) |-> EncodeFrame(ps[k])]
Sendable(ps) == ps \in Rows(Byte) /\ \A k \in 1..Len(ps) : Len(ps[k]) < Weight[LengthBytes]
Stream(ps, b, Z) == Sendable(ps) /\ Z \in Seq(Byte) /\ Fills(Encoded(ps), b, Z)

(* What EncodeFrame makes of each payload is a row of bytes.               *)
LEMMA EncodedIs ==
  ASSUME NEW ps, Sendable(ps)
  PROVE  /\ Encoded(ps) \in Rows(Byte) /\ Len(Encoded(ps)) = Len(ps) /\ Len(ps) \in Nat
         /\ \A k \in 1..Len(ps) : Encoded(ps)[k] = EncodeFrame(ps[k])
<1> DEFINE N == Len(ps)
           e == Encoded(ps)
<1>1. N \in Nat /\ \A k \in 1..N : ps[k] \in Seq(Byte) /\ Len(ps[k]) < Weight[LengthBytes]
  BY RowFacts DEF Sendable
<1>2. \A k \in 1..N : e[k] = EncodeFrame(ps[k])
  BY ZenonT(30) DEF Encoded
<1>3. e \in [1..N -> Seq(Byte)]
  <2>1. \A k \in 1..N : EncodeFrame(ps[k]) \in Seq(Byte)
    BY <1>1, EncodeFrameIs, ZenonT(30)
  <2> QED
    BY <2>1, ZenonT(30) DEF Encoded
<1> HIDE DEF e, N
<1>4. e \in Seq(Seq(Byte)) /\ DOMAIN e = 1..N
  BY <1>1, <1>3, SeqDef
<1>5. Len(e) \in Nat /\ DOMAIN e = 1..Len(e)
  BY <1>4, LenProperties
<1>6. Len(e) = N
  BY <1>1, <1>4, <1>5
<1> QED
  BY <1>1, <1>2, <1>4, <1>6, ZenonT(30) DEF e, N, Rows

(* The record behind the first k: its prefix holds the length of its       *)
(* payload, and the payload follows.                                       *)
FrameAt(ps, b, Z, k) ==
  /\ b[k] \in Nat /\ b[k + 1] \in 0..Len(Z) /\ Len(ps[k + 1]) \in Nat
  /\ b[k + 1] = (b[k] + LengthBytes) + Len(ps[k + 1])
  /\ Prefixed(Z, b[k], Len(ps[k + 1])) /\ Piece(Z, b[k] + LengthBytes, b[k + 1]) = ps[k + 1]

(* Every payload of a stream has its record in it.                         *)
LEMMA StreamIs ==
  ASSUME NEW ps, NEW b, NEW Z, Stream(ps, b, Z)
  PROVE  /\ Len(ps) \in Nat /\ Len(Z) \in Nat /\ b[0] = 0 /\ b[Len(ps)] = Len(Z)
         /\ \A k \in 0..Len(ps) : b[k] \in 0..Len(Z)
         /\ \A k \in 0..(Len(ps) - 1) : FrameAt(ps, b, Z, k)
<1> DEFINE N == Len(ps)
           e == Encoded(ps)
<1>1. N \in Nat /\ e \in Rows(Byte) /\ Len(e) = N /\ \A k \in 1..N : e[k] = EncodeFrame(ps[k])
  BY EncodedIs, ZenonT(30) DEF Stream
<1>2. Z \in Seq(Byte) /\ Lay(e, b, Z) /\ b[0] = 0 /\ b[Len(e)] = Len(Z)
  BY ZenonT(30) DEF Stream, Fills
<1>3. \A k \in 1..N : ps[k] \in Seq(Byte) /\ Len(ps[k]) < Weight[LengthBytes]
  BY RowFacts DEF Stream, Sendable
<1> HIDE DEF e, N
<1>4. Len(Z) \in Nat /\ (\A k \in 0..N : b[k] \in 0..Len(Z))
      /\ \A k \in 1..N : b[k - 1] \in 0..b[k] /\ b[k] = b[k - 1] + Len(e[k])
  BY <1>1, <1>2, LayOrder, ZenonT(30)
<1>5. \A k \in 1..N : e[k] = Piece(Z, b[k - 1], b[k])
  BY <1>1, <1>2, ZenonT(30) DEF Lay
<1>6. ASSUME NEW k \in 0..(N - 1) PROVE FrameAt(ps, b, Z, k)
  <2> DEFINE x == b[k]
             y == b[k + 1]
             p == ps[k + 1]
             L == Len(p)
             f == EncodeFrame(p)
             B == LengthBytes
  <2>1. k + 1 \in 1..N /\ k + 1 \in 0..N /\ (k + 1) - 1 = k /\ k \in 0..N
    BY <1>1
  <2>2. p \in Seq(Byte) /\ L < Weight[LengthBytes]
    BY <1>3, <2>1, ZenonT(30)
  <2>3. L \in Nat
    BY <2>2, LenProperties
  <2>4. f \in Seq(Byte) /\ Len(f) = B + L /\ (\A j \in 1..B : f[j] = Digit(L, j)) /\ Piece(f, B, B + L) = p
    BY <2>2, EncodeFrameIs, ZenonT(30)
  <2>5. f = Piece(Z, x, y) /\ y = x + Len(f) /\ x \in 0..y /\ y \in 0..Len(Z) /\ x \in 0..Len(Z)
    BY <1>1, <1>4, <1>5, <2>1, ZenonT(30)
  <2>9. B \in Nat
    BY FrameAssumption
  <2> HIDE DEF f, L, x, y, B
  <2>6. x \in Nat /\ y = (x + B) + L /\ y - x = B + L /\ x + B <= Len(Z)
    <3> DEFINE z == Len(Z)
               w == Len(f)
    <3>1. y = x + w /\ w = B + L /\ x \in 0..y /\ y \in 0..z /\ z \in Nat
      BY <1>4, <2>4, <2>5, ZenonT(30)
    <3> HIDE DEF z, w
    <3>2. x \in Nat /\ y = (x + B) + L /\ y - x = B + L /\ x + B <= z
      BY <2>3, <2>9, <3>1
    <3> QED
      BY <3>2, ZenonT(30) DEF z
  <2>7. ASSUME NEW j \in 1..B PROVE Z[x + j] = Digit(L, j)
    <3>1. j \in 1..(y - x)
      BY <2>3, <2>6, <2>9
    <3>2. \A i \in 1..(y - x) : Piece(Z, x, y)[i] = Z[x + i]
      BY <1>2, <2>5, PieceFacts, ZenonT(30)
    <3> QED
      BY <2>4, <2>5, <3>1, <3>2, ZenonT(30)
  <2>8. Piece(Z, x + B, y) = p
    <3> DEFINE m == B + L
    <3>1. m \in 0..(y - x) /\ B \in 0..m /\ x + m = y
      BY <2>3, <2>6, <2>9
    <3> HIDE DEF m
    <3>2. Piece(Piece(Z, x, y), B, m) = Piece(Z, x + B, x + m)
      BY <1>2, <2>5, <3>1, PieceOfPiece, ZenonT(30)
    <3> QED
      BY <2>4, <2>5, <3>1, <3>2, ZenonT(30) DEF m
  <2>10. Prefixed(Z, x, L)
    BY <2>2, <2>3, <2>6, <2>7, ZenonT(30) DEF Prefixed, B
  <2> QED
    BY <2>3, <2>5, <2>6, <2>8, <2>10, ZenonT(30) DEF FrameAt, x, y, L, B
<1> QED
  BY <1>1, <1>2, <1>4, <1>6, ZenonT(30) DEF N

-------------------------------------------------------------------------------
(* Push retains the next chunk of the stream.                              *)
LEMMA RetainedIs ==
  ASSUME NEW d, NEW Z, NEW from, NEW to, Holds(d, Z, from, to), NEW end \in 0..Len(Z), to <= end
  PROVE  Holds(Retained(d, Piece(Z, to, end)), Z, from, end)
<1>0. PICK base : HoldsAt(d, base, Z, from, to)
  BY DEF Holds
<1> DEFINE cs == d.chunks
           N == Len(cs)
           c == Piece(Z, to, end)
           ds == Append(cs, c)
           up == Longer(base, N, end)
           index == d.headIndex
           offset == d.headOffset
           buffered == d.buffered
<1>1. Chunks(cs, base, Z) /\ Cursor(cs, base, index, offset, from) /\ base[N] = to /\ buffered = to - from
  BY <1>0 DEF HoldsAt
<1>2. cs \in Rows(Byte) /\ Z \in Seq(Byte) /\ Lay(cs, base, Z) /\ \A i \in 1..N : Len(cs[i]) > 0
  BY <1>1 DEF Chunks
<1>3. d = Decoder(cs, index, offset, buffered)
  BY <1>0, ZenonT(30) DEF HoldsAt, Decoder
<1> HIDE DEF cs, index, offset, buffered
<1>4. N \in Nat /\ from \in Nat /\ to \in Nat /\ from <= to /\ Len(Z) \in Nat /\ to <= Len(Z)
  <2>1. N \in Nat /\ base[N] \in Nat /\ from \in Nat /\ from <= base[N] /\ Len(Z) \in Nat /\ base[N] <= Len(Z)
    BY <1>1, CursorIs, ZenonT(30)
  <2> QED
    BY <1>1, <2>1, ZenonT(30)
<1>5. to \in 0..end /\ end \in Nat
  BY <1>4
<1>6. c \in Seq(Byte) /\ Len(c) = end - to
  BY <1>2, <1>5, PieceFacts, ZenonT(30)
<1>7. CASE to = end
  <2>1. c = <<>>
    BY <1>4, <1>7, PieceEmpty, ZenonT(30)
  <2>2. Retained(d, c) = d
    BY <2>1, ZenonT(30) DEF Retained
  <2> QED
    BY <1>7, <2>2, ZenonT(30)
<1>8. CASE to # end
  <2>1. Len(c) > 0 /\ Len(c) \in Nat
    BY <1>4, <1>5, <1>6, <1>8
  <2>2. c # <<>>
    <3>1. Len(<<>>) = 0
      OBVIOUS
    <3> HIDE DEF c
    <3> QED
      BY <2>1, <3>1
  <2>3. Retained(d, c) = [d EXCEPT !.chunks = Append(@, c), !.buffered = @ + Len(c)]
    BY <2>2, ZenonT(30) DEF Retained
  <2> HIDE DEF c
  <2>4. Retained(d, c) = Decoder(ds, index, offset, buffered + Len(c))
    <3>1. [d EXCEPT !.chunks = Append(@, c)] = Decoder(ds, index, offset, buffered)
      BY <1>3 DEF Decoder
    <3>2. [Decoder(ds, index, offset, buffered) EXCEPT !.buffered = @ + Len(c)] = Decoder(ds, index, offset, buffered + Len(c))
      BY DEF Decoder
    <3> DEFINE x == [d EXCEPT !.chunks = Append(@, c)]
    <3>3. Retained(d, c) = [x EXCEPT !.buffered = d.buffered + Len(c)]
      BY <2>3, ZenonT(30)
    <3>4. d.buffered = buffered
      BY DEF buffered
    <3>5. [Decoder(ds, index, offset, buffered) EXCEPT !.buffered = buffered + Len(c)] = Decoder(ds, index, offset, buffered + Len(c))
      BY DEF Decoder
    <3> HIDE DEF x
    <3> QED
      BY <3>1, <3>3, <3>4, <3>5, ZenonT(30) DEF x
  <2>5. ds \in Rows(Byte) /\ Len(ds) = N + 1 /\ ds[N + 1] = c /\ \A i \in 1..N : ds[i] = cs[i]
    BY <1>2, <1>6, RowAppend
  <2>6. Lay(ds, up, Z) /\ up[N + 1] = end /\ \A i \in 0..N : up[i] = base[i]
    <3>1. base[Len(cs)] <= end
      BY <1>1, <1>4, <1>5
    <3>2. Lay(Append(cs, Piece(Z, base[Len(cs)], end)), up, Z) /\ up[N + 1] = end /\ \A i \in 0..N : up[i] = base[i]
      BY <1>2, <3>1, LayAppend
    <3> QED
      BY <1>1, <3>2, ZenonT(30) DEF c
  <2> HIDE DEF ds, up
  <2>7. \A i \in 1..(N + 1) : Len(ds[i]) > 0
    <3>1. \A i \in 1..(N + 1) : i \in 1..N \/ i = N + 1
      BY <1>4
    <3> QED
      BY <1>2, <2>1, <2>5, <3>1, ZenonT(30)
  <2>8. Chunks(ds, up, Z)
    BY <1>2, <2>5, <2>6, <2>7, ZenonT(30) DEF Chunks
  <2>9. Cursor(ds, up, index, offset, from)
    <3>1. index \in 0..N /\ offset \in Nat /\ from = base[index] + offset
          /\ (index = N => offset = 0) /\ (index # N => offset < Len(cs[index + 1]))
      BY <1>1, ZenonT(30) DEF Cursor
    <3>2. index \in 0..(N + 1) /\ index # N + 1 /\ (index # N => index + 1 \in 1..N)
      BY <1>4, <3>1
    <3>3. up[index] = base[index] /\ (index # N => ds[index + 1] = cs[index + 1]) /\ (index = N => ds[index + 1] = c)
      BY <2>5, <2>6, <3>1, <3>2, ZenonT(30)
    <3>4. offset < Len(ds[index + 1])
      <4>1. CASE index = N
        BY <2>1, <3>1, <3>3, <4>1
      <4>2. CASE index # N
        BY <3>1, <3>3, <4>2, ZenonT(30)
      <4> QED
        BY <4>1, <4>2
    <3> QED
      BY <2>5, <3>1, <3>2, <3>3, <3>4, ZenonT(30) DEF Cursor
  <2> DEFINE r == Decoder(ds, index, offset, buffered + Len(c))
  <2>10. r.chunks = ds /\ r.headIndex = index /\ r.headOffset = offset /\ r.buffered = buffered + Len(c)
         /\ r = [chunks |-> r.chunks, headIndex |-> r.headIndex, headOffset |-> r.headOffset, buffered |-> r.buffered]
    BY DEF Decoder
  <2>11. buffered + Len(c) = end - from
    BY <1>1, <1>4, <1>5, <1>6 DEF c
  <2> HIDE DEF r
  <2>12. HoldsAt(r, up, Z, from, end)
    BY <2>5, <2>6, <2>8, <2>9, <2>10, <2>11, ZenonT(30) DEF HoldsAt
  <2>13. Kept(r)
    <3>1. index < CompactAt \/ 2 * index < N
      BY ZenonT(30) DEF Holds, Kept, index, cs
    <3>2. index \in Nat
      BY <1>1, CursorIs, ZenonT(30)
    <3>3. index < CompactAt \/ 2 * index < N + 1
      BY <1>4, <3>1, <3>2, FrameAssumption
    <3> QED
      BY <2>5, <2>10, <3>3, ZenonT(30) DEF Kept
  <2> QED
    BY <2>4, <2>12, <2>13, ZenonT(30) DEF Holds, r, c
<1> QED
  BY <1>7, <1>8

(* What Push comes to, when the first k records had been taken before: it  *)
(* returns those that are complete at the position to, or stops at one     *)
(* that is over the limit.                                                 *)
Small(ps, k, m) == \A i \in (k + 1)..m : Fits(ps[i])
Waits(ps, b, to, m) == m < Len(ps) => to < b[m + 1] /\ (~Fits(ps[m + 1]) => to < b[m] + LengthBytes)
Stuck(ps, b, to, m) == m < Len(ps) /\ ~Fits(ps[m + 1]) /\ b[m] + LengthBytes <= to
Comes(ps, b, to, k, m, err, payloads) ==
  \/ err = 0 /\ payloads = Piece(ps, k, m) /\ Waits(ps, b, to, m)
  \/ err = TooLarge /\ payloads = <<>> /\ Stuck(ps, b, to, m)
PushedTo(ps, b, Z, to, k, m, s) ==
  Holds(s.dec, Z, b[m], to) /\ Small(ps, k, m) /\ Comes(ps, b, to, k, m, s.err, s.payloads)
Pushed(ps, b, Z, to, k, s) == \E m \in k..Len(ps) : PushedTo(ps, b, Z, to, k, m, s)

(* The loop of Push in its rounds.                                         *)
DrainState == [dec : Decoders, payloads : Rows(Byte), err : {0, TooLarge}, done : BOOLEAN]
DrainingTo(ps, b, Z, to, k, m, s) ==
  s.err = 0 /\ s.payloads = Piece(ps, k, m) /\ Holds(s.dec, Z, b[m], to) /\ Small(ps, k, m)
Draining(ps, b, Z, to, k, s) == \E m \in k..Len(ps) : DrainingTo(ps, b, Z, to, k, m, s)
DrainInv(ps, b, Z, to, k, s) ==
  IF s.done THEN Pushed(ps, b, Z, to, k, s) ELSE Draining(ps, b, Z, to, k, s)

(* A decoder that holds a part of the stream is a decoder.                 *)
LEMMA HoldsIs ==
  ASSUME NEW d, NEW Z, NEW from, NEW to, Holds(d, Z, from, to)
  PROVE  /\ d \in Decoders /\ d.buffered = to - from /\ from \in Nat /\ to \in Nat /\ from <= to /\ to <= Len(Z)
         /\ Z \in Seq(Byte) /\ Len(Z) \in Nat
<1>0. PICK base : HoldsAt(d, base, Z, from, to)
  BY DEF Holds
<1> DEFINE cs == d.chunks
           index == d.headIndex
           offset == d.headOffset
           buffered == d.buffered
<1>1. Chunks(cs, base, Z) /\ Cursor(cs, base, index, offset, from) /\ base[Len(cs)] = to /\ buffered = to - from
  BY <1>0 DEF HoldsAt
<1>2. d = Decoder(cs, index, offset, buffered)
  BY <1>0, ZenonT(30) DEF HoldsAt, Decoder
<1>3. d.buffered = buffered
  OBVIOUS
<1> HIDE DEF cs, index, offset, buffered
<1>4. cs \in Rows(Byte) /\ Z \in Seq(Byte)
  BY <1>1 DEF Chunks
<1>5. index \in Nat /\ offset \in Nat /\ from \in Nat /\ Len(Z) \in Nat
      /\ base[Len(cs)] \in Nat /\ from <= base[Len(cs)] /\ base[Len(cs)] <= Len(Z)
  BY <1>1, CursorIs, ZenonT(30)
<1>6. to \in Nat /\ from <= to /\ to <= Len(Z)
  BY <1>1, <1>5, ZenonT(30)
<1>7. buffered \in Nat
  BY <1>1, <1>5, <1>6
<1>8. Decoder(cs, index, offset, buffered) \in Decoders
  BY <1>4, <1>5, <1>7 DEF Decoder, Decoders
<1> QED
  BY <1>1, <1>2, <1>3, <1>4, <1>5, <1>6, <1>8, ZenonT(30)

(* The return of Push.                                                     *)
LEMMA DrainedIs ==
  ASSUME NEW d \in Decoders, NEW payloads \in Rows(Byte), NEW err \in {0, TooLarge}
  PROVE  /\ Drained(d, payloads, err) \in DrainState
         /\ Drained(d, payloads, err).dec = d /\ Drained(d, payloads, err).err = err /\ Drained(d, payloads, err).done
         /\ err = 0 => Drained(d, payloads, err).payloads = payloads
         /\ err = TooLarge => Drained(d, payloads, err).payloads = <<>>
<1> DEFINE p == IF err = 0 THEN payloads ELSE <<>>
           r == [dec |-> d, payloads |-> p, err |-> err, done |-> TRUE]
<1>0. TooLarge # 0
  BY DEF TooLarge
<1>1. p \in Rows(Byte)
  BY FillsNone, ZenonT(30)
<1>2. (err = 0 => p = payloads) /\ (err = TooLarge => p = <<>>)
  BY <1>0, ZenonT(30)
<1> HIDE DEF p
<1>3. r.dec = d /\ r.payloads = p /\ r.err = err /\ r.done = TRUE
  OBVIOUS
<1>4. r \in DrainState
  BY <1>1, ZenonT(30) DEF DrainState
<1>5. Drained(d, payloads, err) = r
  BY ZenonT(30) DEF Drained, p
<1> HIDE DEF r
<1> QED
  BY <1>2, <1>3, <1>4, <1>5, ZenonT(30)

(* A round of Push: a return that is as it should be, or one more payload. *)
LEMMA DrainFrameIs ==
  ASSUME NEW ps, NEW b, NEW Z, Stream(ps, b, Z), NEW k \in Nat, NEW to, NEW m \in k..Len(ps),
         NEW s \in DrainState, ~s.done, DrainingTo(ps, b, Z, to, k, m, s)
  PROVE  /\ DrainFrame(s) \in DrainState /\ DrainInv(ps, b, Z, to, k, DrainFrame(s))
         /\ DrainFrame(s).done \/ DrainFrame(s).dec.buffered < s.dec.buffered
<1> DEFINE N == Len(ps)
           B == LengthBytes
           d == s.dec
           from == b[m]
           t == DrainFrame(s)
<1>1. N \in Nat /\ Len(Z) \in Nat /\ b[N] = Len(Z) /\ (\A i \in 0..N : b[i] \in 0..Len(Z))
      /\ \A i \in 0..(N - 1) : FrameAt(ps, b, Z, i)
  BY StreamIs, ZenonT(30)
<1>2. B \in Nat \ {0} /\ ps \in Rows(Byte) /\ m \in 0..N /\ m \in Nat /\ Z \in Seq(Byte)
  <2>1. B \in Nat \ {0} /\ ps \in Rows(Byte) /\ Z \in Seq(Byte)
    BY FrameAssumption DEF Stream, Sendable
  <2> QED
    BY <1>1, <2>1
<1>3. s.err = 0 /\ s.payloads = Piece(ps, k, m) /\ Holds(d, Z, from, to) /\ Small(ps, k, m)
  BY ZenonT(30) DEF DrainingTo
<1>4. d \in Decoders /\ d.buffered = to - from /\ from \in Nat /\ to \in Nat /\ from <= to /\ to <= Len(Z)
  <2>1. Holds(d, Z, from, to)
    BY <1>3
  <2> HIDE DEF d, from
  <2> QED
    BY <2>1, HoldsIs
<1>5. s.payloads \in Rows(Byte)
  BY DEF DrainState
<1> HIDE DEF N, B, from
<1>6. ASSUME NEW err \in {0, TooLarge}, t = Drained(d, s.payloads, err),
             err = 0 => Waits(ps, b, to, m), err = TooLarge => Stuck(ps, b, to, m)
      PROVE  t \in DrainState /\ DrainInv(ps, b, Z, to, k, t) /\ t.done
  <2> HIDE DEF t, d
  <2>1. t \in DrainState /\ t.dec = d /\ t.err = err /\ t.done
        /\ (err = 0 => t.payloads = s.payloads) /\ (err = TooLarge => t.payloads = <<>>)
    <3> DEFINE pl == s.payloads
    <3> HIDE DEF pl
    <3>1. d \in Decoders /\ pl \in Rows(Byte) /\ t = Drained(d, pl, err)
      BY <1>4, <1>5, <1>6, ZenonT(30) DEF pl
    <3>2. t \in DrainState /\ t.dec = d /\ t.err = err /\ t.done
          /\ (err = 0 => t.payloads = pl) /\ (err = TooLarge => t.payloads = <<>>)
      BY <3>1, DrainedIs
    <3> QED
      BY <3>2, ZenonT(30) DEF pl
  <2>2. Comes(ps, b, to, k, m, t.err, t.payloads)
    BY <1>3, <1>6, <2>1, ZenonT(30) DEF Comes
  <2>3. PushedTo(ps, b, Z, to, k, m, t)
    BY <1>3, <2>1, <2>2, ZenonT(30) DEF PushedTo, from
  <2>4. DrainInv(ps, b, Z, to, k, t)
    BY <2>1, <2>3, ZenonT(30) DEF DrainInv, Pushed
  <2> QED
    BY <2>1, <2>4, ZenonT(30)
<1>7. CASE d.buffered < B
  <2>1. t = Drained(d, s.payloads, 0)
    BY <1>7, ZenonT(30) DEF DrainFrame, B
  <2>2. Waits(ps, b, to, m)
    <3> SUFFICES ASSUME m < N PROVE to < b[m + 1] /\ to < b[m] + LengthBytes
      BY ZenonT(30) DEF Waits, N
    <3>1. m \in 0..(N - 1)
      BY <1>1, <1>2
    <3>2. b[m + 1] = (from + B) + Len(ps[m + 1]) /\ Len(ps[m + 1]) \in Nat
      BY <1>1, <3>1, ZenonT(30) DEF FrameAt, from, B
    <3>3. to < from + B
      BY <1>2, <1>4, <1>7
    <3>4. to < b[m + 1]
      <4> DEFINE next == b[m + 1]
                 L == Len(ps[m + 1])
      <4>1. next = (from + B) + L /\ L \in Nat /\ from \in Nat /\ B \in Nat /\ to \in Nat
        BY <1>2, <1>4, <3>2
      <4> HIDE DEF next, L
      <4>2. to < next
        BY <3>3, <4>1
      <4> QED
        BY <4>2 DEF next
    <3> QED
      BY <3>3, <3>4, ZenonT(30) DEF from, B
  <2>3. TooLarge # 0
    BY DEF TooLarge
  <2> HIDE DEF t, d
  <2>4. t \in DrainState /\ DrainInv(ps, b, Z, to, k, t) /\ t.done
    BY <1>6, <2>1, <2>2, <2>3, ZenonT(30)
  <2> QED
    BY <2>4, ZenonT(30) DEF t
<1>8. CASE ~(d.buffered < B)
  <2> DEFINE p == ps[m + 1]
             L == Len(p)
             next == b[m + 1]
  <2>1. from + B <= to
    BY <1>2, <1>4, <1>8
  <2>2. m < N /\ m \in 0..(N - 1)
    <3>1. m # N
      <4> SUFFICES ASSUME m = N PROVE FALSE
        OBVIOUS
      <4>1. from = Len(Z)
        BY <1>1, ZenonT(30) DEF from
      <4> QED
        BY <1>1, <1>2, <1>4, <2>1, <4>1
    <3> QED
      BY <1>1, <1>2, <3>1
  <2>3. next \in 0..Len(Z) /\ L \in Nat /\ next = (from + B) + L /\ Prefixed(Z, from, L) /\ Piece(Z, from + B, next) = p
    BY <1>1, <2>2, ZenonT(30) DEF FrameAt, from, B
  <2>4. peekPayloadLength(d) = L
    <3>1. PICK base : HoldsAt(d, base, Z, from, to)
      BY <1>3, ZenonT(30) DEF Holds
    <3> HIDE DEF d, L
    <3> QED
      BY <2>1, <2>3, <3>1, PeekIs, ZenonT(30) DEF B
  <2>5. L # Inconsistent
    <3> HIDE DEF L
    <3> QED
      BY <2>3 DEF Inconsistent
  <2> HIDE DEF L, next, p
  <2> DEFINE prefix == consume(d, B)
             body == consume(prefix.dec, L)
             more == [dec |-> body.dec, payloads |-> Append(s.payloads, body.bytes), err |-> 0, done |-> FALSE]
  <2>6. t = IF Oversized(L) THEN Drained(d, s.payloads, TooLarge)
            ELSE IF Incomplete(d, L) THEN Drained(d, s.payloads, 0)
            ELSE IF prefix.ok /\ body.ok THEN more
            ELSE Drained(IF prefix.ok THEN body.dec ELSE prefix.dec, s.payloads, Inconsistent)
    BY <1>8, <2>4, <2>5, ZenonT(30) DEF DrainFrame, B
  <2>7. Fits(ps[m + 1]) <=> ~Oversized(L)
    <3>1. MaxPayload \in Nat
      BY FrameAssumption
    <3>2. (L <= MaxPayload) <=> ~(L > MaxPayload)
      BY <2>3, <3>1
    <3> QED
      BY <3>2, ZenonT(30) DEF Fits, Oversized, L, p
  <2>8. CASE Oversized(L)
    <3>1. t = Drained(d, s.payloads, TooLarge) /\ TooLarge # 0
      BY <2>6, <2>8 DEF TooLarge
    <3>2. Stuck(ps, b, to, m)
      BY <2>1, <2>2, <2>7, <2>8, ZenonT(30) DEF Stuck, N, B, from
    <3> HIDE DEF t, d
    <3>3. t \in DrainState /\ DrainInv(ps, b, Z, to, k, t) /\ t.done
      BY <1>6, <3>1, <3>2, ZenonT(30)
    <3> QED
      BY <3>3, ZenonT(30) DEF t
  <2>9. CASE ~Oversized(L) /\ Incomplete(d, L)
    <3>1. t = Drained(d, s.payloads, 0)
      BY <2>6, <2>9, ZenonT(30)
    <3>2. to < next
      <4>1. d.buffered < B + L
        BY <2>9, ZenonT(30) DEF Incomplete, B
      <4> QED
        BY <1>2, <1>4, <2>3, <4>1
    <3>3. Waits(ps, b, to, m)
      BY <2>7, <2>9, <3>2, ZenonT(30) DEF Waits, next
    <3>4. TooLarge # 0
      BY DEF TooLarge
    <3> HIDE DEF t, d
    <3>5. t \in DrainState /\ DrainInv(ps, b, Z, to, k, t) /\ t.done
      BY <1>6, <3>1, <3>3, <3>4, ZenonT(30)
    <3> QED
      BY <3>5, ZenonT(30) DEF t
  <2>10. CASE ~Oversized(L) /\ ~Incomplete(d, L)
    <3>1. next <= to
      <4>1. ~(d.buffered < B + L)
        BY <2>10, ZenonT(30) DEF Incomplete, B
      <4> QED
        BY <1>2, <1>4, <2>3, <4>1
    <3> DEFINE mid == from + B
    <3>2. B \in Nat
      BY <1>2
    <3>3. prefix.ok /\ Holds(prefix.dec, Z, mid, to)
      <4>1. \E base : HoldsAt(d, base, Z, from, to)
        BY <1>3, ZenonT(30) DEF Holds
      <4> HIDE DEF d
      <4> QED
        BY <2>1, <3>2, <4>1, ConsumeIs, ZenonT(30)
    <3> HIDE DEF prefix, mid
    <3>4. mid + L = next /\ mid + L <= to
      BY <2>3, <3>1, ZenonT(30) DEF mid
    <3>5. body.ok /\ body.bytes = Piece(Z, mid, mid + L) /\ Holds(body.dec, Z, mid + L, to)
      <4>1. \E base : HoldsAt(prefix.dec, base, Z, mid, to)
        BY <3>3, ZenonT(30) DEF Holds
      <4> DEFINE pd == prefix.dec
      <4> HIDE DEF pd
      <4>2. consume(pd, L).ok /\ consume(pd, L).bytes = Piece(Z, mid, mid + L) /\ Holds(consume(pd, L).dec, Z, mid + L, to)
        BY <2>3, <3>4, <4>1, ConsumeIs, ZenonT(30) DEF pd
      <4> QED
        BY <4>2, ZenonT(30) DEF pd
    <3> HIDE DEF body
    <3>6. body.bytes = p /\ Holds(body.dec, Z, next, to)
      BY <2>3, <3>4, <3>5, ZenonT(30) DEF mid
    <3>7. body.dec \in Decoders /\ body.dec.buffered = to - next
      BY <3>6, HoldsIs, ZenonT(30)
    <3>8. body.dec.buffered < d.buffered
      BY <1>2, <1>4, <2>3, <3>7
    <3> DEFINE n == m + 1
               joined == Append(s.payloads, body.bytes)
    <3>9. n \in k..N /\ n \in 0..N
      BY <1>1, <1>2, <2>2
    <3>10. joined = Piece(ps, k, n)
      <4>1. ps \in Seq(Seq(Byte))
        BY <1>2, ZenonT(30) DEF Rows
      <4>2. m \in 0..(Len(ps) - 1) /\ k \in 0..m
        BY <1>2, <2>2 DEF N
      <4>3. Piece(ps, k, m + 1) = Append(Piece(ps, k, m), ps[m + 1])
        BY <4>1, <4>2, PieceAppend
      <4> QED
        BY <1>3, <3>6, <4>3, ZenonT(30) DEF p
    <3>11. joined \in Rows(Byte)
      <4>1. n \in 0..Len(ps) /\ k \in 0..n
        BY <3>9 DEF N
      <4> HIDE DEF n, joined
      <4> QED
        BY <1>2, <3>10, <4>1, RowPiece, ZenonT(30)
    <3>12. Small(ps, k, n)
      <4>1. \A i \in (k + 1)..n : i \in (k + 1)..m \/ i = m + 1
        BY <1>2
      <4> QED
        BY <1>3, <2>7, <2>10, <4>1, ZenonT(30) DEF Small
    <3> HIDE DEF joined
    <3>13. more.dec = body.dec /\ more.payloads = joined /\ more.err = 0 /\ more.done = FALSE
      BY DEF joined
    <3>14. more \in DrainState
      <4> DEFINE bd == body.dec
      <4> HIDE DEF bd
      <4>1. bd \in Decoders /\ joined \in Rows(Byte) /\ 0 \in {0, TooLarge} /\ FALSE \in BOOLEAN
        BY <3>7, <3>11 DEF bd
      <4>2. [dec |-> bd, payloads |-> joined, err |-> 0, done |-> FALSE] \in DrainState
        BY <4>1, ZenonT(30) DEF DrainState
      <4> QED
        BY <4>2, ZenonT(30) DEF bd, joined
    <3> HIDE DEF more
    <3>15. DrainingTo(ps, b, Z, to, k, n, more)
      BY <3>6, <3>10, <3>12, <3>13, ZenonT(30) DEF DrainingTo, next
    <3> HIDE DEF n
    <3>16. DrainInv(ps, b, Z, to, k, more)
      BY <3>9, <3>13, <3>15, ZenonT(30) DEF DrainInv, Draining, N
    <3>17. t = more
      BY <2>6, <2>10, <3>3, <3>5, ZenonT(30)
    <3> HIDE DEF t
    <3>18. t.dec.buffered < d.buffered
      BY <3>8, <3>13, <3>17, ZenonT(30)
    <3> QED
      BY <3>14, <3>16, <3>17, <3>18, ZenonT(30) DEF t
  <2> QED
    BY <2>8, <2>9, <2>10
<1> QED
  BY <1>7, <1>8

(* Push with the bytes of the stream from to0 up to to: by the least round *)
(* that its count of buffered bytes allows, it has returned.               *)
LEMMA PushIs ==
  ASSUME NEW ps, NEW b, NEW Z, Stream(ps, b, Z), NEW k \in 0..Len(ps), NEW d, NEW to0,
         Holds(d, Z, b[k], to0), NEW to \in 0..Len(Z), to0 <= to
  PROVE  /\ Push(d, Piece(Z, to0, to)) \in DrainState
         /\ Pushed(ps, b, Z, to, k, Push(d, Piece(Z, to0, to)))
<1> DEFINE begin == Retained(d, Piece(Z, to0, to))
           M == begin.buffered
           N == M + 1
           x == [dec |-> begin, payloads |-> <<>>, err |-> 0, done |-> FALSE]
           F(h) == [n \in 0..N |-> IF n = 0 THEN x ELSE DrainFrame(h[n - 1])]
           f == CHOOSE h : h = F(h)
           D == {s \in DrainState : DrainInv(ps, b, Z, to, k, s)}
           g == [n \in 0..(N - 1) |-> [s \in D |-> DrainFrame(s)]]
<1>1. Push(d, Piece(Z, to0, to)) = f[N]
  BY ZenonT(30) DEF Push
<1>2. Holds(begin, Z, b[k], to)
  BY RetainedIs, ZenonT(30)
<1>3. begin \in Decoders /\ M \in Nat /\ N \in Nat
  <2> HIDE DEF begin
  <2>1. begin \in Decoders
    BY <1>2, HoldsIs
  <2>2. M \in Nat
    BY <2>1 DEF Decoders
  <2> QED
    BY <2>1, <2>2
<1>4. Len(ps) \in Nat /\ k \in Nat /\ ps \in Seq(Seq(Byte)) /\ k \in 0..Len(ps) /\ k \in k..Len(ps)
  <2>1. ps \in Seq(Seq(Byte))
    BY DEF Stream, Sendable, Rows
  <2>2. Len(ps) \in Nat
    BY <2>1
  <2> QED
    BY <2>1, <2>2
<1> HIDE DEF begin
<1>5. x \in DrainState /\ x.dec = begin /\ x.payloads = <<>> /\ x.err = 0 /\ x.done = FALSE
  <2>1. <<>> \in Rows(Byte) /\ 0 \in {0, TooLarge} /\ FALSE \in BOOLEAN
    BY FillsNone
  <2>2. x \in DrainState
    BY <1>3, <2>1, ZenonT(30) DEF DrainState
  <2> QED
    BY <2>2
<1> HIDE DEF x, M
<1>6. x \in D
  <2>1. Piece(ps, k, k) = <<>>
    BY <1>4, PieceEmpty
  <2>2. Small(ps, k, k)
    BY <1>4 DEF Small
  <2>3. DrainingTo(ps, b, Z, to, k, k, x)
    BY <1>2, <1>5, <2>1, <2>2, ZenonT(30) DEF DrainingTo
  <2>4. DrainInv(ps, b, Z, to, k, x)
    BY <1>4, <1>5, <2>3, ZenonT(30) DEF DrainInv, Draining
  <2> QED
    BY <1>5, <2>4, ZenonT(30)
<1> HIDE DEF N
<1>8. ASSUME NEW s \in D
      PROVE  /\ DrainFrame(s) \in D
             /\ ~s.done => DrainFrame(s).done \/ DrainFrame(s).dec.buffered < s.dec.buffered
             /\ s.done => DrainFrame(s).done
  <2>1. s \in DrainState /\ DrainInv(ps, b, Z, to, k, s)
    OBVIOUS
  <2> HIDE DEF D
  <2>2. CASE s.done
    <3>1. DrainFrame(s) = s
      BY <2>2, ZenonT(30) DEF DrainFrame
    <3> QED
      BY <2>2, <3>1, ZenonT(30)
  <2>3. CASE ~s.done
    <3>1. PICK m \in k..Len(ps) : DrainingTo(ps, b, Z, to, k, m, s)
      BY <2>1, <2>3, ZenonT(30) DEF DrainInv, Draining
    <3>2. /\ DrainFrame(s) \in DrainState /\ DrainInv(ps, b, Z, to, k, DrainFrame(s))
          /\ DrainFrame(s).done \/ DrainFrame(s).dec.buffered < s.dec.buffered
      BY <1>4, <2>1, <2>3, <3>1, DrainFrameIs, ZenonT(30)
    <3> QED
      BY <2>3, <3>2, ZenonT(30) DEF D
  <2> QED
    BY <2>2, <2>3
<1>9. ASSUME NEW n \in 0..(N - 1) PROVE \A s \in D : g[n][s] = DrainFrame(s)
  <2> HIDE DEF D
  <2> QED
    BY ZenonT(30)
<1> HIDE DEF g, D
<1>10. Closed(g, N, D)
  BY <1>8, <1>9, ZenonT(30) DEF Closed
<1>11. PICK p \in [0..N -> D] : Iterates(p, g, N, x)
  BY <1>3, <1>6, <1>10, LoopExists, ZenonT(30)
<1>12. p = F(p)
  <2>1. ASSUME NEW n \in 0..N PROVE p[n] = IF n = 0 THEN x ELSE DrainFrame(p[n - 1])
    <3>1. CASE n = 0
      BY <1>11, <3>1, ZenonT(30) DEF Iterates
    <3>2. CASE n # 0
      <4>1. n - 1 \in 0..(N - 1) /\ (n - 1) + 1 = n /\ n - 1 \in 0..N
        BY <1>3, <3>2
      <4>2. p[(n - 1) + 1] = g[n - 1][p[n - 1]] /\ p[n - 1] \in D
        BY <1>11, <4>1, ZenonT(30) DEF Iterates
      <4>3. g[n - 1][p[n - 1]] = DrainFrame(p[n - 1])
        BY <1>9, <4>1, <4>2, ZenonT(30)
      <4> QED
        BY <3>2, <4>1, <4>2, <4>3, ZenonT(30)
    <3> QED
      BY <3>1, <3>2
  <2>2. p = [n \in 0..N |-> p[n]]
    OBVIOUS
  <2> QED
    BY <2>1, <2>2, ZenonT(30)
<1>13. f = F(f)
  <2> HIDE DEF F
  <2> QED
    BY <1>12, ZenonT(30)
<1> HIDE DEF f
<1>14. \A n \in 0..N : f[n] = IF n = 0 THEN x ELSE DrainFrame(f[n - 1])
  <2>1. \A n \in 0..N : F(f)[n] = IF n = 0 THEN x ELSE DrainFrame(f[n - 1])
    BY ZenonT(30)
  <2> HIDE DEF F
  <2> QED
    BY <1>13, <2>1, ZenonT(30)
<1> DEFINE Fuel(n, s) == s.done \/ s.dec.buffered + n <= M
           T == {n \in 0..N : f[n] \in D /\ Fuel(n, f[n])}
<1>15. 0 \in T
  <2>1. 0 \in 0..N /\ M + 0 <= M
    BY <1>3
  <2>2. x.dec.buffered = M
    BY <1>5, ZenonT(30) DEF M
  <2> QED
    BY <1>6, <1>14, <2>1, <2>2, ZenonT(30)
<1>16. ASSUME NEW n \in 0..(N - 1), n \in T PROVE n + 1 \in T
  <2>1. n + 1 \in 0..N /\ n + 1 # 0 /\ (n + 1) - 1 = n
    BY <1>3
  <2> DEFINE s == f[n]
             t == f[n + 1]
             i == s.dec.buffered
             j == t.dec.buffered
  <2>2. s \in D /\ Fuel(n, s) /\ t = DrainFrame(s)
    BY <1>14, <1>16, <2>1, ZenonT(30)
  <2> HIDE DEF s, t
  <2>3. t \in D /\ (~s.done => t.done \/ j < i) /\ (s.done => t.done)
    BY <1>8, <2>2, ZenonT(30)
  <2>4. i \in Nat /\ j \in Nat
    BY <2>2, <2>3 DEF D, DrainState, Decoders
  <2>5. j < i /\ i + n <= M => j + (n + 1) <= M
    BY <1>3, <2>4
  <2>6. Fuel(n + 1, t)
    BY <2>2, <2>3, <2>5, ZenonT(30)
  <2> HIDE DEF Fuel
  <2> QED
    BY <2>1, <2>3, <2>6, ZenonT(30) DEF t
<1>17. N \in T
  <2> HIDE DEF T
  <2>1. \A n \in 0..N : n \in T
    BY <1>3, <1>15, <1>16, UpTo, ZenonT(30)
  <2>2. N \in 0..N
    BY <1>3
  <2> QED
    BY <2>1, <2>2, ZenonT(30)
<1> DEFINE s == f[N]
<1>18. s \in DrainState /\ DrainInv(ps, b, Z, to, k, s) /\ Fuel(N, s)
  BY <1>17, ZenonT(30) DEF D
<1> HIDE DEF s
<1>19. s.done
  <2>1. s.dec.buffered \in Nat
    BY <1>18 DEF DrainState, Decoders
  <2>2. ~(s.dec.buffered + N <= M)
    BY <1>3, <2>1 DEF N
  <2> QED
    BY <1>18, <2>2, ZenonT(30)
<1>20. Pushed(ps, b, Z, to, k, s)
  BY <1>18, <1>19, ZenonT(30) DEF DrainInv
<1> QED
  BY <1>1, <1>18, <1>20, ZenonT(30) DEF s, N

------------------------------------------------------------------------------
(* A decoder that was pushed the stream Z of the payloads ps up to to, in  *)
(* whatever chunks: it has taken the first k of them, all of which fit,    *)
(* and has returned the first j.  Either it waits for the rest of the next *)
(* and has returned all it took, or it refuses the next one's length.      *)
Decoded(ps, b, Z, d, j, k, to) ==
  /\ Stream(ps, b, Z) /\ k \in 0..Len(ps) /\ j \in 0..k /\ to \in 0..Len(Z)
  /\ Holds(d, Z, b[k], to) /\ Small(ps, 0, k)
  /\ Stuck(ps, b, to, k) \/ (j = k /\ Waits(ps, b, to, k))

(* A new decoder.                                                          *)
LEMMA DecodedStart ==
  ASSUME NEW ps, NEW b, NEW Z, Stream(ps, b, Z)
  PROVE  Decoded(ps, b, Z, NewFrameDecoder, 0, 0, 0)
<1> DEFINE base == [i \in 0..0 |-> 0]
           d == NewFrameDecoder
<1>1. /\ Len(ps) \in Nat /\ Len(Z) \in Nat /\ b[0] = 0
      /\ \A k \in 0..(Len(ps) - 1) : FrameAt(ps, b, Z, k)
  BY StreamIs, ZenonT(30)
<1>2. Z \in Seq(Byte) /\ LengthBytes \in Nat \ {0}
  BY FrameAssumption DEF Stream
<1>3. d.chunks = <<>> /\ d.headIndex = 0 /\ d.headOffset = 0 /\ d.buffered = 0
      /\ d = [chunks |-> d.chunks, headIndex |-> d.headIndex, headOffset |-> d.headOffset, buffered |-> d.buffered]
  BY DEF NewFrameDecoder
<1>4. Lay(<<>>, base, Z) /\ base[0] = 0 /\ Len(<<>>) = 0
  BY <1>1, <1>2 DEF Lay
<1>5. <<>> \in Rows(Byte)
  BY FillsNone
<1> HIDE DEF base
<1>6. Chunks(<<>>, base, Z)
  BY <1>2, <1>4, <1>5 DEF Chunks
<1>7. Cursor(<<>>, base, 0, 0, 0)
  BY <1>4 DEF Cursor
<1> HIDE DEF d
<1>8. HoldsAt(d, base, Z, 0, 0)
  <2>1. Chunks(d.chunks, base, Z) /\ Cursor(d.chunks, base, d.headIndex, d.headOffset, 0)
        /\ base[Len(d.chunks)] = 0 /\ d.buffered = 0
    BY <1>3, <1>4, <1>6, <1>7, ZenonT(30)
  <2>2. 0 = 0 - 0
    OBVIOUS
  <2> QED
    BY <1>3, <2>1, <2>2, ZenonT(30) DEF HoldsAt
<1>9. Kept(d)
  BY <1>3, FrameAssumption DEF Kept
<1>10. Waits(ps, b, 0, 0)
  <2> SUFFICES ASSUME 0 < Len(ps) PROVE 0 < b[0 + 1] /\ 0 < b[0] + LengthBytes
    BY DEF Waits
  <2>1. FrameAt(ps, b, Z, 0)
    BY <1>1
  <2>2. b[0 + 1] = (b[0] + LengthBytes) + Len(ps[0 + 1]) /\ Len(ps[0 + 1]) \in Nat
    BY <2>1, ZenonT(30) DEF FrameAt
  <2> QED
    BY <1>1, <1>2, <2>2
<1>11. 0 \in 0..Len(ps) /\ 0 \in 0..0 /\ 0 \in 0..Len(Z) /\ Small(ps, 0, 0)
  BY <1>1 DEF Small
<1> QED
  BY <1>1, <1>8, <1>9, <1>10, <1>11, ZenonT(30) DEF Decoded, Holds, d

(* What a Push of more of the stream comes to.                             *)
Returned(ps, b, Z, j, k, m, to, s) ==
  \/ /\ s.err = 0 /\ j = k /\ s.payloads = Piece(ps, j, m) /\ Waits(ps, b, to, m)
     /\ Decoded(ps, b, Z, s.dec, m, m, to)
  \/ s.err = TooLarge /\ s.payloads = <<>> /\ Stuck(ps, b, to, m) /\ Decoded(ps, b, Z, s.dec, j, m, to)

(* Push returns the payloads complete by now that it had not returned, or  *)
(* refuses a length; once it has refused one it refuses it again.          *)
LEMMA DecodedPush ==
  ASSUME NEW ps, NEW b, NEW Z, NEW d, NEW j, NEW k, NEW to0, Decoded(ps, b, Z, d, j, k, to0),
         NEW to \in 0..Len(Z), to0 <= to
  PROVE  /\ Push(d, Piece(Z, to0, to)) \in DrainState
         /\ \E m \in k..Len(ps) : Returned(ps, b, Z, j, k, m, to, Push(d, Piece(Z, to0, to)))
<1> DEFINE s == Push(d, Piece(Z, to0, to))
           N == Len(ps)
<1>1. Stream(ps, b, Z) /\ k \in 0..N /\ j \in 0..k /\ Holds(d, Z, b[k], to0) /\ Small(ps, 0, k)
      /\ (Stuck(ps, b, to0, k) \/ (j = k /\ Waits(ps, b, to0, k))) /\ to0 \in 0..Len(Z)
  BY ZenonT(30) DEF Decoded
<1>2. s \in DrainState /\ Pushed(ps, b, Z, to, k, s)
  BY <1>1, PushIs, ZenonT(30)
<1> HIDE DEF s
<1>3. PICK m \in k..N : PushedTo(ps, b, Z, to, k, m, s)
  BY <1>2, ZenonT(30) DEF Pushed
<1>4. Holds(s.dec, Z, b[m], to) /\ Small(ps, k, m) /\ Comes(ps, b, to, k, m, s.err, s.payloads)
  BY <1>3, ZenonT(30) DEF PushedTo
<1>5. N \in Nat /\ Len(Z) \in Nat /\ b[k] \in Nat /\ LengthBytes \in Nat
  <2>1. N \in Nat /\ Len(Z) \in Nat /\ b[k] \in 0..Len(Z)
    BY <1>1, StreamIs, ZenonT(30)
  <2> QED
    BY <2>1, FrameAssumption
<1>6. m \in 0..N /\ j \in 0..m /\ m \in 0..m
  BY <1>1, <1>5
<1>7. Small(ps, 0, m)
  <2>1. \A i \in (0 + 1)..m : i \in (0 + 1)..k \/ i \in (k + 1)..m
    BY <1>1, <1>5
  <2> QED
    BY <1>1, <1>4, <2>1, ZenonT(30) DEF Small
<1>8. ASSUME Stuck(ps, b, to0, k), Waits(ps, b, to, m) PROVE FALSE
  <2> DEFINE p == b[k] + LengthBytes
  <2>1. k < N /\ ~Fits(ps[k + 1]) /\ p <= to0
    BY <1>8, ZenonT(30) DEF Stuck
  <2>2. m = k
    <3> SUFFICES ASSUME m # k PROVE FALSE
      OBVIOUS
    <3>1. k + 1 \in (k + 1)..m
      BY <1>1, <1>5
    <3> QED
      BY <1>4, <2>1, <3>1, ZenonT(30) DEF Small
  <2>3. to < p
    BY <1>8, <2>1, <2>2, ZenonT(30) DEF Waits
  <2> QED
    BY <1>1, <1>5, <2>1, <2>3
<1>9. CASE s.err = 0 /\ s.payloads = Piece(ps, k, m) /\ Waits(ps, b, to, m)
  <2>1. j = k
    BY <1>1, <1>8, <1>9, ZenonT(30)
  <2>2. Decoded(ps, b, Z, s.dec, m, m, to)
    BY <1>1, <1>4, <1>6, <1>7, <1>9, ZenonT(30) DEF Decoded
  <2>3. Returned(ps, b, Z, j, k, m, to, s)
    BY <1>9, <2>1, <2>2, ZenonT(30) DEF Returned
  <2> QED
    BY <1>2, <2>3, ZenonT(30) DEF s
<1>10. CASE s.err = TooLarge /\ s.payloads = <<>> /\ Stuck(ps, b, to, m)
  <2>2. Decoded(ps, b, Z, s.dec, j, m, to)
    BY <1>1, <1>4, <1>6, <1>7, <1>10, ZenonT(30) DEF Decoded
  <2>3. Returned(ps, b, Z, j, k, m, to, s)
    BY <1>10, <2>2, ZenonT(30) DEF Returned
  <2> QED
    BY <1>2, <2>3, ZenonT(30) DEF s
<1> QED
  BY <1>4, <1>9, <1>10, ZenonT(30) DEF Comes

(* The payloads qs with ends up go on where ps and b end, by one record.   *)
Grown(ps, b, qs, up) ==
  /\ Len(qs) = Len(ps) + 1 /\ \A i \in 1..Len(ps) : qs[i] = ps[i]
  /\ \A i \in 0..Len(ps) : up[i] = b[i]

(* One more record behind the stream.                                      *)
LEMMA StreamAppend ==
  ASSUME NEW ps, NEW b, NEW Z, Stream(ps, b, Z), NEW p \in Seq(Byte), Len(p) < Weight[LengthBytes]
  PROVE  /\ Stream(Append(ps, p), Longer(b, Len(ps), Len(Z \o EncodeFrame(p))), Z \o EncodeFrame(p))
         /\ Grown(ps, b, Append(ps, p), Longer(b, Len(ps), Len(Z \o EncodeFrame(p))))
<1> DEFINE c == EncodeFrame(p)
           N == Len(ps)
           e == Encoded(ps)
           qs == Append(ps, p)
           M == N + 1
<1>1. Sendable(ps) /\ Z \in Seq(Byte) /\ Fills(e, b, Z) /\ ps \in Rows(Byte)
      /\ \A k \in 1..N : Len(ps[k]) < Weight[LengthBytes]
  BY DEF Stream, Sendable
<1>2. e \in Rows(Byte) /\ Len(e) = N /\ N \in Nat /\ \A k \in 1..N : e[k] = EncodeFrame(ps[k])
  BY <1>1, EncodedIs, ZenonT(30)
<1>3. c \in Seq(Byte)
  BY EncodeFrameIs, ZenonT(30)
<1>4. qs \in Rows(Byte) /\ Len(qs) = M /\ qs[M] = p /\ \A i \in 1..N : qs[i] = ps[i]
  BY <1>1, RowAppend
<1>5. Append(e, c) \in Rows(Byte) /\ Len(Append(e, c)) = M /\ Append(e, c)[M] = c
      /\ \A i \in 1..N : Append(e, c)[i] = e[i]
  <2> HIDE DEF e, c
  <2>1. Append(e, c) \in Rows(Byte) /\ Len(Append(e, c)) = Len(e) + 1 /\ Append(e, c)[Len(e) + 1] = c
        /\ \A i \in 1..Len(e) : Append(e, c)[i] = e[i]
    BY <1>2, <1>3, RowAppend
  <2> QED
    BY <1>2, <2>1, ZenonT(30)
<1>6. \A k \in 1..M : k \in 1..N \/ k = M
  BY <1>2
<1> HIDE DEF e, c, qs, N
<1>7. Sendable(qs)
  <2>1. \A k \in 1..M : Len(qs[k]) < Weight[LengthBytes]
    <3> TAKE k \in 1..M
    <3> HIDE DEF M
    <3> QED
      BY <1>1, <1>4, <1>6, ZenonT(30)
  <2> QED
    BY <1>4, <2>1, ZenonT(30) DEF Sendable
<1>8. Encoded(qs) = Append(e, c)
  <2>1. Encoded(qs) \in Rows(Byte) /\ Len(Encoded(qs)) = M /\ \A k \in 1..M : Encoded(qs)[k] = EncodeFrame(qs[k])
    <3>1. Encoded(qs) \in Rows(Byte) /\ Len(Encoded(qs)) = Len(qs) /\ \A k \in 1..Len(qs) : Encoded(qs)[k] = EncodeFrame(qs[k])
      BY <1>7, EncodedIs, ZenonT(30)
    <3> HIDE DEF M
    <3> QED
      BY <1>4, <3>1, ZenonT(30)
  <2>2. ASSUME NEW k \in 1..M PROVE Encoded(qs)[k] = Append(e, c)[k]
    <3> HIDE DEF M
    <3>1. CASE k \in 1..N
      BY <1>2, <1>4, <1>5, <2>1, <3>1, ZenonT(30)
    <3>2. CASE k = M
      BY <1>4, <1>5, <2>1, <3>2, ZenonT(30) DEF c
    <3> QED
      BY <1>6, <3>1, <3>2, ZenonT(30)
  <2>3. Encoded(qs) \in Seq(Seq(Byte)) /\ Append(e, c) \in Seq(Seq(Byte))
    BY <1>5, <2>1, ZenonT(30) DEF Rows
  <2> DEFINE u == Encoded(qs)
             v == Append(e, c)
  <2> HIDE DEF M, u, v
  <2>4. u \in Seq(Seq(Byte)) /\ v \in Seq(Seq(Byte)) /\ Len(u) = Len(v) /\ \A k \in 1..Len(u) : u[k] = v[k]
    BY <1>5, <2>1, <2>2, <2>3, ZenonT(30) DEF u, v
  <2>5. u = v
    BY <2>4, SeqEqual, ZenonT(30)
  <2> QED
    BY <2>5, ZenonT(30) DEF u, v
<1> DEFINE y == Z \o c
           up == Longer(b, N, Len(y))
<1>9. Fills(Append(e, c), up, y) /\ \A i \in 0..N : up[i] = b[i]
  <2>1. Fills(Append(e, c), Longer(b, Len(e), Len(y)), y) /\ \A i \in 0..Len(e) : Longer(b, Len(e), Len(y))[i] = b[i]
    <3>1. e \in Rows(Byte) /\ Z \in Seq(Byte) /\ Fills(e, b, Z) /\ c \in Seq(Byte)
      BY <1>1, <1>2, <1>3
    <3> QED
      BY <3>1, FillsAppend
  <2> QED
    BY <1>2, <2>1, ZenonT(30)
<1>10. y \in Seq(Byte)
  BY <1>1, <1>3, PieceOfLonger, ZenonT(30)
<1> HIDE DEF y, up
<1>11. Stream(qs, up, y)
  BY <1>7, <1>8, <1>9, <1>10, ZenonT(30) DEF Stream
<1> HIDE DEF M
<1> QED
  <2>1. Grown(ps, b, qs, up)
    BY <1>4, <1>9, ZenonT(30) DEF Grown, N, M
  <2> QED
    BY <1>11, <2>1, ZenonT(30) DEF y, up, N, c, qs

(* What a decoder holds is not moved by what follows in the stream.        *)
LEMMA HoldsLonger ==
  ASSUME NEW d, NEW Z, NEW from, NEW to, Holds(d, Z, from, to), NEW c \in Seq(Byte)
  PROVE  Holds(d, Z \o c, from, to)
<1>1. PICK base : HoldsAt(d, base, Z, from, to)
  BY DEF Holds
<1> DEFINE cs == d.chunks
<1>2. Chunks(cs, base, Z)
  BY <1>1 DEF HoldsAt
<1> HIDE DEF cs
<1>3. Chunks(cs, base, Z \o c)
  BY <1>2, LayLonger, PieceOfLonger, ZenonT(30) DEF Chunks
<1>4. HoldsAt(d, base, Z \o c, from, to)
  BY <1>1, <1>3, ZenonT(30) DEF HoldsAt, cs
<1> QED
  BY <1>4, ZenonT(30) DEF Holds

(* One more record behind the stream does not change where a decoder is.   *)
LEMMA DecodedSend ==
  ASSUME NEW ps, NEW b, NEW Z, NEW d, NEW j, NEW k, NEW to, Decoded(ps, b, Z, d, j, k, to),
         NEW p \in Seq(Byte), Len(p) < Weight[LengthBytes]
  PROVE  Decoded(Append(ps, p), Longer(b, Len(ps), Len(Z \o EncodeFrame(p))), Z \o EncodeFrame(p), d, j, k, to)
<1> DEFINE c == EncodeFrame(p)
           N == Len(ps)
           qs == Append(ps, p)
           y == Z \o c
           up == Longer(b, N, Len(y))
<1>1. Stream(ps, b, Z) /\ k \in 0..N /\ j \in 0..k /\ Holds(d, Z, b[k], to) /\ Small(ps, 0, k)
      /\ (Stuck(ps, b, to, k) \/ (j = k /\ Waits(ps, b, to, k))) /\ to \in 0..Len(Z)
  BY ZenonT(30) DEF Decoded
<1>2. Stream(qs, up, y) /\ (\A i \in 0..N : up[i] = b[i]) /\ Len(qs) = N + 1 /\ \A i \in 1..N : qs[i] = ps[i]
  <2>1. Stream(qs, up, y) /\ Grown(ps, b, qs, up)
    BY <1>1, StreamAppend, ZenonT(30)
  <2> QED
    BY <2>1, ZenonT(30) DEF Grown
<1>3. c \in Seq(Byte) /\ Z \in Seq(Byte)
  BY <1>1, EncodeFrameIs, ZenonT(30) DEF Stream
<1>4. Len(y) = Len(Z) + Len(c)
  BY <1>3, PieceOfLonger, ZenonT(30)
<1>5. N \in Nat /\ Len(Z) \in Nat /\ b[N] = Len(Z) /\ \A i \in 0..N : b[i] \in 0..Len(Z)
  BY <1>1, StreamIs, ZenonT(30)
<1>6. Holds(d, y, up[k], to)
  BY <1>1, <1>2, <1>3, HoldsLonger, ZenonT(30)
<1> HIDE DEF c, N, y, up, qs
<1>7. k \in 0..Len(qs) /\ to \in 0..Len(y)
  BY <1>1, <1>2, <1>3, <1>4, <1>5
<1>8. Small(qs, 0, k)
  <2>1. \A i \in (0 + 1)..k : i \in 1..N
    BY <1>1, <1>5
  <2> QED
    BY <1>1, <1>2, <2>1, ZenonT(30) DEF Small
<1>9. CASE k = N
  <2>1. FrameAt(qs, up, y, k)
    <3>1. k \in 0..(Len(qs) - 1)
      BY <1>2, <1>5, <1>9
    <3> QED
      BY <1>2, <3>1, StreamIs, ZenonT(30)
  <2>2. up[k + 1] = (up[k] + LengthBytes) + Len(qs[k + 1]) /\ Len(qs[k + 1]) \in Nat
    BY <2>1, ZenonT(30) DEF FrameAt
  <2>3. up[k] = Len(Z)
    BY <1>1, <1>2, <1>5, <1>9, ZenonT(30)
  <2>4. to < up[k + 1] /\ to < up[k] + LengthBytes
    <3> DEFINE q == up[k + 1]
               L == Len(qs[k + 1])
               z == Len(Z)
    <3>1. q = (z + LengthBytes) + L /\ L \in Nat /\ z \in Nat /\ to \in 0..z /\ up[k] = z
      BY <1>1, <1>5, <2>2, <2>3, ZenonT(30)
    <3> HIDE DEF q, L, z
    <3>2. LengthBytes \in Nat \ {0}
      BY FrameAssumption
    <3>3. to < q /\ to < z + LengthBytes
      BY <3>1, <3>2
    <3> QED
      BY <3>1, <3>3, ZenonT(30) DEF q
  <2>5. Waits(qs, up, to, k)
    BY <2>4, ZenonT(30) DEF Waits
  <2>6. j = k
    <3>1. ~(N < N)
      BY <1>5
    <3> QED
      BY <1>1, <1>9, <3>1, ZenonT(30) DEF Stuck, N
  <2> QED
    BY <1>1, <1>2, <1>6, <1>7, <1>8, <2>5, <2>6, ZenonT(30) DEF Decoded, c, N, y, up, qs
<1>10. CASE k # N
  <2>1. k + 1 \in 1..N /\ k + 1 \in 0..N /\ k < N /\ k < Len(qs)
    BY <1>1, <1>2, <1>5, <1>10
  <2>2. up[k] = b[k] /\ up[k + 1] = b[k + 1] /\ qs[k + 1] = ps[k + 1]
    BY <1>1, <1>2, <2>1, ZenonT(30)
  <2>3. Stuck(ps, b, to, k) => Stuck(qs, up, to, k)
    BY <2>1, <2>2, ZenonT(30) DEF Stuck
  <2>4. Waits(ps, b, to, k) => Waits(qs, up, to, k)
    BY <2>1, <2>2, ZenonT(30) DEF Waits, N
  <2> QED
    BY <1>1, <1>2, <1>6, <1>7, <1>8, <2>3, <2>4, ZenonT(30) DEF Decoded, c, N, y, up, qs
<1> QED
  BY <1>9, <1>10

(* The count of buffered bytes agrees with the chunks and the cursor.      *)
LEMMA HoldsConsistent ==
  ASSUME NEW d, NEW Z, NEW from, NEW to, Holds(d, Z, from, to)
  PROVE  d.buffered = Len(FlattenSeq(d.chunks)) - d.headOffset - Len(FlattenSeq(SubSeq(d.chunks, 1, d.headIndex)))
<1>1. PICK base : HoldsAt(d, base, Z, from, to)
  BY DEF Holds
<1> DEFINE cs == d.chunks
           N == Len(cs)
           i == d.headIndex
           o == d.headOffset
           up == Cut(base, 0, i)
<1>2. Chunks(cs, base, Z) /\ Cursor(cs, base, i, o, from) /\ base[N] = to /\ d.buffered = to - from
  BY <1>1 DEF HoldsAt
<1> HIDE DEF cs, i, o
<1>3. cs \in Rows(Byte) /\ Z \in Seq(Byte) /\ Lay(cs, base, Z)
  BY <1>2 DEF Chunks
<1>4. i \in 0..N /\ o \in Nat /\ from = base[i] + o
  BY <1>2, ZenonT(30) DEF Cursor
<1>5. N \in Nat /\ Len(Z) \in Nat /\ base[0] \in Nat /\ base[N] \in Nat /\ base[N] <= Len(Z)
      /\ (\A n \in 0..N : base[n] \in Nat /\ base[0] <= base[n] /\ base[n] <= base[N])
  BY <1>3, LayOrder, ZenonT(30)
<1>6. FlattenSeq(cs) = Piece(Z, base[0], base[N])
  BY <1>3, FlattenIs, ZenonT(30)
<1>7. 0 \in 0..i /\ i - 0 = i
  BY <1>4, <1>5
<1>8. Lay(Piece(cs, 0, i), up, Z) /\ up[0] = base[0] /\ up[i] = base[i]
  <2>1. Lay(Piece(cs, 0, i), up, Z) /\ \A n \in 0..(i - 0) : up[n] = base[0 + n]
    BY <1>3, <1>4, <1>7, LayCut
  <2>2. 0 \in 0..(i - 0) /\ i \in 0..(i - 0) /\ 0 + 0 = 0 /\ 0 + i = i
    BY <1>4, <1>5
  <2> HIDE DEF up
  <2> QED
    BY <2>1, <2>2, ZenonT(30)
<1>9. Piece(cs, 0, i) \in Rows(Byte) /\ Len(Piece(cs, 0, i)) = i
  <2>1. Piece(cs, 0, i) \in Rows(Byte) /\ Len(Piece(cs, 0, i)) = i - 0
    BY <1>3, <1>4, <1>7, RowPiece, ZenonT(30)
  <2> QED
    BY <1>7, <2>1, ZenonT(30)
<1> HIDE DEF up
<1>10. FlattenSeq(Piece(cs, 0, i)) = Piece(Z, base[0], base[i])
  BY <1>3, <1>8, <1>9, FlattenIs, ZenonT(30)
<1> DEFINE b0 == base[0]
           bi == base[i]
           bn == base[N]
<1>11. b0 \in Nat /\ bi \in Nat /\ bn \in Nat /\ b0 <= bi /\ bi <= bn /\ bn <= Len(Z)
  BY <1>4, <1>5, ZenonT(30)
<1> HIDE DEF b0, bi, bn, N
<1>12. b0 \in 0..bi /\ bi \in 0..Len(Z) /\ bn \in 0..Len(Z) /\ b0 \in 0..bn
  BY <1>5, <1>11
<1>13. Len(FlattenSeq(cs)) = bn - b0 /\ Len(FlattenSeq(Piece(cs, 0, i))) = bi - b0
  <2>1. Len(Piece(Z, b0, bn)) = bn - b0 /\ Len(Piece(Z, b0, bi)) = bi - b0
    BY <1>3, <1>12, PieceFacts, ZenonT(30)
  <2> QED
    BY <1>6, <1>10, <2>1, ZenonT(30) DEF b0, bi, bn, N
<1>14. SubSeq(cs, 1, i) = Piece(cs, 0, i)
  <2>1. 0 + 1 = 1
    OBVIOUS
  <2> QED
    BY <2>1, ZenonT(30) DEF Piece
<1>15. d.buffered = bn - (bi + o)
  BY <1>2, <1>4, ZenonT(30) DEF bn, bi
<1> DEFINE u == Len(FlattenSeq(cs))
           v == Len(FlattenSeq(SubSeq(cs, 1, i)))
<1>16. u = bn - b0 /\ v = bi - b0
  BY <1>13, <1>14, ZenonT(30)
<1> HIDE DEF u, v
<1>17. d.buffered = u - o - v
  BY <1>4, <1>11, <1>15, <1>16
<1> QED
  BY <1>17, ZenonT(30) DEF u, v, cs, i, o

(* Reads cut a piece off the head of what is on its way.                   *)
LEMMA PieceSplit ==
  ASSUME NEW S, NEW Z \in Seq(S), NEW to \in 0..Len(Z), NEW w, w = Piece(Z, to, Len(Z)), NEW n \in 0..Len(w)
  PROVE  /\ to + n \in 0..Len(Z) /\ to <= to + n /\ Len(w) = Len(Z) - to
         /\ SubSeq(w, 1, n) = Piece(Z, to, to + n) /\ SubSeq(w, n + 1, Len(w)) = Piece(Z, to + n, Len(Z))
<1> DEFINE z == Len(Z)
           l == Len(w)
<1>1. z \in Nat /\ z \in 0..z
  BY LenProperties
<1>2. l = z - to
  BY <1>1, PieceFacts, ZenonT(30)
<1> HIDE DEF z, l
<1>3. to \in 0..z /\ n \in 0..l
  BY ZenonT(30) DEF z, l
<1>4. to + n \in 0..z /\ to <= to + n /\ to + 0 = to /\ to + l = z /\ 0 + 1 = 1 /\ 0 \in 0..n /\ n \in 0..(z - to)
      /\ l \in 0..(z - to)
  BY <1>1, <1>2, <1>3
<1>5. Piece(w, 0, n) = Piece(Z, to + 0, to + n)
  BY <1>1, <1>3, <1>4, PieceOfPiece, ZenonT(30) DEF z
<1>6. Piece(w, n, l) = Piece(Z, to + n, to + l)
  BY <1>1, <1>3, <1>4, PieceOfPiece, ZenonT(30) DEF z
<1>7. SubSeq(w, 1, n) = Piece(w, 0, n) /\ SubSeq(w, n + 1, l) = Piece(w, n, l)
  BY <1>4, ZenonT(30) DEF Piece
<1>8. SubSeq(w, 1, n) = Piece(Z, to, to + n) /\ SubSeq(w, n + 1, l) = Piece(Z, to + n, z)
  BY <1>4, <1>5, <1>6, <1>7, ZenonT(30)
<1> QED
  BY <1>2, <1>4, <1>8, ZenonT(30) DEF z, l

(* A piece from the start is a prefix.                                     *)
LEMMA PieceIsPrefix ==
  ASSUME NEW S, NEW Z \in Seq(S), NEW j \in 0..Len(Z)
  PROVE  IsPrefix(Piece(Z, 0, j), Z) /\ Len(Piece(Z, 0, j)) = j
<1> DEFINE t == Piece(Z, 0, j)
<1>1. 0 \in 0..j /\ j - 0 = j /\ 0 + 1 = 1 /\ j \in Nat /\ j <= Len(Z)
  BY LenProperties
<1>2. t \in Seq(S) /\ Len(t) = j
  <2>1. t \in Seq(S) /\ Len(t) = j - 0
    BY <1>1, PieceFacts
  <2> QED
    BY <1>1, <2>1, ZenonT(30)
<1> HIDE DEF t
<1>3. Piece(t, 0, j) = t
  BY <1>2, PieceWhole, ZenonT(30)
<1>4. SubSeq(t, 1, j) = t /\ SubSeq(Z, 1, j) = t
  BY <1>1, <1>3, ZenonT(30) DEF Piece, t
<1> QED
  BY <1>1, <1>2, <1>4, ZenonT(30) DEF IsPrefix, t

(* Taking the head of a queue to the end of what was received before it.   *)
LEMMA Requeue ==
  ASSUME NEW S, NEW r \in Seq(S), NEW q \in Seq(S), q # <<>>
  PROVE  /\ Append(r, Head(q)) \in Seq(S) /\ Tail(q) \in Seq(S)
         /\ Append(r, Head(q)) \o Tail(q) = r \o q
<1>1. Head(q) \in S /\ Tail(q) \in Seq(S)
  OBVIOUS
<1>2. Append(r, Head(q)) \in Seq(S)
  BY <1>1
<1>3. q = <<Head(q)>> \o Tail(q)
  OBVIOUS
<1>4. Append(r, Head(q)) = r \o <<Head(q)>>
  BY <1>1
<1>5. (r \o <<Head(q)>>) \o Tail(q) = r \o (<<Head(q)>> \o Tail(q))
  BY <1>1
<1> QED
  BY <1>1, <1>2, <1>3, <1>4, <1>5

(* Where a decoder is says what Receive promises.                          *)
LEMMA DecodedSays ==
  ASSUME NEW ps, NEW b, NEW Z, NEW d, NEW j, NEW k, NEW to, Decoded(ps, b, Z, d, j, k, to)
  PROVE  /\ IsPrefix(Piece(ps, 0, j), ps) /\ Len(Piece(ps, 0, j)) = j
         /\ (\A i \in 1..Len(ps) : Fits(ps[i])) /\ j + 1 <= Len(ps) => d.buffered < LengthBytes + Len(ps[j + 1])
         /\ \A i \in 1..Len(ps) : ~Fits(ps[i]) => j < i
<1> DEFINE N == Len(ps)
<1>1. Stream(ps, b, Z) /\ k \in 0..N /\ j \in 0..k /\ Holds(d, Z, b[k], to) /\ Small(ps, 0, k)
      /\ (Stuck(ps, b, to, k) \/ (j = k /\ Waits(ps, b, to, k))) /\ to \in 0..Len(Z)
  BY ZenonT(30) DEF Decoded
<1>2. N \in Nat /\ Len(Z) \in Nat /\ \A n \in 0..(N - 1) : FrameAt(ps, b, Z, n)
  BY <1>1, StreamIs, ZenonT(30)
<1>3. ps \in Seq(Seq(Byte))
  BY <1>1, ZenonT(30) DEF Stream, Sendable, Rows
<1>4. IsPrefix(Piece(ps, 0, j), ps) /\ Len(Piece(ps, 0, j)) = j
  <2>1. j \in 0..Len(ps)
    BY <1>1, <1>2
  <2> QED
    BY <1>3, <2>1, PieceIsPrefix, ZenonT(30)
<1>5. ASSUME \A i \in 1..N : Fits(ps[i]), j + 1 <= N PROVE d.buffered < LengthBytes + Len(ps[j + 1])
  <2>1. ~Stuck(ps, b, to, k)
    <3> SUFFICES ASSUME Stuck(ps, b, to, k) PROVE FALSE
      OBVIOUS
    <3>1. k < N /\ ~Fits(ps[k + 1])
      BY ZenonT(30) DEF Stuck
    <3>2. k + 1 \in 1..N
      BY <1>1, <1>2, <3>1
    <3> QED
      BY <1>5, <3>1, <3>2, ZenonT(30)
  <2>2. j = k /\ Waits(ps, b, to, k)
    BY <1>1, <2>1, ZenonT(30)
  <2>3. k < N /\ k \in 0..(N - 1)
    BY <1>1, <1>2, <1>5, <2>2
  <2> DEFINE q == b[k + 1]
             L == Len(ps[k + 1])
             p == b[k]
  <2>4. to < q
    BY <2>2, <2>3, ZenonT(30) DEF Waits
  <2>5. q = (p + LengthBytes) + L /\ L \in Nat /\ p \in Nat
    BY <1>2, <2>3, ZenonT(30) DEF FrameAt
  <2>6. d.buffered = to - p
    BY <1>1, HoldsIs
  <2> HIDE DEF q, p, L
  <2>7. LengthBytes \in Nat /\ to \in Nat
    BY <1>1, <1>2, FrameAssumption
  <2>8. d.buffered < LengthBytes + L
    BY <2>4, <2>5, <2>6, <2>7
  <2> QED
    BY <2>2, <2>8, ZenonT(30) DEF L
<1>6. ASSUME NEW i \in 1..N, ~Fits(ps[i]) PROVE j < i
  <2> SUFFICES ASSUME ~(j < i) PROVE FALSE
    OBVIOUS
  <2>1. i \in (0 + 1)..k
    BY <1>1, <1>2
  <2> QED
    BY <1>1, <1>6, <2>1, ZenonT(30) DEF Small
<1> QED
  BY <1>4, <1>5, <1>6, ZenonT(30)

==============================================================================
