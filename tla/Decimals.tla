------------------------------- MODULE Decimals -------------------------------
(***************************************************************************)
(* internal/value/packed_decimal.go and decimal_float.go.  The text of a   *)
(* number is [neg, int, frac, exp]: its sign, the digits before and after  *)
(* the point and the exponent; over is the sign of an exponent that does   *)
(* not fit an int, and 0 otherwise.  A packed number is the sequence of its*)
(* nibbles, a decimal float the natural number its bytes stand for.        *)
(* Packed decimals are scaled in int, whose sums wrap; decimal floats in   *)
(* math/big, whose sums do not.                                            *)
(***************************************************************************)
EXTENDS Integers, Sequences, FiniteSets, SequencesExt

Digit == 0..9
Refused == [ok |-> FALSE]
(* The call does not return: the runtime ends it.                          *)
Panics == [ok |-> FALSE, panics |-> TRUE]

(* bound: the width of int, 64 in the code.  What counts is that a text is *)
(* much shorter than the range is wide, and that its exponent may lie      *)
(* anywhere in the range.                                                  *)
IntBits == 16
MaxInt == 2^(IntBits - 1) - 1
MinInt == -MaxInt - 1
Wrap(n) == ((n - MinInt) % 2^IntBits) + MinInt
Zeros(n) == [k \in 1..n |-> 0]
Nonzero(digits) == \E k \in DOMAIN digits : digits[k] # 0
(* strings.TrimLeft(s, "0") and trimLeadingZeros, which keeps one digit.   *)
TrimLeft(digits) ==
  LET at == {k \in DOMAIN digits : digits[k] # 0}
  IN  IF at = {} THEN <<>> ELSE SubSeq(digits, CHOOSE k \in at : \A j \in at : k <= j, Len(digits))
TrimLeadingZeros(digits) == IF TrimLeft(digits) = <<>> THEN <<0>> ELSE TrimLeft(digits)
LeftPad(digits, width) == IF Len(digits) >= width THEN digits ELSE Zeros(width - Len(digits)) \o digits
TrailingZeroCount(digits) ==
  Len(digits) - FoldLeft(LAMBDA n, k : IF digits[k] # 0 THEN k ELSE n, 0, [k \in DOMAIN digits |-> k])

-----------------------------------------------------------------------------
PackedGeometry(bytes, decimals) ==
  LET digits == 2 * bytes - 1
  IN  bytes \in 1..16 /\ decimals \in 0..(IF digits < 14 THEN digits ELSE 14)

(* Mutant: digits that do not fit are cut off.                             *)
Mut_Rounds(coefficient, split) == FALSE
LosesDigits(coefficient, split) == Nonzero(SubSeq(coefficient, split + 1, Len(coefficient)))

OverCapacity(coefficient, shift, capacity) == Wrap(Len(TrimLeft(coefficient)) + shift) > capacity

(* scaledDigits: the number as an integer of 1/10^decimals, never rounded. *)
(* strings.Repeat is not given more zeros than the field has digits, except*)
(* where the sum in OverCapacity wraps: of so many it can only panic.      *)
ScaledDigits(t, decimals, capacity) ==
  LET coefficient == t.int \o t.frac
      shift == Wrap(Wrap(t.exp + decimals) - Len(t.frac))
      left == Wrap(Len(coefficient) - Wrap(-shift))
      split == IF left < 0 THEN 0 ELSE left
      scaled == IF shift >= 0 THEN coefficient \o Zeros(shift) ELSE SubSeq(coefficient, 1, split)
      significant == TrimLeadingZeros(scaled)
  IN  IF t.over # 0
        THEN IF Nonzero(coefficient) THEN Refused ELSE [ok |-> TRUE, digits |-> <<0>>, neg |-> FALSE]
      ELSE IF shift >= 0 /\ OverCapacity(coefficient, shift, capacity) THEN Refused
      ELSE IF shift > MaxInt - Len(coefficient) THEN Panics
      ELSE IF (shift < 0 /\ LosesDigits(coefficient, split)) \/ Len(significant) > capacity THEN Refused
      ELSE [ok |-> TRUE, digits |-> significant, neg |-> t.neg /\ Nonzero(significant)]

EncodePackedDecimal(t, bytes, decimals) ==
  LET s == ScaledDigits(t, decimals, 2 * bytes - 1)
  IN  IF ~PackedGeometry(bytes, decimals) THEN Refused
      ELSE IF ~s.ok THEN s
      ELSE [ok |-> TRUE, nibbles |-> LeftPad(s.digits, 2 * bytes - 1) \o <<IF s.neg THEN 13 ELSE 12>>]

DecodePackedDecimal(nibbles, decimals) ==
  LET digits == SubSeq(nibbles, 1, Len(nibbles) - 1)
      sign == nibbles[Len(nibbles)]
      point == Len(digits) - decimals
  IN  IF \/ ~PackedGeometry(Len(nibbles) \div 2, decimals) \/ \E k \in DOMAIN digits : digits[k] \notin Digit
         \/ sign \notin 10..15 THEN Refused
      ELSE [ok |-> TRUE,
            text |-> [neg |-> sign \in {11, 13} /\ Nonzero(digits),
                      int |-> IF point > 0 THEN TrimLeadingZeros(SubSeq(digits, 1, point)) ELSE <<0>>,
                      frac |-> SubSeq(digits, point + 1, Len(digits)), exp |-> 0, over |-> 0]]

-----------------------------------------------------------------------------
(* A decimal float format: bytes, precision, exponentContinuationBits (eb),*)
(* coefficientContinuationBits (cb) and exponentBias.                      *)
Bit(n, k) == (n \div 2^k) % 2
Bits(n, low, count) == (n \div 2^low) % 2^count

(* Mutant: the middle digit lands one bit too low.                         *)
Mut_ShiftThree(pqr, stu, vwxy) == pqr * 128 + stu * 8 + vwxy
DecletOf(pqr, stu, vwxy) == pqr * 128 + stu * 16 + vwxy
(* Three digits in ten bits: pqr stu vwxy.                                 *)
EncodeDpdDeclet(value) ==
  LET l == value \div 100 m == (value \div 10) % 10 r == value % 10
      large == <<l >= 8, m >= 8, r >= 8>>
      high(n) == n - (n % 2)
  IN  CASE large = <<FALSE, FALSE, FALSE>> -> DecletOf(l, m, r)
        [] large = <<FALSE, FALSE, TRUE>> -> DecletOf(l, m, 8 + (r % 2))
        [] large = <<FALSE, TRUE, FALSE>> -> DecletOf(l, high(r) + (m % 2), 10 + (r % 2))
        [] large = <<TRUE, FALSE, FALSE>> -> DecletOf(high(r) + (l % 2), m, 12 + (r % 2))
        [] large = <<TRUE, TRUE, FALSE>> -> DecletOf(high(r) + (l % 2), m % 2, 14 + (r % 2))
        [] large = <<TRUE, FALSE, TRUE>> -> DecletOf(high(m) + (l % 2), 2 + (m % 2), 14 + (r % 2))
        [] large = <<FALSE, TRUE, TRUE>> -> DecletOf(l, 4 + (m % 2), 14 + (r % 2))
        [] large = <<TRUE, TRUE, TRUE>> -> DecletOf(l % 2, 6 + (m % 2), 14 + (r % 2))
DecodeDpdDeclet(code) ==
  LET pqr == Bits(code, 7, 3) stu == Bits(code, 4, 3) y == Bit(code, 0)
      l8 == 8 + Bit(code, 7) m8 == 8 + Bit(code, 4) r8 == 8 + y
      pq == Bits(code, 8, 2) st == Bits(code, 5, 2)
      Of(l, m, r) == l * 100 + m * 10 + r
      wx == <<Bit(code, 2), Bit(code, 1)>>
  IN  CASE Bit(code, 3) = 0 -> Of(pqr, stu, Bits(code, 0, 3))
        [] Bit(code, 3) = 1 /\ wx = <<0, 0>> -> Of(pqr, stu, r8)
        [] Bit(code, 3) = 1 /\ wx = <<0, 1>> -> Of(pqr, m8, st * 2 + y)
        [] Bit(code, 3) = 1 /\ wx = <<1, 0>> -> Of(l8, stu, pq * 2 + y)
        [] Bit(code, 3) = 1 /\ wx = <<1, 1>> ->
             CASE st = 0 -> Of(l8, m8, pq * 2 + y)
               [] st = 1 -> Of(l8, pq * 2 + Bit(code, 4), r8)
               [] st = 2 -> Of(pqr, m8, r8)
               [] st = 3 -> Of(l8, m8, r8)
EncodeContinuation(digits) ==
  FoldLeft(LAMBDA n, k : n * 1024 + EncodeDpdDeclet(digits[3 * k - 2] * 100 + digits[3 * k - 1] * 10 + digits[3 * k]),
           0, [k \in 1..(Len(digits) \div 3) |-> k])
DecodeContinuation(bits, count) ==
  LET Declet(k) == DecodeDpdDeclet(Bits(bits, 10 * (count \div 3 - k), 10))
  IN  [i \in 1..count |-> (Declet((i + 2) \div 3) \div 10^((3 - (i % 3)) % 3)) % 10]

MinExp(f) == -f.bias
MaxExp(f) == 3 * 2^f.eb - 1 - f.bias
(* Mutant: the zeros that may be added are as many as the precision.       *)
Mut_AllDigitsFree(coefficient, f) == f.precision
AvailableDigits(coefficient, f) == f.precision - Len(coefficient)
(* parseFinite: a coefficient that fits the precision and an exponent in   *)
(* range, by moving trailing zeros from one to the other, never by rounding*)
ParseFinite(t, f) ==
  LET whole == TrimLeadingZeros(t.int \o t.frac)
      excess == IF whole # <<0>> /\ Len(whole) > f.precision THEN Len(whole) - f.precision ELSE 0
      coefficient == SubSeq(whole, 1, Len(whole) - excess)
      exponent == t.exp - Len(t.frac) + excess
      up == exponent - MaxExp(f)
      down == MinExp(f) - exponent
      As(digits, e) == [ok |-> TRUE, neg |-> t.neg, digits |-> digits, exp |-> e]
  IN  IF TrailingZeroCount(whole) < excess THEN Refused
      ELSE IF coefficient = <<0>> THEN As(<<0>>, IF down > 0 THEN MinExp(f) ELSE IF up > 0 THEN MaxExp(f) ELSE exponent)
      ELSE IF up > 0
        THEN IF up > AvailableDigits(coefficient, f) THEN Refused ELSE As(coefficient \o Zeros(up), MaxExp(f))
      ELSE IF down > 0
        THEN IF down > TrailingZeroCount(coefficient) THEN Refused
             ELSE As(SubSeq(coefficient, 1, Len(coefficient) - down), MinExp(f))
      ELSE As(coefficient, exponent)

(* encodeSpecial, encodeDecimalFloat: a special value is [neg, kind,       *)
(* payload].                                                               *)
Sign(neg, f) == IF neg THEN 2^(f.bytes * 8 - 1) ELSE 0
EncodeSpecial(s, f) ==
  LET payload == TrimLeft(s.payload)
      comb == 2^(f.bytes * 8 - 6)
  IN  IF s.kind = "infinity" THEN [ok |-> TRUE, bits |-> Sign(s.neg, f) + 30 * comb]
      ELSE IF Len(payload) > f.precision - 1 THEN Refused
      ELSE [ok |-> TRUE, bits |-> Sign(s.neg, f) + 31 * comb + (IF s.kind = "snan" THEN 2^(f.cb + f.eb - 1) ELSE 0)
                                  + EncodeContinuation(LeftPad(payload, f.precision - 1))]
FiniteBits(neg, digits, e, f) ==
  LET comb == IF digits[1] <= 7 THEN (e \div 2^f.eb) * 8 + digits[1] ELSE 24 + (e \div 2^f.eb) * 2 + digits[1] - 8
  IN  Sign(neg, f) + comb * 2^(f.bytes * 8 - 6) + (e % 2^f.eb) * 2^f.cb + EncodeContinuation(Tail(digits))
EncodeParsed(p, f) ==
  IF p.ok THEN [ok |-> TRUE, bits |-> FiniteBits(p.neg, LeftPad(p.digits, f.precision), p.exp + f.bias, f)] ELSE Refused
EncodeFinite(t, f) == EncodeParsed(ParseFinite(t, f), f)
EncodeDecimalFloat(t, f) == IF "kind" \in DOMAIN t THEN EncodeSpecial(t, f) ELSE EncodeFinite(t, f)

(* formatFinite: plain notation unless the number is large or very small.  *)
FormatFinite(neg, coefficient, exponent) ==
  LET digits == TrimLeadingZeros(coefficient)
      adjusted == exponent + Len(digits) - 1
      point == Len(digits) + exponent
      As(int, frac, e) == [neg |-> neg, int |-> int, frac |-> frac, exp |-> e, over |-> 0]
  IN  IF exponent <= 0 /\ adjusted >= -6
      THEN IF point > 0 THEN As(SubSeq(digits, 1, point), SubSeq(digits, point + 1, Len(digits)), 0)
           ELSE As(<<0>>, Zeros(-point) \o digits, 0)
      ELSE As(<<digits[1]>>, Tail(digits), adjusted)
DecodeDecimalFloat(bits, f) ==
  LET neg == Bit(bits, f.bytes * 8 - 1) = 1
      comb == Bits(bits, f.bytes * 8 - 6, 5)
      payload == DecodeContinuation(Bits(bits, 0, f.cb), f.precision - 1)
      msb == IF comb < 24 THEN comb \div 8 ELSE (comb \div 2) % 4
      msd == IF comb < 24 THEN comb % 8 ELSE 8 + (comb % 2)
  IN  CASE comb = 30 -> [neg |-> neg, kind |-> "infinity", payload |-> <<>>]
        [] comb = 31 -> [neg |-> neg, kind |-> IF Bit(bits, f.cb + f.eb - 1) = 1 THEN "snan" ELSE "nan",
                         payload |-> TrimLeft(payload)]
        [] comb < 30 -> FormatFinite(neg, <<msd>> \o payload, msb * 2^f.eb + Bits(bits, f.cb, f.eb) - f.bias)

-----------------------------------------------------------------------------
(* The number a text stands for: its digits without the zeros at either    *)
(* end, the power of ten of the last one, and its sign (none for zero).    *)
Number(t) ==
  LET digits == TrimLeft(t.int \o t.frac)
      zeros == TrailingZeroCount(digits)
  IN  IF digits = <<>> THEN <<>> ELSE <<t.neg, SubSeq(digits, 1, Len(digits) - zeros), t.exp - Len(t.frac) + zeros>>

(* EncodePackedDecimal takes exactly the numbers the field can hold, except*)
(* a zero written with a large exponent; DecodePackedDecimal gives the     *)
(* number back, with the field's decimals.  It refuses the others, also    *)
(* where the shift of the exponent wraps and a tiny number looks like a    *)
(* huge one or the other way round; but a number whose exponent is closer  *)
(* to either end of int than the text and the field are long may make it   *)
(* panic.                                                                  *)
PackedIsExact(t, bytes, decimals, r) ==
  LET n == Number(t)
      fits == n # <<>> => t.over = 0 /\ n[3] >= -decimals /\ Len(n[2]) + n[3] + decimals <= 2 * bytes - 1
      back == DecodePackedDecimal(r.nibbles, decimals)
      length == Len(t.int) + Len(t.frac) + decimals
  IN  PackedGeometry(bytes, decimals) =>
        /\ r.ok => fits /\ back.ok /\ Number(back.text) = n /\ Len(back.text.frac) = decimals
        /\ n # <<>> /\ fits => r.ok
        /\ r = Panics => n # <<>> /\ (t.exp < MinInt + length \/ t.exp > MaxInt - length)

(* encodeDecimalFloat takes exactly the numbers the format has, and the    *)
(* text decodeDecimalFloat makes of them stands for the same number and    *)
(* encodes to the same bytes again.                                        *)
DecimalFloatIsExact(t, f, r) ==
  LET n == Number(t)
      fits == n # <<>> => /\ Len(n[2]) <= f.precision /\ n[3] >= MinExp(f)
                          /\ n[3] <= MaxExp(f) + f.precision - Len(n[2])
      back == DecodeDecimalFloat(r.bits, f)
  IN  IF "kind" \in DOMAIN t
      THEN r.ok => back = [t EXCEPT !.payload = TrimLeft(@)]
      ELSE /\ r.ok <=> fits
           /\ r.ok => Number(back) = n /\ back.neg = t.neg /\ EncodeDecimalFloat(back, f) = r

(* The ten-bit code of encodeDpdDeclet is read back by decodeDpdDeclet, for*)
(* every three digits; and every ten bits read as three digits.            *)
DecletsRoundTrip(code) ==
  /\ code < 1000 => DecodeDpdDeclet(EncodeDpdDeclet(code)) = code /\ EncodeDpdDeclet(code) < 1024
  /\ DecodeDpdDeclet(code) \in 0..999
=============================================================================
