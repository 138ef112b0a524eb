----------------------------- MODULE ZonBigUint -----------------------------
(***************************************************************************)
(* The integer behind a number literal in a power-of-two base,             *)
(* rs/src/number.rs: its digits packed into limbs, the double it is when   *)
(* one holds it exactly, the decimal digits of its `$big` object when none *)
(* does, and the double of a hexadecimal float, its mantissa scaled.       *)
(*                                                                         *)
(* The machine's widths are parameters.  A finite double is counted in     *)
(* units of the smallest one, 2^Unit, so that every double is a natural    *)
(* number of them.                                                         *)
(***************************************************************************)
EXTENDS Integers, SequencesExt

CONSTANTS LimbBits,     \* 32
          Precision,    \* 53 significant bits
          MaxExponent,  \* 1023
          ChunkDigits,  \* 9 decimal digits are spelled at a time
          Cap,          \* 1 000 000, past which an exponent is saturated
          Literals      \* bound: [digits, bits a digit, float, point, exponent]

VARIABLES literal,  \* the literal, its digits the most significant first
          left,     \* the digits not yet packed
          acc,      \* the bits packed into no limb yet
          filled,   \* how many they are
          limbs,    \* the least significant first
          chunks,   \* of ChunkDigits decimal digits, the least significant first
          answer    \* [is |-> "" or "double", of |-> a double] or [is |-> "big", of |-> decimal digits]

vars == <<literal, left, acc, filled, limbs, chunks, answer>>

\* The number whose digits to the base b are s, the least significant first,
\* with `high` above them.
Numeral(b, s, high) ==
    LET from[k \in 1..(Len(s) + 1)] == IF k > Len(s) THEN high ELSE s[k] + b * from[k + 1]
    IN from[1]

\* A one and n zeros: b^n.
Power(b, n) == Numeral(b, [k \in 1..n |-> 0], 1)

Limb == Power(2, LimbBits)
Value(ls) == Numeral(Limb, ls, 0)
LastIsZero(ls) == ls # <<>> /\ ls[Len(ls)] = 0
Trimmed(ls) ==
    SubSeq(ls, 1, CHOOSE n \in 0..Len(ls) : /\ ~LastIsZero(SubSeq(ls, 1, n))
                                            /\ \A k \in (n + 1)..Len(ls) : ls[k] = 0)

-----------------------------------------------------------------------------
(* The doubles, and what the hardware does with them.                      *)

Inf == -1
NaN == -2
MinExponent == 1 - MaxExponent
Unit == MinExponent - Precision + 1

\* A significand of Precision bits, at every exponent.
Finite == {s * 2^e : s \in 0..(2^Precision - 1), e \in 0..(2 * MaxExponent - 1)}
Ulp(x) == 2^(CHOOSE e \in 0..(2 * MaxExponent) : x < 2^(Precision + e) /\ (e > 0 => x >= 2^(Precision + e - 1)))
Overflow == 2^(MaxExponent + 1 - Unit)

\* The double nearest to n / d units, a tie going to the even significand.
\* What rounds to the double after the last, as if there were one, is infinite.
Nearest(n, d) ==
    LET near == {x \in Finite \cup {Overflow} :
                    \A y \in Finite \cup {Overflow} : (IF x * d > n THEN x * d - n ELSE n - x * d)
                                                        <= (IF y * d > n THEN y * d - n ELSE n - y * d)}
        x == IF \E e \in near : (e \div Ulp(e)) % 2 = 0 THEN CHOOSE e \in near : (e \div Ulp(e)) % 2 = 0
             ELSE CHOOSE e \in near : TRUE
    IN IF n >= Overflow * d \/ x = Overflow THEN Inf ELSE x

Times(x, y) == CASE x = 0 /\ y = Inf -> NaN
                 [] x # 0 /\ y = Inf -> Inf
                 [] x = Inf          -> IF y = 0 THEN NaN ELSE Inf
                 [] OTHER            -> Nearest(x * y, 2^(0 - Unit))

Whole(n) == n * 2^(0 - Unit)

-----------------------------------------------------------------------------
(* The operations on limbs.                                                *)

Bit(ls, k) == LET l == k \div LimbBits + 1
              IN IF l \in DOMAIN ls THEN (ls[l] \div 2^(k % LimbBits)) % 2 ELSE 0
BitLength(ls) == LET top(l) == CHOOSE b \in 1..LimbBits : 2^(b - 1) <= l /\ l < 2^b
                 IN IF ls = <<>> THEN 0 ELSE (Len(ls) - 1) * LimbBits + top(ls[Len(ls)])
TrailingZeros(ls) ==
    IF ls = <<>> THEN 0 ELSE CHOOSE k \in 0..(BitLength(ls) - 1) : Bit(ls, k) = 1 /\ \A j \in 0..(k - 1) : Bit(ls, j) = 0
BitsFrom(ls, from, count) == FoldLeftDomain(LAMBDA sum, k : sum + Bit(ls, from + k - 1) * 2^(k - 1), 0, [k \in 1..count |-> k])
AnyBitBelow(ls, k) == \E j \in 0..(k - 1) : Bit(ls, j) = 1

\* Exactly 2^k, saturating.
Pow2(k) == CASE k > MaxExponent            -> Inf
             [] k \in Unit..MaxExponent    -> 2^(k - Unit)
             [] OTHER                      -> 0

\* Mutant: half rounds up.
HalfUp(half, sticky, mantissa) == half

\* Half rounds to even.
RoundsUp(half, sticky, mantissa) == half /\ (sticky \/ mantissa % 2 = 1)

LimbsToF64(ls) ==
    LET length == BitLength(ls)
        shift  == length - Precision
        mantissa == BitsFrom(ls, shift, Precision)
        up == RoundsUp(Bit(ls, shift - 1) = 1, AnyBitBelow(ls, shift - 1), mantissa)
    IN IF length <= Precision THEN Whole(BitsFrom(ls, 0, length))
       ELSE Times(Whole(mantissa + (IF up THEN 1 ELSE 0)), Pow2(shift))

\* At most Precision significant bits, and in the exponent's range.
IsExact(ls) == BitLength(ls) <= MaxExponent + 1 /\ BitLength(ls) - TrailingZeros(ls) <= Precision

-----------------------------------------------------------------------------
(* pack_limbs, a digit at a time from the least significant.               *)

Chunk == Power(10, ChunkDigits)

\* Mutant: the bits that do not fit are dropped.
CarryLost(sum) == 0

\* What is left of the accumulator when a limb is taken from it.
Carry(sum) == sum \div Limb

PackDigit ==
    /\ left > 0
    /\ LET sum == acc + literal.digits[left] * Power(2, filled)
       IN IF filled + literal.bits >= LimbBits
          THEN /\ limbs' = Append(limbs, sum % Limb)
               /\ acc' = Carry(sum) /\ filled' = filled + literal.bits - LimbBits
          ELSE /\ acc' = sum /\ filled' = filled + literal.bits
               /\ UNCHANGED limbs
    /\ left' = left - 1
    /\ UNCHANGED <<literal, chunks, answer>>

\* No zero limb on top.
WithoutTop(ls) == Trimmed(ls)

\* The last bits make a limb; `left` is then past the packing.
PackRest ==
    /\ left = 0
    /\ limbs' = WithoutTop(IF filled > 0 THEN Append(limbs, acc % Limb) ELSE limbs)
    /\ left' = -1 /\ acc' = 0 /\ filled' = 0
    /\ UNCHANGED <<literal, chunks, answer>>

Packed == left = -1 /\ answer.is = ""
Answer(is, of) == answer' = [is |-> is, of |-> of] /\ UNCHANGED <<literal, left, acc, filled, limbs, chunks>>

\* An integer a double holds exactly is that double.
Exact == Packed /\ ~literal.float /\ chunks = <<>> /\ IsExact(limbs) /\ Answer("double", LimbsToF64(limbs))

\* limbs_to_decimal: another chunk of decimal digits is divided off.
DivideChunk ==
    /\ Packed /\ ~literal.float /\ (chunks = <<>> => ~IsExact(limbs)) /\ limbs # <<>>
    /\ LET rem[k \in 1..(Len(limbs) + 1)] ==
               IF k > Len(limbs) THEN 0 ELSE (rem[k + 1] * Limb + limbs[k]) % Chunk
       IN /\ limbs' = Trimmed([k \in DOMAIN limbs |-> (rem[k + 1] * Limb + limbs[k]) \div Chunk])
          /\ chunks' = Append(chunks, rem[1])
    /\ UNCHANGED <<literal, left, acc, filled, answer>>

\* The decimal digits of n, as many as it has; n as exactly ChunkDigits.
Digits(n) == LET size == CHOOSE d \in 1..12 : n < 10^d /\ (d > 1 => n >= 10^(d - 1))
             IN [k \in 1..size |-> (n \div 10^(size - k)) % 10]
Padded(n) == [k \in 1..ChunkDigits |-> (n \div 10^(ChunkDigits - k)) % 10]

\* Mutant: a chunk's leading zeros are not spelled.
Spelling(chunk) == Digits(chunk)

\* Every chunk but the first is spelled with its leading zeros.
Filled(chunk) == Padded(chunk)

Spell ==
    /\ Packed /\ limbs = <<>> /\ chunks # <<>>
    /\ Answer("big", Digits(chunks[Len(chunks)]) \o
                     FlattenSeq(Reverse([k \in 1..(Len(chunks) - 1) |-> Filled(chunks[k])])))

\* A hexadecimal float: the exponent saturated, the point's digits taken off.
Saturated(e) == IF e > Cap THEN Cap ELSE IF e < -Cap THEN -Cap ELSE e
Scale == Saturated(literal.exponent) - literal.bits * literal.point

HexFloat == Packed /\ literal.float /\ Answer("double", Times(LimbsToF64(limbs), Pow2(Scale)))

Start(l) == /\ literal = l
            /\ left = Len(l.digits) /\ acc = 0 /\ filled = 0 /\ limbs = <<>>
            /\ chunks = <<>> /\ answer = [is |-> "", of |-> 0]
Init == \E l \in Literals : Start(l)

Next == PackDigit \/ PackRest \/ Exact \/ DivideChunk \/ Spell \/ HexFloat

Spec == Init /\ [][Next]_vars

-----------------------------------------------------------------------------
(* Properties.                                                             *)

\* What digits k.. denote; the whole literal.
Denotes(k) == Numeral(Power(2, literal.bits), Reverse(SubSeq(literal.digits, k, Len(literal.digits))), 0)
Number == Denotes(1)

\* No bit of a literal is lost or counted twice, at any limb's edge and in
\* any base, from the digits through the limbs to the decimal chunks.
KeepsTheNumber ==
    IF left >= 0
    THEN Numeral(Limb, limbs, acc) = Denotes(left + 1)
    ELSE Numeral(Chunk, chunks, Value(limbs)) = Number

\* "An integer whose exact value is not representable as an IEEE-754 double"
\* keeps its digits (rs/src/number.rs): an integer's answer is the double it
\* equals, where there is one, and else its decimal digits.
ExactOrSpelt ==
    answer.is # "" /\ ~literal.float =>
        IF Whole(Number) \in Finite THEN answer = [is |-> "double", of |-> Whole(Number)]
        ELSE answer = [is |-> "big", of |-> Digits(Number)]

\* A double m scaled by 2^k.  Past the bounds the answer no longer depends on
\* k: every nonzero double is infinite, or rounds to zero.
Far == 2 * (MaxExponent + Precision) + 1
ScaledBy(m, k) ==
    CASE m \in {0, Inf} -> m
      [] k >= 0 -> IF k > Far THEN Inf ELSE Nearest(m * 2^k, 1)
      [] k < 0  -> IF k < -Far THEN 0 ELSE Nearest(m, 2^(0 - k))

\* The mantissa rounded once, half to even, and scaled once.
HexValue == ScaledBy(Nearest(Whole(Number), 1), literal.exponent - literal.bits * literal.point)

\* "The mantissa, correctly rounded to a double, scaled by the power of two
\* the exponent and the radix point call for" (rs/src/number.rs), wherever a
\* double holds that power of two.
ScaledWhereAPowerHolds ==
    answer.is = "double" /\ literal.float /\ Scale \in Unit..MaxExponent => answer.of = HexValue

\* The same of every hexadecimal float.
Scaled == answer.is = "double" /\ literal.float => answer.of = HexValue
=============================================================================
