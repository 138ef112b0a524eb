---------------------------- MODULE ZonSpelling ----------------------------
(***************************************************************************)
(* js_number_to_string, rs/src/number.rs: the text a double has as the key *)
(* an `enumTag` names, which is to be JavaScript's Number::toString.  Rust *)
(* formats the double twice, once for how many digits it takes and once    *)
(* for the digits, and lays them out as ECMA-262 has it.                   *)
(*                                                                         *)
(* A double is significand * 2^exponent, of few bits; what is compared is  *)
(* counted in Units, of which every number and decimal here is a multiple. *)
(***************************************************************************)
EXTENDS Integers, Sequences

CONSTANTS Precision, MinExp, MaxExp,  \* a double's: 53 bits, -1074 and 971
          PlainDigits,                \* the integer digits of a plain spelling, 21
          PlainZeros,                 \* the decimal places of the smallest plain power of ten, 6
          Places                      \* bound: the decimal places counted

Magnitudes == {x \in [m : 1..(2^Precision - 1), e : MinExp..MaxExp] :
                  x.m >= 2^(Precision - 1) \/ x.e = MinExp}

\* A quarter of the smallest double's place, and the last decimal place.
Double(x)     == x.m * 2^(x.e - MinExp + 2) * 10^Places
Decimal(s, q) == s * 10^(q + Places) * 2^(2 - MinExp)

VARIABLES number,  \* [is, neg] of a special number, with m and e else
          key      \* its spelling, or "unread"

vars == <<number, key>>

-----------------------------------------------------------------------------
(* The standard library's formatting.                                      *)

Place(x) == 2^(x.e - MinExp + 2) * 10^Places
PowerOfTwo(x) == x.m = 2^(Precision - 1) /\ x.e > MinExp

\* The decimals a reader takes for x: those halfway to a neighbour go to the
\* even significand, and the neighbour below a power of two is nearer.
ReadsAs(d, x) ==
    LET up   == Double(x) + Place(x) \div 2
        down == Double(x) - Place(x) \div (IF PowerOfTwo(x) THEN 4 ELSE 2)
    IN IF x.m % 2 = 0 THEN d \in down..up ELSE d \in (down + 1)..(up - 1)

\* How many of x's digits stand before the point, fewer than one if zeros
\* stand behind it.
Point(x) == CHOOSE n \in (1 - Places)..10 : Decimal(1, n - 1) <= Double(x) /\ Double(x) < Decimal(1, n)

\* `{:e}`: as many digits as it takes to be read as x.
ShortestLength(x) ==
    CHOOSE k \in 1..(Point(x) + Places) :
        /\ \E s \in 10^(k - 1)..10^k : ReadsAs(Decimal(s, Point(x) - k), x)
        /\ \A j \in 1..(k - 1) : \A s \in 10^(j - 1)..10^j : ~ReadsAs(Decimal(s, Point(x) - j), x)

\* Mutant: a tie is rounded up.
RoundedUp(x, k) == (Double(x) + Decimal(1, Point(x) - k) \div 2) \div Decimal(1, Point(x) - k)

\* `{:.*e}`: x rounded to k digits, a tie to the even one.
Rounded(x, k) ==
    LET unit == Decimal(1, Point(x) - k)
        s    == Double(x) \div unit
        over == 2 * (Double(x) % unit)
    IN IF over > unit \/ (over = unit /\ s % 2 = 1) THEN s + 1 ELSE s

-----------------------------------------------------------------------------
(* The spelling.                                                           *)

\* The digits of s, most significant first.
Digits(s) == LET f[r \in 0..s] == IF r < 10 THEN <<r>> ELSE Append(f[r \div 10], r % 10) IN f[s]
Zeros(n)  == [i \in 1..n |-> 0]
Significant(digits) == CHOOSE k \in 1..Len(digits) : digits[k] # 0 /\ \A i \in (k + 1)..Len(digits) : digits[i] = 0

\* A text: a word, or the digits before and after the point and the power of
\* ten behind `e`, 0 where there is none.
Word(w) == [word |-> w, neg |-> FALSE, whole |-> <<>>, frac |-> <<>>, power |-> 0]
Text(whole, frac, power) == [word |-> "", neg |-> FALSE, whole |-> whole, frac |-> frac, power |-> power]

\* The four cases of the specification, n digits standing before the point.
Layout(digits, n) ==
    LET k == Len(digits)
    IN CASE n \in k..PlainDigits -> Text(digits \o Zeros(n - k), <<>>, 0)
         [] n \in 1..PlainDigits /\ n < k -> Text(SubSeq(digits, 1, n), SubSeq(digits, n + 1, k), 0)
         [] n \in (1 - PlainZeros)..0 -> Text(<<0>>, Zeros(-n) \o digits, 0)
         [] OTHER -> Text(<<digits[1]>>, Tail(digits), n - 1)

\* Zeros that rounding left at the end are dropped; a carry moves the point.
Finite(x) ==
    LET k      == ShortestLength(x)
        digits == Digits(Rounded(x, k))
    IN Layout(SubSeq(digits, 1, Significant(digits)), Point(x) + Len(digits) - k)

JsNumberToString(x) ==
    CASE x.is = "nan"      -> Word("NaN")
      [] x.is = "zero"     -> Text(<<0>>, <<>>, 0)
      [] x.is = "infinite" -> [Word("Infinity") EXCEPT !.neg = x.neg]
      [] x.is = "finite"   -> [Finite(x) EXCEPT !.neg = x.neg]

Special == [is : {"nan", "zero", "infinite"}, neg : BOOLEAN]
Numbers == Special \cup {[is |-> "finite", neg |-> neg, m |-> x.m, e |-> x.e] : neg \in BOOLEAN, x \in Magnitudes}

Start(x) == number = x /\ key = Word("unread")
Init == \E x \in Numbers : Start(x)
Next == key = Word("unread") /\ key' = JsNumberToString(number) /\ UNCHANGED number
Spec == Init /\ [][Next]_vars

-----------------------------------------------------------------------------
(* Number::toString, ECMA-262 6.1.6.1.20, as what it asks of a text.       *)

Value(digits) == LET f[i \in 0..Len(digits)] == IF i = 0 THEN 0 ELSE 10 * f[i - 1] + digits[i] IN f[Len(digits)]

\* The decimals of k digits about x.
Near(x, k) == {Decimal(s, n - k) : s \in 10^(k - 1)..(10^k - 1), n \in {Point(x)}} \cup {Decimal(1, Point(x))}
Distance(d, x) == IF d > Double(x) THEN d - Double(x) ELSE Double(x) - d

\* Of the fewest digits that are read as x those nearest to it, and of two as
\* near the even ones.
Chosen(digits, d, x) ==
    /\ ReadsAs(d, x)
    /\ \A j \in 1..(Len(digits) - 1) : \A c \in Near(x, j) : ~ReadsAs(c, x)
    /\ \A c \in Near(x, Len(digits)) \ {d} : ReadsAs(c, x) =>
          \/ Distance(d, x) < Distance(c, x)
          \/ Distance(d, x) = Distance(c, x) /\ digits[Len(digits)] % 2 = 0

\* Written out between the two thresholds, with a power of ten beyond.
LaidOut(t, d) ==
    LET plain == Decimal(1, -PlainZeros) <= d /\ d < Decimal(1, PlainDigits)
    IN /\ plain <=> t.power = 0
       /\ ~plain => Len(t.whole) = 1
       /\ Len(t.whole) > 1 => t.whole[1] # 0
       /\ t.frac # <<>> => t.frac[Len(t.frac)] # 0

ToString(x, t) ==
    CASE x.is = "nan"      -> t = Word("NaN")
      [] x.is = "zero"     -> t = Text(<<0>>, <<>>, 0)
      [] x.is = "infinite" -> t.word = "Infinity" /\ t.neg = x.neg
      [] x.is = "finite"   ->
         LET all  == t.whole \o t.frac
             from == CHOOSE i \in DOMAIN all : all[i] # 0 /\ \A j \in 1..(i - 1) : all[j] = 0
             d    == Decimal(Value(all), t.power - Len(t.frac))
         IN t.neg = x.neg /\ Chosen(SubSeq(all, from, Significant(all)), d, x) /\ LaidOut(t, d)

Spelt == key # Word("unread")

\* "JavaScript's Number::toString (ECMA-262 6.1.6.1.20), which is what the
\* canonical plugin's computed property key spells" (rs/src/number.rs), of
\* every number.
SpeltAsJavaScript == Spelt => ToString(number, key)

\* What holds of it: of every number but the powers of two, below which the
\* numbers lie closer, so that the nearest decimal may be another's.
SpeltButPowersOfTwo == Spelt /\ ~(number.is = "finite" /\ PowerOfTwo(number)) => ToString(number, key)
=============================================================================
