----------------------------- MODULE ZonNumber -----------------------------
(***************************************************************************)
(* The matcher of a number, rs/src/lex.rs, and the scanner behind it,      *)
(* rs/src/number.rs: from a position of the source to a literal's value    *)
(* and end, a refusal with the span it quotes, or no match, which leaves   *)
(* the position to the matchers that follow.  A source is a sequence of    *)
(* characters; the keywords `inf` and `nan` are one each.                  *)
(***************************************************************************)
EXTENDS Integers, SequencesExt, FiniteSets

CONSTANTS Sources  \* bound: the sources scanned

\* The digits' values, where a base or an exponent may tell them apart.
Digit == [c \in {"0", "1", "8", "b", "e"} |->
            CASE c = "0" -> 0 [] c = "1" -> 1 [] c = "8" -> 8 [] c = "b" -> 11 [] c = "e" -> 14]
BasePrefix == [c \in {"x", "o", "b"} |-> CASE c = "x" -> 16 [] c = "o" -> 8 [] c = "b" -> 2]
UpperPrefix == {"X"}
IdCont  == DOMAIN Digit \cup DOMAIN BasePrefix \cup UpperPrefix \cup {"p", "_", "inf", "nan"}
Blank   == " "
EOF == "end of input"
Char    == IdCont \cup {".", "+", "-", Blank}

VARIABLES text,    \* the source, from the matcher's position on
          i,       \* the characters scanned
          neg,     \* a `-` led
          base, int, frac, exp,  \* what is scanned: the base and the digits of each part
          stage,   \* the part of the literal that comes next
          answer   \* [is |-> "", "none", "bad", "float" or "int", end |-> what it spans]

vars == <<text, i, neg, base, int, frac, exp, stage, answer>>
scanned == <<base, int, frac, exp>>

\* The character k after those scanned.
Peek(k) == IF i + k \in DOMAIN text THEN text[i + k] ELSE EOF

\* The sign and the blanks before the digits.
Lead == IF text = <<>> \/ text[1] # "-" THEN 0
        ELSE CHOOSE k \in DOMAIN text : /\ \A j \in 2..k : text[j] = Blank
                                        /\ k < Len(text) => text[k + 1] # Blank

DigitsOf(b) == {c \in DOMAIN Digit : Digit[c] < b}
ExpChar(b) == CASE b = 16 -> {"p"} [] b = 10 -> {"e"} [] OTHER -> {}

\* The run of base-b digits and separators after the first k characters.
Run(k, b) ==
    LET end == CHOOSE e \in k..Len(text) :
                   /\ \A j \in (k + 1)..e : text[j] \in DigitsOf(b) \cup {"_"}
                   /\ e < Len(text) => text[e + 1] \notin DigitsOf(b) \cup {"_"}
    IN SubSeq(text, k + 1, end)

\* A `_` must sit directly between two digits.
Misplaced(run) ==
    \E k \in DOMAIN run : run[k] = "_" /\ (k \in {1, Len(run)} \/ run[k - 1] = "_")

DigitsIn(run) ==
    LET from[k \in 1..(Len(run) + 1)] ==
            IF k > Len(run) THEN <<>> ELSE (IF run[k] = "_" THEN <<>> ELSE <<run[k]>>) \o from[k + 1]
    IN from[1]

\* The greedy extent of a malformed token, which the refusal quotes.
TokenEnd ==
    LET attached(k) == text[k] \in IdCont \/ (text[k] = "." /\ k < Len(text) /\ text[k + 1] \in IdCont)
    IN CHOOSE e \in Lead..Len(text) : /\ \A k \in (Lead + 1)..e : attached(k)
                                      /\ e < Len(text) => ~attached(e + 1)

Answer(is, end) == answer' = [is |-> is, end |-> end] /\ UNCHANGED <<text, i, neg, scanned, stage>>
Bad  == Answer("bad", TokenEnd)
Going(s) == answer.is = "" /\ stage = s
Then(s) == stage' = s /\ UNCHANGED <<text, neg, answer>>

-----------------------------------------------------------------------------
(* The matcher's head: a sign, a keyword, or a digit.                      *)

Sign == /\ Going("sign")
        /\ neg' = (Lead > 0) /\ i' = Lead /\ stage' = "head"
        /\ UNCHANGED <<text, scanned, answer>>

\* `-inf` is a literal and `-nan` is not; neither is a longer name.
Keyword == /\ Going("head") /\ Peek(1) \in {"inf", "nan"} /\ Peek(2) \notin IdCont
           /\ Answer(IF Peek(1) = "nan" /\ neg THEN "bad" ELSE "float", i + 1)
NoNumber == /\ Going("head") /\ Peek(1) \notin {"0", "1", "8"}
            /\ ~(Peek(1) \in {"inf", "nan"} /\ Peek(2) \notin IdCont)
            /\ Answer("none", 0)

\* A lowercase base prefix; an uppercase one and a leading zero are refused.
Prefix == /\ Going("head") /\ Peek(1) = "0" /\ Peek(2) \in DOMAIN BasePrefix
          /\ base' = BasePrefix[Peek(2)] /\ i' = i + 2
          /\ Then("integer") /\ UNCHANGED <<int, frac, exp>>
LeadingZero == /\ Going("head") /\ Peek(1) = "0"
               /\ Peek(2) \in UpperPrefix \cup {"_", "0", "1", "8"} /\ Bad
Decimal == /\ Going("head") /\ Peek(1) \in {"0", "1", "8"}
           /\ Peek(1) = "0" => Peek(2) \notin DOMAIN BasePrefix \cup UpperPrefix \cup {"_", "0", "1", "8"}
           /\ Then("integer") /\ UNCHANGED <<i, scanned>>

-----------------------------------------------------------------------------
(* The parts of a literal.                                                 *)

IntegerPart ==
    /\ Going("integer")
    /\ LET run == Run(i, base)
       IN IF Misplaced(run) THEN Bad
          ELSE int' = DigitsIn(run) /\ i' = i + Len(run)
               /\ Then("fraction") /\ UNCHANGED <<base, frac, exp>>

\* Mutant: an empty fraction before an exponent is a stray `.`.
NeedsADigit(after) == after \in DigitsOf(base)

\* A `.` starts a fraction before a digit of the base or its exponent's letter.
StartsFraction(after) == after \in DigitsOf(base) \cup ExpChar(base)

NoFraction == /\ Going("fraction") /\ ~(Peek(1) = "." /\ StartsFraction(Peek(2)))
              /\ Then("exponent") /\ UNCHANGED <<i, scanned>>
FractionPart ==
    /\ Going("fraction") /\ Peek(1) = "." /\ StartsFraction(Peek(2))
    /\ LET run == Run(i + 1, base)
       IN IF base \notin {10, 16} \/ Misplaced(run) THEN Bad
          ELSE /\ frac' = <<".">> \o DigitsIn(run) /\ i' = i + 1 + Len(run)
               /\ Then("exponent") /\ UNCHANGED <<base, int, exp>>

NoExponent == /\ Going("exponent") /\ Peek(1) \notin ExpChar(base)
              /\ Then("end") /\ UNCHANGED <<i, scanned>>
ExponentPart ==
    /\ Going("exponent") /\ Peek(1) \in ExpChar(base)
    /\ LET sign == IF Peek(2) \in {"+", "-"} THEN 1 ELSE 0
           run == Run(i + 1 + sign, 10)
       IN IF Misplaced(run) \/ run = <<>> THEN Bad
          ELSE /\ exp' = SubSeq(text, i + 1, i + 1 + sign) \o DigitsIn(run)
               /\ i' = i + 1 + sign + Len(run)
               /\ Then("end") /\ UNCHANGED <<base, int, frac>>

IsFloat == frac # <<>> \/ exp # <<>>

\* Zig: `-0` is an ambiguous integer literal; `-0.0` is a float.
SignFits == neg => IsFloat \/ \E k \in DOMAIN int : int[k] # "0"

End == /\ Going("end")
       /\ IF (int = <<>> /\ Len(frac) < 2) \/ Peek(1) \in IdCont THEN Bad
          ELSE IF ~SignFits THEN Answer("bad", i)
          ELSE Answer(IF IsFloat THEN "float" ELSE "int", i)

Start(s) == /\ text = s /\ i = 0 /\ neg = FALSE /\ stage = "sign"
            /\ base = 10 /\ int = <<>> /\ frac = <<>> /\ exp = <<>>
            /\ answer = [is |-> "", end |-> 0]
Init == \E s \in Sources : Start(s)

Next == \/ Sign \/ Keyword \/ NoNumber \/ Prefix \/ LeadingZero \/ Decimal
        \/ IntegerPart \/ NoFraction \/ FractionPart \/ NoExponent \/ ExponentPart \/ End

Spec == Init /\ [][Next]_vars

-----------------------------------------------------------------------------
(* The literals of ZON, as the hint of `zon_number` describes them.        *)

\* An underscore goes only between two digits.
IsRun(s, b) == /\ s # <<>> /\ \A k \in DOMAIN s : s[k] \in DigitsOf(b) \cup {"_"}
               /\ \A k \in DOMAIN s : s[k] = "_" => k \notin {1, Len(s)} /\ s[k + 1] # "_"

\* Digits of the base, a fraction whose digits may be missing on either side
\* of the point but not on both, an exponent: only an integer part where the
\* base has no floats.
IsBody(s, b) ==
    \E point \in 0..Len(s), mark \in 1..(Len(s) + 1) :
        LET whole == SubSeq(s, 1, IF point = 0 THEN mark - 1 ELSE point - 1)
            part  == IF point = 0 THEN <<>> ELSE SubSeq(s, point + 1, mark - 1)
            power == SubSeq(s, mark + 1, Len(s))
            signed == power # <<>> /\ power[1] \in {"+", "-"}
        IN /\ point < mark
           /\ point # 0 => s[point] = "." /\ b \in {10, 16}
           /\ IsRun(whole, b) \/ (whole = <<>> /\ b # 10)
           /\ part = <<>> \/ IsRun(part, b)
           /\ whole # <<>> \/ part # <<>>
           /\ point # 0 /\ part = <<>> => mark <= Len(s)
           /\ mark <= Len(s) => /\ s[mark] \in ExpChar(b)
                                /\ IsRun(IF signed THEN Tail(power) ELSE power, 10)
           /\ b = 10 /\ Len(whole) > 1 => whole[1] # "0"

IsUnsigned(s) ==
    \/ IsBody(s, 10)
    \/ /\ Len(s) > 2 /\ s[1] = "0" /\ s[2] \in DOMAIN BasePrefix
       /\ IsBody(SubSeq(s, 3, Len(s)), BasePrefix[s[2]])

\* A point after an integer that asks for a fraction.
Asks(s, e) ==
    LET b == IF e > 2 /\ s[2] \in DOMAIN BasePrefix THEN BasePrefix[s[2]] ELSE 10
    IN /\ \A k \in 1..e : s[k] # "." /\ (k > 2 => s[k] \notin ExpChar(b)) /\ (b = 10 => s[k] \notin ExpChar(b))
       /\ e + 2 <= Len(s) /\ s[e + 1] = "." /\ s[e + 2] \in DigitsOf(b) \cup ExpChar(b)

\* The literal at the head of s: the longest, with nothing alphanumeric left
\* attached to it and no fraction or exponent begun and not finished.
LiteralEnds(s) ==
    {e \in 1..Len(s) : /\ IsUnsigned(SubSeq(s, 1, e))
                       /\ e < Len(s) => s[e + 1] \notin IdCont
                       /\ ~Asks(s, e)
                       /\ \A longer \in (e + 1)..Len(s) : ~IsUnsigned(SubSeq(s, 1, longer))}

-----------------------------------------------------------------------------
(* Properties.                                                             *)

\* The text behind the sign and its blanks.
Body == SubSeq(text, Lead + 1, Len(text))

\* "A ZON number is a Zig literal" and "a negative zero is written -0.0, not
\* -0" (the hint of `zon_number`, rs/src/lib.rs): where a digit leads, what
\* is scanned as a number is a literal of that description, all of it, and
\* every literal is scanned but a zero with a sign, which no base gives.
ScansLiterals ==
    answer.is # "" /\ Body # <<>> /\ Body[1] \in {"0", "1", "8"} =>
        IF answer.is \in {"int", "float"}
        THEN /\ answer.end - Lead \in LiteralEnds(Body)
             /\ neg /\ answer.is = "int" => \E k \in DOMAIN int : int[k] # "0"
        ELSE \A e \in LiteralEnds(Body) :
                neg /\ \A k \in 1..e : Body[k] \in {"0", "_"} \/ (k = 2 /\ Body[k] \in DOMAIN BasePrefix)
=============================================================================
