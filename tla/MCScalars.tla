----------------------------- MODULE MCScalars -----------------------------
(* The lexer and the scanners, each on every short source of its own.       *)
EXTENDS ZonScalars, SequencesExt

\* Tokens: after `.{`, all that the look ahead tells apart; structure and
\* comments; lines of a string.
Braces   == {<<".", "{">> \o s : s \in BoundedSeq({".", "a", "=", "@", "\"", "/", "\n"}, 5)}
Quoted   == {<<".", "{", ".", "@", "\"">> \o s : s \in BoundedSeq({"a", "\"", "\\", "=", "/", "\n"}, 5)}
                \cup {<<".", "{", ".", "@", "\"">> \o s : s \in BoundedSeq({"t", "\"", "\\", "=", "\t"}, 4)}
Plain    == BoundedSeq({".", "{", "}", "=", "/", "\n"}, 5)
Comments == {<<"/", "/">> \o s : s \in BoundedSeq({"/", "!", ",", "\n"}, 5)}
Lines    == {<<"\\", "\\">> \o s : s \in BoundedSeq({"\\", "a", " ", "\n", "\r"}, 5)}
AllSources == Braces \cup Quoted \cup Plain \cup Comments \cup Lines

\* Strings: a byte of every range the decoder tells apart, in runs of up to
\* four; bodies of three items of every kind.
Byte(b)  == [kind |-> "byte", is |-> b]
Quote    == [kind |-> "quote", is |-> 0]
Edges    == {65, 128, 144, 160, 192, 194, 224, 225, 237, 240, 241, 244, 245}
Runs     == {[k \in DOMAIN s |-> Byte(s[k])] \o <<Quote>> : s \in BoundedSeq(Edges, 4)}
Some  == {Byte(b) : b \in {226, 130, 172}}
             \cup {[kind |-> "point", is |-> p] : p \in {"scalar", "surrogate", "beyond", "empty", "unbraced"}}
             \cup [kind : {"plain", "escape"}, is : {110, 92}]
             \cup [kind : {"quote", "line end", "control", "bad escape", "bad hex"}, is : {0}]
Mixed == BoundedSeq(Some, 3) \cup {s \o <<Byte(172), Quote>> : s \in BoundedSeq(Some, 3)}
AllBodies == Runs \cup Mixed

\* Numbers: every source of three characters and every literal of four, at
\* the end and before a space; those of five that could go on past a
\* literal's third.
Written == {"0", "1", "8", "b", "e", "x", "o", "X", "p", "_", "inf", "nan", ".", "+", "-", " "}
Short == LET three == BoundedSeq(Written, 3)
         IN  three \cup {s \o <<" ">> : s \in three} \cup [1..4 -> Written \ {"X", " "}]
Five == {<<"0">> \o s : s \in [1..4 -> Written \ {"nan", "inf", "X", " "}]}
            \cup {<<"1">> \o s : s \in [1..4 -> {"0", "8", "e", "p", "_", ".", "+", "-"}]}
Signed == {<<"-">> \o s : s \in [1..4 -> Written \ {"8", "nan", "+", "inf", "X", " "}]}
AllNumbers == Short \cup Five \cup Signed

\* Integers of twelve bits, in hexadecimal, octal and binary; hexadecimal
\* floats of two digits, the exponent past the cap on both sides.
Literal(digits, bits) == [digits |-> digits, bits |-> bits, float |-> FALSE, point |-> 0, exponent |-> 0]
Strings(bits, n) == BoundedSeq(0..(2^bits - 1), n) \ {<<>>}
Integers12 == {Literal(s, 4) : s \in Strings(4, 3)} \cup {Literal(s, 3) : s \in Strings(3, 4)}
                  \cup {Literal(s, 1) : s \in Strings(1, 12)}
Floats == {[digits |-> s, bits |-> 4, float |-> TRUE, point |-> p, exponent |-> e] :
              s \in Strings(4, 2), p \in 0..2, e \in -16..16}
AllLiterals == Integers12 \cup {l \in Floats : l.point <= Len(l.digits)}

\* Character literals of two items, the plain and the named scalar values.
Spelled == [kind : {"plain", "escape"}, is : (0..MaxPoint) \ Surrogates] \cup [kind : {"point"}, is : Points]
               \cup [kind : {"control", "not an escape", "quote"}, is : {0}]
AllCharacters == BoundedSeq(Spelled, 2)

\* Keys: doubles of four bits from 1/128 to 960.
SmallestExp == -7
=============================================================================
