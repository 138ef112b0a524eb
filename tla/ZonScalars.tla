----------------------------- MODULE ZonScalars -----------------------------
(***************************************************************************)
(* The lexer and the scalars of ZON: tokens are lexed from a source, or the *)
(* lexer stands at a string's body, a number, the digits of an integer or  *)
(* a character literal, and the scanner of that kind answers               *)
(* (rs/src/lex.rs, `register`); or a number is spelt as a key.  Each keeps *)
(* a state of its own, and those that are not asked stand at an empty      *)
(* source.                                                                 *)
(***************************************************************************)
EXTENDS Integers, Sequences

CONSTANTS Texts, Contents, Sources, \* bound: the sources lexed, ZonLex
          Bodies,      \* bound: the bodies of strings, ZonString
          Numerals,    \* bound: the sources at a number, ZonNumber
          Literals,    \* bound: the integers and hexadecimal floats, ZonBigUint
          Characters,  \* bound: the sources at a character literal, ZonChar
          LimbBits, Precision, MaxExponent, ChunkDigits, Cap,
          Surrogates, MaxPoint, IntMax, Points,
          SpeltBits, MinExp, MaxExp, PlainDigits, PlainZeros, Places  \* ZonSpelling

ASSUME WidthsAssumption ==
    /\ {LimbBits, Precision, MaxExponent, ChunkDigits, Cap} \subseteq Nat \ {0}
    /\ \A l \in Literals : l.bits \in 1..LimbBits
ASSUME PointsAssumption ==
    MaxPoint \in Nat /\ IntMax \in Nat /\ MaxPoint < IntMax /\ Surrogates \subseteq 0..MaxPoint
ASSUME SpellingAssumption ==
    /\ SpeltBits \in Nat \ {0, 1} /\ MinExp \in Int /\ MaxExp \in Int /\ MinExp <= MaxExp
    /\ PlainDigits \in Nat \ {0} /\ PlainZeros \in Nat /\ Places \in Nat

VARIABLES lexing,                                                  \* what the lexer stands at
          src, cursor, tokens,                                     \* ZonLex
          body, strAt, out, pending, decoded,                      \* ZonString
          text, i, neg, base, int, frac, exp, stage, scanned,      \* ZonNumber
          literal, left, acc, filled, limbs, chunks, held,         \* ZonBigUint
          source, asNumber, charAt, point, matched,                \* ZonChar
          number, key                                              \* ZonSpelling

lexVars  == <<src, cursor, tokens>>
strVars  == <<body, strAt, out, pending, decoded>>
numVars  == <<text, i, neg, base, int, frac, exp, stage, scanned>>
bigVars  == <<literal, left, acc, filled, limbs, chunks, held>>
charVars == <<source, asNumber, charAt, point, matched>>
keyVars  == <<number, key>>
vars == <<lexing, lexVars, strVars, numVars, bigVars, charVars, keyVars>>

Lex  == INSTANCE ZonLex WITH at <- cursor
Str  == INSTANCE ZonString WITH at <- strAt, answer <- decoded
Num  == INSTANCE ZonNumber WITH Sources <- Numerals, answer <- scanned
Big  == INSTANCE ZonBigUint WITH answer <- held
Char == INSTANCE ZonChar WITH Sources <- Characters, at <- charAt, answer <- matched
Key  == INSTANCE ZonSpelling WITH Precision <- SpeltBits

\* Every character is one, and the end of input is none; every digit is one to
\* its literal's base.
ASSUME SourcesAssumption == Sources \subseteq Seq(STRING \ {Lex!EOF})
ASSUME BodiesAssumption == Bodies \subseteq Seq(Str!Item)
ASSUME DigitsAssumption == \A l \in Literals : l.digits \in Seq(0..(Big!Power(2, l.bits) - 1))
ASSUME NumeralsAssumption == Numerals \subseteq Seq(Num!Char)
ASSUME CharactersAssumption == Points \subseteq Nat /\ Characters \subseteq Seq(Char!Item)

\* What stands for a literal where none is scanned.
NoLiteral == [digits |-> <<>>, bits |-> 1, float |-> FALSE, point |-> 0, exponent |-> 0]

NoNumber == [is |-> "zero", neg |-> FALSE]

Init ==
    /\ lexing \in {"tokens", "string", "number", "integer", "character", "key"}
    /\ IF lexing = "tokens" THEN Lex!Init ELSE Lex!Start(<<>>)
    /\ IF lexing = "string" THEN Str!Init ELSE Str!Start(<<>>)
    /\ IF lexing = "number" THEN Num!Init ELSE Num!Start(<<>>)
    /\ IF lexing = "integer" THEN Big!Init ELSE Big!Start(NoLiteral)
    /\ IF lexing = "character" THEN Char!Init ELSE Char!Start(<<>>, FALSE)
    /\ IF lexing = "key" THEN Key!Init ELSE Key!Start(NoNumber)

Token     == lexing = "tokens"    /\ Lex!Next  /\ UNCHANGED <<lexing, strVars, numVars, bigVars, charVars, keyVars>>
String    == lexing = "string"    /\ Str!Next  /\ UNCHANGED <<lexing, lexVars, numVars, bigVars, charVars, keyVars>>
Number    == lexing = "number"    /\ Num!Next  /\ UNCHANGED <<lexing, lexVars, strVars, bigVars, charVars, keyVars>>
Integer   == lexing = "integer"   /\ Big!Next  /\ UNCHANGED <<lexing, lexVars, strVars, numVars, charVars, keyVars>>
Character == lexing = "character" /\ Char!Next /\ UNCHANGED <<lexing, lexVars, strVars, numVars, bigVars, keyVars>>
Spelling  == lexing = "key"       /\ Key!Next  /\ UNCHANGED <<lexing, lexVars, strVars, numVars, bigVars, charVars>>

Next == Token \/ String \/ Number \/ Integer \/ Character \/ Spelling

Spec == Init /\ [][Next]_vars

-----------------------------------------------------------------------------
(* Properties: those of the parts, each stated and explained there.        *)

\* A brace is classed as the tokens after it are: what the grammar assumes.
LexerKeepsPromise == Lex!LexerKeepsPromise

\* Looking ahead swallows no token and invents none.
NothingSwallowed == Lex!NothingSwallowed

\* A doc comment is refused but between a dot and what the dot is put before.
DocCommentsRefusedBetweenTokens == Lex!DocCommentsRefusedBetweenTokens

\* A string is what its items spell, a run of byte escapes decoded whole, and
\* all of them are escapes Zig has.
DecodesRuns == Str!DecodesRuns

\* What is scanned as a number is a literal of ZON, all of it, and every
\* literal is scanned but -0, which is none.
ScansLiterals == Num!ScansLiterals

\* No bit of a literal is lost or counted twice, from its digits through the
\* limbs to the decimal chunks.
KeepsTheNumber == Big!KeepsTheNumber

\* An integer is the double it equals, where there is one, and else its digits.
ExactOrSpelt == Big!ExactOrSpelt

\* A hexadecimal float is its mantissa rounded once and scaled once, wherever
\* a double holds the power of two.
ScaledWhereAPowerHolds == Big!ScaledWhereAPowerHolds

\* The three runtimes agree on every character literal whose escape 32 bits
\* hold, but for the surrogates DIVERGENCE.md records.
PortsAgreeIn32Bits == Char!PortsAgreeIn32Bits

\* A number is spelt as a key the way JavaScript spells it, unless it is a
\* power of two.
SpeltButPowersOfTwo == Key!SpeltButPowersOfTwo
=============================================================================
