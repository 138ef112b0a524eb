------------------------------ MODULE ZonChar ------------------------------
(***************************************************************************)
(* The matcher of a character literal in the three runtimes: ts/src/zon.ts,*)
(* go/zon.go and rs/src/lex.rs.  A source is what follows the opening      *)
(* quote, an item one character or escape as it is spelled, and a code     *)
(* point a natural number; the widths are parameters.                      *)
(***************************************************************************)
EXTENDS Integers, Sequences

CONSTANTS Surrogates,  \* 0xD800..0xDFFF
          MaxPoint,    \* 0x10FFFF
          IntMax,      \* what Go's 32-bit parse holds
          Points,      \* bound: the code points spelled
          Sources      \* bound: the sources matched

Ports == {"TypeScript", "Go", "Rust"}

\* "plain" a character and "control" a control one; "escape" one of Zig's
\* named escapes or `\xNN`; "point" a `\u{...}`; "not an escape" what only
\* looks like one, and "quote" the closing quote.
Item == [kind : {"plain", "escape", "point"}, is : Points]
            \cup [kind : {"control", "not an escape", "quote"}, is : {0}]

VARIABLES source,    \* what follows the opening quote
          asNumber,  \* the option `charAsNumber`
          at,        \* by runtime: the items read
          point,     \* by runtime: the code point read, -1 before
          answer     \* by runtime: [is |-> "reading", "#NR", "zon_char" or "none", of |-> its value]

vars == <<source, asNumber, at, point, answer>>

\* A code point as a string of one character.
Character(n) == [character |-> n]
Replacement == Character(-1)

-----------------------------------------------------------------------------
Here(p) == IF at[p] = Len(source) THEN [kind |-> "end", is |-> 0] ELSE source[at[p] + 1]
Reading(p) == answer[p].is = "reading" /\ point[p] = -1

Answer(p, is, of) ==
    answer' = [answer EXCEPT ![p] = [is |-> is, of |-> of]] /\ UNCHANGED <<source, asNumber, at, point>>
Take(p, n) ==
    /\ point' = [point EXCEPT ![p] = n] /\ at' = [at EXCEPT ![p] = @ + 1]
    /\ UNCHANGED <<source, asNumber, answer>>

Plain(p)   == Reading(p) /\ Here(p).kind = "plain" /\ Take(p, Here(p).is)
Escape(p)  == Reading(p) /\ Here(p).kind = "escape" /\ Take(p, Here(p).is)
Control(p) == Reading(p) /\ Here(p).kind = "control" /\ Answer(p, "zon_char", -1)

\* A code point and not a scalar value: the literal is an integer.
IsPoint(n) == n <= MaxPoint

\* Mutant: a 16-bit parse, which holds less than a code point.
ParsesShort(p, n) == p = "Go" => n < MaxPoint

\* Go's ParseInt fails past 32 bits and its matcher gives up; TypeScript
\* reads a number of any size, and Rust refuses one no 32 bits hold.
Parses(p, n) == p = "Go" => n <= IntMax

Point(p) ==
    /\ Reading(p) /\ Here(p).kind = "point"
    /\ IF ~Parses(p, Here(p).is) THEN Answer(p, "none", -1)
       ELSE IF IsPoint(Here(p).is) THEN Take(p, Here(p).is) ELSE Answer(p, "zon_char", -1)

NoCharacter(p) ==
    Reading(p) /\ Here(p).kind \in {"not an escape", "quote", "end"} /\ Answer(p, "none", -1)

\* Only a string of TypeScript's holds a lone surrogate.
Text(p, n) == IF n \in Surrogates /\ p # "TypeScript" THEN Replacement ELSE Character(n)

\* The closing quote comes next, and nothing before it.
Close(p) ==
    /\ answer[p].is = "reading" /\ point[p] # -1
    /\ IF Here(p).kind = "quote"
       THEN Answer(p, "#NR", IF asNumber THEN point[p] ELSE Text(p, point[p]))
       ELSE Answer(p, "none", -1)

Start(s, number) == /\ source = s /\ asNumber = number
                    /\ at = [p \in Ports |-> 0] /\ point = [p \in Ports |-> -1]
                    /\ answer = [p \in Ports |-> [is |-> "reading", of |-> -1]]
Init == \E s \in Sources, number \in BOOLEAN : Start(s, number)

Match(p) == Plain(p) \/ Escape(p) \/ Control(p) \/ Point(p) \/ NoCharacter(p) \/ Close(p)
Next == \E p \in Ports : Match(p)

Spec == Init /\ [][Next]_vars

-----------------------------------------------------------------------------
(* Properties.                                                             *)

Answered == \A p \in Ports : answer[p].is # "reading"

\* What DIVERGENCE.md lets the runtimes differ in, "A lone surrogate folds
\* to U+FFFD outside TypeScript": the character of a lone surrogate, and only
\* where it is asked for as a string.
Recorded == ~asNumber /\ answer["TypeScript"].is = "#NR"
                /\ answer["TypeScript"].of.character \in Surrogates

\* DIVERGENCE.md "records where a runtime produces a different result for
\* the same input": no other literal is matched in different ways.
PortsAgree == Answered => Recorded \/ \A p, q \in Ports : answer[p] = answer[q]

Wide == \E k \in DOMAIN source : source[k].kind = "point" /\ source[k].is > IntMax

\* The runtimes agree on every literal whose escape 32 bits hold.
PortsAgreeIn32Bits == ~Wide => PortsAgree
=============================================================================
