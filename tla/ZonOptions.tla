----------------------------- MODULE ZonOptions -----------------------------
(***************************************************************************)
(* The plugin's options: the typed ones of rs/src/lib.rs, the bag of       *)
(* engine values they travel in, and how each port reads a bag, whose      *)
(* fields may hold anything.  TypeScript is the canonical reading.         *)
(*                                                                         *)
(* A value is its kind and its JavaScript source.                          *)
(***************************************************************************)
EXTENDS Integers, Sequences

CONSTANTS Names   \* the strings a tag may be, the empty one among them

NoTag == "no tag"
Empty == ""
ASSUME OptionsAssumption == Empty \in Names /\ NoTag \notin Names

\* The fields a caller may set, and what to; "null" and "undefined" are kinds.
\* The numbers are spelled alike by both ports but for 2^89, a power of two
\* whose shortest spelling the Rust port misses.
Of(is, of) == [is |-> is, of |-> of]
PowerOfTwo == Of("number", "2^89")
Values == {Of("undefined", "undefined"), Of("null", "null")}
              \cup {Of("bool", b) : b \in {"true", "false"}}
              \cup {Of("number", n) : n \in {"0", "-0", "NaN", "Infinity", "1", "2^89"}}
              \cup {Of("string", s) : s \in Names}
              \cup {Of("container", c) : c \in {"[]", "[1]", "{}"}}

Fields == {"charAsNumber", "enumTag"}
Bags   == UNION {[F -> Values] : F \in SUBSET Fields}

Options(chars, tag) == [charAsNumber |-> chars, enumTag |-> tag]
Typed == [charAsNumber : BOOLEAN, enumTag : Names \cup {NoTag}]

-----------------------------------------------------------------------------
(* Rust.                                                                   *)

\* The typed options as a bag: serde writes both fields.
ToValue(o) ==
    [f \in Fields |->
        IF f = "charAsNumber" THEN Of("bool", IF o.charAsNumber THEN "true" ELSE "false")
        ELSE IF o.enumTag = NoTag THEN Of("null", "null") ELSE Of("string", o.enumTag)]

Default == Options(FALSE, NoTag)

\* What a caller leaves out is the default (the engine).
Over(f, g)  == [x \in DOMAIN f \cup DOMAIN g |-> IF x \in DOMAIN f THEN f[x] ELSE g[x]]
Merged(bag) == Over(bag, ToValue(Default))

\* JavaScript's truthiness.
Truthy(v) ==
    \/ v.is = "bool"   /\ v.of = "true"
    \/ v.is = "number" /\ v.of \notin {"0", "-0", "NaN"}
    \/ v.is = "string" /\ v.of # Empty
    \/ v.is = "container"

\* A truthy value as the key it names: itself, a container's JSON, and for a
\* number its spelling, which at a power of two is another double's
\* (ZonSpelling has the algorithm, and the powers).
KeyOf(v) == IF v = PowerOfTwo THEN "another double" ELSE v.of

\* A string verbatim, whatever it is; anything else only if it is truthy.
TagOf(v) == IF v.is = "string" \/ Truthy(v) THEN KeyOf(v) ELSE NoTag

\* Mutant: the bag is read as a whole, and one bad field is all defaults.
WholeBag(bag) ==
    IF "enumTag" \in DOMAIN bag /\ bag["enumTag"].is \notin {"string", "null"} THEN Default
    ELSE Options("charAsNumber" \in DOMAIN bag /\ Truthy(bag["charAsNumber"]),
                 IF "enumTag" \in DOMAIN bag THEN TagOf(bag["enumTag"]) ELSE NoTag)

\* Each field on its own.
FromValue(bag) ==
    Options("charAsNumber" \in DOMAIN bag /\ Truthy(bag["charAsNumber"]),
            IF "enumTag" \in DOMAIN bag THEN TagOf(bag["enumTag"]) ELSE NoTag)

\* The empty tag is none, where it is used.
Tag(o) == IF o.enumTag = Empty THEN NoTag ELSE o.enumTag

-----------------------------------------------------------------------------
(* TypeScript: `!!options.charAsNumber`, `options.enumTag || null`, and a  *)
(* computed property key.                                                  *)

Falsy == {Of("undefined", "undefined"), Of("null", "null"), Of("bool", "false"), Of("number", "0"),
          Of("number", "-0"), Of("number", "NaN"), Of("string", Empty)}

\* String(v) of what is not falsy.
PropertyKey(v) ==
    IF v.is # "container" THEN v.of
    ELSE CASE v.of = "[]" -> Empty [] v.of = "[1]" -> "1" [] v.of = "{}" -> "[object Object]"

Canonical(bag) ==
    Options("charAsNumber" \in DOMAIN bag /\ bag["charAsNumber"] \notin Falsy,
            IF "enumTag" \in DOMAIN bag /\ bag["enumTag"] \notin Falsy
            THEN PropertyKey(bag["enumTag"]) ELSE NoTag)

\* "An ARRAY or an OBJECT keeps its JSON spelling in Rust" (DIVERGENCE.md), and
\* a power of two may be misspelled there: a tag each port spells its own way.
OwnSpelling(bag) ==
    "enumTag" \in DOMAIN bag /\ (bag["enumTag"].is = "container" \/ bag["enumTag"] = PowerOfTwo)

\* The options a bag asks for.
Asked(bag) ==
    IF OwnSpelling(bag) THEN [Canonical(bag) EXCEPT !.enumTag = KeyOf(bag["enumTag"])] ELSE Canonical(bag)
=============================================================================
