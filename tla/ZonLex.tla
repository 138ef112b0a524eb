------------------------------- MODULE ZonLex -------------------------------
(***************************************************************************)
(* The lexer: the matchers of rs/src/lex.rs in their order, the fixed      *)
(* tokens and comments the plugin leaves to the engine, and the cursor     *)
(* they move over a source.  Characters are themselves; the scalars of a   *)
(* number and a character literal are lexed elsewhere, and a string is     *)
(* followed only as far as its end.                                        *)
(***************************************************************************)
EXTENDS ZonTokens, FiniteSets

CONSTANTS Sources  \* bound: the sources lexed, sequences of characters

Line  == {"\n", "\r"}
Blank == {" ", "\t"}
IdStart == {"a", "_"}
IdCont  == IdStart \cup {"1"}

Quote     == "\""
Backslash == "\\"
EOF       == "end of input"

\* What a string may not hold, and the escapes of one character.
Control == Line \cup {"\t"}
Escapes == {Backslash, Quote, "'", "n", "r", "t"}

VARIABLES src,     \* the source
          at,      \* the cursor, the place of the next character
          tokens   \* the tokens lexed

vars == <<src, at, tokens>>

-----------------------------------------------------------------------------
(* Looking ahead.                                                          *)

Char(i) == IF i \in DOMAIN src THEN src[i] ELSE EOF
Begins(i, word) == i + Len(word) - 1 <= Len(src) /\ SubSeq(src, i, i + Len(word) - 1) = word

\* The first place from i on where a character outside S stands.
Past(i, S) == CHOOSE k \in i..(Len(src) + 1) :
                 Char(k) \notin S /\ \A j \in i..(k - 1) : Char(j) \in S
LineEnd(i) == CHOOSE k \in i..(Len(src) + 1) :
                 Char(k) \in Line \cup {EOF} /\ \A j \in i..(k - 1) : Char(j) \notin Line

\* Mutant: one slash begins a comment.
SkipSlash(i) ==
    LET f[k \in 1..(Len(src) + 1)] ==
            IF Char(k) \in Line \cup Blank THEN f[k + 1]
            ELSE IF Begins(k, <<"/">>) THEN f[LineEnd(k)] ELSE k
    IN f[i]

\* Past whitespace, line ends and `//` comments.
SkipInsig(i) ==
    LET f[k \in 1..(Len(src) + 1)] ==
            IF Char(k) \in Line \cup Blank THEN f[k + 1]
            ELSE IF Begins(k, <<"/", "/">>) THEN f[LineEnd(k)] ELSE k
    IN f[i]

\* Past the quote that ends the string whose body is at i; 0 if malformed.
\* Escapes of bytes and code points, and with them a name that holds U+0000,
\* are left to ZonString.
StringEnd(i) ==
    LET f[k \in 1..(Len(src) + 3)] ==
            CASE Char(k) = Quote -> k + 1
              [] Char(k) = Backslash -> IF Char(k + 1) \in Escapes THEN f[k + 2] ELSE 0
              [] Char(k) \in Control \cup {EOF} -> 0
              [] OTHER -> f[k + 1]
    IN f[i]

\* Past the name at i, quoted or plain; 0 if there is none.
NameEnd(i) ==
    IF Begins(i, <<"@", Quote>>) THEN StringEnd(i + 2)
    ELSE IF Char(i) \in IdStart THEN Past(i, IdCont) ELSE 0

\* Mutant: a quoted name is not seen.
PeekPlainOnly(i) ==
    LET dot == SkipInsig(i)
        name == SkipInsig(dot + 1)
    IN /\ Char(dot) = "." /\ Char(name) \in IdStart
       /\ Char(SkipInsig(Past(name, IdCont))) = "="

\* Whether a field name and `=` come after the brace.
PeekIsMapOpen(i) ==
    LET dot  == SkipInsig(i)
        name == SkipInsig(dot + 1)
    IN /\ Char(dot) = "." /\ NameEnd(name) # 0
       /\ Char(SkipInsig(NameEnd(name))) = "="

-----------------------------------------------------------------------------
(* The matchers.                                                           *)

Lexing == at <= Len(src) /\ \A i \in DOMAIN tokens : tokens[i].type # "#BD"
Mark(type) == [type |-> type, text |-> ""]

Emit(token, end) ==
    /\ tokens' = Append(tokens, token)
    /\ at' = end
    /\ UNCHANGED src
Bad == Emit(Mark("#BD"), at)

\* `.{`, `.@"name"` and `.name`, with anything insignificant after the dot.
DotBrace ==
    LET d == SkipInsig(at + 1)
    IN /\ Lexing /\ Char(at) = "." /\ Char(d) = "{"
       /\ Emit(Mark(IF PeekIsMapOpen(d + 1) THEN "#OB" ELSE "#OS"), d + 1)

DotQuoted ==
    LET d == SkipInsig(at + 1)
        end == StringEnd(d + 2)
    IN /\ Lexing /\ Char(at) = "." /\ Begins(d, <<"@", Quote>>)
       /\ IF end > d + 3 THEN \E t \in Texts : Emit([type |-> "#TX", text |-> t], end) ELSE Bad

DotName ==
    LET d == SkipInsig(at + 1)
    IN /\ Lexing /\ Char(at) = "." /\ Char(d) \in IdStart
       /\ \E t \in Texts : Emit([type |-> "#TX", text |-> t], Past(d, IdCont))

Scalar(end) == \E t \in Contents : Emit([type |-> "#NR", text |-> t], end)

\* Past a run of `\\` lines, the blank lines between them included.
LinesEnd(i) ==
    LET f[k \in 1..(Len(src) + 1)] ==
            LET eol  == LineEnd(k)
                next == IF Begins(eol, <<"\r", "\n">>) THEN eol + 2
                        ELSE IF eol <= Len(src) THEN eol + 1 ELSE eol
                peek == Past(next, Line \cup Blank)
            IN IF Begins(peek, <<Backslash, Backslash>>) THEN f[peek] ELSE next
    IN f[i]

MultiString == Lexing /\ Begins(at, <<Backslash, Backslash>>) /\ Scalar(LinesEnd(at))

\* Mutant: the comment has to be longer than its mark.
IsLongDoc(i) == \/ Begins(i, <<"/", "/", "!">>)
                \/ Begins(i, <<"/", "/", "/">>) /\ Char(i + 3) \notin {"/", EOF}

\* `//!` and `///`; four slashes and more are an ordinary comment.
IsDoc(i) == \/ Begins(i, <<"/", "/", "!">>)
            \/ Begins(i, <<"/", "/", "/">>) /\ Char(i + 3) # "/"

DocComment == Lexing /\ IsDoc(at) /\ Bad

String == /\ Lexing /\ Char(at) = Quote
          /\ IF StringEnd(at + 1) # 0 THEN Scalar(StringEnd(at + 1)) ELSE Bad

-----------------------------------------------------------------------------
(* What the options leave to the engine: `}`, `=` and `,`, whitespace,     *)
(* line comments, and the refusal of everything else.                      *)

Fixed == [c \in {"}", "=", ","} |-> CASE c = "}" -> "#CB" [] c = "=" -> "#CL" [] c = "," -> "#CA"]

FixedToken == Lexing /\ Char(at) \in DOMAIN Fixed /\ Emit(Mark(Fixed[Char(at)]), at + 1)

Ignore(end) == at' = end /\ UNCHANGED <<src, tokens>>

Space   == Lexing /\ Char(at) \in Line \cup Blank /\ Ignore(Past(at, Line \cup Blank))
Comment == Lexing /\ Begins(at, <<"/", "/">>) /\ ~IsDoc(at) /\ Ignore(LineEnd(at))

Matched ==
    \/ Char(at) = "." /\ \/ Char(SkipInsig(at + 1)) \in {"{"} \cup IdStart
                         \/ Begins(SkipInsig(at + 1), <<"@", Quote>>)
    \/ Char(at) \in {Quote} \cup DOMAIN Fixed \cup Line \cup Blank
    \/ Begins(at, <<Backslash, Backslash>>) \/ Begins(at, <<"/", "/">>)

Unexpected == Lexing /\ ~Matched /\ Bad

Start(s) == src = s /\ at = 1 /\ tokens = <<>>
Init == \E s \in Sources : Start(s)

Next == \/ DotBrace \/ DotQuoted \/ DotName \/ MultiString \/ DocComment \/ String
        \/ FixedToken \/ Space \/ Comment \/ Unexpected

Spec == Init /\ [][Next]_vars

-----------------------------------------------------------------------------
(* Properties.                                                             *)

\* The brace is classed by a scanner of its own, `peek_is_map_open`, which
\* must see the tokens the matchers then make: the promise to the grammar.
LexerKeepsPromise == PeekKept(tokens)

Lexed == at = Len(src) + 1 /\ \A i \in DOMAIN tokens : tokens[i].type # "#BD"

Unquoted == \A i \in DOMAIN src : src[i] \notin {Quote, Backslash}

\* In such a source a comment is what follows the first `//` of a line.
Commented(i) == \E s \in 1..i : /\ Begins(s, <<"/", "/">>)
                                /\ \A j \in s..i : src[j] \notin Line
Count(c) == Cardinality({i \in DOMAIN src : src[i] = c /\ ~Commented(i)})
Made(types) == Cardinality({i \in DOMAIN tokens : tokens[i].type \in types})

\* In a source without strings, every brace, comma and equals sign outside a
\* comment is a token, and none inside one is: looking ahead swallows and
\* invents nothing.
NothingSwallowed ==
    Lexed /\ Unquoted =>
        /\ Count("{") = Made({"#OB", "#OS"}) /\ Count("}") = Made({"#CB"})
        /\ Count("=") = Made({"#CL"}) /\ Count(",") = Made({"#CA"})

\* A comment of exactly three slashes, or of two and `!`, begins at i.
DocAt(i) == /\ Begins(i, <<"/", "/">>) /\ ~(i > 1 /\ Commented(i - 1) /\ src[i] \notin Line)
            /\ Char(i + 2) = "!" \/ (Char(i + 2) = "/" /\ Char(i + 3) # "/")

\* "`//!` and `///` are Zig DOC comments, which ZON rejects outright"
\* (rs/src/lex.rs), in a source without strings.
DocCommentsRefused == Lexed /\ Unquoted => ~\E i \in DOMAIN src : DocAt(i)

\* What holds of it: a doc comment is let through only between a dot and
\* what the dot is put before, where the dot's own matcher skips it.
DocCommentsRefusedBetweenTokens ==
    Lexed /\ Unquoted => \A i \in DOMAIN src : DocAt(i) =>
                 \E d \in 1..(i - 1) : src[d] = "." /\ ~Commented(d) 
                                       /\ \A j \in (d + 1)..(i - 1) :
                                            src[j] \in Line \cup Blank \/ Commented(j)
=============================================================================
