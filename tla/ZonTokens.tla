----------------------------- MODULE ZonTokens -----------------------------
(***************************************************************************)
(* The tokens the lexer sends the grammar, and what it promises of them.   *)
(***************************************************************************)
EXTENDS Integers, Sequences

CONSTANTS Texts,    \* the texts of names
          Contents  \* what every other scalar stands for

\* #BD is a token no source spells: the lexer's refusal.
Marks == {"#OB", "#OS", "#CB", "#CL", "#CA", "#BD", "#ZZ"}
VAL   == {"#TX", "#NR"}  \* #NR stands for every scalar but a name
KEY   == {"#TX"}
Tokens == [type : Marks, text : {""}] \cup [type : {"#TX"}, text : Texts]
              \cup [type : {"#NR"}, text : Contents]

\* `.{` is #OB where a field name and `=` come next, #OS where not: the
\* brace is classed by looking ahead of the tokens, and the grammar, which
\* has one brace to close both, relies on what it was classed as.
PeekKept(s) ==
    \A i \in DOMAIN s :
        /\ s[i].type = "#OB" =>
            /\ i + 1 <= Len(s) => s[i + 1].type \in {"#TX", "#BD"}
            /\ i + 2 <= Len(s) /\ s[i + 1].type = "#TX" => s[i + 2].type \in {"#CL", "#BD"}
        /\ s[i].type = "#OS" =>
            ~(i + 2 <= Len(s) /\ s[i + 1].type = "#TX" /\ s[i + 2].type = "#CL")
=============================================================================
