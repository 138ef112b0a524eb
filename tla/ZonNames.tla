------------------------------ MODULE ZonNames ------------------------------
(***************************************************************************)
(* The field-name convention of the render, alchemy/render.alc: how a      *)
(* member's name is spelled as a ZON field, which may be neither empty nor *)
(* hold U+0000.  A name is a sequence of characters; only `$` and U+0000   *)
(* are told apart from the rest.                                           *)
(***************************************************************************)
EXTENDS Integers, Sequences

CONSTANTS Chars,      \* the characters
          Dollar,     \* `$`
          Nul,        \* U+0000
          Names,      \* the names members may have
          EmptyName,  \* the spelling `$empty`
          JsonPrefix, \* the spelling `$json:`
          Quoted      \* a name's JSON form, U+0000 and its like escaped

Holds(name, c) == \E i \in 1..Len(name) : name[i] = c

\* `$empty` and `$json:` are `$` and different letters, neither a second `$`.
ASSUME NamesAssumption ==
    /\ Dollar \in Chars /\ Nul \in Chars /\ Dollar # Nul
    /\ \A name \in Names : name \in Seq(Chars)
    /\ \A word \in {EmptyName, JsonPrefix} :
        /\ word \in Seq(Chars) /\ Len(word) >= 2
        /\ word[1] = Dollar /\ word[2] # Dollar
        /\ ~Holds(word, Nul)
    /\ EmptyName[2] # JsonPrefix[2]

\* `quoted` writes different names differently, and no U+0000.
ASSUME QuotedAssumption ==
    /\ DOMAIN Quoted = Names
    /\ \A name \in Names : Quoted[name] \in Seq(Chars) /\ ~Holds(Quoted[name], Nul)
    /\ \A m, n \in Names : Quoted[m] = Quoted[n] => m = n

\* Mutant: a name that begins with `$` is written as it is.
FieldUndoubled(name) ==
    CASE Len(name) = 0 -> EmptyName
      [] Len(name) > 0 -> name

\* The field a name is written as.
Field(name) ==
    CASE Len(name) = 0      -> EmptyName
      [] Holds(name, Nul)   -> JsonPrefix \o Quoted[name]
      [] Len(name) > 0 /\ name[1] = Dollar /\ ~Holds(name, Nul) -> <<Dollar>> \o name
      [] OTHER              -> name

-----------------------------------------------------------------------------
(* Properties.                                                             *)

\* "No two names are written as one" (render.alc): so a struct written from
\* an object holds no field twice.
NamesKeptApart == \A m, n \in Names : Field(m) = Field(n) => m = n

\* What Zig takes as a quoted identifier.
Identifier(field) == Len(field) > 0 /\ ~Holds(field, Nul)

\* Every name is written as a field ZON accepts.
FieldsAreIdentifiers == \A name \in Names : Identifier(Field(name))
=============================================================================
