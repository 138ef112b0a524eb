---------------------------- MODULE ZonDocument ----------------------------
(***************************************************************************)
(* What a ZON document is, and what it means: a value, a tuple of values   *)
(* or a struct of distinct fields, a comma allowed before the brace, and   *)
(* nested no deeper than the budget.  Written size by size, so that TLC    *)
(* can list the documents of a few tokens, and compared with the parser.   *)
(***************************************************************************)
EXTENDS ZonParse

Mark(type) == [type |-> type, text |-> ""]

\* A phrase: its tokens, the value they mean and the containers around it.
Phrase(tokens, value, depth) == [tokens |-> tokens, value |-> value, depth |-> depth]

Scalars == {Phrase(<<[type |-> "#NR", text |-> t]>>, Scalar(t), 0) : t \in Contents}
               \cup {Phrase(<<[type |-> "#TX", text |-> t]>>,
                            IF EnumTag THEN Tagged(t) ELSE Scalar(t), 0) : t \in Texts}

\* A field and its value, and the struct that holds it alone.
Field(t, p) == Phrase(<<[type |-> "#TX", text |-> t], Mark("#CL")>> \o p.tokens,
                      Map(<<[key |-> t, value |-> p.value]>>), p.depth)
Item(p) == Phrase(p.tokens, List(<<p.value>>), p.depth)

\* A member after those before it.
Then(before, p) ==
    LET first == before.value
        value == IF first.kind = "list" THEN List(first.items \o p.value.items)
                                        ELSE Map(first.fields \o p.value.fields)
    IN Phrase(before.tokens \o <<Mark("#CA")>> \o p.tokens, value,
              IF before.depth > p.depth THEN before.depth ELSE p.depth)
\* Fields go with fields, each of a name of its own, and items with items.
Joins(before, p) ==
    /\ before.value.kind = p.value.kind
    /\ p.value.kind = "map" => ~HasField(before.value, p.value.fields[1].key)

Struct(members, comma) ==
    Phrase(<<Mark(IF members.value.kind = "map" THEN "#OB" ELSE "#OS")>> \o members.tokens
               \o (IF comma THEN <<Mark("#CA"), Mark("#CB")>> ELSE <<Mark("#CB")>>),
           members.value, members.depth + 1)

\* The tuple that holds nothing.
Empty == Phrase(<<Mark("#OS"), Mark("#CB")>>, List(<<>>), 1)

\* The values, single members and runs of members of at most n tokens, from
\* those of fewer.
Longer(less, n) ==
    LET short(p) == Len(p.tokens) <= n
        values == less.values \cup Scalars \cup {p \in {Empty} : short(p)}
                      \cup {p \in {Struct(m, c) : m \in less.runs, c \in BOOLEAN} :
                               short(p) /\ p.depth <= MaxDepth}
        members == {p \in {Field(t, v) : t \in Texts, v \in less.values} : short(p)}
                       \cup {Item(v) : v \in values}
        joined == {bm \in less.runs \X members :
                       Len(bm[1].tokens) + 1 + Len(bm[2].tokens) <= n /\ Joins(bm[1], bm[2])}
    IN [values |-> values,
        runs |-> less.runs \cup members \cup {Then(bm[1], bm[2]) : bm \in joined}]

Phrases[n \in 0..MaxTokens] ==
    IF n = 0 THEN [values |-> {}, runs |-> {}] ELSE Longer(Phrases[n - 1], n)

Documents == {[tokens |-> p.tokens \o <<Mark("#ZZ")>>, value |-> p.value] : p \in Phrases[MaxTokens].values}
Begun == UNION {{SubSeq(d.tokens, 1, n) : n \in 0..Len(d.tokens)} : d \in Documents}

\* "Zig rejects a struct literal that repeats a field name" (rs/src/lib.rs),
\* a trailing comma is allowed and nothing else is: what the parser accepts
\* is a document, and the value it hands back is the one the document
\* means, members in order and enum literals, they alone, rewrapped.
AcceptsDocuments == status = "accepted" => [tokens |-> read, value |-> result] \in Documents

\* No document is refused: an error comes only once what has been read
\* begins none.
RefusesNoDocument == status \notin {"parsing", "accepted"} => read \notin Begun
=============================================================================
