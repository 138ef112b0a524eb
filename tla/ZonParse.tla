------------------------------ MODULE ZonParse ------------------------------
(***************************************************************************)
(* The grammar: the alternates of zon-grammar.jsonic, put before the ones  *)
(* they share a rule with in the relaxed-JSON grammar, and the two hooks   *)
(* of rs/src/lib.rs, run by the engine's rule machine.  The machine is not *)
(* in this repository: here it is a stack of rules, each with an open and  *)
(* a close state, that reads at most two tokens ahead.                     *)
(*                                                                         *)
(* A token is its type and, where it has one, the text it stands for.  The *)
(* tokens come one at a time, in any order a lexer that keeps its promise  *)
(* about `.{` may send them; ZonLex is that lexer.                         *)
(***************************************************************************)
EXTENDS ZonTokens, FiniteSets

CONSTANTS EnumTag,   \* whether `enumTag` is set
          MaxDepth,  \* tabnas-jsonic's budget of open containers
          MaxTokens  \* bound: the tokens of a source

ASSUME ParseAssumption ==
    /\ EnumTag \in BOOLEAN
    /\ MaxDepth \in Nat \ {0} /\ MaxTokens \in Nat \ {0}

Rules == {"val", "map", "list", "pair", "elem"}

VARIABLES ahead,   \* the tokens lexed and not consumed
          read,    \* every token lexed
          stack,   \* the open rules, the innermost last
          status,  \* "parsing", "accepted", or the code of an error
          result   \* the value of the document

vars == <<ahead, read, stack, status, result>>

-----------------------------------------------------------------------------
(* Values.                                                                 *)

Undefined == [kind |-> "undefined"]
Scalar(text) == [kind |-> "scalar", text |-> text]
Tagged(text) == [kind |-> "tagged", text |-> text]
List(items)  == [kind |-> "list", items |-> items]
Map(fields)  == [kind |-> "map", fields |-> fields]

HasField(node, key) == \E i \in DOMAIN node.fields : node.fields[i].key = key

\* jsonic's assignment: the last one wins.
Assign(node, key, value) ==
    LET kept == IF HasField(node, key) THEN SelectSeq(node.fields, LAMBDA f : f.key # key)
                ELSE node.fields
    IN Map(Append(kept, [key |-> key, value |-> value]))

-----------------------------------------------------------------------------
(* The alternates.  `s` holds the token sets that must come next, `b` how  *)
(* many of those tokens are given back, `p` the rule pushed and `r` the    *)
(* rule that takes this one's place.                                       *)

\* The rule that an alternate without `p` pushes.
None == "no rule"

Alt(s, b, p, r) == [s |-> s, b |-> b, p |-> p, r |-> r, array |-> FALSE]
Array(alt) == [alt EXCEPT !.array = TRUE]  \* `a: '@array$'`

ValOpen   == << Alt(<<{"#OS"}, {"#CB"}>>, 2, "list", None) >>
ListClose == << Alt(<<{"#CB"}>>, 0, None, None) >>

ListOpen  == << Array(Alt(<<{"#OS"}, {"#CB"}>>, 1, None, None)), Array(Alt(<<{"#OS"}>>, 0, "elem", None)) >>

\* Mutant: the comma on its own is tried before the comma and the brace.
CommaFirst(rule) == << Alt(<<{"#CA"}>>, 0, None, rule), Alt(<<{"#CA"}, {"#CB"}>>, 1, None, None),
                       Alt(<<{"#CB"}>>, 1, None, None) >>

\* Mutant: the next member of a struct is taken for an element.
NextElement(rule) == << Alt(<<{"#CA"}, {"#CB"}>>, 1, None, None), Alt(<<{"#CA"}>>, 0, None, "elem"),
                        Alt(<<{"#CB"}>>, 1, None, None) >>

\* The close of a pair and of an element: a comma may come before the brace.
MemberClose(rule) == << Alt(<<{"#CA"}, {"#CB"}>>, 1, None, None), Alt(<<{"#CA"}>>, 0, None, rule),
                        Alt(<<{"#CB"}>>, 1, None, None) >>

\* What the relaxed-JSON grammar keeps of its own, `jsonic` and `imp` excluded.
Json == [
    val  |-> [open  |-> << Alt(<<{"#OB"}>>, 1, "map", None), Alt(<<{"#OS"}>>, 1, "list", None),
                           Alt(<<VAL>>, 0, None, None) >>,
              close |-> << Alt(<<>>, 0, None, None) >>],
    map  |-> [open  |-> << Alt(<<{"#OB"}, {"#CB"}>>, 1, None, None), Alt(<<{"#OB"}>>, 0, "pair", None) >>,
              close |-> << Alt(<<{"#CB"}>>, 0, None, None) >>],
    list |-> [open  |-> << Alt(<<{"#OS"}>>, 0, "elem", None) >>, close |-> << >>],
    pair |-> [open  |-> << Alt(<<KEY, {"#CL"}>>, 0, "val", None) >>,
              close |-> << Alt(<<{"#CA"}>>, 0, None, "pair"), Alt(<<{"#CB"}>>, 1, None, None) >>],
    elem |-> [open  |-> << Alt(<<>>, 0, "val", None) >>,
              close |-> << Alt(<<{"#CA"}>>, 0, None, "elem") >>]]

Zon == [
    val  |-> [open |-> ValOpen,  close |-> << >>],
    map  |-> [open |-> << >>,    close |-> << >>],
    list |-> [open |-> ListOpen, close |-> ListClose],
    pair |-> [open |-> << >>,    close |-> MemberClose("pair")],
    elem |-> [open |-> << >>,    close |-> MemberClose("elem")]]

\* ZON's alternates are put before those of the rule it reshapes.
Alternates(rule, state) == Zon[rule][state] \o Json[rule][state]

-----------------------------------------------------------------------------
(* The rule machine.                                                       *)

Top == stack[Len(stack)]
Parent == stack[Len(stack) - 1]

Matches(alt) == /\ Len(alt.s) <= Len(ahead)
                /\ \A i \in DOMAIN alt.s : ahead[i].type \in alt.s[i]
Matching == LET alts == Alternates(Top.rule, Top.state) IN {i \in DOMAIN alts : Matches(alts[i])}
Taken == LET M == Matching IN Alternates(Top.rule, Top.state)[CHOOSE i \in M : \A j \in M : i <= j]
Rest  == SubSeq(ahead, Len(Taken.s) - Taken.b + 1, Len(ahead))

\* A rule as it is pushed: jsonic gives a map its node, and a list none.
Rule(name) == [rule |-> name, state |-> "open", o0 |-> [type |-> "", text |-> ""], child |-> Undefined,
               node |-> IF name = "map" THEN Map(<<>>) ELSE Undefined]
Pushed(name) == IF name = None THEN << >> ELSE << Rule(name) >>

Ready == /\ status = "parsing"
         /\ Len(ahead) = 2 \/ (Len(ahead) = 1 /\ ahead[1].type = "#ZZ")

Lex(t) ==
    /\ status = "parsing" /\ Len(ahead) < 2
    /\ \A i \in DOMAIN ahead : ahead[i].type # "#ZZ"
    /\ t.type = "#ZZ" \/ Len(read) < MaxTokens
    /\ PeekKept(Append(read, t))
    /\ ahead' = Append(ahead, t)
    /\ read' = Append(read, t)
    /\ UNCHANGED <<stack, status, result>>

Fail(code) == status' = code /\ UNCHANGED <<ahead, read, stack, result>>

Containers == {"map", "list"}
Depth == Cardinality({i \in DOMAIN stack : stack[i].rule \in Containers})

\* Mutant: the struct is asked after the pair's value, which is not there.
DuplicateMissed == Top.rule = "pair" /\ Top.state = "close" /\ Top.child = Parent.node

\* The guard put before jsonic's assignment, and so before the alternates:
\* the pair's field is in the struct already.
Duplicate == Top.rule = "pair" /\ Top.state = "close" /\ HasField(Parent.node, Top.o0.text)

\* No alternate of the rule matches.
Unexpected == Ready /\ Matching = {} /\ ~Duplicate /\ Fail("unexpected")

Cancel == Ready /\ Top.state = "open" /\ Depth > MaxDepth /\ Fail("cancel")

Open ==
    /\ Ready /\ Top.state = "open" /\ Matching # {} /\ Depth <= MaxDepth
    /\ stack' = [stack EXCEPT ![Len(stack)] =
                    [Top EXCEPT !.state = "close", !.o0 = ahead[1],
                                !.node = IF Taken.array THEN List(<<>>) ELSE Top.node]] \o Pushed(Taken.p)
    /\ ahead' = Rest
    /\ UNCHANGED <<read, status, result>>

Closing(rule) == Ready /\ Top.state = "close" /\ Top.rule = rule /\ Matching # {}

\* The rewrap of an enum literal, which a `.name` token alone is marked as.
Rewrap(o0, value) ==
    IF EnumTag /\ value.kind = "scalar" /\ o0.type = "#TX" THEN Tagged(o0.text) ELSE value

\* jsonic resolves the node from the child or the token; then it is rewrapped.
CloseVal ==
    /\ Closing("val")
    /\ LET node == IF Top.child # Undefined THEN Top.child ELSE Rewrap(Top.o0, Scalar(Top.o0.text))
           last == Len(stack) = 1
       IN /\ stack' = IF last THEN << >>
                      ELSE [SubSeq(stack, 1, Len(stack) - 1) EXCEPT ![Len(stack) - 1].child = node]
          /\ result' = IF last THEN node ELSE result
          /\ status' = IF ~last THEN status
                       ELSE IF ahead[1].type = "#ZZ" THEN "accepted" ELSE "unexpected"
    /\ ahead' = Rest
    /\ UNCHANGED read

CloseContainer(rule) ==
    /\ Closing(rule)
    /\ stack' = [SubSeq(stack, 1, Len(stack) - 1) EXCEPT ![Len(stack) - 1].child = Top.node]
    /\ ahead' = Rest
    /\ UNCHANGED <<read, status, result>>

\* A member has been added to its container's node.
Added(node) ==
    /\ stack' = [SubSeq(stack, 1, Len(stack) - 1) EXCEPT ![Len(stack) - 1].node = node] \o Pushed(Taken.r)
    /\ ahead' = Rest
    /\ UNCHANGED <<read, status, result>>

DuplicateField == Ready /\ Duplicate /\ Fail("zon_dup_field")
ClosePair == Closing("pair") /\ ~Duplicate /\ Added(Assign(Parent.node, Top.o0.text, Top.child))
CloseElem == Closing("elem") /\ Added(List(Append(Parent.node.items, Top.child)))

Init ==
    /\ ahead = << >> /\ read = << >> /\ stack = << Rule("val") >>
    /\ status = "parsing" /\ result = Undefined

Next ==
    \/ \E t \in Tokens : Lex(t)
    \/ Open \/ Unexpected \/ Cancel
    \/ CloseVal \/ DuplicateField \/ ClosePair \/ CloseElem
    \/ \E rule \in Containers : CloseContainer(rule)

Spec == Init /\ [][Next]_vars

-----------------------------------------------------------------------------
(* Properties.                                                             *)

\* Every variable has its type; a container's rule has a node of its kind.
TypeOK ==
    /\ ahead \in Seq(Tokens) /\ Len(ahead) <= 2
    /\ read \in Seq(Tokens)
    /\ status \in {"parsing", "accepted", "unexpected", "cancel", "zon_dup_field"}
    /\ \A i \in DOMAIN stack :
        /\ stack[i].rule \in Rules /\ stack[i].state \in {"open", "close"}
        /\ stack[i].rule = "map" => stack[i].node.kind = "map"
        /\ stack[i].rule = "list" /\ stack[i].state = "close" => stack[i].node.kind = "list"

\* The rules nest as a document does: a value, its container, a member of
\* that container, the member's value.  Each container is waiting to be
\* closed while a member of it is open, so a brace closes the container it
\* is in, whichever way that was opened.
Nested ==
    /\ TypeOK
    /\ stack # <<>> => stack[1].rule = "val"
    /\ \A i \in DOMAIN stack \ {1} :
        /\ stack[i - 1].state = "close"
        /\ CASE stack[i].rule = "val"  -> stack[i - 1].rule \in {"pair", "elem"}
             [] stack[i].rule = "pair" -> stack[i - 1].rule = "map"
             [] stack[i].rule = "elem" -> stack[i - 1].rule = "list"
             [] OTHER -> stack[i - 1].rule = "val"
=============================================================================
