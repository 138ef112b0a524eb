------------------------------- MODULE Render -------------------------------
(***************************************************************************)
(* The streaming render, alchemy/render.alc: a tree's events written as    *)
(* one ZON document, with a stack of markers as its only state and the     *)
(* end of each record of the text marked in the output.                    *)
(*                                                                         *)
(* The text is a sequence of tokens; how a scalar and a name are spelled   *)
(* inside their quotes is left out.                                        *)
(***************************************************************************)
EXTENDS ZonNames

CONSTANTS Big,          \* the name `$big`
          Values,       \* the scalars: records of a kind and a text
          IntegerTexts, \* the texts of `-` and digits that `number` reads
          MaxEvents     \* the longest stream (bounds the runs)

ASSUME RenderAssumption ==
    /\ Big \in Names
    /\ MaxEvents \in Nat
    /\ \A v \in Values :
          /\ v.kind \in {"null", "boolean", "number", "string"}
          /\ v.kind = "null" => v.text = "null"
          /\ v.kind = "boolean" => v.text \in {"true", "false"}

VARIABLES stack,   \* the open containers' markers, the innermost last
          text,    \* the tokens written
          seen,    \* the events taken so far
          status   \* "running", "refused" (an event no tree has), "cut short" or "finished"

vars == <<stack, text, seen, status>>

Event(name) == [event |-> name]
Key(name)   == [event |-> "key", name |-> name]
Scalar(v)   == [event |-> "scalar", value |-> v]

Marks == {"object-open", "array-open", "object", "member", "array", "big-key", "root-done"}

\* A marker, or an object holding the digits of its `$big` member.
Marker(mark)    == [mark |-> mark]
Held(v)         == [mark |-> "big", digits |-> v]
Markers         == {Marker(m) : m \in Marks} \cup {Held(v) : v \in Values}

\* Tokens.  An opening bracket ends its line too.
Word(word)      == [token |-> "word", text |-> word]
Open            == Word(".{")
Close           == Word("}")
Comma           == Word(",")         \* and the end of its line
Newline         == Word("newline")
EmptyContainer  == Word(".{}")
RecordEnd       == Word("record end")

Indent(s)       == [token |-> "indent", depth |-> Len(s)]
FieldToken(n)   == [token |-> "field", field |-> Field(n)]
Assign          == Word(" = ")
Integer(v)      == [token |-> "integer", text |-> v.text]
String(v)       == [token |-> "string", text |-> v.text]

\* ZON refuses the number -0, which is written -0.0.
Number(v) == [token |-> "number", text |-> IF v.text = "-0" THEN "-0.0" ELSE v.text]

ScalarToken(v) ==
    CASE v.kind = "string" -> String(v)
      [] v.kind = "number" -> Number(v)
      [] OTHER             -> Word(v.text)

Tokens ==
    {Open, Close, EmptyContainer, RecordEnd, Assign, Newline, Comma}
    \cup [token : {"indent"}, depth : Nat]
    \cup {FieldToken(n) : n \in Names}
    \cup {Integer(v) : v \in Values} \cup {String(v) : v \in Values}
    \cup {ScalarToken(v) : v \in Values}

-----------------------------------------------------------------------------
(* The stack.                                                              *)

Top(s)        == IF s = <<>> THEN "none" ELSE s[Len(s)].mark
Pop(s)        == SubSeq(s, 1, Len(s) - 1)
Mark(mark, s) == Append(Pop(s), mark)

\* Mutant: a `$big` that was no integer's does not complete its member.
DoneMember(s) ==
    IF s = <<>> THEN <<Marker("root-done")>>
    ELSE IF Top(s) = "member" THEN Mark(Marker("object"), s)
    ELSE s

\* A value completed.
Done(s) ==
    IF s = <<>> THEN <<Marker("root-done")>>
    ELSE IF Top(s) \in {"member", "big-key"} THEN Mark(Marker("object"), s)
    ELSE s

\* A held tuple is opened by its first item.
Opened(s) == IF Top(s) = "array-open" THEN Mark(Marker("array"), s) ELSE s

\* What comes before and after a value whose parent is the top of s.
Lead(s) ==
    CASE Top(s) \in {"none", "member"} -> <<>>
      [] Top(s) = "big-key"    -> <<Open, Indent(s), FieldToken(Big), Assign>>
      [] Top(s) = "array-open" -> <<Open, Indent(s)>>
      [] Top(s) = "array"      -> <<Indent(s)>>

End(s) == IF s = <<>> THEN <<Newline>> ELSE <<Comma>>

\* Mutant: -0 held as an integer's digits.
BigDigitsOrZero(v) == v.kind = "string" /\ v.text \in IntegerTexts

\* An integer as the reader spells a big one, which `-0` is not.
BigDigits(v) == v.kind = "string" /\ v.text \in IntegerTexts \ {"-0"}

\* Mutant: the record of the root's first field is not ended.
BigFieldUnended(digits, name, s) ==
    <<Open, Indent(s), FieldToken(Big), Assign, String(digits), Comma>>
    \o <<Indent(s), FieldToken(name), Assign>>

\* The held digits as the struct's `$big` field, then the next field name.
\* In the root struct the first ends a record.
BigField(digits, name, s) ==
    <<Open, Indent(s), FieldToken(Big), Assign, String(digits), Comma>>
    \o (IF Len(s) = 1 THEN <<RecordEnd>> ELSE <<>>)
    \o <<Indent(s), FieldToken(name), Assign>>

-----------------------------------------------------------------------------
(* The steps.                                                              *)

Transition(s, outputs) ==
    /\ stack' = s
    /\ text' = text \o outputs
    /\ UNCHANGED status

\* A step that leaves one level open, or the root written, ends a record.
To(s, outputs) ==
    Transition(s, outputs \o IF Len(s) = 1 THEN <<RecordEnd>> ELSE <<>>)

\* The tops an event may meet; any other is a protocol error.
MaySee(e) ==
    CASE e.event \in {"object-start", "array-start", "scalar"} ->
            Top(stack) \in {"none", "member", "big-key", "array-open", "array"}
      [] e.event \in {"key", "object-end"} -> Top(stack) \in {"object-open", "object", "big"}
      [] e.event = "array-end"             -> Top(stack) \in {"array-open", "array"}

Takes(e) ==
    /\ status = "running"
    /\ Len(seen) < MaxEvents
    /\ seen' = Append(seen, e)

Accepts(e) == Takes(e) /\ MaySee(e)

ContainerStart(e) ==
    /\ Accepts(e)
    /\ LET held == IF e.event = "object-start" THEN "object-open" ELSE "array-open"
       IN  To(Append(Opened(stack), Marker(held)), Lead(stack))

Member(name) ==
    /\ Accepts(Key(name))
    /\ \/ /\ Top(stack) = "object-open" /\ name = Big
          /\ Transition(Mark(Marker("big-key"), stack), <<>>)
       \/ /\ Top(stack) = "object-open" /\ name # Big
          /\ Transition(Mark(Marker("member"), stack),
                        <<Open, Indent(stack), FieldToken(name), Assign>>)
       \/ /\ Top(stack) = "object"
          /\ Transition(Mark(Marker("member"), stack), <<Indent(stack), FieldToken(name), Assign>>)
       \/ /\ Top(stack) = "big"
          /\ Transition(Mark(Marker("member"), stack),
                        BigField(stack[Len(stack)].digits, name, stack))

HoldsDigits(v) == Top(stack) = "big-key" /\ BigDigits(v)

ScalarValue(v) ==
    /\ Accepts(Scalar(v))
    /\ IF HoldsDigits(v)
       THEN Transition(Mark(Held(v), stack), <<>>)
       ELSE To(Done(Opened(stack)), Lead(stack) \o <<ScalarToken(v)>> \o End(stack))

\* Mutant: a big integer written as its string.
ClosingQuoted(s) ==
    CASE Top(s) \in {"object-open", "array-open"} -> <<EmptyContainer>>
      [] Top(s) \in {"object", "array"}           -> <<Indent(Pop(s)), Close>>
      [] Top(s) = "big"                           -> <<String(s[Len(s)].digits)>>

\* What closes a container: the brackets of an empty one, the digits of an
\* object that is a big integer, or the closing line.
Closing(s) ==
    CASE Top(s) \in {"object-open", "array-open"} -> <<EmptyContainer>>
      [] Top(s) \in {"object", "array"}           -> <<Indent(Pop(s)), Close>>
      [] Top(s) = "big"                           -> <<Integer(s[Len(s)].digits)>>

ContainerEnd(e) ==
    /\ Accepts(e)
    /\ To(Done(Pop(stack)), Closing(stack) \o End(Pop(stack)))

\* An event no tree has here.
Refuse(e) ==
    /\ Takes(e)
    /\ ~MaySee(e)
    /\ status' = "refused"
    /\ UNCHANGED <<stack, text>>

\* The events ended: only a written root value is a document.
Finish ==
    /\ status = "running"
    /\ status' = IF Top(stack) = "root-done" THEN "finished" ELSE "cut short"
    /\ UNCHANGED <<stack, text, seen>>

Starts == {Event("object-start"), Event("array-start")}
Ends   == {Event("object-end"), Event("array-end")}
Events == Starts \cup Ends \cup {Key(n) : n \in Names} \cup {Scalar(v) : v \in Values}

Init ==
    /\ stack  = <<>>
    /\ text   = <<>>
    /\ seen   = <<>>
    /\ status = "running"

Next ==
    \/ \E e \in Starts : ContainerStart(e)
    \/ \E name \in Names : Member(name)
    \/ \E v \in Values : ScalarValue(v)
    \/ \E e \in Ends : ContainerEnd(e)
    \/ \E e \in Events : Refuse(e)
    \/ Finish

Spec == Init /\ [][Next]_vars

-----------------------------------------------------------------------------
(* Properties.                                                             *)

\* Every variable has its type: the stack is a sequence of the markers the
\* header of render.alc lists.
TypeOK ==
    /\ stack \in Seq(Markers)
    /\ text \in Seq(Tokens)
    /\ seen \in Seq(Events)
    /\ status \in {"running", "refused", "cut short", "finished"}

\* A container with another open inside it waits for that one's end as for a
\* member's or an item's value, so its marker is one zon-done knows: it is
\* never held, never between members, and nothing is ever stacked on a
\* written root (zon-value, zon-opened, zon-done).
Waiting == {"member", "big-key", "array"}

WaitingBelow == \A i \in 1..(Len(stack) - 1) : stack[i].mark \in Waiting

\* Only what ZON reads as a number is written bare: a string is taken for a
\* big integer's digits when `number` reads it and it is not `-0`, and is
\* held as long as it may yet turn out to be a struct's field (zon-big,
\* zon-big-digits), and a number that is `-0` is written as the float it is
\* (zon-finite).
Literal(token) ==
    /\ token.token = "integer" => token.text \in IntegerTexts /\ token.text # "-0"
    /\ token.token = "number" => token.text # "-0"

BareNumbersAreLiterals == \A i \in 1..Len(text) : Literal(text[i])
=============================================================================
