----------------------------- MODULE Translation -----------------------------
(***************************************************************************)
(* A document translated into ZON: alchemy/transduce.alc makes tree events *)
(* of the grammar's rule passes as the parser makes them, alchemy/         *)
(* render.alc writes them, and what it wrote is read again.  The stages    *)
(* are pulled: the parser goes on once its last events are written.        *)
(***************************************************************************)
EXTENDS ZonDocument, TLC

CONSTANTS Letters,   \* the characters of every text a field may have
          Digits,    \* the digits of the contents that are integers no double holds
          Dollar, EmptyName, Big

VARIABLES pending,                           \* the events of the last pass not yet written
          marks, written, streamed, writing, \* the writer: Render
          againAhead, againRead, againStack, againStatus, againResult  \* the second reader

writerVars == <<marks, written, streamed, writing>>
againVars  == <<againAhead, againRead, againStack, againStatus, againResult>>
allVars    == <<vars, pending, writerVars, againVars>>

\* No field of a ZON source holds U+0000.
Writer == INSTANCE RenderTree WITH
    stack <- marks, text <- written, seen <- streamed, status <- writing,
    Chars <- {}, Nul <- "U+0000", JsonPrefix <- <<Dollar, "json:">>, Quoted <- <<>>,
    Names <- {Letters[t] : t \in DOMAIN Letters},
    Values <- [kind : {"string"}, text : Texts \cup Contents],
    IntegerTexts <- {Digits[c] : c \in DOMAIN Digits},
    MaxEvents <- 4 * MaxTokens

Again == INSTANCE ZonParse WITH
    ahead <- againAhead, read <- againRead, stack <- againStack,
    status <- againStatus, result <- againResult,
    Texts <- DOMAIN Letters, Contents <- Texts \cup Contents, MaxTokens <- 2 * MaxTokens

Seqs == INSTANCE SequencesExt

String(t) == [kind |-> "string", text |-> t]

-----------------------------------------------------------------------------
(* The passes of a rule as events.                                         *)

\* Mutant: every token a pass matched, those given back included.
Matched == SubSeq(ahead, 1, Len(Taken.s))

\* The tokens of an open pass: those its alternate keeps.
Consumed == SubSeq(ahead, 1, Len(Taken.s) - Taken.b)

\* Mutant: a big integer is the string of its digits.
ValueEventsFlat(token) ==
    <<Writer!Scalar(String(IF token.text \in DOMAIN Digits THEN Digits[token.text] ELSE token.text))>>

\* A token's value: the reader's big integer as the object it is built as.
ValueEvents(token) ==
    IF token.type = "#NR" /\ token.text \in DOMAIN Digits
    THEN <<Writer!Event("object-start"), Writer!Key(Big),
           Writer!Scalar(String(Digits[token.text])), Writer!Event("object-end")>>
    ELSE <<Writer!Scalar(String(token.text))>>

OpenPass ==
    CASE Top.rule = "map"  -> <<Writer!Event("object-start")>>
      [] Top.rule = "list" -> <<Writer!Event("array-start")>>
      [] Top.rule = "pair" -> <<Writer!Key(Letters[Consumed[1].text])>>
      [] Top.rule = "val" /\ Consumed # <<>> -> ValueEvents(Consumed[1])
      [] OTHER -> <<>>

ClosePass ==
    CASE Top.rule = "map"  -> <<Writer!Event("object-end")>>
      [] Top.rule = "list" -> <<Writer!Event("array-end")>>
      [] OTHER -> <<>>

-----------------------------------------------------------------------------
(* The stages.                                                             *)

Reads(step, events) ==
    /\ pending = <<>>
    /\ step
    /\ pending' = events
    /\ UNCHANGED <<writerVars, againVars>>

Lexes  == Reads(\E t \in Tokens : Lex(t), <<>>)
Opens  == Reads(Open, OpenPass)
Closes == Reads(CloseVal \/ ClosePair \/ CloseElem \/ (\E rule \in {"map", "list"} : CloseContainer(rule)), ClosePass)
Fails  == Reads(Unexpected \/ Cancel \/ DuplicateField, <<>>)

\* A failed parse is a failed stream, and the writer does not finish.
Ends == pending = <<>> /\ status = "accepted" /\ Writer!Finish /\ UNCHANGED <<vars, pending, againVars>>

Writes ==
    /\ pending # <<>>
    /\ pending' = Tail(pending)
    /\ LET e == Head(pending)
       IN  \/ e \in Writer!Starts /\ Writer!ContainerStart(e)
           \/ e \in Writer!Ends /\ Writer!ContainerEnd(e)
           \/ e.event = "key" /\ Writer!Member(e.name)
           \/ e.event = "scalar" /\ Writer!ScalarValue(e.value)
    /\ UNCHANGED <<vars, againVars>>

\* The document written, as the lexer's tokens.
Layout(token) == token.token = "indent" \/ token \in {Writer!Newline, Writer!RecordEnd}
Inked == SelectSeq(written, LAMBDA token : ~Layout(token))

TextOf(field) == CHOOSE t \in DOMAIN Letters : Letters[t] = field
BigOf(digits) == CHOOSE c \in DOMAIN Digits : Digits[c] = digits

Lexed(i) ==
    LET token == Inked[i]
    IN  CASE token = Writer!Open -> <<Mark(IF Inked[i + 1].token = "field" THEN "#OB" ELSE "#OS")>>
          [] token = Writer!EmptyContainer -> <<Mark("#OS"), Mark("#CB")>>
          [] token = Writer!Close  -> <<Mark("#CB")>>
          [] token = Writer!Assign -> <<Mark("#CL")>>
          [] token = Writer!Comma  -> <<Mark("#CA")>>
          [] token.token = "field"   -> <<[type |-> "#TX", text |-> TextOf(token.field)]>>
          [] token.token = "integer" -> <<[type |-> "#NR", text |-> BigOf(token.text)]>>
          [] token.token = "string"  -> <<[type |-> "#NR", text |-> token.text]>>

Translated == Seqs!FlattenSeq([i \in DOMAIN Inked |-> Lexed(i)]) \o <<Mark("#ZZ")>>

ReadsAgain ==
    /\ writing = "finished"
    /\ Again!Next
    /\ againRead' # againRead => againRead' = SubSeq(Translated, 1, Len(againRead'))
    /\ UNCHANGED <<vars, pending, writerVars>>

TranslationInit == Init /\ pending = <<>> /\ Writer!Init /\ Again!Init

TranslationNext == Lexes \/ Opens \/ Closes \/ Fails \/ Writes \/ Ends \/ ReadsAgain

TranslationSpec == TranslationInit /\ [][TranslationNext]_allVars

-----------------------------------------------------------------------------
(* Properties.                                                             *)

\* The walk of a value, under the names its fields stand for: an enum literal
\* is its name, and a big integer the object the reader builds.
RECURSIVE Walk(_, _)
Walk(value, names) ==
    CASE value.kind = "scalar" /\ value.text \in DOMAIN Digits ->
            <<Writer!Event("object-start"), Writer!Key(Big),
              Writer!Scalar(String(Digits[value.text])), Writer!Event("object-end")>>
      [] value.kind = "scalar" /\ value.text \notin DOMAIN Digits -> <<Writer!Scalar(String(value.text))>>
      [] value.kind = "tagged" -> <<Writer!Scalar(String(value.text))>>
      [] value.kind = "list" ->
            <<Writer!Event("array-start")>>
            \o Seqs!FlattenSeq([i \in DOMAIN value.items |-> Walk(value.items[i], names)])
            \o <<Writer!Event("array-end")>>
      [] value.kind = "map" ->
            <<Writer!Event("object-start")>>
            \o Seqs!FlattenSeq([i \in DOMAIN value.fields |->
                   <<Writer!Key(names[value.fields[i].key])>> \o Walk(value.fields[i].value, names)])
            \o <<Writer!Event("object-end")>>

\* "Every event is the one the walk of the grammar's value gives"
\* (transduce.alc): whatever is read, the events are a tree's, so the writer
\* refuses none, and those of a document accepted are its value's, each field
\* once.
StreamsTheValue ==
    /\ pending # <<>> => Writer!MaySee(Head(pending))
    /\ status = "accepted" /\ pending = <<>> => streamed = Walk(result, Letters)

\* The reverse of the field convention, for names without U+0000.
ReadBack(name) ==
    CASE name = EmptyName -> <<>>
      [] Len(name) >= 2 /\ name[1] = Dollar /\ name[2] = Dollar -> Tail(name)
      [] OTHER -> name

\* A translation reads as what was translated, its names "by the reverse of
\* that convention" (the manifest): it is a document, no field is there
\* twice, and an object that is a big integer is one again.
ReadsBack ==
    /\ againStatus \in {"parsing", "accepted"}
    /\ againStatus = "accepted" =>
        Walk(againResult, [t \in DOMAIN Letters |-> ReadBack(Letters[t])]) = Walk(result, Letters)
=============================================================================
