---------------------------- MODULE ValueProofs ----------------------------
(***************************************************************************)
(* Proofs about the two walks over a value: the render, its field names    *)
(* and the shape of its stack, the check of jsonUnsafe over any heaps of   *)
(* finitely many containers, and the text and the records the render       *)
(* writes of any stream, against the tree that the stream walks.           *)
(***************************************************************************)
EXTENDS RenderTree, ClibWalk, SequenceTheorems, FiniteSetTheorems, WellFoundedInduction, TLAPS

-----------------------------------------------------------------------------
(* The render's field names.                                               *)

\* A common prefix can be taken off two sequences.
LEMMA PrefixCancels ==
  ASSUME NEW S, NEW p \in Seq(S), NEW a \in Seq(S), NEW b \in Seq(S), p \o a = p \o b
  PROVE  a = b
<1>1. Len(p \o a) = Len(p) + Len(a) /\ Len(p \o b) = Len(p) + Len(b)
  OBVIOUS
<1>2. Len(a) = Len(b)
  BY <1>1
<1>3. ASSUME NEW i \in 1..Len(a) PROVE a[i] = b[i]
  <2>1. (p \o a)[Len(p) + i] = a[i] /\ (p \o b)[Len(p) + i] = b[i]
    BY <1>2
  <2> QED
    BY <2>1
<1> QED
  BY <1>2, <1>3

\* The two spellings set apart: both begin with `$` and a letter of their own.
LEMMA Spellings ==
  /\ EmptyName \in Seq(Chars) /\ Len(EmptyName) >= 2
  /\ EmptyName[1] = Dollar /\ EmptyName[2] # Dollar /\ ~Holds(EmptyName, Nul)
  /\ JsonPrefix \in Seq(Chars) /\ Len(JsonPrefix) >= 2
  /\ JsonPrefix[1] = Dollar /\ JsonPrefix[2] # Dollar /\ ~Holds(JsonPrefix, Nul)
  /\ EmptyName[2] # JsonPrefix[2]
  BY NamesAssumption

\* What tells the four forms of a field apart: its first two characters.
LEMMA FieldForms ==
  ASSUME NEW name \in Names
  PROVE  /\ Field(name) \in Seq(Chars)
         /\ \/ /\ name = <<>>
               /\ Field(name) = EmptyName
            \/ /\ Holds(name, Nul)
               /\ Field(name) = JsonPrefix \o Quoted[name]
               /\ Len(Field(name)) >= 2
               /\ Field(name)[1] = Dollar
               /\ Field(name)[2] = JsonPrefix[2]
            \/ /\ ~Holds(name, Nul)
               /\ Field(name) = <<Dollar>> \o name
               /\ Len(Field(name)) >= 2
               /\ Field(name)[1] = Dollar
               /\ Field(name)[2] = Dollar
            \/ /\ ~Holds(name, Nul)
               /\ Field(name) = name
               /\ Len(Field(name)) >= 1
               /\ Field(name)[1] # Dollar
<1>0. name \in Seq(Chars) /\ Quoted[name] \in Seq(Chars) /\ Dollar \in Chars
  BY NamesAssumption, QuotedAssumption
<1>1. CASE Len(name) = 0
  <2>1. Field(name) = EmptyName
    BY <1>1 DEF Field, Holds
  <2>2. name = <<>>
    BY <1>0, <1>1
  <2> QED
    BY <2>1, <2>2, Spellings
<1>2. CASE Holds(name, Nul)
  <2>1. Field(name) = JsonPrefix \o Quoted[name]
    BY <1>2, <1>0 DEF Field, Holds
  <2> QED
    BY <1>0, <1>2, <2>1, Spellings
<1>3. CASE Len(name) > 0 /\ name[1] = Dollar /\ ~Holds(name, Nul)
  <2>1. Field(name) = <<Dollar>> \o name
    BY <1>3, <1>0 DEF Field
  <2> QED
    BY <1>0, <1>3, <2>1
<1>4. CASE Len(name) > 0 /\ name[1] # Dollar /\ ~Holds(name, Nul)
  <2>1. Field(name) = name
    BY <1>4, <1>0 DEF Field
  <2> QED
    BY <1>0, <1>4, <2>1
<1> QED
  BY <1>0, <1>1, <1>2, <1>3, <1>4

\* The convention keeps every two names apart, whatever the names: the
\* fields of one struct are as different as its members' names (zon-field).
THEOREM NamesApart == NamesKeptApart
<1> SUFFICES ASSUME NEW m \in Names, NEW n \in Names, Field(m) = Field(n)
             PROVE  m = n
  BY DEF NamesKeptApart
<1>0. /\ m \in Seq(Chars) /\ Quoted[m] \in Seq(Chars)
      /\ n \in Seq(Chars) /\ Quoted[n] \in Seq(Chars)
      /\ <<Dollar>> \in Seq(Chars)
  BY NamesAssumption, QuotedAssumption
<1>1. \/ m = <<>> /\ n = <<>>
      \/ JsonPrefix \o Quoted[m] = JsonPrefix \o Quoted[n]
      \/ <<Dollar>> \o m = <<Dollar>> \o n
      \/ m = n
  BY FieldForms, Spellings
<1>2. CASE JsonPrefix \o Quoted[m] = JsonPrefix \o Quoted[n]
  <2>1. Quoted[m] = Quoted[n]
    BY <1>0, <1>2, PrefixCancels, Spellings
  <2> QED
    BY <2>1, QuotedAssumption
<1>3. CASE <<Dollar>> \o m = <<Dollar>> \o n
  BY <1>0, <1>3, PrefixCancels
<1> QED
  BY <1>1, <1>2, <1>3

\* Joining two sequences joins what they hold.
LEMMA HoldsJoined ==
  ASSUME NEW S, NEW a \in Seq(S), NEW b \in Seq(S), NEW c, Holds(a \o b, c)
  PROVE  Holds(a, c) \/ Holds(b, c)
<1>1. PICK i \in 1..Len(a \o b) : (a \o b)[i] = c
  BY DEF Holds
<1>2. CASE i <= Len(a)
  BY <1>1, <1>2 DEF Holds
<1>3. CASE i > Len(a)
  <2>1. i - Len(a) \in 1..Len(b) /\ b[i - Len(a)] = c
    BY <1>1, <1>3
  <2> QED
    BY <2>1 DEF Holds
<1> QED
  BY <1>1, <1>2, <1>3

\* Every field the render writes is a ZON identifier: neither empty nor
\* holding U+0000 (zon-name-chars).
THEOREM FieldsIdentify == FieldsAreIdentifiers
<1> SUFFICES ASSUME NEW name \in Names PROVE Identifier(Field(name))
  BY DEF FieldsAreIdentifiers
<1>0. /\ name \in Seq(Chars) /\ Quoted[name] \in Seq(Chars) /\ ~Holds(Quoted[name], Nul)
      /\ <<Dollar>> \in Seq(Chars) /\ Dollar # Nul
  BY NamesAssumption, QuotedAssumption
<1>1. Len(Field(name)) > 0
  BY FieldForms, Spellings
<1>2. ~Holds(Field(name), Nul)
  <2>1. ~Holds(JsonPrefix \o Quoted[name], Nul)
    BY <1>0, Spellings, HoldsJoined
  <2>2. ~Holds(<<Dollar>>, Nul)
    BY <1>0 DEF Holds
  <2>3. ~Holds(name, Nul) => ~Holds(<<Dollar>> \o name, Nul)
    BY <1>0, <2>2, HoldsJoined
  <2> QED
    BY <2>1, <2>3, FieldForms, Spellings
<1> QED
  BY <1>1, <1>2 DEF Identifier

-----------------------------------------------------------------------------
(* The stack.                                                              *)

\* The digits an object holds are a big integer's.
DigitsHeld == \A i \in 1..Len(stack) : stack[i].mark = "big" => BigDigits(stack[i].digits)

IInv == TypeOK /\ WaitingBelow /\ DigitsHeld /\ BareNumbersAreLiterals

\* What the markers are.
LEMMA MarkerMarks ==
  ASSUME NEW k \in Markers
  PROVE  /\ k.mark \in Marks \cup {"big"}
         /\ k.mark = "big" => k.digits \in Values
         /\ \A m \in Marks : Marker(m) \in Markers /\ Marker(m).mark = m /\ m # "big"
         /\ \A v \in Values : Held(v) \in Markers /\ Held(v).mark = "big" /\ Held(v).digits = v
<1>1. ASSUME NEW m \in Marks PROVE Marker(m) \in Markers /\ Marker(m).mark = m /\ m # "big"
  BY DEF Markers, Marker, Marks
<1>2. ASSUME NEW v \in Values PROVE Held(v) \in Markers /\ Held(v).mark = "big" /\ Held(v).digits = v
  BY DEF Markers, Held
<1>3. CASE k \in {Marker(m) : m \in Marks}
  BY <1>1, <1>2, <1>3
<1>4. CASE k \in {Held(v) : v \in Values}
  BY <1>1, <1>2, <1>4
<1> QED
  BY <1>1, <1>2, <1>3, <1>4 DEF Markers

\* The shape of a stack: markers, and waiting ones below the top.
Shape(s) ==
    /\ s \in Seq(Markers)
    /\ \A i \in 1..(Len(s) - 1) : s[i].mark \in Waiting
    /\ \A i \in 1..Len(s) : s[i].mark = "big" => BigDigits(s[i].digits)

\* What is left of a sequence without its last element.
LEMMA FrontFacts ==
  ASSUME NEW S, NEW s \in Seq(S), s # <<>>
  PROVE  /\ SubSeq(s, 1, Len(s) - 1) \in Seq(S)
         /\ Len(SubSeq(s, 1, Len(s) - 1)) = Len(s) - 1
         /\ \A i \in 1..(Len(s) - 1) : SubSeq(s, 1, Len(s) - 1)[i] = s[i]
<1>1. Len(s) \in Nat /\ Len(s) >= 1 /\ \A i \in 1..(Len(s) - 1) : s[i] \in S
  OBVIOUS
<1> DEFINE n == Len(s) - 1
<1>2. n \in Nat /\ 1 \in Int /\ n \in Int /\ \A i \in 1..n : s[i] \in S
  BY <1>1
<1> HIDE DEF n
<1>3. /\ SubSeq(s, 1, n) \in Seq(S)
      /\ Len(SubSeq(s, 1, n)) = IF 1 <= n THEN n - 1 + 1 ELSE 0
      /\ \A i \in 1..(n - 1 + 1) : SubSeq(s, 1, n)[i] = s[1 + i - 1]
  BY <1>2, SubSeqProperties, SMTT(30)
<1>4. /\ SubSeq(s, 1, n) \in Seq(S)
      /\ Len(SubSeq(s, 1, n)) = n
      /\ \A i \in 1..n : SubSeq(s, 1, n)[i] = s[i]
  BY <1>2, <1>3
<1> QED
  BY <1>4 DEF n

\* The top of a stack and what is under it.
LEMMA TopFacts ==
  ASSUME NEW s, Shape(s), s # <<>>
  PROVE  /\ Len(s) \in Nat /\ Len(s) >= 1
         /\ s[Len(s)] \in Markers
         /\ Top(s) = s[Len(s)].mark
         /\ Top(s) # "none"
         /\ Pop(s) \in Seq(Markers) /\ Len(Pop(s)) = Len(s) - 1
         /\ \A i \in 1..Len(Pop(s)) : Pop(s)[i] = s[i] /\ Pop(s)[i].mark \in Waiting
         /\ Shape(Pop(s))
<1>1. Len(s) \in Nat /\ Len(s) >= 1 /\ s[Len(s)] \in Markers
  BY DEF Shape
<1>2. Top(s) = s[Len(s)].mark /\ Top(s) # "none"
  BY <1>1, MarkerMarks DEF Top, Marks
<1>3. /\ Pop(s) \in Seq(Markers) /\ Len(Pop(s)) = Len(s) - 1
      /\ \A i \in 1..Len(Pop(s)) : Pop(s)[i] = s[i]
  <2>1. /\ 1 \in Int /\ Len(s) - 1 \in Int
        /\ \A i \in 1..(Len(s) - 1) : s[i] \in Markers
    BY <1>1 DEF Shape
  <2> QED
    BY <1>1, <2>1, FrontFacts DEF Pop, Shape
<1>4. \A i \in 1..Len(Pop(s)) : Pop(s)[i].mark \in Waiting
  BY <1>1, <1>3 DEF Shape
<1>5. Shape(Pop(s))
  BY <1>3, <1>4 DEF Shape, Waiting
<1> QED
  BY <1>1, <1>2, <1>3, <1>4, <1>5

\* A marker on waiting ones makes a stack.
LEMMA PushFacts ==
  ASSUME NEW s \in Seq(Markers), NEW k \in Markers,
         \A i \in 1..Len(s) : s[i].mark \in Waiting,
         k.mark = "big" => BigDigits(k.digits)
  PROVE  Shape(Append(s, k)) /\ Append(s, k) # <<>>
<1>1. /\ Append(s, k) \in Seq(Markers) /\ Len(Append(s, k)) = Len(s) + 1 /\ Len(s) \in Nat
      /\ \A i \in 1..Len(s) : Append(s, k)[i] = s[i]
      /\ Append(s, k)[Len(s) + 1] = k
  OBVIOUS
<1> QED
  BY <1>1 DEF Shape, Waiting

\* Each operation on the stack keeps its shape.
LEMMA MarkKeeps ==
  ASSUME NEW s, Shape(s), s # <<>>, NEW k \in Markers, k.mark = "big" => BigDigits(k.digits)
  PROVE  Shape(Mark(k, s))
  BY TopFacts, PushFacts DEF Mark

\* So does a completed value.
LEMMA DoneKeeps ==
  ASSUME NEW s, Shape(s)
  PROVE  Shape(Done(s))
<1>1. CASE s = <<>>
  <2>1. /\ <<Marker("root-done")>> \in Seq(Markers) /\ Len(<<Marker("root-done")>>) = 1
        /\ <<Marker("root-done")>>[1].mark = "root-done"
    BY DEF Markers, Marks, Marker
  <2> QED
    BY <1>1, <2>1 DEF Done, Shape
<1>2. CASE s # <<>>
  <2>1. Marker("object") \in Markers /\ Marker("object").mark # "big"
    BY DEF Markers, Marks, Marker
  <2> QED
    BY <1>2, <2>1, MarkKeeps DEF Done
<1> QED
  BY <1>1, <1>2

\* Where a value may begin, an opened stack is all waiting ones.
LEMMA OpenedKeeps ==
  ASSUME NEW s, Shape(s), Top(s) \in {"none", "member", "big-key", "array-open", "array"}
  PROVE  /\ Shape(Opened(s)) /\ Opened(s) \in Seq(Markers)
         /\ \A i \in 1..Len(Opened(s)) : Opened(s)[i].mark \in Waiting
<1>0. Marker("array") \in Markers /\ Marker("array").mark = "array"
  BY DEF Markers, Marks, Marker
<1>1. CASE s = <<>>
  BY <1>1 DEF Opened, Top, Shape
<1>2. CASE s # <<>> /\ Top(s) = "array-open"
  <2>1. Opened(s) = Append(Pop(s), Marker("array"))
    BY <1>2 DEF Opened, Mark
  <2>2. Pop(s) \in Seq(Markers) /\ \A i \in 1..Len(Pop(s)) : Pop(s)[i].mark \in Waiting
    BY <1>2, TopFacts
  <2>3. Shape(Opened(s)) /\ Opened(s) \in Seq(Markers)
    BY <1>0, <2>1, <2>2, PushFacts DEF Shape
  <2> QED
    BY <1>0, <2>1, <2>2, <2>3 DEF Waiting
<1>3. CASE s # <<>> /\ Top(s) # "array-open"
  <2>1. Opened(s) = s /\ Top(s) = s[Len(s)].mark /\ Top(s) \in Waiting
    BY <1>3, TopFacts DEF Opened, Waiting
  <2> QED
    BY <1>3, <2>1, TopFacts DEF Shape
<1> QED
  BY <1>1, <1>2, <1>3

-----------------------------------------------------------------------------
(* The text.                                                               *)

\* The tokens that write no integer but a big integer's digits, and no -0.
Sound == {x \in Tokens : Literal(x)}

\* Every token the render writes is sound; a bare integer when it is a big
\* integer's digits.
LEMMA SoundTokens ==
  /\ \A w \in {Open, Close, EmptyContainer, RecordEnd, Assign, Newline, Comma} : w \in Sound
  /\ \A s : Len(s) \in Nat => Indent(s) \in Sound
  /\ \A n \in Names : FieldToken(n) \in Sound
  /\ \A v \in Values : String(v) \in Sound /\ ScalarToken(v) \in Sound
  /\ \A v \in Values : BigDigits(v) => Integer(v) \in Sound
<1>1. \A w \in {Open, Close, EmptyContainer, RecordEnd, Assign, Newline, Comma} : w \in Sound
  <2> SUFFICES ASSUME NEW w \in {Open, Close, EmptyContainer, RecordEnd, Assign, Newline, Comma}
               PROVE  w \in Sound
    OBVIOUS
  <2>1. w \in Tokens
    BY Zenon DEF Tokens
  <2>2. w.token = "word"
    <3>1. \A word : Word(word).token = "word"
      BY DEF Word
    <3>2. \E word : w = Word(word)
      BY Zenon DEF Open, Close, EmptyContainer, RecordEnd, Assign, Comma, Newline
    <3> QED
      BY <3>1, <3>2
  <2> QED
    BY <2>1, <2>2 DEF Sound, Literal
<1>2. \A s : Len(s) \in Nat => Indent(s) \in Sound
  BY DEF Sound, Literal, Tokens, Indent
<1>3. \A n \in Names : FieldToken(n) \in Sound
  BY DEF Sound, Literal, Tokens, FieldToken
<1>4. ASSUME NEW v \in Values PROVE String(v) \in Sound /\ ScalarToken(v) \in Sound
  <2>1. String(v) \in Tokens /\ ScalarToken(v) \in Tokens
    BY DEF Tokens
  <2>2. String(v).token = "string"
    BY DEF String
  <2>3. CASE v.kind = "number"
    <3>1. "-0.0" # "-0"
      OBVIOUS
    <3>2. ScalarToken(v) = Number(v) /\ Number(v).token = "number" /\ Number(v).text # "-0"
      BY <2>3, <3>1 DEF ScalarToken, Number
    <3> QED
      BY <2>1, <2>2, <3>2 DEF Sound, Literal
  <2>4. CASE v.kind # "number"
    <3>1. ScalarToken(v).token \notin {"integer", "number"}
      BY <2>4 DEF ScalarToken, String, Word
    <3> QED
      BY <2>1, <2>2, <3>1 DEF Sound, Literal
  <2> QED
    BY <2>3, <2>4
<1>5. ASSUME NEW v \in Values, BigDigits(v) PROVE Integer(v) \in Sound
  <2>1. Integer(v) \in Tokens
    BY DEF Tokens
  <2> QED
    BY <1>5, <2>1 DEF Sound, Literal, Integer, BigDigits
<1> QED
  BY <1>1, <1>2, <1>3, <1>4, <1>5

\* The pieces of text the steps write.
LEMMA LeadSound ==
  ASSUME NEW s, Shape(s), Top(s) \in {"none", "member", "big-key", "array-open", "array"}
  PROVE  Lead(s) \in Seq(Sound)
<1>1. Indent(s) \in Sound /\ FieldToken(Big) \in Sound /\ Open \in Sound /\ Assign \in Sound
  BY SoundTokens, RenderAssumption DEF Shape
<1> QED
  BY <1>1 DEF Lead

\* The end of a value is sound.
LEMMA EndSound == \A s : End(s) \in Seq(Sound)
  BY SoundTokens DEF End

\* A step to a stack of the shape, writing sound tokens, keeps both.
LEMMA ToSound ==
  ASSUME NEW s, Shape(s), NEW outputs \in Seq(Sound), text \in Seq(Sound),
         To(s, outputs) \/ Transition(s, outputs)
  PROVE  text' \in Seq(Sound) /\ Shape(stack') /\ status' = status
<1>1. RecordEnd \in Sound
  BY SoundTokens
<1>2. <<RecordEnd>> \in Seq(Sound) /\ <<>> \in Seq(Sound)
  BY <1>1
<1>3. \A a, b \in Seq(Sound) : a \o b \in Seq(Sound)
  OBVIOUS
<1> QED
  BY <1>2, <1>3 DEF To, Transition

\* The invariant says that the text is sound and the stack has its shape.
LEMMA Invariant ==
  IInv <=> /\ Shape(stack) /\ text \in Seq(Sound) /\ seen \in Seq(Events)
           /\ status \in {"running", "refused", "cut short", "finished"}
<1>1. text \in Seq(Sound) <=> text \in Seq(Tokens) /\ BareNumbersAreLiterals
  BY DEF Sound, BareNumbersAreLiterals
<1> QED
  BY <1>1 DEF IInv, TypeOK, WaitingBelow, DigitsHeld, Shape

\* What a sound text is made of.
LEMMA SoundText ==
  ASSUME NEW t \in Seq(Sound)
  PROVE  /\ t \in Seq(Tokens)
         /\ \A i \in 1..Len(t) : Literal(t[i])
<1>1. Sound \subseteq Tokens
  BY DEF Sound
<1>2. t \in Seq(Tokens)
  BY <1>1
<1>3. \A i \in 1..Len(t) : t[i] \in Sound
  OBVIOUS
<1> QED
  BY <1>2, <1>3 DEF Sound

\* The same of the next state.
LEMMA InvariantNext ==
  ASSUME Shape(stack'), text' \in Seq(Sound), seen' \in Seq(Events),
         status' \in {"running", "refused", "cut short", "finished"}
  PROVE  IInv'
<1>2. text' \in Seq(Tokens) /\ BareNumbersAreLiterals'
  BY SoundText DEF BareNumbersAreLiterals
<1> QED
  BY <1>2 DEF IInv, TypeOK, WaitingBelow, DigitsHeld, Shape

-----------------------------------------------------------------------------
(* The steps.                                                              *)

\* Where each kind of event is taken.
LEMMA EventsTaken ==
  /\ \A e \in Starts : MaySee(e) =>
        Top(stack) \in {"none", "member", "big-key", "array-open", "array"}
  /\ \A v \in Values : MaySee(Scalar(v)) =>
        Top(stack) \in {"none", "member", "big-key", "array-open", "array"}
  /\ \A n \in Names : MaySee(Key(n)) => Top(stack) \in {"object-open", "object", "big"}
  /\ \A e \in Ends : MaySee(e) =>
        Top(stack) \in {"object-open", "object", "big", "array-open", "array"}
  BY DEF MaySee, Starts, Ends, Event, Scalar, Key

\* A taken event is one of the stream's.
LEMMA TakesEvent ==
  ASSUME NEW e \in Events, seen \in Seq(Events), Takes(e)
  PROVE  seen' \in Seq(Events)
  BY DEF Takes

\* Opening a container keeps the invariant.
LEMMA StartStep ==
  ASSUME IInv, NEW e \in Starts, ContainerStart(e)
  PROVE  IInv'
<1>1. /\ Shape(stack) /\ text \in Seq(Sound) /\ seen \in Seq(Events)
      /\ status \in {"running", "refused", "cut short", "finished"}
  BY Invariant
<1>2. Top(stack) \in {"none", "member", "big-key", "array-open", "array"}
  BY EventsTaken DEF ContainerStart, Accepts
<1>3. PICK k \in {Marker("object-open"), Marker("array-open")} :
        To(Append(Opened(stack), k), Lead(stack))
  BY Zenon DEF ContainerStart
<1>4. k \in Markers /\ k.mark # "big"
  BY DEF Markers, Marks, Marker
<1>5. Shape(Append(Opened(stack), k))
  BY <1>1, <1>2, <1>4, OpenedKeeps, PushFacts
<1>6. text' \in Seq(Sound) /\ Shape(stack') /\ status' = status
  BY <1>1, <1>2, <1>3, <1>5, LeadSound, ToSound
<1>7. seen' \in Seq(Events)
  BY <1>1, TakesEvent DEF ContainerStart, Accepts, Events
<1> QED
  BY <1>1, <1>6, <1>7, InvariantNext

\* A field name keeps the invariant, held digits written as a string included.
LEMMA MemberStep ==
  ASSUME IInv, NEW name \in Names, Member(name)
  PROVE  IInv'
<1>1. /\ Shape(stack) /\ text \in Seq(Sound) /\ seen \in Seq(Events)
      /\ status \in {"running", "refused", "cut short", "finished"}
  BY Invariant
<1>2. Top(stack) \in {"object-open", "object", "big"}
  BY EventsTaken DEF Member, Accepts
<1>3. stack # <<>>
  BY <1>2 DEF Top
<1>4. /\ Marker("big-key") \in Markers /\ Marker("big-key").mark # "big"
      /\ Marker("member") \in Markers /\ Marker("member").mark # "big"
  BY DEF Markers, Marks, Marker
<1>5. Shape(Mark(Marker("big-key"), stack)) /\ Shape(Mark(Marker("member"), stack))
  BY <1>1, <1>3, <1>4, MarkKeeps
<1>6. /\ Indent(stack) \in Sound /\ FieldToken(name) \in Sound /\ FieldToken(Big) \in Sound
      /\ Open \in Sound /\ Assign \in Sound /\ Comma \in Sound /\ RecordEnd \in Sound
  <2>1. Big \in Names /\ Len(stack) \in Nat
    <3>1. Big \in Names
      BY RenderAssumption, Zenon
    <3>2. Len(stack) \in Nat
      BY <1>1, <1>3, TopFacts, Zenon
    <3> QED
      BY <3>1, <3>2
  <2>2. Indent(stack) \in Sound /\ FieldToken(name) \in Sound /\ FieldToken(Big) \in Sound
    BY <2>1, SoundTokens
  <2> QED
    BY <2>2, SoundTokens
<1>7. Top(stack) = "big" => BigField(stack[Len(stack)].digits, name, stack) \in Seq(Sound)
  <2> SUFFICES ASSUME Top(stack) = "big"
               PROVE  BigField(stack[Len(stack)].digits, name, stack) \in Seq(Sound)
    OBVIOUS
  <2>1. stack[Len(stack)].digits \in Values
    BY <1>1, <1>3, TopFacts, MarkerMarks
  <2>2. String(stack[Len(stack)].digits) \in Sound
    BY <2>1, SoundTokens
  <2> DEFINE d == String(stack[Len(stack)].digits)
  <2>3. /\ <<Open, Indent(stack), FieldToken(Big), Assign, d, Comma>> \in Seq(Sound)
        /\ <<RecordEnd>> \in Seq(Sound) /\ <<>> \in Seq(Sound)
        /\ <<Indent(stack), FieldToken(name), Assign>> \in Seq(Sound)
    BY <1>6, <2>2
  <2>4. \A a, b \in Seq(Sound) : a \o b \in Seq(Sound)
    OBVIOUS
  <2> QED
    BY <2>3, <2>4 DEF BigField
<1>8. PICK s \in {Mark(Marker("big-key"), stack), Mark(Marker("member"), stack)},
           outputs \in Seq(Sound) : Transition(s, outputs)
  <2>1. /\ <<>> \in Seq(Sound)
        /\ <<Open, Indent(stack), FieldToken(name), Assign>> \in Seq(Sound)
        /\ <<Indent(stack), FieldToken(name), Assign>> \in Seq(Sound)
    BY <1>6
  <2> QED
    BY <1>7, <2>1, Zenon DEF Member
<1>9. text' \in Seq(Sound) /\ Shape(stack') /\ status' = status
  BY <1>1, <1>5, <1>8, ToSound
<1>10. seen' \in Seq(Events)
  BY <1>1, TakesEvent DEF Member, Accepts, Events
<1> QED
  BY <1>1, <1>9, <1>10, InvariantNext

\* A scalar keeps the invariant, its digits held or its text written.
LEMMA ScalarStep ==
  ASSUME IInv, NEW v \in Values, ScalarValue(v)
  PROVE  IInv'
<1>1. /\ Shape(stack) /\ text \in Seq(Sound) /\ seen \in Seq(Events)
      /\ status \in {"running", "refused", "cut short", "finished"}
  BY Invariant
<1>2. Top(stack) \in {"none", "member", "big-key", "array-open", "array"}
  BY EventsTaken DEF ScalarValue, Accepts
<1>3. text' \in Seq(Sound) /\ Shape(stack') /\ status' = status
  <2>1. CASE HoldsDigits(v)
    <3>1. stack # <<>> /\ BigDigits(v)
      BY <2>1 DEF HoldsDigits, Top
    <3>2. Held(v) \in Markers /\ Held(v).digits = v
      BY DEF Held, Markers
    <3>3. Shape(Mark(Held(v), stack))
      BY <1>1, <3>1, <3>2, MarkKeeps
    <3>4. Transition(Mark(Held(v), stack), <<>>) /\ <<>> \in Seq(Sound)
      BY <2>1 DEF ScalarValue
    <3> QED
      BY <1>1, <3>3, <3>4, ToSound
  <2>2. CASE ~HoldsDigits(v)
    <3>1. Shape(Done(Opened(stack)))
      BY <1>1, <1>2, OpenedKeeps, DoneKeeps
    <3>2. <<ScalarToken(v)>> \in Seq(Sound) /\ Lead(stack) \in Seq(Sound) /\ End(stack) \in Seq(Sound)
      <4>1. ScalarToken(v) \in Sound
        BY SoundTokens
      <4>2. <<ScalarToken(v)>> \in Seq(Sound)
        BY <4>1
      <4>3. Lead(stack) \in Seq(Sound) /\ End(stack) \in Seq(Sound)
        BY <1>1, <1>2, LeadSound, EndSound, Zenon
      <4> QED
        BY <4>2, <4>3
    <3>3. Lead(stack) \o <<ScalarToken(v)>> \o End(stack) \in Seq(Sound)
      BY <3>2
    <3>4. To(Done(Opened(stack)), Lead(stack) \o <<ScalarToken(v)>> \o End(stack))
      BY <2>2 DEF ScalarValue
    <3> QED
      BY <1>1, <3>1, <3>3, <3>4, ToSound
  <2> QED
    BY <2>1, <2>2
<1>4. seen' \in Seq(Events)
  BY <1>1, TakesEvent DEF ScalarValue, Accepts, Events
<1> QED
  BY <1>1, <1>3, <1>4, InvariantNext

\* Closing a container keeps the invariant: bare digits are big digits.
LEMMA EndStep ==
  ASSUME IInv, NEW e \in Ends, ContainerEnd(e)
  PROVE  IInv'
<1>1. /\ Shape(stack) /\ text \in Seq(Sound) /\ seen \in Seq(Events)
      /\ status \in {"running", "refused", "cut short", "finished"}
  BY Invariant
<1>2. Top(stack) \in {"object-open", "object", "big", "array-open", "array"}
  BY EventsTaken DEF ContainerEnd, Accepts
<1>3. stack # <<>>
  BY <1>2 DEF Top
<1>4. Shape(Pop(stack)) /\ Shape(Done(Pop(stack)))
  BY <1>1, <1>3, TopFacts, DoneKeeps
<1>5. Closing(stack) \in Seq(Sound)
  <2>1. EmptyContainer \in Sound /\ Close \in Sound /\ Indent(Pop(stack)) \in Sound
    BY <1>4, SoundTokens DEF Shape
  <2>2. Top(stack) = "big" => Integer(stack[Len(stack)].digits) \in Sound
    <3> SUFFICES ASSUME Top(stack) = "big" PROVE Integer(stack[Len(stack)].digits) \in Sound
      OBVIOUS
    <3>1. stack[Len(stack)].digits \in Values /\ stack[Len(stack)].mark = "big"
      BY <1>1, <1>3, TopFacts, MarkerMarks
    <3>2. BigDigits(stack[Len(stack)].digits)
      <4>0. Len(stack) \in Nat /\ Len(stack) >= 1
        BY <1>1, <1>3, TopFacts, Zenon
      <4>1. Len(stack) \in 1..Len(stack)
        BY <4>0
      <4> QED
        BY <1>1, <3>1, <4>1 DEF Shape
    <3> QED
      BY <3>1, <3>2, SoundTokens
  <2> QED
    BY <1>2, <2>1, <2>2 DEF Closing
<1>6. Closing(stack) \o End(Pop(stack)) \in Seq(Sound)
  BY <1>5, EndSound
<1>7. text' \in Seq(Sound) /\ Shape(stack') /\ status' = status
  BY <1>1, <1>4, <1>6, ToSound DEF ContainerEnd
<1>8. seen' \in Seq(Events)
  BY <1>1, TakesEvent DEF ContainerEnd, Accepts, Events
<1> QED
  BY <1>1, <1>7, <1>8, InvariantNext

\* A refused event, the end of the events and a stutter keep the invariant.
LEMMA RenderStops ==
  ASSUME IInv, Finish \/ (\E e \in Events : Refuse(e)) \/ UNCHANGED vars
  PROVE  IInv'
<1>1. /\ Shape(stack) /\ text \in Seq(Sound) /\ seen \in Seq(Events)
      /\ status \in {"running", "refused", "cut short", "finished"}
  BY Invariant
<1>2. stack' = stack /\ text' = text
  BY DEF Finish, Refuse, vars
<1>3. status' \in {"running", "refused", "cut short", "finished"}
  BY <1>1 DEF Finish, Refuse, vars
<1>4. seen' \in Seq(Events)
  BY <1>1, TakesEvent DEF Finish, Refuse, vars
<1>5. Shape(stack')
  BY <1>1, <1>2
<1> QED
  BY <1>1, <1>2, <1>3, <1>4, <1>5, InvariantNext

\* The invariant holds of every stream the render takes.
THEOREM Inductive == Spec => []IInv
<1>1. Init => IInv
  <2> SUFFICES ASSUME Init PROVE IInv
    OBVIOUS
  <2>1. /\ Shape(stack) /\ text \in Seq(Sound) /\ seen \in Seq(Events) /\ status = "running"
    BY DEF Init, Shape
  <2> QED
    BY <2>1, Invariant
<1>2. IInv /\ [Next]_vars => IInv'
  BY StartStep, MemberStep, ScalarStep, EndStep, RenderStops DEF Next
<1> QED
  BY <1>1, <1>2, PTL DEF Spec

\* Every variable of the render keeps its type.
THEOREM TypeCorrect == Spec => []TypeOK
  BY Inductive, PTL DEF IInv

\* Below the top of the stack every container waits for a value, at any
\* depth and for any stream.
THEOREM StackWaits == Spec => []WaitingBelow
  BY Inductive, PTL DEF IInv

\* For any scalars and any stream, nothing but an integer ZON reads is
\* written as one, and no -0 as a number.
THEOREM BareNumbersAreZon == Spec => []BareNumbersAreLiterals
  BY Inductive, PTL DEF IInv

-----------------------------------------------------------------------------
(* What the walk looks for, as sets of references closed under what their  *)
(* containers hold.                                                        *)

Refs(h) == {r \in [to : Nodes, n : Nat] : r.n <= Len(h[r.to])}

\* An item that is fit as it is, or a container of T.
Harmless(item, T) == IF IsRef(item) THEN item \in T ELSE item.leaf \notin Corrupted

\* T has every container that holds nothing but fit leaves and containers of T.
Closed(h, T) == \A r \in Refs(h) : (\A i \in 1..r.n : Harmless(h[r.to][i], T)) => r \in T

\* The least such set: what is walked to its end, with nothing unfit in it.
Tame(h) == {r \in Refs(h) : \A T \in SUBSET Refs(h) : Closed(h, T) => r \in T}

\* Every container held directly by one of S is in V.
HoldsIn(h, S, V) == \A r \in S : \A i \in 1..r.n : IsRef(h[r.to][i]) => h[r.to][i] \in V

\* What r holds, at any depth.
Below(h, r) == {x \in Refs(h) : \A V \in SUBSET Refs(h) : HoldsIn(h, V, V) /\ HoldsIn(h, {r}, V) => x \in V}

\* A reference to no more than its container holds is one.
LEMMA RefsAreRefs ==
  ASSUME NEW h, NEW r \in Refs(h)
  PROVE  IsRef(r) /\ r.to \in Nodes /\ r.n \in Nat /\ r.n <= Len(h[r.to])
  BY DEF Refs, IsRef

\* What a container of a heap holds.
LEMMA ItemAt ==
  ASSUME NEW h, IsHeap(h), NEW r \in Refs(h), NEW i \in 1..r.n
  PROVE  /\ i \in DOMAIN h[r.to]
         /\ IsRef(h[r.to][i]) => h[r.to][i] \in Refs(h)
         /\ ~IsRef(h[r.to][i]) => h[r.to][i].leaf \in Corrupted \cup {"fit"}
<1>1. h[r.to] \in Seq(HeapItem) /\ r.n \in Nat /\ r.n <= Len(h[r.to]) /\ r.to \in Nodes
  BY DEF IsHeap, Refs
<1>2. i \in DOMAIN h[r.to] /\ h[r.to][i] \in HeapItem
  BY <1>1
<1>3. IsRef(h[r.to][i]) => h[r.to][i].n <= Len(h[h[r.to][i].to])
  BY <1>1, <1>2 DEF IsHeap
<1>4. \A item \in HeapItem : IF IsRef(item) THEN item \in [to : Nodes, n : Nat] ELSE item.leaf \in Corrupted \cup {"fit"}
  BY DEF HeapItem, IsRef
<1> QED
  BY <1>2, <1>3, <1>4 DEF Refs

\* The least closed set is closed.
LEMMA TameIsClosed == ASSUME NEW h, IsHeap(h) PROVE Closed(h, Tame(h))
<1> SUFFICES ASSUME NEW r \in Refs(h), \A i \in 1..r.n : Harmless(h[r.to][i], Tame(h)),
                    NEW T \in SUBSET Refs(h), Closed(h, T)
             PROVE  r \in T
  BY DEF Closed, Tame
<1>1. \A i \in 1..r.n : Harmless(h[r.to][i], T)
  BY DEF Harmless, Tame
<1> QED
  BY <1>1 DEF Closed

\* The least closed set is made of nothing but what it takes to be in one.
LEMMA TameHoldsTame ==
  ASSUME NEW h, IsHeap(h), NEW r \in Tame(h)
  PROVE  \A i \in 1..r.n : Harmless(h[r.to][i], Tame(h))
<1> DEFINE T == {x \in Refs(h) : \A i \in 1..x.n : Harmless(h[x.to][i], Tame(h))}
<1>1. T \subseteq Tame(h)
  BY TameIsClosed DEF Closed
<1>2. Closed(h, T)
  <2> SUFFICES ASSUME NEW x \in Refs(h), \A i \in 1..x.n : Harmless(h[x.to][i], T)
               PROVE  x \in T
    BY DEF Closed
  <2> QED
    BY <1>1 DEF Harmless
<1> QED
  BY <1>2 DEF Tame

\* What is in the least closed set does not contain itself.
LEMMA TameNoCycle ==
  ASSUME NEW h, IsHeap(h), NEW r \in Tame(h)
  PROVE  r \notin Below(h, r)
<1> DEFINE T == {x \in Refs(h) : x \notin Below(h, x)}
<1>1. Closed(h, T)
  <2> SUFFICES ASSUME NEW x \in Refs(h), \A i \in 1..x.n : Harmless(h[x.to][i], T), x \in Below(h, x)
               PROVE  FALSE
    BY DEF Closed
  <2> DEFINE Kids == {c \in Refs(h) : \E i \in 1..x.n : c = h[x.to][i]}
             V == {y \in Refs(h) : \E c \in Kids : y = c \/ y \in Below(h, c)}
  <2>1. HoldsIn(h, {x}, V)
    BY ItemAt DEF HoldsIn
  <2>2. HoldsIn(h, V, V)
    <3> SUFFICES ASSUME NEW y \in V, NEW i \in 1..y.n, IsRef(h[y.to][i]) PROVE h[y.to][i] \in V
      BY DEF HoldsIn
    <3>1. h[y.to][i] \in Refs(h)
      BY ItemAt
    <3>2. PICK c \in Kids : y = c \/ y \in Below(h, c)
      OBVIOUS
    <3>3. h[y.to][i] \in Below(h, c)
      BY <3>1, <3>2 DEF Below, HoldsIn
    <3> QED
      BY <3>1, <3>3
  <2>3. x \in V
    <3> HIDE DEF V
    <3>1. V \in SUBSET Refs(h)
      BY DEF V
    <3> QED
      BY <2>1, <2>2, <3>1 DEF Below
  <2>4. PICK c \in Kids : x = c \/ x \in Below(h, c)
    BY <2>3
  <2>5. PICK i \in 1..x.n : c = h[x.to][i]
    OBVIOUS
  <2>6. c \in Refs(h) /\ IsRef(c)
    BY RefsAreRefs
  <2>7. c \in T
    BY <2>5, <2>6 DEF Harmless
  <2>8. c \in Below(h, c)
    <3>1. CASE x = c
      BY <3>1
    <3>2. CASE x \in Below(h, c)
      BY <2>5, <2>6, <3>2 DEF Below, HoldsIn
    <3> QED
      BY <2>4, <3>1, <3>2
  <2> QED
    BY <2>7, <2>8
<1>2. r \in Refs(h) /\ T \in SUBSET Refs(h)
  BY DEF Tame
<1> HIDE DEF T
<1>3. r \in T
  BY <1>1, <1>2 DEF Tame
<1> QED
  BY <1>3 DEF T

-----------------------------------------------------------------------------
(* Reach, by the number of its steps.                                      *)

LEMMA LeastOf == ASSUME NEW T \in SUBSET Nat, T # {} PROVE \E m \in T : \A k \in T : m <= k
<1>1. \E m \in T : \A k \in T : ~(<<k, m>> \in OpToRel(<, Nat))
  BY NatLessThanWellFounded, WFMin, Zenon
<1>2. \A m, k \in Nat : ~(<<k, m>> \in OpToRel(<, Nat)) => m <= k
  BY DEF OpToRel
<1>3. QED
  BY <1>1, <1>2

\* Induction on a set of numbers.
LEMMA Upward ==
  ASSUME NEW T \in SUBSET Nat, 0 \in T, \A n \in T : n + 1 \in T
  PROVE  T = Nat
<1> SUFFICES ASSUME T # Nat PROVE FALSE
  OBVIOUS
<1> DEFINE U == Nat \ T
<1>1. PICK m \in U : \A k \in U : m <= k
  <2>1. U \in SUBSET Nat /\ U # {}
    OBVIOUS
  <2> HIDE DEF U
  <2> QED
    BY <2>1, LeastOf, Zenon
<1>2. m - 1 \in Nat /\ m - 1 \notin U
  BY <1>1
<1> QED
  BY <1>2

Grown(f, S, n) == f = [k \in 0..n |-> IF k = 0 THEN S ELSE f[k - 1] \cup Children(f[k - 1])]

\* The sequence of sets that Reach goes through exists, and is the same however far it goes.
LEMMA GrownExists == ASSUME NEW S, NEW n \in Nat PROVE \E f : Grown(f, S, n)
<1> DEFINE T == {m \in Nat : \E f : Grown(f, S, m)}
<1>1. 0 \in T
  <2>1. Grown([k \in 0..0 |-> S], S, 0)
    BY DEF Grown
  <2> QED
    BY <2>1
<1>2. ASSUME NEW m \in T PROVE m + 1 \in T
  <2>1. PICK f : Grown(f, S, m)
    OBVIOUS
  <2> DEFINE g == [k \in 0..(m + 1) |-> IF k = m + 1 THEN f[m] \cup Children(f[m]) ELSE f[k]]
  <2>2. \A k \in 0..m : f[k] = IF k = 0 THEN S ELSE f[k - 1] \cup Children(f[k - 1])
    BY <2>1 DEF Grown
  <2>3. ASSUME NEW k \in 0..(m + 1)
        PROVE  g[k] = IF k = 0 THEN S ELSE g[k - 1] \cup Children(g[k - 1])
    <3>1. CASE k = m + 1
      <4>1. g[k] = f[m] \cup Children(f[m]) /\ k # 0
        BY <3>1
      <4>2. k - 1 = m /\ m \in 0..(m + 1) /\ m # m + 1
        BY <3>1
      <4>3. g[k - 1] = f[m]
        BY <4>2
      <4> HIDE DEF g
      <4> QED
        BY <4>1, <4>3
    <3>2. CASE k # m + 1
      <4>1. k \in 0..m /\ g[k] = f[k]
        BY <3>2
      <4>2. k # 0 => g[k - 1] = f[k - 1]
        BY <3>2
      <4> HIDE DEF g
      <4> QED
        BY <2>2, <4>1, <4>2
    <3> QED
      BY <3>1, <3>2
  <2>4. g = [k \in 0..(m + 1) |-> g[k]]
    OBVIOUS
  <2> HIDE DEF g
  <2>5. Grown(g, S, m + 1)
    BY <2>3, <2>4 DEF Grown
  <2> QED
    BY <2>5
<1> HIDE DEF T
<1>3. T = Nat
  <2>1. T \in SUBSET Nat
    BY DEF T
  <2> QED
    BY <1>1, <1>2, <2>1, Upward
<1> QED
  BY <1>3 DEF T

LEMMA GrownAgree ==
  ASSUME NEW S, NEW n \in Nat, NEW m \in Nat, n <= m, NEW f, NEW g, Grown(f, S, n), Grown(g, S, m)
  PROVE  \A k \in 0..n : f[k] = g[k]
<1> DEFINE T == {k \in Nat : k <= n => f[k] = g[k]}
<1>1. \A k \in 0..n : f[k] = IF k = 0 THEN S ELSE f[k - 1] \cup Children(f[k - 1])
  BY DEF Grown
<1>2. \A k \in 0..n : g[k] = IF k = 0 THEN S ELSE g[k - 1] \cup Children(g[k - 1])
  <2>1. \A k \in 0..m : g[k] = IF k = 0 THEN S ELSE g[k - 1] \cup Children(g[k - 1])
    BY DEF Grown
  <2>2. \A k \in 0..n : k \in 0..m
    OBVIOUS
  <2> QED
    BY <2>1, <2>2
<1>3. 0 \in T
  <2>1. 0 \in 0..n
    OBVIOUS
  <2>2. f[0] = S /\ g[0] = S
    BY <1>1, <1>2, <2>1
  <2> QED
    BY <2>2
<1>4. ASSUME NEW k \in T PROVE k + 1 \in T
  <2> SUFFICES ASSUME k + 1 <= n PROVE f[k + 1] = g[k + 1]
    OBVIOUS
  <2>1. k \in 0..n /\ k + 1 \in 0..n /\ (k + 1) - 1 = k /\ k + 1 # 0
    OBVIOUS
  <2>2. f[k] = g[k]
    BY <2>1
  <2>3. f[k + 1] = f[k] \cup Children(f[k]) /\ g[k + 1] = g[k] \cup Children(g[k])
    BY <1>1, <1>2, <2>1
  <2> QED
    BY <2>2, <2>3
<1> HIDE DEF T
<1>5. T = Nat
  <2>1. T \in SUBSET Nat
    BY DEF T
  <2> QED
    BY <1>3, <1>4, <2>1, Upward
<1> QED
  BY <1>5 DEF T

\* The rule of Reach.
LEMMA ReachIs ==
  ASSUME NEW S, NEW n \in Nat
  PROVE  /\ Reach(S, 0) = S
         /\ Reach(S, n + 1) = Reach(S, n) \cup Children(Reach(S, n))
<1>1. ASSUME NEW m \in Nat PROVE \E f : Grown(f, S, m) /\ Reach(S, m) = f[m]
  <2> DEFINE f == CHOOSE f : Grown(f, S, m)
  <2>1. Grown(f, S, m)
    BY GrownExists
  <2>2. Reach(S, m) = f[m]
    BY DEF Reach, Grown
  <2> QED
    BY <2>1, <2>2
<1>2. PICK f : Grown(f, S, n) /\ Reach(S, n) = f[n]
  BY <1>1
<1>3. PICK g : Grown(g, S, n + 1) /\ Reach(S, n + 1) = g[n + 1]
  BY <1>1
<1>4. g[n] = f[n]
  BY <1>2, <1>3, GrownAgree
<1>5. g[n + 1] = g[n] \cup Children(g[n])
  <2>1. \A k \in 0..(n + 1) : g[k] = IF k = 0 THEN S ELSE g[k - 1] \cup Children(g[k - 1])
    BY <1>3 DEF Grown
  <2>2. n + 1 \in 0..(n + 1) /\ (n + 1) - 1 = n /\ n + 1 # 0
    OBVIOUS
  <2> QED
    BY <2>1, <2>2
<1>6. PICK e : Grown(e, S, 0) /\ Reach(S, 0) = e[0]
  BY <1>1
<1>7. e[0] = S
  <2>1. 0 \in 0..0
    OBVIOUS
  <2> QED
    BY <1>6, <2>1 DEF Grown
<1> QED
  BY <1>2, <1>3, <1>4, <1>5, <1>6, <1>7

\* Membership of Children, item by item.
LEMMA ChildrenOf ==
  ASSUME NEW S
  PROVE  /\ \A r \in S : \A i \in 1..r.n : IsRef(heap[r.to][i]) => heap[r.to][i] \in Children(S)
         /\ \A c \in Children(S) : IsRef(c) /\ \E r \in S : \E i \in 1..r.n : c = heap[r.to][i]
  BY DEF Children, Seen

\* What is reached stays in any set that holds what it holds.
LEMMA ReachIn ==
  ASSUME NEW S, NEW W, S \subseteq W, HoldsIn(heap, W, W), NEW n \in Nat
  PROVE  Reach(S, n) \subseteq W
<1> DEFINE T == {m \in Nat : Reach(S, m) \subseteq W}
<1>1. 0 \in T
  BY ReachIs
<1>2. ASSUME NEW m \in T PROVE m + 1 \in T
  <2>1. Children(Reach(S, m)) \subseteq W
    BY ChildrenOf DEF HoldsIn
  <2> QED
    BY <2>1, ReachIs
<1> HIDE DEF T
<1>3. T = Nat
  <2>1. T \in SUBSET Nat
    BY DEF T
  <2> QED
    BY <1>1, <1>2, <2>1, Upward
<1> QED
  BY <1>3 DEF T

\* More steps reach no less.
LEMMA ReachGrows ==
  ASSUME NEW S, NEW n \in Nat, NEW m \in Nat, n <= m
  PROVE  Reach(S, n) \subseteq Reach(S, m)
<1> DEFINE T == {k \in Nat : Reach(S, n) \subseteq Reach(S, n + k)}
<1>1. 0 \in T
  OBVIOUS
<1>2. ASSUME NEW k \in T PROVE k + 1 \in T
  <2>1. n + (k + 1) = (n + k) + 1 /\ n + k \in Nat
    OBVIOUS
  <2>2. Reach(S, n + k) \subseteq Reach(S, (n + k) + 1)
    BY <2>1, ReachIs
  <2> QED
    BY <2>1, <2>2
<1> HIDE DEF T
<1>3. T = Nat
  <2>1. T \in SUBSET Nat
    BY DEF T
  <2> QED
    BY <1>1, <1>2, <2>1, Upward
<1>4. m - n \in T /\ n + (m - n) = m
  BY <1>3
<1> QED
  BY <1>4 DEF T

-----------------------------------------------------------------------------
(* The walk's inductive invariant, in named parts.                         *)

Reasons == {Reason[f] : f \in Corrupted} \cup {"unsafeCycle"}
Answers == {"walking", ""} \cup Reasons
Safe == answer = ""

WalkTyped ==
    /\ heap \in Heaps /\ root \in Refs(heap)
    /\ path \in Seq([ref : Refs(heap), next : Nat])
    /\ \A i \in DOMAIN path : path[i].next >= 1 /\ path[i].next <= path[i].ref.n + 1
    /\ answer \in Answers
    /\ Safe <=> path = <<>>

\* The path is of distinct containers from the root, each held by the
\* one before where that one stands, and their keys are what is on the path.
OnePath ==
    /\ path # <<>> => path[1].ref = root
    /\ \A i \in DOMAIN path : i + 1 \in DOMAIN path =>
          path[i].next >= 2 /\ heap[path[i].ref.to][path[i].next - 1] = path[i + 1].ref
    /\ \A i, j \in DOMAIN path : path[i].ref = path[j].ref => i = j
    /\ onPath = {path[i].ref : i \in DOMAIN path}

\* What is behind the walk is harmless, all of it but the containers it is in.
BehindIsTame ==
    /\ \A i \in DOMAIN path : \A j \in 1..(path[i].next - 1) :
          i = Len(path) \/ j < path[i].next - 1 => Harmless(heap[path[i].ref.to][j], Tame(heap))
    /\ Safe => root \in Tame(heap)

\* A reason is of the item the walk stands at.
ReasonIsHere ==
    answer \in Reasons =>
        /\ Innermost.next <= Innermost.ref.n
        /\ \/ ~IsRef(Item) /\ Item.leaf \in Corrupted /\ answer = Reason[Item.leaf]
           \/ IsRef(Item) /\ Item \in onPath /\ answer = "unsafeCycle"

WalkInv == WalkTyped /\ OnePath /\ BehindIsTame /\ ReasonIsHere

-----------------------------------------------------------------------------
(* Every step of the walk keeps it.                                        *)

Frame == [ref : Refs(heap), next : Nat]

\* What the path is made of.
LEMMA FramesAre ==
  ASSUME WalkTyped
  PROVE  /\ \A i \in DOMAIN path : path[i] \in Frame
         /\ \A i \in DOMAIN path : path[i].next \in Nat /\ path[i].next >= 1 /\ path[i].next <= path[i].ref.n + 1
<1>1. path \in Seq(Frame)
  BY DEF WalkTyped, Frame
<1>2. \A i \in DOMAIN path : path[i] \in Frame
  BY <1>1
<1>3. \A i \in DOMAIN path : path[i].next \in Nat
  BY <1>2 DEF Frame
<1>4. \A i \in DOMAIN path : path[i].next >= 1 /\ path[i].next <= path[i].ref.n + 1
  BY DEF WalkTyped
<1> QED
  BY <1>2, <1>3, <1>4

\* The innermost container, and the item the walk stands at.
LEMMA TopIs ==
  ASSUME WalkTyped, path # <<>>
  PROVE  /\ Len(path) \in Nat /\ Len(path) >= 1 /\ Len(path) \in DOMAIN path
         /\ DOMAIN path = 1..Len(path)
         /\ Innermost \in [ref : Refs(heap), next : Nat] /\ Innermost.next >= 1 /\ Innermost.next <= Innermost.ref.n + 1
         /\ IsHeap(heap) /\ Innermost.ref.n \in Nat
<1>1. Len(path) \in Nat /\ Len(path) >= 1 /\ Len(path) \in DOMAIN path /\ DOMAIN path = 1..Len(path)
  BY DEF WalkTyped
<1>2. Innermost \in [ref : Refs(heap), next : Nat] /\ Innermost.next >= 1 /\ Innermost.next <= Innermost.ref.n + 1
  BY <1>1, FramesAre DEF Frame, Innermost
<1>3. IsHeap(heap)
  BY HeapsAssumption DEF WalkTyped
<1> QED
  BY <1>1, <1>2, <1>3, RefsAreRefs

LEMMA PendingIs ==
  ASSUME WalkTyped, Pending
  PROVE  /\ Innermost.next \in 1..Innermost.ref.n /\ path # <<>> /\ ~Safe
         /\ Item = heap[Innermost.ref.to][Innermost.next]
         /\ IsRef(Item) => Item \in Refs(heap)
         /\ ~IsRef(Item) => Item.leaf \in Corrupted \cup {"fit"}
<1>1. Innermost.next \in 1..Innermost.ref.n /\ path # <<>>
  BY TopIs DEF Pending
<1>2. ~Safe
  BY DEF Pending, Walking, Safe
<1> QED
  BY <1>1, <1>2, TopIs, ItemAt DEF Item

\* The path once the walk has gone past the item.
LEMMA AdvancedIs ==
  ASSUME WalkTyped, Pending
  PROVE  /\ Advanced \in Seq([ref : Refs(heap), next : Nat])
         /\ DOMAIN Advanced = DOMAIN path /\ Len(Advanced) = Len(path) /\ Advanced # <<>>
         /\ \A i \in DOMAIN path : Advanced[i].ref = path[i].ref
         /\ \A i \in DOMAIN path : i # Len(path) => Advanced[i] = path[i]
         /\ Advanced[Len(path)].next = Innermost.next + 1
<1>1. path \in Seq([ref : Refs(heap), next : Nat]) /\ path # <<>>
  BY DEF WalkTyped, Pending
<1>2. Innermost \in [ref : Refs(heap), next : Nat] /\ Len(path) \in DOMAIN path /\ Len(path) \in Nat /\ DOMAIN path = 1..Len(path)
  BY <1>1, TopIs
<1> DEFINE top == [Innermost EXCEPT !.next = @ + 1]
<1>3. top \in [ref : Refs(heap), next : Nat] /\ top.ref = Innermost.ref /\ top.next = Innermost.next + 1
  BY <1>2
<1>4. Advanced = [path EXCEPT ![Len(path)] = top]
  BY <1>2 DEF Advanced, Innermost
<1>5. Innermost = path[Len(path)]
  BY DEF Innermost
<1> HIDE DEF top
<1>6. Advanced \in Seq([ref : Refs(heap), next : Nat])
  BY <1>1, <1>2, <1>3, <1>4
<1>7. DOMAIN Advanced = DOMAIN path /\ Len(Advanced) = Len(path)
  BY <1>1, <1>2, <1>4, <1>6
<1>8. Advanced[Len(path)] = top /\ \A i \in DOMAIN path : i # Len(path) => Advanced[i] = path[i]
  BY <1>2, <1>4, <1>1
<1>9. Advanced # <<>>
  BY <1>7, <1>2
<1> QED
  BY <1>3, <1>5, <1>6, <1>7, <1>8, <1>9

\* The invariant holds at the start.
LEMMA InitInv == WalkInit => WalkInv
<1> SUFFICES ASSUME WalkInit PROVE WalkInv
  OBVIOUS
<1> DEFINE frame == [ref |-> root, next |-> 1]
<1>1. IsHeap(heap) /\ root \in Refs(heap)
  <2>1. PICK x \in Roots : root = Ref(x, Len(heap[x]))
    BY DEF WalkInit
  <2>2. x \in Nodes /\ IsHeap(heap)
    BY HeapsAssumption DEF WalkInit
  <2>3. Len(heap[x]) \in Nat
    BY <2>2 DEF IsHeap
  <2> QED
    BY <2>1, <2>2, <2>3 DEF Refs, Ref
<1>2. frame \in [ref : Refs(heap), next : Nat] /\ frame.ref = root /\ frame.next = 1
  BY <1>1
<1>3. path = <<frame>>
  BY DEF WalkInit
<1> HIDE DEF frame
<1>4. path \in Seq([ref : Refs(heap), next : Nat]) /\ DOMAIN path = {1} /\ path[1] = frame /\ path # <<>> /\ Len(path) = 1
  BY <1>2, <1>3
<1>5. answer = "walking" /\ heap \in Heaps /\ onPath = {root}
  BY DEF WalkInit, PathKey
<1>6. root.n \in Nat
  BY <1>1, RefsAreRefs
<1>7. ~Safe /\ answer \notin Reasons
  BY <1>5 DEF Safe, Reasons, Reason, Corrupted
<1>8. WalkTyped
  <2>1. answer \in Answers
    BY <1>5 DEF Answers
  <2> QED
    BY <1>1, <1>2, <1>4, <1>5, <1>6, <1>7, <2>1 DEF WalkTyped
<1>9. OnePath
  BY <1>2, <1>4, <1>5 DEF OnePath
<1>10. BehindIsTame
  BY <1>2, <1>4, <1>7 DEF BehindIsTame
<1> QED
  BY <1>7, <1>8, <1>9, <1>10 DEF WalkInv, ReasonIsHere

\* The walk goes past an item that is harmless.
LEMMA PastStep ==
  ASSUME WalkInv, Pending, Harmless(Item, Tame(heap)), path' = Advanced, UNCHANGED <<heap, root, onPath, answer>>
  PROVE  WalkInv'
<1>1. WalkTyped /\ OnePath /\ BehindIsTame
  BY DEF WalkInv
<1>2. heap' = heap /\ root' = root /\ onPath' = onPath /\ answer' = answer
  OBVIOUS
<1> DEFINE s == Advanced
<1>3. /\ s \in Seq([ref : Refs(heap), next : Nat])
      /\ DOMAIN s = DOMAIN path /\ Len(s) = Len(path) /\ s # <<>>
      /\ \A i \in DOMAIN path : s[i].ref = path[i].ref
      /\ \A i \in DOMAIN path : i # Len(path) => s[i] = path[i]
      /\ s[Len(path)].next = Innermost.next + 1
  BY <1>1, AdvancedIs
<1>4. path' = s
  OBVIOUS
<1> HIDE DEF s
<1>5. /\ Innermost = path[Len(path)] /\ Len(path) \in Nat /\ Len(path) \in DOMAIN path
      /\ DOMAIN path = 1..Len(path) /\ path # <<>>
      /\ Innermost.next \in 1..Innermost.ref.n /\ Item = heap[Innermost.ref.to][Innermost.next] /\ Innermost.ref.n \in Nat
  BY <1>1, PendingIs, TopIs DEF Innermost
<1>6. /\ \A i \in DOMAIN path : path[i].next >= 1 /\ path[i].next <= path[i].ref.n + 1
      /\ \A i \in DOMAIN path : path[i].next \in Nat
  BY <1>1, FramesAre
<1>7. WalkTyped'
  <2>1. \A i \in DOMAIN s : s[i].next >= 1 /\ s[i].next <= s[i].ref.n + 1
    BY <1>3, <1>5, <1>6
  <2>2. Safe' = Safe
    BY <1>2 DEF Safe
  <2> QED
    BY <1>1, <1>2, <1>3, <1>4, <1>5, <2>1, <2>2 DEF WalkTyped
<1>8. OnePath'
  <2>1. s[1].ref = root
    <3>1. 1 \in DOMAIN path
      BY <1>5
    <3>2. path[1].ref = root
      BY <1>1, <1>5 DEF OnePath
    <3> QED
      BY <1>3, <3>1, <3>2
  <2>2. \A i \in DOMAIN s : i + 1 \in DOMAIN s => s[i].next >= 2 /\ heap[s[i].ref.to][s[i].next - 1] = s[i + 1].ref
    BY <1>1, <1>3, <1>5 DEF OnePath
  <2>3. \A i, j \in DOMAIN s : s[i].ref = s[j].ref => i = j
    BY <1>1, <1>3 DEF OnePath
  <2>4. onPath = {s[i].ref : i \in DOMAIN s}
    BY <1>1, <1>3 DEF OnePath
  <2> QED
    BY <1>2, <1>4, <2>1, <2>2, <2>3, <2>4 DEF OnePath
<1>9. BehindIsTame'
  <2>1. ASSUME NEW i \in DOMAIN s, NEW j \in 1..(s[i].next - 1), i = Len(s) \/ j < s[i].next - 1
        PROVE  Harmless(heap[s[i].ref.to][j], Tame(heap))
    <3>1. CASE i # Len(path)
      BY <1>1, <1>3, <2>1, <3>1 DEF BehindIsTame
    <3>2. CASE i = Len(path) /\ j = Innermost.next
      BY <1>3, <1>5, <3>2
    <3>3. CASE i = Len(path) /\ j # Innermost.next
      <4>1. s[i].ref = Innermost.ref /\ s[i].next = Innermost.next + 1
        BY <1>3, <1>5, <3>3
      <4>2. j \in 1..(path[i].next - 1)
        BY <1>5, <3>3, <4>1
      <4> QED
        BY <1>1, <1>5, <3>3, <4>1, <4>2 DEF BehindIsTame
    <3> QED
      BY <3>1, <3>2, <3>3
  <2>2. Safe' = Safe
    BY <1>2 DEF Safe
  <2> QED
    BY <1>1, <1>2, <1>4, <2>1, <2>2 DEF BehindIsTame
<1>10. ReasonIsHere'
  <2>1. answer \notin Reasons
    BY DEF Pending, Walking, Reasons, Reason, Corrupted
  <2> QED
    BY <1>2, <2>1 DEF ReasonIsHere, Reasons
<1> QED
  BY <1>7, <1>8, <1>9, <1>10 DEF WalkInv

\* The walk stops with a reason.
LEMMA StopStep ==
  ASSUME WalkInv, Pending, NEW why, Answer(why), why \in Reasons,
         \/ ~IsRef(Item) /\ Item.leaf \in Corrupted /\ why = Reason[Item.leaf]
         \/ IsRef(Item) /\ Item \in onPath /\ why = "unsafeCycle"
  PROVE  WalkInv'
<1>1. WalkTyped /\ OnePath /\ BehindIsTame
  BY DEF WalkInv
<1>2. heap' = heap /\ root' = root /\ onPath' = onPath /\ path' = path /\ answer' = why
  BY DEF Answer
<1>3. ~Safe' /\ ~Safe
  BY <1>1, <1>2, PendingIs DEF Safe, Reasons, Reason, Corrupted
<1>4. why \in Answers
  BY DEF Answers
<1>5. WalkTyped'
  BY <1>1, <1>2, <1>3, <1>4 DEF WalkTyped
<1>6. OnePath'
  BY <1>1, <1>2 DEF OnePath
<1>7. BehindIsTame'
  BY <1>1, <1>2, <1>3 DEF BehindIsTame
<1>8. ReasonIsHere'
  <2>1. Innermost' = Innermost /\ Item' = Item
    BY <1>2 DEF Innermost, Item
  <2>2. Innermost.next <= Innermost.ref.n
    BY DEF Pending
  <2> QED
    BY <1>2, <2>1, <2>2 DEF ReasonIsHere
<1> QED
  BY <1>5, <1>6, <1>7, <1>8 DEF WalkInv

\* The walk goes into a container.
LEMMA EnterStep == WalkInv /\ Enter => WalkInv'
<1> SUFFICES ASSUME WalkInv, Enter PROVE WalkInv'
  OBVIOUS
<1>1. WalkTyped /\ OnePath /\ BehindIsTame /\ Pending
  BY DEF WalkInv, Enter
<1>2. heap' = heap /\ root' = root /\ answer' = answer
  BY DEF Enter
<1> DEFINE f == [ref |-> Item, next |-> 1]
           v == Advanced
           s == Append(Advanced, f)
           l == Len(path)
<1>3. Item \in Refs(heap) /\ Item.n \in Nat /\ Item \notin onPath /\ onPath' = onPath \cup {Item}
  BY <1>1, PendingIs, RefsAreRefs DEF Enter, PathKey
<1>4. f \in Frame /\ f.ref = Item /\ f.next = 1
  BY <1>3 DEF Frame
<1>5. /\ v \in Seq(Frame)
      /\ DOMAIN v = DOMAIN path /\ Len(v) = l /\ v # <<>>
      /\ \A i \in DOMAIN path : v[i].ref = path[i].ref
      /\ \A i \in DOMAIN path : i # l => v[i] = path[i]
      /\ v[l].next = Innermost.next + 1
  BY <1>1, AdvancedIs DEF Frame
<1>6. path' = s /\ s = Append(v, f)
  BY DEF Enter
<1>7. /\ Innermost = path[l] /\ l \in Nat /\ l >= 1 /\ l \in DOMAIN path
      /\ DOMAIN path = 1..l /\ path # <<>>
      /\ Innermost.next \in 1..Innermost.ref.n /\ Item = heap[Innermost.ref.to][Innermost.next] /\ Innermost.ref.n \in Nat
  BY <1>1, PendingIs, TopIs DEF Innermost
<1> HIDE DEF s, v, f, l
<1>8. /\ s \in Seq(Frame) /\ Len(s) = l + 1 /\ DOMAIN s = 1..(l + 1) /\ s # <<>>
      /\ s[l + 1] = f /\ \A i \in 1..l : s[i] = v[i]
  <2>1. s \in Seq(Frame) /\ Len(s) = l + 1 /\ s[l + 1] = f /\ \A i \in 1..l : s[i] = v[i]
    BY <1>4, <1>5, <1>6, <1>7, AppendProperties
  <2>2. DOMAIN s = 1..(l + 1) /\ s # <<>>
    BY <2>1, <1>7
  <2> QED
    BY <2>1, <2>2
<1>9. \A i \in 1..l : s[i].ref = path[i].ref
  BY <1>5, <1>7, <1>8
<1>10. \A i \in 1..l : i # l => s[i] = path[i]
  BY <1>5, <1>7, <1>8
<1>11. s[l].next = Innermost.next + 1
  BY <1>5, <1>7, <1>8
<1>12. \A i \in 1..l : path[i].next \in Nat /\ path[i].next >= 1 /\ path[i].next <= path[i].ref.n + 1
  BY <1>1, <1>7, FramesAre
<1>13. WalkTyped'
  <2>1. ASSUME NEW i \in DOMAIN s PROVE s[i].next >= 1 /\ s[i].next <= s[i].ref.n + 1
    <3>1. CASE i = l + 1
      BY <1>3, <1>4, <1>8, <3>1
    <3>2. CASE i = l
      BY <1>7, <1>9, <1>11, <3>2
    <3>3. CASE i \in 1..l /\ i # l
      BY <1>10, <1>12, <3>3
    <3> QED
      BY <1>7, <1>8, <3>1, <3>2, <3>3
  <2>2. Safe' = Safe /\ ~Safe
    BY <1>1, <1>2, PendingIs DEF Safe
  <2>3. s \in Seq([ref : Refs(heap), next : Nat])
    BY <1>8 DEF Frame
  <2> QED
    BY <1>1, <1>2, <1>6, <1>8, <2>1, <2>2, <2>3 DEF WalkTyped
<1>14. OnePath'
  <2>1. s[1].ref = root
    <3>1. 1 \in 1..l
      BY <1>7
    <3>2. path[1].ref = root
      BY <1>1, <1>7 DEF OnePath
    <3> QED
      BY <1>9, <3>1, <3>2
  <2>2. ASSUME NEW i \in DOMAIN s, i + 1 \in DOMAIN s
        PROVE  s[i].next >= 2 /\ heap[s[i].ref.to][s[i].next - 1] = s[i + 1].ref
    <3>1. CASE i = l
      <4>1. s[i].next = Innermost.next + 1 /\ s[i].ref = Innermost.ref /\ s[i + 1].ref = Item
        BY <1>4, <1>7, <1>8, <1>9, <1>11, <3>1
      <4>2. (Innermost.next + 1) - 1 = Innermost.next /\ Innermost.next + 1 >= 2
        BY <1>7
      <4> QED
        BY <1>7, <4>1, <4>2
    <3>2. CASE i # l
      <4>1. i \in 1..l /\ i + 1 \in 1..l
        BY <1>7, <1>8, <2>2, <3>2
      <4>2. path[i].next >= 2 /\ heap[path[i].ref.to][path[i].next - 1] = path[i + 1].ref
        BY <1>1, <1>7, <4>1 DEF OnePath
      <4>3. s[i] = path[i] /\ s[i + 1].ref = path[i + 1].ref
        BY <1>9, <1>10, <3>2, <4>1
      <4> QED
        BY <4>2, <4>3
    <3> QED
      BY <3>1, <3>2
  <2>3. \A i \in 1..l : s[i].ref # Item
    BY <1>1, <1>3, <1>7, <1>9 DEF OnePath
  <2>4. ASSUME NEW i \in DOMAIN s, NEW j \in DOMAIN s, s[i].ref = s[j].ref PROVE i = j
    <3>1. CASE i \in 1..l /\ j \in 1..l
      BY <1>1, <1>7, <1>9, <2>4, <3>1 DEF OnePath
    <3>2. CASE i = l + 1 \/ j = l + 1
      BY <1>4, <1>7, <1>8, <2>3, <2>4, <3>2
    <3> QED
      BY <1>7, <1>8, <3>1, <3>2
  <2>5. onPath' = {s[i].ref : i \in DOMAIN s}
    <3>1. onPath = {path[i].ref : i \in 1..l}
      BY <1>1, <1>7 DEF OnePath
    <3>2. s[l + 1].ref = Item
      BY <1>4, <1>8
    <3>3. \A i \in DOMAIN s : i = l + 1 \/ i \in 1..l
      BY <1>7, <1>8
    <3>4. l + 1 \in DOMAIN s /\ \A i \in 1..l : i \in DOMAIN s
      BY <1>7, <1>8
    <3> QED
      BY <1>3, <1>9, <3>1, <3>2, <3>3, <3>4
  <2> QED
    BY <1>2, <1>6, <2>1, <2>2, <2>4, <2>5 DEF OnePath
<1>15. BehindIsTame'
  <2>1. ASSUME NEW i \in DOMAIN s, NEW j \in 1..(s[i].next - 1), i = Len(s) \/ j < s[i].next - 1
        PROVE  Harmless(heap[s[i].ref.to][j], Tame(heap))
    <3>1. CASE i = l + 1
      BY <1>4, <1>8, <3>1
    <3>2. CASE i = l
      <4>1. s[i].ref = Innermost.ref /\ s[i].next = Innermost.next + 1 /\ i # Len(s)
        BY <1>7, <1>8, <1>9, <1>11, <3>2
      <4>2. j \in 1..(path[i].next - 1)
        BY <1>7, <2>1, <3>2, <4>1
      <4> QED
        BY <1>1, <1>7, <3>2, <4>1, <4>2 DEF BehindIsTame
    <3>3. CASE i \in 1..l /\ i # l
      <4>1. s[i] = path[i] /\ i # Len(s)
        BY <1>7, <1>8, <1>10, <3>3
      <4> QED
        BY <1>1, <1>7, <2>1, <3>3, <4>1 DEF BehindIsTame
    <3> QED
      BY <1>7, <1>8, <3>1, <3>2, <3>3
  <2>2. Safe' = Safe
    BY <1>2 DEF Safe
  <2> QED
    BY <1>1, <1>2, <1>6, <2>1, <2>2 DEF BehindIsTame
<1>16. ReasonIsHere'
  <2>1. answer \notin Reasons
    BY <1>1 DEF Pending, Walking, Reasons, Reason, Corrupted
  <2> QED
    BY <1>2, <2>1 DEF ReasonIsHere, Reasons
<1> QED
  BY <1>13, <1>14, <1>15, <1>16 DEF WalkInv

\* The walk leaves the container it is in, which is harmless then.
LEMMA LeaveStep == WalkInv /\ Leave => WalkInv'
<1> SUFFICES ASSUME WalkInv, Leave PROVE WalkInv'
  OBVIOUS
<1>1. WalkTyped /\ OnePath /\ BehindIsTame /\ path # <<>> /\ answer = "walking" /\ Innermost.next > Innermost.ref.n
  BY DEF WalkInv, Leave, Walking
<1>2. heap' = heap /\ root' = root /\ onPath' = onPath \ {Innermost.ref}
  BY DEF Leave, WithoutPath, PathKey
<1> DEFINE s == SubSeq(path, 1, Len(path) - 1)
           l == Len(path)
<1>3. /\ Innermost = path[l] /\ l \in Nat /\ l >= 1 /\ l \in DOMAIN path
      /\ DOMAIN path = 1..l /\ IsHeap(heap)
      /\ Innermost \in Frame /\ Innermost.next <= Innermost.ref.n + 1 /\ Innermost.ref.n \in Nat
  BY <1>1, TopIs DEF Innermost, Frame
<1>4. path' = s /\ s = SubSeq(path, 1, l - 1)
  BY DEF Leave
<1>5. path \in Seq(Frame)
  BY <1>1 DEF WalkTyped, Frame
<1> HIDE DEF s, l
<1>6. /\ s \in Seq(Frame) /\ Len(s) = l - 1 /\ DOMAIN s = 1..(l - 1)
      /\ \A i \in 1..(l - 1) : s[i] = path[i]
  <2>1. l = Len(path)
    BY DEF l
  <2>2. s \in Seq(Frame) /\ Len(s) = l - 1 /\ \A i \in 1..(l - 1) : s[i] = path[i]
    BY <1>3, <1>4, <1>5, <2>1, SubSeqProperties
  <2>3. DOMAIN s = 1..(l - 1)
    BY <2>2, <1>3
  <2> QED
    BY <2>2, <2>3
<1>7. Innermost.ref \in Tame(heap)
  <2>1. Innermost.ref \in Refs(heap) /\ Innermost.next = Innermost.ref.n + 1
    BY <1>1, <1>3 DEF Frame
  <2>2. \A i \in 1..Innermost.ref.n : i \in 1..(path[l].next - 1)
    BY <1>3, <2>1
  <2>3. \A i \in 1..Innermost.ref.n : Harmless(heap[Innermost.ref.to][i], Tame(heap))
    BY <1>1, <1>3, <2>2 DEF BehindIsTame, l
  <2> QED
    BY <1>3, <2>1, <2>3, TameIsClosed DEF Closed
<1>8. \A i \in 1..(l - 1) : i \in 1..l /\ i # l /\ i + 1 \in 1..l
  BY <1>3
<1>9. l = 1 <=> s = <<>>
  BY <1>3, <1>6
<1>10. Safe' <=> l = 1
  BY <1>1 DEF Leave, Safe, l
<1>11. answer' \in {"walking", ""}
  BY <1>1 DEF Leave
<1>12. answer' \notin Reasons /\ answer' \in Answers
  BY <1>11 DEF Reasons, Reason, Corrupted, Answers
<1>13. WalkTyped'
  <2>1. \A i \in DOMAIN s : s[i].next >= 1 /\ s[i].next <= s[i].ref.n + 1
    BY <1>1, <1>3, <1>6, <1>8, FramesAre
  <2>2. s \in Seq([ref : Refs(heap), next : Nat])
    BY <1>6 DEF Frame
  <2> QED
    BY <1>1, <1>2, <1>4, <1>9, <1>10, <1>12, <2>1, <2>2 DEF WalkTyped, Reasons, Answers
<1>14. OnePath'
  <2>1. s # <<>> => s[1].ref = root
    <3> SUFFICES ASSUME s # <<>> PROVE s[1].ref = root
      OBVIOUS
    <3>1. 1 \in 1..(l - 1)
      BY <1>3, <1>9
    <3>2. path[1].ref = root
      BY <1>1 DEF OnePath
    <3> QED
      BY <1>6, <3>1, <3>2
  <2>2. ASSUME NEW i \in DOMAIN s, i + 1 \in DOMAIN s
        PROVE  s[i].next >= 2 /\ heap[s[i].ref.to][s[i].next - 1] = s[i + 1].ref
    BY <1>1, <1>3, <1>6, <1>8, <2>2 DEF OnePath
  <2>3. ASSUME NEW i \in DOMAIN s, NEW j \in DOMAIN s, s[i].ref = s[j].ref PROVE i = j
    <3>1. s[i] = path[i] /\ s[j] = path[j] /\ i \in DOMAIN path /\ j \in DOMAIN path
      BY <1>3, <1>6, <1>8
    <3> QED
      BY <1>1, <2>3, <3>1 DEF OnePath
  <2>4. onPath' = {s[i].ref : i \in DOMAIN s}
    <3>1. onPath = {path[i].ref : i \in 1..l}
      BY <1>1, <1>3 DEF OnePath
    <3>2. \A i \in 1..l : i = l \/ i \in 1..(l - 1)
      BY <1>3
    <3>3. \A i \in 1..(l - 1) : path[i].ref # Innermost.ref
      BY <1>1, <1>3, <1>8 DEF OnePath
    <3> QED
      BY <1>2, <1>3, <1>6, <1>8, <3>1, <3>2, <3>3
  <2>5. heap' = heap /\ root' = root
    BY <1>2
  <2> QED
    BY <1>4, <2>1, <2>2, <2>3, <2>4, <2>5, ZenonT(60) DEF OnePath
<1>15. BehindIsTame'
  <2>1. ASSUME NEW i \in DOMAIN s, NEW j \in 1..(s[i].next - 1), i = Len(s) \/ j < s[i].next - 1
        PROVE  Harmless(heap[s[i].ref.to][j], Tame(heap))
    <3>1. s[i] = path[i] /\ i \in 1..l /\ i # l /\ i + 1 \in 1..l
      BY <1>6, <1>8
    <3>2. CASE j < s[i].next - 1
      BY <1>1, <1>3, <3>1, <3>2 DEF BehindIsTame
    <3>3. CASE ~(j < s[i].next - 1)
      <4>1. i = l - 1 /\ i + 1 = l
        BY <1>3, <1>6, <2>1, <3>3
      <4>2. s[i].next \in Nat
        BY <1>1, <1>3, <3>1, FramesAre
      <4>3. j = s[i].next - 1
        BY <3>3, <4>2
      <4>4. heap[s[i].ref.to][s[i].next - 1] = Innermost.ref
        BY <1>1, <1>3, <3>1, <4>1 DEF OnePath
      <4>5. IsRef(Innermost.ref)
        BY <1>3, RefsAreRefs DEF Frame
      <4> QED
        BY <1>7, <4>3, <4>4, <4>5 DEF Harmless
    <3> QED
      BY <3>2, <3>3
  <2>2. Safe' => root \in Tame(heap)
    <3>1. l = 1 => Innermost.ref = root
      BY <1>1, <1>3 DEF OnePath
    <3> QED
      BY <1>7, <1>10, <3>1
  <2> QED
    BY <1>2, <1>4, <2>1, <2>2 DEF BehindIsTame
<1>16. ReasonIsHere'
  BY <1>12 DEF ReasonIsHere, Reasons
<1> QED
  BY <1>13, <1>14, <1>15, <1>16 DEF WalkInv

LEMMA WalkInductive == WalkInv /\ [WalkNext]_walkVars => WalkInv'
<1> SUFFICES ASSUME WalkInv, [WalkNext]_walkVars PROVE WalkInv'
  OBVIOUS
<1>1. WalkTyped
  BY DEF WalkInv
<1>2. CASE FitLeaf
  <2>1. Harmless(Item, Tame(heap))
    BY <1>2 DEF FitLeaf, Harmless, Unfit
  <2> QED
    BY <1>2, <2>1, PastStep DEF FitLeaf
<1>3. CASE Report
  <2>1. Reason[Item.leaf] \in Reasons
    BY <1>3 DEF Report, Unfit, Reasons
  <2> QED
    BY <1>3, <2>1, StopStep DEF Report, Unfit
<1>4. CASE Empty
  <2>1. IsHeap(heap) /\ Item \in Refs(heap) /\ Item.n = 0 /\ IsRef(Item)
    BY <1>1, <1>4, HeapsAssumption, PendingIs DEF Empty, WalkTyped
  <2>2. \A i \in 1..Item.n : Harmless(heap[Item.to][i], Tame(heap))
    BY <2>1
  <2>3. Harmless(Item, Tame(heap))
    BY <2>1, <2>2, TameIsClosed DEF Closed, Harmless
  <2> QED
    BY <1>4, <2>3, PastStep DEF Empty
<1>5. CASE Cycle
  <2>1. "unsafeCycle" \in Reasons
    BY DEF Reasons
  <2> QED
    BY <1>5, <2>1, StopStep DEF Cycle, PathKey
<1>6. CASE UNCHANGED walkVars
  <2>1. heap' = heap /\ root' = root /\ path' = path /\ onPath' = onPath /\ answer' = answer
    BY <1>6 DEF walkVars
  <2>2. Safe' = Safe /\ Innermost' = Innermost /\ Item' = Item
    BY <2>1 DEF Safe, Innermost, Item
  <2>3. WalkTyped'
    BY <2>1, <2>2, <1>1 DEF WalkTyped
  <2>4. OnePath'
    BY <2>1 DEF WalkInv, OnePath
  <2>5. BehindIsTame'
    BY <2>1, <2>2 DEF WalkInv, BehindIsTame
  <2>6. ReasonIsHere'
    BY <2>1, <2>2 DEF WalkInv, ReasonIsHere
  <2> QED
    BY <2>3, <2>4, <2>5, <2>6 DEF WalkInv
<1> QED
  BY <1>2, <1>3, <1>4, <1>5, <1>6, EnterStep, LeaveStep DEF WalkNext

-----------------------------------------------------------------------------
(* What the invariant says of the value.                                   *)

\* No path of distinct containers is longer than there are views.
LEMMA ViewsSuffice == WalkTyped /\ OnePath => Views \in Nat /\ Len(path) <= Views
<1> SUFFICES ASSUME WalkTyped, OnePath PROVE Views \in Nat /\ Len(path) <= Views
  OBVIOUS
<1> DEFINE All == UNION {Seen(Ref(x, Len(heap[x]))) : x \in Nodes}
           f == [i \in 1..(Len(path) - 1) |-> path[i + 1].ref]
<1>1. IsHeap(heap)
  BY HeapsAssumption DEF WalkTyped
<1>2. IsFiniteSet(All)
  <2> DEFINE Fam == {Seen(Ref(x, Len(heap[x]))) : x \in Nodes}
  <2>1. IsFiniteSet(Nodes)
    BY HeapsAssumption
  <2>2. IsFiniteSet(Fam)
    <3> DEFINE g == [x \in Nodes |-> Seen(Ref(x, Len(heap[x])))]
    <3>1. g \in Surjection(Nodes, Fam)
      BY DEF Surjection
    <3> QED
      BY <2>1, <3>1, FS_Surjection
  <2>3. ASSUME NEW x \in Nodes PROVE IsFiniteSet(Seen(Ref(x, Len(heap[x]))))
    <3> DEFINE n == Len(heap[x])
               g == [i \in 1..n |-> heap[x][i]]
               I == {heap[x][i] : i \in 1..n}
    <3>1. n \in Nat
      BY <1>1 DEF IsHeap
    <3>2. Seen(Ref(x, n)) = I
      BY DEF Seen, Ref
    <3> HIDE DEF n
    <3>3. IsFiniteSet(1..n)
      BY <3>1, FS_Interval
    <3>4. g \in Surjection(1..n, I)
      BY DEF Surjection
    <3>5. IsFiniteSet(I)
      BY <3>3, <3>4, FS_Surjection
    <3> QED
      BY <3>2, <3>5 DEF n
  <2>4. \A T \in Fam : IsFiniteSet(T)
    BY <2>3
  <2> HIDE DEF Fam
  <2>5. IsFiniteSet(UNION Fam)
    BY <2>2, <2>4, FS_UNION
  <2> QED
    BY <2>5 DEF Fam
<1>3. Views = Cardinality(All) + 1 /\ Cardinality(All) \in Nat
  BY <1>2, FS_CardinalityType DEF Views
<1>4. Len(path) \in Nat /\ DOMAIN path = 1..Len(path)
  BY DEF WalkTyped
<1>5. ASSUME NEW i \in 1..(Len(path) - 1) PROVE f[i] \in All
  <2>1. i \in DOMAIN path /\ i + 1 \in DOMAIN path /\ f[i] = path[i + 1].ref
    BY <1>4
  <2> DEFINE r == path[i].ref
             k == path[i].next - 1
  <2>2. heap[r.to][k] = f[i] /\ path[i].next >= 2
    BY <2>1 DEF OnePath
  <2>3. r \in Refs(heap) /\ path[i].next \in Nat /\ path[i].next <= r.n + 1
    BY <2>1, FramesAre DEF Frame
  <2>4. r.to \in Nodes /\ r.n \in Nat /\ r.n <= Len(heap[r.to]) /\ Len(heap[r.to]) \in Nat
    BY <1>1, <2>3, RefsAreRefs DEF IsHeap
  <2>5. k \in 1..Len(heap[r.to])
    <3> DEFINE e == path[i].next
               n == r.n
               m == Len(heap[r.to])
    <3>1. e \in Nat /\ e >= 2 /\ e <= n + 1 /\ n \in Nat /\ m \in Nat /\ n <= m
      BY <2>2, <2>3, <2>4
    <3> HIDE DEF e, n, m
    <3>2. e - 1 \in 1..m
      BY <3>1
    <3> QED
      BY <3>2 DEF e, m
  <2> HIDE DEF k, r, f
  <2>6. f[i] \in Seen(Ref(r.to, Len(heap[r.to])))
    BY <2>2, <2>5 DEF Seen, Ref
  <2> QED
    BY <2>4, <2>6
<1>6. f \in Injection(1..(Len(path) - 1), All)
  <2>1. ASSUME NEW i \in 1..(Len(path) - 1), NEW j \in 1..(Len(path) - 1), f[i] = f[j] PROVE i = j
    <3>1. i + 1 \in DOMAIN path /\ j + 1 \in DOMAIN path
      BY <1>4
    <3>2. i + 1 = j + 1
      BY <2>1, <3>1 DEF OnePath
    <3> QED
      BY <3>2
  <2>2. f \in [1..(Len(path) - 1) -> All]
    BY <1>5
  <2> HIDE DEF f, All
  <2> QED
    BY <2>1, <2>2 DEF Injection, IsInjective
<1> HIDE DEF All, f
<1>7. Cardinality(1..(Len(path) - 1)) <= Cardinality(All)
  BY <1>2, <1>6, FS_Injection
<1>8. Cardinality(1..(Len(path) - 1)) = IF 1 > Len(path) - 1 THEN 0 ELSE (Len(path) - 1) - 1 + 1
  BY <1>4, FS_Interval, SMTT(20)
<1> QED
  BY <1>3, <1>4, <1>7, <1>8

\* A value all of which is harmless has no flaw.
LEMMA TameIsFlawless ==
  ASSUME IsHeap(heap), Views \in Nat, root \in Tame(heap)
  PROVE  Flaws = {}
<1>1. Tame(heap) \subseteq Refs(heap)
  BY DEF Tame
<1>2. HoldsIn(heap, Tame(heap), Tame(heap))
  BY TameHoldsTame DEF HoldsIn, Harmless
<1>3. Reachable \subseteq Tame(heap)
  <2>1. {root} \subseteq Tame(heap)
    OBVIOUS
  <2> QED
    BY <1>2, <2>1, ReachIn DEF Reachable
<1>4. ASSUME NEW v \in Reachable PROVE \A i \in Seen(v) : ~(~IsRef(i) /\ i.leaf \in Corrupted)
  <2>1. \A i \in 1..v.n : Harmless(heap[v.to][i], Tame(heap))
    BY <1>3, TameHoldsTame
  <2> QED
    BY <2>1 DEF Seen, Harmless
<1>5. ASSUME NEW v \in Reachable PROVE v \notin Reach(Children({v}), Views)
  <2> DEFINE W == Below(heap, v)
  <2>1. v \in Refs(heap) /\ v \notin W
    BY <1>1, <1>3, TameNoCycle
  <2>2. HoldsIn(heap, W, W)
    <3> SUFFICES ASSUME NEW y \in W, NEW i \in 1..y.n, IsRef(heap[y.to][i]) PROVE heap[y.to][i] \in W
      BY DEF HoldsIn
    <3>1. y \in Refs(heap)
      BY DEF Below
    <3>2. heap[y.to][i] \in Refs(heap)
      BY <3>1, ItemAt
    <3> QED
      BY <3>2 DEF Below, HoldsIn
  <2>3. Children({v}) \subseteq W
    <3> SUFFICES ASSUME NEW c \in Children({v}) PROVE c \in W
      OBVIOUS
    <3>1. PICK i \in 1..v.n : c = heap[v.to][i] /\ IsRef(c)
      BY ChildrenOf
    <3>2. c \in Refs(heap)
      BY <2>1, <3>1, ItemAt
    <3> QED
      BY <3>1, <3>2 DEF Below, HoldsIn
  <2> HIDE DEF W
  <2>4. Reach(Children({v}), Views) \subseteq W
    BY <2>2, <2>3, ReachIn
  <2> QED
    BY <2>1, <2>4
<1> QED
  BY <1>4, <1>5 DEF Flaws

\* The path, from its i-th container on, is reached from what holds that one.
LEMMA PathIsReached ==
  ASSUME WalkTyped, OnePath, NEW S, NEW i \in DOMAIN path, path[i].ref \in S,
         NEW j \in DOMAIN path, i <= j
  PROVE  path[j].ref \in Reach(S, j - i)
<1>1. Len(path) \in Nat /\ DOMAIN path = 1..Len(path)
  BY DEF WalkTyped
<1> DEFINE T == {k \in Nat : i + k \in DOMAIN path => path[i + k].ref \in Reach(S, k)}
<1>2. 0 \in T
  <2>1. i + 0 = i
    BY <1>1
  <2> QED
    BY <2>1, ReachIs
<1>3. ASSUME NEW k \in T PROVE k + 1 \in T
  <2> SUFFICES ASSUME i + (k + 1) \in DOMAIN path PROVE path[i + (k + 1)].ref \in Reach(S, k + 1)
    OBVIOUS
  <2> DEFINE m == i + k
             r == path[m].ref
             p == path[m].next - 1
  <2>1. m \in DOMAIN path /\ m + 1 = i + (k + 1) /\ m + 1 \in DOMAIN path
    BY <1>1
  <2>2. r \in Reach(S, k)
    BY <2>1
  <2>3. heap[r.to][p] = path[m + 1].ref /\ path[m].next >= 2
    BY <2>1 DEF OnePath
  <2>4. r \in Refs(heap) /\ path[m].next \in Nat /\ path[m].next <= r.n + 1 /\ path[m + 1].ref \in Refs(heap)
    BY <2>1, FramesAre DEF Frame
  <2>5. p \in 1..r.n /\ IsRef(path[m + 1].ref)
    BY <2>3, <2>4, RefsAreRefs
  <2> HIDE DEF m, r, p
  <2>6. path[m + 1].ref \in Children(Reach(S, k))
    BY <2>2, <2>3, <2>5, ChildrenOf
  <2> QED
    BY <2>1, <2>6, ReachIs
<1> HIDE DEF T
<1>4. T = Nat
  <2>1. T \in SUBSET Nat
    BY DEF T
  <2> QED
    BY <1>2, <1>3, <2>1, Upward
<1>5. j - i \in T /\ i + (j - i) = j
  BY <1>1, <1>4
<1> QED
  BY <1>5 DEF T

\* A reason given is a flaw of the value.
LEMMA ReasonIsAFlaw == WalkInv /\ answer \in Reasons => answer \in Flaws
<1> SUFFICES ASSUME WalkInv, answer \in Reasons PROVE answer \in Flaws
  OBVIOUS
<1>1. WalkTyped /\ OnePath /\ Views \in Nat /\ Len(path) <= Views
  BY ViewsSuffice DEF WalkInv
<1>2. path # <<>>
  BY <1>1 DEF WalkTyped, Safe, Reasons, Reason, Corrupted
<1> DEFINE l == Len(path)
<1>3. /\ l \in Nat /\ l >= 1 /\ l \in DOMAIN path /\ DOMAIN path = 1..l /\ Innermost = path[l]
      /\ Innermost.next \in Nat /\ Innermost.next >= 1 /\ Innermost.ref.n \in Nat
  BY <1>1, <1>2, TopIs DEF Innermost
<1>4. /\ Innermost.next \in 1..Innermost.ref.n
      /\ \/ ~IsRef(Item) /\ Item.leaf \in Corrupted /\ answer = Reason[Item.leaf]
         \/ IsRef(Item) /\ Item \in onPath /\ answer = "unsafeCycle"
  <2>1. /\ Innermost.next <= Innermost.ref.n
        /\ \/ ~IsRef(Item) /\ Item.leaf \in Corrupted /\ answer = Reason[Item.leaf]
           \/ IsRef(Item) /\ Item \in onPath /\ answer = "unsafeCycle"
    BY DEF WalkInv, ReasonIsHere
  <2>2. Innermost.next \in 1..Innermost.ref.n
    BY <1>3, <2>1
  <2> QED
    BY <2>1, <2>2
<1>5. Item \in Seen(Innermost.ref)
  BY <1>4 DEF Item, Seen
<1> HIDE DEF l
<1>6. ASSUME NEW j \in DOMAIN path PROVE path[j].ref \in Reachable
  <2>1. 1 \in DOMAIN path /\ 1 <= j /\ j \in Nat /\ j <= Views
    BY <1>1, <1>3 DEF l
  <2>2. path[1].ref \in {root}
    BY <1>1, <1>2 DEF OnePath
  <2>3. path[j].ref \in Reach({root}, j - 1)
    BY <1>1, <2>1, <2>2, PathIsReached
  <2>4. j - 1 \in Nat /\ j - 1 <= Views
    BY <1>1, <2>1
  <2> QED
    BY <1>1, <2>3, <2>4, ReachGrows DEF Reachable
<1>7. Innermost.ref \in Reachable
  BY <1>3, <1>6
<1>8. CASE ~IsRef(Item) /\ Item.leaf \in Corrupted /\ answer = Reason[Item.leaf]
  BY <1>5, <1>7, <1>8 DEF Flaws
<1>9. CASE IsRef(Item) /\ Item \in onPath /\ answer = "unsafeCycle"
  <2>1. PICK j \in DOMAIN path : path[j].ref = Item
    BY <1>1, <1>9 DEF OnePath
  <2> DEFINE v == path[j].ref
  <2>2. v \in Reachable
    BY <1>6
  <2>3. j \in Nat /\ 1 <= j /\ j <= l /\ l <= Views
    BY <1>1, <1>3 DEF l
  <2>4. Item \in Children({Innermost.ref})
    BY <1>4, <1>9, ChildrenOf DEF Item
  <2>5. v \in Reach(Children({v}), Views)
    <3>1. CASE j = l
      <4>1. v \in Reach(Children({v}), 0)
        BY <1>3, <2>1, <2>4, <3>1, ReachIs
      <4> QED
        BY <1>1, <4>1, ReachGrows
    <3>2. CASE j # l
      <4>1. j + 1 \in DOMAIN path /\ j + 1 <= l
        BY <1>3, <2>3, <3>2
      <4>2. path[j + 1].ref \in Children({v})
        <5> DEFINE p == path[j].next - 1
        <5>1. heap[v.to][p] = path[j + 1].ref /\ path[j].next >= 2
          BY <1>1, <4>1 DEF OnePath
        <5>2. v \in Refs(heap) /\ path[j].next \in Nat /\ path[j].next <= v.n + 1 /\ path[j + 1].ref \in Refs(heap)
          BY <1>1, <4>1, FramesAre DEF Frame
        <5>3. p \in 1..v.n /\ IsRef(path[j + 1].ref)
          BY <5>1, <5>2, RefsAreRefs
        <5> HIDE DEF p, v
        <5> QED
          BY <5>1, <5>3, ChildrenOf
      <4> DEFINE K == Children({v})
                 d == l - (j + 1)
      <4>3. Innermost.ref \in Reach(K, d)
        BY <1>1, <1>3, <4>1, <4>2, PathIsReached
      <4>4. d \in Nat /\ d + 1 \in Nat /\ d + 1 <= Views
        BY <1>1, <1>3, <2>3, <4>1
      <4> HIDE DEF K, d, v
      <4>5. Item \in Children(Reach(K, d))
        BY <1>4, <1>9, <4>3, ChildrenOf DEF Item
      <4>6. Item \in Reach(K, d + 1)
        BY <4>4, <4>5, ReachIs
      <4>7. Item \in Reach(K, Views)
        BY <1>1, <4>4, <4>6, ReachGrows
      <4> QED
        BY <2>1, <4>7 DEF v, K
    <3> QED
      BY <3>1, <3>2
  <2> HIDE DEF v
  <2> QED
    BY <1>9, <2>2, <2>5 DEF Flaws
<1> QED
  BY <1>4, <1>8, <1>9

LEMMA InvWithheld == WalkInv => Withheld
<1> SUFFICES ASSUME WalkInv PROVE Withheld
  OBVIOUS
<1>1. WalkTyped /\ OnePath /\ BehindIsTame /\ IsHeap(heap)
  BY HeapsAssumption DEF WalkInv, WalkTyped
<1>2. Safe => Flaws = {}
  BY <1>1, ViewsSuffice, TameIsFlawless DEF BehindIsTame
<1>3. answer \in {"walking", ""} \cup Reasons
  BY <1>1 DEF WalkTyped, Answers
<1> QED
  BY <1>2, <1>3, ReasonIsAFlaw DEF Withheld, Safe

\* jsonUnsafe withholds exactly what JSON would corrupt or never end on, for
\* any heap of finitely many containers.
THEOREM WithheldAsItShould == WalkSpec => []Withheld
<1>1. WalkInv /\ [WalkNext]_walkVars => WalkInv'
  BY WalkInductive
<1> QED
  BY <1>1, InitInv, InvWithheld, PTL DEF WalkSpec

-----------------------------------------------------------------------------
(* The descent: what it reads at a position, and that there is one.        *)

\* What the descent reads at i, of any later readings.
Row(events, read, i) ==
    [value   |-> [depth \in Nat |-> ReadValue(events, read, i, depth)],
     members |-> [depth \in Nat |-> ReadMembers(events, read, i, depth)],
     items   |-> [depth \in Nat |-> ReadItems(events, read, i, depth)]]

\* A reading at i of n events ends past i and at most past them all.
EndsPast(r, i, n) ==
    /\ r.ok \in BOOLEAN /\ r.done \in BOOLEAN
    /\ r.done => r.ok /\ r.next \in (i + 1)..(n + 1)

\* Every reading is one of the three records.
IsReading(r) == \/ \E next, w : r = Whole(next, w)
                \/ \E lines : r = Begun(lines)
                \/ r = NoTree

\* All of the readings at a position are readings and end past it.
SensibleRow(row, i, n) ==
    \A depth \in Nat : /\ EndsPast(row.value[depth], i, n) /\ IsReading(row.value[depth])
                       /\ EndsPast(row.members[depth], i, n) /\ IsReading(row.members[depth])
                       /\ EndsPast(row.items[depth], i, n) /\ IsReading(row.items[depth])

\* The fields of the three readings.
LEMMA ReadingsEnd ==
  /\ \A next, written : Whole(next, written).ok /\ Whole(next, written).done
                        /\ Whole(next, written).next = next /\ Whole(next, written).text = written
  /\ \A lines : Begun(lines).ok /\ ~Begun(lines).done /\ Begun(lines).text = lines
  /\ ~NoTree.ok /\ ~NoTree.done
  /\ \A lines : Begun(lines).done \in BOOLEAN /\ Begun(lines).ok \in BOOLEAN
  /\ \A n, w : Whole(n, w).done \in BOOLEAN /\ Whole(n, w).ok \in BOOLEAN
  /\ NoTree.done \in BOOLEAN /\ NoTree.ok \in BOOLEAN
  BY DEF Whole, Begun, NoTree

\* The readings that need no other.
LEMMA SimpleEnds ==
  ASSUME NEW n \in Nat, NEW i \in 1..(n + 1)
  PROVE  /\ \A lines : EndsPast(Begun(lines), i, n)
         /\ EndsPast(NoTree, i, n)
         /\ i <= n => \A w : EndsPast(Whole(i + 1, w), i, n)
         /\ \A lines : IsReading(Begun(lines))
         /\ \A next, w : IsReading(Whole(next, w))
         /\ IsReading(NoTree)
  BY ReadingsEnd DEF EndsPast, IsReading

\* A container ends where its inside does.
LEMMA ContainerEnds ==
  ASSUME NEW n \in Nat, NEW i \in 1..n, NEW events, NEW inside, NEW depth,
         EndsPast(inside, i + 1, n), IsReading(inside)
  PROVE  /\ EndsPast(Container(events, i, inside, depth), i, n)
         /\ IsReading(Container(events, i, inside, depth))
<1>1. CASE ~inside.done
  BY <1>1 DEF Container, EndsPast
<1>2. CASE inside.done
  <2>1. inside.next \in (i + 1)..(n + 1)
    BY <1>2 DEF EndsPast
  <2>2. \A w : EndsPast(Whole(inside.next, w), i, n)
    BY <2>1, ReadingsEnd DEF EndsPast
  <2> QED
    BY <1>2, <2>2, SimpleEnds DEF Container
<1> QED
  BY <1>1, <1>2 DEF EndsPast

\* The lines of a container end where the last of them does.
LEMMA LinesEnd ==
  ASSUME NEW n \in Nat, NEW i \in 1..n, NEW name, NEW value, NEW rest, NEW depth,
         EndsPast(value, i, n), value.done => EndsPast(rest, value.next, n) /\ IsReading(rest)
  PROVE  EndsPast(Lines(name, value, rest, depth), i, n) /\ IsReading(Lines(name, value, rest, depth))
<1> DEFINE r == Lines(name, value, rest, depth)
<1>0. value.done \in BOOLEAN /\ value.ok \in BOOLEAN
  BY DEF EndsPast
<1>1. CASE ~value.done
  <2>1. r = Begun(<<>>) \/ r = NoTree
    BY <1>0, <1>1 DEF Lines
  <2> QED
    BY <2>1, SimpleEnds DEF IsReading
<1>2. CASE value.done
  <2>0. rest.ok \in BOOLEAN /\ rest.done \in BOOLEAN /\ value.next \in (i + 1)..(n + 1)
    BY <1>2 DEF EndsPast
  <2>1. CASE ~rest.ok
    <3>1. r = NoTree
      BY <1>2, <2>1 DEF Lines
    <3> QED
      BY <3>1, SimpleEnds DEF IsReading
  <2>2. CASE rest.ok
    <3> DEFINE f == Indentation(depth) \o name \o value.text \o <<Comma>> \o LineEnds(depth)
    <3>1. r = [rest EXCEPT !.text = f \o @]
      BY <1>2, <2>2 DEF Lines
    <3> HIDE DEF f
    <3>2. CASE \E next, w : rest = Whole(next, w)
      <4>1. PICK next, w : rest = Whole(next, w)
        BY <3>2
      <4>2. r = Whole(next, f \o w)
        BY <3>1, <4>1 DEF Whole
      <4>3. rest.done /\ rest.next = next
        BY <4>1, ReadingsEnd
      <4>4. next \in (i + 1)..(n + 1)
        BY <1>2, <2>0, <4>3 DEF EndsPast
      <4>5. EndsPast(Whole(next, f \o w), i, n)
        BY <4>4, ReadingsEnd DEF EndsPast
      <4> QED
        BY <4>2, <4>5 DEF IsReading
    <3>3. CASE \E lines : rest = Begun(lines)
      <4>1. PICK lines : rest = Begun(lines)
        BY <3>3
      <4>2. r = Begun(f \o lines)
        BY <3>1, <4>1 DEF Begun
      <4> QED
        BY <4>2, SimpleEnds DEF IsReading
    <3>4. CASE rest = NoTree
      BY <3>4, <2>2, ReadingsEnd
    <3> QED
      BY <1>2, <3>2, <3>3, <3>4 DEF IsReading
  <2> QED
    BY <2>0, <2>1, <2>2
<1> QED
  BY <1>0, <1>1, <1>2

\* A reading looks at later positions only.
LEMMA RowLocal ==
  ASSUME NEW ev \in Seq(Events), NEW i \in 1..(Len(ev) + 1), NEW f, NEW g,
         \A j \in (i + 1)..(Len(ev) + 1) : f[j] = g[j] /\ SensibleRow(f[j], j, Len(ev))
  PROVE  /\ Row(ev, f, i) = Row(ev, g, i)
         /\ SensibleRow(Row(ev, f, i), i, Len(ev))
<1> DEFINE n == Len(ev)
<1>0. n \in Nat
  OBVIOUS
<1>1. ASSUME NEW d \in Nat, i <= n
      PROVE  /\ f[i + 1] = g[i + 1] /\ d + 1 \in Nat
             /\ \A e \in {d, d + 1} :
                /\ EndsPast(f[i + 1].value[e], i + 1, n) /\ IsReading(f[i + 1].value[e])
                /\ EndsPast(f[i + 1].members[e], i + 1, n) /\ IsReading(f[i + 1].members[e])
                /\ EndsPast(f[i + 1].items[e], i + 1, n) /\ IsReading(f[i + 1].items[e])
  <2>1. i + 1 \in (i + 1)..(n + 1) /\ d + 1 \in Nat
    BY <1>1
  <2>2. SensibleRow(f[i + 1], i + 1, n) /\ f[i + 1] = g[i + 1]
    BY <2>1
  <2> QED
    BY <2>1, <2>2 DEF SensibleRow
<1>2. ASSUME NEW d \in Nat
      PROVE  /\ ReadValue(ev, f, i, d) = ReadValue(ev, g, i, d)
             /\ EndsPast(ReadValue(ev, f, i, d), i, n) /\ IsReading(ReadValue(ev, f, i, d))
  <2>1. CASE i > n
    BY <1>0, <2>1, SimpleEnds DEF ReadValue
  <2>2. CASE i <= n
    <3>1. i \in 1..n /\ ~(i > n)
      BY <1>0, <2>2
    <3>2. CASE ev[i].event = "scalar"
      BY <1>0, <2>2, <3>1, <3>2, SimpleEnds DEF ReadValue
    <3>3. CASE ev[i].event = "object-start"
      <4>1. /\ ReadValue(ev, f, i, d) = Container(ev, i, f[i + 1].members[d + 1], d)
            /\ ReadValue(ev, g, i, d) = Container(ev, i, g[i + 1].members[d + 1], d)
        BY <3>1, <3>3 DEF ReadValue
      <4>2. /\ f[i + 1] = g[i + 1]
            /\ EndsPast(f[i + 1].members[d + 1], i + 1, n) /\ IsReading(f[i + 1].members[d + 1])
        BY <1>1, <2>2
      <4> DEFINE inside == f[i + 1].members[d + 1]
      <4>3. ReadValue(ev, f, i, d) = Container(ev, i, inside, d)
            /\ ReadValue(ev, g, i, d) = Container(ev, i, inside, d)
        BY <4>1, <4>2
      <4>4. EndsPast(inside, i + 1, n) /\ IsReading(inside)
        BY <4>2
      <4> HIDE DEF inside
      <4>5. EndsPast(Container(ev, i, inside, d), i, n) /\ IsReading(Container(ev, i, inside, d))
        BY <1>0, <3>1, <4>4, ContainerEnds
      <4> QED
        BY <4>3, <4>5
    <3>4. CASE ev[i].event = "array-start"
      <4>1. /\ ReadValue(ev, f, i, d) = Container(ev, i, f[i + 1].items[d + 1], d)
            /\ ReadValue(ev, g, i, d) = Container(ev, i, g[i + 1].items[d + 1], d)
        BY <3>1, <3>4 DEF ReadValue
      <4>2. /\ f[i + 1] = g[i + 1]
            /\ EndsPast(f[i + 1].items[d + 1], i + 1, n) /\ IsReading(f[i + 1].items[d + 1])
        BY <1>1, <2>2
      <4> DEFINE inside == f[i + 1].items[d + 1]
      <4>3. ReadValue(ev, f, i, d) = Container(ev, i, inside, d)
            /\ ReadValue(ev, g, i, d) = Container(ev, i, inside, d)
        BY <4>1, <4>2
      <4>4. EndsPast(inside, i + 1, n) /\ IsReading(inside)
        BY <4>2
      <4> HIDE DEF inside
      <4>5. EndsPast(Container(ev, i, inside, d), i, n) /\ IsReading(Container(ev, i, inside, d))
        BY <1>0, <3>1, <4>4, ContainerEnds
      <4> QED
        BY <4>3, <4>5
    <3>5. CASE ev[i].event \notin {"scalar", "object-start", "array-start"}
      BY <1>0, <3>1, <3>5, SimpleEnds DEF ReadValue
    <3> QED
      BY <3>2, <3>3, <3>4, <3>5
  <2> QED
    BY <1>0, <2>1, <2>2
<1>3. ASSUME NEW d \in Nat
      PROVE  /\ ReadMembers(ev, f, i, d) = ReadMembers(ev, g, i, d)
             /\ EndsPast(ReadMembers(ev, f, i, d), i, n) /\ IsReading(ReadMembers(ev, f, i, d))
  <2>1. CASE i > n
    BY <1>0, <2>1, SimpleEnds DEF ReadMembers
  <2>2. CASE i <= n
    <3>1. i \in 1..n /\ ~(i > n)
      BY <1>0, <2>2
    <3>2. CASE ev[i].event = "object-end"
      BY <1>0, <2>2, <3>1, <3>2, SimpleEnds DEF ReadMembers
    <3>3. CASE ev[i].event = "key"
      <4> DEFINE name == <<FieldToken(ev[i].name), Assign>>
                 v == f[i + 1].value[d]
                 rest(h) == h[v.next].members[d]
      <4>0. g[i + 1].value[d] = v
        BY <1>1, <2>2
      <4>1. /\ ReadMembers(ev, f, i, d) = Lines(name, v, rest(f), d)
            /\ ReadMembers(ev, g, i, d) = Lines(name, v, rest(g), d)
        BY <3>1, <3>3, <4>0 DEF ReadMembers
      <4>2. EndsPast(v, i + 1, n) /\ IsReading(v) /\ EndsPast(v, i, n)
        <5>1. EndsPast(v, i + 1, n) /\ IsReading(v)
          BY <1>1, <2>2
        <5> HIDE DEF v
        <5> QED
          BY <1>0, <5>1 DEF EndsPast
      <4>3. v.done => rest(f) = rest(g) /\ EndsPast(rest(f), v.next, n) /\ IsReading(rest(f))
        <5> SUFFICES ASSUME v.done
                     PROVE  rest(f) = rest(g) /\ EndsPast(rest(f), v.next, n) /\ IsReading(rest(f))
          OBVIOUS
        <5>1. v.next \in (i + 1)..(n + 1)
          BY <4>2 DEF EndsPast
        <5>2. f[v.next] = g[v.next] /\ SensibleRow(f[v.next], v.next, n)
          BY <5>1
        <5> QED
          BY <5>2 DEF SensibleRow
      <4> HIDE DEF v, rest, name
      <4>4. ~v.done => Lines(name, v, rest(f), d) = Lines(name, v, rest(g), d)
        BY DEF Lines
      <4>5. Lines(name, v, rest(f), d) = Lines(name, v, rest(g), d)
        BY <4>3, <4>4
      <4>6. EndsPast(Lines(name, v, rest(f), d), i, n) /\ IsReading(Lines(name, v, rest(f), d))
        BY <1>0, <3>1, <4>2, <4>3, LinesEnd
      <4> QED
        BY <4>1, <4>5, <4>6
    <3>4. CASE ev[i].event \notin {"object-end", "key"}
      BY <1>0, <3>1, <3>4, SimpleEnds DEF ReadMembers
    <3> QED
      BY <3>2, <3>3, <3>4
  <2> QED
    BY <1>0, <2>1, <2>2
<1>4. ASSUME NEW d \in Nat
      PROVE  /\ ReadItems(ev, f, i, d) = ReadItems(ev, g, i, d)
             /\ EndsPast(ReadItems(ev, f, i, d), i, n) /\ IsReading(ReadItems(ev, f, i, d))
  <2>1. CASE i > n
    BY <1>0, <2>1, SimpleEnds DEF ReadItems
  <2>2. CASE i <= n
    <3>1. i \in 1..n /\ ~(i > n)
      BY <1>0, <2>2
    <3>2. CASE ev[i].event = "array-end"
      BY <1>0, <2>2, <3>1, <3>2, SimpleEnds DEF ReadItems
    <3>3. CASE ev[i].event # "array-end"
      <4> DEFINE v == ReadValue(ev, f, i, d)
                 rest(h) == h[v.next].items[d]
      <4>0. ReadValue(ev, g, i, d) = v
        BY <1>2
      <4>1. /\ ReadItems(ev, f, i, d) = Lines(<<>>, v, rest(f), d)
            /\ ReadItems(ev, g, i, d) = Lines(<<>>, v, rest(g), d)
        BY <3>1, <3>3, <4>0 DEF ReadItems
      <4>2. EndsPast(v, i, n) /\ IsReading(v)
        BY <1>2
      <4>3. v.done => rest(f) = rest(g) /\ EndsPast(rest(f), v.next, n) /\ IsReading(rest(f))
        <5> SUFFICES ASSUME v.done
                     PROVE  rest(f) = rest(g) /\ EndsPast(rest(f), v.next, n) /\ IsReading(rest(f))
          OBVIOUS
        <5>1. v.next \in (i + 1)..(n + 1)
          BY <4>2 DEF EndsPast
        <5>2. f[v.next] = g[v.next] /\ SensibleRow(f[v.next], v.next, n)
          BY <5>1
        <5> QED
          BY <5>2 DEF SensibleRow
      <4> HIDE DEF v, rest
      <4>4. ~v.done => Lines(<<>>, v, rest(f), d) = Lines(<<>>, v, rest(g), d)
        BY DEF Lines
      <4>5. Lines(<<>>, v, rest(f), d) = Lines(<<>>, v, rest(g), d)
        BY <4>3, <4>4
      <4>6. EndsPast(Lines(<<>>, v, rest(f), d), i, n) /\ IsReading(Lines(<<>>, v, rest(f), d))
        BY <1>0, <3>1, <4>2, <4>3, LinesEnd
      <4> QED
        BY <4>1, <4>5, <4>6
    <3> QED
      BY <3>2, <3>3
  <2> QED
    BY <1>0, <2>1, <2>2
<1>5. Row(ev, f, i) = Row(ev, g, i)
  <2>1. [depth \in Nat |-> ReadValue(ev, f, i, depth)] = [depth \in Nat |-> ReadValue(ev, g, i, depth)]
    BY <1>2
  <2>2. [depth \in Nat |-> ReadMembers(ev, f, i, depth)] = [depth \in Nat |-> ReadMembers(ev, g, i, depth)]
    BY <1>3
  <2>3. [depth \in Nat |-> ReadItems(ev, f, i, depth)] = [depth \in Nat |-> ReadItems(ev, g, i, depth)]
    BY <1>4
  <2> QED
    BY <2>1, <2>2, <2>3 DEF Row
<1>6. SensibleRow(Row(ev, f, i), i, n)
  <2>1. \A d \in Nat : /\ Row(ev, f, i).value[d] = ReadValue(ev, f, i, d)
                       /\ Row(ev, f, i).members[d] = ReadMembers(ev, f, i, d)
                       /\ Row(ev, f, i).items[d] = ReadItems(ev, f, i, d)
    BY DEF Row
  <2> QED
    BY <1>2, <1>3, <1>4, <2>1 DEF SensibleRow
<1> QED
  BY <1>5, <1>6

\* The readings from m on.
From(ev, f, m) ==
    /\ f = [i \in m..(Len(ev) + 1) |-> Row(ev, f, i)]
    /\ \A i \in m..(Len(ev) + 1) : SensibleRow(f[i], i, Len(ev))

\* There is a descent, built from the end of the stream to its beginning.
LEMMA FromExists == ASSUME NEW ev \in Seq(Events) PROVE \E f : From(ev, f, 1)
<1> DEFINE n == Len(ev)
           T == {k \in Nat : k <= n + 1 => \E f : From(ev, f, n + 2 - k)}
<1>0. n \in Nat
  OBVIOUS
<1>1. 0 \in T
  <2>1. (n + 2 - 0)..(n + 1) = {}
    BY <1>0
  <2>2. From(ev, [i \in {} |-> i], n + 2 - 0)
    BY <2>1 DEF From
  <2> QED
    BY <2>2
<1>2. ASSUME NEW k \in T PROVE k + 1 \in T
  <2> SUFFICES ASSUME k + 1 <= n + 1 PROVE \E f : From(ev, f, n + 2 - (k + 1))
    OBVIOUS
  <2> DEFINE m == n + 1 - k
  <2>1. m \in 1..(n + 1) /\ n + 2 - (k + 1) = m /\ n + 2 - k = m + 1 /\ k <= n + 1
    BY <1>0
  <2>2. PICK f : From(ev, f, m + 1)
    BY <2>1
  <2> DEFINE g == [i \in m..(n + 1) |-> IF i = m THEN Row(ev, f, m) ELSE f[i]]
  <2> HIDE DEF m
  <2>3. \A i \in (m + 1)..(n + 1) : f[i] = Row(ev, f, i) /\ SensibleRow(f[i], i, n)
    BY <2>2 DEF From
  <2>4. \A i \in (m + 1)..(n + 1) : g[i] = f[i]
    BY <1>0, <2>1
  <2>5. g[m] = Row(ev, f, m)
    BY <2>1
  <2>6. \A i \in m..(n + 1) : \A j \in (i + 1)..(n + 1) : g[j] = f[j] /\ SensibleRow(f[j], j, n)
    BY <1>0, <2>1, <2>3, <2>4
  <2>7. g = [i \in m..(n + 1) |-> g[i]]
    OBVIOUS
  <2> HIDE DEF g
  <2>8. ASSUME NEW i \in m..(n + 1) PROVE g[i] = Row(ev, g, i) /\ SensibleRow(g[i], i, n)
    <3>1. i \in 1..(n + 1)
      BY <1>0, <2>1
    <3>2. Row(ev, f, i) = Row(ev, g, i) /\ SensibleRow(Row(ev, f, i), i, n)
      BY <2>6, <3>1, RowLocal
    <3>3. g[i] = Row(ev, f, i)
      BY <1>0, <2>1, <2>3, <2>4, <2>5
    <3> QED
      BY <3>2, <3>3
  <2>9. From(ev, g, m)
    BY <2>7, <2>8 DEF From
  <2> QED
    BY <2>1, <2>9
<1>3. n + 1 \in T
  <2>1. T \in SUBSET Nat
    OBVIOUS
  <2> HIDE DEF T
  <2>2. T = Nat
    BY <1>1, <1>2, <2>1, Upward
  <2> QED
    BY <1>0, <2>2
<1>4. n + 2 - (n + 1) = 1
  BY <1>0
<1> QED
  BY <1>3, <1>4

\* What the readings of a stream are.
LEMMA DescentIs ==
  ASSUME NEW ev \in Seq(Events), NEW i \in 1..(Len(ev) + 1)
  PROVE  /\ Descent(ev)[i] = Row(ev, Descent(ev), i)
         /\ SensibleRow(Descent(ev)[i], i, Len(ev))
<1> DEFINE n == Len(ev)
<1>1. PICK f : From(ev, f, 1)
  BY FromExists
<1>2. f = [j \in 1..(n + 1) |-> Row(ev, f, j)]
  BY <1>1 DEF From
<1>3. Descent(ev) = [j \in 1..(n + 1) |-> Row(ev, Descent(ev), j)]
  BY <1>2 DEF Descent, Row
<1> DEFINE g == Descent(ev)
<1> HIDE DEF g
<1>4. \A j \in 1..(n + 1) : g[j] = Row(ev, g, j)
  BY <1>3 DEF g
<1> DEFINE T == {k \in Nat : \A j \in 1..(n + 1) : j >= n + 1 - k => SensibleRow(g[j], j, n)}
<1>5. n \in Nat
  OBVIOUS
<1>6. 0 \in T
  <2>1. ASSUME NEW j \in 1..(n + 1), j >= n + 1 - 0 PROVE SensibleRow(g[j], j, n)
    <3>1. \A l \in (j + 1)..(n + 1) : g[l] = g[l] /\ SensibleRow(g[l], l, n)
      BY <1>5, <2>1
    <3> QED
      BY <1>4, <3>1, RowLocal
  <2> QED
    BY <2>1
<1>7. ASSUME NEW k \in T PROVE k + 1 \in T
  <2>1. ASSUME NEW j \in 1..(n + 1), j >= n + 1 - (k + 1) PROVE SensibleRow(g[j], j, n)
    <3>1. \A l \in (j + 1)..(n + 1) : g[l] = g[l] /\ SensibleRow(g[l], l, n)
      BY <1>5, <2>1
    <3> QED
      BY <1>4, <3>1, RowLocal
  <2> QED
    BY <2>1
<1>8. T = Nat
  <2>1. T \in SUBSET Nat
    OBVIOUS
  <2> HIDE DEF T
  <2> QED
    BY <1>6, <1>7, <2>1, Upward
<1>9. n \in T
  BY <1>5, <1>8
<1> QED
  BY <1>4, <1>5, <1>9 DEF g

\* The tokens but the end of a record.
Clean == Sound \ {RecordEnd}

\* What a value below the root's own level is written in.
Alphabet(d) == IF d <= 1 THEN Sound ELSE Clean

-----------------------------------------------------------------------------
(* The texts of readings, and where a record may end in them.              *)

\* Sequences put together.
LEMMA Join ==
  ASSUME NEW A, NEW a \in Seq(A), NEW b \in Seq(A)
  PROVE  a \o b \in Seq(A) /\ Len(a \o b) = Len(a) + Len(b) /\ Len(a) \in Nat /\ Len(b) \in Nat
  OBVIOUS

LEMMA Join3 ==
  ASSUME NEW A, NEW a \in Seq(A), NEW b \in Seq(A), NEW c \in Seq(A)
  PROVE  a \o b \o c \in Seq(A) /\ Len(a \o b \o c) = Len(a) + Len(b) + Len(c)
         /\ Len(a) \in Nat /\ Len(b) \in Nat /\ Len(c) \in Nat
<1>1. a \o b \in Seq(A) /\ Len(a \o b) = Len(a) + Len(b) /\ Len(a) \in Nat /\ Len(b) \in Nat
  BY Join
<1> DEFINE x == a \o b
<1>2. x \in Seq(A)
  BY <1>1
<1> HIDE DEF x
<1>3. x \o c \in Seq(A) /\ Len(x \o c) = Len(x) + Len(c) /\ Len(c) \in Nat
  BY <1>2, Join
<1> QED
  BY <1>1, <1>3 DEF x

LEMMA One == ASSUME NEW A, NEW x \in A PROVE <<x>> \in Seq(A) /\ Len(<<x>>) = 1 /\ <<x>> # <<>>
  OBVIOUS

LEMMA Join4 ==
  ASSUME NEW A, NEW a \in Seq(A), NEW b \in Seq(A), NEW c \in Seq(A), NEW d \in Seq(A)
  PROVE  a \o b \o c \o d \in Seq(A) /\ Len(a \o b \o c \o d) = Len(a) + Len(b) + Len(c) + Len(d)
<1> DEFINE x == a \o b
<1>1. x \in Seq(A) /\ Len(x) = Len(a) + Len(b) /\ Len(a) \in Nat /\ Len(b) \in Nat
  BY Join
<1> HIDE DEF x
<1>2. x \o c \o d \in Seq(A) /\ Len(x \o c \o d) = Len(x) + Len(c) + Len(d)
  BY <1>1, Join3, SMTT(20)
<1> QED
  BY <1>1, <1>2 DEF x

\* The end of a record is no other token.
LEMMA WordsApart ==
  /\ \A w \in {Open, Close, EmptyContainer, Assign, Newline, Comma} : w # RecordEnd
  /\ RecordEnd.token = "word" /\ RecordEnd.text = "record end"
<1>1. \A a, b : Word(a) = Word(b) => a = b
  <2>1. \A a : Word(a).text = a
    BY DEF Word
  <2> QED
    BY <2>1
<1>2. Open # RecordEnd /\ Close # RecordEnd
  BY <1>1 DEF Open, Close, RecordEnd
<1>3. EmptyContainer # RecordEnd /\ Assign # RecordEnd
  BY <1>1 DEF EmptyContainer, Assign, RecordEnd
<1>4. Newline # RecordEnd /\ Comma # RecordEnd
  BY <1>1 DEF Newline, Comma, RecordEnd
<1>5. RecordEnd.token = "word" /\ RecordEnd.text = "record end"
  BY DEF RecordEnd, Word
<1> QED
  BY <1>2, <1>3, <1>4, <1>5, Zenon

\* Every other token of a sound text is clean.
LEMMA CleanTokens ==
  /\ \A w \in {Open, Close, EmptyContainer, Assign, Newline, Comma} : w \in Clean
  /\ \A s : Len(s) \in Nat => Indent(s) \in Clean
  /\ \A d \in Nat : [token |-> "indent", depth |-> d] \in Clean
  /\ \A n \in Names : FieldToken(n) \in Clean
  /\ \A v \in Values : String(v) \in Clean /\ ScalarToken(v) \in Clean
  /\ \A v \in Values : BigDigits(v) => Integer(v) \in Clean
<1>1. \A w \in {Open, Close, EmptyContainer, Assign, Newline, Comma} : w \in Clean
  BY WordsApart, SoundTokens, Zenon DEF Clean
<1>2. ASSUME NEW d \in Nat PROVE [token |-> "indent", depth |-> d] \in Clean
  <2> DEFINE w == [token |-> "indent", depth |-> d]
  <2>1. w \in Tokens
    BY DEF Tokens
  <2>2. w.token = "indent"
    OBVIOUS
  <2> HIDE DEF w
  <2>3. w \in Sound
    BY <2>1, <2>2 DEF Sound, Literal
  <2>4. w # RecordEnd
    BY <2>2, WordsApart
  <2> QED
    BY <2>3, <2>4 DEF Clean, w
<1>3. \A s : Len(s) \in Nat => Indent(s) \in Clean
  BY <1>2 DEF Indent
<1>4. ASSUME NEW n \in Names PROVE FieldToken(n) \in Clean
  <2>1. FieldToken(n).token = "field"
    BY DEF FieldToken
  <2> QED
    BY <2>1, SoundTokens, WordsApart DEF Clean
<1>5. ASSUME NEW v \in Values PROVE String(v) \in Clean /\ ScalarToken(v) \in Clean
  <2>1. String(v).token = "string"
    BY DEF String
  <2>2. ScalarToken(v) # RecordEnd
    <3>1. CASE v.kind = "string"
      <4>1. ScalarToken(v) = String(v)
        BY <3>1 DEF ScalarToken
      <4> QED
        BY <2>1, <4>1, WordsApart
    <3>2. CASE v.kind = "number"
      <4>1. ScalarToken(v) = Number(v)
        BY <3>2 DEF ScalarToken
      <4>2. Number(v).token = "number"
        BY DEF Number
      <4> QED
        BY <4>1, <4>2, WordsApart
    <3>3. CASE v.kind \in {"null", "boolean"}
      <4>1. ScalarToken(v) = Word(v.text)
        BY <3>3 DEF ScalarToken
      <4>2. v.text # "record end"
        BY <3>3, RenderAssumption
      <4>3. Word(v.text).text = v.text
        BY DEF Word
      <4> QED
        BY <4>1, <4>2, <4>3, WordsApart
    <3> QED
      BY <3>1, <3>2, <3>3, RenderAssumption
  <2> QED
    BY <2>1, <2>2, SoundTokens, WordsApart DEF Clean
<1>6. ASSUME NEW v \in Values, BigDigits(v) PROVE Integer(v) \in Clean
  <2>1. Integer(v).token = "integer"
    BY DEF Integer
  <2> QED
    BY <1>6, <2>1, SoundTokens, WordsApart DEF Clean
<1> QED
  BY <1>1, <1>2, <1>3, <1>4, <1>5, <1>6

\* A larger alphabet has more texts.
LEMMA SeqOfMore == ASSUME NEW A, NEW B, A \subseteq B PROVE Seq(A) \subseteq Seq(B)
  OBVIOUS

\* The alphabets of a line, by depth: ends of records stand only in those of depth one.
LEMMA Alphabets ==
  ASSUME NEW d \in Nat
  PROVE  /\ Seq(Clean) \subseteq Seq(Alphabet(d)) /\ Seq(Alphabet(d)) \subseteq Seq(Sound)
         /\ Seq(Alphabet(d + 1)) \subseteq Seq(Alphabet(d))
         /\ d >= 1 => Alphabet(d + 1) = Clean
         /\ LineEnds(d) \in Seq(Alphabet(d)) /\ RootOpens(d) \in Seq(Alphabet(d + 1))
<1>1. Clean \subseteq Sound /\ Clean \subseteq Alphabet(d) /\ Alphabet(d) \subseteq Sound /\ Alphabet(d + 1) \subseteq Alphabet(d)
  BY DEF Clean, Alphabet
<1>2. RecordEnd \in Sound
  BY SoundTokens
<1>3. d >= 1 => Alphabet(d + 1) = Clean
  BY DEF Alphabet
<1>4. LineEnds(d) \in Seq(Alphabet(d)) /\ RootOpens(d) \in Seq(Alphabet(d + 1))
  <2>1. \A A : <<>> \in Seq(A)
    OBVIOUS
  <2>2. d <= 1 => Alphabet(d) = Sound
    BY DEF Alphabet
  <2>3. d = 0 => Alphabet(d + 1) = Sound
    BY DEF Alphabet
  <2>4. <<RecordEnd>> \in Seq(Sound)
    BY <1>2
  <2>5. LineEnds(d) \in Seq(Alphabet(d))
    BY <2>1, <2>2, <2>4 DEF LineEnds
  <2>6. RootOpens(d) \in Seq(Alphabet(d + 1))
    BY <2>1, <2>3, <2>4 DEF RootOpens
  <2> QED
    BY <2>5, <2>6
<1> QED
  BY <1>1, <1>3, <1>4, SeqOfMore

\* What an event of a stream is.
LEMMA EventIs ==
  ASSUME NEW e \in Events
  PROVE  /\ e.event \in {"object-start", "array-start", "object-end", "array-end", "key", "scalar"}
         /\ e.event = "object-start" => e = Event("object-start") /\ e \in Starts
         /\ e.event = "array-start" => e = Event("array-start") /\ e \in Starts
         /\ e.event = "object-end" => e = Event("object-end") /\ e \in Ends
         /\ e.event = "array-end" => e = Event("array-end") /\ e \in Ends
         /\ e.event = "key" => e.name \in Names /\ e = Key(e.name)
         /\ e.event = "scalar" => e.value \in Values /\ e = Scalar(e.value)
  BY DEF Events, Starts, Ends, Event, Key, Scalar

\* Indentation ends no record.
LEMMA Indented == ASSUME NEW d \in Nat PROVE Indentation(d) \in Seq(Clean)
  BY CleanTokens DEF Indentation

\* The texts of the readings that need no other.
LEMMA SimpleTexts ==
  ASSUME NEW A
  PROVE  Begun(<<>>).text \in Seq(A) /\ NoTree.text \in Seq(A)
         /\ \A n, w : w \in Seq(A) => Whole(n, w).text \in Seq(A)
  BY DEF Begun, NoTree, Whole

\* A container is written in the alphabet of its lines.
LEMMA ContainerText ==
  ASSUME NEW ev \in Seq(Events), NEW i \in 1..Len(ev), NEW inside, NEW d \in Nat,
         inside.done \in BOOLEAN, inside.text \in Seq(Alphabet(d + 1))
  PROVE  Container(ev, i, inside, d).text \in Seq(Alphabet(d + 1))
<1>1. CASE ~inside.done
  BY <1>1 DEF Container
<1>2. CASE inside.done
  <2> DEFINE body == IF inside.text = <<>> THEN <<EmptyContainer>>
                     ELSE IF BigInteger(ev, i, inside.next) THEN <<Integer(ev[i + 2].value)>>
                     ELSE <<Open>> \o inside.text \o Indentation(d) \o <<Close>>
  <2>1. body \in Seq(Alphabet(d + 1))
    <3>0. Seq(Clean) \subseteq Seq(Alphabet(d + 1))
      BY Alphabets
    <3>1. CASE inside.text = <<>>
      <4>1. body = <<EmptyContainer>>
        BY <3>1, Zenon
      <4>2. EmptyContainer \in Clean
        BY CleanTokens
      <4> HIDE DEF body
      <4>3. <<EmptyContainer>> \in Seq(Clean)
        BY <4>2, One
      <4> QED
        BY <3>0, <4>1, <4>3
    <3>2. CASE inside.text # <<>> /\ BigInteger(ev, i, inside.next)
      <4>1. body = <<Integer(ev[i + 2].value)>>
        BY <3>2
      <4>2. ev[i + 2].value \in Values /\ BigDigits(ev[i + 2].value)
        <5>1. i + 2 \in 1..Len(ev) /\ ev[i + 2].event = "scalar" /\ BigDigits(ev[i + 2].value)
          BY <3>2 DEF BigInteger, BigAt
        <5>2. ev[i + 2] \in Events
          BY <5>1
        <5> QED
          BY <5>1, <5>2, EventIs
      <4>3. Integer(ev[i + 2].value) \in Clean
        BY <4>2, CleanTokens
      <4> HIDE DEF body
      <4>4. <<Integer(ev[i + 2].value)>> \in Seq(Clean)
        BY <4>3
      <4> QED
        BY <3>0, <4>1, <4>4
    <3>3. CASE inside.text # <<>> /\ ~BigInteger(ev, i, inside.next)
      <4>1. body = <<Open>> \o inside.text \o Indentation(d) \o <<Close>>
        BY <3>3
      <4>2. <<Open>> \in Seq(Clean) /\ <<Close>> \in Seq(Clean) /\ Indentation(d) \in Seq(Clean)
        BY CleanTokens, Indented, One
      <4>3. /\ <<Open>> \in Seq(Alphabet(d + 1)) /\ <<Close>> \in Seq(Alphabet(d + 1))
            /\ Indentation(d) \in Seq(Alphabet(d + 1))
        BY <3>0, <4>2, Zenon
      <4> HIDE DEF body
      <4> QED
        BY <4>1, <4>3, Join4
    <3> QED
      BY <3>1, <3>2, <3>3
  <2>2. Container(ev, i, inside, d) = Whole(inside.next, RootOpens(d) \o body)
    BY <1>2 DEF Container
  <2>3. RootOpens(d) \in Seq(Alphabet(d + 1))
    BY Alphabets
  <2> HIDE DEF body
  <2>4. RootOpens(d) \o body \in Seq(Alphabet(d + 1))
    BY <2>1, <2>3
  <2> QED
    BY <2>2, <2>4, SimpleTexts
<1> QED
  BY <1>1, <1>2

\* One line of a container.
Line(name, value, d) ==
    Indentation(d) \o name \o value.text \o <<Comma>> \o LineEnds(d)

\* The lines of a container, the first one and the rest.
LinesRead(name, value, rest, d) ==
    LET r == Lines(name, value, rest, d)
    IN  /\ r.text \in Seq(Alphabet(d))
        /\ Line(name, value, d) \in Seq(Alphabet(d)) /\ Line(name, value, d) # <<>>
        /\ value.done /\ rest.ok =>
             /\ r.ok /\ r.done = rest.done
             /\ rest.done => r.next = rest.next
             /\ r.text = Line(name, value, d) \o rest.text
             /\ r.text # <<>>
        /\ ~value.done /\ value.ok => r = Begun(<<>>)
        /\ ~value.done /\ ~value.ok => r = NoTree
        /\ value.done /\ ~rest.ok => r = NoTree

\* What the lines of a container are, and their alphabet.
LEMMA LinesText ==
  ASSUME NEW name \in Seq(Clean), NEW value, NEW rest, NEW d \in Nat,
         value.done \in BOOLEAN, value.ok \in BOOLEAN,
         value.text \in Seq(Alphabet(d + 1)),
         value.done => rest.ok \in BOOLEAN /\ rest.text \in Seq(Alphabet(d)) /\ IsReading(rest)
  PROVE  LinesRead(name, value, rest, d)
<1> DEFINE r == Lines(name, value, rest, d)
           l == Line(name, value, d)
<1>0. /\ name \in Seq(Alphabet(d)) /\ Indentation(d) \in Seq(Alphabet(d)) /\ <<Comma>> \in Seq(Alphabet(d))
      /\ LineEnds(d) \in Seq(Alphabet(d)) /\ value.text \in Seq(Alphabet(d))
  <2>1. <<Comma>> \in Seq(Clean)
    BY CleanTokens, One
  <2>2. /\ Seq(Clean) \subseteq Seq(Alphabet(d)) /\ Seq(Alphabet(d + 1)) \subseteq Seq(Alphabet(d))
        /\ LineEnds(d) \in Seq(Alphabet(d)) /\ Indentation(d) \in Seq(Clean)
    BY Alphabets, Indented
  <2> QED
    BY <2>1, <2>2, Zenon
<1>1. l \in Seq(Alphabet(d)) /\ l # <<>>
  <2> DEFINE x == Indentation(d) \o name
             A == Alphabet(d)
  <2> HIDE DEF A
  <2>1. Len(Indentation(d)) = 1
    BY DEF Indentation
  <2>2. x \in Seq(A) /\ Len(x) = 1 + Len(name) /\ Len(name) \in Nat
    BY <1>0, <2>1, Join DEF A
  <2> HIDE DEF x
  <2>3. /\ x \o value.text \o <<Comma>> \o LineEnds(d) \in Seq(A)
        /\ Len(x \o value.text \o <<Comma>> \o LineEnds(d)) =
               Len(x) + Len(value.text) + Len(<<Comma>>) + Len(LineEnds(d))
    <3>1. value.text \in Seq(A) /\ <<Comma>> \in Seq(A) /\ LineEnds(d) \in Seq(A)
      BY <1>0 DEF A
    <3> DEFINE v == value.text
               c == <<Comma>>
               e == LineEnds(d)
    <3>2. v \in Seq(A) /\ c \in Seq(A) /\ e \in Seq(A) /\ x \in Seq(A)
      BY <2>2, <3>1
    <3> HIDE DEF v, c, e
    <3>3. x \o v \o c \o e \in Seq(A) /\ Len(x \o v \o c \o e) = Len(x) + Len(v) + Len(c) + Len(e)
      BY <3>2, Join4
    <3> QED
      BY <3>3 DEF v, c, e
  <2>4. Len(value.text) \in Nat /\ Len(LineEnds(d)) \in Nat /\ Len(<<Comma>>) = 1
    BY <1>0
  <2>5. l = x \o value.text \o <<Comma>> \o LineEnds(d)
    BY DEF Line, x
  <2> HIDE DEF l
  <2>6. Len(l) # 0
    BY <2>2, <2>3, <2>4, <2>5
  <2> QED
    BY <2>3, <2>5, <2>6 DEF A
<1>2. CASE ~value.done
  <2>1. (value.ok => r = Begun(<<>>)) /\ (~value.ok => r = NoTree)
    BY <1>2 DEF Lines
  <2> QED
    BY <1>1, <1>2, <2>1, SimpleTexts DEF LinesRead
<1>3. CASE value.done /\ ~rest.ok
  <2>1. r = NoTree
    BY <1>3 DEF Lines
  <2> QED
    BY <1>1, <1>3, <2>1, SimpleTexts DEF LinesRead
<1>4. CASE value.done /\ rest.ok
  <2>1. r = [rest EXCEPT !.text = l \o @]
    BY <1>4 DEF Lines, Line
  <2> HIDE DEF r, l
  <2>2. /\ r.ok /\ r.done = rest.done /\ r.text = l \o rest.text
        /\ rest.done => r.next = rest.next
    BY <1>4, <2>1 DEF IsReading, Whole, Begun, NoTree
  <2>3. l \o rest.text \in Seq(Alphabet(d)) /\ l \o rest.text # <<>>
    BY <1>1, <1>4
  <2> QED
    BY <1>1, <1>4, <2>2, <2>3 DEF r, l, LinesRead
<1> QED
  BY <1>2, <1>3, <1>4

ValueOf(ev, i, d)   == Descent(ev)[i].value[d]
-----------------------------------------------------------------------------
(* The rules of the descent.                                               *)

\* The readings of a stream, by where they begin and at what depth.
MembersOf(ev, i, d) == Descent(ev)[i].members[d]
ItemsOf(ev, i, d)   == Descent(ev)[i].items[d]

\* The rules of the descent.
LEMMA ReadingRules ==
  ASSUME NEW ev \in Seq(Events), NEW i \in 1..(Len(ev) + 1), NEW d \in Nat
  PROVE  /\ ValueOf(ev, i, d) = ReadValue(ev, Descent(ev), i, d)
         /\ MembersOf(ev, i, d) = ReadMembers(ev, Descent(ev), i, d)
         /\ ItemsOf(ev, i, d) = ReadItems(ev, Descent(ev), i, d)
         /\ EndsPast(ValueOf(ev, i, d), i, Len(ev)) /\ IsReading(ValueOf(ev, i, d))
         /\ EndsPast(MembersOf(ev, i, d), i, Len(ev)) /\ IsReading(MembersOf(ev, i, d))
         /\ EndsPast(ItemsOf(ev, i, d), i, Len(ev)) /\ IsReading(ItemsOf(ev, i, d))
<1> DEFINE D == Descent(ev)
<1>1. D[i] = Row(ev, D, i) /\ SensibleRow(D[i], i, Len(ev))
  BY DescentIs
<1> HIDE DEF D
<1>2. /\ D[i].value[d] = ReadValue(ev, D, i, d)
      /\ D[i].members[d] = ReadMembers(ev, D, i, d)
      /\ D[i].items[d] = ReadItems(ev, D, i, d)
  BY <1>1 DEF Row
<1> QED
  BY <1>1, <1>2 DEF D, ValueOf, MembersOf, ItemsOf, SensibleRow

\* The value at i is as the descent says.
LEMMA ValueRule ==
  ASSUME NEW ev \in Seq(Events), NEW i \in 1..(Len(ev) + 1), NEW d \in Nat
  PROVE  /\ i = Len(ev) + 1 => ValueOf(ev, i, d) = Begun(<<>>)
         /\ i <= Len(ev) =>
            /\ ev[i] \in Events /\ i + 1 \in 1..(Len(ev) + 1)
            /\ ev[i].event = "scalar" => ValueOf(ev, i, d) = Whole(i + 1, <<ScalarToken(ev[i].value)>>)
            /\ ev[i].event = "object-start" =>
                  ValueOf(ev, i, d) = Container(ev, i, MembersOf(ev, i + 1, d + 1), d)
            /\ ev[i].event = "array-start" =>
                  ValueOf(ev, i, d) = Container(ev, i, ItemsOf(ev, i + 1, d + 1), d)
            /\ ev[i].event \notin {"scalar", "object-start", "array-start"} => ValueOf(ev, i, d) = NoTree
<1> DEFINE D == Descent(ev)
<1>0. Len(ev) \in Nat
  OBVIOUS
<1>1. ValueOf(ev, i, d) = ReadValue(ev, D, i, d)
  BY ReadingRules
<1> HIDE DEF D
<1>2. i = Len(ev) + 1 => ReadValue(ev, D, i, d) = Begun(<<>>)
  BY <1>0 DEF ReadValue
<1>3. ASSUME i <= Len(ev)
      PROVE  /\ ev[i] \in Events /\ i + 1 \in 1..(Len(ev) + 1)
             /\ ev[i].event = "scalar" => ReadValue(ev, D, i, d) = Whole(i + 1, <<ScalarToken(ev[i].value)>>)
             /\ ev[i].event = "object-start" =>
                   ReadValue(ev, D, i, d) = Container(ev, i, D[i + 1].members[d + 1], d)
             /\ ev[i].event = "array-start" =>
                   ReadValue(ev, D, i, d) = Container(ev, i, D[i + 1].items[d + 1], d)
             /\ ev[i].event \notin {"scalar", "object-start", "array-start"} => ReadValue(ev, D, i, d) = NoTree
  <2>1. ~(i > Len(ev)) /\ i \in 1..Len(ev) /\ i + 1 \in 1..(Len(ev) + 1)
    BY <1>0, <1>3
  <2>2. ev[i] \in Events
    BY <2>1
  <2>3. ev[i].event = "scalar" => ReadValue(ev, D, i, d) = Whole(i + 1, <<ScalarToken(ev[i].value)>>)
    BY <2>1 DEF ReadValue
  <2>4. ev[i].event = "object-start" =>
                   ReadValue(ev, D, i, d) = Container(ev, i, D[i + 1].members[d + 1], d)
    BY <2>1 DEF ReadValue
  <2>5. ev[i].event = "array-start" =>
                   ReadValue(ev, D, i, d) = Container(ev, i, D[i + 1].items[d + 1], d)
    BY <2>1 DEF ReadValue
  <2>6. ev[i].event \notin {"scalar", "object-start", "array-start"} => ReadValue(ev, D, i, d) = NoTree
    BY <2>1 DEF ReadValue
  <2> QED
    BY <2>1, <2>2, <2>3, <2>4, <2>5, <2>6
<1> QED
  BY <1>1, <1>2, <1>3, Zenon DEF D, MembersOf, ItemsOf

\* So are the members from i on.
LEMMA MembersRule ==
  ASSUME NEW ev \in Seq(Events), NEW i \in 1..(Len(ev) + 1), NEW d \in Nat
  PROVE  /\ i = Len(ev) + 1 => MembersOf(ev, i, d) = Begun(<<>>)
         /\ i <= Len(ev) =>
            /\ ev[i] \in Events /\ i + 1 \in 1..(Len(ev) + 1)
            /\ ev[i].event = "object-end" => MembersOf(ev, i, d) = Whole(i + 1, <<>>)
            /\ ev[i].event = "key" =>
                  MembersOf(ev, i, d) =
                     Lines(<<FieldToken(ev[i].name), Assign>>, ValueOf(ev, i + 1, d),
                           MembersOf(ev, ValueOf(ev, i + 1, d).next, d), d)
            /\ ev[i].event \notin {"object-end", "key"} => MembersOf(ev, i, d) = NoTree
<1> DEFINE D == Descent(ev)
<1>0. Len(ev) \in Nat
  OBVIOUS
<1>1. MembersOf(ev, i, d) = ReadMembers(ev, D, i, d)
  BY ReadingRules
<1> HIDE DEF D
<1>2. i = Len(ev) + 1 => ReadMembers(ev, D, i, d) = Begun(<<>>)
  BY <1>0 DEF ReadMembers
<1>3. ASSUME i <= Len(ev)
      PROVE  /\ ev[i] \in Events /\ i + 1 \in 1..(Len(ev) + 1)
             /\ ev[i].event = "object-end" => ReadMembers(ev, D, i, d) = Whole(i + 1, <<>>)
             /\ ev[i].event = "key" =>
                  ReadMembers(ev, D, i, d) =
                     Lines(<<FieldToken(ev[i].name), Assign>>, D[i + 1].value[d],
                           D[D[i + 1].value[d].next].members[d], d)
             /\ ev[i].event \notin {"object-end", "key"} => ReadMembers(ev, D, i, d) = NoTree
  <2>1. ~(i > Len(ev)) /\ i \in 1..Len(ev) /\ i + 1 \in 1..(Len(ev) + 1)
    BY <1>0, <1>3
  <2>2. ev[i] \in Events
    BY <2>1
  <2>3. ev[i].event = "object-end" => ReadMembers(ev, D, i, d) = Whole(i + 1, <<>>)
    BY <2>1 DEF ReadMembers
  <2>4. ev[i].event = "key" =>
                  ReadMembers(ev, D, i, d) =
                     Lines(<<FieldToken(ev[i].name), Assign>>, D[i + 1].value[d],
                           D[D[i + 1].value[d].next].members[d], d)
    BY <2>1 DEF ReadMembers
  <2>5. ev[i].event \notin {"object-end", "key"} => ReadMembers(ev, D, i, d) = NoTree
    BY <2>1 DEF ReadMembers
  <2> QED
    BY <2>1, <2>2, <2>3, <2>4, <2>5
<1> QED
  BY <1>1, <1>2, <1>3, Zenon DEF D, MembersOf, ValueOf

\* So are the items.
LEMMA ItemsRule ==
  ASSUME NEW ev \in Seq(Events), NEW i \in 1..(Len(ev) + 1), NEW d \in Nat
  PROVE  /\ i = Len(ev) + 1 => ItemsOf(ev, i, d) = Begun(<<>>)
         /\ i <= Len(ev) =>
            /\ ev[i] \in Events /\ i + 1 \in 1..(Len(ev) + 1)
            /\ ev[i].event = "array-end" => ItemsOf(ev, i, d) = Whole(i + 1, <<>>)
            /\ ev[i].event # "array-end" =>
                  ItemsOf(ev, i, d) = Lines(<<>>, ValueOf(ev, i, d), ItemsOf(ev, ValueOf(ev, i, d).next, d), d)
<1> DEFINE D == Descent(ev)
           v == ValueOf(ev, i, d)
<1>0. Len(ev) \in Nat
  OBVIOUS
<1>1. ItemsOf(ev, i, d) = ReadItems(ev, D, i, d) /\ ReadValue(ev, D, i, d) = v
  BY ReadingRules
<1> HIDE DEF D, v
<1>2. i = Len(ev) + 1 => ReadItems(ev, D, i, d) = Begun(<<>>)
  BY <1>0 DEF ReadItems
<1>3. ASSUME i <= Len(ev)
      PROVE  /\ ev[i] \in Events /\ i + 1 \in 1..(Len(ev) + 1)
             /\ ev[i].event = "array-end" => ReadItems(ev, D, i, d) = Whole(i + 1, <<>>)
             /\ ev[i].event # "array-end" =>
                  ReadItems(ev, D, i, d) = Lines(<<>>, v, D[v.next].items[d], d)
  <2>1. ~(i > Len(ev)) /\ i \in 1..Len(ev) /\ i + 1 \in 1..(Len(ev) + 1)
    BY <1>0, <1>3
  <2>2. ev[i] \in Events
    BY <2>1
  <2>3. ev[i].event = "array-end" => ReadItems(ev, D, i, d) = Whole(i + 1, <<>>)
    BY <2>1 DEF ReadItems
  <2>4. ev[i].event # "array-end" =>
                  ReadItems(ev, D, i, d) = Lines(<<>>, v, D[v.next].items[d], d)
    BY <1>1, <2>1 DEF ReadItems
  <2> QED
    BY <2>1, <2>2, <2>3, <2>4
<1> QED
  BY <1>1, <1>2, <1>3, Zenon DEF D, ItemsOf, v

\* The readings at i are written in their alphabets.
Texts(ev, i) ==
    \A d \in Nat : /\ ValueOf(ev, i, d).text \in Seq(Alphabet(d + 1))
                   /\ MembersOf(ev, i, d).text \in Seq(Alphabet(d))
                   /\ ItemsOf(ev, i, d).text \in Seq(Alphabet(d))

\* They are when those at later positions are.
LEMMA TextsStep ==
  ASSUME NEW ev \in Seq(Events), NEW i \in 1..(Len(ev) + 1), \A j \in (i + 1)..(Len(ev) + 1) : Texts(ev, j)
  PROVE  Texts(ev, i)
<1> DEFINE n == Len(ev)
<1>0. n \in Nat
  OBVIOUS
<1>1. ASSUME NEW d \in Nat PROVE ValueOf(ev, i, d).text \in Seq(Alphabet(d + 1))
  <2>1. CASE i = n + 1
    BY <2>1, ValueRule, SimpleTexts
  <2>2. CASE i <= n
    <3>0. i \in 1..n /\ i + 1 \in (i + 1)..(n + 1) /\ d + 1 \in Nat
      BY <1>0, <2>2
    <3>1. Texts(ev, i + 1)
      BY <3>0
    <3>2. CASE ev[i].event = "scalar"
      <4>1. ValueOf(ev, i, d) = Whole(i + 1, <<ScalarToken(ev[i].value)>>) /\ ev[i].value \in Values
        BY <2>2, <3>2, ValueRule, EventIs
      <4>2. ScalarToken(ev[i].value) \in Clean
        BY <4>1, CleanTokens
      <4>3. <<ScalarToken(ev[i].value)>> \in Seq(Clean) /\ Seq(Clean) \subseteq Seq(Alphabet(d + 1))
        BY <3>0, <4>2, One, Alphabets
      <4>4. <<ScalarToken(ev[i].value)>> \in Seq(Alphabet(d + 1))
        BY <4>3
      <4> QED
        BY <4>1, <4>4, SimpleTexts
    <3>3. CASE ev[i].event = "object-start"
      <4>1. ValueOf(ev, i, d) = Container(ev, i, MembersOf(ev, i + 1, d + 1), d)
        BY <2>2, <3>3, ValueRule
      <4>2. MembersOf(ev, i + 1, d + 1).text \in Seq(Alphabet(d + 1))
        BY <3>0, <3>1 DEF Texts
      <4>3. MembersOf(ev, i + 1, d + 1).done \in BOOLEAN
        BY <1>0, <3>0, ReadingRules DEF EndsPast
      <4> QED
        BY <3>0, <4>1, <4>2, <4>3, ContainerText
    <3>4. CASE ev[i].event = "array-start"
      <4>1. ValueOf(ev, i, d) = Container(ev, i, ItemsOf(ev, i + 1, d + 1), d)
        BY <2>2, <3>4, ValueRule
      <4>2. ItemsOf(ev, i + 1, d + 1).text \in Seq(Alphabet(d + 1))
        BY <3>0, <3>1 DEF Texts
      <4>3. ItemsOf(ev, i + 1, d + 1).done \in BOOLEAN
        BY <1>0, <3>0, ReadingRules DEF EndsPast
      <4> QED
        BY <3>0, <4>1, <4>2, <4>3, ContainerText
    <3>5. CASE ev[i].event \notin {"scalar", "object-start", "array-start"}
      BY <2>2, <3>5, ValueRule, SimpleTexts
    <3> QED
      BY <3>2, <3>3, <3>4, <3>5
  <2> QED
    BY <1>0, <2>1, <2>2
<1>2. ASSUME NEW d \in Nat PROVE MembersOf(ev, i, d).text \in Seq(Alphabet(d))
  <2>1. CASE i = n + 1
    BY <2>1, MembersRule, SimpleTexts
  <2>2. CASE i <= n
    <3>0. i \in 1..n /\ i + 1 \in (i + 1)..(n + 1)
      BY <1>0, <2>2
    <3>2. CASE ev[i].event = "object-end"
      <4>1. MembersOf(ev, i, d) = Whole(i + 1, <<>>)
        BY <2>2, <3>2, MembersRule
      <4>2. <<>> \in Seq(Alphabet(d))
        OBVIOUS
      <4> QED
        BY <4>1, <4>2, SimpleTexts
    <3>3. CASE ev[i].event = "key"
      <4> DEFINE v == ValueOf(ev, i + 1, d)
                 r == MembersOf(ev, v.next, d)
                 name == <<FieldToken(ev[i].name), Assign>>
      <4>1. MembersOf(ev, i, d) = Lines(name, v, r, d) /\ ev[i].name \in Names
        BY <2>2, <3>3, MembersRule, EventIs
      <4>2. name \in Seq(Clean)
        <5>1. FieldToken(ev[i].name) \in Clean /\ Assign \in Clean
          BY <4>1, CleanTokens
        <5> QED
          BY <5>1
      <4>3. v.done \in BOOLEAN /\ v.ok \in BOOLEAN /\ (v.done => v.next \in (i + 2)..(n + 1))
        <5>1. i + 1 \in 1..(n + 1) /\ (i + 1) + 1 = i + 2
          BY <1>0, <3>0
        <5>2. EndsPast(v, i + 1, n)
          BY <5>1, ReadingRules
        <5> HIDE DEF v
        <5> QED
          BY <5>1, <5>2 DEF EndsPast
      <4>4. v.text \in Seq(Alphabet(d + 1))
        BY <3>0 DEF Texts
      <4>5. v.done => v.next \in 1..(n + 1) /\ v.next \in (i + 1)..(n + 1)
        BY <1>0, <4>3
      <4>6. v.done => r.ok \in BOOLEAN /\ r.text \in Seq(Alphabet(d)) /\ IsReading(r)
        BY <4>5, ReadingRules DEF EndsPast, Texts
      <4> HIDE DEF v, r, name
      <4>7. LinesRead(name, v, r, d)
        BY <4>2, <4>3, <4>4, <4>6, LinesText
      <4> QED
        BY <4>1, <4>7 DEF LinesRead
    <3>4. CASE ev[i].event \notin {"object-end", "key"}
      BY <2>2, <3>4, MembersRule, SimpleTexts
    <3> QED
      BY <3>2, <3>3, <3>4
  <2> QED
    BY <1>0, <2>1, <2>2
<1>3. ASSUME NEW d \in Nat PROVE ItemsOf(ev, i, d).text \in Seq(Alphabet(d))
  <2>1. CASE i = n + 1
    BY <2>1, ItemsRule, SimpleTexts
  <2>2. CASE i <= n
    <3>0. i \in 1..n /\ i + 1 \in (i + 1)..(n + 1)
      BY <1>0, <2>2
    <3>2. CASE ev[i].event = "array-end"
      <4>1. ItemsOf(ev, i, d) = Whole(i + 1, <<>>)
        BY <2>2, <3>2, ItemsRule
      <4>2. <<>> \in Seq(Alphabet(d))
        OBVIOUS
      <4> QED
        BY <4>1, <4>2, SimpleTexts
    <3>3. CASE ev[i].event # "array-end"
      <4> DEFINE v == ValueOf(ev, i, d)
                 r == ItemsOf(ev, v.next, d)
                 name == <<>>
      <4>1. ItemsOf(ev, i, d) = Lines(name, v, r, d)
        BY <2>2, <3>3, ItemsRule
      <4>2. name \in Seq(Clean)
        OBVIOUS
      <4>3. v.done \in BOOLEAN /\ v.ok \in BOOLEAN /\ (v.done => v.next \in (i + 1)..(n + 1))
        BY <1>0, ReadingRules DEF EndsPast
      <4>4. v.text \in Seq(Alphabet(d + 1))
        BY <1>1
      <4>5. v.done => v.next \in 1..(n + 1)
        BY <1>0, <4>3
      <4>6. v.done => r.ok \in BOOLEAN /\ r.text \in Seq(Alphabet(d)) /\ IsReading(r)
        BY <4>3, <4>5, ReadingRules DEF EndsPast, Texts
      <4> HIDE DEF v, r, name
      <4>7. LinesRead(name, v, r, d)
        BY <4>2, <4>3, <4>4, <4>6, LinesText
      <4> QED
        BY <4>1, <4>7 DEF LinesRead
    <3> QED
      BY <3>2, <3>3
  <2> QED
    BY <1>0, <2>1, <2>2
<1> QED
  BY <1>1, <1>2, <1>3 DEF Texts

\* Every reading is written in its alphabet.
LEMMA TextsSound == ASSUME NEW ev \in Seq(Events), NEW i \in 1..(Len(ev) + 1) PROVE Texts(ev, i)
<1> DEFINE n == Len(ev)
           T == {k \in Nat : \A j \in 1..(n + 1) : j >= n + 1 - k => Texts(ev, j)}
<1>5. n \in Nat
  OBVIOUS
<1>6. 0 \in T
  <2>1. ASSUME NEW j \in 1..(n + 1), j >= n + 1 - 0 PROVE Texts(ev, j)
    <3>1. \A l \in (j + 1)..(n + 1) : Texts(ev, l)
      BY <1>5, <2>1
    <3> QED
      BY <3>1, TextsStep
  <2> QED
    BY <2>1
<1>7. ASSUME NEW k \in T PROVE k + 1 \in T
  <2>1. ASSUME NEW j \in 1..(n + 1), j >= n + 1 - (k + 1) PROVE Texts(ev, j)
    <3>1. \A l \in (j + 1)..(n + 1) : Texts(ev, l)
      BY <1>5, <2>1
    <3> QED
      BY <3>1, TextsStep
  <2> QED
    BY <2>1
<1>8. T = Nat
  <2>1. T \in SUBSET Nat
    OBVIOUS
  <2> HIDE DEF T
  <2> QED
    BY <1>6, <1>7, <2>1, Upward
<1>9. n \in T
  BY <1>5, <1>8
<1> QED
  BY <1>5, <1>9

-----------------------------------------------------------------------------
(* Stacks, by their length and their top.                                  *)

\* What was put on a stack is on its top.
LEMMA PopOfPush ==
  ASSUME NEW S, NEW s \in Seq(S), NEW k \in S
  PROVE  Pop(Append(s, k)) = s /\ Len(Append(s, k)) = Len(s) + 1 /\ Append(s, k)[Len(s) + 1] = k
         /\ Append(s, k) # <<>> /\ Append(s, k) \in Seq(S)
<1> DEFINE t == Append(s, k)
<1>1. t \in Seq(S) /\ Len(t) = Len(s) + 1 /\ Len(s) \in Nat /\ t[Len(s) + 1] = k /\ t # <<>>
      /\ \A i \in 1..Len(s) : t[i] = s[i]
  OBVIOUS
<1> HIDE DEF t
<1>2. /\ SubSeq(t, 1, Len(t) - 1) \in Seq(S)
      /\ Len(SubSeq(t, 1, Len(t) - 1)) = Len(t) - 1
      /\ \A i \in 1..(Len(t) - 1) : SubSeq(t, 1, Len(t) - 1)[i] = t[i]
  BY <1>1, FrontFacts
<1> DEFINE u == SubSeq(t, 1, Len(t) - 1)
<1>3. u \in Seq(S) /\ Len(u) = Len(s) /\ \A i \in 1..Len(s) : u[i] = s[i]
  BY <1>1, <1>2
<1> HIDE DEF u
<1>4. u = s
  BY <1>3
<1> QED
  BY <1>1, <1>4 DEF u, Pop, t

\* A marker put on a stack of waiting ones.
LEMMA PushIs ==
  ASSUME NEW s \in Seq(Markers), \A i \in 1..Len(s) : s[i].mark \in Waiting,
         NEW k \in Markers, k.mark = "big" => BigDigits(k.digits)
  PROVE  /\ Shape(Append(s, k)) /\ Append(s, k) # <<>>
         /\ Len(Append(s, k)) = Len(s) + 1 /\ Len(s) \in Nat
         /\ Top(Append(s, k)) = k.mark /\ Pop(Append(s, k)) = s
         /\ Append(s, k)[Len(Append(s, k))] = k
<1>1. Shape(Append(s, k)) /\ Append(s, k) # <<>>
  BY PushFacts
<1>2. /\ Len(Append(s, k)) = Len(s) + 1 /\ Len(s) \in Nat /\ Pop(Append(s, k)) = s
      /\ Append(s, k)[Len(Append(s, k))] = k
  <2>1. Len(s) \in Nat
    OBVIOUS
  <2> QED
    BY <2>1, PopOfPush
<1>3. Top(Append(s, k)) = k.mark
  BY <1>1, <1>2, TopFacts
<1> QED
  BY <1>1, <1>2, <1>3

\* The top marker exchanged.
LEMMA MarkIs ==
  ASSUME NEW s, Shape(s), s # <<>>, NEW k \in Markers, k.mark = "big" => BigDigits(k.digits)
  PROVE  /\ Shape(Mark(k, s)) /\ Mark(k, s) # <<>>
         /\ Len(Mark(k, s)) = Len(s) /\ Top(Mark(k, s)) = k.mark /\ Pop(Mark(k, s)) = Pop(s)
         /\ Mark(k, s)[Len(s)] = k
         /\ \A j : Mark(j, Mark(k, s)) = Mark(j, s)
<1>1. /\ Pop(s) \in Seq(Markers) /\ Len(Pop(s)) = Len(s) - 1 /\ Len(s) \in Nat
      /\ \A i \in 1..Len(Pop(s)) : Pop(s)[i].mark \in Waiting
  BY TopFacts
<1> DEFINE p == Pop(s)
<1> HIDE DEF p
<1>2. /\ Shape(Append(p, k)) /\ Append(p, k) # <<>>
      /\ Len(Append(p, k)) = Len(p) + 1 /\ Len(p) \in Nat
      /\ Top(Append(p, k)) = k.mark /\ Pop(Append(p, k)) = p
      /\ Append(p, k)[Len(Append(p, k))] = k
  BY <1>1, PushIs DEF p
<1>3. Len(Append(p, k)) = Len(s)
  BY <1>1, <1>2 DEF p
<1>4. \A j : Mark(j, Append(p, k)) = Append(p, j)
  BY <1>2 DEF Mark
<1> QED
  BY <1>2, <1>3, <1>4 DEF Mark, p

\* The tops a value may be met on.
Expecting == {"none", "member", "big-key", "array-open", "array"}

\* Only the empty stack has no top.
LEMMA NoneIsEmpty ==
  ASSUME NEW s, Shape(s) PROVE Top(s) = "none" <=> s = <<>>
<1>1. s = <<>> => Top(s) = "none"
  BY DEF Top
<1> QED
  BY <1>1, TopFacts

\* The fields of a marker.
LEMMA MarkersAre ==
  /\ \A m \in Marks : Marker(m) \in Markers /\ Marker(m).mark = m /\ m # "big"
  /\ \A v \in Values : Held(v) \in Markers /\ Held(v).mark = "big" /\ Held(v).digits = v
  BY MarkerMarks, RenderAssumption DEF Markers, Marker, Held, Marks

\* A stack that a value begins on, opened, and completed.
LEMMA OpenedIs ==
  ASSUME NEW s, Shape(s), Top(s) \in Expecting
  PROVE  /\ Shape(Opened(s)) /\ Opened(s) \in Seq(Markers) /\ Len(Opened(s)) = Len(s) /\ Len(s) \in Nat
         /\ \A i \in 1..Len(Opened(s)) : Opened(s)[i].mark \in Waiting
         /\ Opened(s) = <<>> <=> s = <<>>
         /\ Top(s) = "none" => Opened(s) = s
         /\ Top(s) \in {"member", "big-key"} => Opened(s) = s /\ Done(Opened(s)) = Mark(Marker("object"), s)
         /\ Top(s) \in {"array-open", "array"} => Done(Opened(s)) = Opened(s) /\ Top(Opened(s)) = "array"
                                                  /\ s # <<>> /\ Pop(Opened(s)) = Pop(s)
         /\ Top(s) = "array-open" => Opened(s) = Mark(Marker("array"), s)
         /\ Top(s) = "array" => Opened(s) = s
         /\ Top(s) # "none" => s # <<>> /\ Len(s) >= 1
<1>1. /\ Shape(Opened(s)) /\ Opened(s) \in Seq(Markers) /\ Len(s) \in Nat
      /\ \A i \in 1..Len(Opened(s)) : Opened(s)[i].mark \in Waiting
  BY OpenedKeeps DEF Expecting, Shape
<1>2. CASE Top(s) = "array-open"
  <2>1. s # <<>>
    BY <1>2, NoneIsEmpty
  <2>2. Opened(s) = Mark(Marker("array"), s)
    BY <1>2 DEF Opened
  <2>3. Marker("array") \in Markers /\ Marker("array").mark = "array"
    BY MarkersAre DEF Marks
  <2>4. Opened(s) # <<>> /\ Len(Opened(s)) = Len(s) /\ Top(Opened(s)) = "array" /\ Pop(Opened(s)) = Pop(s)
    BY <2>1, <2>2, <2>3, MarkIs
  <2>5. Done(Opened(s)) = Opened(s)
    BY <2>4 DEF Done
  <2>6. Len(s) >= 1
    BY <2>1, TopFacts
  <2> QED
    BY <1>1, <1>2, <2>1, <2>2, <2>4, <2>5, <2>6
<1>3. CASE Top(s) # "array-open"
  <2>1. Opened(s) = s
    BY <1>3 DEF Opened
  <2>2. s # <<>> => Len(s) >= 1
    BY TopFacts
  <2>3. Top(s) \in {"member", "big-key"} => Done(s) = Mark(Marker("object"), s)
    BY NoneIsEmpty DEF Done
  <2>4. Top(s) = "array" => Done(s) = s
    BY NoneIsEmpty DEF Done
  <2> QED
    BY <1>1, <1>3, <2>1, <2>2, <2>3, <2>4, NoneIsEmpty
<1> QED
  BY <1>2, <1>3

\* What follows a value at its depth.
Ending(d) == (IF d = 0 THEN <<Newline>> ELSE <<Comma>>) \o (IF d <= 1 THEN <<RecordEnd>> ELSE <<>>)

\* The end of a value and of its record, by its depth.
LEMMA EndingIs ==
  ASSUME NEW q, Shape(q), NEW t \in Seq(Markers), Len(t) = IF q = <<>> THEN 1 ELSE Len(q)
  PROVE  End(q) \o (IF Len(t) = 1 THEN <<RecordEnd>> ELSE <<>>) = Ending(Len(q)) /\ Len(q) \in Nat
<1>1. Len(q) \in Nat /\ (q = <<>> <=> Len(q) = 0)
  BY DEF Shape
<1>2. (Len(t) = 1) <=> (Len(q) <= 1)
  <2>1. CASE q = <<>>
    <3>1. Len(t) = 1 /\ Len(q) = 0
      BY <1>1, <2>1
    <3> QED
      BY <3>1
  <2>2. CASE q # <<>>
    <3>1. Len(t) = Len(q) /\ Len(q) # 0
      BY <1>1, <2>2
    <3> QED
      BY <1>1, <3>1
  <2> QED
    BY <2>1, <2>2
<1> QED
  BY <1>1, <1>2 DEF End, Ending

\* A completed value leaves its parents as many as they were.
LEMMA DoneLen ==
  ASSUME NEW q, Shape(q)
  PROVE  Shape(Done(q)) /\ Len(Done(q)) = (IF q = <<>> THEN 1 ELSE Len(q))
<1>1. Shape(Done(q))
  BY DoneKeeps
<1>2. CASE q = <<>>
  BY <1>1, <1>2 DEF Done
<1>3. CASE q # <<>> /\ Top(q) \in {"member", "big-key"}
  <2>1. Marker("object") \in Markers /\ Marker("object").mark = "object"
    BY MarkersAre DEF Marks
  <2>2. Done(q) = Mark(Marker("object"), q)
    BY <1>3 DEF Done
  <2> QED
    BY <1>1, <1>3, <2>1, <2>2, MarkIs
<1>4. CASE q # <<>> /\ Top(q) \notin {"member", "big-key"}
  BY <1>1, <1>4 DEF Done
<1> QED
  BY <1>2, <1>3, <1>4

-----------------------------------------------------------------------------
(* The render as a machine on stacks.                                      *)

\* Where an event may be met, and what it does to a stack and to the text.
May(s, e) ==
    CASE e.event \in {"object-start", "array-start", "scalar"} -> Top(s) \in Expecting
      [] e.event \in {"key", "object-end"} -> Top(s) \in {"object-open", "object", "big"}
      [] e.event = "array-end"             -> Top(s) \in {"array-open", "array"}

\* The marker of a container not yet known to hold something.
HeldMark(e) == IF e.event = "object-start" THEN Marker("object-open") ELSE Marker("array-open")

\* Digits that may be those of a big integer.
Holding(s, e) == Top(s) = "big-key" /\ BigDigits(e.value)

\* The stack after an event.
StackAfter(s, e) ==
    IF e.event \in {"object-start", "array-start"} THEN Append(Opened(s), HeldMark(e))
    ELSE IF e.event = "key"
         THEN Mark(IF Top(s) = "object-open" /\ e.name = Big THEN Marker("big-key") ELSE Marker("member"), s)
    ELSE IF e.event = "scalar"
         THEN (IF Holding(s, e) THEN Mark(Held(e.value), s) ELSE Done(Opened(s)))
    ELSE Done(Pop(s))

\* What is delayed until a container is known to hold something.
Delayed(s) ==
    IF Top(s) \in {"object-open", "array-open"} THEN <<Open>>
    ELSE IF Top(s) = "big"
         THEN <<Open, Indent(s), FieldToken(Big), Assign, String(s[Len(s)].digits), Comma>>
              \o LineEnds(Len(s))
    ELSE <<>>

\* What an event writes.
Writes(s, e) ==
    IF e.event \in {"object-start", "array-start"} THEN Lead(s) \o RootOpens(Len(s))
    ELSE IF e.event = "key"
         THEN (IF Top(s) = "object-open" /\ e.name = Big THEN <<>>
               ELSE Delayed(s) \o <<Indent(s), FieldToken(e.name), Assign>>)
    ELSE IF e.event = "scalar"
         THEN (IF Holding(s, e) THEN <<>> ELSE Lead(s) \o <<ScalarToken(e.value)>> \o Ending(Len(s)))
    ELSE Closing(s) \o Ending(Len(s) - 1)

\* An event may be met exactly where the render says.
LEMMA MaySeeIs == ASSUME NEW e \in Events PROVE MaySee(e) <=> May(stack, e)
<1>1. e.event \in {"object-start", "array-start", "object-end", "array-end", "key", "scalar"}
  BY EventIs
<1>2. CASE e.event \in {"object-start", "array-start", "scalar"}
  BY <1>2 DEF MaySee, May, Expecting
<1>3. CASE e.event \in {"key", "object-end"}
  BY <1>3 DEF MaySee, May
<1>4. CASE e.event = "array-end"
  BY <1>4 DEF MaySee, May
<1> QED
  BY <1>1, <1>2, <1>3, <1>4

\* One step of the render that takes e.
Goes(e) == seen' = Append(seen, e) /\ May(stack, e) /\ stack' = StackAfter(stack, e)
           /\ text' = text \o Writes(stack, e) /\ status' = status /\ status = "running"

\* A step that ends a record when it leaves one level open.
LEMMA ToIs ==
  ASSUME NEW s, Shape(s), NEW o, To(s, o)
  PROVE  stack' = s /\ text' = text \o (o \o (IF Len(s) = 1 THEN <<RecordEnd>> ELSE <<>>)) /\ status' = status
  BY DEF To, Transition

\* A container opened is a step of the machine.
LEMMA StartGoes ==
  ASSUME Shape(stack), NEW e \in Starts, ContainerStart(e) PROVE Goes(e) /\ e \in Events
<1>0. e \in Events /\ e.event \in {"object-start", "array-start"}
  BY EventIs DEF Events, Starts, Event
<1>1. May(stack, e) /\ seen' = Append(seen, e) /\ status = "running"
  BY <1>0, MaySeeIs DEF ContainerStart, Accepts, Takes
<1>2. Top(stack) \in Expecting
  BY <1>0, <1>1 DEF May
<1> DEFINE m == HeldMark(e)
           t == Append(Opened(stack), m)
<1>3. m \in Markers /\ m.mark # "big"
  BY MarkersAre DEF Marks, HeldMark
<1>4. Shape(t) /\ Len(t) = Len(stack) + 1 /\ Len(stack) \in Nat
  <2>1. /\ Opened(stack) \in Seq(Markers) /\ Len(Opened(stack)) = Len(stack) /\ Len(stack) \in Nat
        /\ \A i \in 1..Len(Opened(stack)) : Opened(stack)[i].mark \in Waiting
    BY <1>2, OpenedIs
  <2> QED
    BY <1>3, <2>1, PushIs
<1>5. To(t, Lead(stack))
  <2>1. e.event = "object-start" <=> HeldMark(e) = Marker("object-open")
    BY DEF HeldMark, Marker
  <2>2. m = Marker(IF e.event = "object-start" THEN "object-open" ELSE "array-open")
    BY DEF HeldMark
  <2> QED
    BY <2>2 DEF ContainerStart
<1> HIDE DEF t
<1>6. stack' = t /\ text' = text \o (Lead(stack) \o (IF Len(t) = 1 THEN <<RecordEnd>> ELSE <<>>)) /\ status' = status
  BY <1>4, <1>5, ToIs
<1>7. (IF Len(t) = 1 THEN <<RecordEnd>> ELSE <<>>) = RootOpens(Len(stack))
  <2>1. Len(t) = 1 <=> Len(stack) = 0
    BY <1>4
  <2> QED
    BY <2>1 DEF RootOpens
<1>8. StackAfter(stack, e) = t /\ Writes(stack, e) = Lead(stack) \o RootOpens(Len(stack))
  BY <1>0 DEF StackAfter, Writes, t
<1> QED
  BY <1>0, <1>1, <1>6, <1>7, <1>8 DEF Goes

\* So is a field name.
LEMMA MemberGoes ==
  ASSUME Shape(stack), NEW name \in Names, Member(name) PROVE Goes(Key(name)) /\ Key(name) \in Events
<1> DEFINE e == Key(name)
<1>0. e \in Events /\ e.event = "key" /\ e.name = name
  BY DEF Events, Key
<1> HIDE DEF e
<1>1. May(stack, e) /\ seen' = Append(seen, e) /\ status = "running"
  BY <1>0, MaySeeIs DEF Member, Accepts, Takes, e
<1>2. StackAfter(stack, e) = Mark(IF Top(stack) = "object-open" /\ name = Big THEN Marker("big-key") ELSE Marker("member"), stack)
  BY <1>0 DEF StackAfter
<1>3. Writes(stack, e) = IF Top(stack) = "object-open" /\ name = Big THEN <<>>
                           ELSE Delayed(stack) \o <<Indent(stack), FieldToken(name), Assign>>
  BY <1>0 DEF Writes
<1>4. CASE Top(stack) = "object-open" /\ name = Big
  <2>1. Transition(Mark(Marker("big-key"), stack), <<>>)
    BY <1>4 DEF Member
  <2> QED
    BY <1>0, <1>1, <1>2, <1>3, <1>4, <2>1 DEF Goes, Transition, e
<1>5. CASE Top(stack) = "object-open" /\ name # Big
  <2>1. Transition(Mark(Marker("member"), stack), <<Open, Indent(stack), FieldToken(name), Assign>>)
    BY <1>5 DEF Member
  <2>2. <<Open, Indent(stack), FieldToken(name), Assign>> = Delayed(stack) \o <<Indent(stack), FieldToken(name), Assign>>
    BY <1>5 DEF Delayed
  <2> QED
    BY <1>0, <1>1, <1>2, <1>3, <1>5, <2>1, <2>2 DEF Goes, Transition, e
<1>6. CASE Top(stack) = "object"
  <2>1. Transition(Mark(Marker("member"), stack), <<Indent(stack), FieldToken(name), Assign>>)
    BY <1>6 DEF Member
  <2>2. <<Indent(stack), FieldToken(name), Assign>> = Delayed(stack) \o <<Indent(stack), FieldToken(name), Assign>>
    BY <1>6 DEF Delayed
  <2> QED
    BY <1>0, <1>1, <1>2, <1>3, <1>6, <2>1, <2>2 DEF Goes, Transition, e
<1>7. CASE Top(stack) = "big"
  <2>1. Transition(Mark(Marker("member"), stack), BigField(stack[Len(stack)].digits, name, stack))
    BY <1>7 DEF Member
  <2>2. BigField(stack[Len(stack)].digits, name, stack) = Delayed(stack) \o <<Indent(stack), FieldToken(name), Assign>>
    BY <1>7 DEF Delayed, BigField, LineEnds
  <2> QED
    BY <1>0, <1>1, <1>2, <1>3, <1>7, <2>1, <2>2 DEF Goes, Transition, e
<1> QED
  BY <1>0, <1>1, <1>4, <1>5, <1>6, <1>7 DEF May, e

\* So is a scalar, its digits held or its text written.
LEMMA ScalarGoes ==
  ASSUME Shape(stack), NEW v \in Values, ScalarValue(v) PROVE Goes(Scalar(v)) /\ Scalar(v) \in Events
<1> DEFINE e == Scalar(v)
<1>0. e \in Events /\ e.event = "scalar" /\ e.value = v
  BY DEF Events, Scalar
<1> HIDE DEF e
<1>1. May(stack, e) /\ seen' = Append(seen, e) /\ status = "running"
  BY <1>0, MaySeeIs DEF ScalarValue, Accepts, Takes, e
<1>2. Top(stack) \in Expecting
  BY <1>0, <1>1 DEF May
<1>3. StackAfter(stack, e) = IF Holding(stack, e) THEN Mark(Held(v), stack) ELSE Done(Opened(stack))
  BY <1>0 DEF StackAfter
<1>4. Writes(stack, e) = IF Holding(stack, e) THEN <<>> ELSE Lead(stack) \o <<ScalarToken(v)>> \o Ending(Len(stack))
  BY <1>0 DEF Writes
<1>5. Holding(stack, e) <=> HoldsDigits(v)
  BY <1>0 DEF Holding, HoldsDigits
<1>6. CASE Holding(stack, e)
  <2>1. Transition(Mark(Held(v), stack), <<>>)
    BY <1>5, <1>6 DEF ScalarValue
  <2> QED
    BY <1>0, <1>1, <1>3, <1>4, <1>6, <2>1 DEF Goes, Transition, e
<1>7. CASE ~Holding(stack, e)
  <2> DEFINE t == Done(Opened(stack))
  <2>1. To(t, Lead(stack) \o <<ScalarToken(v)>> \o End(stack))
    BY <1>5, <1>7 DEF ScalarValue
  <2>2. Shape(t) /\ Len(t) = IF stack = <<>> THEN 1 ELSE Len(stack)
    BY <1>2, OpenedIs, DoneLen
  <2> HIDE DEF t
  <2>3. /\ stack' = t /\ status' = status
        /\ text' = text \o ((Lead(stack) \o <<ScalarToken(v)>> \o End(stack)) \o (IF Len(t) = 1 THEN <<RecordEnd>> ELSE <<>>))
    BY <2>1, <2>2, ToIs
  <2>4. End(stack) \o (IF Len(t) = 1 THEN <<RecordEnd>> ELSE <<>>) = Ending(Len(stack))
    BY <2>2, EndingIs DEF Shape
  <2> DEFINE a == Lead(stack)
             b == <<ScalarToken(v)>>
             c == End(stack)
             d == IF Len(t) = 1 THEN <<RecordEnd>> ELSE <<>>
  <2>5. a \in Seq(Sound) /\ b \in Seq(Sound) /\ c \in Seq(Sound) /\ d \in Seq(Sound)
    BY <1>2, LeadSound, EndSound, SoundTokens DEF Expecting
  <2> HIDE DEF a, b, c, d
  <2>6. (a \o b \o c) \o d = a \o b \o (c \o d)
    <3>1. a \o b \in Seq(Sound)
      BY <2>5
    <3> QED
      BY <2>5, <3>1, ConcatAssociative
  <2>7. (Lead(stack) \o <<ScalarToken(v)>> \o End(stack)) \o (IF Len(t) = 1 THEN <<RecordEnd>> ELSE <<>>)
           = Lead(stack) \o <<ScalarToken(v)>> \o Ending(Len(stack))
    BY <2>4, <2>6 DEF a, b, c, d
  <2> QED
    BY <1>0, <1>1, <1>3, <1>4, <1>7, <2>3, <2>7 DEF Goes, t, e
<1> QED
  BY <1>6, <1>7

\* What closes a container ends no record.
LEMMA ClosingSound ==
  ASSUME NEW s, Shape(s), Top(s) \in {"object-open", "array-open", "object", "array", "big"}
  PROVE  Closing(s) \in Seq(Clean)
<1>1. s # <<>>
  BY NoneIsEmpty
<1>2. CASE Top(s) \in {"object-open", "array-open"}
  <2>1. Closing(s) = <<EmptyContainer>>
    BY <1>2 DEF Closing
  <2> QED
    BY <2>1, CleanTokens, One
<1>3. CASE Top(s) \in {"object", "array"}
  <2>1. Closing(s) = <<Indent(Pop(s)), Close>>
    BY <1>3 DEF Closing
  <2>2. Indent(Pop(s)) \in Clean /\ Close \in Clean
    BY <1>1, TopFacts, CleanTokens DEF Shape
  <2> QED
    BY <2>1, <2>2
<1>4. CASE Top(s) = "big"
  <2>1. Closing(s) = <<Integer(s[Len(s)].digits)>>
    BY <1>4 DEF Closing
  <2>2. s[Len(s)].digits \in Values /\ BigDigits(s[Len(s)].digits)
    <3>1. s[Len(s)] \in Markers /\ s[Len(s)].mark = "big" /\ Len(s) \in 1..Len(s)
      BY <1>1, <1>4, TopFacts
    <3> QED
      BY <3>1, MarkerMarks DEF Shape
  <2>3. Integer(s[Len(s)].digits) \in Clean
    BY <2>2, CleanTokens
  <2> QED
    BY <2>1, <2>3, One
<1> QED
  BY <1>2, <1>3, <1>4

\* A container closed is a step of the machine.
LEMMA EndGoes ==
  ASSUME Shape(stack), NEW e \in Ends, ContainerEnd(e) PROVE Goes(e) /\ e \in Events
<1>0. e \in Events /\ e.event \in {"object-end", "array-end"}
  BY EventIs DEF Events, Ends, Event
<1>1. May(stack, e) /\ seen' = Append(seen, e) /\ status = "running"
  BY <1>0, MaySeeIs DEF ContainerEnd, Accepts, Takes
<1>2. Top(stack) \in {"object-open", "object", "big", "array-open", "array"}
  BY <1>0, <1>1 DEF May
<1>3. stack # <<>>
  BY <1>2, NoneIsEmpty
<1> DEFINE q == Pop(stack)
           t == Done(q)
<1>4. Shape(q) /\ Len(q) = Len(stack) - 1
  BY <1>3, TopFacts
<1>5. Shape(t) /\ Len(t) = IF q = <<>> THEN 1 ELSE Len(q)
  BY <1>4, DoneLen
<1>6. To(t, Closing(stack) \o End(q))
  BY DEF ContainerEnd
<1> HIDE DEF t
<1>7. /\ stack' = t /\ status' = status
      /\ text' = text \o ((Closing(stack) \o End(q)) \o (IF Len(t) = 1 THEN <<RecordEnd>> ELSE <<>>))
  BY <1>5, <1>6, ToIs
<1>8. End(q) \o (IF Len(t) = 1 THEN <<RecordEnd>> ELSE <<>>) = Ending(Len(stack) - 1)
  BY <1>4, <1>5, EndingIs DEF Shape
<1> DEFINE a == Closing(stack)
           c == End(q)
           d == IF Len(t) = 1 THEN <<RecordEnd>> ELSE <<>>
<1>9. a \in Seq(Sound) /\ c \in Seq(Sound) /\ d \in Seq(Sound)
  <2>1. Seq(Clean) \subseteq Seq(Sound)
    BY SeqOfMore DEF Clean
  <2>2. a \in Seq(Clean)
    BY <1>2, ClosingSound
  <2>3. d \in Seq(Sound)
    BY SoundTokens
  <2> QED
    BY <2>1, <2>2, <2>3, EndSound
<1> HIDE DEF a, c, d
<1>10. (a \o c) \o d = a \o (c \o d)
  BY <1>9, ConcatAssociative
<1>11. StackAfter(stack, e) = t /\ Writes(stack, e) = Closing(stack) \o Ending(Len(stack) - 1)
  BY <1>0 DEF StackAfter, Writes, t
<1> QED
  BY <1>0, <1>1, <1>7, <1>8, <1>10, <1>11 DEF Goes, a, c, d

-----------------------------------------------------------------------------
(* Texts put one after another, however they are grouped.                  *)

\* All sound texts, and one after another.
Writing == Seq(Sound)
Then(a, b) == a \o b

\* Texts can be grouped either way.
LEMMA ThenIs ==
  /\ \A x, y \in Writing : Then(x, y) \in Writing
  /\ \A x, y, z \in Writing : Then(Then(x, y), z) = Then(x, Then(y, z))
<1>1. \A x, y \in Writing : x \o y \in Writing
  BY DEF Writing
<1>2. ASSUME NEW x \in Writing, NEW y \in Writing, NEW z \in Writing PROVE (x \o y) \o z = x \o (y \o z)
  BY ConcatAssociative DEF Writing
<1> QED
  BY <1>1, <1>2 DEF Then

\* Nothing added to a text.
LEMMA JoinEmpty == ASSUME NEW S, NEW a \in Seq(S) PROVE a \o <<>> = a /\ <<>> \o a = a
  OBVIOUS

\* What is closed after a line and the lines that follow it.
LEMMA LineThen ==
  ASSUME NEW a \in Writing, NEW p \in Writing, NEW l \in Writing, NEW t \in Writing,
         NEW c \in Writing, NEW e \in Writing
  PROVE  /\ Then(Then(a, Then(p, l)), Then(Then(t, c), e)) = Then(a, Then(Then(Then(p, Then(l, t)), c), e))
         /\ Then(Then(a, Then(p, l)), Then(t, c)) = Then(a, Then(Then(p, Then(l, t)), c))
<1>1. Then(Then(a, Then(p, l)), Then(Then(t, c), e)) = Then(a, Then(Then(Then(p, Then(l, t)), c), e))
  <2>1. Then(Then(a, Then(p, l)), Then(Then(t, c), e)) = Then(a, Then(p, Then(l, Then(t, Then(c, e)))))
    BY ThenIs
  <2>2. Then(Then(p, Then(l, t)), c) = Then(p, Then(l, Then(t, c))) /\ Then(l, Then(t, c)) \in Writing
    BY ThenIs
  <2>3. Then(Then(p, Then(l, Then(t, c))), e) = Then(p, Then(Then(l, Then(t, c)), e))
    BY <2>2, ThenIs
  <2>4. Then(Then(l, Then(t, c)), e) = Then(l, Then(t, Then(c, e)))
    BY ThenIs
  <2> QED
    BY <2>1, <2>2, <2>3, <2>4
<1>2. Then(Then(a, Then(p, l)), Then(t, c)) = Then(a, Then(Then(p, Then(l, t)), c))
  BY ThenIs
<1> QED
  BY <1>1, <1>2

\* A name and its line, grouped as a member and as its parts.
Spans(a, w, k, v, c, e, p, n, i) ==
    Then(Then(a, w), Then(Then(k, v), Then(c, e))) = Then(a, Then(p, Then(Then(Then(Then(i, n), v), c), e)))

\* A value after its name: w is written with the name and k before the value.
LEMMA NameThen ==
  ASSUME NEW a \in Writing, NEW w \in Writing, NEW k \in Writing, NEW v \in Writing, NEW c \in Writing,
         NEW e \in Writing, NEW p \in Writing, NEW n \in Writing, NEW i \in Writing,
         Then(w, k) = Then(p, Then(i, n))
  PROVE  Spans(a, w, k, v, c, e, p, n, i)
<1> DEFINE q == Then(i, n)
<1>0. q \in Writing /\ Then(w, k) = Then(p, q)
  BY ThenIs
<1> HIDE DEF q
<1>1. Then(Then(a, w), Then(Then(k, v), Then(c, e))) = Then(a, Then(Then(w, k), Then(v, Then(c, e))))
  BY ThenIs
<1>2. Then(Then(p, q), Then(v, Then(c, e))) = Then(p, Then(q, Then(v, Then(c, e))))
  BY <1>0, ThenIs
<1>3. Then(Then(Then(q, v), c), e) = Then(q, Then(v, Then(c, e)))
  <2>1. Then(Then(q, v), c) = Then(q, Then(v, c)) /\ Then(v, c) \in Writing
    BY <1>0, ThenIs
  <2>2. Then(Then(q, Then(v, c)), e) = Then(q, Then(Then(v, c), e))
    BY <1>0, <2>1, ThenIs
  <2>3. Then(Then(v, c), e) = Then(v, Then(c, e))
    BY ThenIs
  <2> QED
    BY <2>1, <2>2, <2>3
<1>4. Then(Then(a, w), Then(Then(k, v), Then(c, e))) = Then(a, Then(p, Then(Then(Then(q, v), c), e)))
  BY <1>0, <1>1, <1>2, <1>3
<1> QED
  BY <1>4 DEF q, Spans

\* A container after its opening.
LEMMA StartThen ==
  ASSUME NEW a \in Writing, NEW l \in Writing, NEW r \in Writing, NEW b \in Writing, NEW e \in Writing
  PROVE  /\ Then(Then(a, Then(l, r)), Then(b, e)) = Then(a, Then(Then(l, Then(r, b)), e))
         /\ Then(Then(a, Then(l, r)), Then(b, e)) = Then(a, Then(Then(l, r), Then(b, e)))
         /\ Then(Then(l, r), b) = Then(l, Then(r, b))
  BY ThenIs

-----------------------------------------------------------------------------
(* A run of the render beside the descent.                                 *)

\* A run over ev: the stack and the text before each event, as far as the
\* m-th position, where the events end or the event is refused.
IsTrace(ev, st, tx, m) ==
    /\ ev \in Seq(Events) /\ m \in 1..(Len(ev) + 1)
    /\ st[1] = <<>> /\ tx[1] = <<>>
    /\ \A i \in 1..m : Shape(st[i]) /\ tx[i] \in Seq(Sound)
    /\ \A i \in 1..(m - 1) : /\ May(st[i], ev[i])
                             /\ st[i + 1] = StackAfter(st[i], ev[i])
                             /\ tx[i + 1] = tx[i] \o Writes(st[i], ev[i])
    /\ m <= Len(ev) => ~May(st[m], ev[m])

\* A position of a run, and the next one.
LEMMA TraceStep ==
  ASSUME NEW ev, NEW st, NEW tx, NEW m, IsTrace(ev, st, tx, m), NEW i \in 1..m
  PROVE  /\ ev \in Seq(Events) /\ Len(ev) \in Nat /\ m \in 1..(Len(ev) + 1) /\ i \in 1..(Len(ev) + 1)
         /\ Shape(st[i]) /\ tx[i] \in Seq(Sound) /\ Len(st[i]) \in Nat
         /\ i = Len(ev) + 1 => m = Len(ev) + 1
         /\ i <= Len(ev) => ev[i] \in Events
<1>1. ev \in Seq(Events) /\ m \in 1..(Len(ev) + 1) /\ Shape(st[i]) /\ tx[i] \in Seq(Sound)
  BY DEF IsTrace
<1>2. Len(ev) \in Nat /\ i \in 1..(Len(ev) + 1) /\ (i = Len(ev) + 1 => m = Len(ev) + 1)
  BY <1>1
<1>3. i <= Len(ev) => ev[i] \in Events
  BY <1>1, <1>2
<1>4. Len(st[i]) \in Nat
  BY <1>1 DEF Shape
<1> QED
  BY <1>1, <1>2, <1>3, <1>4

\* An event taken at i.
Went(ev, st, tx, m, i) ==
    /\ i + 1 \in 1..m
    /\ st[i + 1] = StackAfter(st[i], ev[i])
    /\ tx[i + 1] = tx[i] \o Writes(st[i], ev[i])

\* An event that may come here is taken.
LEMMA TraceGoes ==
  ASSUME NEW ev, NEW st, NEW tx, NEW m, IsTrace(ev, st, tx, m), NEW i \in 1..m, i <= Len(ev), May(st[i], ev[i])
  PROVE  Went(ev, st, tx, m, i)
<1>1. i # m
  BY DEF IsTrace
<1>2. m \in 1..(Len(ev) + 1) /\ Len(ev) \in Nat
  BY TraceStep
<1>3. i \in 1..(m - 1) /\ i + 1 \in 1..m
  BY <1>1, <1>2
<1> QED
  BY <1>3 DEF IsTrace, Went

\* One that may not is refused.
LEMMA TraceStops ==
  ASSUME NEW ev, NEW st, NEW tx, NEW m, IsTrace(ev, st, tx, m), NEW i \in 1..m, i <= Len(ev), ~May(st[i], ev[i])
  PROVE  m <= Len(ev)
<1>1. i \notin 1..(m - 1)
  BY DEF IsTrace
<1>2. m \in 1..(Len(ev) + 1) /\ Len(ev) \in Nat
  BY TraceStep
<1> QED
  BY <1>1, <1>2

\* What the run makes of what is read at i: it is there after all of it, with
\* its text written; or the events ran out inside it, with no more written
\* than its whole lines and part of a record; or an event was refused.
Fate(ev, st, tx, m, i, r, after, whole, begun) ==
    /\ r.done => /\ r.next \in 1..m /\ st[r.next] = after /\ tx[r.next] = tx[i] \o whole
    /\ r.ok /\ ~r.done => /\ m = Len(ev) + 1 /\ Top(st[m]) # "root-done"
                          /\ \E x \in Seq(Clean) : tx[m] = tx[i] \o (begun \o x)
    /\ ~r.ok => m <= Len(ev)

\* What is written of a value that is not complete.
Shown(ev, i, d, t) ==
    IF d > 0 \/ i = Len(ev) + 1 THEN <<>>
    ELSE IF t = <<>> \/ (BigAt(ev, i) /\ Len(ev) = i + 2) THEN <<RecordEnd>>
    ELSE <<RecordEnd, Open>> \o t

\* The fate of a value, and when it runs as it is read.
ValueFate(ev, st, tx, m, i, r) ==
    Fate(ev, st, tx, m, i, r, Done(Opened(st[i])), Lead(st[i]) \o r.text \o Ending(Len(st[i])),
         Shown(ev, i, Len(st[i]), r.text))

ValueRuns(ev, st, tx, m, i) ==
    /\ Top(st[i]) \in Expecting
    /\ i <= Len(ev) => /\ ~(ev[i].event = "scalar" /\ Holding(st[i], ev[i]))
                       /\ ~(ev[i].event = "array-end" /\ Top(st[i]) \in {"array-open", "array"})
    => ValueFate(ev, st, tx, m, i, ValueOf(ev, i, Len(st[i])))

\* What is inside a container, on a stack that has its marker on top.
InsideWhole(s, t) ==
    (IF t = <<>> THEN Closing(s) ELSE Delayed(s) \o t \o <<Indent(Pop(s)), Close>>)
    \o Ending(Len(s) - 1)
\* What is written of a container that is not complete.
InsideBegun(ev, i, s, t) ==
    IF t # <<>> THEN Delayed(s) \o t
    ELSE IF i <= Len(ev) /\ Top(s) = "big" THEN Delayed(s) ELSE <<>>

\* The fate of what is inside a container, and when it runs as it is read.
InsideRuns(ev, st, tx, m, i, s, r) ==
    Fate(ev, st, tx, m, i, r, Done(Pop(s)), InsideWhole(s, r.text), InsideBegun(ev, i, s, r.text))

\* The digits of a big integer are next.
DigitsNext(ev, i) ==
    /\ i + 1 <= Len(ev) /\ ev[i] = Key(Big)
    /\ ev[i + 1].event = "scalar" /\ BigDigits(ev[i + 1].value)

\* The members from i on run as they are read, but for digits held.
MembersRun(ev, st, tx, m, i) ==
    Top(st[i]) \in {"object-open", "object", "big"} /\ ~(Top(st[i]) = "object-open" /\ DigitsNext(ev, i))
    => InsideRuns(ev, st, tx, m, i, st[i], MembersOf(ev, i, Len(st[i])))

\* The items from i on run as they are read.
ItemsRun(ev, st, tx, m, i) ==
    Top(st[i]) \in {"array-open", "array"}
    => InsideRuns(ev, st, tx, m, i, st[i], ItemsOf(ev, i, Len(st[i])))

\* A stack between members or between items.
Settled == {"object", "array"}
Inside  == {"object-open", "object", "big", "array-open", "array"}

\* A text that ends no record is sound.
LEMMA CleanIsSound == Seq(Clean) \subseteq Seq(Sound)
  BY SeqOfMore DEF Clean

\* What is written for a container is sound.
LEMMA InsideWritten ==
  ASSUME NEW s, Shape(s), Top(s) \in Inside
  PROVE  /\ s # <<>> /\ Len(s) \in Nat /\ Len(s) >= 1 /\ Len(s) - 1 \in Nat
         /\ Closing(s) \in Seq(Clean) /\ Delayed(s) \in Seq(Sound) /\ Ending(Len(s) - 1) \in Seq(Sound)
         /\ Top(s) # "big" => Delayed(s) \in Seq(Clean)
         /\ Len(s) > 1 => Delayed(s) \in Seq(Clean)
         /\ Top(s) \in Settled => Delayed(s) = <<>> /\ Closing(s) = <<Indent(Pop(s)), Close>>
         /\ Top(s) \in {"object-open", "array-open"} => Delayed(s) = <<Open>> /\ Closing(s) = <<EmptyContainer>>
         /\ <<Indent(Pop(s)), Close>> \in Seq(Clean)
         /\ Shape(Pop(s)) /\ Len(Pop(s)) = Len(s) - 1
<1>1. s # <<>> /\ Len(s) \in Nat /\ Len(s) >= 1 /\ Len(s) - 1 \in Nat
  BY NoneIsEmpty, TopFacts DEF Inside
<1>2. Closing(s) \in Seq(Clean)
  BY ClosingSound DEF Inside
<1>3. Ending(Len(s) - 1) \in Seq(Sound)
  <2>1. Newline \in Sound /\ Comma \in Sound /\ RecordEnd \in Sound
    BY SoundTokens
  <2> DEFINE x == IF Len(s) - 1 = 0 THEN <<Newline>> ELSE <<Comma>>
             y == IF Len(s) - 1 <= 1 THEN <<RecordEnd>> ELSE <<>>
  <2>2. x \in Seq(Sound) /\ y \in Seq(Sound)
    BY <2>1
  <2>3. Ending(Len(s) - 1) = x \o y
    BY DEF Ending
  <2> HIDE DEF x, y
  <2> QED
    BY <2>2, <2>3, Join
<1>4. Shape(Pop(s)) /\ Len(Pop(s)) = Len(s) - 1
  BY <1>1, TopFacts
<1>5. <<Indent(Pop(s)), Close>> \in Seq(Clean)
  <2>1. Indent(Pop(s)) \in Clean /\ Close \in Clean
    BY <1>1, <1>4, CleanTokens
  <2> QED
    BY <2>1
<1>6. Top(s) \in {"object-open", "array-open"} => Delayed(s) = <<Open>> /\ Closing(s) = <<EmptyContainer>>
  BY DEF Delayed, Closing
<1>7. Top(s) \in Settled => Delayed(s) = <<>> /\ Closing(s) = <<Indent(Pop(s)), Close>>
  BY DEF Delayed, Closing, Settled
<1>8. Top(s) # "big" => Delayed(s) \in Seq(Clean)
  <2>1. Open \in Clean
    BY CleanTokens
  <2>2. <<Open>> \in Seq(Clean) /\ <<>> \in Seq(Clean)
    BY <2>1
  <2> QED
    BY <2>2 DEF Delayed
<1>9. CASE Top(s) = "big"
  <2>1. s[Len(s)] \in Markers /\ s[Len(s)].mark = "big"
    BY <1>1, <1>9, TopFacts
  <2>2. s[Len(s)].digits \in Values
    BY <2>1, MarkerMarks
  <2> DEFINE b == s[Len(s)].digits
             x == <<Open, Indent(s), FieldToken(Big), Assign, String(b), Comma>>
  <2> HIDE DEF b
  <2>3. Open \in Clean /\ Indent(s) \in Clean /\ FieldToken(Big) \in Clean /\ Assign \in Clean /\ String(b) \in Clean
        /\ Comma \in Clean
    BY <1>1, <2>2, CleanTokens, RenderAssumption DEF b
  <2>4. x \in Seq(Clean)
    BY <2>3
  <2>5. Delayed(s) = x \o LineEnds(Len(s))
    BY <1>9 DEF Delayed, b
  <2>6. x \in Seq(Sound) /\ LineEnds(Len(s)) \in Seq(Sound)
    BY <1>1, <2>4, CleanIsSound, Alphabets
  <2>7. Len(s) > 1 => LineEnds(Len(s)) = <<>>
    <3>1. Len(s) > 1 => Len(s) # 1
      BY <1>1
    <3> QED
      BY <3>1, Zenon DEF LineEnds
  <2> HIDE DEF x
  <2>8. Delayed(s) \in Seq(Sound)
    BY <2>5, <2>6, Join
  <2>9. Len(s) > 1 => Delayed(s) = x
    BY <2>4, <2>5, <2>7, JoinEmpty
  <2> QED
    BY <1>1, <1>2, <1>3, <1>4, <1>5, <1>6, <1>7, <1>8, <1>9, <2>4, <2>8, <2>9
<1> QED
  BY <1>1, <1>2, <1>3, <1>4, <1>5, <1>6, <1>7, <1>8, <1>9, CleanIsSound

\* A line from i to j, then the rest of its container, are what r reads.
Continues(ev, st, tx, m, i, j, s, line, rest, r) ==
    /\ IsTrace(ev, st, tx, m) /\ i \in 1..m /\ j \in 1..m
    /\ Shape(s) /\ Top(s) \in Inside
    /\ Top(st[j]) \in Settled /\ Pop(st[j]) = Pop(s) /\ Len(st[j]) = Len(s)
    /\ line \in Seq(Sound) /\ tx[j] = tx[i] \o (Delayed(s) \o line)
    /\ rest.ok \in BOOLEAN /\ rest.done \in BOOLEAN /\ (rest.done => rest.ok)
    /\ rest.text \in Seq(Sound) /\ InsideRuns(ev, st, tx, m, j, st[j], rest)
    /\ rest.ok => /\ r.ok /\ r.done = rest.done /\ (rest.done => r.next = rest.next)
                  /\ r.text = line \o rest.text /\ r.text # <<>>
    /\ ~rest.ok => r = NoTree

\* A line and the rest of a container run when the rest does.
LEMMA LineRuns ==
  ASSUME NEW ev, NEW st, NEW tx, NEW m, NEW i, NEW j, NEW s, NEW line, NEW rest, NEW r,
         Continues(ev, st, tx, m, i, j, s, line, rest, r)
  PROVE  InsideRuns(ev, st, tx, m, i, s, r)
<1>0. /\ IsTrace(ev, st, tx, m) /\ i \in 1..m /\ j \in 1..m
      /\ Shape(s) /\ Top(s) \in Inside
      /\ Top(st[j]) \in Settled /\ Pop(st[j]) = Pop(s) /\ Len(st[j]) = Len(s)
      /\ line \in Seq(Sound) /\ tx[j] = tx[i] \o (Delayed(s) \o line)
      /\ rest.ok \in BOOLEAN /\ rest.done \in BOOLEAN /\ (rest.done => rest.ok)
      /\ rest.text \in Seq(Sound) /\ InsideRuns(ev, st, tx, m, j, st[j], rest)
      /\ rest.ok => /\ r.ok /\ r.done = rest.done /\ (rest.done => r.next = rest.next)
                    /\ r.text = line \o rest.text /\ r.text # <<>>
      /\ ~rest.ok => r = NoTree
  BY DEF Continues
<1> USE <1>0
<1> DEFINE u == st[j]
           t == rest.text
           p == Delayed(s)
           c == <<Indent(Pop(s)), Close>>
           e == Ending(Len(s) - 1)
<1>1. Shape(u) /\ tx[i] \in Seq(Sound) /\ tx[j] \in Seq(Sound)
  BY TraceStep
<1>2. /\ p \in Seq(Sound) /\ c \in Seq(Sound) /\ e \in Seq(Sound)
  BY InsideWritten, CleanIsSound
<1>3. Delayed(u) = <<>> /\ Closing(u) = <<Indent(Pop(u)), Close>>
  BY <1>1, InsideWritten DEF Settled, Inside
<1>4. InsideWhole(u, t) = (t \o c) \o e
  <2>1. Closing(u) = c /\ Ending(Len(u) - 1) = e /\ <<Indent(Pop(u)), Close>> = c
    BY <1>3
  <2> HIDE DEF c, e, u
  <2>2. <<>> \o t = t /\ <<>> \o c = c
    BY <1>2, JoinEmpty
  <2> HIDE DEF t
  <2>3. CASE t = <<>>
    BY <1>3, <2>1, <2>2, <2>3 DEF InsideWhole
  <2>4. CASE t # <<>>
    <3>1. InsideWhole(u, t) = (<<>> \o t \o c) \o e
      BY <1>3, <2>1, <2>4 DEF InsideWhole, u
    <3> QED
      BY <2>2, <3>1
  <2> QED
    BY <2>3, <2>4
<1>5. r.text # <<>> => InsideWhole(s, r.text) = (p \o r.text \o c) \o e
  BY DEF InsideWhole
<1>6. CASE ~rest.ok
  <2>1. m <= Len(ev)
    BY <1>6 DEF InsideRuns, Fate
  <2>2. ~r.ok /\ ~r.done
    BY <1>6, ReadingsEnd
  <2> QED
    BY <2>1, <2>2 DEF InsideRuns, Fate
<1>7. CASE rest.done
  <2>1. r.ok /\ r.done /\ r.next = rest.next /\ r.text = line \o t /\ r.text # <<>>
    BY <1>7
  <2>2. rest.next \in 1..m /\ st[rest.next] = Done(Pop(u)) /\ tx[rest.next] = tx[j] \o InsideWhole(u, t)
    BY <1>7 DEF InsideRuns, Fate
  <2>3. tx[rest.next] = tx[i] \o InsideWhole(s, r.text)
    <3> DEFINE a == tx[i]
    <3>1. a \in Writing /\ p \in Writing /\ line \in Writing /\ t \in Writing /\ c \in Writing /\ e \in Writing
      BY <1>1, <1>2 DEF Writing
    <3> HIDE DEF a, p, t, c, e
    <3>2. (a \o (p \o line)) \o ((t \o c) \o e) = a \o ((p \o (line \o t) \o c) \o e)
      <4>1. Then(Then(a, Then(p, line)), Then(Then(t, c), e)) = Then(a, Then(Then(Then(p, Then(line, t)), c), e))
        BY <3>1, LineThen
      <4> QED
        BY <4>1, Zenon DEF Then
    <3>3. tx[rest.next] = (a \o (p \o line)) \o ((t \o c) \o e)
      BY <1>4, <2>2 DEF a, p
    <3> QED
      BY <1>5, <2>1, <3>2, <3>3 DEF a
  <2> QED
    BY <2>1, <2>2, <2>3 DEF InsideRuns, Fate
<1>8. CASE rest.ok /\ ~rest.done
  <2>1. r.ok /\ ~r.done /\ r.text = line \o t /\ r.text # <<>>
    BY <1>8
  <2>2. m = Len(ev) + 1 /\ Top(st[m]) # "root-done"
    BY <1>8 DEF InsideRuns, Fate
  <2>3. PICK x \in Seq(Clean) : tx[m] = tx[j] \o (InsideBegun(ev, j, u, t) \o x)
    BY <1>8 DEF InsideRuns, Fate
  <2>4. InsideBegun(ev, j, u, t) = t
    <3>1. Top(u) # "big"
      BY DEF Settled
    <3>2. <<>> \o t = t
      BY JoinEmpty
    <3> QED
      BY <1>3, <3>1, <3>2, Zenon DEF InsideBegun
  <2>5. InsideBegun(ev, i, s, r.text) = p \o (line \o t)
    BY <2>1 DEF InsideBegun
  <2>6. tx[m] = tx[i] \o (InsideBegun(ev, i, s, r.text) \o x)
    <3> DEFINE a == tx[i]
    <3>1. a \in Writing /\ p \in Writing /\ line \in Writing /\ t \in Writing /\ x \in Writing /\ e \in Writing
      BY <1>1, <1>2, CleanIsSound DEF Writing
    <3> HIDE DEF a, p, t, e
    <3>2. (a \o (p \o line)) \o (t \o x) = a \o ((p \o (line \o t)) \o x)
      <4>1. Then(Then(a, Then(p, line)), Then(t, x)) = Then(a, Then(Then(p, Then(line, t)), x))
        BY <3>1, LineThen
      <4> QED
        BY <4>1, Zenon DEF Then
    <3>3. tx[m] = (a \o (p \o line)) \o (t \o x)
      BY <2>3, <2>4 DEF a, p
    <3> QED
      BY <2>5, <3>2, <3>3 DEF a
  <2> QED
    BY <2>1, <2>2, <2>6 DEF InsideRuns, Fate
<1> QED
  BY <1>6, <1>7, <1>8

\* What is written before a value ends no record.
LEMMA LeadClean ==
  ASSUME NEW s, Shape(s), Top(s) \in Expecting
  PROVE  Lead(s) \in Seq(Clean)
<1>1. Indent(s) \in Clean /\ FieldToken(Big) \in Clean /\ Open \in Clean /\ Assign \in Clean
  BY CleanTokens, RenderAssumption DEF Shape
<1> QED
  BY <1>1 DEF Lead, Expecting

\* The end of a value is sound.
LEMMA EndingSound == ASSUME NEW d PROVE Ending(d) \in Seq(Sound)
<1>1. Newline \in Sound /\ Comma \in Sound /\ RecordEnd \in Sound
  BY SoundTokens
<1> DEFINE x == IF d = 0 THEN <<Newline>> ELSE <<Comma>>
           y == IF d <= 1 THEN <<RecordEnd>> ELSE <<>>
<1>2. x \in Seq(Sound) /\ y \in Seq(Sound)
  BY <1>1
<1>3. Ending(d) = x \o y
  BY DEF Ending
<1> HIDE DEF x, y
<1> QED
  BY <1>2, <1>3, Join

\* The root's opening and the brackets around what is inside.
LEMMA Brackets ==
  ASSUME NEW d \in Nat, NEW t \in Seq(Sound)
  PROVE  /\ RootOpens(d) \in Seq(Sound)
         /\ <<Open>> \in Seq(Clean) /\ <<Close>> \in Seq(Clean) /\ Indentation(d) \in Seq(Clean)
         /\ <<Open>> \o t \o <<[token |-> "indent", depth |-> d], Close>>
               = <<Open>> \o t \o Indentation(d) \o <<Close>>
         /\ d = 0 => RootOpens(d) = <<RecordEnd>>
         /\ d > 0 => RootOpens(d) = <<>>
         /\ <<RecordEnd>> \in Seq(Sound)
         /\ <<RecordEnd, Open>> \o t = <<RecordEnd>> \o (<<Open>> \o t)
<1>1. Open \in Clean /\ Close \in Clean /\ [token |-> "indent", depth |-> d] \in Clean /\ RecordEnd \in Sound
  BY CleanTokens, SoundTokens
<1>2. <<Open>> \in Seq(Clean) /\ <<Close>> \in Seq(Clean) /\ Indentation(d) \in Seq(Clean) /\ <<RecordEnd>> \in Seq(Sound)
  BY <1>1 DEF Indentation
<1>3. (d = 0 => RootOpens(d) = <<RecordEnd>>) /\ (d > 0 => RootOpens(d) = <<>>)
  BY DEF RootOpens
<1>4. RootOpens(d) \in Seq(Sound)
  BY <1>3, Alphabets
<1> DEFINE k == [token |-> "indent", depth |-> d]
<1>5. Indentation(d) = <<k>>
  BY DEF Indentation
<1>6. k \in Sound /\ Close \in Sound /\ Open \in Sound
  BY <1>1 DEF Clean
<1> HIDE DEF k
<1>7. <<k, Close>> = <<k>> \o <<Close>> /\ <<RecordEnd, Open>> = <<RecordEnd>> \o <<Open>>
  OBVIOUS
<1> DEFINE a == <<Open>>
           b == <<k>>
           c == <<Close>>
           f == <<RecordEnd>>
<1>8. a \in Writing /\ b \in Writing /\ c \in Writing /\ t \in Writing /\ f \in Writing
  BY <1>1, <1>6 DEF Writing
<1> HIDE DEF a, b, c, f
<1>9. Then(Then(a, t), Then(b, c)) = Then(Then(Then(a, t), b), c) /\ Then(Then(f, a), t) = Then(f, Then(a, t))
  BY <1>8, ThenIs
<1>10. a \o t \o (b \o c) = a \o t \o b \o c /\ (f \o a) \o t = f \o (a \o t)
  BY <1>9, Zenon DEF Then
<1>11. <<Open>> \o t \o <<k, Close>> = <<Open>> \o t \o Indentation(d) \o <<Close>>
  BY <1>5, <1>7, <1>10 DEF a, b, c
<1>12. <<RecordEnd, Open>> \o t = <<RecordEnd>> \o (<<Open>> \o t)
  BY <1>7, <1>10 DEF a, f
<1> QED
  BY <1>1, <1>2, <1>3, <1>4, <1>11, <1>12 DEF k

\* A container is whole: its opening, what closes it, and the end of its line.
Closes(a, l, r, b, e) == (a \o (l \o r)) \o (b \o e) = a \o (l \o (r \o b) \o e)

\* The parts of a whole container, regrouped.
LEMMA ClosesValue ==
  ASSUME NEW a \in Seq(Sound), NEW l \in Seq(Sound), NEW r \in Seq(Sound), NEW b \in Seq(Sound), NEW e \in Seq(Sound)
  PROVE  Closes(a, l, r, b, e)
<1>1. a \in Writing /\ l \in Writing /\ r \in Writing /\ b \in Writing /\ e \in Writing
  BY DEF Writing
<1>2. Then(Then(a, Then(l, r)), Then(b, e)) = Then(a, Then(Then(l, Then(r, b)), e))
  BY <1>1, StartThen
<1> QED
  BY <1>2, Zenon DEF Then, Closes

\* The events ran out inside a container: its opening and what was shown of
\* it, and no end of a record after that.
StillOpen(s, a, y, x, shown) ==
    \E z \in Seq(Clean) : (a \o (Lead(s) \o RootOpens(Len(s)))) \o (y \o x) = a \o (shown \o z)

\* A container begun has ended no record but that of the root's opening.
LEMMA BegunValue ==
  ASSUME NEW s, Shape(s), Top(s) \in Expecting, NEW a \in Seq(Sound), NEW y \in Seq(Sound), NEW x \in Seq(Clean),
         NEW shown, Len(s) = 0 => shown = <<RecordEnd>> \o y,
         Len(s) > 0 => shown = <<>> /\ y \in Seq(Clean)
  PROVE  StillOpen(s, a, y, x, shown)
<1> DEFINE l == Lead(s)
           r == RootOpens(Len(s))
<1>1. Len(s) \in Nat /\ l \in Seq(Clean) /\ (Len(s) = 0 \/ Len(s) > 0)
  <2>1. Len(s) \in Nat
    BY DEF Shape
  <2>2. l \in Seq(Clean)
    BY LeadClean, Zenon
  <2> QED
    BY <2>1, <2>2
<1>2. CASE Len(s) = 0
  <2>1. s = <<>>
    BY <1>2 DEF Shape
  <2>2. l = <<>> /\ r = <<RecordEnd>>
    BY <1>2, <2>1 DEF Lead, Top, RootOpens
  <2>3. l \o r = <<RecordEnd>>
    BY <2>2
  <2> DEFINE f == <<RecordEnd>>
  <2>4. f \in Seq(Sound)
    BY SoundTokens
  <2> HIDE DEF f
  <2>5. a \in Writing /\ f \in Writing /\ y \in Writing /\ x \in Writing
    BY <2>4, CleanIsSound DEF Writing
  <2>6. Then(Then(a, f), Then(y, x)) = Then(a, Then(Then(f, y), x))
    BY <2>5, ThenIs
  <2>7. (a \o f) \o (y \o x) = a \o ((f \o y) \o x)
    BY <2>6, Zenon DEF Then
  <2> QED
    BY <1>2, <2>3, <2>7 DEF f, StillOpen
<1>3. CASE Len(s) > 0
  <2>1. r = <<>> /\ shown = <<>> /\ y \in Seq(Clean)
    BY <1>1, <1>3, Brackets
  <2>2. l \o r = l
    BY <1>1, <2>1, JoinEmpty
  <2> HIDE DEF l, r
  <2> DEFINE yx == y \o x
             z == l \o yx
  <2>3. yx \in Seq(Clean)
    BY <2>1
  <2> HIDE DEF yx
  <2>4. z \in Seq(Clean)
    BY <1>1, <2>3
  <2>5. <<>> \o z = z
    BY <2>4, JoinEmpty
  <2>6. (a \o l) \o yx = a \o z
    <3>1. a \in Writing /\ l \in Writing /\ yx \in Writing
      BY <1>1, <2>3, CleanIsSound DEF Writing
    <3> HIDE DEF z
    <3>2. Then(Then(a, l), yx) = Then(a, Then(l, yx))
      BY <3>1, ThenIs
    <3> QED
      BY <3>2, Zenon DEF Then, z
  <2> HIDE DEF z
  <2> QED
    BY <2>1, <2>2, <2>4, <2>5, <2>6 DEF yx, l, r, StillOpen
<1> HIDE DEF l, r
<1> QED
  BY <1>1, <1>2, <1>3 DEF l, r

\* A position where a container begins, and the next.
Began(ev, st, tx, m, i) ==
    /\ i + 1 \in 1..m /\ Shape(st[i + 1]) /\ st[i + 1] # <<>>
    /\ Top(st[i + 1]) = (IF ev[i].event = "object-start" THEN "object-open" ELSE "array-open")
    /\ Pop(st[i + 1]) = Opened(st[i]) /\ Len(st[i + 1]) = Len(st[i]) + 1
    /\ Len(Opened(st[i])) = Len(st[i]) /\ Len(st[i]) \in Nat
    /\ tx[i + 1] = tx[i] \o (Lead(st[i]) \o RootOpens(Len(st[i])))

\* A container that is opened is there at the next position.
LEMMA Begins ==
  ASSUME NEW ev, NEW st, NEW tx, NEW m, IsTrace(ev, st, tx, m), NEW i \in 1..m, i <= Len(ev),
         Top(st[i]) \in Expecting, ev[i].event \in {"object-start", "array-start"}
  PROVE  Began(ev, st, tx, m, i)
<1> DEFINE s == st[i]
           k == HeldMark(ev[i])
<1>0. Shape(s)
  BY TraceStep
<1>1. May(s, ev[i])
  BY DEF May
<1>2. i + 1 \in 1..m /\ st[i + 1] = StackAfter(s, ev[i]) /\ tx[i + 1] = tx[i] \o Writes(s, ev[i])
  <2>1. Went(ev, st, tx, m, i)
    BY <1>1, TraceGoes
  <2> QED
    BY <2>1 DEF Went
<1>3. StackAfter(s, ev[i]) = Append(Opened(s), k) /\ Writes(s, ev[i]) = Lead(s) \o RootOpens(Len(s))
  BY DEF StackAfter, Writes
<1>4. /\ Opened(s) \in Seq(Markers) /\ Len(Opened(s)) = Len(s) /\ Len(s) \in Nat
      /\ \A j \in 1..Len(Opened(s)) : Opened(s)[j].mark \in Waiting
  BY <1>0, OpenedIs
<1>5. k \in Markers /\ k.mark = (IF ev[i].event = "object-start" THEN "object-open" ELSE "array-open") /\ k.mark # "big"
  BY MarkersAre DEF HeldMark, Marks
<1> HIDE DEF k, s
<1>6. /\ Shape(Append(Opened(s), k)) /\ Append(Opened(s), k) # <<>>
      /\ Len(Append(Opened(s), k)) = Len(Opened(s)) + 1
      /\ Top(Append(Opened(s), k)) = k.mark /\ Pop(Append(Opened(s), k)) = Opened(s)
  BY <1>4, <1>5, PushIs
<1> QED
  BY <1>2, <1>3, <1>4, <1>5, <1>6 DEF s, Began

\* A container that is no big integer.
LEMMA StartRuns ==
  ASSUME NEW ev, NEW st, NEW tx, NEW m, IsTrace(ev, st, tx, m), NEW i \in 1..m, i <= Len(ev),
         Top(st[i]) \in Expecting, ev[i].event \in {"object-start", "array-start"}, ~BigAt(ev, i),
         NEW inside, inside.ok \in BOOLEAN, inside.done \in BOOLEAN, inside.done => inside.ok,
         inside.text \in Seq(Alphabet(Len(st[i]) + 1)),
         InsideRuns(ev, st, tx, m, i + 1, st[i + 1], inside),
         NEW r, r = Container(ev, i, inside, Len(st[i]))
  PROVE  ValueFate(ev, st, tx, m, i, r)
<1> DEFINE s == st[i]
           d == Len(s)
           u == st[i + 1]
           t == inside.text
           e == Ending(d)
           c == <<[token |-> "indent", depth |-> d], Close>>
           b == IF t = <<>> THEN <<EmptyContainer>> ELSE <<Open>> \o t \o c
<1>0. /\ i + 1 \in 1..m /\ Shape(u) /\ Top(u) \in {"object-open", "array-open"} /\ Pop(u) = Opened(s)
      /\ Len(u) = d + 1 /\ Len(Opened(s)) = d /\ d \in Nat /\ tx[i + 1] = tx[i] \o (Lead(s) \o RootOpens(d))
  <2>1. Began(ev, st, tx, m, i)
    BY Begins
  <2> HIDE DEF e, c, b, t
  <2> QED
    BY <2>1 DEF Began
<1>1. Shape(s) /\ tx[i] \in Seq(Sound)
  BY TraceStep
<1>2. Delayed(u) = <<Open>> /\ Closing(u) = <<EmptyContainer>> /\ <<EmptyContainer>> \in Seq(Clean)
  BY <1>0, InsideWritten DEF Inside
<1>3. <<Indent(Pop(u)), Close>> = c
  BY <1>0 DEF Indent
<1>4. Len(u) - 1 = d
  BY <1>0
<1>5. t \in Seq(Sound) /\ (d > 0 => t \in Seq(Clean))
  <2>1. d > 0 => d >= 1
    BY <1>0
  <2> QED
    BY <1>0, <2>1, Alphabets
<1>6. InsideWhole(u, t) = b \o e
  <2> HIDE DEF t, u, c, e
  <2> QED
    BY <1>2, <1>3, <1>4, Zenon DEF InsideWhole, e
<1>7. b \in Seq(Sound)
  <2>1. <<Open>> \in Seq(Sound) /\ <<EmptyContainer>> \in Seq(Sound)
    BY <1>0, <1>2, <1>5, Brackets, CleanIsSound
  <2>2. c \in Seq(Sound)
    <3>1. Close \in Sound /\ [token |-> "indent", depth |-> d] \in Sound
      BY <1>0, CleanTokens DEF Clean
    <3> QED
      BY <3>1
  <2>3. t \in Seq(Sound)
    BY <1>5
  <2> HIDE DEF t, c
  <2>4. <<Open>> \o t \o c \in Seq(Sound)
    BY <2>1, <2>2, <2>3, Join3
  <2> QED
    BY <2>1, <2>4
<1>8. inside.done => r = Whole(inside.next, RootOpens(d) \o b)
  <2>1. ~BigInteger(ev, i, inside.next)
    BY DEF BigInteger
  <2>2. <<Open>> \o t \o Indentation(d) \o <<Close>> = <<Open>> \o t \o c
    BY <1>0, <1>5, Brackets
  <2> HIDE DEF c
  <2> QED
    BY <2>1, <2>2 DEF Container
<1>9. ~inside.done => r = inside
  BY DEF Container
<1> HIDE DEF b, c, e, t, u, s, d
<1>10. CASE ~inside.ok
  <2>1. m <= Len(ev)
    BY <1>10 DEF InsideRuns, Fate, u
  <2> QED
    BY <1>9, <1>10, <2>1 DEF ValueFate, Fate
<1>11. CASE inside.done
  <2>1. /\ inside.next \in 1..m /\ st[inside.next] = Done(Pop(u))
        /\ tx[inside.next] = tx[i + 1] \o (b \o e)
    BY <1>6, <1>11 DEF InsideRuns, Fate, u, t
  <2>2. r.ok /\ r.done /\ r.next = inside.next /\ r.text = RootOpens(d) \o b
    <3> DEFINE w == RootOpens(d) \o b
    <3>1. r = Whole(inside.next, w)
      BY <1>8, <1>11
    <3> HIDE DEF w
    <3>2. r.ok /\ r.done /\ r.next = inside.next /\ r.text = w
      BY <3>1, ReadingsEnd
    <3> QED
      BY <3>2 DEF w
  <2>3. tx[inside.next] = tx[i] \o (Lead(s) \o r.text \o e)
    <3>1. Lead(s) \in Seq(Sound) /\ RootOpens(d) \in Seq(Sound) /\ e \in Seq(Sound)
      BY <1>0, <1>1, <1>5, LeadClean, Brackets, EndingSound, CleanIsSound DEF e, s, d
    <3> DEFINE a == tx[i]
               l == Lead(s)
               q == RootOpens(d)
    <3>2. a \in Seq(Sound) /\ l \in Seq(Sound) /\ q \in Seq(Sound) /\ e \in Seq(Sound) /\ b \in Seq(Sound)
      BY <1>1, <1>7, <3>1
    <3> HIDE DEF a, l, q
    <3>3. (a \o (l \o q)) \o (b \o e) = a \o (l \o (q \o b) \o e)
      <4>1. Closes(a, l, q, b, e)
        BY <3>2, ClosesValue
      <4> QED
        BY <4>1 DEF Closes
    <3> QED
      BY <1>0, <2>1, <2>2, <3>3, Zenon DEF a, l, q, u, s, d
  <2> QED
    BY <1>0, <1>11, <2>1, <2>2, <2>3 DEF ValueFate, Fate, s, d, e
<1>12. CASE inside.ok /\ ~inside.done
  <2>1. r.ok /\ ~r.done /\ r.text = t
    BY <1>9, <1>12 DEF t
  <2>2. m = Len(ev) + 1 /\ Top(st[m]) # "root-done"
    BY <1>12 DEF InsideRuns, Fate
  <2> DEFINE y == InsideBegun(ev, i + 1, u, t)
             shown == Shown(ev, i, d, t)
  <2>3. PICK x \in Seq(Clean) : tx[m] = tx[i + 1] \o (y \o x)
    BY <1>12 DEF InsideRuns, Fate, u, t
  <2>4. y = IF t # <<>> THEN <<Open>> \o t ELSE <<>>
    BY <1>0, <1>2 DEF InsideBegun
  <2>5. <<Open>> \in Seq(Clean) /\ <<RecordEnd, Open>> \o t = <<RecordEnd>> \o (<<Open>> \o t)
        /\ <<RecordEnd>> \in Seq(Sound)
    BY <1>0, <1>5, Brackets
  <2>6. y \in Seq(Sound) /\ (d > 0 => y \in Seq(Clean))
    <3> DEFINE o == <<Open>>
    <3>1. o \in Seq(Clean) /\ o \in Seq(Sound)
      BY <2>5, CleanIsSound
    <3> HIDE DEF o, y
    <3>2. o \o t \in Seq(Sound) /\ (d > 0 => o \o t \in Seq(Clean))
      BY <1>5, <3>1, Join
    <3>3. <<>> \in Seq(Sound) /\ <<>> \in Seq(Clean)
      OBVIOUS
    <3> QED
      BY <2>4, <3>2, <3>3 DEF o
  <2>7. d > 0 => shown = <<>>
    BY DEF Shown
  <2>8. d = 0 => shown = <<RecordEnd>> \o y
    <3>0. Len(ev) \in Nat
      BY TraceStep
    <3>1. i # Len(ev) + 1
      BY <3>0
    <3>2. <<RecordEnd>> \o <<>> = <<RecordEnd>>
      BY <2>5, JoinEmpty
    <3> HIDE DEF y
    <3>3. d = 0 => shown = IF t = <<>> THEN <<RecordEnd>> ELSE <<RecordEnd, Open>> \o t
      BY <3>1 DEF Shown
    <3> QED
      BY <2>4, <2>5, <3>2, <3>3
  <2> HIDE DEF y, shown
  <2>9. StillOpen(s, tx[i], y, x, shown)
    <3>1. /\ Len(s) = 0 => shown = <<RecordEnd>> \o y
          /\ Len(s) > 0 => shown = <<>> /\ y \in Seq(Clean)
      BY <2>6, <2>7, <2>8 DEF d
    <3>2. Top(s) \in Expecting
      BY DEF s
    <3> QED
      BY <1>1, <2>6, <3>1, <3>2, BegunValue
  <2>10. \E z \in Seq(Clean) : tx[m] = tx[i] \o (shown \o z)
    BY <1>0, <2>3, <2>9 DEF d, StillOpen
  <2> QED
    BY <2>1, <2>2, <2>10 DEF ValueFate, Fate, shown, s, d
<1> QED
  BY <1>10, <1>11, <1>12

\* What is inside an object is nothing exactly when its end is next.
LEMMA NothingInside ==
  ASSUME NEW ev \in Seq(Events), NEW j \in 1..(Len(ev) + 1), NEW d \in Nat, MembersOf(ev, j, d).done
  PROVE  MembersOf(ev, j, d).text = <<>> <=> MembersOf(ev, j, d).next = j + 1
<1> DEFINE M == MembersOf(ev, j, d)
           n == Len(ev)
<1>0. n \in Nat /\ j \in Nat
  OBVIOUS
<1>1. j # n + 1
  <2>1. CASE j = n + 1
    <3>1. M = Begun(<<>>)
      BY <2>1, MembersRule
    <3> QED
      BY <3>1, ReadingsEnd
  <2> QED
    BY <2>1
<1>2. j <= n /\ ev[j] \in Events /\ j + 1 \in 1..(n + 1)
  BY <1>0, <1>1, MembersRule
<1>3. CASE ev[j].event = "object-end"
  <2>1. M = Whole(j + 1, <<>>)
    BY <1>2, <1>3, MembersRule
  <2> QED
    BY <2>1, ReadingsEnd
<1>4. CASE ev[j].event = "key"
  <2> DEFINE V == ValueOf(ev, j + 1, d)
             rest == MembersOf(ev, V.next, d)
             name == <<FieldToken(ev[j].name), Assign>>
  <2>1. M = Lines(name, V, rest, d)
    BY <1>2, <1>4, MembersRule
  <2>2. V.done /\ rest.ok
    <3> HIDE DEF V, rest, name
    <3>1. CASE ~V.done
      <4>1. M = Begun(<<>>) \/ M = NoTree
        BY <2>1, <3>1 DEF Lines
      <4> QED
        BY <4>1, ReadingsEnd
    <3>2. CASE V.done /\ ~rest.ok
      <4>1. M = NoTree
        BY <2>1, <3>2 DEF Lines
      <4> QED
        BY <4>1, ReadingsEnd
    <3> QED
      BY <3>1, <3>2
  <2>3. EndsPast(V, j + 1, n) /\ V.text \in Seq(Alphabet(d + 1))
    BY <1>2, ReadingRules, TextsSound DEF Texts
  <2>4. V.next \in (j + 2)..(n + 1) /\ V.next \in 1..(n + 1)
    BY <1>0, <2>2, <2>3 DEF EndsPast
  <2>5. EndsPast(rest, V.next, n) /\ IsReading(rest) /\ rest.text \in Seq(Alphabet(d))
    BY <2>4, ReadingRules, TextsSound DEF Texts
  <2>6. name \in Seq(Clean)
    <3>1. ev[j].name \in Names
      BY <1>2, <1>4, EventIs
    <3>2. FieldToken(ev[j].name) \in Clean /\ Assign \in Clean
      BY <3>1, CleanTokens
    <3> QED
      BY <3>2
  <2> HIDE DEF V, rest, name, M
  <2>7. V.done \in BOOLEAN /\ V.ok \in BOOLEAN /\ rest.ok \in BOOLEAN
    BY <2>3, <2>5 DEF EndsPast
  <2>8. M.done = rest.done /\ (rest.done => M.next = rest.next) /\ M.text # <<>>
    <3>1. LinesRead(name, V, rest, d)
      BY <2>3, <2>5, <2>6, <2>7, LinesText
    <3> QED
      BY <2>1, <2>2, <3>1 DEF LinesRead
  <2>9. rest.done /\ M.next = rest.next
    BY <2>5, <2>8 DEF EndsPast, M
  <2>10. rest.next \in (V.next + 1)..(n + 1)
    BY <2>5, <2>9 DEF EndsPast
  <2>11. M.next # j + 1
    BY <1>0, <2>4, <2>9, <2>10
  <2> QED
    BY <2>8, <2>11 DEF M
<1>5. CASE ev[j].event \notin {"object-end", "key"}
  <2>1. M = NoTree
    BY <1>2, <1>5, MembersRule
  <2> QED
    BY <2>1, ReadingsEnd
<1> QED
  BY <1>3, <1>4, <1>5

\* The digits of a big integer are read as a member, and held as one that may
\* yet be written.
BigLine(v, d) == Line(<<FieldToken(Big), Assign>>, Whole(0, <<String(v)>>), d)

\* A token more, for short sequences.
LEMMA OneMore ==
  ASSUME NEW S, NEW u \in Seq(S), NEW e \in S
  PROVE  /\ Len(u) = 3 => u \o <<e>> = <<u[1], u[2], u[3], e>>
         /\ Len(u) = 4 => u \o <<e>> = <<u[1], u[2], u[3], u[4], e>>
<1> DEFINE w == u \o <<e>>
<1>1. Len(w) = Len(u) + 1 /\ w \in Seq(S) /\ (\A i \in 1..Len(u) : w[i] = u[i]) /\ w[Len(u) + 1] = e
  OBVIOUS
<1> HIDE DEF w
<1>2. Len(u) = 3 => w = <<u[1], u[2], u[3], e>>
  BY <1>1
<1>3. Len(u) = 4 => w = <<u[1], u[2], u[3], u[4], e>>
  BY <1>1
<1> QED
  BY <1>2, <1>3 DEF w

\* The parts of a line, spelled out.
LEMMA Spelt ==
  ASSUME NEW S, NEW a \in S, NEW b \in S, NEW c \in S, NEW d \in S, NEW e \in S
  PROVE  <<a>> \o <<b, c>> \o <<d>> \o <<e>> = <<a, b, c, d, e>>
<1>1. <<a, b, c>> = <<a>> \o <<b, c>>
  <2>1. \A x, y, z : <<x, y, z>> = <<x>> \o <<y, z>>
    OBVIOUS
  <2> QED
    BY <2>1, Zenon
<1> DEFINE u == <<a, b, c>>
           v == <<a, b, c, d>>
<1>2. u \in Seq(S) /\ Len(u) = 3 /\ u[1] = a /\ u[2] = b /\ u[3] = c
  OBVIOUS
<1>3. v \in Seq(S) /\ Len(v) = 4 /\ v[1] = a /\ v[2] = b /\ v[3] = c /\ v[4] = d
  OBVIOUS
<1> HIDE DEF u, v
<1>4. u \o <<d>> = <<u[1], u[2], u[3], d>>
  BY <1>2, OneMore
<1>5. v \o <<e>> = <<v[1], v[2], v[3], v[4], e>>
  BY <1>3, OneMore
<1>6. u \o <<d>> = v
  BY <1>2, <1>4 DEF v
<1>7. v \o <<e>> = <<a, b, c, d, e>>
  BY <1>3, <1>5
<1> QED
  BY <1>1, <1>6, <1>7, Zenon DEF u

\* Held digits are written as the line of their field, or as an integer.
LEMMA BigLineIs ==
  ASSUME NEW v \in Values, BigDigits(v), NEW d \in Nat, d >= 1,
         NEW s, Shape(s), Top(s) = "big", Len(s) = d, s[Len(s)].digits = v
  PROVE  /\ Delayed(s) = <<Open>> \o BigLine(v, d) /\ BigLine(v, d) \in Seq(Alphabet(d))
         /\ BigLine(v, d) # <<>>
         /\ Closing(s) = <<Integer(v)>>
         /\ ScalarToken(v) = String(v)
         /\ \A j : BigLine(v, d) = Line(<<FieldToken(Big), Assign>>, Whole(j, <<ScalarToken(v)>>), d)
<1>1. ScalarToken(v) = String(v)
  BY DEF BigDigits, ScalarToken
<1>2. Closing(s) = <<Integer(v)>>
  BY DEF Closing
<1>3. \A j : BigLine(v, d) = Line(<<FieldToken(Big), Assign>>, Whole(j, <<ScalarToken(v)>>), d)
  BY <1>1 DEF BigLine, Line, Whole
<1> DEFINE i == [token |-> "indent", depth |-> d]
           l == <<i>> \o <<FieldToken(Big), Assign>> \o <<String(v)>> \o <<Comma>>
<1>4. BigLine(v, d) = l \o LineEnds(d)
  BY DEF BigLine, Line, Whole, Indentation
<1>5. Delayed(s) = <<Open, i, FieldToken(Big), Assign, String(v), Comma>> \o LineEnds(d)
  BY DEF Delayed, Indent
<1>6. i \in Clean /\ FieldToken(Big) \in Clean /\ Assign \in Clean /\ String(v) \in Clean /\ Comma \in Clean /\ Open \in Clean
  BY CleanTokens, RenderAssumption
<1>7. l = <<i, FieldToken(Big), Assign, String(v), Comma>>
  <2> HIDE DEF i
  <2> QED
    BY <1>6, Spelt
<1>8. <<Open, i, FieldToken(Big), Assign, String(v), Comma>> = <<Open>> \o <<i, FieldToken(Big), Assign, String(v), Comma>>
  <2> HIDE DEF i
  <2> QED
    OBVIOUS
<1>9. l \in Seq(Clean) /\ <<Open>> \in Seq(Clean)
  <2> HIDE DEF l, i
  <2> QED
    BY <1>6, <1>7
<1>10. LineEnds(d) \in Seq(Alphabet(d)) /\ Seq(Clean) \subseteq Seq(Alphabet(d)) /\ Seq(Alphabet(d)) \subseteq Seq(Sound)
  BY Alphabets
<1>11. Len(l) = 5
  <2> HIDE DEF l, i
  <2> QED
    BY <1>7
<1> DEFINE o == <<Open>>
           z == LineEnds(d)
<1> HIDE DEF l, i, z
<1>12. o \in Writing /\ l \in Writing /\ z \in Writing
  BY <1>9, <1>10 DEF Writing, z
<1> HIDE DEF o
<1>13. Then(Then(o, l), z) = Then(o, Then(l, z))
  BY <1>12, ThenIs
<1>14. (o \o l) \o z = o \o (l \o z)
  BY <1>13, Zenon DEF Then
<1>15. Delayed(s) = <<Open>> \o BigLine(v, d)
  BY <1>4, <1>5, <1>7, <1>8, <1>14 DEF o, z
<1>16. BigLine(v, d) \in Seq(Alphabet(d)) /\ BigLine(v, d) # <<>>
  <2>1. l \in Seq(Alphabet(d)) /\ z \in Seq(Alphabet(d))
    BY <1>9, <1>10 DEF z
  <2>2. l \o z \in Seq(Alphabet(d)) /\ Len(l \o z) = 5 + Len(z) /\ Len(z) \in Nat
    BY <1>11, <2>1, Join
  <2>3. BigLine(v, d) = l \o z
    BY <1>4 DEF z
  <2> HIDE DEF l, z
  <2>4. Len(BigLine(v, d)) # 0
    BY <2>2, <2>3
  <2> QED
    BY <2>2, <2>3, <2>4
<1> QED
  BY <1>1, <1>2, <1>3, <1>15, <1>16

\* The digits of a big integer are held, and nothing is written of them.
DigitsAre(ev, st, tx, m, i) ==
    /\ i + 3 \in 1..m /\ Shape(st[i + 3]) /\ Top(st[i + 3]) = "big"
    /\ Len(st[i + 3]) = Len(st[i]) + 1 /\ Len(st[i]) \in Nat
    /\ st[i + 3][Len(st[i + 3])].digits = ev[i + 2].value
    /\ Pop(st[i + 3]) = Opened(st[i]) /\ Len(Opened(st[i])) = Len(st[i])
    /\ tx[i + 3] = tx[i] \o (Lead(st[i]) \o RootOpens(Len(st[i])))

\* The three events of a big integer are taken, its digits held.
LEMMA DigitsTaken ==
  ASSUME NEW ev, NEW st, NEW tx, NEW m, IsTrace(ev, st, tx, m), NEW i \in 1..m, i <= Len(ev),
         Top(st[i]) \in Expecting, BigAt(ev, i)
  PROVE  DigitsAre(ev, st, tx, m, i) /\ ev[i + 2] \in Events
<1>0. /\ i + 2 <= Len(ev) /\ ev[i] = Event("object-start") /\ ev[i + 1] = Key(Big)
      /\ ev[i + 2].event = "scalar" /\ BigDigits(ev[i + 2].value)
  BY DEF BigAt
<1>1. Began(ev, st, tx, m, i)
  <2>1. ev[i].event = "object-start"
    BY <1>0 DEF Event
  <2> QED
    BY <2>1, Begins
<1> DEFINE u == st[i + 1]
           v == ev[i + 2].value
<1>2. /\ i + 1 \in 1..m /\ Shape(u) /\ u # <<>> /\ Top(u) = "object-open"
      /\ Pop(u) = Opened(st[i]) /\ Len(u) = Len(st[i]) + 1
  BY <1>0, <1>1 DEF Began, Event
<1>3. Len(ev) \in Nat /\ i \in Nat /\ i + 1 <= Len(ev)
  <2>1. Len(ev) \in Nat
    BY TraceStep
  <2> QED
    BY <1>0, <2>1
<1>4. Went(ev, st, tx, m, i + 1)
  <2>1. May(st[i + 1], ev[i + 1])
    BY <1>0, <1>2 DEF May, Key
  <2> QED
    BY <1>2, <1>3, <2>1, TraceGoes
<1> DEFINE w == st[i + 2]
<1>5. i + 2 \in 1..m /\ w = StackAfter(u, ev[i + 1]) /\ tx[i + 2] = tx[i + 1] \o Writes(u, ev[i + 1])
  <2>1. (i + 1) + 1 = i + 2
    BY <1>3
  <2> QED
    BY <1>4, <2>1 DEF Went
<1>6. w = Mark(Marker("big-key"), u) /\ Writes(u, ev[i + 1]) = <<>>
  BY <1>0, <1>2, <1>5 DEF StackAfter, Writes, Key
<1>7. Shape(w) /\ w # <<>> /\ Len(w) = Len(u) /\ Top(w) = "big-key" /\ Pop(w) = Pop(u)
  <2>1. Marker("big-key") \in Markers /\ Marker("big-key").mark = "big-key"
    BY MarkersAre DEF Marks
  <2> HIDE DEF u, w
  <2> QED
    BY <1>2, <1>6, <2>1, MarkIs
<1>8. Went(ev, st, tx, m, i + 2)
  <2>1. May(st[i + 2], ev[i + 2])
    BY <1>0, <1>7 DEF May, Expecting
  <2> QED
    BY <1>0, <1>5, <2>1, TraceGoes
<1> DEFINE h == st[i + 3]
<1>9. i + 3 \in 1..m /\ h = StackAfter(w, ev[i + 2]) /\ tx[i + 3] = tx[i + 2] \o Writes(w, ev[i + 2])
  <2>1. (i + 2) + 1 = i + 3
    BY <1>3
  <2> QED
    BY <1>8, <2>1 DEF Went
<1>10. h = Mark(Held(v), w) /\ Writes(w, ev[i + 2]) = <<>>
  BY <1>0, <1>7, <1>9 DEF StackAfter, Writes, Holding
<1>11. ev[i + 2] \in Events /\ v \in Values
  <2>1. ev \in Seq(Events)
    BY TraceStep
  <2>2. ev[i + 2] \in Events
    BY <1>0, <1>3, <2>1
  <2> QED
    BY <1>0, <2>2, EventIs
<1>12. Shape(h) /\ Len(h) = Len(w) /\ Top(h) = "big" /\ Pop(h) = Pop(w) /\ h[Len(w)] = Held(v)
  <2>1. Held(v) \in Markers /\ Held(v).mark = "big" /\ Held(v).digits = v
    BY <1>11, MarkersAre
  <2> HIDE DEF h, v, w
  <2>2. BigDigits(Held(v).digits)
    BY <1>0, <2>1 DEF v
  <2> QED
    BY <1>7, <1>10, <2>1, <2>2, MarkIs
<1>13. tx[i + 2] = tx[i + 1] /\ tx[i + 3] = tx[i + 1]
  <2>1. tx[i + 1] \in Seq(Sound)
    BY <1>2, TraceStep
  <2> DEFINE y == tx[i + 1]
  <2> HIDE DEF y
  <2>2. y \o <<>> = y
    BY <2>1, JoinEmpty DEF y
  <2> QED
    BY <1>5, <1>6, <1>9, <1>10, <2>2 DEF y
<1>14. Held(v).digits = v
  BY DEF Held
<1> HIDE DEF u, v, w, h
<1>15. h[Len(h)].digits = ev[i + 2].value /\ Pop(h) = Opened(st[i]) /\ Len(h) = Len(st[i]) + 1
  BY <1>2, <1>7, <1>12, <1>14 DEF v
<1>16. tx[i + 3] = tx[i] \o (Lead(st[i]) \o RootOpens(Len(st[i]))) /\ Len(st[i]) \in Nat /\ Len(Opened(st[i])) = Len(st[i])
  BY <1>1, <1>13 DEF Began
<1> QED
  BY <1>9, <1>11, <1>12, <1>15, <1>16, Zenon DEF DigitsAre, h

\* An object that begins with digits: a big integer, or a struct after all.
LEMMA DigitsRun ==
  ASSUME NEW ev, NEW st, NEW tx, NEW m, IsTrace(ev, st, tx, m), NEW i \in 1..m, i <= Len(ev),
         Top(st[i]) \in Expecting, BigAt(ev, i), MembersRun(ev, st, tx, m, i + 3),
         NEW r, r = Container(ev, i, MembersOf(ev, i + 1, Len(st[i]) + 1), Len(st[i]))
  PROVE  ValueFate(ev, st, tx, m, i, r)
<1> DEFINE s == st[i]
           d == Len(s)
           h == st[i + 3]
           v == ev[i + 2].value
           inside == MembersOf(ev, i + 1, d + 1)
           rest == MembersOf(ev, i + 3, d + 1)
           t == rest.text
           e == Ending(d)
           c == <<[token |-> "indent", depth |-> d], Close>>
           g == BigLine(v, d + 1)
           p == Delayed(h)
           b == IF t = <<>> THEN <<Integer(v)>> ELSE p \o t \o c
<1>0. DigitsAre(ev, st, tx, m, i) /\ ev[i + 2] \in Events
  BY DigitsTaken
<1>1. /\ i + 3 \in 1..m /\ Shape(h) /\ Top(h) = "big" /\ Len(h) = d + 1 /\ d \in Nat /\ h[Len(h)].digits = v
      /\ Pop(h) = Opened(s) /\ Len(Opened(s)) = d /\ tx[i + 3] = tx[i] \o (Lead(s) \o RootOpens(d))
  <2> HIDE DEF t, e, c, g, b
  <2> QED
    BY <1>0 DEF DigitsAre
<1>2. /\ i + 2 <= Len(ev) /\ ev[i] = Event("object-start") /\ ev[i + 1] = Key(Big)
      /\ ev[i + 2].event = "scalar" /\ BigDigits(v) /\ v \in Values
  <2>1. ev[i + 2].event = "scalar" /\ i + 2 <= Len(ev) /\ ev[i] = Event("object-start") /\ ev[i + 1] = Key(Big)
        /\ BigDigits(ev[i + 2].value)
    BY DEF BigAt
  <2> QED
    BY <1>0, <2>1, EventIs
<1>3. Shape(s) /\ tx[i] \in Seq(Sound) /\ ev \in Seq(Events) /\ Len(ev) \in Nat /\ m \in 1..(Len(ev) + 1)
  BY TraceStep
<1>4. /\ i + 1 \in 1..(Len(ev) + 1) /\ i + 2 \in 1..(Len(ev) + 1) /\ i + 3 \in 1..(Len(ev) + 1)
      /\ i + 1 <= Len(ev) /\ d + 1 \in Nat /\ d + 1 >= 1 /\ (i + 1) + 1 = i + 2 /\ (i + 2) + 1 = i + 3
      /\ (i + 3) + 1 = i + 4
  <2>1. i + 2 <= Len(ev) /\ Len(ev) \in Nat /\ i \in Nat /\ i >= 1 /\ d \in Nat
    <3>1. i \in Nat /\ i >= 1
      BY <1>3
    <3> QED
      BY <1>1, <1>2, <1>3, <3>1
  <2> HIDE DEF d, s, h, v, inside, rest, t, e, c, g, p, b
  <2> QED
    BY <2>1
<1>5. InsideRuns(ev, st, tx, m, i + 3, h, rest)
  <2>1. Top(h) # "object-open"
    BY <1>1
  <2>2. InsideRuns(ev, st, tx, m, i + 3, st[i + 3], MembersOf(ev, i + 3, Len(st[i + 3])))
    BY <1>1, <2>1 DEF MembersRun
  <2> QED
    BY <1>1, <2>2
<1>6. /\ p = <<Open>> \o g /\ g \in Seq(Alphabet(d + 1)) /\ g # <<>> /\ Closing(h) = <<Integer(v)>>
      /\ ScalarToken(v) = String(v)
      /\ \A j : g = Line(<<FieldToken(Big), Assign>>, Whole(j, <<ScalarToken(v)>>), d + 1)
  <2> HIDE DEF h, v, d
  <2> QED
    BY <1>1, <1>2, <1>4, BigLineIs
<1>7. /\ rest.ok \in BOOLEAN /\ rest.done \in BOOLEAN /\ (rest.done => rest.ok) /\ IsReading(rest)
      /\ t \in Seq(Alphabet(d + 1))
      /\ rest.done => (t = <<>> <=> rest.next = i + 4)
  <2>1. EndsPast(rest, i + 3, Len(ev)) /\ IsReading(rest)
    BY <1>3, <1>4, ReadingRules
  <2>2. t \in Seq(Alphabet(d + 1))
    BY <1>3, <1>4, TextsSound DEF Texts
  <2>3. rest.done => (t = <<>> <=> rest.next = i + 4)
    BY <1>3, <1>4, NothingInside
  <2> HIDE DEF rest
  <2> QED
    BY <2>1, <2>2, <2>3 DEF EndsPast
<1>8. t \in Seq(Sound) /\ g \in Seq(Sound) /\ (d > 0 => t \in Seq(Clean) /\ g \in Seq(Clean))
  <2>1. d > 0 => d >= 1
    BY <1>1
  <2>2. Seq(Alphabet(d + 1)) \subseteq Seq(Sound) /\ (d > 0 => Alphabet(d + 1) = Clean)
    BY <1>1, <1>4, <2>1, Alphabets
  <2> DEFINE A == Alphabet(d + 1)
  <2>3. t \in Seq(A) /\ g \in Seq(A)
    BY <1>6, <1>7
  <2>4. Seq(A) \subseteq Seq(Sound) /\ (d > 0 => A = Clean)
    BY <2>2
  <2> HIDE DEF A, d, s, h, v, inside, rest, t, e, c, g, p, b
  <2> QED
    BY <2>3, <2>4
\* What the descent reads.
<1>9. /\ rest.ok => /\ inside.ok /\ inside.done = rest.done /\ (rest.done => inside.next = rest.next)
                    /\ inside.text = g \o t /\ inside.text # <<>>
      /\ ~rest.ok => inside = NoTree
  <2> DEFINE V == ValueOf(ev, i + 2, d + 1)
             name == <<FieldToken(Big), Assign>>
  <2>1. V = Whole(i + 3, <<ScalarToken(v)>>)
    BY <1>2, <1>3, <1>4, ValueRule
  <2>2. inside = Lines(name, V, MembersOf(ev, V.next, d + 1), d + 1)
    <3>1. ev[i + 1].event = "key" /\ ev[i + 1].name = Big
      BY <1>2 DEF Key
    <3>2. inside = Lines(<<FieldToken(ev[i + 1].name), Assign>>, ValueOf(ev, (i + 1) + 1, d + 1),
                         MembersOf(ev, ValueOf(ev, (i + 1) + 1, d + 1).next, d + 1), d + 1)
      BY <1>3, <1>4, <3>1, MembersRule
    <3> QED
      BY <1>4, <3>1, <3>2
  <2>3. V.done /\ V.ok /\ V.next = i + 3 /\ V.text = <<ScalarToken(v)>>
    BY <2>1, ReadingsEnd
  <2>4. V.text \in Seq(Alphabet(d + 2)) /\ name \in Seq(Clean)
    <3>1. ScalarToken(v) \in Clean /\ FieldToken(Big) \in Clean /\ Assign \in Clean
      BY <1>2, CleanTokens, RenderAssumption
    <3>2. <<ScalarToken(v)>> \in Seq(Clean) /\ name \in Seq(Clean)
      BY <3>1
    <3>3. d + 2 \in Nat
      BY <1>1
    <3>4. Seq(Clean) \subseteq Seq(Alphabet(d + 2))
      BY <3>3, Alphabets
    <3> QED
      BY <2>3, <3>2, <3>4
  <2>5. g = Line(name, V, d + 1)
    BY <1>6, <2>1
  <2>6. (d + 1) + 1 = d + 2
    BY <1>1
  <2> DEFINE f == d + 1
  <2>7. inside = Lines(name, V, rest, f)
    BY <2>2, <2>3
  <2>8. LinesRead(name, V, rest, f)
    <3>1. V.text \in Seq(Alphabet(f + 1)) /\ f \in Nat
      BY <1>4, <2>4, <2>6
    <3>2. rest.ok \in BOOLEAN /\ rest.text \in Seq(Alphabet(f)) /\ IsReading(rest)
      BY <1>7
    <3>3. V.done \in BOOLEAN /\ V.ok \in BOOLEAN
      BY <2>1, ReadingsEnd
    <3> HIDE DEF V, name, rest, inside, g, d, f, s, h, v, t, e, c, p, b
    <3> QED
      BY <2>4, <3>1, <3>2, <3>3, LinesText
  <2> HIDE DEF V, name, rest, inside, g, d
  <2>9. /\ rest.ok => /\ inside.ok /\ inside.done = rest.done /\ (rest.done => inside.next = rest.next)
                      /\ inside.text = Line(name, V, f) \o rest.text /\ inside.text # <<>>
        /\ ~rest.ok => inside = NoTree
    BY <2>3, <2>7, <2>8 DEF LinesRead
  <2> QED
    BY <2>5, <2>9
<1>10. rest.ok /\ ~rest.done => r.ok /\ ~r.done /\ r.text = g \o t
  <2>1. r = Container(ev, i, inside, d)
    OBVIOUS
  <2> HIDE DEF inside, rest, d, g
  <2> QED
    BY <1>9, <2>1 DEF Container
<1>11. ~rest.ok => ~r.ok /\ ~r.done
  <2>1. r = Container(ev, i, inside, d)
    OBVIOUS
  <2> HIDE DEF inside, rest, d, g
  <2> QED
    BY <1>9, <2>1, ReadingsEnd DEF Container
<1>12. <<Open>> \in Seq(Clean) /\ <<Integer(v)>> \in Seq(Clean) /\ c \in Seq(Clean)
  <2>1. Open \in Clean /\ Integer(v) \in Clean /\ Close \in Clean /\ [token |-> "indent", depth |-> d] \in Clean
    BY <1>1, <1>2, CleanTokens
  <2> QED
    BY <2>1
<1>13. p \in Seq(Sound) /\ (d > 0 => p \in Seq(Clean))
  <2> DEFINE o == <<Open>>
  <2>1. o \in Seq(Clean) /\ o \in Seq(Sound)
    BY <1>12, CleanIsSound
  <2>2. p = o \o g
    BY <1>6
  <2> HIDE DEF o, g, p
  <2> QED
    BY <1>8, <2>1, <2>2, Join
<1>14. rest.done => r = Whole(rest.next, RootOpens(d) \o b)
  <2>1. r = Container(ev, i, inside, d)
    OBVIOUS
  <2>2. rest.done => (BigInteger(ev, i, inside.next) <=> t = <<>>)
    <3> HIDE DEF d, s, h, v, inside, rest, t, e, c, g, p, b
    <3>1. rest.done => inside.next = rest.next
      BY <1>7, <1>9, Zenon
    <3>2. rest.done => (t = <<>> <=> rest.next = i + 4)
      BY <1>7
    <3> QED
      BY <3>1, <3>2 DEF BigInteger
  <2>3. t # <<>> => <<Open>> \o (g \o t) \o Indentation(d) \o <<Close>> = p \o t \o c
    <3> DEFINE gt == g \o t
               o == <<Open>>
    <3>1. gt \in Seq(Sound)
      <4> HIDE DEF t, g
      <4> QED
        BY <1>8, Join
    <3>2. <<Open>> \o gt \o c = <<Open>> \o gt \o Indentation(d) \o <<Close>>
      <4> HIDE DEF gt
      <4> QED
        BY <1>1, <3>1, Brackets
    <3>3. o \o (g \o t) = (o \o g) \o t
      <4>1. o \in Writing /\ g \in Writing /\ t \in Writing
        BY <1>8, <1>12, CleanIsSound DEF Writing
      <4> HIDE DEF o, g, t
      <4>2. Then(Then(o, g), t) = Then(o, Then(g, t))
        BY <4>1, ThenIs
      <4> QED
        BY <4>2, Zenon DEF Then
    <3>4. p = o \o g
      BY <1>6
    <3> HIDE DEF c, g, t, p
    <3> QED
      BY <3>2, <3>3, <3>4
  <2> HIDE DEF inside, rest, d, t, g, p, c
  <2>4. rest.done => /\ inside.done /\ inside.next = rest.next /\ inside.text = g \o t /\ inside.text # <<>>
    BY <1>7, <1>9, Zenon
  <2> DEFINE body == IF inside.text = <<>> THEN <<EmptyContainer>>
                     ELSE IF BigInteger(ev, i, inside.next) THEN <<Integer(ev[i + 2].value)>>
                     ELSE <<Open>> \o inside.text \o Indentation(d) \o <<Close>>
  <2>5. rest.done => body = b
    <3>1. CASE t = <<>>
      BY <2>2, <2>4, <3>1
    <3>2. CASE t # <<>>
      BY <2>2, <2>3, <2>4, <3>2
    <3> QED
      BY <3>1, <3>2
  <2>6. rest.done => Container(ev, i, inside, d) = Whole(inside.next, RootOpens(d) \o body)
    BY <2>4 DEF Container
  <2> HIDE DEF body, b
  <2> QED
    BY <2>1, <2>4, <2>5, <2>6
<1>15. b \in Seq(Sound)
  <2>1. c \in Seq(Sound) /\ <<Integer(v)>> \in Seq(Sound)
    BY <1>12, CleanIsSound
  <2> HIDE DEF c, t, p, v
  <2>2. p \o t \o c \in Seq(Sound)
    BY <1>8, <1>13, <2>1, Join3
  <2> QED
    BY <2>1, <2>2
<1>16. InsideWhole(h, t) = b \o e
  <2>1. <<Indent(Pop(h)), Close>> = c /\ Len(h) - 1 = d
    BY <1>1 DEF Indent
  <2> HIDE DEF t, h, c, e, v, d
  <2> QED
    BY <1>6, <2>1, Zenon DEF InsideWhole, e
<1> HIDE DEF b, c, e, t, g, p, h, s, d, v, inside, rest
<1>20. CASE ~rest.ok
  <2>1. m <= Len(ev)
    BY <1>5, <1>20 DEF InsideRuns, Fate
  <2> QED
    BY <1>11, <1>20, <2>1 DEF ValueFate, Fate
<1>21. CASE rest.done
  <2>1. /\ rest.next \in 1..m /\ st[rest.next] = Done(Pop(h))
        /\ tx[rest.next] = tx[i + 3] \o (b \o e)
    BY <1>5, <1>16, <1>21 DEF InsideRuns, Fate, t
  <2>2. r.ok /\ r.done /\ r.next = rest.next /\ r.text = RootOpens(d) \o b
    <3> DEFINE w == RootOpens(d) \o b
    <3>1. r = Whole(rest.next, w)
      BY <1>14, <1>21
    <3> HIDE DEF w
    <3>2. r.ok /\ r.done /\ r.next = rest.next /\ r.text = w
      BY <3>1, ReadingsEnd
    <3> QED
      BY <3>2 DEF w
  <2>3. tx[rest.next] = tx[i] \o (Lead(s) \o r.text \o e)
    <3>1. Top(s) \in Expecting
      BY DEF s
    <3>2. Lead(s) \in Seq(Sound) /\ RootOpens(d) \in Seq(Sound) /\ e \in Seq(Sound)
      BY <1>1, <1>3, <1>8, <3>1, LeadClean, Brackets, EndingSound, CleanIsSound DEF e
    <3> DEFINE a == tx[i]
               l == Lead(s)
               q == RootOpens(d)
    <3>3. a \in Seq(Sound) /\ l \in Seq(Sound) /\ q \in Seq(Sound) /\ e \in Seq(Sound) /\ b \in Seq(Sound)
      BY <1>3, <1>15, <3>2
    <3> HIDE DEF a, l, q
    <3>4. (a \o (l \o q)) \o (b \o e) = a \o (l \o (q \o b) \o e)
      <4>1. Closes(a, l, q, b, e)
        BY <3>3, ClosesValue
      <4> QED
        BY <4>1 DEF Closes
    <3> QED
      BY <1>1, <2>1, <2>2, <3>4, Zenon DEF a, l, q
  <2> QED
    BY <1>1, <2>1, <2>2, <2>3 DEF ValueFate, Fate, s, d, e
<1>22. CASE rest.ok /\ ~rest.done
  <2>1. r.ok /\ ~r.done /\ r.text = g \o t
    BY <1>10, <1>22
  <2>2. m = Len(ev) + 1 /\ Top(st[m]) # "root-done"
    BY <1>5, <1>22 DEF InsideRuns, Fate
  <2> DEFINE y == InsideBegun(ev, i + 3, h, t)
             shown == Shown(ev, i, d, r.text)
  <2>3. PICK x \in Seq(Clean) : tx[m] = tx[i + 3] \o (y \o x)
    BY <1>5, <1>22 DEF InsideRuns, Fate, t
  <2>4. y = IF t # <<>> THEN p \o t ELSE IF i + 3 <= Len(ev) THEN p ELSE <<>>
    BY <1>1 DEF InsideBegun, p
  <2>5. y \in Seq(Sound) /\ (d > 0 => y \in Seq(Clean))
    <3> HIDE DEF y
    <3>2. p \o t \in Seq(Sound) /\ (d > 0 => p \o t \in Seq(Clean))
      BY <1>8, <1>13, Join
    <3>3. <<>> \in Seq(Sound) /\ <<>> \in Seq(Clean)
      OBVIOUS
    <3> QED
      BY <1>13, <2>4, <3>2, <3>3
  <2>6. d > 0 => shown = <<>>
    BY DEF Shown
  <2>7. d = 0 => shown = <<RecordEnd>> \o y
    <3>1. i # Len(ev) + 1 /\ (i + 3 <= Len(ev) <=> Len(ev) # i + 2)
      BY <1>2, <1>3
    <3>2. <<RecordEnd>> \o <<>> = <<RecordEnd>> /\ <<RecordEnd>> \in Seq(Sound)
      <4>1. <<RecordEnd>> \in Seq(Sound)
        BY SoundTokens
      <4> QED
        BY <4>1, JoinEmpty
    <3>3. g \o t # <<>> /\ g \o t \in Seq(Sound)
      <4>1. Len(g \o t) = Len(g) + Len(t) /\ Len(g) \in Nat /\ Len(t) \in Nat /\ g \o t \in Seq(Sound)
        BY <1>8, Join
      <4>2. Len(g) # 0
        BY <1>6, <1>8
      <4>3. Len(g \o t) # 0
        BY <4>1, <4>2
      <4> QED
        BY <4>1, <4>3
    <3> DEFINE gt == g \o t
    <3>4. gt # <<>> /\ gt \in Seq(Sound) /\ r.text = gt
      BY <2>1, <3>3
    <3>5. <<RecordEnd, Open>> \o gt = <<RecordEnd>> \o (<<Open>> \o gt)
      <4> HIDE DEF gt
      <4> QED
        BY <1>1, <3>4, Brackets
    <3>6. <<Open>> \o gt = p \o t
      <4> DEFINE o == <<Open>>
      <4>1. o \in Writing /\ g \in Writing /\ t \in Writing
        BY <1>8, <1>12, CleanIsSound DEF Writing
      <4>2. p = o \o g
        BY <1>6
      <4> HIDE DEF o
      <4>3. Then(Then(o, g), t) = Then(o, Then(g, t))
        BY <4>1, ThenIs
      <4>4. (o \o g) \o t = o \o (g \o t)
        BY <4>3, Zenon DEF Then
      <4> QED
        BY <4>2, <4>4 DEF o
    <3>7. t # <<>> => i + 3 <= Len(ev)
      <4>1. CASE i + 3 = Len(ev) + 1
        <5>1. rest = Begun(<<>>)
          BY <1>3, <1>4, <4>1, MembersRule DEF rest
        <5> QED
          BY <5>1, ReadingsEnd DEF t
      <4>2. CASE i + 3 # Len(ev) + 1
        BY <1>3, <1>4, <4>2
      <4> QED
        BY <4>1, <4>2
    <3>8. t = <<>> => p \o t = p
      BY <1>13, JoinEmpty
    <3> HIDE DEF y, gt
    <3>9. d = 0 => shown = IF Len(ev) = i + 2 THEN <<RecordEnd>> ELSE <<RecordEnd, Open>> \o gt
      BY <3>1, <3>4 DEF Shown
    <3>10. y = IF i + 3 <= Len(ev) THEN p \o t ELSE <<>>
      BY <2>4, <3>7, <3>8
    <3> HIDE DEF shown
    <3> QED
      BY <3>1, <3>2, <3>5, <3>6, <3>9, <3>10
  <2> HIDE DEF y, shown
  <2>9. StillOpen(s, tx[i], y, x, shown)
    <3>1. /\ Len(s) = 0 => shown = <<RecordEnd>> \o y
          /\ Len(s) > 0 => shown = <<>> /\ y \in Seq(Clean)
      BY <2>5, <2>6, <2>7 DEF d
    <3>2. Top(s) \in Expecting
      BY DEF s
    <3> QED
      BY <1>3, <2>5, <3>1, <3>2, BegunValue
  <2>10. \E z \in Seq(Clean) : tx[m] = tx[i] \o (shown \o z)
    BY <1>1, <2>3, <2>9 DEF d, StillOpen
  <2> QED
    BY <2>1, <2>2, <2>10 DEF ValueFate, Fate, shown, s, d
<1> QED
  BY <1>7, <1>20, <1>21, <1>22

\* The events ran out before a reading began.
LEMMA NothingLeft ==
  ASSUME NEW ev, NEW st, NEW tx, NEW m, IsTrace(ev, st, tx, m), NEW i \in 1..m, i = Len(ev) + 1,
         Top(st[i]) # "root-done", NEW after, NEW whole
  PROVE  Fate(ev, st, tx, m, i, Begun(<<>>), after, whole, <<>>)
<1>1. m = i /\ tx[i] \in Seq(Sound)
  BY TraceStep
<1>2. \E x \in Seq(Clean) : tx[i] = tx[i] \o (<<>> \o x)
  <2>1. <<>> \in Seq(Clean)
    OBVIOUS
  <2>2. <<>> \o <<>> = <<>> /\ tx[i] \o <<>> = tx[i]
    BY <1>1, JoinEmpty, <2>1
  <2> QED
    BY <2>1, <2>2
<1>3. Begun(<<>>).ok /\ ~Begun(<<>>).done
  BY ReadingsEnd
<1> QED
  BY <1>1, <1>2, <1>3 DEF Fate

\* An event no tree has there.
LEMMA NoneSuch ==
  ASSUME NEW ev, NEW st, NEW tx, NEW m, IsTrace(ev, st, tx, m), NEW i \in 1..m, i <= Len(ev),
         ~May(st[i], ev[i]), NEW after, NEW whole, NEW begun
  PROVE  Fate(ev, st, tx, m, i, NoTree, after, whole, begun)
<1>1. m <= Len(ev)
  BY TraceStops
<1>2. ~NoTree.ok /\ ~NoTree.done
  BY ReadingsEnd
<1> QED
  BY <1>1, <1>2 DEF Fate

\* A value, when what may be inside it runs as it is read.
LEMMA ValueStep ==
  ASSUME NEW ev, NEW st, NEW tx, NEW m, IsTrace(ev, st, tx, m), NEW i \in 1..m,
         \A j \in (i + 1)..m : MembersRun(ev, st, tx, m, j) /\ ItemsRun(ev, st, tx, m, j)
  PROVE  ValueRuns(ev, st, tx, m, i)
<1> DEFINE s == st[i]
           d == Len(s)
           n == Len(ev)
           V == ValueOf(ev, i, d)
<1> SUFFICES ASSUME Top(s) \in Expecting,
                    i <= n => /\ ~(ev[i].event = "scalar" /\ Holding(s, ev[i]))
                              /\ ~(ev[i].event = "array-end" /\ Top(s) \in {"array-open", "array"})
             PROVE  ValueFate(ev, st, tx, m, i, V)
  BY DEF ValueRuns
<1>0. /\ Shape(s) /\ tx[i] \in Seq(Sound) /\ ev \in Seq(Events) /\ n \in Nat /\ d \in Nat /\ i \in 1..(n + 1)
      /\ m \in 1..(n + 1)
  BY TraceStep
<1>1. CASE i = n + 1
  <2>1. V = Begun(<<>>)
    BY <1>0, <1>1, ValueRule
  <2>2. Top(st[i]) # "root-done"
    BY DEF Expecting
  <2>3. Shown(ev, i, d, V.text) = <<>>
    BY <1>1 DEF Shown
  <2> HIDE DEF V
  <2> QED
    BY <1>1, <2>1, <2>2, <2>3, NothingLeft DEF ValueFate
<1>2. CASE i <= n /\ ev[i].event = "scalar"
  <2>1. V = Whole(i + 1, <<ScalarToken(ev[i].value)>>)
    BY <1>0, <1>2, ValueRule
  <2>2. May(s, ev[i])
    BY <1>2 DEF May
  <2>3. Went(ev, st, tx, m, i)
    BY <1>2, <2>2, TraceGoes
  <2>4. StackAfter(s, ev[i]) = Done(Opened(s))
        /\ Writes(s, ev[i]) = Lead(s) \o <<ScalarToken(ev[i].value)>> \o Ending(d)
    BY <1>2 DEF StackAfter, Writes
  <2>5. V.ok /\ V.done /\ V.next = i + 1 /\ V.text = <<ScalarToken(ev[i].value)>>
    BY <2>1, ReadingsEnd
  <2> HIDE DEF V
  <2> QED
    BY <2>3, <2>4, <2>5 DEF ValueFate, Fate, Went
<1>3. CASE i <= n /\ ev[i].event \in {"object-start", "array-start"}
  <2>1. Began(ev, st, tx, m, i)
    BY <1>3, Begins
  <2>2. /\ i + 1 \in 1..m /\ i + 1 \in (i + 1)..m /\ Len(st[i + 1]) = d + 1
        /\ Top(st[i + 1]) = (IF ev[i].event = "object-start" THEN "object-open" ELSE "array-open")
    <3>1. i + 1 \in 1..m /\ Len(st[i + 1]) = d + 1
          /\ Top(st[i + 1]) = (IF ev[i].event = "object-start" THEN "object-open" ELSE "array-open")
      BY <2>1 DEF Began
    <3> HIDE DEF V
    <3> QED
      BY <1>0, <3>1
  <2>3. i + 1 \in 1..(n + 1) /\ d + 1 \in Nat
    <3> HIDE DEF V, d
    <3> QED
      BY <1>0, <1>3
  <2>4. CASE BigAt(ev, i)
    <3>1. ev[i].event = "object-start" /\ i + 2 <= n
      BY <2>4 DEF BigAt, Event
    <3>2. V = Container(ev, i, MembersOf(ev, i + 1, d + 1), d)
      BY <1>0, <1>3, <3>1, ValueRule
    <3>3. MembersRun(ev, st, tx, m, i + 3)
      <4>1. i + 3 \in 1..m
        BY <1>3, <2>4, DigitsTaken DEF DigitsAre
      <4>2. i + 3 \in (i + 1)..m
        BY <1>0, <4>1
      <4> QED
        BY <4>2
    <3> HIDE DEF V
    <3> QED
      BY <1>3, <2>4, <3>2, <3>3, DigitsRun
  <2>5. CASE ~BigAt(ev, i) /\ ev[i].event = "object-start"
    <3> DEFINE inside == MembersOf(ev, i + 1, d + 1)
    <3>1. V = Container(ev, i, inside, d)
      BY <1>0, <1>3, <2>5, ValueRule
    <3>2. Top(st[i + 1]) = "object-open"
      BY <2>2, <2>5
    <3>3. ~DigitsNext(ev, i + 1)
      <4>1. (i + 1) + 1 = i + 2
        BY <1>0
      <4>2. ev[i] \in Events
        BY <1>0, <1>3, ValueRule
      <4>3. ev[i] = Event("object-start")
        BY <2>5, <4>2, EventIs
      <4> QED
        BY <2>5, <4>1, <4>3 DEF DigitsNext, BigAt
    <3>4. InsideRuns(ev, st, tx, m, i + 1, st[i + 1], inside)
      <4>1. MembersRun(ev, st, tx, m, i + 1)
        BY <2>2
      <4>2. InsideRuns(ev, st, tx, m, i + 1, st[i + 1], MembersOf(ev, i + 1, Len(st[i + 1])))
        BY <3>2, <3>3, <4>1 DEF MembersRun
      <4> QED
        BY <2>2, <4>2
    <3>5. /\ inside.ok \in BOOLEAN /\ inside.done \in BOOLEAN /\ (inside.done => inside.ok)
          /\ inside.text \in Seq(Alphabet(d + 1))
      BY <1>0, <2>3, ReadingRules, TextsSound DEF EndsPast, Texts
    <3> HIDE DEF V, inside
    <3> QED
      BY <1>3, <2>5, <3>1, <3>4, <3>5, StartRuns
  <2>6. CASE ~BigAt(ev, i) /\ ev[i].event = "array-start"
    <3> DEFINE inside == ItemsOf(ev, i + 1, d + 1)
    <3>1. V = Container(ev, i, inside, d)
      BY <1>0, <1>3, <2>6, ValueRule
    <3>2. Top(st[i + 1]) = "array-open"
      BY <2>2, <2>6
    <3>4. InsideRuns(ev, st, tx, m, i + 1, st[i + 1], inside)
      <4>1. ItemsRun(ev, st, tx, m, i + 1)
        BY <2>2
      <4>2. InsideRuns(ev, st, tx, m, i + 1, st[i + 1], ItemsOf(ev, i + 1, Len(st[i + 1])))
        BY <3>2, <4>1 DEF ItemsRun
      <4> QED
        BY <2>2, <4>2
    <3>5. /\ inside.ok \in BOOLEAN /\ inside.done \in BOOLEAN /\ (inside.done => inside.ok)
          /\ inside.text \in Seq(Alphabet(d + 1))
      BY <1>0, <2>3, ReadingRules, TextsSound DEF EndsPast, Texts
    <3> HIDE DEF V, inside
    <3> QED
      BY <1>3, <2>6, <3>1, <3>4, <3>5, StartRuns
  <2> QED
    BY <1>3, <2>4, <2>5, <2>6
<1>4. CASE i <= n /\ ev[i].event \notin {"scalar", "object-start", "array-start"}
  <2>1. V = NoTree /\ ev[i] \in Events
    BY <1>0, <1>4, ValueRule
  <2>2. ~May(s, ev[i])
    <3>1. ev[i].event \in {"key", "object-end", "array-end"}
      BY <1>4, <2>1, EventIs
    <3>2. CASE ev[i].event \in {"key", "object-end"}
      BY <3>2 DEF May, Expecting
    <3>3. CASE ev[i].event = "array-end"
      BY <1>4, <3>3 DEF May
    <3> QED
      BY <3>1, <3>2, <3>3
  <2> HIDE DEF V
  <2> QED
    BY <1>4, <2>1, <2>2, NoneSuch DEF ValueFate
<1> QED
  BY <1>0, <1>1, <1>2, <1>3, <1>4

\* A value after what names it is a line: w is written before the value
\* begins, on q, which the value leaves as u.
LineBegins(s, w, y, q, name, u) ==
    /\ Shape(s) /\ Top(s) \in Inside
    /\ Shape(q) /\ Top(q) \in Expecting /\ Len(q) = Len(s)
    /\ Done(Opened(q)) = u /\ Top(u) \in Settled /\ Pop(u) = Pop(s) /\ Len(u) = Len(s)
    /\ w \in Seq(Sound) /\ name \in Seq(Clean) /\ y \in Seq(Sound)
    /\ w \o Lead(q) = Delayed(s) \o (Indentation(Len(s)) \o name)
    /\ \E f \in Seq(Clean) : w = y \o f

\* A line is written: its name, its value and its end.
Wrote(a, s, w, q, name, value) ==
    (a \o w) \o (Lead(q) \o value.text \o Ending(Len(q))) = a \o (Delayed(s) \o Line(name, value, Len(s)))

\* A line is written as its parts are.
LEMMA LineWritten ==
  ASSUME NEW s, NEW w, NEW y, NEW q, NEW name, NEW u, LineBegins(s, w, y, q, name, u),
         NEW a \in Seq(Sound), NEW value, value.text \in Seq(Sound)
  PROVE  Wrote(a, s, w, q, name, value)
<1> DEFINE d == Len(s)
           l == Lead(q)
           v == value.text
           c == <<Comma>>
           e == LineEnds(d)
           p == Delayed(s)
           i == Indentation(d)
<1>1. /\ Shape(s) /\ Top(s) \in Inside /\ Shape(q) /\ Top(q) \in Expecting /\ Len(q) = d
      /\ w \in Seq(Sound) /\ name \in Seq(Clean)
      /\ w \o l = p \o (i \o name)
  BY DEF LineBegins
<1>2. d \in Nat /\ d >= 1 /\ p \in Seq(Sound)
  BY <1>1, InsideWritten
<1>3. c \in Seq(Sound) /\ e \in Seq(Sound) /\ i \in Seq(Sound) /\ l \in Seq(Sound) /\ name \in Seq(Sound)
  <2>1. Comma \in Sound
    BY SoundTokens
  <2>2. c \in Seq(Sound)
    BY <2>1, One
  <2>3. e \in Seq(Sound)
    BY <1>2, Alphabets
  <2>4. i \in Seq(Sound)
    BY <1>2, Indented, CleanIsSound
  <2>5. l \in Seq(Sound) /\ name \in Seq(Sound)
    BY <1>1, LeadClean, CleanIsSound
  <2> QED
    BY <2>2, <2>3, <2>4, <2>5
<1>4. Ending(Len(q)) = c \o e
  <2>1. d # 0 /\ (d <= 1 <=> d = 1)
    <3>1. \A k \in Nat : k >= 1 => k # 0 /\ (k <= 1 <=> k = 1)
      OBVIOUS
    <3> HIDE DEF d
    <3> QED
      BY <1>2, <3>1
  <2> HIDE DEF d
  <2> QED
    BY <1>1, <2>1, Zenon DEF Ending, LineEnds
<1>5. Line(name, value, Len(s)) = i \o name \o v \o c \o e
  BY DEF Line
<1>6. a \in Writing /\ w \in Writing /\ l \in Writing /\ v \in Writing /\ c \in Writing /\ e \in Writing
      /\ p \in Writing /\ name \in Writing /\ i \in Writing
  BY <1>1, <1>2, <1>3 DEF Writing
<1> HIDE DEF d, l, v, c, e, p, i
<1>7. Then(w, l) = Then(p, Then(i, name))
  BY <1>1, Zenon DEF Then
<1>8. Then(Then(a, w), Then(Then(l, v), Then(c, e))) = Then(a, Then(p, Then(Then(Then(Then(i, name), v), c), e)))
  <2>1. Spans(a, w, l, v, c, e, p, name, i)
    BY <1>6, <1>7, NameThen
  <2> QED
    BY <2>1, Zenon DEF Spans
<1>9. (a \o w) \o (l \o v \o (c \o e)) = a \o (p \o (i \o name \o v \o c \o e))
  BY <1>8, Zenon DEF Then
<1> QED
  BY <1>4, <1>5, <1>9 DEF l, v, p, Wrote

\* A value named at i begins at k, on a line of what r reads, and rest after it.
LineAt(ev, st, tx, m, i, k, w, name, u, value, rest, r) ==
    /\ IsTrace(ev, st, tx, m) /\ i \in 1..m /\ k \in 1..m /\ i <= Len(ev)
    /\ LineBegins(st[i], w, InsideBegun(ev, i, st[i], <<>>), st[k], name, u)
    /\ tx[k] = tx[i] \o w
    /\ value.ok \in BOOLEAN /\ value.done \in BOOLEAN /\ (value.done => value.ok) /\ value.text \in Seq(Sound)
    /\ ValueFate(ev, st, tx, m, k, value)
    /\ value.done /\ value.next \in 1..m /\ st[value.next] = u =>
             /\ rest.ok \in BOOLEAN /\ rest.done \in BOOLEAN /\ (rest.done => rest.ok) /\ rest.text \in Seq(Sound)
             /\ InsideRuns(ev, st, tx, m, value.next, st[value.next], rest)
    /\ r = Lines(name, value, rest, Len(st[i])) /\ LinesRead(name, value, rest, Len(st[i]))
    /\ Line(name, value, Len(st[i])) \in Seq(Sound)

\* A line and the rest of its container.
LEMMA NextRuns ==
  ASSUME NEW ev, NEW st, NEW tx, NEW m, NEW i, NEW k, NEW w, NEW name, NEW u, NEW value, NEW rest, NEW r,
         LineAt(ev, st, tx, m, i, k, w, name, u, value, rest, r)
  PROVE  InsideRuns(ev, st, tx, m, i, st[i], r)
<1>a. /\ IsTrace(ev, st, tx, m) /\ i \in 1..m /\ k \in 1..m /\ i <= Len(ev)
      /\ LineBegins(st[i], w, InsideBegun(ev, i, st[i], <<>>), st[k], name, u)
      /\ tx[k] = tx[i] \o w
      /\ value.ok \in BOOLEAN /\ value.done \in BOOLEAN /\ (value.done => value.ok) /\ value.text \in Seq(Sound)
      /\ ValueFate(ev, st, tx, m, k, value)
      /\ value.done /\ value.next \in 1..m /\ st[value.next] = u =>
               /\ rest.ok \in BOOLEAN /\ rest.done \in BOOLEAN /\ (rest.done => rest.ok) /\ rest.text \in Seq(Sound)
               /\ InsideRuns(ev, st, tx, m, value.next, st[value.next], rest)
      /\ r = Lines(name, value, rest, Len(st[i])) /\ LinesRead(name, value, rest, Len(st[i]))
      /\ Line(name, value, Len(st[i])) \in Seq(Sound)
  BY DEF LineAt
<1> USE <1>a
<1> DEFINE s == st[i]
           q == st[k]
           d == Len(s)
           y == InsideBegun(ev, i, s, <<>>)
           line == Line(name, value, d)
<1>0. LineBegins(s, w, y, q, name, u)
  OBVIOUS
<1>1. /\ Shape(s) /\ Top(s) \in Inside /\ Shape(q) /\ Top(q) \in Expecting /\ Len(q) = d
      /\ Done(Opened(q)) = u /\ Top(u) \in Settled /\ Pop(u) = Pop(s) /\ Len(u) = d
      /\ w \in Seq(Sound) /\ y \in Seq(Sound) /\ name \in Seq(Clean)
  <2> HIDE DEF y, s, q
  <2> QED
    BY <1>0 DEF LineBegins
<1>2. PICK f \in Seq(Clean) : w = y \o f
  <2> HIDE DEF y, s, q
  <2> QED
    BY <1>0 DEF LineBegins
<1>3. tx[i] \in Seq(Sound)
  BY TraceStep
<1>4. d \in Nat /\ d >= 1
  <2> HIDE DEF y, q, s
  <2> QED
    BY <1>1, InsideWritten DEF s
<1> HIDE DEF y, s, q
<1>5. CASE ~value.ok
  <2>1. m <= Len(ev)
    BY <1>5 DEF ValueFate, Fate
  <2>2. r = NoTree
    BY <1>5 DEF LinesRead
  <2>3. ~r.ok /\ ~r.done
    BY <2>2, ReadingsEnd
  <2> QED
    BY <2>1, <2>3 DEF InsideRuns, Fate
<1>6. CASE value.ok /\ ~value.done
  <2>1. r = Begun(<<>>)
    BY <1>6 DEF LinesRead
  <2>2. r.ok /\ ~r.done /\ r.text = <<>>
    BY <2>1, ReadingsEnd
  <2>3. m = Len(ev) + 1 /\ Top(st[m]) # "root-done"
    BY <1>6 DEF ValueFate, Fate
  <2>4. PICK x \in Seq(Clean) : tx[m] = tx[k] \o (Shown(ev, k, Len(st[k]), value.text) \o x)
    BY <1>6 DEF ValueFate, Fate
  <2>5. Shown(ev, k, Len(st[k]), value.text) = <<>>
    <3>1. Len(st[k]) > 0
      BY <1>1, <1>4 DEF q
    <3> QED
      BY <3>1 DEF Shown
  <2>6. <<>> \o x = x
    BY JoinEmpty
  <2> DEFINE a == tx[i]
             z == f \o x
  <2>7. z \in Seq(Clean)
    BY Join
  <2>8. a \in Writing /\ y \in Writing /\ f \in Writing /\ x \in Writing
    BY <1>1, <1>3, CleanIsSound DEF Writing
  <2> HIDE DEF a
  <2>9. Then(Then(a, Then(y, f)), x) = Then(a, Then(y, Then(f, x)))
    BY <2>8, ThenIs
  <2>10. (a \o (y \o f)) \o x = a \o (y \o z)
    BY <2>9, Zenon DEF Then
  <2>11. tx[m] = tx[i] \o (y \o z)
    <3>1. tx[m] = (a \o w) \o x
      BY <2>4, <2>5, <2>6 DEF a
    <3> HIDE DEF z
    <3> QED
      BY <1>2, <2>10, <3>1 DEF a
  <2> HIDE DEF z
  <2>12. \E zz \in Seq(Clean) : tx[m] = tx[i] \o (InsideBegun(ev, i, st[i], r.text) \o zz)
    BY <2>2, <2>7, <2>11 DEF y, s
  <2> QED
    BY <2>2, <2>3, <2>12 DEF InsideRuns, Fate
<1>7. CASE value.done
  <2> DEFINE j == value.next
  <2>1. j \in 1..m /\ st[j] = Done(Opened(q)) /\ tx[j] = tx[k] \o (Lead(q) \o value.text \o Ending(Len(q)))
    BY <1>7 DEF ValueFate, Fate, q
  <2>2. st[j] = u
    BY <1>1, <2>1
  <2>3. /\ rest.ok \in BOOLEAN /\ rest.done \in BOOLEAN /\ (rest.done => rest.ok) /\ rest.text \in Seq(Sound)
        /\ InsideRuns(ev, st, tx, m, j, st[j], rest)
    BY <1>7, <2>1, <2>2
  <2>4. /\ rest.ok => /\ r.ok /\ r.done = rest.done /\ (rest.done => r.next = rest.next)
                      /\ r.text = line \o rest.text /\ r.text # <<>>
        /\ ~rest.ok => r = NoTree
    <3> HIDE DEF line
    <3>1. LinesRead(name, value, rest, d) /\ r = Lines(name, value, rest, d)
      BY DEF s
    <3> QED
      BY <1>7, <3>1 DEF LinesRead, line
  <2>5. tx[j] = tx[i] \o (Delayed(s) \o line)
    <3> DEFINE a == tx[i]
    <3>1. tx[j] = (a \o w) \o (Lead(q) \o value.text \o Ending(Len(q)))
      BY <2>1 DEF q
    <3>2. a \in Seq(Sound)
      BY <1>3
    <3> HIDE DEF a
    <3>3. (a \o w) \o (Lead(q) \o value.text \o Ending(Len(q))) = a \o (Delayed(s) \o Line(name, value, d))
      <4>1. Wrote(a, s, w, q, name, value)
        BY <1>0, <3>2, LineWritten
      <4> QED
        BY <4>1 DEF Wrote
    <3> QED
      BY <3>1, <3>3 DEF a
  <2>6. line \in Seq(Sound)
    BY DEF s
  <2> HIDE DEF j, line, d
  <2>7. Top(st[j]) \in Settled /\ Pop(st[j]) = Pop(s) /\ Len(st[j]) = Len(s)
    BY <1>1, <2>2 DEF d
  <2>8. Continues(ev, st, tx, m, i, j, s, line, rest, r)
    BY <1>1, <2>1, <2>3, <2>4, <2>5, <2>6, <2>7 DEF Continues
  <2>9. InsideRuns(ev, st, tx, m, i, s, r)
    BY <2>8, LineRuns
  <2> QED
    BY <2>9 DEF s
<1> QED
  BY <1>5, <1>6, <1>7

\* Short sequences, token by token.
LEMMA ThreeIs == \A a, b, c : <<a, b, c>> = <<a>> \o <<b, c>>
  OBVIOUS

LEMMA FourIs == \A a, b, c, e : <<>> \o <<a, b, c, e>> = <<a>> \o <<b, c, e>>
  OBVIOUS

\* A key takes the line of its member so far.
KeyLine(ev, st, tx, m, i) ==
    /\ i + 1 \in 1..m
    /\ LineBegins(st[i], Writes(st[i], ev[i]), InsideBegun(ev, i, st[i], <<>>), st[i + 1],
                  <<FieldToken(ev[i].name), Assign>>, Mark(Marker("object"), st[i]))
    /\ tx[i + 1] = tx[i] \o Writes(st[i], ev[i])
    /\ Top(st[i + 1]) = (IF Top(st[i]) = "object-open" /\ ev[i].name = Big THEN "big-key" ELSE "member")
    /\ Top(Mark(Marker("object"), st[i])) = "object" /\ Len(Mark(Marker("object"), st[i])) = Len(st[i])
    /\ Len(st[i + 1]) = Len(st[i])

\* A field name begins a line.
LEMMA KeyBegins ==
  ASSUME NEW ev, NEW st, NEW tx, NEW m, IsTrace(ev, st, tx, m), NEW i \in 1..m, i <= Len(ev),
         ev[i].event = "key", Top(st[i]) \in {"object-open", "object", "big"}
  PROVE  KeyLine(ev, st, tx, m, i)
<1> DEFINE s == st[i]
           q == st[i + 1]
           d == Len(s)
           u == Mark(Marker("object"), s)
           big == Top(s) = "object-open" /\ ev[i].name = Big
           k == IF big THEN Marker("big-key") ELSE Marker("member")
           name == <<FieldToken(ev[i].name), Assign>>
           f == <<Indent(s), FieldToken(ev[i].name), Assign>>
           w == Writes(s, ev[i])
           y == InsideBegun(ev, i, s, <<>>)
<1>1. Shape(s) /\ ev[i] \in Events
  BY TraceStep
<1>2. Went(ev, st, tx, m, i)
  <2>1. May(s, ev[i])
    BY DEF May
  <2> QED
    BY <2>1, TraceGoes
<1>3. i + 1 \in 1..m /\ q = Mark(k, s) /\ tx[i + 1] = tx[i] \o w
  <2>1. StackAfter(s, ev[i]) = Mark(k, s)
    BY DEF StackAfter
  <2> HIDE DEF k, w
  <2> QED
    BY <1>2, <2>1 DEF Went, w
<1>4. /\ Marker("big-key") \in Markers /\ Marker("big-key").mark = "big-key"
      /\ Marker("member") \in Markers /\ Marker("member").mark = "member"
      /\ Marker("object") \in Markers /\ Marker("object").mark = "object"
  BY MarkersAre DEF Marks
<1>5. k \in Markers /\ k.mark = (IF big THEN "big-key" ELSE "member") /\ k.mark # "big"
  BY <1>4
<1>6. ev[i].name \in Names
  BY <1>1, EventIs
<1>7. Top(s) \in Inside /\ s # <<>>
  BY <1>1, NoneIsEmpty DEF Inside
<1>8. /\ d \in Nat /\ d >= 1 /\ Delayed(s) \in Seq(Sound) /\ (Top(s) # "big" => Delayed(s) \in Seq(Clean))
      /\ Top(s) = "object-open" => Delayed(s) = <<Open>>
  BY <1>1, <1>7, InsideWritten
<1>9. name \in Seq(Clean) /\ f \in Seq(Clean)
  <2>1. FieldToken(ev[i].name) \in Clean /\ Assign \in Clean /\ Indent(s) \in Clean
    BY <1>6, <1>8, CleanTokens
  <2> QED
    BY <2>1
<1>10. Indentation(d) \o name = f /\ Indentation(d) = <<Indent(s)>>
  <2>1. Indentation(d) = <<Indent(s)>>
    BY DEF Indentation, Indent
  <2>2. <<Indent(s)>> \o name = f
    BY ThreeIs
  <2> QED
    BY <2>1, <2>2
<1>11. y = (IF Top(s) = "big" THEN Delayed(s) ELSE <<>>) /\ w = (IF big THEN <<>> ELSE Delayed(s) \o f)
  <2>1. y = (IF Top(s) = "big" THEN Delayed(s) ELSE <<>>)
    BY DEF InsideBegun
  <2>2. w = (IF big THEN <<>> ELSE Delayed(s) \o f)
    BY DEF Writes
  <2> QED
    BY <2>1, <2>2
<1> HIDE DEF s, k, d, name, f, w, y
<1>12. /\ Shape(q) /\ q # <<>> /\ Len(q) = d /\ Top(q) = k.mark /\ Pop(q) = Pop(s)
       /\ \A j : Mark(j, q) = Mark(j, s)
  <2> HIDE DEF q
  <2> QED
    BY <1>1, <1>3, <1>5, <1>7, MarkIs DEF d
<1>13. Shape(u) /\ Len(u) = d /\ Top(u) = "object" /\ Pop(u) = Pop(s)
  BY <1>1, <1>4, <1>7, MarkIs DEF d
<1> HIDE DEF q, u
<1>14. Top(q) \in Expecting /\ Top(q) \in {"member", "big-key"}
  BY <1>5, <1>12 DEF Expecting
<1>15. Done(Opened(q)) = u
  BY <1>12, <1>14, OpenedIs DEF u
<1>16. w \o Lead(q) = Delayed(s) \o f
  <2>1. CASE big
    <3>1. Top(q) = "big-key" /\ ev[i].name = Big
      BY <1>5, <1>12, <2>1
    <3>2. Lead(q) = <<Open, Indent(q), FieldToken(Big), Assign>>
      BY <3>1 DEF Lead
    <3>3. Indent(q) = Indent(s)
      BY <1>12 DEF Indent, d
    <3>4. w = <<>> /\ Delayed(s) = <<Open>>
      BY <1>8, <1>11, <2>1
    <3>5. f = <<Indent(s), FieldToken(Big), Assign>>
      BY <3>1 DEF f
    <3>6. <<>> \o <<Open, Indent(s), FieldToken(Big), Assign>> = <<Open>> \o <<Indent(s), FieldToken(Big), Assign>>
      BY FourIs
    <3> QED
      BY <3>2, <3>3, <3>4, <3>5, <3>6
  <2>2. CASE ~big
    <3>1. Lead(q) = <<>>
      BY <1>5, <1>12, <2>2 DEF Lead
    <3>2. w = Delayed(s) \o f
      BY <1>11, <2>2
    <3>3. Delayed(s) \o f \in Seq(Sound)
      BY <1>8, <1>9, CleanIsSound, Join
    <3> DEFINE z == Delayed(s) \o f
    <3> HIDE DEF z
    <3>4. z \o <<>> = z
      BY <3>3, JoinEmpty DEF z
    <3> QED
      BY <3>1, <3>2, <3>4 DEF z
  <2> QED
    BY <2>1, <2>2
<1>17. w \in Seq(Sound) /\ y \in Seq(Sound) /\ \E g \in Seq(Clean) : w = y \o g
  <2>0. <<>> \in Seq(Sound) /\ <<>> \in Seq(Clean) /\ <<>> \o <<>> = <<>>
    OBVIOUS
  <2>1. CASE big
    <3>1. w = <<>> /\ y = <<>>
      BY <1>11, <2>1
    <3> QED
      BY <2>0, <3>1
  <2>2. CASE ~big /\ Top(s) = "big"
    <3>1. w = Delayed(s) \o f /\ y = Delayed(s)
      BY <1>11, <2>2
    <3>2. w \in Seq(Sound)
      BY <1>8, <1>9, <3>1, CleanIsSound, Join
    <3> QED
      BY <1>8, <1>9, <3>1, <3>2
  <2>3. CASE ~big /\ Top(s) # "big"
    <3>1. w = Delayed(s) \o f /\ y = <<>>
      BY <1>11, <2>3
    <3>2. w \in Seq(Clean)
      BY <1>8, <1>9, <2>3, <3>1, Join
    <3>3. w = <<>> \o w
      BY <3>2, JoinEmpty
    <3> QED
      BY <2>0, <3>1, <3>2, <3>3, CleanIsSound
  <2> QED
    BY <2>1, <2>2, <2>3
<1>18. LineBegins(s, w, y, q, name, u)
  BY <1>1, <1>7, <1>9, <1>10, <1>12, <1>13, <1>14, <1>15, <1>16, <1>17 DEF LineBegins, Settled, d
<1> QED
  BY <1>3, <1>5, <1>12, <1>13, <1>18 DEF KeyLine, s, q, d, name, w, y, u

\* The members from i on run as they are read, when what is after them does.
LEMMA MembersStep ==
  ASSUME NEW ev, NEW st, NEW tx, NEW m, IsTrace(ev, st, tx, m), NEW i \in 1..m,
         \A j \in (i + 1)..m : ValueRuns(ev, st, tx, m, j) /\ MembersRun(ev, st, tx, m, j)
  PROVE  MembersRun(ev, st, tx, m, i)
<1> DEFINE s == st[i]
           d == Len(s)
           n == Len(ev)
           M == MembersOf(ev, i, d)
<1> SUFFICES ASSUME Top(s) \in {"object-open", "object", "big"}, ~(Top(s) = "object-open" /\ DigitsNext(ev, i))
             PROVE  InsideRuns(ev, st, tx, m, i, s, M)
  BY DEF MembersRun
<1>0. /\ Shape(s) /\ tx[i] \in Seq(Sound) /\ ev \in Seq(Events) /\ n \in Nat /\ d \in Nat /\ i \in 1..(n + 1)
      /\ m \in 1..(n + 1)
  BY TraceStep
<1>1. CASE i = n + 1
  <2>1. M = Begun(<<>>)
    BY <1>0, <1>1, MembersRule
  <2>2. M.text = <<>>
    BY <2>1, ReadingsEnd
  <2>3. InsideBegun(ev, i, s, M.text) = <<>>
    <3>1. ~(i <= Len(ev))
      BY <1>0, <1>1
    <3> HIDE DEF M
    <3> QED
      BY <2>2, <3>1 DEF InsideBegun
  <2>4. Top(st[i]) # "root-done"
    OBVIOUS
  <2> HIDE DEF M
  <2> QED
    BY <1>1, <2>1, <2>3, <2>4, NothingLeft DEF InsideRuns
<1>2. CASE i <= n /\ ev[i].event = "object-end"
  <2>1. M = Whole(i + 1, <<>>)
    BY <1>0, <1>2, MembersRule
  <2>2. May(s, ev[i])
    BY <1>2 DEF May
  <2>3. Went(ev, st, tx, m, i)
    BY <1>2, <2>2, TraceGoes
  <2>4. StackAfter(s, ev[i]) = Done(Pop(s)) /\ Writes(s, ev[i]) = Closing(s) \o Ending(Len(s) - 1)
    BY <1>2 DEF StackAfter, Writes
  <2>5. M.ok /\ M.done /\ M.next = i + 1 /\ M.text = <<>>
    BY <2>1, ReadingsEnd
  <2> HIDE DEF M
  <2>6. InsideWhole(s, M.text) = Closing(s) \o Ending(Len(s) - 1)
    BY <2>5 DEF InsideWhole
  <2> QED
    BY <2>3, <2>4, <2>5, <2>6 DEF InsideRuns, Fate, Went
<1>3. CASE i <= n /\ ev[i].event = "key"
  <2> DEFINE V == ValueOf(ev, i + 1, d)
             rest == MembersOf(ev, V.next, d)
             name == <<FieldToken(ev[i].name), Assign>>
             u == Mark(Marker("object"), s)
             w == Writes(s, ev[i])
  <2>1. KeyLine(ev, st, tx, m, i)
    BY <1>3, KeyBegins
  <2>2. /\ i + 1 \in 1..m
        /\ LineBegins(s, w, InsideBegun(ev, i, s, <<>>), st[i + 1], name, u)
        /\ tx[i + 1] = tx[i] \o w
        /\ Top(st[i + 1]) = (IF Top(s) = "object-open" /\ ev[i].name = Big THEN "big-key" ELSE "member")
        /\ Top(u) = "object" /\ Len(u) = d /\ Len(st[i + 1]) = d
    <3> HIDE DEF M, V, rest
    <3> QED
      BY <2>1 DEF KeyLine
  <2>3. i + 1 \in 1..(n + 1) /\ i + 1 \in (i + 1)..m
    <3> HIDE DEF M, V, rest, name, u, w, s, d
    <3> QED
      BY <1>0, <1>3, <2>2
  <2>4. M = Lines(name, V, rest, d)
    BY <1>0, <1>3, MembersRule
  <2>5. ValueFate(ev, st, tx, m, i + 1, V)
    <3>1. ValueRuns(ev, st, tx, m, i + 1)
      BY <2>3
    <3>2. Top(st[i + 1]) \in Expecting /\ Top(st[i + 1]) \notin {"array-open", "array"}
      BY <2>2 DEF Expecting
    <3>3. ASSUME i + 1 <= n, ev[i + 1].event = "scalar", Holding(st[i + 1], ev[i + 1]) PROVE FALSE
      <4>1. Top(st[i + 1]) = "big-key" /\ BigDigits(ev[i + 1].value)
        BY <3>3 DEF Holding
      <4>2. Top(s) = "object-open" /\ ev[i].name = Big
        BY <2>2, <4>1
      <4>3. ev[i] = Key(Big)
        BY <1>0, <1>3, <4>2, EventIs, MembersRule
      <4> QED
        BY <3>3, <4>1, <4>2, <4>3 DEF DigitsNext
    <3> HIDE DEF M, rest, s
    <3> QED
      BY <2>2, <3>1, <3>2, <3>3 DEF ValueRuns
  <2>6. EndsPast(V, i + 1, n) /\ IsReading(V) /\ V.text \in Seq(Alphabet(d + 1))
    BY <1>0, <2>3, ReadingRules, TextsSound DEF Texts
  <2>7. V.done => V.next \in (i + 2)..(n + 1) /\ V.next \in 1..(n + 1)
    <3>1. V.done => V.next \in ((i + 1) + 1)..(n + 1)
      BY <2>6 DEF EndsPast
    <3> HIDE DEF V, rest, M, s, d
    <3> QED
      BY <1>0, <3>1
  <2>8. V.done => /\ EndsPast(rest, V.next, n) /\ IsReading(rest) /\ rest.text \in Seq(Alphabet(d))
    BY <1>0, <2>7, ReadingRules, TextsSound DEF Texts
  <2>9. name \in Seq(Clean)
    <3>1. ev[i].name \in Names
      BY <1>0, <1>3, EventIs, MembersRule
    <3>2. FieldToken(ev[i].name) \in Clean /\ Assign \in Clean
      BY <3>1, CleanTokens
    <3> QED
      BY <3>2
  <2> HIDE DEF V, rest, name, M, u, w
  <2>10. V.ok \in BOOLEAN /\ V.done \in BOOLEAN /\ (V.done => V.ok)
         /\ (V.done => rest.ok \in BOOLEAN /\ rest.done \in BOOLEAN /\ (rest.done => rest.ok))
    BY <2>6, <2>8 DEF EndsPast
  <2>11. LinesRead(name, V, rest, d)
    BY <1>0, <2>6, <2>8, <2>9, <2>10, LinesText
  <2>12. Line(name, V, d) \in Seq(Sound) /\ V.text \in Seq(Sound) /\ (V.done => rest.text \in Seq(Sound))
    <3>1. Line(name, V, d) \in Seq(Alphabet(d))
      BY <2>11 DEF LinesRead
    <3>2. Seq(Alphabet(d)) \subseteq Seq(Sound) /\ Seq(Alphabet(d + 1)) \subseteq Seq(Alphabet(d))
      BY <1>0, Alphabets
    <3> QED
      BY <2>6, <2>8, <3>1, <3>2
  <2>13. ASSUME V.done, V.next \in 1..m, st[V.next] = u PROVE InsideRuns(ev, st, tx, m, V.next, st[V.next], rest)
    <3>1. V.next \in (i + 1)..m
      <4> HIDE DEF s, d
      <4> QED
        BY <1>0, <2>7, <2>13
    <3>2. MembersRun(ev, st, tx, m, V.next)
      BY <3>1
    <3>3. Top(st[V.next]) = "object" /\ Len(st[V.next]) = d
      BY <2>2, <2>13
    <3>4. InsideRuns(ev, st, tx, m, V.next, st[V.next], MembersOf(ev, V.next, Len(st[V.next])))
      BY <3>2, <3>3 DEF MembersRun
    <3> QED
      BY <3>3, <3>4 DEF rest
  <2>14. LineAt(ev, st, tx, m, i, i + 1, w, name, u, V, rest, M)
    BY <1>3, <2>2, <2>4, <2>5, <2>10, <2>11, <2>12, <2>13 DEF LineAt
  <2> QED
    BY <2>14, NextRuns
<1>4. CASE i <= n /\ ev[i].event \notin {"object-end", "key"}
  <2>1. M = NoTree /\ ev[i] \in Events
    BY <1>0, <1>4, MembersRule
  <2>2. ~May(s, ev[i])
    <3>1. ev[i].event \in {"object-start", "array-start", "scalar", "array-end"}
      BY <1>4, <2>1, EventIs
    <3>2. CASE ev[i].event \in {"object-start", "array-start", "scalar"}
      BY <3>2 DEF May, Expecting
    <3>3. CASE ev[i].event = "array-end"
      BY <3>3 DEF May
    <3> QED
      BY <3>1, <3>2, <3>3
  <2> HIDE DEF M
  <2> QED
    BY <1>4, <2>1, <2>2, NoneSuch DEF InsideRuns
<1> QED
  BY <1>0, <1>1, <1>2, <1>3, <1>4

\* Short sequences, the parts of longer ones.
LEMMA OneIs == \A a : <<a>> \o <<>> = <<a>> /\ <<>> \o <<a>> = <<a>>
  OBVIOUS

LEMMA TwoIs == ASSUME NEW S, NEW a \in S, NEW b \in S PROVE <<a>> \o <<b>> = <<a, b>>
<1> DEFINE u == <<a>>
           w == u \o <<b>>
<1>0. u \in Seq(S)
  OBVIOUS
<1>1. Len(u) = 1 /\ u[1] = a
  OBVIOUS
<1> HIDE DEF u
<1>2. Len(w) = Len(u) + 1 /\ w \in Seq(S) /\ (\A i \in 1..Len(u) : w[i] = u[i]) /\ w[Len(u) + 1] = b
  BY <1>0
<1> HIDE DEF w
<1>3. w = <<u[1], b>>
  BY <1>0, <1>1, <1>2
<1> QED
  BY <1>1, <1>3 DEF u, w

\* An item takes its line, at the position of its own value.
LEMMA ItemBegins ==
  ASSUME NEW ev, NEW i, NEW s, Shape(s), Top(s) \in {"array-open", "array"}
  PROVE  /\ LineBegins(s, <<>>, InsideBegun(ev, i, s, <<>>), s, <<>>, Opened(s))
         /\ Top(s) \in Expecting /\ Top(s) \in Inside
         /\ Top(Opened(s)) = "array" /\ Len(Opened(s)) = Len(s)
<1>1. Top(s) \in Expecting /\ Top(s) \in Inside
  BY DEF Expecting, Inside
<1>2. /\ Done(Opened(s)) = Opened(s) /\ Top(Opened(s)) = "array" /\ Pop(Opened(s)) = Pop(s)
      /\ Len(Opened(s)) = Len(s) /\ Len(s) \in Nat
  BY <1>1, OpenedIs
<1>3. Delayed(s) = (IF Top(s) = "array-open" THEN <<Open>> ELSE <<>>)
      /\ Lead(s) = (IF Top(s) = "array-open" THEN <<Open, Indent(s)>> ELSE <<Indent(s)>>)
  BY DEF Delayed, Lead
<1>4. Indentation(Len(s)) = <<Indent(s)>>
  BY DEF Indentation, Indent
<1>5. Open \in Sound /\ Indent(s) \in Sound
  BY <1>2, CleanTokens DEF Clean
<1> DEFINE k == Indent(s)
<1> HIDE DEF k
<1>a. \A a : <<a>> \o <<>> = <<a>> /\ <<>> \o <<a>> = <<a>>
  BY OneIs
<1>b. <<Open>> \o <<k>> = <<Open, k>>
  BY <1>5, TwoIs DEF k
<1>c. \A a, b : <<>> \o <<a, b>> = <<a, b>>
  OBVIOUS
<1>6. /\ <<k>> \o <<>> = <<k>> /\ <<>> \o <<k>> = <<k>> /\ <<Open>> \o <<k>> = <<Open, k>>
      /\ <<>> \o <<Open, k>> = <<Open, k>>
  BY <1>a, <1>b, <1>c
<1>7. <<>> \o Lead(s) = Delayed(s) \o (Indentation(Len(s)) \o <<>>)
  BY <1>3, <1>4, <1>6 DEF k
<1>8. <<>> \in Seq(Sound) /\ <<>> \in Seq(Clean) /\ <<>> = <<>> \o <<>>
  OBVIOUS
<1>9. InsideBegun(ev, i, s, <<>>) = <<>>
  BY DEF InsideBegun
<1> QED
  BY <1>1, <1>2, <1>7, <1>8, <1>9 DEF LineBegins, Settled

\* The items from i on run as they are read, when its value and what is after it do.
LEMMA ItemsStep ==
  ASSUME NEW ev, NEW st, NEW tx, NEW m, IsTrace(ev, st, tx, m), NEW i \in 1..m,
         ValueRuns(ev, st, tx, m, i), \A j \in (i + 1)..m : ItemsRun(ev, st, tx, m, j)
  PROVE  ItemsRun(ev, st, tx, m, i)
<1> DEFINE s == st[i]
           d == Len(s)
           n == Len(ev)
           M == ItemsOf(ev, i, d)
<1> SUFFICES ASSUME Top(s) \in {"array-open", "array"}
             PROVE  InsideRuns(ev, st, tx, m, i, s, M)
  BY DEF ItemsRun
<1>0. /\ Shape(s) /\ tx[i] \in Seq(Sound) /\ ev \in Seq(Events) /\ n \in Nat /\ d \in Nat /\ i \in 1..(n + 1)
      /\ m \in 1..(n + 1)
  BY TraceStep
<1>1. CASE i = n + 1
  <2>1. M = Begun(<<>>)
    BY <1>0, <1>1, ItemsRule
  <2>2. M.text = <<>>
    BY <2>1, ReadingsEnd
  <2>3. InsideBegun(ev, i, s, M.text) = <<>>
    <3>1. ~(i <= Len(ev))
      BY <1>0, <1>1
    <3> HIDE DEF M
    <3> QED
      BY <2>2, <3>1 DEF InsideBegun
  <2>4. Top(st[i]) # "root-done"
    OBVIOUS
  <2> HIDE DEF M
  <2> QED
    BY <1>1, <2>1, <2>3, <2>4, NothingLeft DEF InsideRuns
<1>2. CASE i <= n /\ ev[i].event = "array-end"
  <2>1. M = Whole(i + 1, <<>>)
    BY <1>0, <1>2, ItemsRule
  <2>2. May(s, ev[i])
    BY <1>2 DEF May
  <2>3. Went(ev, st, tx, m, i)
    BY <1>2, <2>2, TraceGoes
  <2>4. StackAfter(s, ev[i]) = Done(Pop(s)) /\ Writes(s, ev[i]) = Closing(s) \o Ending(Len(s) - 1)
    BY <1>2 DEF StackAfter, Writes
  <2>5. M.ok /\ M.done /\ M.next = i + 1 /\ M.text = <<>>
    BY <2>1, ReadingsEnd
  <2> HIDE DEF M
  <2>6. InsideWhole(s, M.text) = Closing(s) \o Ending(Len(s) - 1)
    BY <2>5 DEF InsideWhole
  <2> QED
    BY <2>3, <2>4, <2>5, <2>6 DEF InsideRuns, Fate, Went
<1>3. CASE i <= n /\ ev[i].event # "array-end"
  <2> DEFINE V == ValueOf(ev, i, d)
             rest == ItemsOf(ev, V.next, d)
             u == Opened(s)
  <2>1. /\ LineBegins(s, <<>>, InsideBegun(ev, i, s, <<>>), s, <<>>, u)
        /\ Top(s) \in Expecting
        /\ Top(u) = "array" /\ Len(u) = d
    <3> HIDE DEF M, V, rest, s
    <3> QED
      BY <1>0, ItemBegins
  <2>2. tx[i] = tx[i] \o <<>>
    BY <1>0, JoinEmpty
  <2>4. M = Lines(<<>>, V, rest, d)
    BY <1>0, <1>3, ItemsRule
  <2>5. ValueFate(ev, st, tx, m, i, V)
    <3>1. ~Holding(s, ev[i])
      BY DEF Holding
    <3> HIDE DEF M, rest
    <3> QED
      BY <1>3, <2>1, <3>1 DEF ValueRuns
  <2>6. EndsPast(V, i, n) /\ IsReading(V) /\ V.text \in Seq(Alphabet(d + 1))
    BY <1>0, ReadingRules, TextsSound DEF Texts
  <2>7. V.done => V.next \in (i + 1)..(n + 1) /\ V.next \in 1..(n + 1)
    <3>1. V.done => V.next \in (i + 1)..(n + 1)
      BY <2>6 DEF EndsPast
    <3> HIDE DEF V, rest, M, s, d
    <3> QED
      BY <1>0, <3>1
  <2>8. V.done => /\ EndsPast(rest, V.next, n) /\ IsReading(rest) /\ rest.text \in Seq(Alphabet(d))
    BY <1>0, <2>7, ReadingRules, TextsSound DEF Texts
  <2> HIDE DEF V, rest, M, u
  <2>10. V.ok \in BOOLEAN /\ V.done \in BOOLEAN /\ (V.done => V.ok)
         /\ (V.done => rest.ok \in BOOLEAN /\ rest.done \in BOOLEAN /\ (rest.done => rest.ok))
    BY <2>6, <2>8 DEF EndsPast
  <2>11. LinesRead(<<>>, V, rest, d)
    <3>1. <<>> \in Seq(Clean)
      OBVIOUS
    <3> QED
      BY <1>0, <2>6, <2>8, <2>10, <3>1, LinesText
  <2>12. Line(<<>>, V, d) \in Seq(Sound) /\ V.text \in Seq(Sound) /\ (V.done => rest.text \in Seq(Sound))
    <3>1. Line(<<>>, V, d) \in Seq(Alphabet(d))
      BY <2>11 DEF LinesRead
    <3>2. Seq(Alphabet(d)) \subseteq Seq(Sound) /\ Seq(Alphabet(d + 1)) \subseteq Seq(Alphabet(d))
      BY <1>0, Alphabets
    <3> QED
      BY <2>6, <2>8, <3>1, <3>2
  <2>13. ASSUME V.done, V.next \in 1..m, st[V.next] = u PROVE InsideRuns(ev, st, tx, m, V.next, st[V.next], rest)
    <3>1. V.next \in (i + 1)..m
      <4> HIDE DEF s, d
      <4> QED
        BY <1>0, <2>7, <2>13
    <3>2. ItemsRun(ev, st, tx, m, V.next)
      BY <3>1
    <3>3. Top(st[V.next]) = "array" /\ Len(st[V.next]) = d
      BY <2>1, <2>13
    <3>4. InsideRuns(ev, st, tx, m, V.next, st[V.next], ItemsOf(ev, V.next, Len(st[V.next])))
      BY <3>2, <3>3 DEF ItemsRun
    <3> QED
      BY <3>3, <3>4 DEF rest
  <2>14. LineAt(ev, st, tx, m, i, i, <<>>, <<>>, u, V, rest, M)
    BY <1>3, <2>1, <2>2, <2>4, <2>5, <2>10, <2>11, <2>12, <2>13 DEF LineAt
  <2> QED
    BY <2>14, NextRuns
<1> QED
  BY <1>0, <1>1, <1>2, <1>3

\* The run of the render is what the descent reads, at every position.
Runs(ev, st, tx, m, i) ==
    ValueRuns(ev, st, tx, m, i) /\ MembersRun(ev, st, tx, m, i) /\ ItemsRun(ev, st, tx, m, i)

\* What begins at i runs when all that begins later does.
LEMMA RunsStep ==
  ASSUME NEW ev, NEW st, NEW tx, NEW m, IsTrace(ev, st, tx, m), NEW i \in 1..m,
         \A j \in (i + 1)..m : Runs(ev, st, tx, m, j)
  PROVE  Runs(ev, st, tx, m, i)
<1>1. \A j \in (i + 1)..m : ValueRuns(ev, st, tx, m, j) /\ MembersRun(ev, st, tx, m, j) /\ ItemsRun(ev, st, tx, m, j)
  BY DEF Runs
<1>2. ValueRuns(ev, st, tx, m, i)
  BY <1>1, ValueStep
<1>3. MembersRun(ev, st, tx, m, i)
  BY <1>1, MembersStep
<1>4. ItemsRun(ev, st, tx, m, i)
  BY <1>1, <1>2, ItemsStep
<1> QED
  BY <1>2, <1>3, <1>4 DEF Runs

\* The run of a stream makes of every position what the descent reads there.
LEMMA AllRun ==
  ASSUME NEW ev, NEW st, NEW tx, NEW m, IsTrace(ev, st, tx, m), NEW i \in 1..m
  PROVE  Runs(ev, st, tx, m, i)
<1> DEFINE T == {k \in Nat : \A j \in 1..m : j >= m - k => Runs(ev, st, tx, m, j)}
<1>1. m \in Nat
  <2>1. m \in 1..(Len(ev) + 1) /\ Len(ev) \in Nat
    BY TraceStep
  <2> QED
    BY <2>1
<1>2. 0 \in T
  <2>1. ASSUME NEW j \in 1..m, j >= m - 0 PROVE Runs(ev, st, tx, m, j)
    <3>1. \A l \in (j + 1)..m : Runs(ev, st, tx, m, l)
      BY <1>1, <2>1
    <3> QED
      BY <3>1, RunsStep
  <2> QED
    BY <2>1
<1>3. ASSUME NEW k \in T PROVE k + 1 \in T
  <2>1. ASSUME NEW j \in 1..m, j >= m - (k + 1) PROVE Runs(ev, st, tx, m, j)
    <3>1. \A l \in (j + 1)..m : Runs(ev, st, tx, m, l)
      BY <1>1, <2>1
    <3> QED
      BY <3>1, RunsStep
  <2> QED
    BY <2>1
<1>4. T = Nat
  <2>1. T \in SUBSET Nat
    OBVIOUS
  <2> HIDE DEF T
  <2> QED
    BY <1>2, <1>3, <2>1, Upward
<1>5. m \in T
  BY <1>1, <1>4
<1> QED
  BY <1>1, <1>5

-----------------------------------------------------------------------------
(* The root.                                                               *)

\* What the run of a stream makes of its reading.
RootRead(ev, st, tx, m) ==
    LET r == Reading(ev)
    IN  /\ r.ok \in BOOLEAN /\ r.done \in BOOLEAN /\ (r.done => r.ok) /\ r.text \in Seq(Sound)
        /\ r.ok <=> m = Len(ev) + 1
        /\ r.done <=> m = Len(ev) + 1 /\ Top(st[m]) = "root-done"
        /\ r.done => tx[m] = Document(ev)
        /\ r.ok /\ ~r.done => /\ r = ValueOf(ev, 1, 0)
                              /\ \E x \in Seq(Clean) : tx[m] = Shown(ev, 1, 0, r.text) \o x

\* The reading of a whole stream, against its run.
LEMMA RootRuns ==
  ASSUME NEW ev, NEW st, NEW tx, NEW m, IsTrace(ev, st, tx, m)
  PROVE  RootRead(ev, st, tx, m)
<1> DEFINE n == Len(ev)
           V == ValueOf(ev, 1, 0)
           r == Reading(ev)
<1>0. /\ ev \in Seq(Events) /\ m \in 1..(n + 1) /\ st[1] = <<>> /\ tx[1] = <<>>
  BY DEF IsTrace
<1>1. n \in Nat /\ 1 \in 1..m /\ 1 \in 1..(n + 1)
  BY <1>0
<1>2. ValueFate(ev, st, tx, m, 1, V)
  <2>1. ValueRuns(ev, st, tx, m, 1)
    BY <1>1, AllRun DEF Runs
  <2>2. Top(st[1]) = "none" /\ Len(st[1]) = 0
    BY <1>0 DEF Top
  <2>3. ~Holding(st[1], ev[1])
    BY <2>2 DEF Holding
  <2>4. Top(st[1]) \in Expecting /\ Top(st[1]) \notin {"array-open", "array"}
    BY <2>2 DEF Expecting
  <2> HIDE DEF V, n, r
  <2>5. ValueFate(ev, st, tx, m, 1, ValueOf(ev, 1, Len(st[1])))
    BY <2>3, <2>4, <2>1 DEF ValueRuns
  <2> QED
    BY <2>2, <2>5 DEF V
<1>3. EndsPast(V, 1, n) /\ IsReading(V) /\ V.text \in Seq(Sound)
  <2>1. 0 \in Nat /\ EndsPast(V, 1, n) /\ IsReading(V)
    BY <1>0, <1>1, ReadingRules
  <2>2. V.text \in Seq(Alphabet(0 + 1))
    BY <1>0, <1>1, TextsSound DEF Texts
  <2>3. Seq(Alphabet(0 + 1)) \subseteq Seq(Sound)
    BY Alphabets
  <2> QED
    BY <2>1, <2>2, <2>3
<1>4. V.ok \in BOOLEAN /\ V.done \in BOOLEAN /\ (V.done => V.ok /\ V.next \in 2..(n + 1))
  <2>1. 1 + 1 = 2
    OBVIOUS
  <2> HIDE DEF V, n
  <2> QED
    BY <1>3, <2>1 DEF EndsPast
<1>5. r = IF V.done /\ V.next <= n THEN NoTree ELSE V
  BY DEF Reading, ValueOf
<1> HIDE DEF V, r
<1>6. Done(Opened(st[1])) = <<Marker("root-done")>> /\ Top(<<Marker("root-done")>>) = "root-done"
      /\ Lead(st[1]) = <<>> /\ Len(st[1]) = 0 /\ Ending(0) = <<Newline, RecordEnd>>
  <2>1. Opened(<<>>) = <<>> /\ Lead(<<>>) = <<>> /\ Done(<<>>) = <<Marker("root-done")>>
    BY DEF Opened, Top, Lead, Done
  <2>2. Top(<<Marker("root-done")>>) = "root-done"
    BY DEF Top, Marker
  <2>3. Ending(0) = <<Newline>> \o <<RecordEnd>>
    BY DEF Ending
  <2>4. <<Newline>> \o <<RecordEnd>> = <<Newline, RecordEnd>>
    BY SoundTokens, TwoIs
  <2> QED
    BY <1>0, <2>1, <2>2, <2>3, <2>4
<1>7. /\ V.done => V.next \in 1..m /\ st[V.next] = <<Marker("root-done")>>
                   /\ tx[V.next] = tx[1] \o (<<>> \o V.text \o <<Newline, RecordEnd>>)
      /\ V.ok /\ ~V.done => /\ m = n + 1 /\ Top(st[m]) # "root-done"
                            /\ \E x \in Seq(Clean) : tx[m] = tx[1] \o (Shown(ev, 1, 0, V.text) \o x)
      /\ ~V.ok => m <= n
  <2> HIDE DEF n
  <2> QED
    BY <1>2, <1>6 DEF ValueFate, Fate, n
<1>8. CASE ~V.ok
  <2>1. m <= n /\ ~V.done
    BY <1>4, <1>7, <1>8
  <2>2. r = V
    BY <1>5, <2>1
  <2>3. m # n + 1
    BY <1>0, <1>1, <2>1
  <2> QED
    BY <1>3, <1>4, <1>8, <2>1, <2>2, <2>3 DEF RootRead, r
<1>9. CASE V.ok /\ ~V.done
  <2>1. r = V
    BY <1>5, <1>9
  <2>2. PICK x \in Seq(Clean) : tx[m] = tx[1] \o (Shown(ev, 1, 0, V.text) \o x)
    BY <1>7, <1>9
  <2> DEFINE w == Shown(ev, 1, 0, V.text)
  <2>3. w \in Seq(Sound)
    <3>1. RecordEnd \in Sound /\ Open \in Sound
      BY SoundTokens
    <3>2. <<>> \in Seq(Sound) /\ <<RecordEnd>> \in Seq(Sound) /\ <<RecordEnd, Open>> \in Seq(Sound)
      BY <3>1
    <3> DEFINE o == <<RecordEnd, Open>>
    <3> HIDE DEF o
    <3>3. o \o V.text \in Seq(Sound)
      BY <1>3, <3>2, Join DEF o
    <3> QED
      BY <3>2, <3>3 DEF Shown, o
  <2> HIDE DEF w
  <2>4. tx[m] = w \o x
    <3>1. x \in Seq(Sound)
      BY CleanIsSound
    <3>2. w \o x \in Seq(Sound)
      BY <2>3, <3>1, Join
    <3> DEFINE z == w \o x
    <3> HIDE DEF z
    <3>3. <<>> \o z = z
      BY <3>2, JoinEmpty DEF z
    <3> QED
      BY <1>0, <2>2, <3>3 DEF z, w
  <2>5. m = n + 1 /\ Top(st[m]) # "root-done"
    BY <1>7, <1>9
  <2> QED
    BY <1>3, <1>4, <1>9, <2>1, <2>4, <2>5 DEF RootRead, r, V, w
<1>10. CASE V.done
  <2> DEFINE j == V.next
  <2>1. j \in 1..m /\ Top(st[j]) = "root-done" /\ j \in 2..(n + 1)
    BY <1>4, <1>6, <1>7, <1>10
  <2>2. tx[j] = V.text \o <<Newline, RecordEnd>>
    <3> DEFINE e == <<Newline, RecordEnd>>
    <3>1. Newline \in Sound /\ RecordEnd \in Sound
      BY SoundTokens
    <3>2. e \in Seq(Sound)
      BY <3>1
    <3> DEFINE z == V.text \o e
               t == V.text
    <3> HIDE DEF e
    <3>3. z \in Seq(Sound)
      BY <1>3, <3>2, Join
    <3>4. <<>> \o t = t
      BY <1>3, JoinEmpty
    <3> HIDE DEF z
    <3>5. <<>> \o z = z
      BY <3>3, JoinEmpty
    <3> HIDE DEF t
    <3>6. tx[j] = <<>> \o (<<>> \o t \o e)
      BY <1>0, <1>7, <1>10 DEF t, e
    <3>7. tx[j] = <<>> \o (t \o e)
      BY <3>4, <3>6
    <3> QED
      BY <3>5, <3>7 DEF z, t, e
  <2> HIDE DEF j
  <2>3. CASE j <= n
    <3>1. ~May(st[j], ev[j])
      <4>1. ev[j] \in Events
        BY <1>0, <1>1, <2>1, <2>3
      <4>2. ev[j].event \in {"object-start", "array-start", "object-end", "array-end", "key", "scalar"}
        BY <4>1, EventIs
      <4>3. Top(st[j]) \notin Expecting
        BY <2>1 DEF Expecting
      <4> QED
        BY <2>1, <4>2, <4>3 DEF May
    <3>2. m <= n
      BY <2>1, <2>3, <3>1, TraceStops
    <3>3. r = NoTree
      BY <1>5, <1>10, <2>3 DEF j
    <3>4. m # n + 1
      BY <1>0, <1>1, <3>2
    <3>5. ~r.ok /\ ~r.done /\ r.text \in Seq(Sound) /\ r.ok \in BOOLEAN /\ r.done \in BOOLEAN
      BY <3>3, ReadingsEnd, SimpleTexts
    <3> QED
      BY <3>4, <3>5 DEF RootRead, r
  <2>4. CASE j = n + 1
    <3>1. m = n + 1
      BY <1>0, <1>1, <2>1, <2>4
    <3>2. r = V
      <4>1. ~(j <= n)
        BY <1>1, <2>4
      <4> QED
        BY <1>5, <4>1 DEF j
    <3>3. tx[m] = Document(ev) /\ Top(st[m]) = "root-done"
      BY <2>1, <2>2, <2>4, <3>1, <3>2 DEF Document, r
    <3> QED
      BY <1>3, <1>4, <1>10, <3>1, <3>2, <3>3 DEF RootRead, r
  <2> QED
    BY <1>1, <2>1, <2>3, <2>4
<1> QED
  BY <1>4, <1>8, <1>9, <1>10

\* A text that ends with the end of a record, or is empty.
Settles(t) == t = <<>> \/ t[Len(t)] = RecordEnd

\* The last token of two texts.
LEMMA LastOf ==
  ASSUME NEW S, NEW a \in Seq(S), NEW b \in Seq(S), b # <<>>
  PROVE  (a \o b)[Len(a \o b)] = b[Len(b)] /\ a \o b # <<>>
<1>1. Len(b) \in Nat /\ Len(b) >= 1 /\ Len(a) \in Nat /\ Len(a \o b) = Len(a) + Len(b)
  OBVIOUS
<1>2. \A i \in 1..(Len(a) + Len(b)) : (a \o b)[i] = IF i <= Len(a) THEN a[i] ELSE b[i - Len(a)]
  BY ConcatProperties
<1>3. (a \o b)[Len(a) + Len(b)] = b[(Len(a) + Len(b)) - Len(a)]
  BY <1>1, <1>2
<1>4. (Len(a) + Len(b)) - Len(a) = Len(b)
  BY <1>1
<1> QED
  BY <1>1, <1>3, <1>4

\* The lines of the root's own members and items each end a record.
LEMMA LineSettles ==
  ASSUME NEW name \in Seq(Clean), NEW value, value.text \in Seq(Sound),
         NEW rest, rest.text \in Seq(Sound), Settles(rest.text)
  PROVE  Settles(Line(name, value, 1) \o rest.text)
<1> DEFINE a == Indentation(1) \o name \o value.text \o <<Comma>>
           e == <<RecordEnd>>
           l == Line(name, value, 1)
           t == rest.text
<1>1. /\ Indentation(1) \in Seq(Sound) /\ name \in Seq(Sound) /\ <<Comma>> \in Seq(Sound) /\ e \in Seq(Sound)
  <2>1. Indentation(1) \in Seq(Clean) /\ Comma \in Sound /\ RecordEnd \in Sound
    BY Indented, SoundTokens
  <2> QED
    BY <2>1, CleanIsSound
<1>2. a \in Seq(Sound)
  <2> DEFINE i == Indentation(1)
             v == value.text
             c == <<Comma>>
  <2>1. i \in Seq(Sound) /\ name \in Seq(Sound) /\ v \in Seq(Sound) /\ c \in Seq(Sound)
    BY <1>1
  <2> HIDE DEF i, v, c
  <2>2. i \o name \o v \o c \in Seq(Sound)
    BY <2>1, Join4
  <2> QED
    BY <2>2 DEF i, v, c
<1>3. l = a \o e
  BY DEF Line, LineEnds
<1>4. e # <<>> /\ e[Len(e)] = RecordEnd
  OBVIOUS
<1> HIDE DEF a, e, l
<1>5. l[Len(l)] = RecordEnd /\ l \in Seq(Sound)
  BY <1>1, <1>2, <1>3, <1>4, LastOf, Join
<1>6. CASE t = <<>>
  <2>1. l \o t = l
    BY <1>5, <1>6, JoinEmpty
  <2> QED
    BY <1>5, <2>1 DEF Settles, l
<1>7. CASE t # <<>>
  <2>1. t[Len(t)] = RecordEnd /\ t \in Seq(Sound)
    BY <1>7 DEF Settles
  <2>2. (l \o t)[Len(l \o t)] = t[Len(t)]
    BY <1>5, <1>7, <2>1, LastOf
  <2> QED
    BY <2>1, <2>2 DEF Settles, l
<1> QED
  BY <1>6, <1>7

\* The lines of the root end with the end of a record.
LEMMA LinesSettle ==
  ASSUME NEW name \in Seq(Clean), NEW value, NEW rest, NEW r,
         value.done \in BOOLEAN, value.ok \in BOOLEAN, value.text \in Seq(Alphabet(2)),
         value.done => /\ rest.ok \in BOOLEAN /\ rest.text \in Seq(Alphabet(1)) /\ IsReading(rest)
                       /\ Settles(rest.text),
         r = Lines(name, value, rest, 1)
  PROVE  Settles(r.text)
<1>1. LinesRead(name, value, rest, 1)
  BY LinesText
<1>2. Begun(<<>>).text = <<>> /\ NoTree.text = <<>>
  BY DEF Begun, NoTree
<1>3. CASE ~value.done
  BY <1>1, <1>2, <1>3 DEF LinesRead, Settles
<1>4. CASE value.done /\ ~rest.ok
  BY <1>1, <1>2, <1>4 DEF LinesRead, Settles
<1>5. CASE value.done /\ rest.ok
  <2>1. r.text = Line(name, value, 1) \o rest.text
    BY <1>1, <1>5 DEF LinesRead
  <2>2. value.text \in Seq(Sound) /\ rest.text \in Seq(Sound)
    <3>1. Seq(Alphabet(2)) \subseteq Seq(Sound) /\ Seq(Alphabet(1)) \subseteq Seq(Sound)
      BY Alphabets
    <3> QED
      BY <1>5, <3>1
  <2>3. Settles(Line(name, value, 1) \o rest.text)
    BY <1>5, <2>2, LineSettles
  <2> QED
    BY <2>1, <2>3
<1> QED
  BY <1>3, <1>4, <1>5

\* So do all of those from i on.
RootLines(ev, i) == Settles(MembersOf(ev, i, 1).text) /\ Settles(ItemsOf(ev, i, 1).text)

\* They do when those later do.
LEMMA RootLinesStep ==
  ASSUME NEW ev \in Seq(Events), NEW i \in 1..(Len(ev) + 1), \A j \in (i + 1)..(Len(ev) + 1) : RootLines(ev, j)
  PROVE  RootLines(ev, i)
<1> DEFINE n == Len(ev)
<1>0. n \in Nat /\ 1 \in Nat
  OBVIOUS
<1>a. Settles(Begun(<<>>).text) /\ Settles(NoTree.text) /\ \A k : Settles(Whole(k, <<>>).text)
  BY DEF Begun, NoTree, Whole, Settles
<1>b. ASSUME NEW k \in 1..(n + 1), NEW V, V = ValueOf(ev, k, 1)
      PROVE  /\ V.done \in BOOLEAN /\ V.ok \in BOOLEAN /\ V.text \in Seq(Alphabet(2))
             /\ V.done => V.next \in (k + 1)..(n + 1)
  <2>1. EndsPast(V, k, n)
    BY <1>b, ReadingRules
  <2>2. V.text \in Seq(Alphabet(1 + 1))
    BY <1>b, TextsSound DEF Texts
  <2>3. 1 + 1 = 2
    OBVIOUS
  <2> QED
    BY <2>1, <2>2, <2>3 DEF EndsPast
<1>1. Settles(MembersOf(ev, i, 1).text)
  <2>1. CASE i = n + 1
    BY <1>a, <2>1, MembersRule
  <2>2. CASE i <= n /\ ev[i].event = "object-end"
    BY <1>a, <2>2, MembersRule
  <2>3. CASE i <= n /\ ev[i].event = "key"
    <3> DEFINE V == ValueOf(ev, i + 1, 1)
               rest == MembersOf(ev, V.next, 1)
               name == <<FieldToken(ev[i].name), Assign>>
               r == MembersOf(ev, i, 1)
    <3>1. r = Lines(name, V, rest, 1) /\ i + 1 \in 1..(n + 1)
      BY <2>3, MembersRule
    <3>2. name \in Seq(Clean)
      <4>1. ev[i].name \in Names
        BY <2>3, EventIs, MembersRule
      <4>2. FieldToken(ev[i].name) \in Clean /\ Assign \in Clean
        BY <4>1, CleanTokens
      <4> QED
        BY <4>2
    <3>3. V.done \in BOOLEAN /\ V.ok \in BOOLEAN /\ V.text \in Seq(Alphabet(2))
          /\ (V.done => V.next \in ((i + 1) + 1)..(n + 1))
      BY <1>b, <3>1
    <3>4. V.done => V.next \in (i + 1)..(n + 1) /\ V.next \in 1..(n + 1)
      <4> HIDE DEF V, rest, name, r
      <4> QED
        BY <1>0, <3>3
    <3>5. V.done => /\ EndsPast(rest, V.next, n) /\ IsReading(rest) /\ rest.text \in Seq(Alphabet(1))
                    /\ Settles(rest.text)
      BY <3>4, ReadingRules, TextsSound DEF Texts, RootLines
    <3> HIDE DEF V, rest, name, r
    <3>6. V.done => rest.ok \in BOOLEAN
      BY <3>5 DEF EndsPast
    <3>7. Settles(r.text)
      BY <3>1, <3>2, <3>3, <3>5, <3>6, LinesSettle
    <3> QED
      BY <3>7 DEF r
  <2>4. CASE i <= n /\ ev[i].event \notin {"object-end", "key"}
    BY <1>a, <2>4, MembersRule
  <2> QED
    BY <1>0, <2>1, <2>2, <2>3, <2>4
<1>2. Settles(ItemsOf(ev, i, 1).text)
  <2>1. CASE i = n + 1
    BY <1>a, <2>1, ItemsRule
  <2>2. CASE i <= n /\ ev[i].event = "array-end"
    BY <1>a, <2>2, ItemsRule
  <2>3. CASE i <= n /\ ev[i].event # "array-end"
    <3> DEFINE V == ValueOf(ev, i, 1)
               rest == ItemsOf(ev, V.next, 1)
               name == <<>>
               r == ItemsOf(ev, i, 1)
    <3>1. r = Lines(name, V, rest, 1)
      BY <2>3, ItemsRule
    <3>2. name \in Seq(Clean)
      OBVIOUS
    <3>3. V.done \in BOOLEAN /\ V.ok \in BOOLEAN /\ V.text \in Seq(Alphabet(2))
          /\ (V.done => V.next \in (i + 1)..(n + 1))
      BY <1>b
    <3>4. V.done => V.next \in 1..(n + 1)
      <4> HIDE DEF V, rest, r
      <4> QED
        BY <1>0, <3>3
    <3>5. V.done => /\ EndsPast(rest, V.next, n) /\ IsReading(rest) /\ rest.text \in Seq(Alphabet(1))
                    /\ Settles(rest.text)
      BY <3>3, <3>4, ReadingRules, TextsSound DEF Texts, RootLines
    <3> HIDE DEF V, rest, r, name
    <3>6. V.done => rest.ok \in BOOLEAN
      BY <3>5 DEF EndsPast
    <3>7. Settles(r.text)
      BY <3>1, <3>2, <3>3, <3>5, <3>6, LinesSettle
    <3> QED
      BY <3>7 DEF r
  <2> QED
    BY <1>0, <2>1, <2>2, <2>3
<1> QED
  BY <1>1, <1>2 DEF RootLines

\* They do wherever they begin.
LEMMA RootSettles == ASSUME NEW ev \in Seq(Events), NEW i \in 1..(Len(ev) + 1) PROVE RootLines(ev, i)
<1> DEFINE n == Len(ev)
           T == {k \in Nat : \A j \in 1..(n + 1) : j >= n + 1 - k => RootLines(ev, j)}
<1>1. n \in Nat
  OBVIOUS
<1>2. 0 \in T
  <2>1. ASSUME NEW j \in 1..(n + 1), j >= n + 1 - 0 PROVE RootLines(ev, j)
    <3>1. \A l \in (j + 1)..(n + 1) : RootLines(ev, l)
      BY <1>1, <2>1
    <3> QED
      BY <3>1, RootLinesStep
  <2> QED
    BY <2>1
<1>3. ASSUME NEW k \in T PROVE k + 1 \in T
  <2>1. ASSUME NEW j \in 1..(n + 1), j >= n + 1 - (k + 1) PROVE RootLines(ev, j)
    <3>1. \A l \in (j + 1)..(n + 1) : RootLines(ev, l)
      BY <1>1, <2>1
    <3> QED
      BY <3>1, RootLinesStep
  <2> QED
    BY <2>1
<1>4. T = Nat
  <2>1. T \in SUBSET Nat
    OBVIOUS
  <2> HIDE DEF T
  <2> QED
    BY <1>2, <1>3, <2>1, Upward
<1>5. n \in T
  BY <1>1, <1>4
<1> QED
  BY <1>1, <1>5

\* What is written of a root begun ends with a record.
LEMMA BegunSettles ==
  ASSUME NEW ev \in Seq(Events), NEW V, V = ValueOf(ev, 1, 0), V.ok, ~V.done
  PROVE  Settles(V.text)
<1> DEFINE n == Len(ev)
<1>0. n \in Nat /\ 1 \in 1..(n + 1) /\ 0 \in Nat /\ 0 + 1 = 1 /\ 1 + 1 = 2
  OBVIOUS
<1>1. CASE 1 = n + 1
  <2>1. V = Begun(<<>>)
    BY <1>0, <1>1, ValueRule
  <2> QED
    BY <2>1 DEF Begun, Settles
<1>2. CASE 1 <= n
  <2>1. ev[1] \in Events /\ 2 \in 1..(n + 1)
    BY <1>0, <1>2
  <2>2. ev[1].event # "scalar"
    <3>1. ev[1].event = "scalar" => V = Whole(1 + 1, <<ScalarToken(ev[1].value)>>)
      BY <1>0, <1>2, ValueRule
    <3> QED
      BY <3>1, ReadingsEnd
  <2>3. CASE ev[1].event = "object-start"
    <3>1. V = Container(ev, 1, MembersOf(ev, 1 + 1, 0 + 1), 0)
      BY <1>0, <1>2, <2>3, ValueRule
    <3> DEFINE inside == MembersOf(ev, 2, 1)
    <3>2. V = Container(ev, 1, inside, 0) /\ Settles(inside.text)
      BY <1>0, <2>1, <3>1, RootSettles DEF RootLines
    <3> HIDE DEF inside
    <3>3. inside.done => V.done
      BY <3>2, ReadingsEnd DEF Container
    <3>4. V = inside
      BY <3>2, <3>3 DEF Container
    <3> QED
      BY <3>2, <3>4
  <2>4. CASE ev[1].event = "array-start"
    <3>1. V = Container(ev, 1, ItemsOf(ev, 1 + 1, 0 + 1), 0)
      BY <1>0, <1>2, <2>4, ValueRule
    <3> DEFINE inside == ItemsOf(ev, 2, 1)
    <3>2. V = Container(ev, 1, inside, 0) /\ Settles(inside.text)
      BY <1>0, <2>1, <3>1, RootSettles DEF RootLines
    <3> HIDE DEF inside
    <3>3. inside.done => V.done
      BY <3>2, ReadingsEnd DEF Container
    <3>4. V = inside
      BY <3>2, <3>3 DEF Container
    <3> QED
      BY <3>2, <3>4
  <2>5. CASE ev[1].event \notin {"scalar", "object-start", "array-start"}
    <3>1. V = NoTree
      BY <1>0, <1>2, <2>5, ValueRule
    <3> QED
      BY <3>1, ReadingsEnd
  <2> QED
    BY <2>2, <2>3, <2>4, <2>5
<1> QED
  BY <1>0, <1>1, <1>2

\* The part of a text before the rest of a record is all its records.
LEMMA RecordsCut ==
  ASSUME NEW p \in Seq(Sound), NEW x \in Seq(Clean), Settles(p), text = p \o x
  PROVE  RecordsWritten = p
<1> DEFINE k == Len(p)
           n == Len(text)
           Cut(i) == LetThrough(i) /\ \A j \in (i + 1)..Len(text) : text[j] # RecordEnd
<1>1. /\ k \in Nat /\ Len(x) \in Nat /\ n = k + Len(x) /\ text \in Seq(Sound) /\ x \in Seq(Sound)
      /\ \A i \in 1..n : text[i] = IF i <= k THEN p[i] ELSE x[i - k]
  <2>1. x \in Seq(Sound)
    BY CleanIsSound
  <2>2. \A i \in 1..(Len(p) + Len(x)) : (p \o x)[i] = IF i <= Len(p) THEN p[i] ELSE x[i - Len(p)]
    BY <2>1, ConcatProperties
  <2>3. k \in Nat /\ Len(x) \in Nat /\ Len(p \o x) = k + Len(x) /\ p \o x \in Seq(Sound)
    BY <2>1, Join
  <2> QED
    BY <2>1, <2>2, <2>3
<1>2. \A i \in (k + 1)..n : text[i] # RecordEnd
  <2> SUFFICES ASSUME NEW i \in (k + 1)..n PROVE text[i] # RecordEnd
    OBVIOUS
  <2>1. i \in 1..n /\ ~(i <= k) /\ i - k \in 1..Len(x)
    <3> HIDE DEF k, n
    <3> QED
      BY <1>1
  <2>2. text[i] = x[i - k]
    BY <1>1, <2>1
  <2>3. x[i - k] \in Clean
    BY <2>1
  <2> QED
    BY <2>2, <2>3 DEF Clean
<1>3. p # <<>> => k \in 1..n /\ text[k] = RecordEnd
  <2>1. p # <<>> => k >= 1
    OBVIOUS
  <2>2. p # <<>> => p[k] = RecordEnd
    BY DEF Settles
  <2> HIDE DEF k, n
  <2>3. p # <<>> => k \in 1..n /\ k <= k
    BY <1>1, <2>1
  <2>4. p # <<>> => text[k] = p[k]
    BY <1>1, <2>3
  <2> QED
    BY <2>2, <2>3, <2>4
<1>4. p = <<>> => k = 0
  OBVIOUS
<1>5. k \in 0..n /\ Cut(k)
  <2>1. k \in 0..n
    <3> HIDE DEF k, n
    <3> QED
      BY <1>1
  <2>2. LetThrough(k)
    <3>1. CASE p = <<>>
      <4>1. k \notin 1..Len(text)
        BY <1>4, <3>1
      <4> QED
        BY <4>1 DEF LetThrough
    <3>2. CASE p # <<>>
      BY <1>3, <3>2 DEF LetThrough
    <3> QED
      BY <3>1, <3>2
  <2> QED
    BY <1>2, <2>1, <2>2
<1>6. ASSUME NEW i \in 0..n, Cut(i) PROVE i = k
  <2>1. ~(i < k)
    <3> SUFFICES ASSUME i < k PROVE FALSE
      OBVIOUS
    <3>1. p # <<>>
      <4>1. k # 0
        <5> HIDE DEF k, n
        <5> QED
          BY <1>1
      <4> QED
        BY <1>4, <4>1
    <3>2. k \in (i + 1)..n /\ text[k] = RecordEnd
      <4>1. k \in 1..n /\ text[k] = RecordEnd
        BY <1>3, <3>1
      <4>2. k \in (i + 1)..n
        <5> HIDE DEF k, n
        <5> QED
          BY <1>1, <4>1
      <4> QED
        BY <4>1, <4>2
    <3> QED
      BY <1>6, <3>2
  <2>2. ~(i > k)
    <3> SUFFICES ASSUME i > k PROVE FALSE
      OBVIOUS
    <3>1. i \in 1..n /\ i \in (k + 1)..n
      <4> HIDE DEF k, n
      <4> QED
        BY <1>1
    <3>2. text[i] = RecordEnd
      BY <1>6, <3>1 DEF LetThrough
    <3> QED
      BY <1>2, <3>1, <3>2
  <2> HIDE DEF k, n
  <2> QED
    BY <1>1, <2>1, <2>2
<1>7. (CHOOSE i \in 0..n : Cut(i)) = k
  <2> HIDE DEF Cut, k, n
  <2> QED
    BY <1>5, <1>6
<1>8. RecordsWritten = SubSeq(text, 1, k)
  BY <1>7 DEF RecordsWritten
<1>9. SubSeq(text, 1, k) = p
  <2>1. CASE p = <<>>
    BY <1>4, <2>1
  <2>2. CASE p # <<>>
    <3>1. 1 \in 1..Len(p) /\ Len(p) \in 1..Len(p) /\ x \in Seq(Sound)
      BY <1>1, <2>2
    <3>2. SubSeq(p \o x, 1, Len(p)) = SubSeq(p, 1, Len(p))
      BY <3>1, SubSeqOfConcat1
    <3>3. SubSeq(p, 1, Len(p)) = p
      OBVIOUS
    <3> QED
      BY <3>2, <3>3
  <2> QED
    BY <2>1, <2>2
<1> QED
  BY <1>8, <1>9

\* The records of a stream begun, as what its run has written of it.
LEMMA RecordsRun ==
  ASSUME NEW ev, NEW st, NEW tx, NEW m, IsTrace(ev, st, tx, m), m = Len(ev) + 1, tx[m] = text
  PROVE  RecordsWritten = Records(ev)
<1> DEFINE r == Reading(ev)
<1>0. ev \in Seq(Events) /\ Len(ev) \in Nat
  BY DEF IsTrace
<1>1. RootRead(ev, st, tx, m)
  BY RootRuns
<1>2. /\ r.ok /\ r.done \in BOOLEAN /\ r.text \in Seq(Sound)
      /\ r.done => text = Document(ev)
      /\ ~r.done => /\ r = ValueOf(ev, 1, 0)
                    /\ \E x \in Seq(Clean) : text = Shown(ev, 1, 0, r.text) \o x
  BY <1>1 DEF RootRead
<1>3. <<RecordEnd>> \in Seq(Sound) /\ <<RecordEnd, Open>> \in Seq(Sound) /\ <<Newline, RecordEnd>> \in Seq(Sound)
      /\ Settles(<<>>) /\ Settles(<<RecordEnd>>) /\ <<>> \in Seq(Sound) /\ <<>> \in Seq(Clean)
  <2>1. RecordEnd \in Sound /\ Open \in Sound /\ Newline \in Sound
    BY SoundTokens
  <2> QED
    BY <2>1 DEF Settles
<1>4. r.done => ev # <<>>
  <2> SUFFICES ASSUME ev = <<>> PROVE ~r.done
    OBVIOUS
  <2>1. 1 = Len(ev) + 1 /\ 1 \in 1..(Len(ev) + 1)
    OBVIOUS
  <2>2. ValueOf(ev, 1, 0) = Begun(<<>>)
    BY <1>0, <2>1, ValueRule
  <2>3. r = NoTree \/ r = Begun(<<>>)
    BY <2>2 DEF Reading, ValueOf
  <2> QED
    BY <2>3, ReadingsEnd
<1>5. CASE r.done
  <2> DEFINE t == r.text
             e == <<Newline, RecordEnd>>
             p == t \o e
  <2>1. text = p /\ Records(ev) = p
    <3>1. Document(ev) = p
      BY DEF Document
    <3>2. Records(ev) = Document(ev)
      BY <1>4, <1>5 DEF Records
    <3> QED
      BY <1>2, <1>5, <3>1, <3>2
  <2>2. e # <<>> /\ e[Len(e)] = RecordEnd /\ e \in Seq(Sound)
    BY <1>3
  <2> HIDE DEF e
  <2>3. p \in Seq(Sound) /\ Settles(p)
    <3>1. t \in Seq(Sound)
      BY <1>2
    <3> HIDE DEF t
    <3>2. p[Len(p)] = RecordEnd
      BY <2>2, <3>1, LastOf
    <3> QED
      BY <2>2, <3>1, <3>2, Join DEF Settles
  <2> HIDE DEF p
  <2>4. text = p \o <<>>
    BY <2>1, <2>3, JoinEmpty
  <2>5. RecordsWritten = p
    BY <1>3, <2>3, <2>4, RecordsCut
  <2> QED
    BY <2>1, <2>5
<1>6. CASE ~r.done
  <2> DEFINE t == r.text
             p == Shown(ev, 1, 0, t)
  <2>1. PICK x \in Seq(Clean) : text = p \o x
    BY <1>2, <1>6
  <2>2. Settles(t) /\ t \in Seq(Sound)
    <3>1. r = ValueOf(ev, 1, 0) /\ r.ok
      BY <1>2, <1>6
    <3> HIDE DEF r
    <3> QED
      BY <1>0, <1>2, <1>6, <3>1, BegunSettles
  <2> HIDE DEF t, r
  <2>3. p = Records(ev)
    <3>1. 1 = Len(ev) + 1 <=> ev = <<>>
      BY <1>0
    <3>2. p = IF ev = <<>> THEN <<>>
              ELSE IF t = <<>> \/ (BigAt(ev, 1) /\ Len(ev) = 3) THEN <<RecordEnd>>
              ELSE <<RecordEnd, Open>> \o t
      <4>1. 1 + 2 = 3 /\ ~(0 > 0)
        OBVIOUS
      <4> QED
        BY <3>1, <4>1 DEF Shown
    <3> HIDE DEF p
    <3>3. Records(ev) = IF ev = <<>> THEN <<>>
                        ELSE IF t = <<>> \/ (BigAt(ev, 1) /\ Len(ev) = 3) THEN <<RecordEnd>>
                        ELSE <<RecordEnd, Open>> \o t
      BY <1>6 DEF Records, r, t
    <3> QED
      BY <3>2, <3>3
  <2>4. p \in Seq(Sound) /\ Settles(p)
    <3> DEFINE o == <<RecordEnd, Open>>
    <3>1. t # <<>> => o \o t \in Seq(Sound) /\ Settles(o \o t)
      <4>1. o \in Seq(Sound)
        BY <1>3
      <4> HIDE DEF o
      <4>2. o \o t \in Seq(Sound)
        BY <2>2, <4>1, Join
      <4>3. t # <<>> => (o \o t)[Len(o \o t)] = t[Len(t)] /\ t[Len(t)] = RecordEnd
        BY <2>2, <4>1, LastOf DEF Settles
      <4> QED
        BY <4>2, <4>3 DEF Settles
    <3> QED
      BY <1>3, <3>1 DEF Shown
  <2> HIDE DEF p
  <2>5. RecordsWritten = p
    BY <2>1, <2>4, RecordsCut
  <2> QED
    BY <2>3, <2>5
<1> QED
  BY <1>2, <1>5, <1>6

-----------------------------------------------------------------------------
(* The run of the render.                                                  *)

\* A run over ev ends with a stack and a text.
RunEnds(ev, m, s, t) ==
    \E st, tx : IsTrace(ev, st, tx, m) /\ st[m] = s /\ tx[m] = t

\* What the render has taken is a run, up to an event it refused.
Traced ==
    /\ status # "refused" => RunEnds(seen, Len(seen) + 1, stack, text)
    /\ status = "refused" => seen # <<>> /\ RunEnds(seen, Len(seen), stack, text)
    /\ status = "finished" => Top(stack) = "root-done"
    /\ status = "cut short" => Top(stack) # "root-done"

\* A run and an event more, taken or refused, or an event less.
LEMMA TraceGrows ==
  ASSUME NEW ev, NEW st, NEW tx, NEW m, IsTrace(ev, st, tx, m), m = Len(ev) + 1,
         NEW e \in Events, May(st[m], e), NEW s, s = StackAfter(st[m], e), Shape(s),
         NEW t \in Seq(Sound), t = tx[m] \o Writes(st[m], e)
  PROVE  RunEnds(Append(ev, e), m + 1, s, t)
<1>0. /\ ev \in Seq(Events) /\ m \in 1..(Len(ev) + 1) /\ st[1] = <<>> /\ tx[1] = <<>>
      /\ \A i \in 1..m : Shape(st[i]) /\ tx[i] \in Seq(Sound)
      /\ \A i \in 1..(m - 1) : /\ May(st[i], ev[i])
                               /\ st[i + 1] = StackAfter(st[i], ev[i])
                               /\ tx[i + 1] = tx[i] \o Writes(st[i], ev[i])
  BY Zenon DEF IsTrace
<1> DEFINE n == m + 1
           su == [i \in 1..n |-> IF i = n THEN s ELSE st[i]]
           ty == [i \in 1..n |-> IF i = n THEN t ELSE tx[i]]
           ew == Append(ev, e)
<1>1. /\ ev \in Seq(Events) /\ Len(ev) \in Nat /\ m \in Nat /\ m >= 1 /\ st[1] = <<>> /\ tx[1] = <<>>
      /\ \A i \in 1..m : Shape(st[i]) /\ tx[i] \in Seq(Sound)
      /\ \A i \in 1..(m - 1) : /\ May(st[i], ev[i])
                               /\ st[i + 1] = StackAfter(st[i], ev[i])
                               /\ tx[i + 1] = tx[i] \o Writes(st[i], ev[i])
  <2>1. Len(ev) \in Nat /\ m \in Nat /\ m >= 1
    BY <1>0
  <2> QED
    BY <1>0, <2>1
<1>2. ew \in Seq(Events) /\ Len(ew) = m /\ ew[m] = e /\ \A i \in 1..(m - 1) : ew[i] = ev[i]
  BY <1>1
<1>3. /\ su[n] = s /\ ty[n] = t
      /\ \A i \in 1..m : su[i] = st[i] /\ ty[i] = tx[i]
  <2>1. n \in 1..n /\ \A i \in 1..m : i \in 1..n /\ i # n
    BY <1>1
  <2> HIDE DEF n
  <2> QED
    BY <2>1
<1> HIDE DEF su, ty, ew
<1>4. n \in 1..(Len(ew) + 1) /\ ~(n <= Len(ew)) /\ su[1] = <<>> /\ ty[1] = <<>>
  BY <1>1, <1>2, <1>3
<1>5. \A i \in 1..n : Shape(su[i]) /\ ty[i] \in Seq(Sound)
  <2> SUFFICES ASSUME NEW i \in 1..n PROVE Shape(su[i]) /\ ty[i] \in Seq(Sound)
    OBVIOUS
  <2>1. i = n \/ i \in 1..m
    BY <1>1
  <2> QED
    BY <1>1, <1>3, <2>1
<1>6. ASSUME NEW i \in 1..(n - 1)
      PROVE  /\ May(su[i], ew[i])
             /\ su[i + 1] = StackAfter(su[i], ew[i])
             /\ ty[i + 1] = ty[i] \o Writes(su[i], ew[i])
  <2>1. CASE i = m
    <3>0. m \in 1..m /\ i + 1 = n
      BY <1>1, <2>1
    <3>1. su[i] = st[m] /\ ty[i] = tx[m] /\ su[i + 1] = s /\ ty[i + 1] = t /\ ew[i] = e
      <4> HIDE DEF n
      <4> QED
        BY <1>2, <1>3, <2>1, <3>0
    <3> QED
      BY <3>1
  <2>2. CASE i # m
    <3>1. i \in 1..(m - 1) /\ i \in 1..m /\ i + 1 \in 1..m
      BY <1>1, <2>2
    <3> QED
      BY <1>1, <1>2, <1>3, <3>1
  <2> QED
    BY <2>1, <2>2
<1>7. IsTrace(ew, su, ty, n)
  <2> HIDE DEF n
  <2> QED
    BY <1>2, <1>4, <1>5, <1>6 DEF IsTrace
<1> QED
  BY <1>3, <1>7 DEF ew, RunEnds

\* A run that stops at an event no tree has.
LEMMA TraceRefuses ==
  ASSUME NEW ev, NEW st, NEW tx, NEW m, IsTrace(ev, st, tx, m), m = Len(ev) + 1,
         NEW e \in Events, ~May(st[m], e)
  PROVE  IsTrace(Append(ev, e), st, tx, m)
<1> DEFINE ew == Append(ev, e)
<1>1. ev \in Seq(Events) /\ Len(ev) \in Nat /\ m \in Nat /\ m >= 1
  BY DEF IsTrace
<1>2. ew \in Seq(Events) /\ Len(ew) = m /\ ew[m] = e /\ \A i \in 1..(m - 1) : ew[i] = ev[i]
  BY <1>1
<1> HIDE DEF ew
<1>3. m \in 1..(Len(ew) + 1)
  BY <1>1, <1>2
<1>4. IsTrace(ew, st, tx, m)
  BY <1>2, <1>3 DEF IsTrace
<1> QED
  BY <1>4 DEF ew

\* A run without the event it stopped at.
LEMMA TraceFront ==
  ASSUME NEW ev, NEW st, NEW tx, NEW m, IsTrace(ev, st, tx, m), m = Len(ev)
  PROVE  IsTrace(SubSeq(ev, 1, Len(ev) - 1), st, tx, m) /\ m = Len(SubSeq(ev, 1, Len(ev) - 1)) + 1
<1> DEFINE f == SubSeq(ev, 1, Len(ev) - 1)
<1>1. ev \in Seq(Events) /\ Len(ev) \in Nat /\ m \in Nat /\ m >= 1 /\ ev # <<>>
  BY DEF IsTrace
<1>2. f \in Seq(Events) /\ Len(f) = m - 1 /\ \A i \in 1..(m - 1) : f[i] = ev[i]
  BY <1>1, FrontFacts
<1> HIDE DEF f
<1>3. m \in 1..(Len(f) + 1) /\ ~(m <= Len(f)) /\ m = Len(f) + 1
  BY <1>1, <1>2
<1>4. IsTrace(f, st, tx, m)
  BY <1>2, <1>3 DEF IsTrace
<1> QED
  BY <1>3, <1>4 DEF f

\* The run begins with nothing taken.
LEMMA TracedFirst == Init => Traced
<1> SUFFICES ASSUME Init PROVE Traced
  OBVIOUS
<1> DEFINE z == [i \in 1..1 |-> <<>>]
<1>1. stack = <<>> /\ text = <<>> /\ seen = <<>> /\ status = "running" /\ Len(seen) = 0 /\ seen \in Seq(Events)
  BY DEF Init
<1>2. z[1] = <<>> /\ \A i \in 1..1 : z[i] = <<>>
  OBVIOUS
<1>3. Shape(<<>>) /\ <<>> \in Seq(Sound)
  BY DEF Shape
<1> HIDE DEF z
<1>4. IsTrace(seen, z, z, 1)
  <2>1. 1 \in 1..(Len(seen) + 1) /\ ~(1 <= Len(seen)) /\ \A i \in 1..(1 - 1) : FALSE
    BY <1>1
  <2>2. \A i \in 1..1 : Shape(z[i]) /\ z[i] \in Seq(Sound)
    BY <1>2, <1>3
  <2> QED
    BY <1>1, <1>2, <2>1, <2>2, Zenon DEF IsTrace
<1>5. RunEnds(seen, Len(seen) + 1, stack, text)
  BY <1>1, <1>2, <1>4 DEF RunEnds
<1> QED
  BY <1>1, <1>5 DEF Traced

\* An event taken makes the run longer.
LEMMA TracedGoes ==
  ASSUME IInv, Traced, NEW e \in Events, Goes(e), status = "running", Shape(stack'), text' \in Seq(Sound)
  PROVE  Traced'
<1>1. PICK st, tx : IsTrace(seen, st, tx, Len(seen) + 1) /\ st[Len(seen) + 1] = stack /\ tx[Len(seen) + 1] = text
  BY DEF Traced, RunEnds
<1>2. /\ seen' = Append(seen, e) /\ May(stack, e) /\ stack' = StackAfter(stack, e)
      /\ text' = text \o Writes(stack, e) /\ status' = status
  BY DEF Goes
<1>3. seen \in Seq(Events) /\ Len(seen) \in Nat /\ Len(seen') = Len(seen) + 1
  BY <1>2, Invariant
<1> DEFINE m == Len(seen) + 1
           s == stack'
           t == text'
<1>4. RunEnds(Append(seen, e), m + 1, s, t)
  <2>1. m = Len(seen) + 1 /\ IsTrace(seen, st, tx, m) /\ May(st[m], e) /\ s = StackAfter(st[m], e)
        /\ t = tx[m] \o Writes(st[m], e) /\ Shape(s) /\ t \in Seq(Sound)
    BY <1>1, <1>2
  <2> HIDE DEF m, s, t
  <2>2. s \in {s} /\ t \in Seq(Sound)
    BY <2>1
  <2> QED
    BY <2>1, <2>2, TraceGrows
<1>5. RunEnds(seen, Len(seen) + 1, stack, text)'
  BY <1>2, <1>3, <1>4 DEF RunEnds
<1> QED
  BY <1>2, <1>5 DEF Traced

\* A refused event ends it where it was.
LEMMA TracedRefuse ==
  ASSUME IInv, Traced, NEW e \in Events, Refuse(e)
  PROVE  Traced'
<1>1. /\ seen' = Append(seen, e) /\ ~MaySee(e) /\ status = "running" /\ status' = "refused"
      /\ stack' = stack /\ text' = text
  BY DEF Refuse, Takes
<1>2. PICK st, tx : IsTrace(seen, st, tx, Len(seen) + 1) /\ st[Len(seen) + 1] = stack /\ tx[Len(seen) + 1] = text
  BY <1>1 DEF Traced, RunEnds
<1>3. seen \in Seq(Events) /\ Len(seen') = Len(seen) + 1 /\ seen' # <<>>
  BY <1>1, Invariant
<1> DEFINE m == Len(seen) + 1
<1>4. IsTrace(Append(seen, e), st, tx, m)
  <2>1. ~May(st[m], e) /\ IsTrace(seen, st, tx, m) /\ m = Len(seen) + 1
    BY <1>1, <1>2, MaySeeIs
  <2> HIDE DEF m
  <2> QED
    BY <2>1, TraceRefuses
<1>5. RunEnds(seen, Len(seen), stack, text)'
  BY <1>1, <1>2, <1>3, <1>4 DEF RunEnds
<1> QED
  BY <1>1, <1>3, <1>5 DEF Traced

\* The end of the events, and a stutter.
LEMMA TracedStops ==
  ASSUME Traced, Finish \/ UNCHANGED vars
  PROVE  Traced'
<1>1. CASE UNCHANGED vars
  BY <1>1 DEF vars, Traced, RunEnds
<1>2. CASE Finish
  BY <1>2 DEF Finish, Traced, RunEnds
<1> QED
  BY <1>1, <1>2

\* Every step of the render keeps the run.
LEMMA TracedStep == IInv /\ IInv' /\ Traced /\ [Next]_vars => Traced'
<1> SUFFICES ASSUME IInv, IInv', Traced, [Next]_vars PROVE Traced'
  OBVIOUS
<1>1. Shape(stack)
  BY Invariant
<1>2. Shape(stack') /\ text' \in Seq(Sound)
  <2>1. Shape(stack') /\ text' \in Seq(Tokens) /\ BareNumbersAreLiterals'
    BY DEF IInv, TypeOK, WaitingBelow, DigitsHeld, Shape
  <2>2. \A i \in 1..Len(text') : text'[i] \in Sound
    BY <2>1 DEF BareNumbersAreLiterals, Sound
  <2> QED
    BY <2>1, <2>2
<1>3. ASSUME NEW e \in Starts, ContainerStart(e) PROVE Traced'
  <2>1. Goes(e) /\ e \in Events /\ status = "running"
    BY <1>1, <1>3, StartGoes DEF ContainerStart, Accepts, Takes
  <2> QED
    BY <1>2, <2>1, TracedGoes
<1>4. ASSUME NEW name \in Names, Member(name) PROVE Traced'
  <2>1. Goes(Key(name)) /\ Key(name) \in Events /\ status = "running"
    BY <1>1, <1>4, MemberGoes DEF Member, Accepts, Takes
  <2> QED
    BY <1>2, <2>1, TracedGoes
<1>5. ASSUME NEW v \in Values, ScalarValue(v) PROVE Traced'
  <2>1. Goes(Scalar(v)) /\ Scalar(v) \in Events /\ status = "running"
    BY <1>1, <1>5, ScalarGoes DEF ScalarValue, Accepts, Takes
  <2> QED
    BY <1>2, <2>1, TracedGoes
<1>6. ASSUME NEW e \in Ends, ContainerEnd(e) PROVE Traced'
  <2>1. Goes(e) /\ e \in Events /\ status = "running"
    BY <1>1, <1>6, EndGoes DEF ContainerEnd, Accepts, Takes
  <2> QED
    BY <1>2, <2>1, TracedGoes
<1> QED
  BY <1>3, <1>4, <1>5, <1>6, TracedRefuse, TracedStops DEF Next

\* Every stream is a run, as far as the render took it.
THEOREM StreamsAreRuns == Spec => [](IInv /\ Traced)
<1>1. Init => Traced
  BY TracedFirst
<1>2. IInv /\ IInv' /\ Traced /\ [Next]_vars => Traced'
  BY TracedStep
<1> QED
  BY <1>1, <1>2, Inductive, PTL DEF Spec

\* What a run says of the render's three promises.
LEMMA TracedPromises ==
  ASSUME IInv, Traced PROVE TreeEventsOnly /\ WritesTheTree /\ WholeRecords
<1>a. seen \in Seq(Events) /\ status \in {"running", "refused", "cut short", "finished"}
  BY Invariant
<1>b. Len(seen) \in Nat /\ Len(seen) # Len(seen) + 1
  <2>0. seen \in Seq(Events)
    BY <1>a
  <2>1. Len(seen) \in Nat
    BY <2>0
  <2> QED
    BY <2>1
<1> DEFINE n == Len(seen)
           r == Reading(seen)
<1>0. seen \in Seq(Events) /\ n \in Nat /\ status \in {"running", "refused", "cut short", "finished"}
  BY <1>a, <1>b
<1>1. CASE status # "refused"
  <2>1. PICK st, tx : IsTrace(seen, st, tx, n + 1) /\ st[n + 1] = stack /\ tx[n + 1] = text
    BY <1>1 DEF Traced, RunEnds
  <2>2. RootRead(seen, st, tx, n + 1)
    BY <2>1, RootRuns
  <2>3. r.ok /\ r.done \in BOOLEAN /\ (r.done <=> Top(stack) = "root-done") /\ (r.done => text = Document(seen))
    BY <2>1, <2>2 DEF RootRead
  <2>4. status = "finished" => r.done
    BY <2>3 DEF Traced
  <2>5. status = "cut short" => ~r.done
    BY <2>3 DEF Traced
  <2>6. TreeEventsOnly
    BY <1>0, <1>1, <2>3, <2>4, <2>5 DEF TreeEventsOnly
  <2>7. RecordsWritten = Records(seen)
    <3> DEFINE m == n + 1
    <3>1. IsTrace(seen, st, tx, m) /\ m = Len(seen) + 1 /\ tx[m] = text
      BY <2>1
    <3> HIDE DEF m
    <3> QED
      BY <3>1, RecordsRun
  <2>8. Taken = seen
    BY <1>1 DEF Taken
  <2> QED
    BY <2>3, <2>4, <2>6, <2>7, <2>8 DEF WritesTheTree, WholeRecords
<1>2. CASE status = "refused"
  <2>1. PICK st, tx : IsTrace(seen, st, tx, n) /\ st[n] = stack /\ tx[n] = text
    BY <1>2 DEF Traced, RunEnds
  <2>2. RootRead(seen, st, tx, n)
    BY <2>1, RootRuns
  <2>3. ~r.ok
    <3>1. n # n + 1
      BY <1>b
    <3>2. r.ok <=> n = Len(seen) + 1
      BY <2>2, Zenon DEF RootRead
    <3> QED
      BY <3>1, <3>2
  <2>4. TreeEventsOnly
    BY <1>2, <2>3 DEF TreeEventsOnly
  <2> DEFINE ev == SubSeq(seen, 1, Len(seen) - 1)
             m == n
  <2>5. IsTrace(ev, st, tx, m) /\ m = Len(ev) + 1 /\ tx[m] = text
    BY <2>1, TraceFront
  <2>6. Taken = ev
    BY <1>2 DEF Taken
  <2> HIDE DEF ev, m
  <2>7. RecordsWritten = Records(ev)
    BY <2>5, RecordsRun
  <2> QED
    BY <1>2, <2>4, <2>6, <2>7 DEF WritesTheTree, WholeRecords
<1> QED
  BY <1>1, <1>2

\* For any names, values and stream: the render takes a stream as far as it
\* is the stream of a tree, and finishes it exactly when the tree is complete.
THEOREM TreeEventsAlone == Spec => []TreeEventsOnly
  BY StreamsAreRuns, TracedPromises, PTL

\* For any names, values and stream: what a finished render has written is
\* the document of the tree.
THEOREM TextIsTheTree == Spec => []WritesTheTree
  BY StreamsAreRuns, TracedPromises, PTL

\* For any names, values and stream, wherever it stops: the records written
\* are those of the values completed directly inside the root.
THEOREM RecordsAreWhole == Spec => []WholeRecords
  BY StreamsAreRuns, TracedPromises, PTL
=============================================================================
