---------------------------- MODULE ScalarsProofs ----------------------------
(***************************************************************************)
(* Proofs about the lexer and the scanners of ZonScalars, for every set of *)
(* sources.                                                                *)
(***************************************************************************)
EXTENDS ZonScalars, SequenceTheorems, FiniteSetTheorems, WellFoundedInduction, TLAPS

-----------------------------------------------------------------------------
(* Recursion that goes forward through a source.                           *)

LEMMA LeastOf == ASSUME NEW T \in SUBSET Nat, T # {} PROVE \E m \in T : \A k \in T : m <= k
<1>1. \E m \in T : \A k \in T : ~(<<k, m>> \in OpToRel(<, Nat))
  BY NatLessThanWellFounded, WFMin, Zenon
<1>2. \A m, k \in Nat : ~(<<k, m>> \in OpToRel(<, Nat)) => m <= k
  BY DEF OpToRel
<1>3. QED
  BY <1>1, <1>2

Ahead(n, stop, next) == \A k \in (1..n) \ stop : next[k] \in (k + 1)..n
Solves(f, n, stop, val, next) ==
    /\ f = [k \in 1..n |-> f[k]]
    /\ \A k \in 1..n : f[k] = IF k \in stop THEN val[k] ELSE f[next[k]]

\* A recursion through 1..n that stops or goes on further ahead has a solution.
LEMMA Forward ==
    ASSUME NEW n \in Nat, NEW stop, NEW val, NEW next, Ahead(n, stop, next)
    PROVE  \E f : Solves(f, n, stop, val, next)
<1> DEFINE Step(g, k) == IF k \in stop THEN val[k] ELSE g[next[k]]
           From(g, m) == \A k \in m..n : g[k] = Step(g, k)
           T == {m \in 1..(n + 1) : \E g : From(g, m)}
<1>1. n + 1 \in T
  OBVIOUS
<1>2. PICK m \in T : \A k \in T : m <= k
  <2>1. T \in SUBSET Nat
    OBVIOUS
  <2> HIDE DEF T
  <2>2. QED
    BY <1>1, <2>1, LeastOf, Zenon
<1>3. PICK g : From(g, m)
  BY <1>2
<1>4. m = 1
  <2> SUFFICES ASSUME m # 1 PROVE m - 1 \in T
    BY <1>2
  <2> DEFINE h == [k \in 1..n |-> IF k = m - 1 THEN Step(g, m - 1) ELSE g[k]]
  <2>1. m \in 2..(n + 1)
    BY <1>2
  <2>2. ASSUME NEW k \in (m - 1)..n PROVE h[k] = Step(h, k)
    <3>1. k \in 1..n
      BY <2>1
    <3>2. k \notin stop => next[k] \in (k + 1)..n /\ next[k] \in 1..n /\ next[k] # m - 1
      BY <2>1, <3>1 DEF Ahead
    <3>3. Step(h, k) = Step(g, k)
      BY <3>2
    <3>4. h[k] = IF k = m - 1 THEN Step(g, m - 1) ELSE g[k]
      BY <3>1
    <3>5. k # m - 1 => k \in m..n
      BY <2>1
    <3> HIDE DEF h, Step
    <3>6. QED
      BY <1>3, <3>3, <3>4, <3>5
  <2> HIDE DEF h, Step
  <2>3. From(h, m - 1)
    BY <2>2, Zenon
  <2>4. m - 1 \in 1..(n + 1)
    BY <2>1
  <2> HIDE DEF From
  <2>5. QED
    BY <2>3, <2>4
<1> DEFINE f == [k \in 1..n |-> g[k]]
<1>5. ASSUME NEW k \in 1..n PROVE f[k] = IF k \in stop THEN val[k] ELSE f[next[k]]
  <2>1. g[k] = Step(g, k)
    BY <1>3, <1>4
  <2>2. k \notin stop => next[k] \in 1..n
    BY DEF Ahead
  <2>3. QED
    BY <2>1, <2>2
<1>6. f = [k \in 1..n |-> f[k]]
  OBVIOUS
<1> HIDE DEF f
<1>7. Solves(f, n, stop, val, next)
  BY <1>5, <1>6 DEF Solves
<1>8. QED
  BY <1>7

\* What holds of a place whenever it holds of those after it holds of all.
LEMMA Backward ==
    ASSUME NEW n \in Nat, NEW T, \A k \in 1..n : (\A j \in (k + 1)..n : j \in T) => k \in T
    PROVE  \A k \in 1..n : k \in T
<1> DEFINE Not == {m \in 0..n : m \in 0..(n - 1) /\ (n - m) \notin T}
<1> SUFFICES ASSUME NEW k \in 1..n, k \notin T PROVE FALSE
  OBVIOUS
<1>1. n - k \in Not
  <2>1. n - (n - k) = k /\ n - k \in 0..(n - 1)
    OBVIOUS
  <2>2. QED
    BY <2>1
<1>2. PICK m \in Not : \A j \in Not : m <= j
  <2>1. Not \in SUBSET Nat
    OBVIOUS
  <2> HIDE DEF Not
  <2>2. QED
    BY <1>1, <2>1, LeastOf, Zenon
<1>3. n - m \in 1..n /\ n - m \notin T
  OBVIOUS
<1>4. ASSUME NEW j \in (n - m + 1)..n PROVE j \in T
  <2>1. n - j \in 0..(n - 1) /\ n - j < m /\ n - (n - j) = j
    OBVIOUS
  <2>2. n - j \notin Not
    BY <1>2, <2>1
  <2>3. QED
    BY <2>1, <2>2
<1>5. QED
  BY <1>3, <1>4

-----------------------------------------------------------------------------
(* Recursions that gather a sequence, going ahead.                         *)

Gathers(f, n, head, next) ==
    /\ f = [k \in 1..(n + 1) |-> f[k]]
    /\ f[n + 1] = <<>>
    /\ \A k \in 1..n : f[k] = head[k] \o f[next[k]]

\* Such a recursion has a solution.
LEMMA Gather ==
    ASSUME NEW n \in Nat, NEW head, NEW next, \A k \in 1..n : next[k] \in (k + 1)..(n + 1)
    PROVE  \E f : Gathers(f, n, head, next)
<1> DEFINE Step(g, k) == IF k = n + 1 THEN <<>> ELSE head[k] \o g[next[k]]
           From(g, m) == \A k \in m..(n + 1) : g[k] = Step(g, k)
           T == {m \in 1..(n + 1) : \E g : From(g, m)}
<1>1. n + 1 \in T
  <2>1. From([k \in 1..(n + 1) |-> <<>>], n + 1)
    OBVIOUS
  <2> HIDE DEF From
  <2>2. QED
    BY <2>1
<1>2. PICK m \in T : \A k \in T : m <= k
  <2>1. T \in SUBSET Nat
    OBVIOUS
  <2> HIDE DEF T
  <2>2. QED
    BY <1>1, <2>1, LeastOf, Zenon
<1>3. PICK g : From(g, m)
  BY <1>2
<1>4. m = 1
  <2> SUFFICES ASSUME m # 1 PROVE m - 1 \in T
    BY <1>2
  <2> DEFINE h == [k \in 1..(n + 1) |-> IF k = m - 1 THEN Step(g, m - 1) ELSE g[k]]
  <2>1. m \in 2..(n + 1)
    BY <1>2
  <2>2. ASSUME NEW k \in (m - 1)..(n + 1) PROVE h[k] = Step(h, k)
    <3>1. k \in 1..(n + 1)
      BY <2>1
    <3>2. k # n + 1 => next[k] \in (k + 1)..(n + 1) /\ next[k] \in 1..(n + 1) /\ next[k] # m - 1
      <4>1. k # n + 1 => k \in 1..n
        BY <3>1
      <4>2. QED
        BY <2>1, <3>1, <4>1
    <3>3. Step(h, k) = Step(g, k)
      BY <3>2
    <3>4. h[k] = IF k = m - 1 THEN Step(g, m - 1) ELSE g[k]
      BY <3>1
    <3>5. k # m - 1 => k \in m..(n + 1)
      BY <2>1
    <3> HIDE DEF h, Step
    <3>6. QED
      BY <1>3, <3>3, <3>4, <3>5
  <2> HIDE DEF h, Step
  <2>3. From(h, m - 1)
    BY <2>2, Zenon
  <2>4. m - 1 \in 1..(n + 1)
    BY <2>1
  <2> HIDE DEF From
  <2>5. QED
    BY <2>3, <2>4
<1> DEFINE f == [k \in 1..(n + 1) |-> g[k]]
<1>5. ASSUME NEW k \in 1..n PROVE f[k] = head[k] \o f[next[k]]
  <2>1. k \in 1..(n + 1) /\ k # n + 1 /\ next[k] \in 1..(n + 1)
    OBVIOUS
  <2>2. g[k] = Step(g, k)
    BY <1>3, <1>4, <2>1
  <2>3. QED
    BY <2>1, <2>2
<1>6. f[n + 1] = <<>>
  BY <1>3, <1>4
<1>7. f = [k \in 1..(n + 1) |-> f[k]]
  OBVIOUS
<1> HIDE DEF f
<1>8. Gathers(f, n, head, next)
  BY <1>5, <1>6, <1>7 DEF Gathers
<1>9. QED
  BY <1>8

\* What solves it is what makes a rule of itself.
LEMMA GathersBy ==
    ASSUME NEW n \in Nat, NEW head, NEW next, NEW g, NEW rule,
           rule = [k \in 1..(n + 1) |-> rule[k]], rule[n + 1] = <<>>,
           \A k \in 1..n : rule[k] = head[k] \o g[next[k]]
    PROVE  g = rule <=> Gathers(g, n, head, next)
<1>1. ASSUME g = rule PROVE Gathers(g, n, head, next)
  BY <1>1 DEF Gathers
<1>2. ASSUME Gathers(g, n, head, next) PROVE g = rule
  <2>1. ASSUME NEW k \in 1..(n + 1) PROVE g[k] = rule[k]
    <3>1. k \in 1..n \/ k = n + 1
      OBVIOUS
    <3>2. QED
      BY <1>2, <3>1 DEF Gathers
  <2>2. g = [k \in 1..(n + 1) |-> g[k]]
    BY <1>2 DEF Gathers
  <2>3. QED
    BY <2>1, <2>2
<1>3. QED
  BY <1>1, <1>2

\* It is the only one.
LEMMA GathersOne ==
    ASSUME NEW n \in Nat, NEW head, NEW next, \A k \in 1..n : next[k] \in (k + 1)..(n + 1),
           NEW f, NEW g, Gathers(f, n, head, next), Gathers(g, n, head, next)
    PROVE  f = g
<1> DEFINE T == {k \in 1..(n + 1) : f[k] = g[k]}
<1>1. n + 1 \in T
  BY DEF Gathers
<1>2. ASSUME NEW k \in 1..n, \A j \in (k + 1)..n : j \in T PROVE k \in T
  <2>1. next[k] \in (k + 1)..n \/ next[k] = n + 1
    OBVIOUS
  <2>2. next[k] \in T
    BY <1>1, <1>2, <2>1
  <2>3. f[next[k]] = g[next[k]]
    BY <2>2
  <2>4. f[k] = g[k]
    BY <2>3 DEF Gathers
  <2>5. k \in 1..(n + 1)
    OBVIOUS
  <2>6. QED
    BY <2>4, <2>5
<1>3. \A k \in 1..n : k \in T
  <2> HIDE DEF T
  <2>1. QED
    BY <1>2, Backward, Zenon
<1>4. ASSUME NEW k \in 1..(n + 1) PROVE f[k] = g[k]
  <2>1. k \in 1..n \/ k = n + 1
    OBVIOUS
  <2>2. k \in T
    BY <1>1, <1>3, <2>1
  <2>3. QED
    BY <2>2
<1>5. QED
  BY <1>4 DEF Gathers

\* It gathers of what the heads are made.
LEMMA GathersOf ==
    ASSUME NEW n \in Nat, NEW head, NEW next, \A k \in 1..n : next[k] \in (k + 1)..(n + 1),
           NEW V, \A k \in 1..n : head[k] \in Seq(V),
           NEW f, Gathers(f, n, head, next)
    PROVE  \A k \in 1..(n + 1) : f[k] \in Seq(V)
<1> DEFINE T == {k \in 1..(n + 1) : f[k] \in Seq(V)}
<1>1. n + 1 \in T
  <2>1. <<>> \in Seq(V) /\ n + 1 \in 1..(n + 1)
    OBVIOUS
  <2>2. QED
    BY <2>1 DEF Gathers
<1>2. ASSUME NEW k \in 1..n, \A j \in (k + 1)..n : j \in T PROVE k \in T
  <2>1. next[k] \in (k + 1)..n \/ next[k] = n + 1
    <3>1. next[k] \in (k + 1)..(n + 1)
      OBVIOUS
    <3>2. PICK m \in (k + 1)..(n + 1) : m = next[k]
      BY <3>1, Zenon
    <3>3. m \in (k + 1)..n \/ m = n + 1
      OBVIOUS
    <3>4. QED
      BY <3>2, <3>3, Zenon
  <2>2. next[k] \in T
    BY <1>1, <1>2, <2>1
  <2>3. f[next[k]] \in Seq(V)
    BY <2>2
  <2>4. f[k] \in Seq(V)
    <3>1. f[k] = head[k] \o f[next[k]] /\ head[k] \in Seq(V)
      BY DEF Gathers
    <3>2. QED
      BY <2>3, <3>1, ConcatProperties
  <2>5. k \in 1..(n + 1)
    OBVIOUS
  <2>6. QED
    BY <2>4, <2>5
<1>3. \A k \in 1..n : k \in T
  <2> HIDE DEF T
  <2>1. QED
    BY <1>2, Backward, Zenon
<1>4. ASSUME NEW k \in 1..(n + 1) PROVE f[k] \in Seq(V)
  <2>1. k \in 1..n \/ k = n + 1
    OBVIOUS
  <2>2. k \in T
    BY <1>1, <1>3, <2>1
  <2>3. QED
    BY <2>2
<1>5. QED
  BY <1>4

-----------------------------------------------------------------------------
(* Looking ahead in a source.                                              *)

\* A source is a sequence of characters, and the cursor in it or at its end.
Source == src \in Seq(STRING \ {Lex!EOF})
Place  == 1..(Len(src) + 1)
Insig  == Lex!Line \cup Lex!Blank
Slashes(k) == Lex!Begins(k, <<"/", "/">>)

LEMMA CharAt ==
    ASSUME Source, NEW k \in Nat \ {0}
    PROVE  /\ k \in DOMAIN src <=> k <= Len(src)
           /\ k <= Len(src) => Lex!Char(k) = src[k] /\ Lex!Char(k) # Lex!EOF
           /\ k > Len(src) => Lex!Char(k) = Lex!EOF
  BY DEF Source, Lex!Char

\* What a short word is.
LEMMA Words ==
    ASSUME NEW S, NEW s \in Seq(S), NEW x, NEW y, NEW z
    PROVE  /\ s = <<x, y>> <=> Len(s) = 2 /\ s[1] = x /\ s[2] = y
           /\ s = <<x, y, z>> <=> Len(s) = 3 /\ s[1] = x /\ s[2] = y /\ s[3] = z
<1>1. s = [k \in 1..Len(s) |-> s[k]] /\ Len(s) \in Nat
  OBVIOUS
<1>2. ASSUME Len(s) = 2, s[1] = x, s[2] = y PROVE s = <<x, y>>
  BY <1>1, <1>2
<1>3. ASSUME Len(s) = 3, s[1] = x, s[2] = y, s[3] = z PROVE s = <<x, y, z>>
  BY <1>1, <1>3
<1>4. QED
  BY <1>2, <1>3

\* A part of the source.
LEMMA Part ==
    ASSUME Source, NEW k \in Nat \ {0}, NEW m \in Nat, m <= Len(src)
    PROVE  /\ SubSeq(src, k, m) \in Seq(STRING)
           /\ Len(SubSeq(src, k, m)) = IF k <= m THEN m - k + 1 ELSE 0
           /\ \A j \in 1..(m - k + 1) : SubSeq(src, k, m)[j] = src[k + j - 1]
<1>1. \A j \in k..m : src[j] \in STRING
  BY DEF Source
<1>2. QED
  BY <1>1, SubSeqProperties

LEMMA BeginsTwo ==
    ASSUME Source, NEW k \in Nat \ {0}, NEW x, NEW y
    PROVE  Lex!Begins(k, <<x, y>>) <=> k + 1 <= Len(src) /\ src[k] = x /\ src[k + 1] = y
<1> DEFINE s == SubSeq(src, k, k + 1)
<1>1. Len(<<x, y>>) = 2 /\ Len(src) \in Nat
  BY DEF Source
<1>2. Lex!Begins(k, <<x, y>>) <=> k + 2 - 1 <= Len(src) /\ SubSeq(src, k, k + 2 - 1) = <<x, y>>
  BY <1>1 DEF Lex!Begins
<1>3. Lex!Begins(k, <<x, y>>) <=> k + 1 <= Len(src) /\ s = <<x, y>>
  <2>1. k + 2 - 1 = k + 1
    OBVIOUS
  <2>2. QED
    BY <1>2, <2>1
<1>4. ASSUME k + 1 <= Len(src) PROVE s = <<x, y>> <=> src[k] = x /\ src[k + 1] = y
  <2>1. s \in Seq(STRING) /\ Len(s) = 2 /\ s[1] = src[k] /\ s[2] = src[k + 1]
    BY <1>1, <1>4, Part
  <2> HIDE DEF s
  <2>2. QED
    BY <2>1, Words
<1> HIDE DEF s
<1>5. QED
  BY <1>3, <1>4

LEMMA BeginsThree ==
    ASSUME Source, NEW k \in Nat \ {0}, NEW x, NEW y, NEW z
    PROVE  Lex!Begins(k, <<x, y, z>>) <=>
              k + 2 <= Len(src) /\ src[k] = x /\ src[k + 1] = y /\ src[k + 2] = z
<1> DEFINE s == SubSeq(src, k, k + 2)
<1>1. Len(<<x, y, z>>) = 3 /\ Len(src) \in Nat
  BY DEF Source
<1>2. Lex!Begins(k, <<x, y, z>>) <=> k + 3 - 1 <= Len(src) /\ SubSeq(src, k, k + 3 - 1) = <<x, y, z>>
  BY <1>1 DEF Lex!Begins
<1>3. Lex!Begins(k, <<x, y, z>>) <=> k + 2 <= Len(src) /\ s = <<x, y, z>>
  <2>1. k + 3 - 1 = k + 2
    OBVIOUS
  <2>2. QED
    BY <1>2, <2>1
<1>4. ASSUME k + 2 <= Len(src) PROVE s = <<x, y, z>> <=> src[k] = x /\ src[k + 1] = y /\ src[k + 2] = z
  <2>1. s \in Seq(STRING) /\ Len(s) = 3 /\ s[1] = src[k] /\ s[2] = src[k + 1] /\ s[3] = src[k + 2]
    BY <1>1, <1>4, Part
  <2> HIDE DEF s
  <2>2. QED
    BY <2>1, Words
<1> HIDE DEF s
<1>5. QED
  BY <1>3, <1>4

LEMMA PastFinds ==
    ASSUME Source, NEW k \in Place, NEW S, Lex!EOF \notin S
    PROVE  /\ Lex!Past(k, S) \in k..(Len(src) + 1)
           /\ Lex!Char(Lex!Past(k, S)) \notin S
           /\ \A j \in k..(Lex!Past(k, S) - 1) : Lex!Char(j) \in S
<1> DEFINE T == {m \in k..(Len(src) + 1) : Lex!Char(m) \notin S}
<1>1. Len(src) + 1 \in T
  BY CharAt DEF Source, Place
<1>2. PICK m \in T : \A j \in T : m <= j
  <2>1. T \in SUBSET Nat
    BY DEF Source, Place
  <2> HIDE DEF T
  <2>2. QED
    BY <1>1, <2>1, LeastOf, Zenon
<1>3. m \in k..(Len(src) + 1) /\ Lex!Char(m) \notin S /\ \A j \in k..(m - 1) : Lex!Char(j) \in S
  BY <1>2 DEF Source, Place
<1>4. QED
  BY <1>3, Zenon DEF Lex!Past

LEMMA LineEndFinds ==
    ASSUME Source, NEW k \in Place
    PROVE  /\ Lex!LineEnd(k) \in k..(Len(src) + 1)
           /\ Lex!Char(Lex!LineEnd(k)) \in Lex!Line \cup {Lex!EOF}
           /\ \A j \in k..(Lex!LineEnd(k) - 1) : Lex!Char(j) \notin Lex!Line
<1> DEFINE T == {m \in k..(Len(src) + 1) : Lex!Char(m) \in Lex!Line \cup {Lex!EOF}}
<1>1. Len(src) + 1 \in T
  BY CharAt DEF Source, Place
<1>2. PICK m \in T : \A j \in T : m <= j
  <2>1. T \in SUBSET Nat
    BY DEF Source, Place
  <2> HIDE DEF T
  <2>2. QED
    BY <1>1, <2>1, LeastOf, Zenon
<1>3. /\ m \in k..(Len(src) + 1) /\ Lex!Char(m) \in Lex!Line \cup {Lex!EOF}
      /\ \A j \in k..(m - 1) : Lex!Char(j) \notin Lex!Line
  BY <1>2 DEF Source, Place
<1>4. QED
  BY <1>3, Zenon DEF Lex!LineEnd

\* No character is two of the kinds the lexer tells apart.
LEMMA Apart ==
    /\ "/" \notin Insig /\ "." \notin Insig /\ "=" \notin Insig /\ "{" \notin Insig /\ "}" \notin Insig
    /\ "," \notin Insig /\ "@" \notin Insig
    /\ Lex!EOF \notin Insig /\ Lex!Quote \notin Insig /\ Lex!Backslash \notin Insig
    /\ Lex!EOF # "/" /\ Lex!EOF # "." /\ Lex!EOF # "=" /\ Lex!EOF \notin Lex!IdCont
    /\ Insig \cap Lex!IdCont = {}
  BY DEF Insig, Lex!Line, Lex!Blank, Lex!EOF, Lex!Quote, Lex!Backslash, Lex!IdCont, Lex!IdStart

LEMMA Inside ==
    ASSUME Source, NEW k \in Place, Lex!Char(k) # Lex!EOF
    PROVE  k \in 1..Len(src) /\ k + 1 \in Place /\ Lex!Char(k) = src[k]
  BY CharAt DEF Source, Place

LEMMA InsideBlank ==
    ASSUME Source, NEW k \in Place, Lex!Char(k) \in Insig
    PROVE  k \in 1..Len(src) /\ k + 1 \in Place /\ Lex!Char(k) = src[k]
<1>1. Lex!Char(k) # Lex!EOF
  BY Apart
<1>2. QED
  BY <1>1, Inside

\* A comment goes on to the end of its line.
LEMMA CommentEnds ==
    ASSUME Source, NEW k \in Place, Slashes(k)
    PROVE  /\ k + 1 <= Len(src) /\ src[k] = "/" /\ src[k + 1] = "/"
           /\ Lex!Char(k) = "/" /\ Lex!Char(k) \notin Insig
           /\ Lex!LineEnd(k) \in (k + 1)..(Len(src) + 1)
<1>1. k + 1 <= Len(src) /\ src[k] = "/" /\ src[k + 1] = "/" /\ Lex!Char(k) = "/"
  BY BeginsTwo, CharAt DEF Slashes, Place, Source
<1>2. "/" \notin Lex!Line \cup {Lex!EOF} /\ "/" \notin Insig
  BY Apart DEF Insig
<1>3. Lex!LineEnd(k) \in k..(Len(src) + 1) /\ Lex!LineEnd(k) # k
  <2>1. Lex!Char(Lex!LineEnd(k)) \in Lex!Line \cup {Lex!EOF}
    BY LineEndFinds
  <2>2. QED
    BY <1>1, <1>2, <2>1, LineEndFinds
<1>4. QED
  BY <1>1, <1>2, <1>3 DEF Place, Source

-----------------------------------------------------------------------------
(* Past what is insignificant.                                             *)

\* One step of skip_insig.
LEMMA SkipOnce ==
    ASSUME Source, NEW k \in Place
    PROVE  Lex!SkipInsig(k) = IF Lex!Char(k) \in Insig THEN Lex!SkipInsig(k + 1)
                              ELSE IF Slashes(k) THEN Lex!SkipInsig(Lex!LineEnd(k)) ELSE k
<1> DEFINE n == Len(src) + 1
           Rule(f) == f = [j \in 1..n |-> IF Lex!Char(j) \in Insig THEN f[j + 1]
                                          ELSE IF Slashes(j) THEN f[Lex!LineEnd(j)] ELSE j]
           stop == {j \in 1..n : Lex!Char(j) \notin Insig /\ ~Slashes(j)}
           next == [j \in 1..n |-> IF Lex!Char(j) \in Insig THEN j + 1 ELSE Lex!LineEnd(j)]
           val  == [j \in 1..n |-> j]
<1>1. n \in Nat
  BY DEF Source
<1>2. Ahead(n, stop, next)
  <2> SUFFICES ASSUME NEW j \in (1..n) \ stop PROVE next[j] \in (j + 1)..n
    BY Zenon DEF Ahead
  <2>1. CASE Lex!Char(j) \in Insig
    <3>1. j <= Len(src)
      BY <2>1, InsideBlank DEF Place
    <3>2. QED
      BY <1>1, <2>1, <3>1 DEF Source
  <2>2. CASE Lex!Char(j) \notin Insig
    BY <2>2, CommentEnds DEF Place
  <2>3. QED
    BY <2>1, <2>2
<1>3. PICK f : Solves(f, n, stop, val, next)
  <2> HIDE DEF n, stop, next, val
  <2>1. QED
    BY <1>1, <1>2, Forward
<1>4. \A j \in 1..n : (IF j \in stop THEN val[j] ELSE f[next[j]])
                        = (IF Lex!Char(j) \in Insig THEN f[j + 1]
                           ELSE IF Slashes(j) THEN f[Lex!LineEnd(j)] ELSE j)
  OBVIOUS
<1>5. Rule(f)
  <2> HIDE DEF n, stop, next, val
  <2>1. QED
    BY <1>3, <1>4 DEF Solves
<1> DEFINE skip == CHOOSE g : Rule(g)
<1>6. Rule(skip)
  <2> HIDE DEF Rule
  <2>1. QED
    BY <1>5
<1>7. \A j : Lex!SkipInsig(j) = skip[j]
  BY DEF Lex!SkipInsig, Insig, Slashes
<1> HIDE DEF skip
<1>8. QED
  BY <1>6, <1>7 DEF Place

\* Where skip_insig ends, nothing insignificant stands.
LEMMA SkipFinds ==
    ASSUME Source, NEW k \in Place
    PROVE  /\ Lex!SkipInsig(k) \in k..(Len(src) + 1)
           /\ Lex!Char(Lex!SkipInsig(k)) \notin Insig /\ ~Slashes(Lex!SkipInsig(k))
<1> DEFINE n == Len(src) + 1
           Found(j) == /\ Lex!SkipInsig(j) \in j..n
                       /\ Lex!Char(Lex!SkipInsig(j)) \notin Insig /\ ~Slashes(Lex!SkipInsig(j))
           T == {j \in 1..n : Found(j)}
<1>1. n \in Nat
  BY DEF Source
<1>2. ASSUME NEW j \in 1..n, \A m \in (j + 1)..n : m \in T PROVE j \in T
  <2>1. ASSUME NEW m \in (j + 1)..n, Lex!SkipInsig(j) = Lex!SkipInsig(m) PROVE Found(j)
    BY <1>1, <1>2, <2>1
  <2>2. CASE Lex!Char(j) \in Insig
    <3>1. j <= Len(src)
      BY <2>2, InsideBlank DEF Place
    <3>2. Lex!SkipInsig(j) = Lex!SkipInsig(j + 1)
      BY <2>2, SkipOnce DEF Place
    <3>3. QED
      BY <1>1, <2>1, <3>1, <3>2
  <2>3. CASE Lex!Char(j) \notin Insig /\ Slashes(j)
    BY <2>1, <2>3, SkipOnce, CommentEnds DEF Place
  <2>4. CASE Lex!Char(j) \notin Insig /\ ~Slashes(j)
    BY <1>1, <2>4, SkipOnce DEF Place
  <2>5. QED
    BY <2>2, <2>3, <2>4
<1> HIDE DEF n, T
<1>3. \A j \in 1..n : j \in T
  BY <1>1, <1>2, Backward, Zenon
<1>4. QED
  BY <1>3 DEF T, n, Place

\* Whitespace, a comment and nothing at all are skipped alike.
LEMMA SkipBlanks ==
    ASSUME Source, NEW k \in Place, NEW m \in Place, k <= m,
           \A j \in k..(m - 1) : Lex!Char(j) \in Insig
    PROVE  Lex!SkipInsig(k) = Lex!SkipInsig(m)
<1> DEFINE T == {j \in 1..m : j \in k..m => Lex!SkipInsig(j) = Lex!SkipInsig(m)}
<1>1. m \in Nat /\ k \in 1..m
  BY DEF Source, Place
<1>2. ASSUME NEW j \in 1..m, \A q \in (j + 1)..m : q \in T PROVE j \in T
  <2> SUFFICES ASSUME j \in k..m, j # m PROVE Lex!SkipInsig(j) = Lex!SkipInsig(m)
    OBVIOUS
  <2>1. j \in Place /\ j \in k..(m - 1) /\ j + 1 \in (j + 1)..m
    BY <1>1 DEF Place, Source
  <2>2. Lex!SkipInsig(j) = Lex!SkipInsig(j + 1)
    BY <2>1, SkipOnce
  <2>3. QED
    BY <1>1, <1>2, <2>1, <2>2
<1> HIDE DEF T
<1>3. \A j \in 1..m : j \in T
  BY <1>1, <1>2, Backward, Zenon
<1>4. QED
  BY <1>1, <1>3 DEF T

LEMMA SkipComment ==
    ASSUME Source, NEW k \in Place, Slashes(k)
    PROVE  Lex!SkipInsig(k) = Lex!SkipInsig(Lex!LineEnd(k))
  BY SkipOnce, CommentEnds

LEMMA SkipNothing ==
    ASSUME Source, NEW k \in Place, Lex!Char(k) \notin Insig, Lex!Char(k) # "/"
    PROVE  Lex!SkipInsig(k) = k
  BY SkipOnce, CommentEnds

\* A quoted string ends behind its first character, if anywhere.
LEMMA StringEnds ==
    ASSUME Source, NEW k \in 1..(Len(src) + 2)
    PROVE  Lex!StringEnd(k) = 0 \/ Lex!StringEnd(k) \in (k + 1)..(Len(src) + 1)
<1> DEFINE n == Len(src) + 3
           Escaped(j) == Lex!Char(j) = Lex!Backslash /\ Lex!Char(j + 1) \in Lex!Escapes
           Plain(j) == Lex!Char(j) \notin Lex!Control \cup {Lex!EOF, Lex!Quote, Lex!Backslash}
           Rule(f) == f = [j \in 1..n |->
               CASE Lex!Char(j) = Lex!Quote -> j + 1
                 [] Lex!Char(j) = Lex!Backslash ->
                       IF Lex!Char(j + 1) \in Lex!Escapes THEN f[j + 2] ELSE 0
                 [] Lex!Char(j) \in Lex!Control \cup {Lex!EOF} -> 0
                 [] OTHER -> f[j + 1]]
           stop == {j \in 1..n : ~Escaped(j) /\ ~Plain(j)}
           next == [j \in 1..n |-> IF Escaped(j) THEN j + 2 ELSE j + 1]
           val  == [j \in 1..n |-> IF Lex!Char(j) = Lex!Quote THEN j + 1 ELSE 0]
<1>1. n \in Nat /\ Len(src) \in Nat
  BY DEF Source
<1>2. ASSUME NEW j \in 1..n
      PROVE  /\ Escaped(j) => j + 1 <= Len(src)
             /\ Plain(j) => j <= Len(src)
             /\ Lex!Char(j) = Lex!Quote => j <= Len(src)
  <2>1. Lex!EOF # Lex!Quote /\ Lex!EOF # Lex!Backslash /\ Lex!EOF \notin Lex!Escapes
    BY DEF Lex!EOF, Lex!Quote, Lex!Backslash, Lex!Escapes
  <2>2. QED
    BY <1>1, <2>1, CharAt
<1>3. Ahead(n, stop, next)
  <2> SUFFICES ASSUME NEW j \in (1..n) \ stop PROVE next[j] \in (j + 1)..n
    BY Zenon DEF Ahead
  <2>1. QED
    BY <1>1, <1>2
<1>4. PICK f : Solves(f, n, stop, val, next)
  <2> HIDE DEF n, stop, next, val
  <2>1. QED
    BY <1>1, <1>3, Forward
<1>5. ASSUME NEW j \in 1..n
      PROVE  (IF j \in stop THEN val[j] ELSE f[next[j]]) =
               CASE Lex!Char(j) = Lex!Quote -> j + 1
                 [] Lex!Char(j) = Lex!Backslash ->
                       IF Lex!Char(j + 1) \in Lex!Escapes THEN f[j + 2] ELSE 0
                 [] Lex!Char(j) \in Lex!Control \cup {Lex!EOF} -> 0
                 [] OTHER -> f[j + 1]
  <2>1. /\ Lex!Quote # Lex!Backslash /\ Lex!EOF # Lex!Quote /\ Lex!EOF # Lex!Backslash
        /\ Lex!Quote \notin Lex!Control /\ Lex!Backslash \notin Lex!Control
    BY DEF Lex!EOF, Lex!Quote, Lex!Backslash, Lex!Line, Lex!Control
  <2>2. QED
    BY <2>1
<1>6. Rule(f)
  <2> HIDE DEF n, stop, next, val
  <2>1. QED
    BY <1>4, <1>5 DEF Solves
<1> DEFINE end == CHOOSE g : Rule(g)
<1>7. Rule(end)
  <2> HIDE DEF Rule
  <2>1. QED
    BY <1>6
<1>8. \A j : Lex!StringEnd(j) = end[j]
  BY DEF Lex!StringEnd
<1> DEFINE Ends(j) == end[j] = 0 \/ end[j] \in (j + 1)..(Len(src) + 1)
           T == {j \in 1..n : Ends(j)}
<1>9. ASSUME NEW j \in 1..n, \A m \in (j + 1)..n : m \in T PROVE j \in T
  <2> HIDE DEF end
  <2>1. /\ Escaped(j) => j + 2 \in (j + 1)..n /\ Ends(j + 2)
        /\ Plain(j) => j + 1 \in (j + 1)..n /\ Ends(j + 1)
    BY <1>1, <1>2, <1>9
  <2>2. end[j] = CASE Lex!Char(j) = Lex!Quote -> j + 1
                   [] Lex!Char(j) = Lex!Backslash ->
                         IF Lex!Char(j + 1) \in Lex!Escapes THEN end[j + 2] ELSE 0
                   [] Lex!Char(j) \in Lex!Control \cup {Lex!EOF} -> 0
                   [] OTHER -> end[j + 1]
    BY <1>7
  <2>3. Ends(j)
    BY <1>1, <1>2, <2>1, <2>2
  <2>4. QED
    BY <2>3
<1> HIDE DEF T, n, end
<1>10. \A j \in 1..n : j \in T
  BY <1>1, <1>9, Backward, Zenon
<1>11. QED
  BY <1>1, <1>8, <1>10 DEF T, n

\* The lines of a string end in the source.
LEMMA LinesFinds ==
    ASSUME Source, NEW k \in Place
    PROVE  Lex!LinesEnd(k) \in k..(Len(src) + 1)
<1> DEFINE n == Len(src) + 1
           Behind(j) == IF Lex!Begins(Lex!LineEnd(j), <<"\r", "\n">>) THEN Lex!LineEnd(j) + 2
                        ELSE IF Lex!LineEnd(j) <= Len(src) THEN Lex!LineEnd(j) + 1 ELSE Lex!LineEnd(j)
           Peek(j) == Lex!Past(Behind(j), Insig)
           More(j) == Lex!Begins(Peek(j), <<Lex!Backslash, Lex!Backslash>>)
           Rule(f) == f = [j \in 1..n |-> IF More(j) THEN f[Peek(j)] ELSE Behind(j)]
           stop == {j \in 1..n : ~More(j)}
           next == [j \in 1..n |-> Peek(j)]
           val  == [j \in 1..n |-> Behind(j)]
<1>1. n \in Nat /\ Len(src) \in Nat
  BY DEF Source
<1>2. ASSUME NEW j \in 1..n
      PROVE  /\ Behind(j) \in j..n
             /\ More(j) => Peek(j) \in (j + 1)..n
  <2>1. Lex!LineEnd(j) \in j..n
    BY LineEndFinds DEF Place
  <2>2. Lex!Begins(Lex!LineEnd(j), <<"\r", "\n">>) => Lex!LineEnd(j) + 1 <= Len(src)
    BY <1>1, <2>1, BeginsTwo
  <2>3. Behind(j) \in j..n /\ (Behind(j) > j \/ Behind(j) = n)
    BY <1>1, <2>1, <2>2
  <2> HIDE DEF Behind
  <2>4. Peek(j) \in Behind(j)..n
    <3>1. Behind(j) \in Place
      BY <1>1, <2>3 DEF Place
    <3>2. Lex!EOF \notin Insig
      BY Apart
    <3>3. QED
      BY <3>1, <3>2, PastFinds
  <2> HIDE DEF Peek
  <2>5. More(j) => Peek(j) + 1 <= Len(src)
    BY <1>1, <2>3, <2>4, BeginsTwo
  <2> HIDE DEF More
  <2>6. QED
    BY <1>1, <2>3, <2>4, <2>5
<1> HIDE DEF Behind, Peek, More
<1>3. Ahead(n, stop, next)
  <2> SUFFICES ASSUME NEW j \in (1..n) \ stop PROVE next[j] \in (j + 1)..n
    BY Zenon DEF Ahead
  <2>1. QED
    BY <1>1, <1>2
<1>4. PICK f : Solves(f, n, stop, val, next)
  <2> HIDE DEF n, stop, next, val
  <2>1. QED
    BY <1>1, <1>3, Forward
<1>5. \A j \in 1..n : (IF j \in stop THEN val[j] ELSE f[next[j]])
                        = (IF More(j) THEN f[Peek(j)] ELSE Behind(j))
  OBVIOUS
<1>6. Rule(f)
  <2> HIDE DEF n, stop, next, val
  <2>1. QED
    BY <1>4, <1>5 DEF Solves
<1> DEFINE end == CHOOSE g : Rule(g)
<1>7. Rule(end)
  <2> HIDE DEF Rule
  <2>1. QED
    BY <1>6
<1>8. \A j : Lex!LinesEnd(j) = end[j]
  BY DEF Lex!LinesEnd, Behind, Peek, More, Insig
<1> DEFINE T == {j \in 1..n : end[j] \in j..n}
<1>9. ASSUME NEW j \in 1..n, \A m \in (j + 1)..n : m \in T PROVE j \in T
  <2> HIDE DEF end
  <2>1. end[j] = IF More(j) THEN end[Peek(j)] ELSE Behind(j)
    BY <1>7
  <2>2. QED
    BY <1>1, <1>2, <1>9, <2>1
<1> HIDE DEF T, n, end
<1>10. \A j \in 1..n : j \in T
  BY <1>1, <1>9, Backward, Zenon
<1>11. QED
  BY <1>1, <1>8, <1>10 DEF T, n, Place

\* A name ends behind its beginning.
LEMMA NameEnds ==
    ASSUME Source, NEW k \in Place, Lex!NameEnd(k) # 0
    PROVE  /\ k \in 1..Len(src) /\ Lex!NameEnd(k) \in (k + 1)..(Len(src) + 1)
           /\ Lex!Char(k) \in Lex!IdStart \/ Lex!Char(k) = "@"
<1>1. CASE Lex!Begins(k, <<"@", Lex!Quote>>)
  <2>1. k + 1 <= Len(src) /\ Lex!Char(k) = "@"
    BY <1>1, BeginsTwo, CharAt DEF Source, Place
  <2>2. Lex!NameEnd(k) = Lex!StringEnd(k + 2)
    BY <1>1 DEF Lex!NameEnd
  <2>3. k + 2 \in 1..(Len(src) + 2)
    BY <2>1 DEF Source, Place
  <2>4. QED
    BY <2>1, <2>2, <2>3, StringEnds DEF Source, Place
<1>2. CASE ~Lex!Begins(k, <<"@", Lex!Quote>>)
  <2>1. Lex!Char(k) \in Lex!IdStart /\ Lex!NameEnd(k) = Lex!Past(k, Lex!IdCont)
    BY <1>2 DEF Lex!NameEnd
  <2>2. k \in 1..Len(src) /\ Lex!Char(k) \in Lex!IdCont
    BY <2>1, Apart, Inside DEF Lex!IdCont
  <2>3. Lex!Past(k, Lex!IdCont) \in k..(Len(src) + 1) /\ Lex!Past(k, Lex!IdCont) # k
    BY <2>2, PastFinds, Apart
  <2>4. QED
    BY <2>1, <2>2, <2>3 DEF Source, Place
<1>3. QED
  BY <1>1, <1>2

-----------------------------------------------------------------------------
(* The steps of the lexer.                                                 *)

LexTypes == Source /\ cursor \in Place /\ tokens \in Seq(Lex!Tokens)
NoBad    == \A k \in 1..Len(tokens) : tokens[k].type # "#BD"

\* What stands after a dot.
After == Lex!SkipInsig(cursor + 1)

Emits(type, end) ==
    /\ \E t \in Lex!Tokens : t.type = type /\ tokens' = Append(tokens, t)
    /\ cursor' = end /\ src' = src

Ignored ==
    /\ tokens' = tokens /\ src' = src /\ cursor' \in cursor..(Len(src) + 1)
    /\ \/ \A k \in cursor..(cursor' - 1) : Lex!Char(k) \in Insig
       \/ Slashes(cursor) /\ ~Lex!IsDoc(cursor) /\ cursor' = Lex!LineEnd(cursor)
Refused == Emits("#BD", cursor)
Braced ==
    /\ Lex!Char(cursor) = "." /\ Lex!Char(After) = "{"
    /\ Emits(IF Lex!PeekIsMapOpen(After + 1) THEN "#OB" ELSE "#OS", After + 1)
Named ==
    /\ Lex!Char(cursor) = "." /\ Lex!NameEnd(After) # 0
    /\ Emits("#TX", Lex!NameEnd(After))
Quoted == Lex!Char(cursor) \in {Lex!Quote, Lex!Backslash} /\ \E end \in Place : Emits("#NR", end)
Marked == \E c \in DOMAIN Lex!Fixed : Lex!Char(cursor) = c /\ Emits(Lex!Fixed[c], cursor + 1)

Moves == Ignored \/ Refused \/ Braced \/ Named \/ Quoted \/ Marked

LEMMA TokenTypes ==
    /\ \A type \in Lex!Marks : Lex!Mark(type) \in Lex!Tokens /\ Lex!Mark(type).type = type
    /\ \A t \in Texts : [type |-> "#TX", text |-> t] \in Lex!Tokens
    /\ \A t \in Contents : [type |-> "#NR", text |-> t] \in Lex!Tokens
<1>1. ASSUME NEW type \in Lex!Marks PROVE Lex!Mark(type) \in Lex!Tokens /\ Lex!Mark(type).type = type
  BY Zenon DEF Lex!Mark, Lex!Tokens
<1>2. QED
  BY <1>1, Zenon DEF Lex!Tokens

LEMMA MarkEmits == ASSUME NEW type \in Lex!Marks, NEW end, Lex!Emit(Lex!Mark(type), end) PROVE Emits(type, end)
  BY TokenTypes DEF Lex!Emit, Emits

LEMMA LexingIsClean == ASSUME tokens \in Seq(Lex!Tokens), Lex!Lexing PROVE NoBad
  BY DEF Lex!Lexing, NoBad

\* Every step of the lexer is one of six moves over the source.
LEMMA NextMoves ==
    ASSUME LexTypes, Lex!Next
    PROVE  Moves /\ NoBad
<1> USE DEF LexTypes
<1>1. CASE Lex!DotBrace
  <2>1. Lex!Char(cursor) = "." /\ Lex!Char(After) = "{"
    BY <1>1 DEF Lex!DotBrace, After
  <2>2. Emits(IF Lex!PeekIsMapOpen(After + 1) THEN "#OB" ELSE "#OS", After + 1)
    BY <1>1, MarkEmits DEF Lex!DotBrace, After, Lex!Marks
  <2>3. QED
    BY <1>1, <2>1, <2>2, LexingIsClean DEF Lex!DotBrace, Moves, Braced
<1>2. CASE Lex!DotQuoted
  <2>1. /\ Lex!Lexing /\ Lex!Char(cursor) = "." /\ Lex!Begins(After, <<"@", Lex!Quote>>)
        /\ IF Lex!StringEnd(After + 2) > After + 3
           THEN \E t \in Texts : Lex!Emit([type |-> "#TX", text |-> t], Lex!StringEnd(After + 2))
           ELSE Lex!Bad
    BY <1>2 DEF Lex!DotQuoted, After
  <2>2. CASE Lex!StringEnd(After + 2) > After + 3
    <3>1. PICK t \in Texts : Lex!Emit([type |-> "#TX", text |-> t], Lex!StringEnd(After + 2))
      BY <2>1, <2>2
    <3>2. Lex!NameEnd(After) = Lex!StringEnd(After + 2)
      BY <2>1 DEF Lex!NameEnd
    <3>3. Lex!NameEnd(After) # 0
      <4>1. cursor \in 1..Len(src) /\ cursor + 1 \in Place
        BY <2>1, Inside, Apart
      <4>2. After \in Nat
        BY <4>1, SkipFinds DEF After, Source
      <4>3. QED
        BY <2>2, <3>2, <4>2
    <3>4. Emits("#TX", Lex!NameEnd(After))
      BY <3>1, <3>2, TokenTypes DEF Emits, Lex!Emit
    <3>5. QED
      BY <2>1, <3>3, <3>4, LexingIsClean DEF Moves, Named
  <2>3. CASE ~(Lex!StringEnd(After + 2) > After + 3)
    BY <2>1, <2>3, LexingIsClean, MarkEmits DEF Lex!Bad, Moves, Refused, Lex!Marks
  <2>4. QED
    BY <2>2, <2>3
<1>3. CASE Lex!DotName
  <2>1. /\ Lex!Lexing /\ Lex!Char(cursor) = "." /\ Lex!Char(After) \in Lex!IdStart
        /\ \E t \in Texts : Lex!Emit([type |-> "#TX", text |-> t], Lex!Past(After, Lex!IdCont))
    BY <1>3 DEF Lex!DotName, After
  <2>2. PICK t \in Texts : Lex!Emit([type |-> "#TX", text |-> t], Lex!Past(After, Lex!IdCont))
    BY <2>1
  <2>3. cursor + 1 \in Place
    BY <2>1, Inside, Apart
  <2>4. After \in Place /\ After \in Nat \ {0}
    BY <2>3, SkipFinds DEF After, Source, Place
  <2>5. ~Lex!Begins(After, <<"@", Lex!Quote>>)
    <3>1. Lex!Begins(After, <<"@", Lex!Quote>>) => Lex!Char(After) = "@"
      BY <2>4, BeginsTwo, CharAt DEF Source
    <3>2. QED
      BY <2>1, <3>1 DEF Lex!IdStart
  <2>6. Lex!NameEnd(After) = Lex!Past(After, Lex!IdCont)
    BY <2>1, <2>5 DEF Lex!NameEnd
  <2>7. Lex!NameEnd(After) # 0
    <3>1. Lex!EOF \notin Lex!IdCont
      BY Apart
    <3>2. Lex!Past(After, Lex!IdCont) \in After..(Len(src) + 1)
      BY <2>4, <3>1, PastFinds
    <3>3. QED
      BY <2>4, <2>6, <3>2
  <2>8. Emits("#TX", Lex!NameEnd(After))
    BY <2>2, <2>6, TokenTypes DEF Emits, Lex!Emit
  <2>9. QED
    BY <2>1, <2>7, <2>8, LexingIsClean DEF Moves, Named
<1>4. CASE Lex!MultiString
  <2>1. Lex!Lexing /\ Lex!Begins(cursor, <<Lex!Backslash, Lex!Backslash>>) /\ Lex!Scalar(Lex!LinesEnd(cursor))
    BY <1>4 DEF Lex!MultiString
  <2>2. Lex!Char(cursor) = Lex!Backslash
    BY <2>1, BeginsTwo, CharAt DEF Place, Source
  <2>3. Lex!LinesEnd(cursor) \in Place
    BY LinesFinds DEF Place, Source
  <2>4. Emits("#NR", Lex!LinesEnd(cursor))
    BY <2>1, TokenTypes DEF Emits, Lex!Emit, Lex!Scalar
  <2>5. QED
    BY <2>1, <2>2, <2>3, <2>4, LexingIsClean DEF Moves, Quoted
<1>5. CASE Lex!DocComment
  BY <1>5, MarkEmits, LexingIsClean DEF Lex!DocComment, Lex!Bad, Refused, Lex!Marks, Moves
<1>6. CASE Lex!String
  <2>1. /\ Lex!Lexing /\ Lex!Char(cursor) = Lex!Quote
        /\ IF Lex!StringEnd(cursor + 1) # 0 THEN Lex!Scalar(Lex!StringEnd(cursor + 1)) ELSE Lex!Bad
    BY <1>6 DEF Lex!String
  <2>2. CASE Lex!StringEnd(cursor + 1) # 0
    <3>1. Lex!StringEnd(cursor + 1) \in Place
      BY <2>2, StringEnds DEF Place, Source
    <3>2. Emits("#NR", Lex!StringEnd(cursor + 1))
      BY <2>1, <2>2, TokenTypes DEF Emits, Lex!Emit, Lex!Scalar
    <3>3. QED
      BY <2>1, <3>1, <3>2, LexingIsClean DEF Moves, Quoted
  <2>3. CASE Lex!StringEnd(cursor + 1) = 0
    BY <2>1, <2>3, LexingIsClean, MarkEmits DEF Lex!Bad, Moves, Refused, Lex!Marks
  <2>4. QED
    BY <2>2, <2>3
<1>7. CASE Lex!FixedToken
  <2>1. /\ Lex!Lexing /\ Lex!Char(cursor) \in DOMAIN Lex!Fixed
        /\ Lex!Emit(Lex!Mark(Lex!Fixed[Lex!Char(cursor)]), cursor + 1)
    BY <1>7 DEF Lex!FixedToken
  <2>2. Lex!Fixed[Lex!Char(cursor)] \in Lex!Marks
    BY <2>1 DEF Lex!Fixed, Lex!Marks
  <2>3. Emits(Lex!Fixed[Lex!Char(cursor)], cursor + 1)
    BY <2>1, <2>2, MarkEmits
  <2>4. QED
    BY <2>1, <2>3, LexingIsClean DEF Moves, Marked
<1>8. CASE Lex!Space
  <2>1. Lex!Lexing /\ Lex!Ignore(Lex!Past(cursor, Insig))
    BY <1>8 DEF Lex!Space, Insig
  <2>2. /\ Lex!Past(cursor, Insig) \in cursor..(Len(src) + 1)
        /\ \A k \in cursor..(Lex!Past(cursor, Insig) - 1) : Lex!Char(k) \in Insig
    BY PastFinds, Apart
  <2>3. QED
    BY <2>1, <2>2, LexingIsClean DEF Lex!Ignore, Moves, Ignored
<1>9. CASE Lex!Comment
  <2>1. Lex!Lexing /\ Slashes(cursor) /\ ~Lex!IsDoc(cursor) /\ Lex!Ignore(Lex!LineEnd(cursor))
    BY <1>9 DEF Lex!Comment, Slashes
  <2>2. Lex!LineEnd(cursor) \in cursor..(Len(src) + 1)
    BY LineEndFinds
  <2>3. QED
    BY <2>1, <2>2, LexingIsClean DEF Lex!Ignore, Moves, Ignored
<1>10. CASE Lex!Unexpected
  BY <1>10, MarkEmits, LexingIsClean DEF Lex!Unexpected, Lex!Bad, Refused, Lex!Marks, Moves
<1>11. QED
  BY <1>1, <1>2, <1>3, <1>4, <1>5, <1>6, <1>7, <1>8, <1>9, <1>10 DEF Lex!Next

\* What a step does to the tokens.
LEMMA Emitted ==
    ASSUME tokens \in Seq(Lex!Tokens), NEW type, NEW end, Emits(type, end)
    PROVE  /\ tokens' \in Seq(Lex!Tokens) /\ Len(tokens') = Len(tokens) + 1
           /\ \A k \in 1..Len(tokens) : tokens'[k] = tokens[k]
           /\ tokens'[Len(tokens) + 1].type = type
           /\ cursor' = end /\ src' = src
  BY AppendProperties DEF Emits

\* A dot that something follows, and where it stands.
LEMMA AfterDot ==
    ASSUME Source, cursor \in Place, Lex!Char(cursor) = "."
    PROVE  cursor \in 1..Len(src) /\ After \in (cursor + 1)..(Len(src) + 1) /\ After \in Place
<1>1. cursor \in 1..Len(src) /\ cursor + 1 \in Place
  BY Inside, Apart
<1>2. QED
  BY <1>1, SkipFinds DEF After, Place, Source

LEMMA MovesAreTyped ==
    ASSUME LexTypes, Moves
    PROVE  LexTypes'
<1> USE DEF LexTypes
<1>1. Len(src) \in Nat /\ cursor \in Nat
  BY DEF Source, Place
<1>2. ASSUME NEW type, NEW end \in Place, Emits(type, end) PROVE LexTypes'
  BY <1>2, Emitted DEF Source, Place
<1>3. CASE Ignored
  BY <1>1, <1>3 DEF Ignored, Source, Place
<1>4. CASE Refused
  BY <1>2, <1>4 DEF Refused
<1>5. CASE Braced
  <2>1. After + 1 \in Place
    BY <1>5, AfterDot, Inside, Apart DEF Braced, Lex!EOF
  <2>2. QED
    BY <1>2, <1>5, <2>1 DEF Braced
<1>6. CASE Named
  <2>1. Lex!NameEnd(After) \in Place
    BY <1>1, <1>6, AfterDot, NameEnds DEF Named, Place
  <2>2. QED
    BY <1>2, <1>6, <2>1 DEF Named
<1>7. CASE Quoted
  BY <1>2, <1>7 DEF Quoted
<1>8. CASE Marked
  <2>1. PICK c \in DOMAIN Lex!Fixed : Lex!Char(cursor) = c /\ Emits(Lex!Fixed[c], cursor + 1)
    BY <1>8 DEF Marked
  <2>2. cursor + 1 \in Place
    BY <2>1, Inside DEF Lex!Fixed, Lex!EOF
  <2>3. QED
    BY <1>2, <2>1, <2>2
<1>9. QED
  BY <1>3, <1>4, <1>5, <1>6, <1>7, <1>8 DEF Moves

-----------------------------------------------------------------------------
(* The lexer keeps its promise.                                            *)

\* What stands at the cursor, whatever insignificant comes before it.
Ahead1 == Lex!Char(Lex!SkipInsig(cursor))

\* What the tokens owe to the look ahead, until the tokens that pay it.
Owed ==
    LET n == Len(tokens)
    IN  /\ n >= 1 /\ tokens[n].type = "#OB" => Lex!PeekIsMapOpen(cursor)
        /\ n >= 1 /\ tokens[n].type = "#OS" => ~Lex!PeekIsMapOpen(cursor)
        /\ n >= 2 /\ tokens[n - 1].type = "#OB" => Ahead1 = "="
        /\ n >= 2 /\ tokens[n - 1].type = "#OS" /\ tokens[n].type = "#TX" => Ahead1 # "="

PromiseInv == LexTypes /\ LexerKeepsPromise /\ (NoBad => Owed)

LEMMA Unmoved ==
    ASSUME src' = src
    PROVE  /\ Lex!PeekIsMapOpen(cursor)' <=> Lex!PeekIsMapOpen(cursor')
           /\ Ahead1' = Lex!Char(Lex!SkipInsig(cursor'))
  BY DEF Ahead1, Lex!PeekIsMapOpen, Lex!SkipInsig, Lex!NameEnd, Lex!StringEnd, Lex!Past,
         Lex!LineEnd, Lex!Begins, Lex!Char

\* Looking ahead sees the same from any place before the next token.
LEMMA SeesTheSame ==
    ASSUME NEW j, NEW k, Lex!SkipInsig(j) = Lex!SkipInsig(k)
    PROVE  Lex!PeekIsMapOpen(j) <=> Lex!PeekIsMapOpen(k)
  BY DEF Lex!PeekIsMapOpen

LEMMA IgnoredIsSkipped ==
    ASSUME LexTypes, Ignored
    PROVE  Lex!SkipInsig(cursor') = Lex!SkipInsig(cursor)
<1>1. cursor' \in Place /\ cursor <= cursor'
  BY DEF Ignored, LexTypes, Place, Source
<1>2. CASE \A k \in cursor..(cursor' - 1) : Lex!Char(k) \in Insig
  BY <1>1, <1>2, SkipBlanks DEF LexTypes
<1>3. CASE Slashes(cursor) /\ cursor' = Lex!LineEnd(cursor)
  BY <1>3, SkipComment DEF LexTypes
<1>4. QED
  BY <1>2, <1>3 DEF Ignored

\* A token pays what is owed, and owes what comes after it.
Pays(type, end) ==
    /\ Lex!PeekIsMapOpen(cursor) =>
          type \in {"#TX", "#BD"} /\ (type = "#TX" => Lex!Char(Lex!SkipInsig(end)) = "=")
    /\ ~Lex!PeekIsMapOpen(cursor) /\ type = "#TX" => Lex!Char(Lex!SkipInsig(end)) # "="
    /\ Ahead1 = "=" => type \in {"#CL", "#BD"}
    /\ Ahead1 # "=" => type # "#CL"
    /\ type = "#OB" => Lex!PeekIsMapOpen(end)
    /\ type = "#OS" => ~Lex!PeekIsMapOpen(end)

LEMMA TokensPay ==
    ASSUME LexTypes, Moves, ~Ignored
    PROVE  \E type, end : Emits(type, end) /\ Pays(type, end)
<1> USE DEF LexTypes
<1> DEFINE c == Lex!Char(cursor)
<1>1. ASSUME c \notin Insig, c # "/"
      PROVE  /\ Ahead1 = c
             /\ Lex!PeekIsMapOpen(cursor) <=>
                  /\ c = "." /\ Lex!NameEnd(After) # 0
                  /\ Lex!Char(Lex!SkipInsig(Lex!NameEnd(After))) = "="
  <2>1. Lex!SkipInsig(cursor) = cursor
    BY <1>1, SkipNothing
  <2>2. QED
    BY <2>1 DEF Ahead1, After, Lex!PeekIsMapOpen
<1>2. CASE Refused
  <2>1. Pays("#BD", cursor)
    BY DEF Pays
  <2>2. QED
    BY <1>2, <2>1 DEF Refused
<1>3. CASE Braced
  <2> DEFINE type == IF Lex!PeekIsMapOpen(After + 1) THEN "#OB" ELSE "#OS"
  <2>1. c = "." /\ Lex!Char(After) = "{" /\ Emits(type, After + 1)
    BY <1>3 DEF Braced
  <2>2. Lex!NameEnd(After) = 0
    BY <2>1, AfterDot, NameEnds DEF Lex!IdStart
  <2>3. Ahead1 = "." /\ ~Lex!PeekIsMapOpen(cursor)
    BY <1>1, <2>1, <2>2, Apart
  <2>4. Pays(type, After + 1)
    BY <2>3 DEF Pays
  <2> HIDE DEF type
  <2>5. QED
    BY <2>1, <2>4
<1>4. CASE Named
  <2>1. c = "." /\ Lex!NameEnd(After) # 0 /\ Emits("#TX", Lex!NameEnd(After))
    BY <1>4 DEF Named
  <2>2. Ahead1 = "." /\ (Lex!PeekIsMapOpen(cursor) <=> Lex!Char(Lex!SkipInsig(Lex!NameEnd(After))) = "=")
    BY <1>1, <2>1, Apart
  <2>3. Pays("#TX", Lex!NameEnd(After))
    BY <2>2 DEF Pays
  <2>4. QED
    BY <2>1, <2>3
<1>5. CASE Quoted
  <2>1. PICK end \in Place : Emits("#NR", end)
    BY <1>5 DEF Quoted
  <2>2. c \notin Insig /\ c # "/" /\ c # "." /\ c # "="
    BY <1>5, Apart DEF Quoted, Lex!Quote, Lex!Backslash
  <2>3. Ahead1 # "=" /\ ~Lex!PeekIsMapOpen(cursor)
    BY <1>1, <2>2
  <2>4. Pays("#NR", end)
    BY <2>3 DEF Pays
  <2>5. QED
    BY <2>1, <2>4
<1>6. CASE Marked
  <2>1. PICK d \in DOMAIN Lex!Fixed : c = d /\ Emits(Lex!Fixed[d], cursor + 1)
    BY <1>6 DEF Marked
  <2>2. c \in {"}", "=", ","} /\ Lex!Fixed[d] \in {"#CB", "#CL", "#CA"} /\ (Lex!Fixed[d] = "#CL" <=> c = "=")
    BY <2>1 DEF Lex!Fixed
  <2>3. (Ahead1 = "=" <=> c = "=") /\ ~Lex!PeekIsMapOpen(cursor)
    BY <1>1, <2>2, Apart
  <2>4. Pays(Lex!Fixed[d], cursor + 1)
    BY <2>2, <2>3 DEF Pays
  <2>5. QED
    BY <2>1, <2>4
<1>7. QED
  BY <1>2, <1>3, <1>4, <1>5, <1>6 DEF Moves

LEMMA PromiseKept ==
    ASSUME LexTypes, NoBad, Owed, LexerKeepsPromise, NEW type, NEW end, Emits(type, end), Pays(type, end)
    PROVE  LexerKeepsPromise' /\ (NoBad' => Owed')
<1> DEFINE n == Len(tokens)
<1>1. /\ n \in Nat /\ tokens' \in Seq(Lex!Tokens) /\ Len(tokens') = n + 1
      /\ \A k \in 1..n : tokens'[k] = tokens[k]
      /\ tokens'[n + 1].type = type /\ cursor' = end /\ src' = src
  BY Emitted DEF LexTypes
<1>2. /\ n >= 1 /\ tokens[n].type = "#OB" => Lex!PeekIsMapOpen(cursor)
      /\ n >= 1 /\ tokens[n].type = "#OS" => ~Lex!PeekIsMapOpen(cursor)
      /\ n >= 2 /\ tokens[n - 1].type = "#OB" => Ahead1 = "="
      /\ n >= 2 /\ tokens[n - 1].type = "#OS" /\ tokens[n].type = "#TX" => Ahead1 # "="
  BY DEF Owed
<1>3. ASSUME NEW k \in 1..n
      PROVE  /\ tokens[k].type = "#OB" =>
                  /\ k + 1 <= n => tokens[k + 1].type \in {"#TX", "#BD"}
                  /\ k + 2 <= n /\ tokens[k + 1].type = "#TX" => tokens[k + 2].type \in {"#CL", "#BD"}
             /\ tokens[k].type = "#OS" =>
                  ~(k + 2 <= n /\ tokens[k + 1].type = "#TX" /\ tokens[k + 2].type = "#CL")
  <2>1. DOMAIN tokens = 1..n /\ Len(tokens) = n
    BY DEF LexTypes
  <2>2. Lex!PeekKept(tokens)
    BY DEF LexerKeepsPromise, Lex!LexerKeepsPromise
  <2> HIDE DEF n
  <2>3. QED
    BY <2>1, <2>2 DEF Lex!PeekKept
<1> DEFINE s == tokens'
           Kept(k) == /\ s[k].type = "#OB" =>
                           /\ k + 1 <= n + 1 => s[k + 1].type \in {"#TX", "#BD"}
                           /\ k + 2 <= n + 1 /\ s[k + 1].type = "#TX" => s[k + 2].type \in {"#CL", "#BD"}
                      /\ s[k].type = "#OS" =>
                           ~(k + 2 <= n + 1 /\ s[k + 1].type = "#TX" /\ s[k + 2].type = "#CL")
<1>4. ASSUME NEW k \in 1..(n + 1) PROVE Kept(k)
  <2> HIDE DEF n
  <2>1. CASE k + 2 <= n
    <3>1. k \in 1..n /\ k + 1 \in 1..n /\ k + 2 \in 1..n
      BY <1>1, <2>1
    <3>2. s[k] = tokens[k] /\ s[k + 1] = tokens[k + 1] /\ s[k + 2] = tokens[k + 2]
      BY <1>1, <3>1
    <3>3. QED
      BY <1>1, <1>3, <2>1, <3>1, <3>2
  <2>2. CASE k = n - 1
    <3>1. k \in 1..n /\ n \in 1..n /\ k + 1 = n /\ k + 2 = n + 1 /\ n >= 2
      BY <1>1, <2>2
    <3>2. s[k] = tokens[k] /\ s[k + 1] = tokens[k + 1] /\ s[k + 2].type = type
      BY <1>1, <3>1
    <3>3. /\ tokens[k].type = "#OB" => Ahead1 = "="
          /\ tokens[k].type = "#OS" /\ tokens[k + 1].type = "#TX" => Ahead1 # "="
      BY <1>2, <2>2, <3>1
    <3>4. (Ahead1 = "=" => type \in {"#CL", "#BD"}) /\ (Ahead1 # "=" => type # "#CL")
      BY DEF Pays
    <3>5. QED
      BY <1>1, <1>3, <3>1, <3>2, <3>3, <3>4
  <2>3. CASE k = n
    <3>1. s[k] = tokens[k] /\ s[k + 1].type = type /\ k >= 1
      BY <1>1, <2>3
    <3>2. tokens[k].type = "#OB" => type \in {"#TX", "#BD"}
      BY <1>2, <2>3, <3>1 DEF Pays
    <3>3. QED
      BY <1>1, <2>3, <3>1, <3>2
  <2>4. CASE k = n + 1
    BY <1>1, <2>4
  <2>5. QED
    BY <1>1, <2>1, <2>2, <2>3, <2>4
<1>5. LexerKeepsPromise'
  BY <1>1, <1>4 DEF LexerKeepsPromise, Lex!LexerKeepsPromise, Lex!PeekKept
<1>6. ASSUME NoBad' PROVE Owed'
  <2>1. type # "#BD"
    BY <1>1, <1>6 DEF NoBad
  <2>2. (Lex!PeekIsMapOpen(cursor)' <=> Lex!PeekIsMapOpen(end)) /\ Ahead1' = Lex!Char(Lex!SkipInsig(end))
    BY <1>1, Unmoved
  <2>3. /\ Len(tokens') - 1 = n /\ tokens'[Len(tokens')].type = type
        /\ Len(tokens') >= 2 => n >= 1 /\ tokens'[Len(tokens') - 1] = tokens[n]
    BY <1>1
  <2>4. n >= 1 /\ tokens[n].type = "#OB" => Ahead1' = "="
    BY <1>2, <2>1, <2>2 DEF Pays
  <2>5. n >= 1 /\ tokens[n].type = "#OS" /\ type = "#TX" => Ahead1' # "="
    BY <1>2, <2>2 DEF Pays
  <2>6. (type = "#OB" => Lex!PeekIsMapOpen(cursor)') /\ (type = "#OS" => ~Lex!PeekIsMapOpen(cursor)')
    BY <2>2 DEF Pays
  <2> HIDE DEF n
  <2>7. QED
    BY <2>3, <2>4, <2>5, <2>6 DEF Owed
<1>7. QED
  BY <1>5, <1>6

LEMMA PromiseStep == PromiseInv /\ Lex!Next => PromiseInv'
<1> SUFFICES ASSUME PromiseInv, Lex!Next PROVE PromiseInv'
  OBVIOUS
<1>1. Moves /\ NoBad /\ Owed /\ LexTypes /\ LexTypes'
  BY NextMoves, MovesAreTyped DEF PromiseInv
<1>2. CASE Ignored
  <2>1. tokens' = tokens /\ src' = src
    BY <1>2 DEF Ignored
  <2>2. Lex!SkipInsig(cursor') = Lex!SkipInsig(cursor)
    BY <1>1, <1>2, IgnoredIsSkipped
  <2>3. (Lex!PeekIsMapOpen(cursor)' <=> Lex!PeekIsMapOpen(cursor)) /\ Ahead1' = Ahead1
    BY <2>1, <2>2, Unmoved, SeesTheSame DEF Ahead1
  <2>4. Owed'
    BY <1>1, <2>1, <2>3 DEF Owed
  <2>5. LexerKeepsPromise'
    BY <2>1 DEF PromiseInv, LexerKeepsPromise, Lex!LexerKeepsPromise, Lex!PeekKept
  <2>6. QED
    BY <1>1, <2>4, <2>5 DEF PromiseInv
<1>3. CASE ~Ignored
  BY <1>1, <1>3, TokensPay, PromiseKept DEF PromiseInv
<1>4. QED
  BY <1>2, <1>3

LEMMA LexInit ==
    ASSUME Init
    PROVE  Source /\ cursor = 1 /\ tokens = <<>>
<1>1. CASE lexing = "tokens"
  <2>1. PICK s \in Sources : Lex!Start(s)
    BY <1>1 DEF Init, Lex!Init
  <2>2. QED
    BY <2>1, SourcesAssumption DEF Lex!Start, Source
<1>2. CASE lexing # "tokens"
  BY <1>2 DEF Init, Lex!Start, Source
<1>3. QED
  BY <1>1, <1>2

\* A step of another scanner leaves the lexer where it is.
LEMMA LexOrNot == [Next]_vars => Lex!Next \/ (src' = src /\ cursor' = cursor /\ tokens' = tokens)
  BY Zenon DEF Next, vars, Token, String, Number, Integer, Character, Spelling, lexVars

LEMMA PromiseInitial == Init => PromiseInv
<1> SUFFICES ASSUME Init PROVE PromiseInv
  OBVIOUS
<1>1. Source /\ cursor = 1 /\ tokens = <<>>
  BY LexInit
<1>2. LexTypes /\ Len(tokens) = 0
  BY <1>1 DEF LexTypes, Place, Source
<1>3. LexerKeepsPromise
  BY <1>1 DEF LexerKeepsPromise, Lex!LexerKeepsPromise, Lex!PeekKept
<1>4. QED
  BY <1>2, <1>3 DEF PromiseInv, Owed

LEMMA PromiseKeeps == PromiseInv /\ [Next]_vars => PromiseInv'
<1> SUFFICES ASSUME PromiseInv, src' = src, cursor' = cursor, tokens' = tokens PROVE PromiseInv'
  BY LexOrNot, PromiseStep
<1>1. (Lex!PeekIsMapOpen(cursor)' <=> Lex!PeekIsMapOpen(cursor)) /\ Ahead1' = Ahead1
  BY Unmoved DEF Ahead1
<1>2. LexTypes' /\ LexerKeepsPromise' /\ (NoBad' <=> NoBad)
  BY DEF PromiseInv, LexTypes, Source, Place, NoBad, LexerKeepsPromise, Lex!LexerKeepsPromise, Lex!PeekKept
<1>3. NoBad => Owed'
  BY <1>1 DEF PromiseInv, Owed
<1>4. QED
  BY <1>2, <1>3 DEF PromiseInv

\* The brace is classed as the tokens after it are, for every source: the
\* scanner of its own by which rs/src/lex.rs looks ahead sees the tokens its
\* matchers make, whatever whitespace and comments lie between.
THEOREM LexerPromise == Spec => []LexerKeepsPromise
<1>1. PromiseInv => LexerKeepsPromise
  BY DEF PromiseInv
<1>2. QED
  BY <1>1, PromiseInitial, PromiseKeeps, PTL DEF Spec

-----------------------------------------------------------------------------
(* Nothing is swallowed.                                                   *)

\* No comment is open before k.
Fresh(k) == \A s \in 1..(k - 1) : Slashes(s) => \E j \in s..k : Lex!Char(j) \in Lex!Line \cup {Lex!EOF}

\* What separates tokens.
Gap(k, m) == \A j \in k..(m - 1) : src[j] \in Insig \/ Lex!Commented(j)

LEMMA CommentedIn ==
    ASSUME Source, NEW k \in Place, Slashes(k), NEW j \in k..(Lex!LineEnd(k) - 1)
    PROVE  j \in 1..Len(src) /\ Lex!Commented(j) /\ src[j] \notin Lex!Line
<1>1. Lex!LineEnd(k) \in k..(Len(src) + 1) /\ k \in 1..j /\ j \in 1..Len(src)
  BY LineEndFinds DEF Place, Source
<1>2. ASSUME NEW m \in k..j PROVE src[m] \notin Lex!Line
  <2>1. m \in 1..Len(src) /\ m \in Nat \ {0} /\ Lex!Char(m) \notin Lex!Line
    BY <1>1, LineEndFinds DEF Source, Place
  <2>2. QED
    BY <2>1, CharAt
<1>3. QED
  BY <1>1, <1>2 DEF Lex!Commented, Slashes, Source, Place

LEMMA FreshOver ==
    ASSUME Source, NEW k \in Place, NEW m \in Place, k <= m, Fresh(k),
           \A j \in k..(m - 1) : Lex!Char(j) # "/"
    PROVE  Fresh(m)
<1> SUFFICES ASSUME NEW s \in 1..(m - 1), Slashes(s)
             PROVE  \E j \in s..m : Lex!Char(j) \in Lex!Line \cup {Lex!EOF}
  BY DEF Fresh
<1>1. s \in Place /\ Lex!Char(s) = "/"
  BY CommentEnds DEF Place, Source
<1>2. s \in 1..(k - 1)
  BY <1>1 DEF Place, Source
<1>3. PICK j \in s..k : Lex!Char(j) \in Lex!Line \cup {Lex!EOF}
  BY <1>2 DEF Fresh
<1>4. j \in s..m
  BY <1>3 DEF Place, Source
<1>5. QED
  BY <1>3, <1>4

LEMMA FreshAfterComment ==
    ASSUME Source, NEW k \in Place
    PROVE  Fresh(Lex!LineEnd(k))
<1>1. Lex!LineEnd(k) \in Nat /\ Lex!Char(Lex!LineEnd(k)) \in Lex!Line \cup {Lex!EOF}
  BY LineEndFinds DEF Source, Place
<1>2. \A s \in 1..(Lex!LineEnd(k) - 1) : Lex!LineEnd(k) \in s..Lex!LineEnd(k)
  BY <1>1
<1>3. QED
  BY <1>1, <1>2 DEF Fresh

LEMMA FreshIsOutside ==
    ASSUME Source, NEW k \in Place, Fresh(k), k <= Len(src), ~Slashes(k)
    PROVE  ~Lex!Commented(k)
<1> SUFFICES ASSUME NEW s \in 1..k, Slashes(s), \A j \in s..k : src[j] \notin Lex!Line PROVE FALSE
  BY DEF Lex!Commented, Slashes
<1>1. s \in 1..(k - 1)
  BY DEF Place, Source
<1>2. PICK j \in s..k : Lex!Char(j) \in Lex!Line \cup {Lex!EOF}
  BY <1>1 DEF Fresh
<1>3. j \in Nat \ {0} /\ j <= Len(src)
  BY <1>2 DEF Place, Source
<1>4. Lex!Char(j) = src[j] /\ Lex!Char(j) # Lex!EOF
  BY <1>3, CharAt
<1>5. QED
  BY <1>2, <1>4

\* What skip_insig skips separates tokens, and it ends outside of comments.
LEMMA SkipGap ==
    ASSUME Source, NEW k \in Place, Fresh(k)
    PROVE  Fresh(Lex!SkipInsig(k)) /\ Gap(k, Lex!SkipInsig(k))
<1> DEFINE n == Len(src) + 1
           Spans(j) == Fresh(j) => Fresh(Lex!SkipInsig(j)) /\ Gap(j, Lex!SkipInsig(j))
           T == {j \in 1..n : Spans(j)}
<1>1. n \in Nat /\ Len(src) \in Nat
  BY DEF Source
<1>2. ASSUME NEW j \in 1..n, NEW m \in (j + 1)..n, Spans(m), Fresh(m), Gap(j, m),
             Lex!SkipInsig(j) = Lex!SkipInsig(m)
      PROVE  Spans(j)
  <2>1. Lex!SkipInsig(m) \in m..n
    BY <1>1, SkipFinds DEF Place
  <2>2. Gap(m, Lex!SkipInsig(m))
    BY <1>2
  <2>3. ASSUME NEW q \in j..(Lex!SkipInsig(m) - 1) PROVE q \in j..(m - 1) \/ q \in m..(Lex!SkipInsig(m) - 1)
    BY <1>1, <2>1
  <2>4. Gap(j, Lex!SkipInsig(m))
    BY <1>2, <2>2, <2>3 DEF Gap
  <2>5. QED
    BY <1>2, <2>4
<1>3. ASSUME NEW j \in 1..n, \A m \in (j + 1)..n : m \in T PROVE j \in T
  <2> SUFFICES ASSUME Fresh(j) PROVE Spans(j)
    OBVIOUS
  <2>1. CASE Lex!Char(j) \in Insig
    <3>1. j \in 1..Len(src) /\ j + 1 \in Place /\ Lex!Char(j) = src[j]
      BY <2>1, InsideBlank DEF Place
    <3>2. Lex!SkipInsig(j) = Lex!SkipInsig(j + 1)
      BY <2>1, SkipOnce DEF Place
    <3>3. Gap(j, j + 1)
      BY <2>1, <3>1 DEF Gap
    <3>4. Lex!Char(j) # "/"
      BY <2>1, Apart
    <3>5. Fresh(j + 1)
      BY <3>1, <3>4, FreshOver DEF Place
    <3>6. j + 1 \in (j + 1)..n /\ j + 1 \in T
      BY <1>1, <1>3, <3>1
    <3>7. QED
      BY <1>2, <3>2, <3>3, <3>5, <3>6
  <2>2. CASE Lex!Char(j) \notin Insig /\ Slashes(j)
    <3>1. Lex!LineEnd(j) \in (j + 1)..n /\ Lex!SkipInsig(j) = Lex!SkipInsig(Lex!LineEnd(j))
      BY <2>2, CommentEnds, SkipComment DEF Place
    <3>2. Fresh(Lex!LineEnd(j)) /\ Gap(j, Lex!LineEnd(j))
      BY <2>2, FreshAfterComment, CommentedIn DEF Place, Gap
    <3>3. QED
      BY <1>2, <1>3, <3>1, <3>2
  <2>3. CASE Lex!Char(j) \notin Insig /\ ~Slashes(j)
    <3>1. Lex!SkipInsig(j) = j
      BY <2>3, SkipOnce DEF Place
    <3>2. Gap(j, j)
      BY DEF Gap
    <3>3. QED
      BY <3>1, <3>2
  <2>4. QED
    BY <2>1, <2>2, <2>3
<1> HIDE DEF n, T
<1>4. \A j \in 1..n : j \in T
  BY <1>1, <1>3, Backward, Zenon
<1>5. QED
  BY <1>4 DEF T, n, Place

Structure  == {"{", "}", "=", ","}
TypesOf(c) == CASE c = "{" -> {"#OB", "#OS"} [] c = "}" -> {"#CB"} [] c = "=" -> {"#CL"} [] c = "," -> {"#CA"}

\* The structure before k, as a reader of the source counts it.
Seen(c, k)  == {j \in 1..(k - 1) : src[j] = c /\ ~Lex!Commented(j)}
Tally(c, k) == Cardinality(Seen(c, k))
Clear(k, m) == \A j \in k..(m - 1) : src[j] \notin Structure \/ Lex!Commented(j)

LEMMA StructureApart ==
    /\ Structure \cap Insig = {} /\ Structure \cap Lex!IdCont = {} /\ "." \notin Structure /\ "/" \notin Structure
    /\ Lex!Quote \notin Structure /\ Lex!EOF \notin Structure
    /\ "/" \notin Lex!IdCont /\ "." \notin Lex!IdCont
  BY DEF Structure, Insig, Lex!Line, Lex!Blank, Lex!IdCont, Lex!IdStart, Lex!Quote, Lex!EOF

LEMMA GapIsClear == ASSUME NEW k, NEW m, Gap(k, m) PROVE Clear(k, m)
  BY StructureApart DEF Gap, Clear

LEMMA SeenIsFinite == ASSUME NEW c, NEW k \in Nat PROVE IsFiniteSet(Seen(c, k)) /\ Tally(c, k) \in Nat
<1>1. IsFiniteSet(1..(k - 1))
  BY FS_Interval
<1>2. Seen(c, k) \subseteq 1..(k - 1)
  BY DEF Seen
<1>3. QED
  BY <1>1, <1>2, FS_Subset, FS_CardinalityType DEF Tally

LEMMA ClearTally ==
    ASSUME NEW k \in Nat \ {0}, NEW m \in Nat, k <= m, Clear(k, m), NEW c \in Structure
    PROVE  Tally(c, m) = Tally(c, k)
<1>1. ASSUME NEW j \in 1..(m - 1) PROVE j \in 1..(k - 1) \/ j \in k..(m - 1)
  OBVIOUS
<1>2. 1..(k - 1) \subseteq 1..(m - 1)
  OBVIOUS
<1>3. Seen(c, m) = Seen(c, k)
  BY <1>1, <1>2 DEF Seen, Clear
<1>4. QED
  BY <1>3 DEF Tally

LEMMA OneMore ==
    ASSUME NEW k \in Nat \ {0}, ~Lex!Commented(k), NEW c
    PROVE  Tally(c, k + 1) = IF src[k] = c THEN Tally(c, k) + 1 ELSE Tally(c, k)
<1>1. k \in 1..k /\ (k + 1) - 1 = k /\ k \notin 1..(k - 1)
  OBVIOUS
<1>2. 1..k = (1..(k - 1)) \cup {k}
  OBVIOUS
<1>3. Seen(c, k + 1) = IF src[k] = c THEN Seen(c, k) \cup {k} ELSE Seen(c, k)
  BY <1>1, <1>2 DEF Seen
<1>4. k \notin Seen(c, k) /\ IsFiniteSet(Seen(c, k))
  BY <1>1, SeenIsFinite DEF Seen
<1>5. QED
  BY <1>3, <1>4, FS_AddElement DEF Tally

LEMMA SameCardinality == ASSUME NEW S PROVE Lex!Cardinality(S) = Cardinality(S)
  BY DEF Lex!Cardinality, Cardinality, Lex!IsFiniteSet, IsFiniteSet

LEMMA MadeMore ==
    ASSUME tokens \in Seq(Lex!Tokens), NEW type, NEW end, Emits(type, end), NEW types
    PROVE  Lex!Made(types)' = Lex!Made(types) + (IF type \in types THEN 1 ELSE 0)
<1> DEFINE n == Len(tokens)
           Of == {j \in 1..n : tokens[j].type \in types}
           Then == {j \in 1..(n + 1) : tokens'[j].type \in types}
<1>1. /\ n \in Nat /\ DOMAIN tokens = 1..n /\ DOMAIN tokens' = 1..(n + 1)
      /\ \A k \in 1..n : tokens'[k] = tokens[k]
      /\ tokens'[n + 1].type = type
  BY Emitted
<1>2. Lex!Made(types) = Cardinality(Of)
  BY <1>1, SameCardinality DEF Lex!Made
<1>3. Lex!Made(types)' = Cardinality(Then)
  <2>1. Lex!Made(types)' = Cardinality({j \in DOMAIN tokens' : tokens'[j].type \in types})
    BY SameCardinality DEF Lex!Made
  <2> HIDE DEF n
  <2>2. QED
    BY <1>1, <2>1
<1>4. 1..(n + 1) = (1..n) \cup {n + 1} /\ n + 1 \notin 1..n
  BY <1>1
<1> HIDE DEF n
<1>5. Then = IF type \in types THEN Of \cup {n + 1} ELSE Of
  BY <1>1, <1>4
<1>6. IsFiniteSet(Of) /\ n + 1 \notin Of /\ Cardinality(Of) \in Nat
  <2>1. IsFiniteSet(1..n) /\ Of \subseteq 1..n
    BY <1>1, FS_Interval
  <2>2. QED
    BY <1>4, <2>1, FS_Subset, FS_CardinalityType
<1> HIDE DEF Of, Then
<1>7. Cardinality(Of \cup {n + 1}) = Cardinality(Of) + 1
  BY <1>6, FS_AddElement
<1>8. QED
  BY <1>2, <1>3, <1>5, <1>6, <1>7

\* What stands between a doc comment that is let through and the dot before it.
Met(j) == \E d \in 1..(j - 1) : src[d] = "." /\ ~Lex!Commented(d) /\ Gap(d + 1, j)

\* From the cursor to m no comment is left open and no doc comment let through.
Advances(m) ==
    /\ m \in Place /\ cursor <= m /\ Fresh(m)
    /\ \A j \in cursor..(m - 1) : Lex!DocAt(j) => Met(j)

LEMMA NoDocAt == ASSUME NEW j, Lex!DocAt(j) PROVE Slashes(j)
  BY DEF Lex!DocAt, Slashes

LEMMA NoDocIn ==
    ASSUME Source, NEW k \in Place, Slashes(k), ~Lex!IsDoc(k), NEW j \in k..(Lex!LineEnd(k) - 1)
    PROVE  ~Lex!DocAt(j)
<1>1. CASE j = k
  <2>1. k + 1 <= Len(src) /\ src[k] = "/" /\ src[k + 1] = "/" /\ k \in Nat \ {0} /\ Len(src) \in Nat
    BY CommentEnds DEF Place, Source
  <2>2. (k + 2 <= Len(src) /\ Lex!Char(k + 2) = src[k + 2]) \/ Lex!Char(k + 2) = Lex!EOF
    BY <2>1, CharAt
  <2>3. Lex!EOF # "!" /\ Lex!EOF # "/"
    BY DEF Lex!EOF
  <2>4. Lex!Char(k + 2) = "!" => Lex!Begins(k, <<"/", "/", "!">>)
    BY <2>1, <2>2, <2>3, BeginsThree
  <2>5. Lex!Char(k + 2) = "/" => Lex!Begins(k, <<"/", "/", "/">>)
    BY <2>1, <2>2, <2>3, BeginsThree
  <2>6. QED
    BY <1>1, <2>4, <2>5 DEF Lex!DocAt, Lex!IsDoc
<1>2. CASE j # k
  <2>1. j - 1 \in k..(Lex!LineEnd(k) - 1) /\ j > 1
    BY <1>2, LineEndFinds DEF Place, Source
  <2>2. Lex!Commented(j - 1) /\ src[j] \notin Lex!Line
    BY <2>1, CommentedIn
  <2>3. QED
    BY <2>1, <2>2 DEF Lex!DocAt
<1>3. QED
  BY <1>1, <1>2

LEMMA IgnoredAdvances ==
    ASSUME LexTypes, Ignored, Fresh(cursor)
    PROVE  Advances(cursor') /\ Clear(cursor, cursor')
<1> USE DEF LexTypes
<1>1. /\ cursor' \in Place /\ cursor <= cursor' /\ cursor \in Nat \ {0} /\ cursor' \in Nat
      /\ Len(src) \in Nat /\ cursor' <= Len(src) + 1
  BY DEF Ignored, Place, Source
<1>2. CASE \A k \in cursor..(cursor' - 1) : Lex!Char(k) \in Insig
  <2>1. ASSUME NEW k \in cursor..(cursor' - 1)
        PROVE  Lex!Char(k) # "/" /\ src[k] \in Insig /\ ~Lex!DocAt(k)
    <3>0. k \in Place
      <4> DEFINE m == cursor'
      <4> HIDE DEF m
      <4>1. k \in cursor..(m - 1) /\ m \in Nat /\ m <= Len(src) + 1
        BY <1>1 DEF m
      <4>2. QED
        BY <1>1, <4>1 DEF Place
    <3>1. Lex!Char(k) \in Insig
      BY <1>2
    <3>2. src[k] = Lex!Char(k)
      BY <3>0, <3>1, InsideBlank
    <3>3. ~Slashes(k)
      BY <3>0, <3>1, CommentEnds
    <3>4. QED
      BY <3>1, <3>2, <3>3, Apart, NoDocAt
  <2>2. Fresh(cursor')
    BY <1>1, <2>1, FreshOver
  <2>3. Clear(cursor, cursor')
    BY <2>1, GapIsClear DEF Gap
  <2>4. QED
    BY <1>1, <2>1, <2>2, <2>3 DEF Advances
<1>3. CASE Slashes(cursor) /\ ~Lex!IsDoc(cursor) /\ cursor' = Lex!LineEnd(cursor)
  <2>1. Gap(cursor, cursor')
    BY <1>3, CommentedIn DEF Gap
  <2>2. Fresh(cursor') /\ \A j \in cursor..(cursor' - 1) : ~Lex!DocAt(j)
    BY <1>3, FreshAfterComment, NoDocIn
  <2>3. QED
    BY <1>1, <2>1, <2>2, GapIsClear DEF Advances
<1>4. QED
  BY <1>2, <1>3 DEF Ignored

LEMMA DotAdvances ==
    ASSUME LexTypes, Fresh(cursor), Lex!Char(cursor) = "."
    PROVE  Advances(After) /\ Clear(cursor, After)
<1> USE DEF LexTypes
<1>1. /\ cursor \in 1..Len(src) /\ After \in (cursor + 1)..(Len(src) + 1) /\ After \in Place
      /\ cursor + 1 \in Place /\ Len(src) \in Nat
  <2>1. cursor + 1 \in Place
    BY Inside, Apart
  <2>2. QED
    BY <2>1, AfterDot DEF Source
<1>2. src[cursor] = "." /\ ~Slashes(cursor)
  BY <1>1, CommentEnds, CharAt
<1>3. ~Lex!Commented(cursor)
  BY <1>1, <1>2, FreshIsOutside
<1>4. Fresh(cursor + 1)
  BY <1>1, FreshOver
<1>5. Fresh(After) /\ Gap(cursor + 1, After)
  BY <1>1, <1>4, SkipGap DEF After
<1>6. ASSUME NEW j \in cursor..(After - 1), Lex!DocAt(j) PROVE Met(j)
  <2>1. j # cursor
    BY <1>2, <1>6, NoDocAt
  <2>2. cursor \in 1..(j - 1) /\ (cursor + 1)..(j - 1) \subseteq (cursor + 1)..(After - 1)
    BY <1>1, <2>1
  <2>3. Gap(cursor + 1, j)
    BY <1>5, <2>2 DEF Gap
  <2>4. QED
    BY <1>2, <1>3, <2>2, <2>3 DEF Met
<1>7. Clear(cursor, After)
  <2>1. \A j \in cursor..(After - 1) : j = cursor \/ j \in (cursor + 1)..(After - 1)
    BY <1>1
  <2>2. Clear(cursor + 1, After)
    BY <1>5, GapIsClear
  <2>3. QED
    BY <1>2, <2>1, <2>2, StructureApart DEF Clear
<1>8. QED
  BY <1>1, <1>5, <1>6, <1>7 DEF Advances

\* Over characters that are neither slashes nor structure.
LEMMA PlainAdvances ==
    ASSUME LexTypes, NEW k \in Place, NEW m \in Place, k <= m, Advances(k),
           \A j \in k..(m - 1) : Lex!Char(j) # "/"
    PROVE  Advances(m)
<1>1. Fresh(m)
  BY FreshOver DEF LexTypes, Advances
<1>2. ASSUME NEW j \in k..(m - 1) PROVE ~Lex!DocAt(j)
  <2>1. j \in Place
    BY DEF Place, LexTypes, Source
  <2>2. ~Slashes(j)
    BY <2>1, CommentEnds DEF LexTypes
  <2>3. QED
    BY <2>2, NoDocAt
<1>3. \A j \in cursor..(m - 1) : j \in cursor..(k - 1) \/ j \in k..(m - 1)
  BY DEF Place, LexTypes, Source
<1>4. cursor <= m
  BY DEF Advances, Place, LexTypes, Source
<1>5. QED
  BY <1>1, <1>2, <1>3, <1>4 DEF Advances

LEMMA NamedAdvances ==
    ASSUME LexTypes, Fresh(cursor), Named, Lex!Unquoted
    PROVE  Advances(Lex!NameEnd(After)) /\ Clear(cursor, Lex!NameEnd(After))
<1> USE DEF LexTypes
<1> DEFINE m == Lex!NameEnd(After)
<1>1. /\ cursor \in 1..Len(src) /\ After \in (cursor + 1)..(Len(src) + 1) /\ After \in Place
      /\ Len(src) \in Nat
  BY AfterDot DEF Source, Named
<1>2. After \in 1..Len(src) /\ m \in (After + 1)..(Len(src) + 1)
  BY <1>1, NameEnds DEF Named
<1>3. ~Lex!Begins(After, <<"@", Lex!Quote>>)
  <2>1. Lex!Begins(After, <<"@", Lex!Quote>>) => After + 1 <= Len(src) /\ src[After + 1] = Lex!Quote
    BY <1>2, BeginsTwo
  <2>2. After + 1 <= Len(src) => After + 1 \in DOMAIN src
    BY <1>2 DEF Source
  <2>3. QED
    BY <2>1, <2>2 DEF Lex!Unquoted
<1>4. m = Lex!Past(After, Lex!IdCont)
  BY <1>2, <1>3 DEF Lex!NameEnd, Named
<1>5. ASSUME NEW j \in After..(m - 1) PROVE Lex!Char(j) \in Lex!IdCont /\ src[j] = Lex!Char(j)
  <2>1. Lex!Char(j) \in Lex!IdCont
    BY <1>1, <1>4, PastFinds, Apart
  <2>2. j \in Place
    BY <1>1, <1>2 DEF Place
  <2>3. Lex!Char(j) # Lex!EOF
    BY <2>1, Apart
  <2>4. QED
    BY <2>1, <2>2, <2>3, Inside
<1>6. Advances(After) /\ Clear(cursor, After)
  BY DotAdvances DEF Named
<1>7. m \in Place /\ After <= m
  BY <1>2 DEF Place
<1> HIDE DEF m
<1>8. Advances(m)
  BY <1>1, <1>5, <1>6, <1>7, PlainAdvances, StructureApart
<1>9. \A j \in cursor..(m - 1) : j \in cursor..(After - 1) \/ j \in After..(m - 1)
  BY <1>1, <1>2
<1>10. Clear(cursor, m)
  BY <1>5, <1>6, <1>9, StructureApart DEF Clear
<1>11. QED
  BY <1>8, <1>10 DEF m

\* Up to the cursor, what a reader of the source counts has been made a
\* token, and no doc comment has been let through but behind a dot.
Whole ==
    /\ Fresh(cursor)
    /\ \A c \in Structure : Tally(c, cursor) = Lex!Made(TypesOf(c))
    /\ \A j \in 1..(cursor - 1) : Lex!DocAt(j) => Met(j)

WholeInv == LexTypes /\ (NoBad /\ Lex!Unquoted => Whole)

LEMMA UnmovedToo ==
    ASSUME src' = src
    PROVE  /\ Whole' <=> /\ Fresh(cursor')
                         /\ \A c \in Structure : Tally(c, cursor') = Lex!Made(TypesOf(c))'
                         /\ \A j \in 1..(cursor' - 1) : Lex!DocAt(j) => Met(j)
           /\ Lex!Unquoted' <=> Lex!Unquoted
<1>1. \A j : Lex!Commented(j)' <=> Lex!Commented(j)
  BY DEF Lex!Commented, Lex!Begins
<1>2. \A j : Lex!DocAt(j)' <=> Lex!DocAt(j)
  BY <1>1 DEF Lex!DocAt, Lex!Begins, Lex!Char
<1>3. \A j : Met(j)' <=> Met(j)
  BY <1>1 DEF Met, Gap
<1>4. Fresh(cursor)' <=> Fresh(cursor')
  BY DEF Fresh, Slashes, Lex!Begins, Lex!Char
<1>5. \A c : Tally(c, cursor)' = Tally(c, cursor')
  BY <1>1 DEF Tally, Seen
<1>6. QED
  BY <1>2, <1>3, <1>4, <1>5 DEF Whole, Lex!Unquoted

\* A step over no structure, and one over a single sign of it at its end.
LEMMA WholeAfter ==
    ASSUME LexTypes, Whole, src' = src, Advances(cursor'), NEW made \in [Structure -> {0, 1}],
           \A c \in Structure : /\ Tally(c, cursor') = Tally(c, cursor) + made[c]
                                /\ Lex!Made(TypesOf(c))' = Lex!Made(TypesOf(c)) + made[c]
    PROVE  Whole'
<1>1. /\ cursor \in Nat \ {0} /\ cursor <= cursor' /\ cursor' \in Nat /\ Fresh(cursor')
      /\ \A j \in cursor..(cursor' - 1) : Lex!DocAt(j) => Met(j)
  <2>1. /\ cursor' \in Place /\ cursor <= cursor' /\ Fresh(cursor')
        /\ \A j \in cursor..(cursor' - 1) : Lex!DocAt(j) => Met(j)
    BY DEF Advances
  <2>2. cursor \in Place /\ Place \subseteq Nat \ {0}
    BY DEF LexTypes, Place, Source
  <2>3. QED
    BY <2>1, <2>2
<1>2. \A j \in 1..(cursor - 1) : Lex!DocAt(j) => Met(j)
  BY DEF Whole
<1>3. ASSUME NEW j \in 1..(cursor' - 1) PROVE j \in 1..(cursor - 1) \/ j \in cursor..(cursor' - 1)
  <2> DEFINE m == cursor'
  <2>1. m \in Nat
    BY <1>1
  <2> HIDE DEF m
  <2>2. ASSUME NEW q \in 1..(m - 1) PROVE q \in 1..(cursor - 1) \/ q \in cursor..(m - 1)
    BY <1>1, <2>1
  <2>3. QED
    BY <2>2 DEF m
<1>4. \A j \in 1..(cursor' - 1) : Lex!DocAt(j) => Met(j)
  BY <1>1, <1>2, <1>3
<1>5. \A c \in Structure : Tally(c, cursor') = Lex!Made(TypesOf(c))'
  BY DEF Whole
<1>6. QED
  BY <1>1, <1>4, <1>5, UnmovedToo

LEMMA ClearStep ==
    ASSUME LexTypes, Whole, src' = src, Advances(cursor'), Clear(cursor, cursor'),
           \A c \in Structure : Lex!Made(TypesOf(c))' = Lex!Made(TypesOf(c))
    PROVE  Whole'
<1>1. cursor \in Nat \ {0} /\ cursor' \in Nat /\ cursor <= cursor'
  BY DEF LexTypes, Advances, Place, Source
<1>2. \A c \in Structure : Tally(c, cursor) \in Nat /\ Tally(c, cursor') = Tally(c, cursor)
  BY <1>1, SeenIsFinite, ClearTally
<1> DEFINE none == [c \in Structure |-> 0]
<1>3. none \in [Structure -> {0, 1}] /\ \A c \in Structure : none[c] = 0
  OBVIOUS
<1> HIDE DEF none
<1>4. \A c \in Structure : /\ Tally(c, cursor') = Tally(c, cursor) + none[c]
                           /\ Lex!Made(TypesOf(c))' = Lex!Made(TypesOf(c)) + none[c]
  BY <1>2, <1>3 DEF Whole
<1>5. QED
  BY <1>3, <1>4, WholeAfter

LEMMA SignStep ==
    ASSUME LexTypes, Whole, NEW k \in 1..Len(src), Advances(k), Clear(cursor, k), src[k] \in Structure,
           NEW type \in TypesOf(src[k]), Emits(type, k + 1)
    PROVE  Whole'
<1>1. /\ cursor \in Nat \ {0} /\ cursor <= k /\ k \in Place /\ k \in Nat \ {0} /\ k + 1 \in Place /\ k <= k + 1
      /\ k <= Len(src) /\ Source
  BY DEF LexTypes, Advances, Place, Source
<1>2. Lex!Char(k) = src[k] /\ src[k] # "/"
  BY <1>1, CharAt, StructureApart
<1>3. \A j \in k..((k + 1) - 1) : j = k
  BY <1>1
<1>4. ~Slashes(k) /\ ~Lex!Commented(k)
  BY <1>1, <1>2, CommentEnds, FreshIsOutside DEF Advances
<1>5. Advances(k + 1)
  BY <1>1, <1>2, <1>3, PlainAdvances
<1>6. src' = src /\ cursor' = k + 1
  BY DEF Emits
<1> DEFINE one == [c \in Structure |-> IF c = src[k] THEN 1 ELSE 0]
<1>7. one \in [Structure -> {0, 1}] /\ \A c \in Structure : one[c] = IF c = src[k] THEN 1 ELSE 0
  OBVIOUS
<1> HIDE DEF one
<1>8. ASSUME NEW c \in Structure PROVE Tally(c, cursor') = Tally(c, cursor) + one[c]
  <2>1. Tally(c, k) = Tally(c, cursor) /\ Tally(c, cursor) \in Nat
    BY <1>1, SeenIsFinite, ClearTally
  <2>2. Tally(c, k + 1) = IF src[k] = c THEN Tally(c, k) + 1 ELSE Tally(c, k)
    BY <1>1, <1>4, OneMore
  <2>3. QED
    BY <1>6, <1>7, <2>1, <2>2
<1>9. ASSUME NEW c \in Structure PROVE Lex!Made(TypesOf(c))' = Lex!Made(TypesOf(c)) + one[c]
  <2>1. type \in TypesOf(c) <=> c = src[k]
    BY DEF TypesOf, Structure
  <2>2. QED
    BY <1>7, <2>1, MadeMore DEF LexTypes
<1>10. QED
  BY <1>5, <1>6, <1>7, <1>8, <1>9, WholeAfter

LEMMA WholeStep == WholeInv /\ Lex!Next => WholeInv'
<1> SUFFICES ASSUME WholeInv, Lex!Next PROVE WholeInv'
  OBVIOUS
<1>1. Moves /\ NoBad /\ LexTypes /\ LexTypes'
  BY NextMoves, MovesAreTyped DEF WholeInv
<1>2. src' = src
  BY <1>1 DEF Moves, Ignored, Refused, Braced, Named, Quoted, Marked, Emits
<1> SUFFICES ASSUME NoBad', Lex!Unquoted PROVE Whole'
  BY <1>1, <1>2, UnmovedToo DEF WholeInv
<1>3. Whole /\ Fresh(cursor) /\ Source /\ cursor \in Place
  BY <1>1 DEF WholeInv, Whole, LexTypes
<1>4. CASE Ignored
  <2>1. Advances(cursor') /\ Clear(cursor, cursor')
    BY <1>1, <1>3, <1>4, IgnoredAdvances
  <2>2. \A c \in Structure : Lex!Made(TypesOf(c))' = Lex!Made(TypesOf(c))
    BY <1>4 DEF Ignored, Lex!Made
  <2>3. QED
    BY <1>1, <1>2, <1>3, <2>1, <2>2, ClearStep
<1>5. CASE Refused
  <2>1. /\ Len(tokens') = Len(tokens) + 1 /\ tokens'[Len(tokens) + 1].type = "#BD" /\ Len(tokens) \in Nat
    BY <1>1, <1>5, Emitted DEF Refused, LexTypes
  <2>2. QED
    BY <2>1 DEF NoBad
<1>6. CASE Braced
  <2>1. Advances(After) /\ Clear(cursor, After)
    BY <1>1, <1>3, <1>6, DotAdvances DEF Braced
  <2>2. Lex!Char(After) = "{" /\ After \in Place /\ "{" # Lex!EOF
    BY <1>6, <2>1 DEF Braced, Advances, Lex!EOF
  <2>3. After \in 1..Len(src) /\ src[After] = "{"
    BY <1>3, <2>2, Inside
  <2>4. PICK type \in {"#OB", "#OS"} : Emits(type, After + 1)
    BY <1>6 DEF Braced
  <2>5. type \in TypesOf(src[After]) /\ src[After] \in Structure
    BY <2>3, <2>4 DEF TypesOf, Structure
  <2>6. QED
    BY <1>1, <1>3, <2>1, <2>3, <2>4, <2>5, SignStep
<1>7. CASE Named
  <2>1. Emits("#TX", Lex!NameEnd(After))
    BY <1>7 DEF Named
  <2>2. Advances(cursor') /\ Clear(cursor, cursor')
    BY <1>1, <1>3, <1>7, <2>1, NamedAdvances DEF Emits
  <2>3. ASSUME NEW c \in Structure PROVE Lex!Made(TypesOf(c))' = Lex!Made(TypesOf(c))
    <3>1. "#TX" \notin TypesOf(c)
      BY DEF TypesOf, Structure
    <3>2. Lex!Made(TypesOf(c)) \in Nat
      <4>1. Tally(c, cursor) \in Nat
        BY <1>3, SeenIsFinite DEF Place, Source
      <4>2. QED
        BY <1>3, <4>1 DEF Whole
    <3>3. QED
      BY <1>1, <2>1, <3>1, <3>2, MadeMore DEF LexTypes
  <2>4. QED
    BY <1>1, <1>2, <1>3, <2>2, <2>3, ClearStep
<1>8. CASE Quoted
  <2>1. Lex!Char(cursor) \in {Lex!Quote, Lex!Backslash} /\ Lex!Char(cursor) # Lex!EOF
    BY <1>8, Apart DEF Quoted, Lex!Quote, Lex!Backslash, Lex!EOF
  <2>2. cursor \in DOMAIN src /\ src[cursor] = Lex!Char(cursor)
    BY <1>3, <2>1, Inside DEF Source
  <2>3. QED
    BY <2>1, <2>2 DEF Lex!Unquoted
<1>9. CASE Marked
  <2>1. PICK c \in DOMAIN Lex!Fixed : Lex!Char(cursor) = c /\ Emits(Lex!Fixed[c], cursor + 1)
    BY <1>9 DEF Marked
  <2>2. c \in Structure /\ Lex!Fixed[c] \in TypesOf(c) /\ c # Lex!EOF
    BY <2>1 DEF Lex!Fixed, Structure, TypesOf, Lex!EOF
  <2>3. cursor \in 1..Len(src) /\ src[cursor] = c
    BY <1>3, <2>1, <2>2, Inside
  <2>4. Advances(cursor) /\ Clear(cursor, cursor)
    BY <1>3 DEF Advances, Clear, Place, Source
  <2>5. QED
    BY <1>1, <1>3, <2>1, <2>2, <2>3, <2>4, SignStep
<1>10. QED
  BY <1>1, <1>4, <1>5, <1>6, <1>7, <1>8, <1>9 DEF Moves

LEMMA WholeInitial == Init => WholeInv
<1> SUFFICES ASSUME Init PROVE WholeInv
  OBVIOUS
<1>1. Source /\ cursor = 1 /\ tokens = <<>>
  BY LexInit
<1>2. LexTypes /\ DOMAIN tokens = {}
  BY <1>1 DEF LexTypes, Place, Source
<1>3. ASSUME NEW c PROVE Tally(c, cursor) = 0
  <2>1. Seen(c, cursor) = {}
    BY <1>1 DEF Seen
  <2>2. QED
    BY <2>1, FS_EmptySet DEF Tally
<1>4. ASSUME NEW c PROVE Lex!Made(TypesOf(c)) = 0
  <2>1. {j \in DOMAIN tokens : tokens[j].type \in TypesOf(c)} = {}
    BY <1>2
  <2>2. QED
    BY <2>1, SameCardinality, FS_EmptySet DEF Lex!Made
<1>5. Whole
  BY <1>1, <1>3, <1>4 DEF Whole, Fresh
<1>6. QED
  BY <1>2, <1>5 DEF WholeInv

LEMMA WholeKeeps == WholeInv /\ [Next]_vars => WholeInv'
<1> SUFFICES ASSUME WholeInv, src' = src, cursor' = cursor, tokens' = tokens PROVE WholeInv'
  BY LexOrNot, WholeStep
<1>1. LexTypes' /\ (NoBad' <=> NoBad)
  BY DEF WholeInv, LexTypes, Source, Place, NoBad
<1>2. \A c \in Structure : Lex!Made(TypesOf(c))' = Lex!Made(TypesOf(c))
  BY DEF Lex!Made
<1>3. (Whole' <=> Whole) /\ (Lex!Unquoted' <=> Lex!Unquoted)
  BY <1>2, UnmovedToo DEF Whole
<1>4. QED
  BY <1>1, <1>3 DEF WholeInv

\* Of a lexed source without strings, the invariant speaks of the whole.
LEMMA LexedWhole ==
    ASSUME WholeInv, Lex!Lexed, Lex!Unquoted
    PROVE  Whole /\ Source /\ 1..(cursor - 1) = DOMAIN src
<1>1. cursor = Len(src) + 1 /\ Source /\ tokens \in Seq(Lex!Tokens)
  BY DEF Lex!Lexed, WholeInv, LexTypes
<1>2. NoBad
  BY <1>1 DEF Lex!Lexed, NoBad
<1>3. 1..(cursor - 1) = DOMAIN src
  BY <1>1 DEF Source
<1>4. QED
  BY <1>1, <1>2, <1>3 DEF WholeInv

LEMMA WholeSwallowsNothing == WholeInv => NothingSwallowed
<1> SUFFICES ASSUME WholeInv, Lex!Lexed, Lex!Unquoted
             PROVE  /\ Lex!Count("{") = Lex!Made({"#OB", "#OS"}) /\ Lex!Count("}") = Lex!Made({"#CB"})
                    /\ Lex!Count("=") = Lex!Made({"#CL"}) /\ Lex!Count(",") = Lex!Made({"#CA"})
  BY DEF NothingSwallowed, Lex!NothingSwallowed
<1>1. ASSUME NEW c \in Structure PROVE Lex!Count(c) = Lex!Made(TypesOf(c))
  <2>1. Tally(c, cursor) = Lex!Made(TypesOf(c))
    BY LexedWhole DEF Whole
  <2>2. Seen(c, cursor) = {j \in DOMAIN src : src[j] = c /\ ~Lex!Commented(j)}
    BY LexedWhole DEF Seen
  <2>3. QED
    BY <2>1, <2>2, SameCardinality DEF Tally, Lex!Count
<1>2. /\ TypesOf("{") = {"#OB", "#OS"} /\ TypesOf("}") = {"#CB"} /\ TypesOf("=") = {"#CL"}
      /\ TypesOf(",") = {"#CA"} /\ {"{", "}", "=", ","} \subseteq Structure
  BY DEF TypesOf, Structure
<1>3. QED
  BY <1>1, <1>2

\* Looking ahead swallows no token and invents none, for every source without
\* strings: each brace, comma and equals sign a reader of rs/src/lex.rs's input
\* sees outside of comments is one token, although three scanners of their own
\* (`skip_insig`, `peek_is_map_open` and the matchers) go over the same text.
THEOREM NothingIsSwallowed == Spec => []NothingSwallowed
  BY WholeInitial, WholeKeeps, WholeSwallowsNothing, PTL DEF Spec

\* A `//!` or `///` is let through nowhere but between a dot and what the dot
\* is put before, where `skip_insig` takes it for an ordinary comment.
THEOREM DocCommentsStayBetween == Spec => []DocCommentsRefusedBetweenTokens
<1>1. ASSUME WholeInv PROVE DocCommentsRefusedBetweenTokens
  <2> SUFFICES ASSUME Lex!Lexed, Lex!Unquoted, NEW j \in DOMAIN src, Lex!DocAt(j)
               PROVE  \E d \in 1..(j - 1) : src[d] = "." /\ ~Lex!Commented(d)
                          /\ \A m \in (d + 1)..(j - 1) :
                               src[m] \in Lex!Line \cup Lex!Blank \/ Lex!Commented(m)
    BY Zenon DEF DocCommentsRefusedBetweenTokens, Lex!DocCommentsRefusedBetweenTokens
  <2>1. Met(j)
    BY <1>1, LexedWhole DEF Whole
  <2>2. QED
    BY <2>1 DEF Met, Gap, Insig
<1>2. QED
  BY <1>1, WholeInitial, WholeKeeps, PTL DEF Spec

-----------------------------------------------------------------------------
(* Character literals, matched by three runtimes.                          *)

CharTypes ==
    /\ source \in Seq(Char!Item)
    /\ charAt = [p \in Char!Ports |-> charAt[p]] /\ point = [p \in Char!Ports |-> point[p]]
    /\ matched = [p \in Char!Ports |-> matched[p]]

Opening == IF Len(source) = 0 THEN [kind |-> "end", is |-> 0] ELSE source[1]
Closed  == Len(source) >= 2 /\ source[2].kind = "quote"

\* The first item is a character or names a code point there is.
Taken  == Opening.kind \in {"plain", "escape"} \/ (Opening.kind = "point" /\ Opening.is <= MaxPoint)
Broken == Opening.kind = "control" \/ (Opening.kind = "point" /\ ~(Opening.is <= MaxPoint))

\* What a runtime answers in the end.
Value(p) == IF asNumber THEN Opening.is ELSE Char!Text(p, Opening.is)
Verdict(p) == IF Broken THEN [is |-> "zon_char", of |-> -1]
              ELSE IF Taken /\ Closed THEN [is |-> "#NR", of |-> Value(p)]
              ELSE [is |-> "none", of |-> -1]

\* Where a runtime is on its way there.
Before(p) == matched[p].is = "reading" /\ point[p] = -1 /\ charAt[p] = 0
Between(p) == matched[p].is = "reading" /\ point[p] = Opening.is /\ charAt[p] = 1 /\ Taken
Done(p) == matched[p] = Verdict(p)

PortsInv == CharTypes /\ (~Char!Wide => \A p \in Char!Ports : Before(p) \/ Between(p) \/ Done(p))

LEMMA OpeningIs ==
    ASSUME CharTypes
    PROVE  /\ Opening.is \in Nat /\ Len(source) \in Nat
           /\ Opening.kind \in {"plain", "escape", "point", "control", "not an escape", "quote", "end"}
           /\ Taken => Len(source) = 1 \/ Len(source) >= 2
           /\ ~Char!Wide /\ Opening.kind = "point" => Opening.is <= IntMax
<1>1. Len(source) \in Nat /\ DOMAIN source = 1..Len(source) /\ \A k \in 1..Len(source) : source[k] \in Char!Item
  BY DEF CharTypes
<1>2. CASE Len(source) = 0
  BY <1>1, <1>2 DEF Opening, Taken
<1>3. CASE Len(source) # 0
  <2>1. 1 \in DOMAIN source /\ source[1] \in Char!Item /\ Opening = source[1] /\ Len(source) >= 1
    BY <1>1, <1>3 DEF Opening
  <2>2. source[1].is \in Nat /\ source[1].kind \in {"plain", "escape", "point", "control", "not an escape", "quote"}
    <3> DEFINE item == source[1]
    <3>1. \/ item \in [kind : {"plain", "escape", "point"}, is : Points]
          \/ item \in [kind : {"control", "not an escape", "quote"}, is : {0}]
      BY <2>1 DEF Char!Item
    <3> HIDE DEF item
    <3>2. item.is \in Nat
      <4>1. item.is \in Points \cup {0}
        BY <3>1
      <4>2. Points \cup {0} \subseteq Nat
        BY CharactersAssumption
      <4>3. QED
        BY <4>1, <4>2
    <3>3. item.kind \in {"plain", "escape", "point", "control", "not an escape", "quote"}
      BY <3>1
    <3>4. QED
      BY <3>2, <3>3, Zenon DEF item
  <2>3. ~Char!Wide /\ source[1].kind = "point" => ~(source[1].is > IntMax)
    BY <2>1 DEF Char!Wide
  <2>4. Opening.is = source[1].is /\ Opening.kind = source[1].kind
    BY <2>1
  <2>5. source[1].kind = "point" => ~(source[1].is > IntMax) \/ Char!Wide
    BY <2>3
  <2>6. Opening.is > IntMax \/ Opening.is <= IntMax
    <3>1. ASSUME NEW m \in Nat, NEW n \in Nat PROVE m > n \/ m <= n
      OBVIOUS
    <3>2. QED
      BY <2>2, <2>4, <3>1, PointsAssumption
  <2>7. Len(source) = 1 \/ Len(source) >= 2
    BY <1>1, <1>3
  <2>8. QED
    BY <1>1, <2>1, <2>2, <2>4, <2>5, <2>6, <2>7
<1>4. QED
  BY <1>2, <1>3

\* A step of one runtime, and where it takes it.
Goes(p) ==
    /\ source' = source /\ asNumber' = asNumber
    /\ \A q \in Char!Ports \ {p} : matched'[q] = matched[q] /\ point'[q] = point[q] /\ charAt'[q] = charAt[q]

LEMMA Answers ==
    ASSUME CharTypes, NEW p \in Char!Ports, NEW is, NEW of, Char!Answer(p, is, of)
    PROVE  CharTypes' /\ Goes(p) /\ matched'[p] = [is |-> is, of |-> of]
  BY DEF CharTypes, Char!Answer, Goes

LEMMA Takes ==
    ASSUME CharTypes, NEW p \in Char!Ports, NEW n, Char!Take(p, n)
    PROVE  CharTypes' /\ Goes(p) /\ matched'[p] = matched[p] /\ point'[p] = n /\ charAt'[p] = charAt[p] + 1
  BY DEF CharTypes, Char!Take, Goes

LEMMA MatchGoes ==
    ASSUME CharTypes, NEW p \in Char!Ports, Char!Match(p)
    PROVE  CharTypes' /\ Goes(p)
  BY Answers, Takes DEF Char!Match, Char!Plain, Char!Escape, Char!Control, Char!Point, Char!NoCharacter, Char!Close

LEMMA MatchFits ==
    ASSUME CharTypes, ~Char!Wide, NEW p \in Char!Ports, Before(p) \/ Between(p) \/ Done(p), Char!Match(p)
    PROVE  \/ matched'[p].is = "reading" /\ point'[p] = Opening.is /\ charAt'[p] = 1 /\ Taken
           \/ matched'[p] = Verdict(p)
<1> DEFINE Fits == \/ matched'[p].is = "reading" /\ point'[p] = Opening.is /\ charAt'[p] = 1 /\ Taken
                   \/ matched'[p] = Verdict(p)
<1>1. matched[p].is = "reading"
  BY DEF Char!Match, Char!Plain, Char!Escape, Char!Control, Char!Point, Char!NoCharacter, Char!Close, Char!Reading
<1>2. Before(p) \/ Between(p)
  BY <1>1 DEF Done, Verdict
<1>3. CASE Before(p)
  <2>1. Char!Here(p) = Opening
    BY <1>3 DEF Before, Char!Here, Opening, CharTypes
  <2>2. ASSUME Char!Take(p, Opening.is), Taken PROVE Fits
    <3>1. charAt[p] + 1 = 1
      BY <1>3 DEF Before
    <3>2. QED
      BY <1>1, <2>2, <3>1, Takes
  <2>3. ASSUME NEW is, Char!Answer(p, is, -1), Verdict(p) = [is |-> is, of |-> -1] PROVE Fits
    BY <2>3, Answers
  <2>4. CASE Char!Plain(p)
    BY <2>1, <2>2, <2>4 DEF Char!Plain, Taken
  <2>5. CASE Char!Escape(p)
    BY <2>1, <2>2, <2>5 DEF Char!Escape, Taken
  <2>6. CASE Char!Control(p)
    BY <2>1, <2>3, <2>6 DEF Char!Control, Verdict, Broken
  <2>7. CASE Char!Point(p)
    <3>1. Opening.kind = "point" /\ Char!Parses(p, Opening.is)
      BY <2>1, <2>7, OpeningIs DEF Char!Point, Char!Parses
    <3>2. IF Opening.is <= MaxPoint THEN Char!Take(p, Opening.is) ELSE Char!Answer(p, "zon_char", -1)
      BY <2>1, <2>7, <3>1 DEF Char!Point, Char!IsPoint
    <3>3. QED
      BY <2>2, <2>3, <3>1, <3>2 DEF Taken, Verdict, Broken
  <2>8. CASE Char!NoCharacter(p)
    <3>1. Opening.kind \in {"not an escape", "quote", "end"} /\ Char!Answer(p, "none", -1)
      BY <2>1, <2>8 DEF Char!NoCharacter
    <3>2. ~Taken /\ ~Broken
      BY <3>1 DEF Taken, Broken
    <3>3. Verdict(p) = [is |-> "none", of |-> -1]
      BY <3>2 DEF Verdict
    <3>4. QED
      BY <2>3, <3>1, <3>3
  <2>9. CASE Char!Close(p)
    BY <1>3, <2>9 DEF Char!Close, Before
  <2>10. QED
    BY <2>4, <2>5, <2>6, <2>7, <2>8, <2>9 DEF Char!Match
<1>4. CASE Between(p)
  <2>1. Len(source) \in Nat /\ (Len(source) = 1 \/ Len(source) >= 2) /\ charAt[p] = 1
    BY <1>4, OpeningIs DEF Between
  <2>2. Char!Close(p)
    <3>1. Opening.is \in Nat /\ point[p] = Opening.is
      BY <1>4, OpeningIs DEF Between
    <3>2. Opening.is # -1
      BY <3>1
    <3>3. ~Char!Reading(p)
      BY <3>1, <3>2 DEF Char!Reading
    <3>4. QED
      BY <3>3 DEF Char!Match, Char!Plain, Char!Escape, Char!Control, Char!Point, Char!NoCharacter
  <2>3. Char!Here(p).kind = "quote" <=> Closed
    <3>1. CASE Len(source) = 1
      BY <2>1, <3>1 DEF Char!Here, Closed
    <3>2. CASE Len(source) # 1
      <4>1. Len(source) >= 2
        BY <2>1, <3>2
      <4>2. Char!Here(p) = source[2]
        <5>1. charAt[p] = 1 /\ 1 + 1 = 2 /\ Len(source) # 1
          BY <2>1, <3>2
        <5>2. QED
          BY <5>1 DEF Char!Here
      <4>3. QED
        BY <4>1, <4>2 DEF Closed
    <3>3. QED
      BY <3>1, <3>2
  <2>4. Taken /\ ~Broken
    BY <1>4 DEF Between, Taken, Broken
  <2>5. CASE Closed
    <3>1. Char!Answer(p, "#NR", Value(p))
      BY <1>4, <2>2, <2>3, <2>5 DEF Char!Close, Between, Value
    <3>2. QED
      BY <2>4, <2>5, <3>1, Answers DEF Verdict
  <2>6. CASE ~Closed
    <3>1. Char!Answer(p, "none", -1)
      BY <2>2, <2>3, <2>6 DEF Char!Close
    <3>2. QED
      BY <2>4, <2>6, <3>1, Answers DEF Verdict
  <2>7. QED
    BY <2>5, <2>6
<1>5. QED
  BY <1>2, <1>3, <1>4

LEMMA CharFrame ==
    ASSUME source' = source, asNumber' = asNumber
    PROVE  /\ (Char!Wide' <=> Char!Wide) /\ (Taken' <=> Taken) /\ Opening' = Opening
           /\ \A p : Verdict(p)' = Verdict(p)
  BY DEF Char!Wide, Taken, Opening, Verdict, Broken, Closed, Value, Char!Text

LEMMA PortsStep == PortsInv /\ Char!Next => PortsInv'
<1> SUFFICES ASSUME PortsInv, NEW p \in Char!Ports, Char!Match(p) PROVE PortsInv'
  BY DEF Char!Next
<1>1. CharTypes /\ CharTypes' /\ Goes(p)
  BY MatchGoes DEF PortsInv
<1>2. /\ (Char!Wide' <=> Char!Wide) /\ (Taken' <=> Taken) /\ Opening' = Opening
      /\ \A q : Verdict(q)' = Verdict(q)
  BY <1>1, CharFrame DEF Goes
<1>3. ASSUME ~Char!Wide, NEW q \in Char!Ports PROVE (Before(q) \/ Between(q) \/ Done(q))'
  <2>1. CASE q = p
    <3>1. \/ matched'[p].is = "reading" /\ point'[p] = Opening.is /\ charAt'[p] = 1 /\ Taken
          \/ matched'[p] = Verdict(p)
      BY <1>1, <1>3, MatchFits DEF PortsInv
    <3>2. QED
      BY <1>2, <2>1, <3>1 DEF Between, Done
  <2>2. CASE q # p
    <3>1. Before(q) \/ Between(q) \/ Done(q)
      BY <1>3 DEF PortsInv
    <3>2. QED
      BY <1>1, <1>2, <2>2, <3>1 DEF Before, Between, Done, Goes
  <2>3. QED
    BY <2>1, <2>2
<1>4. QED
  BY <1>1, <1>2, <1>3 DEF PortsInv

LEMMA PortsInitial == Init => PortsInv
<1> SUFFICES ASSUME Init PROVE PortsInv
  OBVIOUS
<1>1. \E s \in Seq(Char!Item), n \in BOOLEAN : Char!Start(s, n)
  <2>1. <<>> \in Seq(Char!Item)
    OBVIOUS
  <2>2. QED
    BY <2>1, CharactersAssumption DEF Init, Char!Init
<1>2. PICK s \in Seq(Char!Item), n \in BOOLEAN : Char!Start(s, n)
  BY <1>1
<1>3. QED
  BY <1>2 DEF Char!Start, PortsInv, CharTypes, Before

\* A step of another scanner leaves the character literal where it is.
LEMMA CharOrNot == [Next]_vars => Char!Next \/ UNCHANGED charVars
  BY Zenon DEF Next, vars, Token, String, Number, Integer, Character, Spelling

LEMMA PortsKeep == PortsInv /\ [Next]_vars => PortsInv'
<1> SUFFICES ASSUME PortsInv, UNCHANGED charVars PROVE PortsInv'
  BY CharOrNot, PortsStep
<1>1. QED
  BY CharFrame DEF PortsInv, CharTypes, charVars, Before, Between, Done

LEMMA PortsAgreed == PortsInv => PortsAgreeIn32Bits
<1> SUFFICES ASSUME PortsInv, ~Char!Wide, Char!Answered, ~Char!Recorded, NEW p \in Char!Ports, NEW q \in Char!Ports
             PROVE  matched[p] = matched[q]
  BY DEF PortsAgreeIn32Bits, Char!PortsAgreeIn32Bits, Char!PortsAgree
<1>1. \A r \in Char!Ports : matched[r] = Verdict(r)
  BY DEF PortsInv, Char!Answered, Before, Between, Done
<1>2. CASE Taken /\ Closed /\ ~Broken /\ ~asNumber /\ Opening.is \in Surrogates
  <2>1. matched["TypeScript"] = [is |-> "#NR", of |-> [character |-> Opening.is]]
    BY <1>1, <1>2 DEF Char!Ports, Verdict, Value, Char!Text, Char!Character
  <2>2. QED
    BY <1>2, <2>1 DEF Char!Recorded
<1>3. CASE ~(Taken /\ Closed /\ ~Broken /\ ~asNumber /\ Opening.is \in Surrogates)
  <2>1. Verdict(p) = Verdict(q)
    BY <1>3 DEF Verdict, Value, Char!Text
  <2>2. QED
    BY <1>1, <2>1
<1>4. QED
  BY <1>2, <1>3

\* The three runtimes match every character literal alike, whichever of them
\* goes first and however the text goes on behind it, unless its escape is
\* beyond 32 bits or it is a lone surrogate asked for as a string.
THEOREM RuntimesAgree == Spec => []PortsAgreeIn32Bits
  BY PortsInitial, PortsKeep, PortsAgreed, PTL DEF Spec

-----------------------------------------------------------------------------
(* Strings: the head of a run of bytes.                                    *)

Need(b)     == Str!Lead(b[1]).need
Fits(b, k)  == b[k] \in (IF k = 2 THEN Str!Lead(b[1]).first ELSE Str!Cont)
Follows(b, n) == \A k \in 2..n : Fits(b, k)

\* The second byte that makes a sequence neither overlong nor a surrogate's
\* nor past the last code point.
NoOverlong3 == 160..191
NoOverlong4 == 144..191
NoSurrogate == 128..159
NotBeyond   == 128..143

\* What UTF-8 makes of the byte that leads.
LEMMA LeadCases ==
    ASSUME NEW c \in 0..255
    PROVE  /\ c \in 194..223 => Str!Lead(c).need = 1 /\ Str!Lead(c).first = Str!Cont
           /\ c = 224 => Str!Lead(c).need = 2 /\ Str!Lead(c).first = NoOverlong3
           /\ c \in (225..236) \cup {238, 239} => Str!Lead(c).need = 2 /\ Str!Lead(c).first = Str!Cont
           /\ c = 237 => Str!Lead(c).need = 2 /\ Str!Lead(c).first = NoSurrogate
           /\ c = 240 => Str!Lead(c).need = 3 /\ Str!Lead(c).first = NoOverlong4
           /\ c \in 241..243 => Str!Lead(c).need = 3 /\ Str!Lead(c).first = Str!Cont
           /\ c = 244 => Str!Lead(c).need = 3 /\ Str!Lead(c).first = NotBeyond
           /\ c \in (0..193) \cup (245..255) => Str!Lead(c).need = 0
  BY DEF Str!Lead, Str!Cont, NoOverlong3, NoOverlong4, NoSurrogate, NotBeyond

LEMMA LeadNeeds == ASSUME NEW c \in 0..255 PROVE Str!Lead(c).need \in 0..3 /\ (c \in 0..127 => Str!Lead(c).need = 0)
  BY DEF Str!Lead

\* The first n bytes are in the sets of a row.
In(b, n, row) == n <= Len(row) /\ \A k \in 1..n : b[k] \in row[k]

Next2(b, n, S) == n >= 2 => b[2] \in S
Next3(b, n, S) == n >= 3 => b[3] \in S
Next4(b, n, S) == n >= 4 => b[4] \in S

LEMMA Firsts ==
    ASSUME NEW n \in Nat \ {0}
    PROVE  /\ 1 \in 1..n /\ (n >= 2 => 2 \in 1..n) /\ (n >= 3 => 3 \in 1..n) /\ (n >= 4 => 4 \in 1..n)
           /\ n <= 4 => \A k \in 1..n : k = 1 \/ (k = 2 /\ n >= 2) \/ (k = 3 /\ n >= 3) \/ (k = 4 /\ n >= 4)
  OBVIOUS

LEMMA In1 ==
    ASSUME NEW b, NEW n \in Nat \ {0}, NEW A
    PROVE  In(b, n, <<A>>) <=> n <= 1 /\ b[1] \in A
<1> DEFINE row == <<A>>
<1>1. Len(row) = 1 /\ row[1] = A
  OBVIOUS
<1> HIDE DEF row
<1>2. In(b, n, row) <=> n <= 1 /\ b[1] \in A
  BY <1>1, Firsts DEF In, Next2, Next3, Next4
<1>3. QED
  BY <1>2 DEF row

LEMMA In2 ==
    ASSUME NEW b, NEW n \in Nat \ {0}, NEW A, NEW B
    PROVE  In(b, n, <<A, B>>) <=> n <= 2 /\ b[1] \in A /\ Next2(b, n, B)
<1> DEFINE row == <<A, B>>
<1>1. Len(row) = 2 /\ row[1] = A /\ row[2] = B
  OBVIOUS
<1> HIDE DEF row
<1>2. In(b, n, row) <=> n <= 2 /\ b[1] \in A /\ Next2(b, n, B)
  BY <1>1, Firsts DEF In, Next2, Next3, Next4
<1>3. QED
  BY <1>2 DEF row

LEMMA In3 ==
    ASSUME NEW b, NEW n \in Nat \ {0}, NEW A, NEW B, NEW C
    PROVE  In(b, n, <<A, B, C>>) <=> n <= 3 /\ b[1] \in A /\ Next2(b, n, B) /\ Next3(b, n, C)
<1> DEFINE row == <<A, B, C>>
<1>1. Len(row) = 3 /\ row[1] = A /\ row[2] = B /\ row[3] = C
  OBVIOUS
<1> HIDE DEF row
<1>2. In(b, n, row) <=> n <= 3 /\ b[1] \in A /\ Next2(b, n, B) /\ Next3(b, n, C)
  BY <1>1, Firsts DEF In, Next2, Next3, Next4
<1>3. QED
  BY <1>2 DEF row

LEMMA In4 ==
    ASSUME NEW b, NEW n \in Nat \ {0}, NEW A, NEW B, NEW C, NEW D
    PROVE  In(b, n, <<A, B, C, D>>) <=> n <= 4 /\ b[1] \in A /\ Next2(b, n, B) /\ Next3(b, n, C) /\ Next4(b, n, D)
<1> DEFINE row == <<A, B, C, D>>
<1>1. Len(row) = 4 /\ row[1] = A /\ row[2] = B /\ row[3] = C /\ row[4] = D
  OBVIOUS
<1> HIDE DEF row
<1>2. In(b, n, row) <=> n <= 4 /\ b[1] \in A /\ Next2(b, n, B) /\ Next3(b, n, C) /\ Next4(b, n, D)
  BY <1>1, Firsts DEF In, Next2, Next3, Next4
<1>3. QED
  BY <1>2 DEF row

\* The eight rows.
Row1 == << 0..127 >>
Row2 == << 194..223, Str!Cont >>
Row3 == << {224}, NoOverlong3, Str!Cont >>
Row4 == << (225..236) \cup {238, 239}, Str!Cont, Str!Cont >>
Row5 == << {237}, NoSurrogate, Str!Cont >>
Row6 == << {240}, NoOverlong4, Str!Cont, Str!Cont >>
Row7 == << 241..243, Str!Cont, Str!Cont, Str!Cont >>
Row8 == << {244}, NotBeyond, Str!Cont, Str!Cont >>

LEMMA RowsAre == Str!WellFormed = {Row1, Row2, Row3, Row4, Row5, Row6, Row7, Row8}
  BY DEF Str!WellFormed, Row1, Row2, Row3, Row4, Row5, Row6, Row7, Row8,
         NoOverlong3, NoOverlong4, NoSurrogate, NotBeyond

\* What begins like a row, row by row.
LEMMA RowsIn ==
    ASSUME NEW b, NEW n
    PROVE  (\E row \in Str!WellFormed : In(b, n, row)) <=>
               \/ In(b, n, Row1) \/ In(b, n, Row2) \/ In(b, n, Row3) \/ In(b, n, Row4)
               \/ In(b, n, Row5) \/ In(b, n, Row6) \/ In(b, n, Row7) \/ In(b, n, Row8)
  BY RowsAre

\* The bytes that begin a well-formed sequence, by what the first asks.
LEMMA BeginsIs ==
    ASSUME NEW b \in Seq(0..255), NEW n \in 1..Len(b)
    PROVE  Str!Begins(b, n) <=> \/ n = 1 /\ b[1] \in 0..127
                                \/ Need(b) > 0 /\ n <= Need(b) + 1 /\ Follows(b, n)
<1> DEFINE Two(S) == Next2(b, n, S)
           Three == Next3(b, n, Str!Cont)
           Four == Next4(b, n, Str!Cont)
<1>1. PICK c \in 0..255 : c = b[1]
  <2>1. 1 \in 1..Len(b)
    OBVIOUS
  <2>2. b[1] \in 0..255
    BY <2>1, ElementOfSeq
  <2>3. QED
    BY <2>2
<1>2. n \in Nat \ {0}
  OBVIOUS
<1>3. /\ In(b, n, Row1) <=> n <= 1 /\ c \in 0..127
      /\ In(b, n, Row2) <=> n <= 2 /\ c \in 194..223 /\ Two(Str!Cont)
      /\ In(b, n, Row3) <=> n <= 3 /\ c \in {224} /\ Two(NoOverlong3) /\ Three
      /\ In(b, n, Row4) <=> n <= 3 /\ c \in (225..236) \cup {238, 239} /\ Two(Str!Cont) /\ Three
      /\ In(b, n, Row5) <=> n <= 3 /\ c \in {237} /\ Two(NoSurrogate) /\ Three
      /\ In(b, n, Row6) <=> n <= 4 /\ c \in {240} /\ Two(NoOverlong4) /\ Three /\ Four
      /\ In(b, n, Row7) <=> n <= 4 /\ c \in 241..243 /\ Two(Str!Cont) /\ Three /\ Four
      /\ In(b, n, Row8) <=> n <= 4 /\ c \in {244} /\ Two(NotBeyond) /\ Three /\ Four
  <2>1. In(b, n, Row1) <=> n <= 1 /\ b[1] \in 0..127
    BY <1>2, In1, Zenon DEF Row1
  <2>2. In(b, n, Row2) <=> n <= 2 /\ b[1] \in 194..223 /\ Two(Str!Cont)
    BY <1>2, In2, Zenon DEF Row2
  <2>3. In(b, n, Row3) <=> n <= 3 /\ b[1] \in {224} /\ Two(NoOverlong3) /\ Three
    BY <1>2, In3, Zenon DEF Row3
  <2>4. In(b, n, Row4) <=> n <= 3 /\ b[1] \in (225..236) \cup {238, 239} /\ Two(Str!Cont) /\ Three
    BY <1>2, In3, ZenonT(30) DEF Row4
  <2>5. In(b, n, Row5) <=> n <= 3 /\ b[1] \in {237} /\ Two(NoSurrogate) /\ Three
    BY <1>2, In3, ZenonT(30) DEF Row5
  <2>6. In(b, n, Row6) <=> n <= 4 /\ b[1] \in {240} /\ Two(NoOverlong4) /\ Three /\ Four
    BY <1>2, In4, ZenonT(30) DEF Row6
  <2>7. In(b, n, Row7) <=> n <= 4 /\ b[1] \in 241..243 /\ Two(Str!Cont) /\ Three /\ Four
    BY <1>2, In4, ZenonT(30) DEF Row7
  <2>8. In(b, n, Row8) <=> n <= 4 /\ b[1] \in {244} /\ Two(NotBeyond) /\ Three /\ Four
    BY <1>2, In4, ZenonT(30) DEF Row8
  <2>9. QED
    BY <1>1, <2>1, <2>2, <2>3, <2>4, <2>5, <2>6, <2>7, <2>8
<1>4. Str!Begins(b, n) <=> \E row \in Str!WellFormed : In(b, n, row)
  BY DEF Str!Begins, In
<1> DEFINE need == Str!Lead(c).need
           first == Str!Lead(c).first
<1>5. n <= 4 => (Follows(b, n) <=> Two(first) /\ Three /\ Four)
  <2>1. \A k \in 2..n : Fits(b, k) <=> b[k] \in (IF k = 2 THEN first ELSE Str!Cont)
    BY <1>1 DEF Fits
  <2>2. (n >= 2 => 2 \in 2..n) /\ (n >= 3 => 3 \in 2..n) /\ (n >= 4 => 4 \in 2..n)
    BY <1>2
  <2>3. n <= 4 => \A k \in 2..n : (k = 2 /\ n >= 2) \/ (k = 3 /\ n >= 3) \/ (k = 4 /\ n >= 4)
    BY <1>2
  <2> HIDE DEF first
  <2>4. QED
    BY <1>2, <2>1, <2>2, <2>3 DEF Follows, Next2, Next3, Next4
<1>6. (n < 4 => Four) /\ (n < 3 => Three) /\ Three \in BOOLEAN /\ Four \in BOOLEAN
  BY <1>2 DEF Next3, Next4
<1>7. need \in 0..3 /\ Need(b) = need
  BY <1>1, LeadNeeds DEF Need
<1>8. Str!Begins(b, n) <=> (n = 1 /\ c \in 0..127) \/ (need > 0 /\ n <= need + 1 /\ Two(first) /\ Three /\ Four)
  <2> DEFINE one == n <= 1 /\ c \in 0..127
             two == n <= 2 /\ c \in 194..223 /\ Two(Str!Cont)
             three == n <= 3 /\ Three /\ \/ c \in {224} /\ Two(NoOverlong3)
                                         \/ c \in (225..236) \cup {238, 239} /\ Two(Str!Cont)
                                         \/ c \in {237} /\ Two(NoSurrogate)
             four == n <= 4 /\ Three /\ Four /\ \/ c \in {240} /\ Two(NoOverlong4)
                                                \/ c \in 241..243 /\ Two(Str!Cont)
                                                \/ c \in {244} /\ Two(NotBeyond)
  <2>1. (one \/ two \/ three \/ four)
           <=> (n = 1 /\ c \in 0..127) \/ (need > 0 /\ n <= need + 1 /\ Two(first) /\ Three /\ Four)
    <3> HIDE DEF Three, Four, need, first
    <3>1. /\ c \in 194..223 => need = 1 /\ first = Str!Cont
          /\ c = 224 => need = 2 /\ first = NoOverlong3
          /\ c \in (225..236) \cup {238, 239} => need = 2 /\ first = Str!Cont
          /\ c = 237 => need = 2 /\ first = NoSurrogate
          /\ c = 240 => need = 3 /\ first = NoOverlong4
          /\ c \in 241..243 => need = 3 /\ first = Str!Cont
          /\ c = 244 => need = 3 /\ first = NotBeyond
          /\ c \in (0..193) \cup (245..255) => need = 0
      BY LeadCases, Zenon DEF need, first
    <3>2. QED
      <4> HIDE DEF Two
      <4>1. QED
        BY <1>2, <1>6, <3>1
  <2>2. Str!Begins(b, n) <=> one \/ two \/ three \/ four
    <3>1. (\E row \in Str!WellFormed : In(b, n, row)) <=> one \/ two \/ three \/ four
      <4> HIDE DEF Three, Four, Two
      <4>1. one <=> In(b, n, Row1)
        BY <1>3, ZenonT(30)
      <4>2. two <=> In(b, n, Row2)
        BY <1>3, ZenonT(30)
      <4>3. three <=> In(b, n, Row3) \/ In(b, n, Row4) \/ In(b, n, Row5)
        BY <1>3
      <4>4. four <=> In(b, n, Row6) \/ In(b, n, Row7) \/ In(b, n, Row8)
        BY <1>3
      <4> HIDE DEF one, two, three, four
      <4>5. QED
        BY <4>1, <4>2, <4>3, <4>4, RowsIn, Zenon
    <3> HIDE DEF one, two, three, four
    <3>2. QED
      BY <1>4, <3>1, Zenon
  <2>3. QED
    BY <2>1, <2>2, Zenon
<1>9. QED
  BY <1>1, <1>5, <1>7, <1>8

\* A well-formed sequence is as long as its first byte says.
LEMMA RowLength ==
    ASSUME NEW c \in 0..255, NEW row \in Str!WellFormed, c \in row[1]
    PROVE  Len(row) = Str!Lead(c).need + 1
<1>1. /\ Len(Row1) = 1 /\ Row1[1] = 0..127
      /\ Len(Row2) = 2 /\ Row2[1] = 194..223
      /\ Len(Row3) = 3 /\ Row3[1] = {224}
      /\ Len(Row4) = 3 /\ Row4[1] = (225..236) \cup {238, 239}
      /\ Len(Row5) = 3 /\ Row5[1] = {237}
      /\ Len(Row6) = 4 /\ Row6[1] = {240}
      /\ Len(Row7) = 4 /\ Row7[1] = 241..243
      /\ Len(Row8) = 4 /\ Row8[1] = {244}
  BY DEF Row1, Row2, Row3, Row4, Row5, Row6, Row7, Row8
<1>2. /\ c \in 194..223 => Str!Lead(c).need = 1
      /\ c = 224 => Str!Lead(c).need = 2
      /\ c \in (225..236) \cup {238, 239} => Str!Lead(c).need = 2
      /\ c = 237 => Str!Lead(c).need = 2
      /\ c = 240 => Str!Lead(c).need = 3
      /\ c \in 241..243 => Str!Lead(c).need = 3
      /\ c = 244 => Str!Lead(c).need = 3
      /\ c \in 0..127 => Str!Lead(c).need = 0
  <2>1. c \in 0..127 => Str!Lead(c).need = 0
    BY LeadNeeds
  <2>2. QED
    BY <2>1, LeadCases, ZenonT(30)
<1>3. CASE row = Row1
  BY <1>1, <1>2, <1>3
<1>4. CASE row = Row2
  BY <1>1, <1>2, <1>4
<1>5. CASE row = Row3
  BY <1>1, <1>2, <1>5
<1>6. CASE row = Row4
  BY <1>1, <1>2, <1>6
<1>7. CASE row = Row5
  BY <1>1, <1>2, <1>7
<1>8. CASE row = Row6
  BY <1>1, <1>2, <1>8
<1>9. CASE row = Row7
  BY <1>1, <1>2, <1>9
<1>10. CASE row = Row8
  BY <1>1, <1>2, <1>10
<1>11. QED
  BY <1>3, <1>4, <1>5, <1>6, <1>7, <1>8, <1>9, <1>10, RowsAre

\* A rune is a prefix that begins one and is as long as its first byte says.
LEMMA RuneIs ==
    ASSUME NEW b \in Seq(0..255), NEW n \in 1..Len(b)
    PROVE  Str!IsRune(b, n) <=> Str!Begins(b, n) /\ n = Need(b) + 1
<1>1. 1 \in 1..n /\ 1 \in 1..Len(b)
  OBVIOUS
<1>2. b[1] \in 0..255
  BY <1>1, ElementOfSeq
<1>3. \A row \in Str!WellFormed : b[1] \in row[1] => Len(row) = Need(b) + 1
  BY <1>2, RowLength, Zenon DEF Need
<1>4. Need(b) \in 0..3
  BY <1>2, LeadNeeds DEF Need
<1>5. QED
  BY <1>1, <1>3, <1>4 DEF Str!IsRune, Str!Begins

\* The maximal subpart at the head of b is the invalid prefix the code takes,
\* or the rune it decodes.
LEMMA HeadAlike ==
    ASSUME NEW b \in Seq(0..255), b # <<>>
    PROVE  \E n \in 1..Len(b) :
             /\ Str!MaximalSubpart(b) = n
             /\ Str!IsRune(b, n) => Str!RuneSize(b) = n
             /\ ~Str!IsRune(b, n) => Str!RuneSize(b) = 0 /\ Str!InvalidPrefixLen(b) = n
<1> DEFINE L == Len(b)
           need == Need(b)
           Prefix(n) == n <= need + 1 /\ Follows(b, n) /\ (n < L /\ n <= need => ~Fits(b, n + 1))
<1>1. L \in Nat \ {0} /\ 1 \in 1..L
  OBVIOUS
<1>2. PICK c \in 0..255 : c = b[1]
  BY <1>1, ElementOfSeq
<1>3. need \in 0..3 /\ (c \in 0..127 => need = 0)
  BY <1>2, LeadNeeds DEF Need
<1>4. Follows(b, 1) /\ \A n \in 1..L : Follows(b, n + 1) <=> Follows(b, n) /\ Fits(b, n + 1)
  BY <1>1 DEF Follows
<1>5. \A n \in 1..L : Follows(b, n) => \A k \in 1..n : Follows(b, k)
  BY <1>1 DEF Follows
<1>6. ASSUME NEW n \in 1..L
      PROVE  /\ Str!Begins(b, n) <=> (n = 1 /\ c \in 0..127) \/ (need > 0 /\ n <= need + 1 /\ Follows(b, n))
             /\ Str!IsRune(b, n) <=> Str!Begins(b, n) /\ n = need + 1
  BY <1>2, BeginsIs, RuneIs
<1> HIDE DEF need
<1>7. PICK m \in 1..L : Prefix(m)
  <2> DEFINE T == {n \in 1..L : n = L \/ n = need + 1 \/ ~Fits(b, n + 1)}
  <2>1. T \in SUBSET Nat /\ L \in T
    BY <1>1
  <2>2. PICK m \in T : \A k \in T : m <= k
    <3> HIDE DEF T
    <3>1. QED
      BY <2>1, LeastOf, Zenon
  <2>3. m \in 1..L /\ m <= need + 1
    BY <1>1, <1>3, <2>2
  <2>4. ASSUME NEW k \in 2..m PROVE Fits(b, k)
    <3>1. k - 1 \in 1..L /\ k - 1 < m /\ (k - 1) + 1 = k
      BY <2>2
    <3>2. k - 1 \notin T
      <4> HIDE DEF T
      <4>1. QED
        BY <2>2, <2>3, <3>1
    <3>3. QED
      BY <3>1, <3>2
  <2>5. m \in 1..L /\ Follows(b, m)
    BY <2>2, <2>4 DEF Follows
  <2>6. m < L /\ m <= need => ~Fits(b, m + 1)
    BY <1>1, <1>3, <2>2
  <2>7. QED
    BY <2>3, <2>5, <2>6
<1>8. ASSUME NEW n \in 1..L, Prefix(n) PROVE n = m
  <2>1. CASE n < m
    <3>1. n + 1 \in 2..m /\ n < L /\ n <= need
      BY <1>1, <1>3, <1>7, <2>1
    <3>2. QED
      BY <1>7, <1>8, <3>1 DEF Follows
  <2>2. CASE m < n
    <3>1. m + 1 \in 2..n /\ m < L /\ m <= need
      BY <1>1, <1>3, <1>8, <2>2
    <3>2. QED
      BY <1>7, <1>8, <3>1 DEF Follows
  <2>3. QED
    BY <2>1, <2>2
<1>9. Str!InvalidPrefixLen(b) = m
  <2>1. Str!InvalidPrefixLen(b) = CHOOSE n \in 1..L : Prefix(n)
    BY Zenon DEF Str!InvalidPrefixLen, Follows, Fits, Need, need, Str!Cont
  <2> HIDE DEF Prefix
  <2>2. QED
    BY <1>7, <1>8, <2>1
<1>10. Str!MaximalSubpart(b) = m
  <2> DEFINE Max(n) == Str!Begins(b, n) /\ (n = L \/ ~Str!Begins(b, n + 1))
  <2>1. CASE ~Str!Begins(b, 1)
    <3>1. need = 0
      BY <1>1, <1>3, <1>4, <1>6, <2>1
    <3>2. m = 1
      BY <1>3, <1>7, <3>1
    <3>3. QED
      BY <2>1, <3>2 DEF Str!MaximalSubpart
  <2>2. CASE Str!Begins(b, 1)
    <3>1. Str!MaximalSubpart(b) = CHOOSE n \in 1..L : Max(n)
      BY <2>2 DEF Str!MaximalSubpart
    <3>2. need > 0 \/ c \in 0..127
      BY <1>1, <1>3, <1>6, <2>2
    <3>3. ASSUME NEW n \in 1..L PROVE Max(n) <=> Prefix(n)
      <4>1. n # L => n + 1 \in 1..L
        BY <1>1
      <4>2. n = 1 => Follows(b, n)
        BY <1>4
      <4>3. n # L => /\ Str!Begins(b, n + 1) <=> need > 0 /\ n + 1 <= need + 1 /\ Follows(b, n + 1)
                     /\ Follows(b, n + 1) <=> Follows(b, n) /\ Fits(b, n + 1)
        BY <1>1, <1>4, <1>6, <4>1
      <4>4. Str!Begins(b, n) <=> n <= need + 1 /\ Follows(b, n)
        BY <1>1, <1>3, <1>6, <3>2, <4>2
      <4>5. QED
        BY <1>1, <1>3, <4>3, <4>4
    <3> HIDE DEF Max, Prefix
    <3>4. QED
      BY <1>7, <1>8, <3>1, <3>3
  <2>3. QED
    BY <2>1, <2>2
<1>11. ASSUME NEW n \in 1..L, Str!IsRune(b, n) PROVE n = m
  <2>1. Follows(b, n) /\ n = need + 1
    BY <1>1, <1>3, <1>4, <1>6, <1>11
  <2>2. QED
    BY <1>1, <1>3, <1>8, <2>1
<1>12. Str!IsRune(b, m) => Str!RuneSize(b) = m
  BY <1>11 DEF Str!RuneSize
<1>13. ~Str!IsRune(b, m) => Str!RuneSize(b) = 0
  BY <1>11 DEF Str!RuneSize
<1>14. QED
  BY <1>9, <1>10, <1>12, <1>13

-----------------------------------------------------------------------------
(* A run of bytes, decoded.                                                *)

Rest(b, k) == SubSeq(b, k, Len(b))
Size(b, k) == Str!MaximalSubpart(Rest(b, k))
Decoded(b, k) ==
    <<IF Str!IsRune(Rest(b, k), Size(b, k)) THEN SubSeq(Rest(b, k), 1, Size(b, k)) ELSE Str!Replacement>>
Runes(b) == [k \in 1..Len(b) |-> Decoded(b, k)]
Jumps(b) == [k \in 1..Len(b) |-> k + Size(b, k)]

\* What is left of a run, and the head the decoder takes of it.
LEMMA RestIs ==
    ASSUME NEW b \in Seq(0..255), NEW k \in 1..Len(b)
    PROVE  /\ Rest(b, k) \in Seq(0..255) /\ Len(Rest(b, k)) = Len(b) - k + 1 /\ Rest(b, k) # <<>>
           /\ Size(b, k) \in 1..(Len(b) - k + 1)
           /\ Decoded(b, k) \in Seq(Seq(0..255))
<1> DEFINE B == 0..255
<1> HIDE DEF B
<1>1. b \in Seq(B) /\ Len(b) \in Nat
  BY DEF B
<1>2. \A j \in k..Len(b) : b[j] \in B
  <2> SUFFICES ASSUME NEW j \in k..Len(b) PROVE b[j] \in B
    OBVIOUS
  <2>1. j \in 1..Len(b)
    BY <1>1
  <2>2. QED
    BY <1>1, <2>1, ElementOfSeq
<1>3. Rest(b, k) \in Seq(B) /\ Len(Rest(b, k)) = Len(b) - k + 1
  BY <1>1, <1>2, SubSeqProperties DEF Rest
<1>4. Rest(b, k) # <<>>
  BY <1>1, <1>3
<1>5. Size(b, k) \in 1..(Len(b) - k + 1)
  BY <1>3, <1>4, HeadAlike DEF Size, B
<1>6. Decoded(b, k) \in Seq(Seq(B))
  <2>1. Str!Replacement \in Seq(B)
    <3>1. Str!Replacement \in Seq(0..255)
      BY DEF Str!Replacement
    <3>2. QED
      BY <3>1 DEF B
  <2>2. SubSeq(Rest(b, k), 1, Size(b, k)) \in Seq(B)
    <3> DEFINE r == Rest(b, k)
               z == Size(b, k)
    <3>1. \A j \in 1..z : r[j] \in B
      <4>1. z \in 1..Len(r)
        BY <1>3, <1>5
      <4>2. SUFFICES ASSUME NEW j \in 1..z PROVE r[j] \in B
        OBVIOUS
      <4>3. j \in 1..Len(r)
        BY <1>3, <4>1
      <4>4. QED
        BY <1>3, <4>3, ElementOfSeq
    <3>2. z \in Int
      BY <1>5
    <3> HIDE DEF r, z
    <3>3. SubSeq(r, 1, z) \in Seq(B)
      BY <3>1, <3>2, SubSeqProperties
    <3>4. QED
      BY <3>3 DEF r, z
  <2>3. QED
    BY <2>1, <2>2 DEF Decoded
<1>7. QED
  BY <1>3, <1>4, <1>5, <1>6 DEF B

\* The decoder goes ahead, and stays within the run.
LEMMA JumpsAhead ==
    ASSUME NEW b \in Seq(0..255)
    PROVE  /\ \A k \in 1..Len(b) : Jumps(b)[k] \in (k + 1)..(Len(b) + 1)
           /\ \A k \in 1..Len(b) : Runes(b)[k] \in Seq(Seq(0..255))
<1> SUFFICES ASSUME NEW k \in 1..Len(b)
             PROVE  Jumps(b)[k] \in (k + 1)..(Len(b) + 1) /\ Runes(b)[k] \in Seq(Seq(0..255))
  OBVIOUS
<1>1. Size(b, k) \in 1..(Len(b) - k + 1) /\ Decoded(b, k) \in Seq(Seq(0..255))
  BY RestIs
<1>2. Jumps(b)[k] = k + Size(b, k) /\ Runes(b)[k] = Decoded(b, k)
  BY DEF Jumps, Runes
<1>3. Jumps(b)[k] \in (k + 1)..(Len(b) + 1)
  BY <1>1, <1>2
<1>4. QED
  BY <1>1, <1>2, <1>3

\* The rules of both decoders are one.
LEMMA DecodersAlike ==
    ASSUME NEW b \in Seq(0..255)
    PROVE  \E f : /\ Gathers(f, Len(b), Runes(b), Jumps(b))
                  /\ Str!Subparts(b) = f[1]
                  /\ Str!LossyUTF8(b) = f[1]
<1> DEFINE L == Len(b)
           Sub(f) == f = [k \in 1..(L + 1) |->
                            IF SubSeq(b, k, Len(b)) = <<>> THEN <<>> ELSE Decoded(b, k) \o f[k + Size(b, k)]]
           Los(f) == f = [k \in 1..(L + 1) |->
                            CASE Rest(b, k) = <<>> -> <<>>
                              [] Str!RuneSize(Rest(b, k)) > 0 ->
                                   <<SubSeq(Rest(b, k), 1, Str!RuneSize(Rest(b, k)))>> \o f[k + Str!RuneSize(Rest(b, k))]
                              [] OTHER -> <<Str!Replacement>> \o f[k + Str!InvalidPrefixLen(Rest(b, k))]]
<1>1. L \in Nat
  OBVIOUS
<1>2. PICK f : Gathers(f, L, Runes(b), Jumps(b))
  BY <1>1, JumpsAhead, Gather
<1>3. \A g : Gathers(g, L, Runes(b), Jumps(b)) => g = f
  BY <1>1, <1>2, JumpsAhead, GathersOne
<1>4. ASSUME NEW k \in 1..L
      PROVE  /\ Rest(b, k) # <<>> /\ Runes(b)[k] = Decoded(b, k) /\ Jumps(b)[k] = k + Size(b, k)
             /\ Str!IsRune(Rest(b, k), Size(b, k)) => Str!RuneSize(Rest(b, k)) = Size(b, k)
             /\ ~Str!IsRune(Rest(b, k), Size(b, k)) => /\ Str!RuneSize(Rest(b, k)) = 0
                                                      /\ Str!InvalidPrefixLen(Rest(b, k)) = Size(b, k)
             /\ Size(b, k) \in Nat \ {0}
  <2>1. Rest(b, k) \in Seq(0..255) /\ Rest(b, k) # <<>> /\ Size(b, k) \in 1..(Len(b) - k + 1)
    BY RestIs
  <2>2. Runes(b)[k] = Decoded(b, k) /\ Jumps(b)[k] = k + Size(b, k)
    BY DEF Runes, Jumps
  <2>3. Size(b, k) \in Nat \ {0}
    BY <2>1
  <2>4. QED
    BY <2>1, <2>2, <2>3, HeadAlike DEF Size
<1>5. Rest(b, L + 1) = <<>>
  BY <1>1, SubSeqEmpty DEF Rest
<1>6. ASSUME NEW g PROVE Sub(g) <=> Gathers(g, L, Runes(b), Jumps(b))
  <2> DEFINE Body(k) == IF Rest(b, k) = <<>> THEN <<>> ELSE Decoded(b, k) \o g[k + Size(b, k)]
  <2>1. Sub(g) <=> g = [k \in 1..(L + 1) |-> Body(k)]
    BY Zenon DEF Rest
  <2>2. Body(L + 1) = <<>>
    BY <1>5
  <2>3. \A k \in 1..L : Body(k) = Runes(b)[k] \o g[Jumps(b)[k]]
    BY <1>4
  <2> HIDE DEF Body, Sub
  <2> DEFINE rule == [k \in 1..(L + 1) |-> Body(k)]
  <2>4. /\ rule = [k \in 1..(L + 1) |-> rule[k]] /\ rule[L + 1] = <<>>
        /\ \A k \in 1..L : rule[k] = Runes(b)[k] \o g[Jumps(b)[k]]
    <3>1. rule = [k \in 1..(L + 1) |-> rule[k]]
      OBVIOUS
    <3>2. L + 1 \in 1..(L + 1) /\ \A k \in 1..L : k \in 1..(L + 1)
      BY <1>1
    <3>3. rule[L + 1] = <<>>
      BY <2>2, <3>2
    <3>4. \A k \in 1..L : rule[k] = Body(k)
      BY <3>2
    <3> HIDE DEF rule
    <3>5. \A k \in 1..L : rule[k] = Runes(b)[k] \o g[Jumps(b)[k]]
      BY <2>3, <3>4, Zenon
    <3>6. QED
      BY <3>1, <3>3, <3>5
  <2> HIDE DEF rule
  <2>5. g = rule <=> Gathers(g, L, Runes(b), Jumps(b))
    BY <1>1, <2>4, GathersBy
  <2>6. QED
    BY <2>1, <2>5 DEF rule
<1>7. ASSUME NEW g PROVE Los(g) <=> Gathers(g, L, Runes(b), Jumps(b))
  <2> DEFINE Body(k) == CASE Rest(b, k) = <<>> -> <<>>
                          [] Str!RuneSize(Rest(b, k)) > 0 ->
                               <<SubSeq(Rest(b, k), 1, Str!RuneSize(Rest(b, k)))>> \o g[k + Str!RuneSize(Rest(b, k))]
                          [] OTHER -> <<Str!Replacement>> \o g[k + Str!InvalidPrefixLen(Rest(b, k))]
  <2>1. Los(g) <=> g = [k \in 1..(L + 1) |-> Body(k)]
    BY Zenon
  <2>2. Body(L + 1) = <<>>
    <3>1. ~(Str!RuneSize(<<>>) > 0)
      <4>1. Str!RuneSize(<<>>) = 0
        BY DEF Str!RuneSize
      <4>2. QED
        BY <4>1
    <3>2. ~(Str!RuneSize(Rest(b, L + 1)) > 0)
      BY <1>5, <3>1, Zenon
    <3>3. QED
      BY <1>5, <3>2, Zenon
  <2>3. ASSUME NEW k \in 1..L PROVE Body(k) = Runes(b)[k] \o g[Jumps(b)[k]]
    <3>1. CASE Str!IsRune(Rest(b, k), Size(b, k))
      <4>1. Decoded(b, k) = <<SubSeq(Rest(b, k), 1, Size(b, k))>>
        BY <3>1 DEF Decoded
      <4>2. Str!RuneSize(Rest(b, k)) = Size(b, k) /\ Size(b, k) > 0
        BY <1>4, <3>1
      <4>3. Body(k) = <<SubSeq(Rest(b, k), 1, Size(b, k))>> \o g[k + Size(b, k)]
        BY <1>4, <4>2
      <4>4. QED
        BY <1>4, <4>1, <4>3
    <3>2. CASE ~Str!IsRune(Rest(b, k), Size(b, k))
      <4>1. Decoded(b, k) = <<Str!Replacement>>
        BY <3>2 DEF Decoded
      <4>2. Str!RuneSize(Rest(b, k)) = 0 /\ Str!InvalidPrefixLen(Rest(b, k)) = Size(b, k) /\ Rest(b, k) # <<>>
        BY <1>4, <3>2
      <4>3. ~(Str!RuneSize(Rest(b, k)) > 0)
        BY <4>2
      <4>4. Body(k) = <<Str!Replacement>> \o g[k + Size(b, k)]
        BY <4>2, <4>3
      <4>5. QED
        BY <1>4, <4>1, <4>4
    <3>3. QED
      BY <3>1, <3>2
  <2> HIDE DEF Body, Los
  <2> DEFINE rule == [k \in 1..(L + 1) |-> Body(k)]
  <2>4. /\ rule = [k \in 1..(L + 1) |-> rule[k]] /\ rule[L + 1] = <<>>
        /\ \A k \in 1..L : rule[k] = Runes(b)[k] \o g[Jumps(b)[k]]
    <3>1. rule = [k \in 1..(L + 1) |-> rule[k]]
      OBVIOUS
    <3>2. L + 1 \in 1..(L + 1) /\ \A k \in 1..L : k \in 1..(L + 1)
      BY <1>1
    <3>3. rule[L + 1] = <<>>
      BY <2>2, <3>2
    <3>4. \A k \in 1..L : rule[k] = Body(k)
      BY <3>2
    <3> HIDE DEF rule
    <3>5. \A k \in 1..L : rule[k] = Runes(b)[k] \o g[Jumps(b)[k]]
      BY <2>3, <3>4, Zenon
    <3>6. QED
      BY <3>1, <3>3, <3>5
  <2> HIDE DEF rule
  <2>5. g = rule <=> Gathers(g, L, Runes(b), Jumps(b))
    BY <1>1, <2>4, GathersBy
  <2>6. QED
    BY <2>1, <2>5 DEF rule
<1>8. Str!Subparts(b) = (CHOOSE g : Sub(g))[1]
  BY Zenon DEF Str!Subparts, Decoded, Size, Rest
<1>9. Str!LossyUTF8(b) = (CHOOSE g : Los(g))[1]
  BY Zenon DEF Str!LossyUTF8, Rest
<1> HIDE DEF Sub, Los
<1>10. QED
  BY <1>2, <1>3, <1>6, <1>7, <1>8, <1>9

\* The decoder replaces maximal subparts, as the standard has it.
LEMMA DecodesWhole ==
    ASSUME NEW b \in Seq(0..255)
    PROVE  Str!LossyUTF8(b) = Str!Subparts(b) /\ Str!Subparts(b) \in Seq(Seq(0..255))
<1>1. PICK f : /\ Gathers(f, Len(b), Runes(b), Jumps(b))
               /\ Str!Subparts(b) = f[1] /\ Str!LossyUTF8(b) = f[1]
  BY DecodersAlike
<1> DEFINE V == Seq(0..255)
           n == Len(b)
<1>2. n \in Nat /\ 1 \in 1..(n + 1)
  OBVIOUS
<1>3. \A k \in 1..n : Jumps(b)[k] \in (k + 1)..(n + 1) /\ Runes(b)[k] \in Seq(V)
  BY JumpsAhead
<1> HIDE DEF V, n
<1>4. Gathers(f, n, Runes(b), Jumps(b))
  BY <1>1 DEF n
<1>5. \A k \in 1..(n + 1) : f[k] \in Seq(V)
  BY <1>2, <1>3, <1>4, GathersOf
<1>6. f[1] \in Seq(V)
  BY <1>2, <1>5
<1>7. QED
  BY <1>1, <1>6 DEF V

LEMMA NothingDecoded == Str!Subparts(<<>>) = <<>>
<1>1. <<>> \in Seq(0..255) /\ Len(<<>>) = 0
  OBVIOUS
<1>2. PICK f : Gathers(f, Len(<<>>), Runes(<<>>), Jumps(<<>>)) /\ Str!Subparts(<<>>) = f[1]
  BY <1>1, DecodersAlike
<1>3. f[Len(<<>>) + 1] = <<>>
  BY <1>2 DEF Gathers
<1>4. Len(<<>>) + 1 = 1
  BY <1>1
<1>5. QED
  BY <1>2, <1>3, <1>4, Zenon

-----------------------------------------------------------------------------
(* Items, a run of bytes at a time.                                        *)

IsByte(item) == item.kind = "byte"
IsEnd(its, k, e) ==
    /\ \A j \in k..(e - 1) : IsByte(its[j])
    /\ e <= Len(its) => ~IsByte(its[e])
End(its, k) == CHOOSE e \in k..(Len(its) + 1) : IsEnd(its, k, e)
Run(its, k, e) == [j \in 1..(e - k) |-> its[k + j - 1].is]
Heads(its) == [k \in 1..Len(its) |-> IF End(its, k) > k THEN Str!Subparts(Run(its, k, End(its, k)))
                                     ELSE <<Str!Character(its[k])>>]
Nexts(its) == [k \in 1..Len(its) |-> IF End(its, k) > k THEN End(its, k) ELSE k + 1]

\* A run of bytes ends in one place.
LEMMA EndIs ==
    ASSUME NEW its, Len(its) \in Nat, NEW k \in 1..Len(its)
    PROVE  /\ End(its, k) \in k..(Len(its) + 1)
           /\ IsEnd(its, k, End(its, k))
           /\ \A e \in k..(Len(its) + 1) : IsEnd(its, k, e) => e = End(its, k)
<1> DEFINE n == Len(its)
           T == {e \in k..(n + 1) : e <= n => ~IsByte(its[e])}
<1>1. n \in Nat
  OBVIOUS
<1> HIDE DEF n
<1>2. PICK m \in T : \A e \in T : m <= e
  <2>1. T \in SUBSET Nat /\ n + 1 \in T
    BY <1>1 DEF n
  <2> HIDE DEF T
  <2>2. QED
    BY <2>1, LeastOf, Zenon
<1>3. m \in k..(n + 1)
  BY <1>2
<1>4. IsEnd(its, k, m)
  <2>1. ASSUME NEW j \in k..(m - 1) PROVE IsByte(its[j])
    <3>1. j \in k..(n + 1) /\ j < m
      BY <1>1, <1>3
    <3>2. j \notin T
      <4> HIDE DEF T
      <4>1. QED
        BY <1>2, <1>3, <3>1
    <3>3. QED
      BY <3>1, <3>2
  <2>2. m <= n => ~IsByte(its[m])
    BY <1>2
  <2>3. QED
    BY <2>1, <2>2 DEF IsEnd, n
<1>5. ASSUME NEW e \in k..(n + 1), IsEnd(its, k, e) PROVE e = m
  <2>1. CASE e < m
    <3>1. e \in k..(m - 1) /\ e <= n
      BY <1>1, <1>3, <2>1
    <3>2. QED
      BY <1>4, <1>5, <3>1 DEF IsEnd, n
  <2>2. CASE m < e
    <3>1. m \in k..(e - 1) /\ m <= n
      BY <1>1, <1>3, <2>2
    <3>2. QED
      BY <1>4, <1>5, <3>1 DEF IsEnd, n
  <2>3. QED
    BY <1>1, <1>3, <2>1, <2>2
<1>6. End(its, k) = m
  BY <1>3, <1>4, <1>5 DEF End, n
<1>7. QED
  BY <1>3, <1>4, <1>5, <1>6 DEF n

LEMMA ItemsAre ==
    ASSUME NEW item \in Str!Item
    PROVE  item.is \in 0..255 \/ item.kind = "point"
<1>1. CASE item \in [kind : {"plain", "escape", "byte"}, is : Str!Bytes]
  BY <1>1 DEF Str!Bytes
<1>2. CASE item \in [kind : {"point"}, is : {"scalar", "surrogate", "beyond", "empty", "unbraced"}]
  BY <1>2
<1>3. CASE item \in [kind : {"quote", "line end", "control", "bad escape", "bad hex"}, is : {0}]
  <2>1. item.is \in {0}
    BY <1>3
  <2>2. QED
    BY <2>1
<1>4. QED
  BY <1>1, <1>2, <1>3, Zenon DEF Str!Item

LEMMA CharactersAre ==
    ASSUME NEW item \in Str!Item
    PROVE  Str!Character(item) \in Seq(0..255)
<1>1. CASE item.kind = "point"
  <2>1. Str!Character(item) = Str!ScalarChar
    BY <1>1 DEF Str!Character
  <2>2. QED
    BY <2>1 DEF Str!ScalarChar
<1>2. CASE item.kind # "point"
  <2>1. item.is \in 0..255
    BY <1>2, ItemsAre
  <2>2. CASE item.kind = "escape" /\ item.is \in DOMAIN Str!Named
    <3>1. Str!Character(item) = <<Str!Named[item.is]>>
      BY <1>2, <2>2 DEF Str!Character
    <3>2. Str!Named[item.is] \in 0..255
      BY <2>2 DEF Str!Named
    <3>3. QED
      BY <3>1, <3>2
  <2>3. CASE ~(item.kind = "escape" /\ item.is \in DOMAIN Str!Named)
    <3>1. Str!Character(item) = <<item.is>>
      BY <1>2, <2>3 DEF Str!Character
    <3>2. QED
      BY <2>1, <3>1
  <2>4. QED
    BY <2>2, <2>3
<1>3. QED
  BY <1>1, <1>2

\* A run of byte escapes is a run of bytes.
LEMMA RunIs ==
    ASSUME NEW its \in Seq(Str!Item), NEW k \in 1..(Len(its) + 1), NEW e \in k..(Len(its) + 1),
           \A j \in k..(e - 1) : IsByte(its[j])
    PROVE  Run(its, k, e) \in Seq(0..255) /\ Len(Run(its, k, e)) = e - k
<1>1. ASSUME NEW j \in 1..(e - k) PROVE its[k + j - 1].is \in 0..255
  <2>1. k + j - 1 \in k..(e - 1) /\ k + j - 1 \in 1..Len(its)
    OBVIOUS
  <2>2. its[k + j - 1] \in Str!Item /\ IsByte(its[k + j - 1])
    BY <2>1, ElementOfSeq
  <2>3. its[k + j - 1].kind # "point"
    BY <2>2 DEF IsByte
  <2>4. QED
    BY <2>2, <2>3, ItemsAre
<1>2. e - k \in Nat
  OBVIOUS
<1>3. Run(its, k, e) \in Seq(0..255)
  BY <1>1, <1>2 DEF Run
<1>4. QED
  BY <1>2, <1>3, SMTT(20) DEF Run

\* What the items spell is gathered going ahead.
LEMMA HeadsAre ==
    ASSUME NEW its \in Seq(Str!Item)
    PROVE  /\ \A k \in 1..Len(its) : Nexts(its)[k] \in (k + 1)..(Len(its) + 1)
           /\ \A k \in 1..Len(its) : Heads(its)[k] \in Seq(Seq(0..255))
<1> SUFFICES ASSUME NEW k \in 1..Len(its)
             PROVE  Nexts(its)[k] \in (k + 1)..(Len(its) + 1) /\ Heads(its)[k] \in Seq(Seq(0..255))
  OBVIOUS
<1>1. Len(its) \in Nat
  OBVIOUS
<1>2. End(its, k) \in k..(Len(its) + 1) /\ IsEnd(its, k, End(its, k))
  BY <1>1, EndIs
<1>3. CASE End(its, k) > k
  <2>1. Run(its, k, End(its, k)) \in Seq(0..255)
    BY <1>1, <1>2, RunIs DEF IsEnd
  <2>2. Heads(its)[k] = Str!Subparts(Run(its, k, End(its, k))) /\ Nexts(its)[k] = End(its, k)
    BY <1>3 DEF Heads, Nexts
  <2>3. Heads(its)[k] \in Seq(Seq(0..255))
    BY <2>1, <2>2, DecodesWhole
  <2>4. Nexts(its)[k] \in (k + 1)..(Len(its) + 1)
    BY <1>2, <1>3, <2>2
  <2>5. QED
    BY <2>3, <2>4
<1>4. CASE ~(End(its, k) > k)
  <2>1. Heads(its)[k] = <<Str!Character(its[k])>> /\ Nexts(its)[k] = k + 1
    BY <1>4 DEF Heads, Nexts
  <2>2. its[k] \in Str!Item
    BY ElementOfSeq
  <2>3. <<Str!Character(its[k])>> \in Seq(Seq(0..255))
    BY <2>2, CharactersAre
  <2>4. QED
    BY <2>1, <2>3
<1>5. QED
  BY <1>3, <1>4

\* What items spell, as a recursion that gathers.
LEMMA SpeltIs ==
    ASSUME NEW its \in Seq(Str!Item)
    PROVE  \E f : Gathers(f, Len(its), Heads(its), Nexts(its)) /\ Str!Spelt(its) = f[1]
<1> DEFINE L == Len(its)
           Sp(f) == f = [k \in 1..(L + 1) |->
                           IF k > Len(its) THEN <<>>
                           ELSE IF End(its, k) > k THEN Str!Subparts(Run(its, k, End(its, k))) \o f[End(its, k)]
                           ELSE <<Str!Character(its[k])>> \o f[k + 1]]
<1>1. L \in Nat
  OBVIOUS
<1>2. PICK f : Gathers(f, L, Heads(its), Nexts(its))
  BY <1>1, HeadsAre, Gather
<1>3. \A g : Gathers(g, L, Heads(its), Nexts(its)) => g = f
  BY <1>1, <1>2, HeadsAre, GathersOne
<1>4. ASSUME NEW g PROVE Sp(g) <=> Gathers(g, L, Heads(its), Nexts(its))
  <2> DEFINE Body(k) == IF k > Len(its) THEN <<>>
                        ELSE IF End(its, k) > k THEN Str!Subparts(Run(its, k, End(its, k))) \o g[End(its, k)]
                        ELSE <<Str!Character(its[k])>> \o g[k + 1]
             rule == [k \in 1..(L + 1) |-> Body(k)]
  <2>1. Sp(g) <=> g = rule
    BY Zenon
  <2>2. Body(L + 1) = <<>>
    BY <1>1
  <2>3. ASSUME NEW k \in 1..L PROVE Body(k) = Heads(its)[k] \o g[Nexts(its)[k]]
    <3>1. ~(k > Len(its))
      BY <1>1
    <3>2. CASE End(its, k) > k
      <4>1. Heads(its)[k] = Str!Subparts(Run(its, k, End(its, k))) /\ Nexts(its)[k] = End(its, k)
        BY <3>2 DEF Heads, Nexts
      <4>2. Body(k) = Str!Subparts(Run(its, k, End(its, k))) \o g[End(its, k)]
        BY <3>1, <3>2, Zenon
      <4>3. QED
        BY <4>1, <4>2, Zenon
    <3>3. CASE ~(End(its, k) > k)
      <4>1. Heads(its)[k] = <<Str!Character(its[k])>> /\ Nexts(its)[k] = k + 1
        BY <3>3 DEF Heads, Nexts
      <4>2. Body(k) = <<Str!Character(its[k])>> \o g[k + 1]
        BY <3>1, <3>3, Zenon
      <4>3. QED
        BY <4>1, <4>2, Zenon
    <3>4. QED
      BY <3>2, <3>3
  <2> HIDE DEF Body, Sp
  <2>4. rule = [k \in 1..(L + 1) |-> rule[k]]
    OBVIOUS
  <2>5. L + 1 \in 1..(L + 1) /\ \A k \in 1..L : k \in 1..(L + 1)
    BY <1>1
  <2>6. rule[L + 1] = <<>>
    BY <2>2, <2>5
  <2>7. \A k \in 1..L : rule[k] = Body(k)
    BY <2>5
  <2> HIDE DEF rule
  <2>8. \A k \in 1..L : rule[k] = Heads(its)[k] \o g[Nexts(its)[k]]
    BY <2>3, <2>7, Zenon
  <2>9. g = rule <=> Gathers(g, L, Heads(its), Nexts(its))
    BY <1>1, <2>4, <2>6, <2>8, GathersBy
  <2>10. QED
    BY <2>1, <2>9
<1>5. Str!Spelt(its) = (CHOOSE g : Sp(g))[1]
  BY Zenon DEF Str!Spelt, End, IsEnd, IsByte, Run
<1> HIDE DEF Sp
<1>6. QED
  BY <1>2, <1>3, <1>4, <1>5

\* No run goes over q.
Cut(its, q) == q = 0 \/ q = Len(its) \/ ~IsByte(its[q]) \/ ~IsByte(its[q + 1])
Upto(its, q) == SubSeq(its, 1, q)

LEMMA UptoIs ==
    ASSUME NEW its \in Seq(Str!Item), NEW q \in 0..Len(its)
    PROVE  /\ Upto(its, q) \in Seq(Str!Item) /\ Len(Upto(its, q)) = q
           /\ \A k \in 1..q : Upto(its, q)[k] = its[k]
<1>1. \A k \in 1..q : its[k] \in Str!Item
  <2> SUFFICES ASSUME NEW k \in 1..q PROVE its[k] \in Str!Item
    OBVIOUS
  <2>1. k \in 1..Len(its)
    OBVIOUS
  <2>2. QED
    BY <2>1, ElementOfSeq
<1>2. QED
  BY <1>1, SubSeqProperties DEF Upto

\* No run goes over a cut: up to it, the whole and its part agree.
LEMMA CutRuns ==
    ASSUME NEW its \in Seq(Str!Item), NEW q \in 0..Len(its), Cut(its, q), NEW k \in 1..q
    PROVE  /\ Heads(Upto(its, q))[k] = Heads(its)[k]
           /\ Nexts(Upto(its, q))[k] = Nexts(its)[k]
           /\ Nexts(its)[k] \in (k + 1)..(q + 1)
<1> DEFINE pre == Upto(its, q)
           n == Len(its)
           e == End(pre, k)
<1>1. n \in Nat /\ q \in 0..n /\ k \in 1..n
  OBVIOUS
<1>2. Len(pre) = q /\ \A j \in 1..q : pre[j] = its[j]
  BY UptoIs
<1> HIDE DEF pre
<1>3. e \in k..(q + 1) /\ IsEnd(pre, k, e)
  BY <1>1, <1>2, EndIs
<1>4. IsEnd(its, k, e)
  <2>1. ASSUME NEW j \in k..(e - 1) PROVE IsByte(its[j])
    <3>1. j \in 1..q
      BY <1>3
    <3>2. QED
      BY <1>2, <1>3, <3>1 DEF IsEnd
  <2>2. ASSUME e <= n PROVE ~IsByte(its[e])
    <3>1. CASE e <= q
      <4>1. e \in 1..q
        BY <1>3, <3>1
      <4>2. QED
        BY <1>2, <1>3, <3>1, <4>1 DEF IsEnd
    <3>2. CASE e = q + 1
      <4>1. q \in k..(e - 1) /\ q # 0 /\ q # n
        BY <1>1, <2>2, <3>2
      <4>2. IsByte(its[q])
        BY <2>1, <4>1
      <4>3. QED
        BY <3>2, <4>1, <4>2 DEF Cut
    <3>3. QED
      BY <1>1, <1>3, <3>1, <3>2
  <2>3. QED
    BY <2>1, <2>2 DEF IsEnd
<1>5. e = End(its, k)
  <2>1. e \in k..(n + 1)
    BY <1>1, <1>3
  <2> HIDE DEF e
  <2>2. QED
    BY <1>1, <1>4, <2>1, EndIs DEF n
<1>6. Run(pre, k, e) = Run(its, k, e)
  <2>1. ASSUME NEW j \in 1..(e - k) PROVE pre[k + j - 1] = its[k + j - 1]
    <3>1. k + j - 1 \in 1..q
      BY <1>1, <1>3
    <3>2. QED
      BY <1>2, <3>1
  <2> HIDE DEF e
  <2>2. QED
    BY <2>1 DEF Run
<1>7. pre[k] = its[k] /\ k \in 1..Len(pre)
  BY <1>2
<1>8. QED
  <2>1. e \in k..(q + 1)
    BY <1>3
  <2>2. /\ Heads(pre)[k] = (IF e > k THEN Str!Subparts(Run(pre, k, e)) ELSE <<Str!Character(pre[k])>>)
        /\ Nexts(pre)[k] = (IF e > k THEN e ELSE k + 1)
    BY <1>7 DEF Heads, Nexts
  <2>3. /\ Heads(its)[k] = (IF e > k THEN Str!Subparts(Run(its, k, e)) ELSE <<Str!Character(its[k])>>)
        /\ Nexts(its)[k] = (IF e > k THEN e ELSE k + 1)
    BY <1>1, <1>5, Zenon DEF Heads, Nexts
  <2> HIDE DEF e
  <2>4. Nexts(its)[k] \in (k + 1)..(q + 1)
    BY <2>1, <2>3
  <2>5. QED
    BY <1>6, <1>7, <2>2, <2>3, <2>4 DEF pre

\* What is spelt up to a cut stands before what the items after it spell.
LEMMA CutSpells ==
    ASSUME NEW its \in Seq(Str!Item), NEW q \in 0..Len(its), Cut(its, q),
           NEW f, Gathers(f, Len(its), Heads(its), Nexts(its))
    PROVE  /\ f[1] = Str!Spelt(Upto(its, q)) \o f[q + 1]
           /\ \A k \in 1..(Len(its) + 1) : f[k] \in Seq(Seq(0..255))
           /\ Str!Spelt(Upto(its, q)) \in Seq(Seq(0..255))
<1> DEFINE V == Seq(0..255)
           n == Len(its)
           pre == Upto(its, q)
<1>1. n \in Nat /\ q \in 0..n /\ q \in Nat
  OBVIOUS
<1>2. pre \in Seq(Str!Item) /\ Len(pre) = q
  BY UptoIs
<1>3. PICK g : Gathers(g, q, Heads(pre), Nexts(pre)) /\ Str!Spelt(pre) = g[1]
  <2> HIDE DEF pre
  <2>1. QED
    BY <1>2, SpeltIs
<1>4. /\ \A k \in 1..n : Nexts(its)[k] \in (k + 1)..(n + 1)
      /\ \A k \in 1..n : Heads(its)[k] \in Seq(V)
  BY HeadsAre
<1>5. /\ \A k \in 1..q : Nexts(pre)[k] \in (k + 1)..(q + 1)
      /\ \A k \in 1..q : Heads(pre)[k] \in Seq(V)
  <2> HIDE DEF pre
  <2>1. QED
    BY <1>2, HeadsAre
<1> HIDE DEF V
<1>6. \A k \in 1..(n + 1) : f[k] \in Seq(V)
  <2> HIDE DEF pre
  <2>1. Gathers(f, n, Heads(its), Nexts(its))
    BY Zenon
  <2> HIDE DEF n
  <2>2. QED
    BY <1>1, <1>4, <2>1, GathersOf
<1>7. \A k \in 1..(q + 1) : g[k] \in Seq(V)
  <2> HIDE DEF pre, n
  <2> QED
    <3>1. Gathers(g, q, Heads(pre), Nexts(pre))
      BY <1>3
    <3>2. QED
      BY <1>1, <1>5, <3>1, GathersOf
<1> DEFINE T == {k \in 1..(q + 1) : f[k] = g[k] \o f[q + 1]}
<1>8. f[q + 1] \in Seq(V)
  BY <1>1, <1>6
<1>9. q + 1 \in T
  <2>1. g[q + 1] = <<>>
    BY <1>3 DEF Gathers
  <2>2. <<>> \o f[q + 1] = f[q + 1]
    BY <1>8, ConcatEmptySeq
  <2>3. q + 1 \in 1..(q + 1)
    BY <1>1
  <2>4. QED
    BY <2>1, <2>2, <2>3
<1>10. ASSUME NEW k \in 1..q, \A j \in (k + 1)..q : j \in T PROVE k \in T
  <2>1. Nexts(its)[k] \in (k + 1)..(q + 1)
    BY <1>1, CutRuns
  <2>2. Heads(pre)[k] = Heads(its)[k] /\ Nexts(pre)[k] = Nexts(its)[k]
    BY <1>1, CutRuns
  <2> DEFINE m == Nexts(its)[k]
             h == Heads(its)[k]
  <2>3. k \in 1..n /\ k \in 1..(q + 1)
    BY <1>1
  <2>4. f[k] = h \o f[m]
    BY <2>3 DEF Gathers
  <2>5. g[k] = h \o g[m]
    BY <1>3, <2>2 DEF Gathers
  <2>6. h \in Seq(V)
    BY <1>4, <2>3
  <2>7. m \in (k + 1)..(q + 1)
    BY <2>1
  <2> HIDE DEF m, h, pre, n
  <2>8. m \in 1..(q + 1) /\ m \in T
    <3>1. m \in (k + 1)..q \/ m = q + 1
      BY <1>1, <2>7
    <3>2. m \in T
      BY <1>9, <1>10, <3>1
    <3>3. QED
      BY <1>1, <2>7, <3>2
  <2>9. f[m] = g[m] \o f[q + 1] /\ g[m] \in Seq(V)
    BY <1>7, <2>8
  <2>10. f[k] = g[k] \o f[q + 1]
    <3>1. (h \o g[m]) \o f[q + 1] = h \o (g[m] \o f[q + 1])
      <4> DEFINE gm == g[m]
                 fq == f[q + 1]
      <4>1. gm \in Seq(V) /\ fq \in Seq(V)
        BY <1>8, <2>9, Zenon
      <4> HIDE DEF T, gm, fq
      <4>2. (h \o gm) \o fq = h \o (gm \o fq)
        BY <2>6, <4>1, ConcatAssociative
      <4>3. QED
        BY <4>2 DEF gm, fq
    <3>2. QED
      BY <2>4, <2>5, <2>9, <3>1, Zenon
  <2>11. QED
    BY <2>3, <2>10
<1>11. \A k \in 1..q : k \in T
  <2>1. q \in Nat
    BY <1>1
  <2> HIDE DEF T, pre, n
  <2>2. QED
    BY <1>10, <2>1, Backward, Zenon
<1>12. 1 \in T
  <2>1. 1 \in 1..q \/ 1 = q + 1
    BY <1>1
  <2> HIDE DEF T
  <2>2. QED
    BY <1>9, <1>11, <2>1
<1>13. 1 \in 1..(q + 1)
  BY <1>1
<1>14. QED
  BY <1>3, <1>6, <1>7, <1>12, <1>13 DEF V

\* A run that ends the items is decoded whole.
LEMMA SpeltRun ==
    ASSUME NEW its \in Seq(Str!Item), NEW q \in 0..Len(its), Cut(its, q),
           \A j \in (q + 1)..Len(its) : IsByte(its[j])
    PROVE  Str!Spelt(its) = Str!Spelt(Upto(its, q)) \o Str!Subparts(Run(its, q + 1, Len(its) + 1))
<1> DEFINE n == Len(its)
<1>1. n \in Nat /\ q \in 0..n
  OBVIOUS
<1>2. PICK f : Gathers(f, n, Heads(its), Nexts(its)) /\ Str!Spelt(its) = f[1]
  BY SpeltIs
<1>3. f[1] = Str!Spelt(Upto(its, q)) \o f[q + 1]
  BY <1>2, CutSpells
<1>4. CASE q = n
  <2>1. Run(its, q + 1, n + 1) = <<>>
    BY <1>1, <1>4 DEF Run
  <2>2. f[q + 1] = <<>>
    BY <1>2, <1>4 DEF Gathers
  <2>3. QED
    BY <1>2, <1>3, <2>1, <2>2, NothingDecoded, Zenon
<1>5. CASE q # n
  <2>1. q + 1 \in 1..n /\ n + 1 > q + 1 /\ n + 1 \in (q + 1)..(n + 1)
    BY <1>1, <1>5
  <2>2. IsEnd(its, q + 1, n + 1)
    BY <1>1 DEF IsEnd
  <2>3. End(its, q + 1) = n + 1
    BY <1>1, <2>1, <2>2, EndIs
  <2>4. Heads(its)[q + 1] = Str!Subparts(Run(its, q + 1, n + 1)) /\ Nexts(its)[q + 1] = n + 1
    BY <2>1, <2>3 DEF Heads, Nexts
  <2>5. f[q + 1] = Str!Subparts(Run(its, q + 1, n + 1)) \o <<>>
    BY <1>2, <2>1, <2>4 DEF Gathers
  <2>6. Run(its, q + 1, n + 1) \in Seq(0..255)
    BY <1>1, <2>1, RunIs
  <2>7. Str!Subparts(Run(its, q + 1, n + 1)) \in Seq(Seq(0..255))
    BY <2>6, DecodesWhole
  <2>8. f[q + 1] = Str!Subparts(Run(its, q + 1, n + 1))
    BY <2>5, <2>7, ConcatEmptySeq
  <2>9. QED
    BY <1>2, <1>3, <2>8
<1>6. QED
  BY <1>4, <1>5

\* A last item that is no byte is spelt by itself.
LEMMA SpeltOne ==
    ASSUME NEW its \in Seq(Str!Item), NEW q \in Nat, Len(its) = q + 1, ~IsByte(its[q + 1])
    PROVE  Str!Spelt(its) = Append(Str!Spelt(Upto(its, q)), Str!Character(its[q + 1]))
<1> DEFINE n == q + 1
           c == Str!Character(its[n])
           s == Str!Spelt(Upto(its, q))
<1>1. n \in 1..Len(its) /\ q \in 0..Len(its) /\ n \in n..(Len(its) + 1)
  OBVIOUS
<1>2. Cut(its, q)
  BY DEF Cut
<1>3. PICK f : Gathers(f, Len(its), Heads(its), Nexts(its)) /\ Str!Spelt(its) = f[1]
  BY SpeltIs
<1>4. f[1] = s \o f[n] /\ s \in Seq(Seq(0..255))
  BY <1>1, <1>2, <1>3, CutSpells
<1>5. End(its, n) = n
  <2>1. IsEnd(its, n, n)
    BY DEF IsEnd
  <2>2. QED
    BY <1>1, <2>1, EndIs
<1>6. ~(End(its, n) > n)
  BY <1>5
<1>7. Heads(its)[n] = <<c>> /\ Nexts(its)[n] = n + 1
  BY <1>1, <1>6, Zenon DEF Heads, Nexts
<1>8. f[n] = <<c>> \o <<>>
  <2>1. f[n] = Heads(its)[n] \o f[Nexts(its)[n]]
    BY <1>1, <1>3, Zenon DEF Gathers
  <2>2. f[n + 1] = <<>>
    BY <1>3 DEF Gathers
  <2>3. QED
    BY <1>7, <2>1, <2>2, Zenon
<1>9. c \in Seq(0..255)
  BY <1>1, ElementOfSeq, CharactersAre
<1> HIDE DEF c, s
<1>10. f[n] = <<c>>
  BY <1>8, <1>9
<1>11. s \o <<c>> = Append(s, c)
  BY <1>4, <1>9
<1>12. f[1] = Append(s, c)
  BY <1>4, <1>10, <1>11, Zenon
<1>13. QED
  BY <1>3, <1>12 DEF c, s

-----------------------------------------------------------------------------
(* The scanner of strings.                                                 *)

IsZigs(item) == \/ item.kind \in {"plain", "escape", "byte"}
                \/ item = [kind |-> "point", is |-> "scalar"]

LEMMA UptoUpto ==
    ASSUME NEW bd \in Seq(Str!Item), NEW m \in 0..Len(bd), NEW q \in 0..m
    PROVE  Upto(Upto(bd, m), q) = Upto(bd, q)
<1> DEFINE its == Upto(bd, m)
<1>1. its \in Seq(Str!Item) /\ Len(its) = m /\ \A k \in 1..m : its[k] = bd[k]
  BY UptoIs
<1>2. /\ Upto(its, q) \in Seq(Str!Item) /\ Len(Upto(its, q)) = q
      /\ \A k \in 1..q : Upto(its, q)[k] = its[k]
  <2> HIDE DEF its
  <2>1. QED
    BY <1>1, UptoIs
<1>3. /\ Upto(bd, q) \in Seq(Str!Item) /\ Len(Upto(bd, q)) = q
      /\ \A k \in 1..q : Upto(bd, q)[k] = bd[k]
  <2>1. q \in 0..Len(bd)
    OBVIOUS
  <2>2. QED
    BY <2>1, UptoIs
<1>4. \A k \in 1..q : its[k] = bd[k]
  BY <1>1
<1> HIDE DEF its
<1>5. \A k \in 1..q : Upto(its, q)[k] = Upto(bd, q)[k]
  BY <1>2, <1>3, <1>4, Zenon
<1>6. Upto(its, q) = Upto(bd, q)
  BY <1>2, <1>3, <1>5
<1>7. QED
  BY <1>6 DEF its

\* A run behind q, decoded, completes what is spelt up to q.
LEMMA Flushes ==
    ASSUME NEW bd \in Seq(Str!Item), NEW m \in 0..Len(bd), NEW q \in 0..m,
           \A j \in (q + 1)..m : IsByte(bd[j]), q = 0 \/ ~IsByte(bd[q])
    PROVE  Str!Spelt(Upto(bd, m)) = Str!Spelt(Upto(bd, q)) \o Str!LossyUTF8(Run(bd, q + 1, m + 1))
<1> DEFINE its == Upto(bd, m)
<1>1. its \in Seq(Str!Item) /\ Len(its) = m /\ \A k \in 1..m : its[k] = bd[k]
  BY UptoIs
<1>2. m \in Nat /\ q \in Nat /\ q <= m /\ m <= Len(bd) /\ q \in 0..Len(bd)
  OBVIOUS
<1>3. Upto(its, q) = Upto(bd, q)
  BY UptoUpto
<1>4. Run(its, q + 1, m + 1) = Run(bd, q + 1, m + 1)
  <2> DEFINE k == q + 1
             e == m + 1
  <2>1. ASSUME NEW j \in 1..(e - k) PROVE its[k + j - 1] = bd[k + j - 1]
    <3>1. k + j - 1 \in 1..m
      OBVIOUS
    <3>2. QED
      BY <1>1, <3>1
  <2> HIDE DEF its, k, e
  <2>2. Run(its, k, e) = Run(bd, k, e)
    BY <2>1 DEF Run
  <2>3. QED
    BY <2>2 DEF k, e
<1> HIDE DEF its
<1>5. \A j \in (q + 1)..m : IsByte(its[j])
  BY <1>1
<1>6. Cut(its, q)
  <2>1. q # 0 => q \in 1..m
    OBVIOUS
  <2>2. QED
    BY <1>1, <2>1 DEF Cut
<1>7. Str!Spelt(its) = Str!Spelt(Upto(its, q)) \o Str!Subparts(Run(its, q + 1, m + 1))
  BY <1>1, <1>5, <1>6, SpeltRun
<1>8. Run(its, q + 1, m + 1) \in Seq(0..255)
  <2> DEFINE k == q + 1
             e == m + 1
  <2>1. k \in 1..(Len(its) + 1) /\ e \in k..(Len(its) + 1) /\ e - 1 = m
    BY <1>1
  <2>2. \A j \in k..m : IsByte(its[j])
    BY <1>5
  <2> HIDE DEF k, e
  <2>3. \A j \in k..(e - 1) : IsByte(its[j])
    BY <2>1, <2>2
  <2>4. Run(its, k, e) \in Seq(0..255)
    BY <1>1, <2>1, <2>3, RunIs
  <2>5. QED
    BY <2>4 DEF k, e
<1>9. Str!LossyUTF8(Run(its, q + 1, m + 1)) = Str!Subparts(Run(its, q + 1, m + 1))
  BY <1>8, DecodesWhole
<1>10. QED
  BY <1>3, <1>4, <1>7, <1>9 DEF its

\* The bytes held are those behind q, and what stands up to q is written.
Held(q) ==
    /\ pending = Run(body, q + 1, strAt)
    /\ out = Str!Spelt(Upto(body, q))
    /\ \A j \in (q + 1)..(strAt - 1) : IsByte(body[j])
    /\ q = 0 \/ ~IsByte(body[q])

RunsTypes ==
    /\ body \in Seq(Str!Item)
    /\ strAt \in 1..(Len(body) + 1)
    /\ \A k \in 1..(strAt - 1) : IsZigs(body[k])

HoldsRun == \E q \in 0..(strAt - 1) : Held(q)
SpeltAll == out = Str!Spelt(Upto(body, strAt - 1))

RunsInv == RunsTypes /\ (decoded = "" => HoldsRun) /\ (decoded = "decoded" => SpeltAll)

\* Flushed, the bytes held complete what the items read spell.
LEMMA FlushedIs ==
    ASSUME RunsTypes, HoldsRun
    PROVE  Str!Flushed = Str!Spelt(Upto(body, strAt - 1))
<1>1. PICK q \in 0..(strAt - 1) : Held(q)
  BY DEF HoldsRun
<1>2. body \in Seq(Str!Item) /\ strAt - 1 \in 0..Len(body) /\ (strAt - 1) + 1 = strAt
  BY DEF RunsTypes
<1>3. Str!Spelt(Upto(body, strAt - 1)) = Str!Spelt(Upto(body, q)) \o Str!LossyUTF8(Run(body, q + 1, (strAt - 1) + 1))
  BY <1>1, <1>2, Flushes DEF Held
<1>4. QED
  BY <1>1, <1>2, <1>3 DEF Held, Str!Flushed

\* A character is written behind what the items before it spell.
LEMMA WritesNext ==
    ASSUME RunsTypes, HoldsRun, strAt <= Len(body), ~IsByte(body[strAt]), IsZigs(body[strAt]),
           Str!Write(Str!Character(body[strAt]))
    PROVE  RunsTypes' /\ HoldsRun' /\ decoded' = decoded
<1>1. /\ out' = Append(Str!Flushed, Str!Character(body[strAt])) /\ pending' = <<>>
      /\ strAt' = strAt + 1 /\ body' = body /\ decoded' = decoded
  BY DEF Str!Write
<1> PICK m \in Nat : m = strAt
  BY DEF RunsTypes
<1>2. body \in Seq(Str!Item) /\ m \in 1..Len(body) /\ \A k \in 1..(m - 1) : IsZigs(body[k])
  BY DEF RunsTypes
<1>3. RunsTypes'
  <2>1. \A k \in 1..m : k = m \/ k \in 1..(m - 1)
    BY <1>2
  <2>2. \A k \in 1..m : IsZigs(body[k])
    BY <1>2, <2>1
  <2>3. m + 1 \in 1..(Len(body) + 1) /\ (m + 1) - 1 = m
    BY <1>2
  <2>4. QED
    BY <1>1, <1>2, <2>2, <2>3 DEF RunsTypes
<1>4. Append(Str!Spelt(Upto(body, m - 1)), Str!Character(body[m])) = Str!Spelt(Upto(body, m))
  <2> DEFINE its == Upto(body, m)
             q == m - 1
  <2>1. its \in Seq(Str!Item) /\ Len(its) = m /\ \A k \in 1..m : its[k] = body[k]
    <3>1. m \in 0..Len(body)
      BY <1>2
    <3>2. QED
      BY <1>2, <3>1, UptoIs
  <2>2. q \in Nat /\ q + 1 = m /\ m \in 1..m
    BY <1>2
  <2>3. Upto(its, q) = Upto(body, q)
    <3>1. m \in 0..Len(body) /\ q \in 0..m
      BY <1>2
    <3> HIDE DEF q
    <3>2. QED
      BY <1>2, <3>1, UptoUpto
  <2> HIDE DEF its, q
  <2>4. Str!Spelt(its) = Append(Str!Spelt(Upto(its, q)), Str!Character(its[q + 1]))
    BY <2>1, <2>2, SpeltOne
  <2>5. its[q + 1] = body[m]
    BY <2>1, <2>2
  <2>6. QED
    BY <2>3, <2>4, <2>5 DEF its, q
<1>5. HoldsRun'
  <2>1. m \in Nat /\ (m + 1) - (m + 1) = 0 /\ (m + 1) - 1 = m /\ m \in 0..m /\ \A j \in (m + 1)..m : FALSE
    BY <1>2
  <2>2. Run(body, m + 1, m + 1) = <<>>
    BY <2>1 DEF Run
  <2>3. Held(m)'
    <3>1. pending' = Run(body', m + 1, strAt')
      BY <1>1, <2>2
    <3>2. out' = Str!Spelt(Upto(body', m))
      BY <1>1, <1>4, FlushedIs
    <3>3. \A j \in (m + 1)..(strAt' - 1) : IsByte(body'[j])
      BY <1>1, <2>1
    <3>4. ~IsByte(body'[m])
      BY <1>1
    <3>5. QED
      BY <3>1, <3>2, <3>3, <3>4 DEF Held
  <2>4. QED
    BY <1>1, <2>1, <2>3 DEF HoldsRun
<1>6. QED
  BY <1>1, <1>3, <1>5

\* A byte more makes a run a byte longer.
LEMMA RunMore ==
    ASSUME NEW its \in Seq(Str!Item), NEW m \in 1..Len(its), NEW k \in 1..m,
           \A j \in k..(m - 1) : IsByte(its[j]), IsByte(its[m])
    PROVE  Append(Run(its, k, m), its[m].is) = Run(its, k, m + 1)
<1> DEFINE r == Run(its, k, m)
           s == Run(its, k, m + 1)
           v == its[m].is
           d == m - k
<1>1. d \in Nat /\ m + 1 - k = d + 1 /\ k + (d + 1) - 1 = m
  OBVIOUS
<1>2. r \in Seq(0..255) /\ Len(r) = d
  <2>1. k \in 1..(Len(its) + 1) /\ m \in k..(Len(its) + 1)
    OBVIOUS
  <2>2. QED
    BY <2>1, RunIs
<1>3. s \in Seq(0..255) /\ Len(s) = d + 1
  <2>1. k \in 1..(Len(its) + 1) /\ m + 1 \in k..(Len(its) + 1)
    OBVIOUS
  <2>2. \A j \in k..(m + 1 - 1) : IsByte(its[j])
    <3>1. \A j \in k..(m + 1 - 1) : j = m \/ j \in k..(m - 1)
      OBVIOUS
    <3>2. QED
      BY <3>1
  <2> DEFINE e == m + 1
  <2>3. e \in k..(Len(its) + 1) /\ e - k = d + 1 /\ \A j \in k..(e - 1) : IsByte(its[j])
    BY <1>1, <2>1, <2>2
  <2> HIDE DEF e, d
  <2>4. Run(its, k, e) \in Seq(0..255) /\ Len(Run(its, k, e)) = e - k
    BY <2>1, <2>3, RunIs
  <2>5. QED
    BY <2>3, <2>4 DEF e
<1>4. \A j \in 1..d : r[j] = its[k + j - 1].is
  BY DEF Run
<1>5. \A j \in 1..(d + 1) : s[j] = its[k + j - 1].is
  BY <1>1 DEF Run
<1>6. v \in 0..255
  <2>1. its[m] \in Str!Item
    BY ElementOfSeq
  <2>2. QED
    BY <2>1, ItemsAre DEF IsByte
<1>7. s[d + 1] = v
  <2>1. d + 1 \in 1..(d + 1)
    BY <1>1
  <2> HIDE DEF s, d
  <2>2. s[d + 1] = its[k + (d + 1) - 1].is
    BY <1>5, <2>1
  <2>3. QED
    BY <1>1, <2>2
<1>8. \A j \in 1..d : s[j] = r[j]
  BY <1>1, <1>4, <1>5
<1> HIDE DEF r, s, v, d
<1>9. Append(r, v) = s
  <2>1. \A j \in 1..(d + 1) : j = d + 1 \/ j \in 1..d
    BY <1>1
  <2>2. Append(r, v) \in Seq(0..255) /\ Len(Append(r, v)) = d + 1
    BY <1>1, <1>2, <1>6
  <2>3. \A j \in 1..(d + 1) : Append(r, v)[j] = s[j]
    BY <1>1, <1>2, <1>6, <1>7, <1>8, <2>1
  <2>4. QED
    BY <1>3, <2>2, <2>3
<1>10. QED
  BY <1>9 DEF r, s, v

\* A byte joins the run that is held.
LEMMA HoldsNext ==
    ASSUME RunsTypes, HoldsRun, strAt <= Len(body), IsByte(body[strAt]), Str!ByteEscape
    PROVE  RunsTypes' /\ HoldsRun' /\ decoded' = decoded
<1>1. /\ pending' = Append(pending, body[strAt].is) /\ strAt' = strAt + 1
      /\ out' = out /\ body' = body /\ decoded' = decoded
  BY DEF Str!ByteEscape, Str!Here
<1>2. PICK q \in 0..(strAt - 1) : Held(q)
  BY DEF HoldsRun
<1> PICK m \in Nat : m = strAt
  BY DEF RunsTypes
<1>3. body \in Seq(Str!Item) /\ m \in 1..Len(body) /\ q \in 0..(m - 1) /\ \A k \in 1..(m - 1) : IsZigs(body[k])
  BY <1>2 DEF RunsTypes
<1>4. IsZigs(body[m])
  BY DEF IsZigs, IsByte
<1>5. RunsTypes'
  <2>1. \A k \in 1..m : k = m \/ k \in 1..(m - 1)
    BY <1>3
  <2>2. \A k \in 1..m : IsZigs(body[k])
    BY <1>3, <1>4, <2>1
  <2>3. m + 1 \in 1..(Len(body) + 1) /\ (m + 1) - 1 = m
    BY <1>3
  <2>4. QED
    BY <1>1, <1>3, <2>2, <2>3 DEF RunsTypes
<1>6. Append(Run(body, q + 1, m), body[m].is) = Run(body, q + 1, m + 1)
  <2>1. \A j \in (q + 1)..(m - 1) : IsByte(body[j])
    BY <1>2 DEF Held
  <2>2. q + 1 \in 1..m
    BY <1>3
  <2>3. QED
    BY <1>3, <2>1, <2>2, RunMore
<1>7. HoldsRun'
  <2>1. \A j \in (q + 1)..m : j = m \/ j \in (q + 1)..(m - 1)
    BY <1>3
  <2>2. \A j \in (q + 1)..m : IsByte(body[j])
    BY <1>2, <2>1 DEF Held
  <2>3. strAt' - 1 = m /\ q \in 0..m
    BY <1>1, <1>3
  <2>4. Held(q)'
    BY <1>1, <1>2, <1>6, <2>2, <2>3 DEF Held
  <2>5. QED
    BY <2>3, <2>4 DEF HoldsRun
<1>8. QED
  BY <1>1, <1>5, <1>7

\* A step of the scanner keeps what it has written and what it holds.
LEMMA RunsStep == RunsInv /\ Str!Next => RunsInv'
<1> SUFFICES ASSUME RunsInv, Str!Next PROVE RunsInv'
  OBVIOUS
<1>1. ASSUME NEW code, code # "", code # "decoded", Str!Fault(code) PROVE RunsInv'
  BY <1>1 DEF Str!Fault, RunsInv, RunsTypes
<1>2. ASSUME Str!Scanning PROVE RunsTypes /\ HoldsRun /\ strAt <= Len(body) /\ body[strAt] \in Str!Item
  <2>1. RunsTypes /\ HoldsRun /\ strAt <= Len(body)
    BY <1>2 DEF Str!Scanning, RunsInv
  <2>2. strAt \in 1..Len(body) /\ body \in Seq(Str!Item)
    BY <2>1 DEF RunsTypes
  <2>3. body[strAt] \in Str!Item
    BY <2>2, ElementOfSeq
  <2>4. QED
    BY <2>1, <2>3
<1>3. ASSUME Str!Scanning, ~IsByte(body[strAt]), IsZigs(body[strAt]), Str!Write(Str!Character(body[strAt]))
      PROVE  RunsInv'
  <2>1. RunsTypes' /\ HoldsRun' /\ decoded' = decoded
    BY <1>2, <1>3, WritesNext
  <2>2. decoded' = ""
    BY <1>3, <2>1 DEF Str!Scanning
  <2>3. QED
    BY <2>1, <2>2 DEF RunsInv
<1>4. ASSUME Str!PlainChar PROVE RunsInv'
  <2>1. Str!Scanning /\ body[strAt].kind = "plain" /\ Str!Write(<<body[strAt].is>>)
    BY <1>4 DEF Str!PlainChar, Str!Here
  <2>2. Str!Character(body[strAt]) = <<body[strAt].is>>
    BY <2>1 DEF Str!Character
  <2>3. QED
    BY <1>3, <2>1, <2>2 DEF IsByte, IsZigs
<1>5. ASSUME Str!Escape PROVE RunsInv'
  <2>1. /\ Str!Scanning /\ body[strAt].kind = "escape"
        /\ Str!Write(<<IF body[strAt].is \in DOMAIN Str!Named THEN Str!Named[body[strAt].is] ELSE body[strAt].is>>)
    BY <1>5 DEF Str!Escape, Str!Here
  <2>2. Str!Character(body[strAt]) = <<IF body[strAt].is \in DOMAIN Str!Named THEN Str!Named[body[strAt].is]
                                      ELSE body[strAt].is>>
    BY <2>1 DEF Str!Character
  <2>3. QED
    BY <1>3, <2>1, <2>2 DEF IsByte, IsZigs
<1>6. ASSUME Str!ByteEscape PROVE RunsInv'
  <2>1. Str!Scanning /\ IsByte(body[strAt])
    BY <1>6 DEF Str!ByteEscape, Str!Here, IsByte
  <2>2. RunsTypes' /\ HoldsRun' /\ decoded' = decoded
    BY <1>2, <1>6, <2>1, HoldsNext
  <2>3. decoded' = ""
    BY <2>1, <2>2 DEF Str!Scanning
  <2>4. QED
    BY <2>2, <2>3 DEF RunsInv
<1>7. ASSUME Str!UnicodeEscape PROVE RunsInv'
  <2>1. Str!Scanning /\ body[strAt].kind = "point"
    BY <1>7 DEF Str!UnicodeEscape, Str!Here
  <2>2. CASE Str!IsScalarValue(body[strAt].is)
    <3>1. Str!Write(Str!ScalarChar) /\ body[strAt].is = "scalar"
      BY <1>7, <2>2 DEF Str!UnicodeEscape, Str!Here, Str!IsScalarValue
    <3>2. Str!Character(body[strAt]) = Str!ScalarChar
      BY <2>1 DEF Str!Character
    <3>3. body[strAt] = [kind |-> "point", is |-> "scalar"]
      BY <1>2, <2>1, <3>1 DEF Str!Item
    <3>4. QED
      BY <1>3, <2>1, <3>1, <3>2, <3>3 DEF IsByte, IsZigs
  <2>3. CASE ~Str!IsScalarValue(body[strAt].is)
    <3>1. Str!Fault("invalid_unicode")
      BY <1>7, <2>3 DEF Str!UnicodeEscape, Str!Here
    <3>2. QED
      BY <1>1, <3>1
  <2>4. QED
    BY <2>2, <2>3
<1>8. ASSUME Str!Malformed PROVE RunsInv'
  <2>1. body[strAt].kind \in DOMAIN Str!FaultCode /\ Str!Fault(Str!FaultCode[body[strAt].kind])
    BY <1>8 DEF Str!Malformed, Str!Here
  <2>2. \A kind \in DOMAIN Str!FaultCode : Str!FaultCode[kind] # "" /\ Str!FaultCode[kind] # "decoded"
    BY DEF Str!FaultCode
  <2>3. QED
    BY <1>1, <2>1, <2>2
<1>9. ASSUME Str!Unterminated PROVE RunsInv'
  BY <1>1, <1>9 DEF Str!Unterminated
<1>10. ASSUME Str!Close PROVE RunsInv'
  <2>1. Str!Scanning /\ out' = Str!Flushed /\ decoded' = "decoded" /\ body' = body /\ strAt' = strAt
    BY <1>10 DEF Str!Close
  <2>2. Str!Flushed = Str!Spelt(Upto(body, strAt - 1)) /\ RunsTypes
    BY <1>2, <2>1, FlushedIs
  <2>3. RunsTypes' /\ SpeltAll'
    BY <2>1, <2>2 DEF RunsTypes, SpeltAll
  <2>4. QED
    BY <2>1, <2>3 DEF RunsInv
<1>11. QED
  BY <1>4, <1>5, <1>6, <1>7, <1>8, <1>9, <1>10 DEF Str!Next

LEMMA RunsInitial == Init => RunsInv
<1> SUFFICES ASSUME Init PROVE RunsInv
  OBVIOUS
<1>1. PICK b \in Seq(Str!Item) : Str!Start(b)
  <2>1. <<>> \in Seq(Str!Item)
    OBVIOUS
  <2>2. QED
    BY <2>1, BodiesAssumption DEF Init, Str!Init
<1>2. body = b /\ strAt = 1 /\ out = <<>> /\ pending = <<>> /\ decoded = ""
  BY <1>1 DEF Str!Start
<1>3. RunsTypes
  <2>1. 1 \in 1..(Len(b) + 1) /\ \A k \in 1..(1 - 1) : FALSE
    OBVIOUS
  <2>2. QED
    BY <1>1, <1>2, <2>1 DEF RunsTypes
<1>4. HoldsRun
  <2>1. Upto(b, 0) = <<>>
    BY SubSeqEmpty DEF Upto
  <2>2. Str!Spelt(<<>>) = <<>>
    <3>1. <<>> \in Seq(Str!Item) /\ Len(<<>>) + 1 = 1
      OBVIOUS
    <3>2. PICK f : Gathers(f, Len(<<>>), Heads(<<>>), Nexts(<<>>)) /\ Str!Spelt(<<>>) = f[1]
      BY <3>1, SpeltIs
    <3>3. f[Len(<<>>) + 1] = <<>>
      BY <3>2 DEF Gathers
    <3>4. QED
      BY <3>1, <3>2, <3>3, Zenon
  <2>3. Run(b, 0 + 1, 1) = <<>>
    BY DEF Run
  <2>4. Held(0)
    <3>1. out = Str!Spelt(Upto(body, 0)) /\ pending = Run(body, 0 + 1, strAt)
      BY <1>2, <2>1, <2>2, <2>3, Zenon
    <3>2. \A j \in (0 + 1)..(strAt - 1) : FALSE
      <4>1. strAt = 1
        BY <1>2
      <4>2. QED
        BY <4>1
    <3>3. QED
      BY <3>1, <3>2 DEF Held
  <2>5. 0 \in 0..(1 - 1)
    OBVIOUS
  <2>6. QED
    BY <1>2, <2>4, <2>5 DEF HoldsRun
<1>5. QED
  BY <1>2, <1>3, <1>4 DEF RunsInv

LEMMA StrOrNot == [Next]_vars => Str!Next \/ UNCHANGED strVars
  BY Zenon DEF Next, vars, Token, String, Number, Integer, Character, Spelling

LEMMA RunsKeep == RunsInv /\ [Next]_vars => RunsInv'
<1> SUFFICES ASSUME RunsInv, UNCHANGED strVars PROVE RunsInv'
  BY StrOrNot, RunsStep
<1>1. QED
  BY DEF RunsInv, RunsTypes, HoldsRun, Held, SpeltAll, strVars

LEMMA RunsDecode == RunsInv => DecodesRuns
  BY DEF RunsInv, RunsTypes, SpeltAll, Upto, IsZigs, DecodesRuns, Str!DecodesRuns

\* A string that is accepted is what the items before its closing quote spell:
\* every run of byte escapes is decoded as UTF-8 whole, one U+FFFD for each
\* maximal subpart of what is ill-formed, and every item is one Zig has.
THEOREM RunsDecodeWhole == Spec => []DecodesRuns
  BY RunsInitial, RunsKeep, RunsDecode, PTL DEF Spec
=============================================================================
