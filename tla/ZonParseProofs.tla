--------------------------- MODULE ZonParseProofs ---------------------------
(***************************************************************************)
(* Proofs about ZonParse, for every set of texts, budget of depth and      *)
(* length of source: the rules nest, what the parser accepts is a document *)
(* of ZonDocument and the value it means, and no document is refused.      *)
(*                                                                         *)
(* The order: the invariant of the stack; the documents, as their phrases  *)
(* are built, and a run of members taken from its last and from its first; *)
(* what each alternate takes; how a step changes the stack.  Then twice    *)
(* over, what the rules of the stack have consumed (what is accepted is a  *)
(* document) and what they still expect (no document is refused).          *)
(***************************************************************************)
EXTENDS ZonDocument, SequenceTheorems, FiniteSetTheorems, WellFoundedInduction, TLAPS

\* One rule of the stack, and a rule on top of another.
RuleOK(r) ==
    /\ DOMAIN r = {"rule", "state", "o0", "child", "node"}
    /\ r.rule \in Rules /\ r.state \in {"open", "close"}
    /\ r.rule = "map" => r.node.kind = "map"
    /\ r.rule = "list" /\ r.state = "close" => r.node.kind = "list"

Under(rule) == CASE rule = "val"  -> {"pair", "elem"}
                 [] rule = "pair" -> {"map"}
                 [] rule = "elem" -> {"list"}
                 [] OTHER -> {"val"}

Fits(below, r) == below.state = "close" /\ below.rule \in Under(r.rule)

\* A sequence, of what need not be said: the nodes have no type of their own.
Sequential(s) == \E S : s \in Seq(S)

StackOK(s) ==
    /\ Sequential(s)
    /\ \A i \in 1..Len(s) : RuleOK(s[i])
    /\ s # <<>> => s[1].rule = "val"
    /\ \A i \in 2..Len(s) : Fits(s[i - 1], s[i])

IInv ==
    /\ ahead \in Seq(Tokens) /\ Len(ahead) <= 2
    /\ read \in Seq(Tokens)
    /\ status \in {"parsing", "accepted", "unexpected", "cancel", "zon_dup_field"}
    /\ StackOK(stack)
    /\ status = "parsing" => stack # <<>>

-----------------------------------------------------------------------------
(* Stacks.                                                                 *)

LEMMA Popped ==
    ASSUME NEW s, StackOK(s), Len(s) > 0
    PROVE  /\ StackOK(SubSeq(s, 1, Len(s) - 1))
           /\ Len(SubSeq(s, 1, Len(s) - 1)) = Len(s) - 1
           /\ \A i \in 1..(Len(s) - 1) : SubSeq(s, 1, Len(s) - 1)[i] = s[i]
<1> DEFINE p == SubSeq(s, 1, Len(s) - 1)
<1>1. PICK S : s \in Seq(S)
  BY DEF StackOK, Sequential
<1>2. p \in Seq(S) /\ Len(p) = Len(s) - 1 /\ \A i \in 1..(Len(s) - 1) : p[i] = s[i]
  <2> DEFINE n == Len(s) - 1
  <2>1. 1 \in Int /\ n \in Int /\ \A i \in 1..n : s[i] \in S
    BY <1>1
  <2>2. /\ SubSeq(s, 1, n) \in Seq(S)
        /\ Len(SubSeq(s, 1, n)) = IF 1 <= n THEN n - 1 + 1 ELSE 0
        /\ \A i \in 1..(n - 1 + 1) : SubSeq(s, 1, n)[i] = s[1 + i - 1]
    BY <2>1, SubSeqProperties, SMTT(30)
  <2>3. n \in Nat
    BY <1>1
  <2> HIDE DEF n
  <2>4. n - 1 + 1 = n /\ (1 <= n \/ n = 0) /\ \A i \in 1..n : 1 + i - 1 = i
    BY <2>3
  <2>5. Len(SubSeq(s, 1, n)) = n
    BY <2>2, <2>3, <2>4
  <2>6. \A i \in 1..n : SubSeq(s, 1, n)[i] = s[i]
    BY <2>2, <2>4
  <2>7. QED
    BY <2>2, <2>5, <2>6 DEF n
<1>3. p # <<>> => Len(p) > 0
  BY <1>2
<1> HIDE DEF p
<1>4. StackOK(p)
  <2>1. \A i \in 1..Len(p) : RuleOK(p[i])
    BY <1>1, <1>2 DEF StackOK
  <2>2. p # <<>> => p[1].rule = "val"
    <3> SUFFICES ASSUME p # <<>> PROVE p[1].rule = "val"
      OBVIOUS
    <3>1. s # <<>> /\ 1 \in 1..(Len(s) - 1)
      BY <1>1, <1>2, <1>3
    <3>2. QED
      BY <1>2, <3>1 DEF StackOK
  <2>3. \A i \in 2..Len(p) : Fits(p[i - 1], p[i])
    <3> SUFFICES ASSUME NEW i \in 2..Len(p) PROVE Fits(p[i - 1], p[i])
      OBVIOUS
    <3>1. i \in 2..Len(s) /\ i \in 1..(Len(s) - 1) /\ i - 1 \in 1..(Len(s) - 1)
      BY <1>1, <1>2
    <3>2. QED
      BY <1>2, <3>1 DEF StackOK
  <2>4. QED
    BY <1>2, <2>1, <2>2, <2>3 DEF StackOK, Sequential
<1>5. QED
  BY <1>2, <1>4 DEF p

LEMMA TopChanged ==
    ASSUME NEW s, StackOK(s), Len(s) > 0, NEW r, RuleOK(r), r.rule = s[Len(s)].rule
    PROVE  /\ StackOK([s EXCEPT ![Len(s)] = r])
           /\ Len([s EXCEPT ![Len(s)] = r]) = Len(s)
           /\ [s EXCEPT ![Len(s)] = r][Len(s)] = r
<1> DEFINE p == [s EXCEPT ![Len(s)] = r]
<1>1. PICK S : s \in Seq(S)
  BY DEF StackOK, Sequential
<1>2. /\ p \in Seq(S \cup {r}) /\ Len(p) = Len(s) /\ Len(s) \in Nat
      /\ p[Len(s)] = r
      /\ \A i \in 1..Len(s) : i # Len(s) => p[i] = s[i]
  <2>1. s \in [1..Len(s) -> S] /\ Len(s) \in Nat
    BY <1>1
  <2>2. p \in [1..Len(s) -> S \cup {r}]
    BY <2>1
  <2>3. p \in Seq(S \cup {r}) /\ Len(p) = Len(s)
    BY <2>1, <2>2
  <2>4. Len(s) \in 1..Len(s) /\ p[Len(s)] = r
    BY <2>1
  <2>5. \A i \in 1..Len(s) : i # Len(s) => p[i] = s[i]
    BY <2>1
  <2>6. QED
    BY <2>1, <2>3, <2>4, <2>5
<1> HIDE DEF p
<1>3. \A i \in 1..Len(p) : RuleOK(p[i])
  BY <1>2 DEF StackOK
<1>4. p[1].rule = "val"
  <2>1. s[1].rule = "val"
    BY <1>1 DEF StackOK
  <2>2. CASE Len(s) = 1
    BY <1>2, <2>1, <2>2
  <2>3. CASE Len(s) # 1
    BY <1>2, <2>1, <2>3
  <2>4. QED
    BY <2>2, <2>3
<1>5. \A i \in 2..Len(p) : Fits(p[i - 1], p[i])
  <2> SUFFICES ASSUME NEW i \in 2..Len(p) PROVE Fits(p[i - 1], p[i])
    OBVIOUS
  <2>1. Fits(s[i - 1], s[i]) /\ p[i - 1] = s[i - 1]
    BY <1>2 DEF StackOK
  <2>2. p[i].rule = s[i].rule
    BY <1>2
  <2>3. QED
    BY <2>1, <2>2 DEF Fits
<1>6. QED
  BY <1>2, <1>3, <1>4, <1>5 DEF StackOK, Sequential, p

LEMMA PushedOn ==
    ASSUME NEW s, StackOK(s), Len(s) > 0, NEW r, RuleOK(r), Fits(s[Len(s)], r)
    PROVE  StackOK(s \o <<r>>) /\ s \o <<r>> # <<>>
<1> DEFINE p == s \o <<r>>
<1>1. PICK S : s \in Seq(S)
  BY DEF StackOK, Sequential
<1>2. /\ p \in Seq(S \cup {r}) /\ Len(p) = Len(s) + 1 /\ Len(s) \in Nat
      /\ p[Len(s) + 1] = r
      /\ \A i \in 1..Len(s) : p[i] = s[i]
  BY <1>1
<1> HIDE DEF p
<1>3. \A i \in 1..Len(p) : RuleOK(p[i])
  <2> SUFFICES ASSUME NEW i \in 1..Len(p) PROVE RuleOK(p[i])
    OBVIOUS
  <2>1. CASE i = Len(s) + 1
    BY <1>2, <2>1
  <2>2. CASE i \in 1..Len(s)
    BY <1>2, <2>2 DEF StackOK
  <2>3. QED
    BY <1>2, <2>1, <2>2
<1>4. p[1].rule = "val"
  <2>1. s[1].rule = "val"
    BY <1>1 DEF StackOK
  <2>2. QED
    BY <1>2, <2>1
<1>5. \A i \in 2..Len(p) : Fits(p[i - 1], p[i])
  <2> SUFFICES ASSUME NEW i \in 2..Len(p) PROVE Fits(p[i - 1], p[i])
    OBVIOUS
  <2>1. CASE i = Len(s) + 1
    BY <1>2, <2>1
  <2>2. CASE i \in 2..Len(s)
    BY <1>2, <2>2 DEF StackOK
  <2>3. QED
    BY <1>2, <2>1, <2>2
<1>6. p # <<>>
  BY <1>2
<1>7. QED
  BY <1>2, <1>3, <1>4, <1>5, <1>6 DEF StackOK, Sequential, p

LEMMA Nothing ==
    ASSUME NEW s, StackOK(s), Len(s) > 0
    PROVE  s \o <<>> = s /\ s # <<>>
<1>1. PICK S : s \in Seq(S)
  BY DEF StackOK, Sequential
<1>2. s \o <<>> = s
  BY <1>1, ConcatEmptySeq
<1>3. s # <<>>
  BY <1>1
<1>4. QED
  BY <1>2, <1>3

\* A rule pushed, or none.
LEMMA MayPush ==
    ASSUME NEW s, StackOK(s), Len(s) > 0, NEW name \in {None} \cup Rules,
           name # None => Fits(s[Len(s)], Rule(name))
    PROVE  StackOK(s \o Pushed(name)) /\ s \o Pushed(name) # <<>>
<1>1. CASE name = None
  BY <1>1, Nothing DEF Pushed
<1>2. CASE name # None
  <2>1. RuleOK(Rule(name))
    BY <1>2 DEF Rule, RuleOK, Rules, Map
  <2>2. QED
    BY <1>2, <2>1, PushedOn DEF Pushed
<1>3. QED
  BY <1>1, <1>2
-----------------------------------------------------------------------------
(* Alternates.                                                             *)

\* What an alternate may push or put in a rule's place, and give back.
OpenOK(alt, rule) ==
    /\ alt.p = None \/ (alt.p \in Rules /\ rule \in Under(alt.p))
    /\ rule = "map" => ~alt.array
CloseOK(alt, rule) == alt.r = None \/ (alt.r = rule /\ rule \in {"pair", "elem"})
BackOK(alt) == Len(alt.s) \in Nat /\ alt.b \in 0..Len(alt.s)

LEMMA ValOpens ==
    /\ \E S : Alternates("val", "open") \in Seq(S)
    /\ \A i \in DOMAIN Alternates("val", "open") :
          LET alt == Alternates("val", "open")[i] IN OpenOK(alt, "val") /\ BackOK(alt)
<1> DEFINE a1 == Alt(<<{"#OS"}, {"#CB"}>>, 2, "list", None)
           a2 == Alt(<<{"#OB"}>>, 1, "map", None)
           a3 == Alt(<<{"#OS"}>>, 1, "list", None)
           a4 == Alt(<<VAL>>, 0, None, None)
<1>1. Alternates("val", "open") = <<a1>> \o <<a2, a3, a4>>
  BY DEF Alternates, Zon, Json, ValOpen
<1>2. OpenOK(a1, "val") /\ BackOK(a1)
  BY DEF Alt, Array, OpenOK, BackOK, Under, Rules, None
<1>3. OpenOK(a2, "val") /\ BackOK(a2)
  BY DEF Alt, Array, OpenOK, BackOK, Under, Rules, None
<1>4. OpenOK(a3, "val") /\ BackOK(a3)
  BY DEF Alt, Array, OpenOK, BackOK, Under, Rules, None
<1>5. OpenOK(a4, "val") /\ BackOK(a4)
  BY DEF Alt, Array, OpenOK, BackOK, Under, Rules, None
<1> HIDE DEF a1, a2, a3, a4
<1>6. <<a1>> \in Seq({a1, a2, a3, a4}) /\ <<a2, a3, a4>> \in Seq({a1, a2, a3, a4})
  OBVIOUS
<1>7. Alternates("val", "open") \in Seq({a1, a2, a3, a4})
  BY <1>1, <1>6, ConcatProperties
<1>8. QED
  BY <1>2, <1>3, <1>4, <1>5, <1>7

LEMMA MapOpens ==
    /\ \E S : Alternates("map", "open") \in Seq(S)
    /\ \A i \in DOMAIN Alternates("map", "open") :
          LET alt == Alternates("map", "open")[i] IN OpenOK(alt, "map") /\ BackOK(alt)
<1> DEFINE a1 == Alt(<<{"#OB"}, {"#CB"}>>, 1, None, None)
           a2 == Alt(<<{"#OB"}>>, 0, "pair", None)
<1>1. Alternates("map", "open") = <<>> \o <<a1, a2>>
  BY DEF Alternates, Zon, Json
<1>2. OpenOK(a1, "map") /\ BackOK(a1)
  BY DEF Alt, Array, OpenOK, BackOK, Under, Rules, None
<1>3. OpenOK(a2, "map") /\ BackOK(a2)
  BY DEF Alt, Array, OpenOK, BackOK, Under, Rules, None
<1> HIDE DEF a1, a2
<1>4. <<>> \in Seq({a1, a2}) /\ <<a1, a2>> \in Seq({a1, a2})
  OBVIOUS
<1>5. Alternates("map", "open") \in Seq({a1, a2})
  BY <1>1, <1>4, ConcatProperties
<1>6. QED
  BY <1>2, <1>3, <1>5

LEMMA ListOpens ==
    /\ \E S : Alternates("list", "open") \in Seq(S)
    /\ \A i \in DOMAIN Alternates("list", "open") :
          LET alt == Alternates("list", "open")[i] IN OpenOK(alt, "list") /\ BackOK(alt)
<1> DEFINE a1 == Array(Alt(<<{"#OS"}, {"#CB"}>>, 1, None, None))
           a2 == Array(Alt(<<{"#OS"}>>, 0, "elem", None))
           a3 == Alt(<<{"#OS"}>>, 0, "elem", None)
<1>1. Alternates("list", "open") = <<a1, a2>> \o <<a3>>
  BY DEF Alternates, Zon, Json, ListOpen
<1>2. OpenOK(a1, "list") /\ BackOK(a1)
  BY DEF Alt, Array, OpenOK, BackOK, Under, Rules, None
<1>3. OpenOK(a2, "list") /\ BackOK(a2)
  BY DEF Alt, Array, OpenOK, BackOK, Under, Rules, None
<1>4. OpenOK(a3, "list") /\ BackOK(a3)
  BY DEF Alt, Array, OpenOK, BackOK, Under, Rules, None
<1> HIDE DEF a1, a2, a3
<1>5. <<a1, a2>> \in Seq({a1, a2, a3}) /\ <<a3>> \in Seq({a1, a2, a3})
  OBVIOUS
<1>6. Alternates("list", "open") \in Seq({a1, a2, a3})
  BY <1>1, <1>5, ConcatProperties
<1>7. QED
  BY <1>2, <1>3, <1>4, <1>6

LEMMA PairOpens ==
    /\ \E S : Alternates("pair", "open") \in Seq(S)
    /\ \A i \in DOMAIN Alternates("pair", "open") :
          LET alt == Alternates("pair", "open")[i] IN OpenOK(alt, "pair") /\ BackOK(alt)
<1> DEFINE a1 == Alt(<<KEY, {"#CL"}>>, 0, "val", None)
<1>1. Alternates("pair", "open") = <<>> \o <<a1>>
  BY DEF Alternates, Zon, Json
<1>2. OpenOK(a1, "pair") /\ BackOK(a1)
  BY DEF Alt, Array, OpenOK, BackOK, Under, Rules, None
<1> HIDE DEF a1
<1>3. <<>> \in Seq({a1}) /\ <<a1>> \in Seq({a1})
  OBVIOUS
<1>4. Alternates("pair", "open") \in Seq({a1})
  BY <1>1, <1>3, ConcatProperties
<1>5. QED
  BY <1>2, <1>4

LEMMA ElemOpens ==
    /\ \E S : Alternates("elem", "open") \in Seq(S)
    /\ \A i \in DOMAIN Alternates("elem", "open") :
          LET alt == Alternates("elem", "open")[i] IN OpenOK(alt, "elem") /\ BackOK(alt)
<1> DEFINE a1 == Alt(<<>>, 0, "val", None)
<1>1. Alternates("elem", "open") = <<>> \o <<a1>>
  BY DEF Alternates, Zon, Json
<1>2. OpenOK(a1, "elem") /\ BackOK(a1)
  BY DEF Alt, Array, OpenOK, BackOK, Under, Rules, None
<1> HIDE DEF a1
<1>3. <<>> \in Seq({a1}) /\ <<a1>> \in Seq({a1})
  OBVIOUS
<1>4. Alternates("elem", "open") \in Seq({a1})
  BY <1>1, <1>3, ConcatProperties
<1>5. QED
  BY <1>2, <1>4

LEMMA ValCloses ==
    /\ \E S : Alternates("val", "close") \in Seq(S)
    /\ \A i \in DOMAIN Alternates("val", "close") :
          LET alt == Alternates("val", "close")[i] IN CloseOK(alt, "val") /\ BackOK(alt)
<1> DEFINE a1 == Alt(<<>>, 0, None, None)
<1>1. Alternates("val", "close") = <<>> \o <<a1>>
  BY DEF Alternates, Zon, Json
<1>2. CloseOK(a1, "val") /\ BackOK(a1)
  BY DEF Alt, Array, CloseOK, BackOK, Under, Rules, None
<1> HIDE DEF a1
<1>3. <<>> \in Seq({a1}) /\ <<a1>> \in Seq({a1})
  OBVIOUS
<1>4. Alternates("val", "close") \in Seq({a1})
  BY <1>1, <1>3, ConcatProperties
<1>5. QED
  BY <1>2, <1>4

LEMMA MapCloses ==
    /\ \E S : Alternates("map", "close") \in Seq(S)
    /\ \A i \in DOMAIN Alternates("map", "close") :
          LET alt == Alternates("map", "close")[i] IN CloseOK(alt, "map") /\ BackOK(alt)
<1> DEFINE a1 == Alt(<<{"#CB"}>>, 0, None, None)
<1>1. Alternates("map", "close") = <<>> \o <<a1>>
  BY DEF Alternates, Zon, Json
<1>2. CloseOK(a1, "map") /\ BackOK(a1)
  BY DEF Alt, Array, CloseOK, BackOK, Under, Rules, None
<1> HIDE DEF a1
<1>3. <<>> \in Seq({a1}) /\ <<a1>> \in Seq({a1})
  OBVIOUS
<1>4. Alternates("map", "close") \in Seq({a1})
  BY <1>1, <1>3, ConcatProperties
<1>5. QED
  BY <1>2, <1>4

LEMMA ListCloses ==
    /\ \E S : Alternates("list", "close") \in Seq(S)
    /\ \A i \in DOMAIN Alternates("list", "close") :
          LET alt == Alternates("list", "close")[i] IN CloseOK(alt, "list") /\ BackOK(alt)
<1> DEFINE a1 == Alt(<<{"#CB"}>>, 0, None, None)
<1>1. Alternates("list", "close") = <<a1>> \o <<>>
  BY DEF Alternates, Zon, Json, ListClose
<1>2. CloseOK(a1, "list") /\ BackOK(a1)
  BY DEF Alt, Array, CloseOK, BackOK, Under, Rules, None
<1> HIDE DEF a1
<1>3. <<a1>> \in Seq({a1}) /\ <<>> \in Seq({a1})
  OBVIOUS
<1>4. Alternates("list", "close") \in Seq({a1})
  BY <1>1, <1>3, ConcatProperties
<1>5. QED
  BY <1>2, <1>4

LEMMA PairCloses ==
    /\ \E S : Alternates("pair", "close") \in Seq(S)
    /\ \A i \in DOMAIN Alternates("pair", "close") :
          LET alt == Alternates("pair", "close")[i] IN CloseOK(alt, "pair") /\ BackOK(alt)
<1> DEFINE a1 == Alt(<<{"#CA"}, {"#CB"}>>, 1, None, None)
           a2 == Alt(<<{"#CA"}>>, 0, None, "pair")
           a3 == Alt(<<{"#CB"}>>, 1, None, None)
<1>1. Alternates("pair", "close") = <<a1, a2, a3>> \o <<a2, a3>>
  BY DEF Alternates, Zon, Json, MemberClose
<1>2. CloseOK(a1, "pair") /\ BackOK(a1)
  BY DEF Alt, Array, CloseOK, BackOK, Under, Rules, None
<1>3. CloseOK(a2, "pair") /\ BackOK(a2)
  BY DEF Alt, Array, CloseOK, BackOK, Under, Rules, None
<1>4. CloseOK(a3, "pair") /\ BackOK(a3)
  BY DEF Alt, Array, CloseOK, BackOK, Under, Rules, None
<1> HIDE DEF a1, a2, a3
<1>5. <<a1, a2, a3>> \in Seq({a1, a2, a3}) /\ <<a2, a3>> \in Seq({a1, a2, a3})
  OBVIOUS
<1>6. Alternates("pair", "close") \in Seq({a1, a2, a3})
  BY <1>1, <1>5, ConcatProperties
<1>7. QED
  BY <1>2, <1>3, <1>4, <1>6

LEMMA ElemCloses ==
    /\ \E S : Alternates("elem", "close") \in Seq(S)
    /\ \A i \in DOMAIN Alternates("elem", "close") :
          LET alt == Alternates("elem", "close")[i] IN CloseOK(alt, "elem") /\ BackOK(alt)
<1> DEFINE a1 == Alt(<<{"#CA"}, {"#CB"}>>, 1, None, None)
           a2 == Alt(<<{"#CA"}>>, 0, None, "elem")
           a3 == Alt(<<{"#CB"}>>, 1, None, None)
<1>1. Alternates("elem", "close") = <<a1, a2, a3>> \o <<a2>>
  BY DEF Alternates, Zon, Json, MemberClose
<1>2. CloseOK(a1, "elem") /\ BackOK(a1)
  BY DEF Alt, Array, CloseOK, BackOK, Under, Rules, None
<1>3. CloseOK(a2, "elem") /\ BackOK(a2)
  BY DEF Alt, Array, CloseOK, BackOK, Under, Rules, None
<1>4. CloseOK(a3, "elem") /\ BackOK(a3)
  BY DEF Alt, Array, CloseOK, BackOK, Under, Rules, None
<1> HIDE DEF a1, a2, a3
<1>5. <<a1, a2, a3>> \in Seq({a1, a2, a3}) /\ <<a2>> \in Seq({a1, a2, a3})
  OBVIOUS
<1>6. Alternates("elem", "close") \in Seq({a1, a2, a3})
  BY <1>1, <1>5, ConcatProperties
<1>7. QED
  BY <1>2, <1>3, <1>4, <1>6

LEMMA LeastOf == ASSUME NEW T \in SUBSET Nat, T # {} PROVE \E i \in T : \A j \in T : i <= j
<1>1. \E i \in T : \A j \in T : ~(<<j, i>> \in OpToRel(<, Nat))
  BY NatLessThanWellFounded, WFMin, Zenon
<1>2. \A i, j \in Nat : ~(<<j, i>> \in OpToRel(<, Nat)) => i <= j
  BY DEF OpToRel
<1>3. QED
  BY <1>1, <1>2

\* The alternate taken is one of the rule's, the first that matches.
LEMMA FirstTaken ==
    ASSUME Matching # {}, \E S : Alternates(Top.rule, Top.state) \in Seq(S)
    PROVE  \E i \in DOMAIN Alternates(Top.rule, Top.state) :
              /\ Taken = Alternates(Top.rule, Top.state)[i]
              /\ i \in Matching /\ \A j \in Matching : i <= j
<1>1. Matching \in SUBSET Nat
  BY DEF Matching
<1>2. \E i \in Matching : \A j \in Matching : i <= j
  BY <1>1, LeastOf
<1>3. QED
  BY <1>2, Zenon DEF Taken, Matching

LEMMA ListIsMade ==
    ASSUME Matching # {}, Top.rule = "list", Top.state = "open"
    PROVE  Taken.array
<1> DEFINE a == Array(Alt(<<{"#OS"}, {"#CB"}>>, 1, None, None))
           b == Array(Alt(<<{"#OS"}>>, 0, "elem", None))
           c == Alt(<<{"#OS"}>>, 0, "elem", None)
           all == Alternates("list", "open")
<1>1. all = <<a, b>> \o <<c>>
  BY DEF Alternates, Zon, Json, ListOpen
<1>2. a.array /\ b.array /\ b.s = c.s
  BY DEF Alt, Array
<1> HIDE DEF a, b, c
<1>3. all \in Seq({a, b, c}) /\ Len(all) = 3 /\ all[1] = a /\ all[2] = b /\ all[3] = c
  <2> DEFINE p == <<a, b>>
             q == <<c>>
  <2>1. /\ p \in Seq({a, b, c}) /\ Len(p) = 2 /\ p[1] = a /\ p[2] = b
        /\ q \in Seq({a, b, c}) /\ Len(q) = 1 /\ q[1] = c
    OBVIOUS
  <2>2. all = p \o q
    BY <1>1
  <2> HIDE DEF p, q, all
  <2>3. /\ all \in Seq({a, b, c}) /\ Len(all) = 3
        /\ \A i \in 1..3 : all[i] = IF i <= 2 THEN p[i] ELSE q[i - 2]
    BY <2>1, <2>2, ConcatProperties
  <2>4. QED
    BY <2>1, <2>3
<1> HIDE DEF all
<1>4. PICK i \in DOMAIN all : Taken = all[i] /\ i \in Matching /\ \A j \in Matching : i <= j
  BY <1>3, FirstTaken DEF all
<1>5. i \in 1..3 /\ 2 \in DOMAIN all
  BY <1>3
<1>6. Matches(all[3]) => Matches(all[2])
  BY <1>2, <1>3 DEF Matches
<1>7. i # 3
  <2>1. 3 \in Matching => 2 \in Matching
    BY <1>5, <1>6 DEF Matching, all
  <2>2. QED
    BY <1>4, <2>1
<1>8. QED
  BY <1>2, <1>3, <1>4, <1>5, <1>7

LEMMA TakenOpens ==
    ASSUME Matching # {}, Top.rule \in Rules, Top.state = "open"
    PROVE  OpenOK(Taken, Top.rule) /\ BackOK(Taken)
<1> DEFINE all == Alternates(Top.rule, "open")
<1>1. /\ \E S : all \in Seq(S)
      /\ \A i \in DOMAIN all : OpenOK(all[i], Top.rule) /\ BackOK(all[i])
  BY ValOpens, MapOpens, ListOpens, PairOpens, ElemOpens DEF Rules
<1>2. PICK i \in DOMAIN all : Taken = all[i]
  BY <1>1, FirstTaken
<1>3. QED
  BY <1>1, <1>2

LEMMA TakenCloses ==
    ASSUME Matching # {}, Top.rule \in Rules, Top.state = "close"
    PROVE  CloseOK(Taken, Top.rule) /\ BackOK(Taken)
<1> DEFINE all == Alternates(Top.rule, "close")
<1>1. /\ \E S : all \in Seq(S)
      /\ \A i \in DOMAIN all : CloseOK(all[i], Top.rule) /\ BackOK(all[i])
  BY ValCloses, MapCloses, ListCloses, PairCloses, ElemCloses DEF Rules
<1>2. PICK i \in DOMAIN all : Taken = all[i]
  BY <1>1, FirstTaken
<1>3. QED
  BY <1>1, <1>2

LEMMA WhatIsLeft ==
    ASSUME IInv, BackOK(Taken)
    PROVE  Rest \in Seq(Tokens) /\ Len(Rest) <= 2
<1> DEFINE m == Len(Taken.s) - Taken.b + 1
           n == Len(ahead)
<1>1. m \in Int /\ m >= 1 /\ n \in Int /\ n <= 2 /\ n >= 0
  BY DEF IInv, BackOK
<1>2. \A i \in m..n : ahead[i] \in Tokens
  BY <1>1 DEF IInv
<1>3. Rest = SubSeq(ahead, m, n)
  BY DEF Rest
<1> HIDE DEF m, n
<1>4. SubSeq(ahead, m, n) \in Seq(Tokens) /\ Len(SubSeq(ahead, m, n)) = IF m <= n THEN n - m + 1 ELSE 0
  BY <1>1, <1>2, SubSeqProperties
<1>5. QED
  BY <1>1, <1>3, <1>4

-----------------------------------------------------------------------------
(* Steps.                                                                  *)

\* The stack at a step that is ready.
LEMMA TopOK ==
    ASSUME IInv, Ready
    PROVE  /\ Len(stack) \in Nat /\ Len(stack) > 0
           /\ RuleOK(Top) /\ Top = stack[Len(stack)]
           /\ Top.rule # "val" => Len(stack) > 1 /\ Fits(Parent, Top) /\ RuleOK(Parent)
<1>1. PICK S : stack \in Seq(S)
  BY DEF IInv, StackOK, Sequential
<1>2. stack # <<>>
  BY DEF IInv, Ready
<1>3. Len(stack) \in Nat /\ Len(stack) > 0
  BY <1>1, <1>2
<1>4. RuleOK(Top)
  BY <1>3 DEF IInv, StackOK, Top
<1>5. Top.rule # "val" => Len(stack) > 1 /\ Fits(Parent, Top) /\ RuleOK(Parent)
  <2> SUFFICES ASSUME Top.rule # "val" PROVE Len(stack) > 1 /\ Fits(Parent, Top) /\ RuleOK(Parent)
    OBVIOUS
  <2>1. Len(stack) # 1
    BY <1>2, <1>3 DEF IInv, StackOK, Top
  <2> DEFINE n == Len(stack)
  <2>2. n \in Nat /\ n > 0 /\ n # 1
    BY <1>3, <2>1
  <2> HIDE DEF n
  <2>3. n \in 2..n /\ n - 1 \in 1..n /\ n > 1
    BY <2>2
  <2>4. QED
    BY <2>3 DEF IInv, StackOK, Top, Parent, n
<1>6. QED
  BY <1>3, <1>4, <1>5 DEF Top

LEMMA LexKeeps ==
    ASSUME IInv, NEW t \in Tokens, Lex(t)
    PROVE  IInv'
<1>1. ahead' \in Seq(Tokens) /\ Len(ahead') <= 2
  BY DEF IInv, Lex
<1>2. read' \in Seq(Tokens)
  BY DEF IInv, Lex
<1>3. QED
  BY <1>1, <1>2 DEF IInv, Lex

LEMMA FailKeeps ==
    ASSUME IInv, Unexpected \/ Cancel \/ DuplicateField
    PROVE  IInv'
BY DEF IInv, Unexpected, Cancel, DuplicateField, Fail

LEMMA OpenKeeps ==
    ASSUME IInv, Open
    PROVE  IInv'
<1>1. /\ Ready /\ Matching # {} /\ Top.state = "open"
      /\ UNCHANGED <<read, status>> /\ ahead' = Rest
  BY DEF Open
<1>2. Len(stack) > 0 /\ RuleOK(Top) /\ Top = stack[Len(stack)] /\ StackOK(stack)
  BY <1>1, TopOK DEF IInv
<1>3. OpenOK(Taken, Top.rule) /\ BackOK(Taken) /\ (Top.rule = "list" => Taken.array)
  BY <1>1, <1>2, TakenOpens, ListIsMade DEF RuleOK
<1> DEFINE r == [Top EXCEPT !.state = "close", !.o0 = ahead[1],
                            !.node = IF Taken.array THEN List(<<>>) ELSE Top.node]
           s == [stack EXCEPT ![Len(stack)] = r]
<1>4. stack' = s \o Pushed(Taken.p)
  BY DEF Open
<1>5. RuleOK(r) /\ r.rule = Top.rule /\ r.state = "close"
  BY <1>2, <1>3 DEF RuleOK, OpenOK, List
<1> HIDE DEF r
<1>6. StackOK(s) /\ Len(s) = Len(stack) /\ s[Len(s)] = r
  BY <1>2, <1>5, TopChanged
<1> HIDE DEF s
<1>7. Taken.p \in {None} \cup Rules /\ (Taken.p # None => Fits(s[Len(s)], Rule(Taken.p)))
  BY <1>3, <1>5, <1>6 DEF OpenOK, Fits, Rule
<1>8. StackOK(stack') /\ stack' # <<>>
  BY <1>2, <1>4, <1>6, <1>7, MayPush
<1>9. ahead' \in Seq(Tokens) /\ Len(ahead') <= 2
  BY <1>1, <1>3, WhatIsLeft
<1>10. QED
  BY <1>1, <1>8, <1>9 DEF IInv

\* The stack without its top, and with another rule on what is left.
LEMMA LeftWith ==
    ASSUME StackOK(stack), Len(stack) \in Nat, Len(stack) > 1,
           NEW r, RuleOK(r), r.rule = Parent.rule
    PROVE  LET s == [SubSeq(stack, 1, Len(stack) - 1) EXCEPT ![Len(stack) - 1] = r]
           IN  StackOK(s) /\ Len(s) = Len(stack) - 1 /\ s[Len(s)] = r
<1> DEFINE p == SubSeq(stack, 1, Len(stack) - 1)
<1>1. StackOK(p) /\ Len(p) = Len(stack) - 1 /\ p[Len(stack) - 1] = Parent
  BY Popped DEF Parent
<1> HIDE DEF p
<1>2. StackOK([p EXCEPT ![Len(p)] = r]) /\ Len([p EXCEPT ![Len(p)] = r]) = Len(p)
      /\ [p EXCEPT ![Len(p)] = r][Len(p)] = r
  BY <1>1, TopChanged
<1>3. QED
  BY <1>1, <1>2 DEF p

\* A value handed to the rule below.
LEMMA ChildKeeps ==
    ASSUME StackOK(stack), Len(stack) \in Nat, Len(stack) > 1, RuleOK(Parent), NEW v,
           stack' = [SubSeq(stack, 1, Len(stack) - 1) EXCEPT ![Len(stack) - 1].child = v]
    PROVE  StackOK(stack') /\ stack' # <<>>
<1> DEFINE r == [Parent EXCEPT !.child = v]
           p == SubSeq(stack, 1, Len(stack) - 1)
           s == [p EXCEPT ![Len(stack) - 1] = r]
<1>1. p[Len(stack) - 1] = Parent
  BY Popped DEF Parent
<1>2. stack' = s
  BY <1>1
<1>3. RuleOK(r) /\ r.rule = Parent.rule
  BY DEF RuleOK
<1> HIDE DEF r
<1>4. StackOK(s) /\ Len(s) = Len(stack) - 1
  BY <1>3, LeftWith
<1> HIDE DEF s
<1>5. s # <<>>
  BY <1>4
<1>6. QED
  BY <1>2, <1>4, <1>5

\* Where no case of it is left, a close takes an alternate of its rule.
LEMMA Closes ==
    ASSUME IInv, NEW rule \in Rules, Closing(rule)
    PROVE  /\ CloseOK(Taken, rule)
           /\ Rest \in Seq(Tokens) /\ Len(Rest) <= 2
<1>1. Ready /\ Matching # {} /\ Top.rule = rule /\ Top.state = "close"
  BY DEF Closing
<1>2. CloseOK(Taken, rule) /\ BackOK(Taken)
  BY <1>1, TakenCloses
<1>3. QED
  BY <1>2, WhatIsLeft

LEMMA CloseValKeeps ==
    ASSUME IInv, CloseVal
    PROVE  IInv'
<1> DEFINE v == IF Top.child # Undefined THEN Top.child ELSE Rewrap(Top.o0, Scalar(Top.o0.text))
<1>1. Closing("val") /\ Ready /\ Top.rule = "val" /\ UNCHANGED read /\ ahead' = Rest
  BY DEF CloseVal, Closing
<1>2. ahead' \in Seq(Tokens) /\ Len(ahead') <= 2
  BY <1>1, Closes DEF Rules
<1>3. Len(stack) \in Nat /\ Len(stack) > 0 /\ StackOK(stack) /\ status = "parsing"
  BY <1>1, TopOK DEF IInv, Ready
<1>4. CASE Len(stack) = 1
  <2>1. stack' = <<>> /\ status' \in {"accepted", "unexpected"}
    BY <1>4 DEF CloseVal
  <2>2. <<>> \in Seq({}) /\ Len(<<>>) = 0
    OBVIOUS
  <2>3. StackOK(<<>>)
    BY <2>2 DEF StackOK, Sequential
  <2>4. QED
    BY <1>1, <1>2, <2>1, <2>3 DEF IInv
<1>5. CASE Len(stack) # 1
  <2>1. /\ stack' = [SubSeq(stack, 1, Len(stack) - 1) EXCEPT ![Len(stack) - 1].child = v]
        /\ status' = status
    BY <1>5 DEF CloseVal
  <2> HIDE DEF v
  <2>2. Len(stack) > 1 /\ Len(stack) - 1 \in 1..Len(stack)
    <3> DEFINE n == Len(stack)
    <3>1. n \in Nat /\ n > 0 /\ n # 1
      BY <1>3, <1>5
    <3> HIDE DEF n
    <3>2. n > 1 /\ n - 1 \in 1..n
      BY <3>1
    <3>3. QED
      BY <3>2 DEF n
  <2>3. RuleOK(Parent)
    BY <1>3, <2>2 DEF StackOK, Parent
  <2>4. StackOK(stack') /\ stack' # <<>>
    BY <1>3, <2>1, <2>2, <2>3, ChildKeeps
  <2>5. QED
    BY <1>1, <1>2, <2>1, <2>4 DEF IInv
<1>6. QED
  BY <1>4, <1>5

LEMMA CloseContainerKeeps ==
    ASSUME IInv, NEW rule \in {"map", "list"}, CloseContainer(rule)
    PROVE  IInv'
<1>1. /\ Closing(rule) /\ Ready /\ Top.rule = rule /\ UNCHANGED <<read, status>> /\ ahead' = Rest
      /\ stack' = [SubSeq(stack, 1, Len(stack) - 1) EXCEPT ![Len(stack) - 1].child = Top.node]
  BY DEF CloseContainer, Closing
<1>2. ahead' \in Seq(Tokens) /\ Len(ahead') <= 2
  BY <1>1, Closes DEF Rules
<1>3. Len(stack) \in Nat /\ Len(stack) > 1 /\ RuleOK(Parent) /\ StackOK(stack)
  BY <1>1, TopOK DEF IInv
<1>4. StackOK(stack') /\ stack' # <<>>
  BY <1>1, <1>3, ChildKeeps
<1>5. QED
  BY <1>1, <1>2, <1>4 DEF IInv

\* A member added to its container, and the next rule, if any, in its place.
LEMMA AddedKeeps ==
    ASSUME IInv, NEW rule \in {"pair", "elem"}, Closing(rule), NEW node, Added(node),
           rule = "pair" => node.kind = "map", rule = "elem" => node.kind = "list"
    PROVE  IInv'
<1> DEFINE r == [Parent EXCEPT !.node = node]
           p == SubSeq(stack, 1, Len(stack) - 1)
           s == [p EXCEPT ![Len(stack) - 1] = r]
<1>1. Ready /\ Top.rule = rule /\ UNCHANGED <<read, status>> /\ ahead' = Rest
  BY DEF Closing, Added
<1>2. CloseOK(Taken, rule) /\ ahead' \in Seq(Tokens) /\ Len(ahead') <= 2
  BY <1>1, Closes DEF Rules
<1>3. /\ Len(stack) \in Nat /\ Len(stack) > 1 /\ RuleOK(Parent) /\ StackOK(stack)
      /\ Fits(Parent, Top)
  BY <1>1, TopOK DEF IInv
<1>4. p[Len(stack) - 1] = Parent
  BY <1>3, Popped DEF Parent
<1>5. stack' = s \o Pushed(Taken.r)
  BY <1>4 DEF Added
<1>6. RuleOK(r) /\ r.rule = Parent.rule /\ r.state = "close" /\ r.rule \in Under(rule)
  BY <1>1, <1>3 DEF RuleOK, Fits, Under
<1> HIDE DEF r
<1>7. StackOK(s) /\ Len(s) > 0 /\ s[Len(s)] = r
  BY <1>3, <1>6, LeftWith
<1> HIDE DEF s
<1>8. Taken.r \in {None} \cup Rules /\ (Taken.r # None => Fits(s[Len(s)], Rule(Taken.r)))
  BY <1>2, <1>6, <1>7 DEF CloseOK, Fits, Rule, Rules
<1>9. StackOK(stack') /\ stack' # <<>>
  BY <1>5, <1>7, <1>8, MayPush
<1>10. QED
  BY <1>1, <1>2, <1>9 DEF IInv

LEMMA InitHolds == Init => IInv
<1> SUFFICES ASSUME Init PROVE IInv
  OBVIOUS
<1>1. ahead \in Seq(Tokens) /\ Len(ahead) <= 2 /\ read \in Seq(Tokens)
  BY DEF Init
<1>2. RuleOK(Rule("val")) /\ Rule("val").rule = "val"
  BY DEF RuleOK, Rule, Rules
<1> DEFINE r == Rule("val")
<1>3. stack = <<r>> /\ status = "parsing"
  BY DEF Init
<1> HIDE DEF r
<1>4. stack \in Seq({r}) /\ Len(stack) = 1 /\ stack[1] = r /\ stack # <<>>
  BY <1>3
<1>5. StackOK(stack)
  BY <1>2, <1>4 DEF StackOK, Sequential, r
<1>6. QED
  BY <1>1, <1>3, <1>4, <1>5 DEF IInv

LEMMA StepKeeps == IInv /\ [Next]_vars => IInv'
<1> SUFFICES ASSUME IInv, [Next]_vars PROVE IInv'
  OBVIOUS
<1>1. CASE \E t \in Tokens : Lex(t)
  BY <1>1, LexKeeps
<1>2. CASE Open
  BY <1>2, OpenKeeps
<1>3. CASE Unexpected \/ Cancel \/ DuplicateField
  BY <1>3, FailKeeps
<1>4. CASE CloseVal
  BY <1>4, CloseValKeeps
<1>5. CASE ClosePair
  <2>1. Assign(Parent.node, Top.o0.text, Top.child).kind = "map"
    BY DEF Assign, Map
  <2>2. QED
    BY <1>5, <2>1, AddedKeeps DEF ClosePair
<1>6. CASE CloseElem
  <2>1. List(Append(Parent.node.items, Top.child)).kind = "list"
    BY DEF List
  <2>2. QED
    BY <1>6, <2>1, AddedKeeps DEF CloseElem
<1>7. CASE \E rule \in Containers : CloseContainer(rule)
  BY <1>7, CloseContainerKeeps DEF Containers
<1>8. CASE UNCHANGED vars
  BY <1>8 DEF vars, IInv
<1>9. QED
  BY <1>1, <1>2, <1>3, <1>4, <1>5, <1>6, <1>7, <1>8 DEF Next

LEMMA IInvNests == IInv => Nested
<1> SUFFICES ASSUME IInv PROVE Nested
  OBVIOUS
<1>1. PICK S : stack \in Seq(S)
  BY DEF IInv, StackOK, Sequential
<1>2. DOMAIN stack = 1..Len(stack) /\ Len(stack) \in Nat
  BY <1>1
<1>3. TypeOK
  BY <1>2 DEF IInv, StackOK, RuleOK, TypeOK
<1>4. stack # <<>> => stack[1].rule = "val"
  BY DEF IInv, StackOK
<1>5. ASSUME NEW i \in DOMAIN stack \ {1}
      PROVE  /\ stack[i - 1].state = "close"
             /\ stack[i - 1].rule \in Under(stack[i].rule)
             /\ stack[i].rule \in Rules
  <2>1. i \in 2..Len(stack)
    BY <1>2
  <2>2. QED
    BY <1>2, <2>1 DEF IInv, StackOK, Fits, RuleOK
<1>6. QED
  BY <1>3, <1>4, <1>5 DEF Nested, Under, Rules

-----------------------------------------------------------------------------
(* The rules nest.                                                         *)

\* The invariant the rule machine keeps.
THEOREM Inductive == Spec => []IInv
<1>1. QED
  BY InitHolds, StepKeeps, PTL DEF Spec

\* Whatever is read and however deep, rules nest as a document does, so that a
\* brace closes the container it is in (zon-grammar.jsonic: one `}` for both
\* kinds).
THEOREM RulesNest == Spec => []Nested
<1>1. QED
  BY Inductive, IInvNests, PTL

-----------------------------------------------------------------------------
(* The documents, phrase by phrase.                                        *)

LEMMA Upward ==
    ASSUME NEW N \in Nat, NEW T, \A k \in 0..N : (\A j \in 0..(k - 1) : j \in T) => k \in T
    PROVE  \A k \in 0..N : k \in T
<1> DEFINE F == {k \in 0..N : k \notin T}
<1>1. F \in SUBSET Nat
  OBVIOUS
<1>2. CASE F = {}
  BY <1>2
<1>3. CASE F # {}
  <2>1. PICK k \in F : \A j \in F : k <= j
    <3> HIDE DEF F
    <3> QED
      BY <1>1, <1>3, LeastOf
  <2>2. k \in 0..N /\ k \notin T
    OBVIOUS
  <2>3. ASSUME NEW j \in 0..(k - 1) PROVE j \in T
    <3>1. j \in 0..N /\ ~(k <= j)
      BY <2>2
    <3> QED
      BY <2>1, <3>1
  <2> QED
    BY <2>2, <2>3
<1> QED
  BY <1>2, <1>3

Nothings == [values |-> {}, runs |-> {}]
Unfolds(f) == f = [n \in 0..MaxTokens |-> IF n = 0 THEN [values |-> {}, runs |-> {}] ELSE Longer(f[n - 1], n)]
BuiltTo(f, m) == f[0] = Nothings /\ \A k \in 1..m : f[k] = Longer(f[k - 1], k)

LEMMA Built ==
    ASSUME NEW m \in 0..MaxTokens
    PROVE  \E f : BuiltTo(f, m)
<1> DEFINE T == {k \in 0..MaxTokens : \E f : BuiltTo(f, k)}
<1>1. MaxTokens \in Nat
  BY ParseAssumption
<1>2. ASSUME NEW k \in 0..MaxTokens, \A j \in 0..(k - 1) : j \in T PROVE k \in T
  <2>1. CASE k = 0
    <3> DEFINE g == [j \in {0} |-> Nothings]
    <3>1. BuiltTo(g, 0)
      BY DEF BuiltTo
    <3> QED
      BY <1>1, <2>1, <3>1
  <2>2. CASE k # 0
    <3>1. k - 1 \in 0..(k - 1) /\ k \in Nat /\ k - 1 \in Nat
      BY <1>2, <2>2
    <3>2. PICK f : BuiltTo(f, k - 1)
      BY <1>2, <3>1
    <3> DEFINE g == [j \in 0..k |-> IF j = k THEN Longer(f[k - 1], k) ELSE f[j]]
    <3>3. g[k] = Longer(f[k - 1], k) /\ \A j \in 0..(k - 1) : g[j] = f[j]
      BY <3>1
    <3> HIDE DEF g
    <3>4. ASSUME NEW j \in 1..k PROVE g[j] = Longer(g[j - 1], j)
      <4>1. j - 1 \in 0..(k - 1)
        BY <3>1
      <4>2. g[j - 1] = f[j - 1]
        BY <3>3, <4>1
      <4>3. CASE j = k
        BY <3>3, <4>2, <4>3
      <4>4. CASE j # k
        <5>1. j \in 1..(k - 1) /\ j \in 0..(k - 1)
          BY <3>1, <4>4
        <5>2. f[j] = Longer(f[j - 1], j)
          BY <3>2, <5>1 DEF BuiltTo
        <5> QED
          BY <3>3, <4>2, <5>1, <5>2
      <4> QED
        BY <4>3, <4>4
    <3>5. 0 \in 0..(k - 1)
      BY <3>1
    <3>6. g[0] = Nothings
      BY <3>2, <3>3, <3>5 DEF BuiltTo
    <3>7. BuiltTo(g, k)
      BY <3>4, <3>6 DEF BuiltTo
    <3> QED
      BY <1>2, <3>7
  <2> QED
    BY <2>1, <2>2
<1>3. \A k \in 0..MaxTokens : k \in T
  <2> HIDE DEF T
  <2> QED
    BY <1>1, <1>2, Upward
<1> QED
  BY <1>3

LEMMA PhrasesUnfold ==
    /\ Phrases[0] = Nothings
    /\ \A n \in 1..MaxTokens : n - 1 \in 0..MaxTokens /\ Phrases[n] = Longer(Phrases[n - 1], n)
<1>1. MaxTokens \in Nat /\ MaxTokens \in 0..MaxTokens
  BY ParseAssumption
<1>2. PICK f : BuiltTo(f, MaxTokens)
  BY <1>1, Built
<1> DEFINE g == [n \in 0..MaxTokens |-> f[n]]
<1>3. g[0] = Nothings
  BY <1>1, <1>2 DEF BuiltTo
<1>4. ASSUME NEW n \in 0..MaxTokens, n # 0 PROVE g[n] = Longer(g[n - 1], n)
  <2>1. n \in 1..MaxTokens /\ n - 1 \in 0..MaxTokens
    BY <1>1, <1>4
  <2>2. g[n] = f[n] /\ g[n - 1] = f[n - 1]
    BY <2>1
  <2> QED
    BY <1>2, <2>1, <2>2 DEF BuiltTo
<1>5. g = [n \in 0..MaxTokens |-> g[n]]
  OBVIOUS
<1> HIDE DEF g
<1>6. Unfolds(g)
  <2> DEFINE r == [n \in 0..MaxTokens |-> IF n = 0 THEN [values |-> {}, runs |-> {}] ELSE Longer(g[n - 1], n)]
  <2>1. \A n \in 0..MaxTokens : g[n] = r[n]
    BY <1>3, <1>4 DEF Nothings
  <2>2. r = [n \in 0..MaxTokens |-> r[n]]
    OBVIOUS
  <2> HIDE DEF r
  <2>3. g = r
    BY <1>5, <2>1, <2>2
  <2> QED
    BY <2>3 DEF r, Unfolds
<1>7. Phrases = CHOOSE h : Unfolds(h)
  BY Zenon DEF Phrases, Unfolds
<1>8. Unfolds(Phrases)
  BY <1>6, <1>7, Zenon
<1>9. ASSUME NEW n \in 1..MaxTokens PROVE n - 1 \in 0..MaxTokens /\ Phrases[n] = Longer(Phrases[n - 1], n)
  <2>1. n \in 0..MaxTokens /\ n # 0 /\ n - 1 \in 0..MaxTokens
    BY <1>1
  <2>2. Phrases[n] = IF n = 0 THEN [values |-> {}, runs |-> {}] ELSE Longer(Phrases[n - 1], n)
    BY <1>8, <2>1, Zenon DEF Unfolds
  <2> QED
    BY <2>1, <2>2
<1>10. Phrases[0] = Nothings
  <2>1. 0 \in 0..MaxTokens
    BY <1>1
  <2>2. Phrases[0] = IF 0 = 0 THEN [values |-> {}, runs |-> {}] ELSE Longer(Phrases[0 - 1], 0)
    BY <1>8, <2>1, Zenon DEF Unfolds
  <2> QED
    BY <2>2 DEF Nothings
<1> QED
  BY <1>9, <1>10

Vals(n) == Phrases[n].values
Runs(n) == Phrases[n].runs

\* A phrase of one member.
Single(p, n) ==
    \/ \E t \in Texts, v \in Vals(n - 1) : p = Field(t, v) /\ Len(p.tokens) <= n
    \/ \E v \in Vals(n) : p = Item(v)

Struck(p, n) == \E m \in Runs(n - 1), c \in BOOLEAN :
                    p = Struct(m, c) /\ Len(p.tokens) <= n /\ p.depth <= MaxDepth
Joined(p, n) == \E m : \E b \in Runs(n - 1) :
                    /\ Single(m, n) /\ p = Then(b, m) /\ Joins(b, m)
                    /\ Len(b.tokens) + 1 + Len(m.tokens) <= n

LEMMA None0 == Vals(0) = {} /\ Runs(0) = {}
BY PhrasesUnfold DEF Nothings, Vals, Runs

LEMMA ValsAre ==
    ASSUME NEW n \in 1..MaxTokens, NEW p
    PROVE  p \in Vals(n) <=> \/ p \in Vals(n - 1)
                             \/ p \in Scalars
                             \/ p = Empty /\ Len(p.tokens) <= n
                             \/ Struck(p, n)
<1>1. Phrases[n] = Longer(Phrases[n - 1], n)
  BY PhrasesUnfold
<1>2. Vals(n) = Longer(Phrases[n - 1], n).values
  BY <1>1 DEF Vals
<1> DEFINE less == Phrases[n - 1]
           short(q) == Len(q.tokens) <= n
           S == {q \in {Struct(m, c) : m \in less.runs, c \in BOOLEAN} : short(q) /\ q.depth <= MaxDepth}
<1>3. Vals(n) = less.values \cup Scalars \cup {q \in {Empty} : short(q)} \cup S
  BY <1>2 DEF Longer
<1>4. p \in S <=> Struck(p, n)
  <2>1. Runs(n - 1) = less.runs
    BY DEF Runs
  <2> HIDE DEF less
  <2>2. p \in {Struct(m, c) : m \in less.runs, c \in BOOLEAN}
            <=> \E m \in less.runs, c \in BOOLEAN : p = Struct(m, c)
    OBVIOUS
  <2> QED
    BY <2>1, <2>2 DEF Struck
<1>5. p \in {q \in {Empty} : short(q)} <=> p = Empty /\ Len(p.tokens) <= n
  OBVIOUS
<1>6. Vals(n - 1) = less.values
  BY DEF Vals
<1> HIDE DEF less, short, S
<1> QED
  BY <1>3, <1>4, <1>5, <1>6

LEMMA RunsAre ==
    ASSUME NEW n \in 1..MaxTokens, NEW p
    PROVE  p \in Runs(n) <=> p \in Runs(n - 1) \/ Single(p, n) \/ Joined(p, n)
<1>1. Phrases[n] = Longer(Phrases[n - 1], n)
  BY PhrasesUnfold
<1> DEFINE less == Phrases[n - 1]
           short(q) == Len(q.tokens) <= n
           values == less.values \cup Scalars \cup {q \in {Empty} : short(q)}
                      \cup {q \in {Struct(m, c) : m \in less.runs, c \in BOOLEAN} :
                               short(q) /\ q.depth <= MaxDepth}
           M == {q \in {Field(t, v) : t \in Texts, v \in less.values} : short(q)}
                       \cup {Item(v) : v \in values}
           J == {bm \in less.runs \X M :
                       Len(bm[1].tokens) + 1 + Len(bm[2].tokens) <= n /\ Joins(bm[1], bm[2])}
<1>2. /\ Longer(less, n).runs = less.runs \cup M \cup {Then(bm[1], bm[2]) : bm \in J}
      /\ Longer(less, n).values = values
  BY DEF Longer
<1>3. /\ Runs(n) = less.runs \cup M \cup {Then(bm[1], bm[2]) : bm \in J}
      /\ Vals(n) = values
  BY <1>1, <1>2 DEF Runs, Vals
<1>4. ASSUME NEW q PROVE q \in M <=> Single(q, n)
  <2>1. Vals(n - 1) = less.values
    BY DEF Vals
  <2> HIDE DEF less, values
  <2>2. q \in {Field(t, v) : t \in Texts, v \in less.values} <=> \E t \in Texts, v \in less.values : q = Field(t, v)
    OBVIOUS
  <2>3. q \in {Item(v) : v \in values} <=> \E v \in values : q = Item(v)
    OBVIOUS
  <2> QED
    BY <1>3, <2>1, <2>2, <2>3 DEF Single
<1>5. p \in {Then(bm[1], bm[2]) : bm \in J} <=> Joined(p, n)
  <2>1. Runs(n - 1) = less.runs
    BY DEF Runs
  <2>2. ASSUME NEW bm \in J, p = Then(bm[1], bm[2]) PROVE Joined(p, n)
    <3>1. bm[1] \in less.runs /\ bm[2] \in M /\ Len(bm[1].tokens) + 1 + Len(bm[2].tokens) <= n /\ Joins(bm[1], bm[2])
      <4> HIDE DEF M, less
      <4> QED
        OBVIOUS
    <3> HIDE DEF M, less, J
    <3> QED
      BY <1>4, <2>1, <2>2, <3>1 DEF Joined
  <2>3. ASSUME NEW b \in Runs(n - 1), NEW m, Single(m, n), p = Then(b, m), Joins(b, m),
               Len(b.tokens) + 1 + Len(m.tokens) <= n
        PROVE  \E bm \in J : p = Then(bm[1], bm[2])
    <3>1. b \in less.runs /\ m \in M
      BY <1>4, <2>1, <2>3
    <3> HIDE DEF M, less
    <3>2. <<b, m>> \in J
      BY <2>3, <3>1
    <3>3. p = Then(<<b, m>>[1], <<b, m>>[2])
      BY <2>3
    <3> HIDE DEF J
    <3> QED
      BY <3>2, <3>3
  <2> HIDE DEF J
  <2> QED
    BY <2>2, <2>3 DEF Joined
<1>6. Runs(n - 1) = less.runs
  BY DEF Runs
<1> HIDE DEF less, M, J, values
<1> QED
  BY <1>3, <1>4, <1>5, <1>6

LEMMA Grows ==
    ASSUME NEW n \in 0..MaxTokens
    PROVE  \A k \in 0..n : Vals(k) \subseteq Vals(n) /\ Runs(k) \subseteq Runs(n)
<1> DEFINE T == {m \in 0..MaxTokens : \A k \in 0..m : Vals(k) \subseteq Vals(m) /\ Runs(k) \subseteq Runs(m)}
<1>1. MaxTokens \in Nat
  BY ParseAssumption
<1>2. ASSUME NEW m \in 0..MaxTokens, \A j \in 0..(m - 1) : j \in T PROVE m \in T
  <2>1. ASSUME NEW k \in 0..m PROVE Vals(k) \subseteq Vals(m) /\ Runs(k) \subseteq Runs(m)
    <3>1. CASE k = m
      BY <3>1
    <3>2. CASE k # m
      <4>1. m \in 1..MaxTokens /\ m - 1 \in 0..(m - 1) /\ k \in 0..(m - 1)
        BY <1>1, <3>2
      <4>2. Vals(k) \subseteq Vals(m - 1) /\ Runs(k) \subseteq Runs(m - 1)
        BY <1>2, <4>1
      <4>3. Vals(m - 1) \subseteq Vals(m) /\ Runs(m - 1) \subseteq Runs(m)
        BY <4>1, ValsAre, RunsAre
      <4> QED
        BY <4>2, <4>3
    <3> QED
      BY <3>1, <3>2
  <2> QED
    BY <2>1
<1>3. \A m \in 0..MaxTokens : m \in T
  <2> HIDE DEF T
  <2> QED
    BY <1>1, <1>2, Upward
<1> QED
  BY <1>3

\* What a phrase is made of.
Worded(p) ==
    /\ p.tokens \in Seq(Tokens) /\ Len(p.tokens) \in Nat \ {0} /\ p.depth \in Nat
    /\ p.tokens[1] # Mark("#CB")
Listed(p) == \E items : Sequential(items) /\ p.value = List(items)
Mapped(p) == \E fields : Sequential(fields) /\ Len(fields) \in Nat \ {0} /\ p.value = Map(fields)
Running(p) == Worded(p) /\ (Listed(p) \/ Mapped(p))

LEMMA MarksAreTokens ==
    /\ Mark("#OB") \in Tokens /\ Mark("#OS") \in Tokens /\ Mark("#CB") \in Tokens
    /\ Mark("#CL") \in Tokens /\ Mark("#CA") \in Tokens /\ Mark("#ZZ") \in Tokens
BY DEF Mark, Tokens, Marks

LEMMA ScalarsWorded ==
    ASSUME NEW p \in Scalars
    PROVE  Worded(p) /\ Len(p.tokens) = 1 /\ p.depth = 0
<1>1. PICK t, v : t \in Tokens /\ p = Phrase(<<t>>, v, 0) /\ t.type # "#CB"
  <2>1. CASE p \in {Phrase(<<[type |-> "#NR", text |-> t]>>, Scalar(t), 0) : t \in Contents}
    <3>1. PICK t \in Contents : p = Phrase(<<[type |-> "#NR", text |-> t]>>, Scalar(t), 0)
      BY <2>1
    <3>2. [type |-> "#NR", text |-> t] \in Tokens
      BY DEF Tokens
    <3> QED
      BY <3>1, <3>2
  <2>2. CASE p \in {Phrase(<<[type |-> "#TX", text |-> t]>>,
                            IF EnumTag THEN Tagged(t) ELSE Scalar(t), 0) : t \in Texts}
    <3>1. PICK t \in Texts : p = Phrase(<<[type |-> "#TX", text |-> t]>>,
                            IF EnumTag THEN Tagged(t) ELSE Scalar(t), 0)
      BY <2>2
    <3>2. [type |-> "#TX", text |-> t] \in Tokens
      BY DEF Tokens
    <3> QED
      BY <3>1, <3>2
  <2> QED
    BY <2>1, <2>2 DEF Scalars
<1>2. p.tokens = <<t>> /\ p.depth = 0
  BY <1>1 DEF Phrase
<1>3. t # Mark("#CB")
  <2>1. Mark("#CB").type = "#CB"
    BY DEF Mark
  <2> QED
    BY <1>1, <2>1
<1>4. <<t>> \in Seq(Tokens) /\ Len(<<t>>) = 1 /\ <<t>>[1] = t
  BY <1>1
<1> QED
  BY <1>2, <1>3, <1>4 DEF Worded

LEMMA EmptyWorded ==
    /\ Worded(Empty) /\ Len(Empty.tokens) = 2 /\ Empty.depth = 1
    /\ Empty.tokens = <<Mark("#OS"), Mark("#CB")>>
                       /\ Empty.value = List(<<>>)
<1> DEFINE o == Mark("#OS")
           c == Mark("#CB")
<1>1. o \in Tokens /\ c \in Tokens /\ o # c
  BY MarksAreTokens DEF Mark
<1>2. Empty.tokens = <<o, c>> /\ Empty.depth = 1 /\ Empty.value = List(<<>>)
  BY DEF Empty, Phrase
<1> HIDE DEF o, c
<1>3. <<o, c>> \in Seq(Tokens) /\ Len(<<o, c>>) = 2 /\ <<o, c>>[1] = o
  BY <1>1
<1>4. Worded(Empty)
  BY <1>1, <1>2, <1>3 DEF Worded, c
<1> QED
  BY <1>2, <1>3, <1>4 DEF o, c

\* The braces around a run, and the comma that may come before the last.
Opening(m) == Mark(IF m.value.kind = "map" THEN "#OB" ELSE "#OS")
Ending(c) == IF c THEN <<Mark("#CA"), Mark("#CB")>> ELSE <<Mark("#CB")>>

LEMMA EndingIs ==
    ASSUME NEW c \in BOOLEAN
    PROVE  Ending(c) \in Seq(Tokens) /\ Len(Ending(c)) = IF c THEN 2 ELSE 1
BY MarksAreTokens DEF Ending

LEMMA StructIs ==
    ASSUME NEW m, NEW c \in BOOLEAN, Worded(m)
    PROVE  /\ Worded(Struct(m, c)) /\ Struct(m, c).value = m.value /\ Struct(m, c).depth = m.depth + 1
           /\ Len(Struct(m, c).tokens) = 1 + Len(m.tokens) + Len(Ending(c))
           /\ Struct(m, c).tokens = (<<Opening(m)>> \o m.tokens) \o Ending(c)
           /\ Opening(m) \in Tokens
<1> DEFINE s == Struct(m, c)
           o == Opening(m)
<1>1. s.tokens = (<<o>> \o m.tokens) \o Ending(c) /\ s.value = m.value /\ s.depth = m.depth + 1
  BY DEF Struct, Phrase, Opening, Ending
<1>2. o \in Tokens /\ o # Mark("#CB")
  BY MarksAreTokens DEF Opening, Mark
<1> HIDE DEF s, o
<1>3. m.tokens \in Seq(Tokens) /\ Len(m.tokens) \in Nat /\ m.depth \in Nat
  BY DEF Worded
<1>4. Ending(c) \in Seq(Tokens) /\ Len(Ending(c)) \in Nat
  BY EndingIs
<1> DEFINE e == Ending(c)
           t == m.tokens
<1>5. /\ (<<o>> \o t) \o e \in Seq(Tokens)
      /\ Len((<<o>> \o t) \o e) = 1 + Len(t) + Len(e)
      /\ ((<<o>> \o t) \o e)[1] = o
  <2> HIDE DEF e, t
  <2>1. <<o>> \in Seq(Tokens) /\ Len(<<o>>) = 1 /\ <<o>>[1] = o
    BY <1>2
  <2>2. <<o>> \o t \in Seq(Tokens) /\ Len(<<o>> \o t) = 1 + Len(t) /\ (<<o>> \o t)[1] = o
    BY <1>3, <2>1 DEF t
  <2> QED
    BY <1>3, <1>4, <2>2 DEF e, t
<1> HIDE DEF e, t
<1>6. Worded(s)
  BY <1>1, <1>2, <1>3, <1>4, <1>5 DEF Worded, e, t
<1> QED
  BY <1>1, <1>2, <1>5, <1>6 DEF s, o, e, t

LEMMA FieldIs ==
    ASSUME NEW t \in Texts, NEW v, Worded(v)
    PROVE  /\ Running(Field(t, v)) /\ Mapped(Field(t, v)) /\ Field(t, v).depth = v.depth
           /\ Len(Field(t, v).tokens) = 2 + Len(v.tokens)
           /\ Field(t, v).tokens = <<[type |-> "#TX", text |-> t], Mark("#CL")>> \o v.tokens
           /\ Field(t, v).value = Map(<<[key |-> t, value |-> v.value]>>)
<1> DEFINE p == Field(t, v)
           x == [type |-> "#TX", text |-> t]
           l == Mark("#CL")
           f == [key |-> t, value |-> v.value]
<1>1. p.tokens = <<x, l>> \o v.tokens /\ p.depth = v.depth /\ p.value = Map(<<f>>)
  BY DEF Field, Phrase
<1>2. x \in Tokens /\ l \in Tokens /\ x # Mark("#CB")
  BY MarksAreTokens DEF Tokens, Mark
<1> HIDE DEF p, x, l, f
<1>3. v.tokens \in Seq(Tokens) /\ Len(v.tokens) \in Nat /\ v.depth \in Nat
  BY DEF Worded
<1>4. /\ <<x, l>> \o v.tokens \in Seq(Tokens)
      /\ Len(<<x, l>> \o v.tokens) = 2 + Len(v.tokens)
      /\ (<<x, l>> \o v.tokens)[1] = x
  <2> DEFINE w == v.tokens
  <2> HIDE DEF w
  <2>1. w \in Seq(Tokens)
    BY <1>3 DEF w
  <2>2. /\ <<x, l>> \o w \in Seq(Tokens)
      /\ Len(<<x, l>> \o w) = 2 + Len(w)
      /\ (<<x, l>> \o w)[1] = x
    BY <1>2, <2>1
  <2> QED
    BY <2>2 DEF w
<1>5. Worded(p)
  BY <1>1, <1>2, <1>3, <1>4 DEF Worded
<1>6. Mapped(p)
  <2>1. <<f>> \in Seq({f}) /\ Len(<<f>>) = 1
    OBVIOUS
  <2>2. Sequential(<<f>>)
    BY <2>1 DEF Sequential
  <2>3. Len(<<f>>) \in Nat \ {0}
    BY <2>1
  <2> QED
    BY <1>1, <2>2, <2>3 DEF Mapped
<1> QED
  BY <1>1, <1>4, <1>5, <1>6 DEF Running, p, x, l, f

LEMMA ItemIs ==
    ASSUME NEW v, Worded(v)
    PROVE  /\ Running(Item(v)) /\ Listed(Item(v)) /\ Item(v).depth = v.depth
           /\ Item(v).tokens = v.tokens
           /\ Item(v).value = List(<<v.value>>)
<1> DEFINE p == Item(v)
           f == v.value
<1>1. p.tokens = v.tokens /\ p.depth = v.depth /\ p.value = List(<<f>>)
  BY DEF Item, Phrase
<1> HIDE DEF p, f
<1>5. Worded(p)
  BY <1>1 DEF Worded
<1>6. Listed(p)
  <2>1. <<f>> \in Seq({f})
    OBVIOUS
  <2>2. Sequential(<<f>>)
    BY <2>1 DEF Sequential
  <2> QED
    BY <1>1, <2>2 DEF Listed
<1> QED
  BY <1>1, <1>5, <1>6 DEF Running, p, f

LEMMA SequentialJoin ==
    ASSUME NEW s, NEW t, Sequential(s), Sequential(t)
    PROVE  /\ Sequential(s \o t) /\ Len(s) \in Nat /\ Len(t) \in Nat /\ Len(s \o t) = Len(s) + Len(t)
           /\ DOMAIN s = 1..Len(s) /\ DOMAIN t = 1..Len(t) /\ DOMAIN (s \o t) = 1..(Len(s) + Len(t))
           /\ \A i \in 1..Len(s) : (s \o t)[i] = s[i]
           /\ \A i \in 1..Len(t) : (s \o t)[Len(s) + i] = t[i]
<1>1. PICK S : s \in Seq(S)
  BY DEF Sequential
<1>2. PICK T : t \in Seq(T)
  BY DEF Sequential
<1>3. s \in Seq(S \cup T) /\ t \in Seq(S \cup T)
  BY <1>1, <1>2
<1>4. s \o t \in Seq(S \cup T)
  BY <1>3, ConcatProperties
<1>5. Sequential(s \o t)
  BY <1>4 DEF Sequential
<1>6. Len(s \o t) = Len(s) + Len(t) /\ Len(s) \in Nat /\ Len(t) \in Nat
      /\ DOMAIN s = 1..Len(s) /\ DOMAIN t = 1..Len(t) /\ DOMAIN (s \o t) = 1..(Len(s) + Len(t))
  BY <1>3
<1>7. \A i \in 1..Len(s) : (s \o t)[i] = s[i]
  BY <1>3
<1>8. \A i \in 1..Len(t) : (s \o t)[Len(s) + i] = t[i]
  BY <1>3
<1> QED
  BY <1>5, <1>6, <1>7, <1>8

LEMMA Kinds ==
    /\ \A x : List(x).kind = "list" /\ List(x).kind # "map" /\ List(x).items = x
    /\ \A x : Map(x).kind = "map" /\ Map(x).kind # "list" /\ Map(x).fields = x
BY DEF List, Map

LEMMA ThenIs ==
    ASSUME NEW b, NEW m, Running(b), Running(m), b.value.kind = m.value.kind
    PROVE  /\ Running(Then(b, m))
           /\ Then(b, m).tokens = (b.tokens \o <<Mark("#CA")>>) \o m.tokens
           /\ Len(Then(b, m).tokens) = Len(b.tokens) + 1 + Len(m.tokens)
           /\ Then(b, m).depth = IF b.depth > m.depth THEN b.depth ELSE m.depth
           /\ Then(b, m).value = IF b.value.kind = "list" THEN List(b.value.items \o m.value.items)
                                 ELSE Map(b.value.fields \o m.value.fields)
<1> DEFINE p == Then(b, m)
           a == Mark("#CA")
<1>1. /\ p.tokens = (b.tokens \o <<a>>) \o m.tokens
      /\ p.depth = IF b.depth > m.depth THEN b.depth ELSE m.depth
      /\ p.value = IF b.value.kind = "list" THEN List(b.value.items \o m.value.items)
                                 ELSE Map(b.value.fields \o m.value.fields)
  BY DEF Then, Phrase
<1>2. a \in Tokens
  BY MarksAreTokens
<1> HIDE DEF p, a
<1>3. /\ b.tokens \in Seq(Tokens) /\ Len(b.tokens) \in Nat \ {0} /\ b.depth \in Nat
      /\ m.tokens \in Seq(Tokens) /\ Len(m.tokens) \in Nat \ {0} /\ m.depth \in Nat
      /\ b.tokens[1] # Mark("#CB")
  BY DEF Running, Worded
<1> DEFINE s == b.tokens
           t == m.tokens
           w == (s \o <<a>>) \o t
<1>4. /\ w \in Seq(Tokens) /\ Len(w) = Len(s) + 1 + Len(t) /\ w[1] = s[1] /\ Len(w) \in Nat \ {0}
  <2>1. s \in Seq(Tokens) /\ t \in Seq(Tokens) /\ Len(s) \in Nat \ {0}
    BY <1>3
  <2> DEFINE u == s \o <<a>>
  <2> HIDE DEF s, t
  <2>2. u \in Seq(Tokens) /\ Len(u) = Len(s) + 1 /\ u[1] = s[1]
    BY <1>2, <2>1
  <2> HIDE DEF u
  <2>3. /\ u \o t \in Seq(Tokens) /\ Len(u \o t) = Len(u) + Len(t) /\ (u \o t)[1] = u[1]
    BY <2>1, <2>2
  <2> QED
    BY <2>1, <2>2, <2>3 DEF u
<1>5. p.depth \in Nat
  BY <1>1, <1>3
<1>6. Worded(p)
  <2> HIDE DEF w
  <2>1. p.tokens = w /\ w[1] # Mark("#CB")
    BY <1>1, <1>3, <1>4 DEF w
  <2> QED
    BY <1>4, <1>5, <2>1 DEF Worded
<1>7. CASE Listed(b)
  <2>1. PICK i : Sequential(i) /\ b.value = List(i)
    BY <1>7 DEF Listed
  <2>2. b.value.kind = "list" /\ b.value.items = i /\ m.value.kind = "list"
    BY <2>1 DEF List
  <2>3. ~Mapped(m)
    BY <2>2, Kinds, Zenon DEF Mapped
  <2>4. PICK j : Sequential(j) /\ m.value = List(j)
    BY <2>3 DEF Running, Listed
  <2>5. m.value.items = j
    BY <2>4 DEF List
  <2>6. Sequential(i \o j) /\ p.value = List(i \o j)
    BY <1>1, <2>1, <2>2, <2>4, <2>5, SequentialJoin
  <2>7. Listed(p)
    BY <2>6 DEF Listed
  <2> QED
    BY <1>1, <1>4, <1>6, <2>7 DEF Running, p, a
<1>8. CASE Mapped(b)
  <2>1. PICK i : Sequential(i) /\ b.value = Map(i)
    BY <1>8 DEF Mapped
  <2>2. b.value.kind = "map" /\ b.value.fields = i /\ b.value.kind # "list" /\ m.value.kind = "map"
    BY <2>1 DEF Map
  <2>3. ~Listed(m)
    BY <2>2, Kinds, Zenon DEF Listed
  <2>4. PICK j : Sequential(j) /\ Len(j) \in Nat \ {0} /\ m.value = Map(j)
    BY <2>3 DEF Running, Mapped
  <2>5. m.value.fields = j
    BY <2>4 DEF Map
  <2>6. Sequential(i \o j) /\ p.value = Map(i \o j) /\ Len(i \o j) = Len(i) + Len(j) /\ Len(i) \in Nat
    BY <1>1, <2>1, <2>2, <2>4, <2>5, SequentialJoin
  <2>m. Len(i \o j) \in Nat \ {0}
    BY <2>4, <2>6
  <2>7. Mapped(p)
    BY <2>6, <2>m DEF Mapped
  <2> QED
    BY <1>1, <1>4, <1>6, <2>7 DEF Running, p, a
<1> QED
  BY <1>7, <1>8 DEF Running

ValsFine(n) == \A p \in Vals(n) : Worded(p) /\ Len(p.tokens) <= n
RunsFine(n) == \A p \in Runs(n) : Running(p) /\ Len(p.tokens) <= n

\* A value of n tokens is one of the values of n.
Kept(n) == /\ \A p \in Vals(n) : p \in Vals(Len(p.tokens))
           /\ \A p \in Runs(n) : p \in Runs(Len(p.tokens))

LEMMA NewValsFine ==
    ASSUME NEW n \in 1..MaxTokens, ValsFine(n - 1), RunsFine(n - 1)
    PROVE  ValsFine(n)
<1> SUFFICES ASSUME NEW p \in Vals(n) PROVE Worded(p) /\ Len(p.tokens) <= n
  BY DEF ValsFine
<1>1. n \in Nat /\ n - 1 <= n /\ 1 <= n
  BY ParseAssumption
<1>2. CASE p \in Vals(n - 1)
  BY <1>1, <1>2 DEF ValsFine, Worded
<1>3. CASE p \in Scalars
  BY <1>1, <1>3, ScalarsWorded
<1>4. CASE p = Empty /\ Len(p.tokens) <= n
  BY <1>4, EmptyWorded
<1>5. CASE Struck(p, n)
  <2>1. PICK m \in Runs(n - 1), c \in BOOLEAN : p = Struct(m, c) /\ Len(p.tokens) <= n
    BY <1>5 DEF Struck
  <2>2. Worded(m)
    BY DEF RunsFine, Running
  <2> QED
    BY <2>1, <2>2, StructIs
<1> QED
  BY <1>2, <1>3, <1>4, <1>5, ValsAre

LEMMA SinglesFine ==
    ASSUME NEW n \in 1..MaxTokens, ValsFine(n - 1), ValsFine(n), NEW p, Single(p, n)
    PROVE  Running(p) /\ Len(p.tokens) <= n
<1>1. CASE \E t \in Texts, v \in Vals(n - 1) : p = Field(t, v) /\ Len(p.tokens) <= n
  <2>1. PICK t \in Texts, v \in Vals(n - 1) : p = Field(t, v) /\ Len(p.tokens) <= n
    BY <1>1
  <2>2. Worded(v)
    BY DEF ValsFine
  <2> QED
    BY <2>1, <2>2, FieldIs
<1>2. CASE \E v \in Vals(n) : p = Item(v)
  <2>1. PICK v \in Vals(n) : p = Item(v)
    BY <1>2
  <2>2. Worded(v) /\ Len(v.tokens) <= n
    BY DEF ValsFine
  <2> QED
    BY <2>1, <2>2, ItemIs
<1> QED
  BY <1>1, <1>2 DEF Single

LEMMA NewRunsFine ==
    ASSUME NEW n \in 1..MaxTokens, ValsFine(n - 1), RunsFine(n - 1), ValsFine(n)
    PROVE  RunsFine(n)
<1> SUFFICES ASSUME NEW p \in Runs(n) PROVE Running(p) /\ Len(p.tokens) <= n
  BY DEF RunsFine
<1>1. n \in Nat /\ n - 1 <= n
  BY ParseAssumption
<1>2. CASE p \in Runs(n - 1)
  BY <1>1, <1>2 DEF RunsFine, Running, Worded
<1>3. CASE Single(p, n)
  BY <1>3, SinglesFine
<1>4. CASE Joined(p, n)
  <2>1. PICK m : \E b \in Runs(n - 1) :
                    /\ Single(m, n) /\ p = Then(b, m) /\ Joins(b, m)
                    /\ Len(b.tokens) + 1 + Len(m.tokens) <= n
    BY <1>4 DEF Joined
  <2>2. PICK b \in Runs(n - 1) :
                    /\ Single(m, n) /\ p = Then(b, m) /\ Joins(b, m)
                    /\ Len(b.tokens) + 1 + Len(m.tokens) <= n
    BY <2>1
  <2>3. Running(b) /\ Running(m) /\ b.value.kind = m.value.kind
    BY <2>2, SinglesFine DEF RunsFine, Joins
  <2>4. Running(p) /\ Len(p.tokens) = Len(b.tokens) + 1 + Len(m.tokens)
    BY <2>2, <2>3, ThenIs
  <2> QED
    BY <2>2, <2>4
<1> QED
  BY <1>2, <1>3, <1>4, RunsAre

LEMMA Fine == ASSUME NEW n \in 0..MaxTokens PROVE ValsFine(n) /\ RunsFine(n)
<1> DEFINE T == {k \in 0..MaxTokens : ValsFine(k) /\ RunsFine(k)}
<1>1. MaxTokens \in Nat
  BY ParseAssumption
<1>2. ASSUME NEW k \in 0..MaxTokens, \A j \in 0..(k - 1) : j \in T PROVE k \in T
  <2>1. CASE k = 0
    BY <2>1, None0 DEF ValsFine, RunsFine
  <2>2. CASE k # 0
    <3>1. k \in 1..MaxTokens /\ k - 1 \in 0..(k - 1)
      BY <1>1, <2>2
    <3>2. ValsFine(k - 1) /\ RunsFine(k - 1)
      BY <1>2, <3>1
    <3> QED
      BY <3>1, <3>2, NewValsFine, NewRunsFine
  <2> QED
    BY <2>1, <2>2
<1>3. \A k \in 0..MaxTokens : k \in T
  <2> HIDE DEF T
  <2> QED
    BY <1>1, <1>2, Upward
<1> QED
  BY <1>3

\* A phrase counted among those of n tokens is so as soon as it fits.
LEMMA SingleFits ==
    ASSUME NEW n \in 1..MaxTokens, Kept(n - 1), NEW p, Single(p, n), \A v \in Vals(n) : v \in Vals(Len(v.tokens))
    PROVE  Len(p.tokens) \in 1..n /\ \A k \in 1..MaxTokens : k >= Len(p.tokens) => Single(p, k)
<1>0. n \in Nat /\ n - 1 \in 0..MaxTokens /\ n \in 0..MaxTokens /\ MaxTokens \in Nat
  BY ParseAssumption
<1>f. ValsFine(n) /\ ValsFine(n - 1)
  BY <1>0, Fine
<1>1. CASE \E t \in Texts, v \in Vals(n - 1) : p = Field(t, v) /\ Len(p.tokens) <= n
  <2>1. PICK t \in Texts, v \in Vals(n - 1) : p = Field(t, v) /\ Len(p.tokens) <= n
    BY <1>1
  <2>2. Worded(v) /\ Len(v.tokens) \in Nat
    BY <1>f DEF ValsFine, Worded
  <2>3. Len(p.tokens) = 2 + Len(v.tokens)
    BY <2>1, <2>2, FieldIs
  <2>4. v \in Vals(Len(v.tokens))
    BY DEF Kept
  <2>5. ASSUME NEW k \in 1..MaxTokens, k >= Len(p.tokens) PROVE Single(p, k)
    <3>1. k - 1 \in 0..MaxTokens /\ Len(v.tokens) \in 0..(k - 1) /\ Len(p.tokens) <= k
      BY <1>0, <2>2, <2>3, <2>5
    <3>2. v \in Vals(k - 1)
      BY <2>4, <3>1, Grows
    <3> QED
      BY <2>1, <3>1, <3>2 DEF Single
  <2> QED
    BY <1>0, <2>1, <2>2, <2>3, <2>5
<1>2. CASE \E v \in Vals(n) : p = Item(v)
  <2>1. PICK v \in Vals(n) : p = Item(v)
    BY <1>2
  <2>2. Worded(v) /\ Len(v.tokens) \in Nat \ {0} /\ Len(v.tokens) <= n
    BY <1>f DEF ValsFine, Worded
  <2>3. Len(p.tokens) = Len(v.tokens)
    BY <2>1, <2>2, ItemIs
  <2>4. v \in Vals(Len(v.tokens))
    OBVIOUS
  <2>5. ASSUME NEW k \in 1..MaxTokens, k >= Len(p.tokens) PROVE Single(p, k)
    <3>1. k \in 0..MaxTokens /\ Len(v.tokens) \in 0..k
      BY <1>0, <2>2, <2>3, <2>5
    <3>2. v \in Vals(k)
      BY <2>4, <3>1, Grows
    <3> QED
      BY <2>1, <3>2 DEF Single
  <2> QED
    BY <1>0, <2>2, <2>3, <2>5
<1> QED
  BY <1>1, <1>2 DEF Single

LEMMA ValsKept ==
    ASSUME NEW n \in 1..MaxTokens, Kept(n - 1), NEW p \in Vals(n)
    PROVE  p \in Vals(Len(p.tokens))
<1>0. n \in Nat /\ n - 1 \in 0..MaxTokens /\ n \in 0..MaxTokens /\ MaxTokens \in Nat
  BY ParseAssumption
<1>1. Worded(p) /\ Len(p.tokens) \in 1..MaxTokens
  BY <1>0, Fine DEF ValsFine, Worded
<1> DEFINE k == Len(p.tokens)
<1>2. CASE p \in Vals(n - 1)
  BY <1>2 DEF Kept
<1>3. CASE p \in Scalars
  BY <1>1, <1>3, ValsAre
<1>4. CASE p = Empty
  BY <1>0, <1>1, <1>4, ValsAre
<1>5. CASE Struck(p, n)
  <2>1. PICK m \in Runs(n - 1), c \in BOOLEAN : p = Struct(m, c) /\ Len(p.tokens) <= n /\ p.depth <= MaxDepth
    BY <1>5 DEF Struck
  <2>2. Running(m) /\ Worded(m) /\ Len(m.tokens) \in Nat
    BY <1>0, Fine DEF RunsFine, Running, Worded
  <2>3. m \in Runs(Len(m.tokens))
    BY DEF Kept
  <2>4. Len(p.tokens) = 1 + Len(m.tokens) + Len(Ending(c)) /\ Len(Ending(c)) \in {1, 2}
    BY <2>1, <2>2, StructIs, EndingIs
  <2>5. k - 1 \in 0..MaxTokens /\ Len(m.tokens) \in 0..(k - 1) /\ k <= k
    BY <1>0, <1>1, <2>2, <2>4
  <2>6. m \in Runs(k - 1)
    BY <2>3, <2>5, Grows
  <2>7. Struck(p, k)
    BY <2>1, <2>5, <2>6 DEF Struck
  <2> QED
    BY <1>1, <2>7, ValsAre
<1> QED
  BY <1>2, <1>3, <1>4, <1>5, ValsAre

LEMMA RunsKept ==
    ASSUME NEW n \in 1..MaxTokens, Kept(n - 1), NEW p \in Runs(n)
    PROVE  p \in Runs(Len(p.tokens))
<1>0. n \in Nat /\ n - 1 \in 0..MaxTokens /\ n \in 0..MaxTokens /\ MaxTokens \in Nat
  BY ParseAssumption
<1>1. Worded(p) /\ Len(p.tokens) \in 1..MaxTokens
  BY <1>0, Fine DEF RunsFine, Running, Worded
<1>v. \A v \in Vals(n) : v \in Vals(Len(v.tokens))
  BY ValsKept
<1> DEFINE k == Len(p.tokens)
<1>k. k >= k
  BY <1>1
<1>2. CASE p \in Runs(n - 1)
  BY <1>2 DEF Kept
<1>3. CASE Single(p, n)
  <2>1. Single(p, k)
    BY <1>1, <1>3, <1>v, <1>k, SingleFits
  <2> QED
    BY <1>1, <2>1, RunsAre
<1>4. CASE Joined(p, n)
  <2>1. PICK m : \E b \in Runs(n - 1) :
                    /\ Single(m, n) /\ p = Then(b, m) /\ Joins(b, m)
                    /\ Len(b.tokens) + 1 + Len(m.tokens) <= n
    BY <1>4 DEF Joined
  <2>2. PICK b \in Runs(n - 1) :
                    /\ Single(m, n) /\ p = Then(b, m) /\ Joins(b, m)
                    /\ Len(b.tokens) + 1 + Len(m.tokens) <= n
    BY <2>1
  <2>3. Running(b) /\ Running(m) /\ b.value.kind = m.value.kind
    BY <1>0, <2>2, SinglesFine, Fine DEF RunsFine, Joins
  <2>4. Len(p.tokens) = Len(b.tokens) + 1 + Len(m.tokens)
    BY <2>2, <2>3, ThenIs
  <2>5. Len(b.tokens) \in Nat /\ Len(m.tokens) \in Nat
    BY <2>3 DEF Running, Worded
  <2>6. k - 1 \in 0..MaxTokens /\ Len(b.tokens) \in 0..(k - 1) /\ k >= Len(m.tokens)
        /\ Len(b.tokens) + 1 + Len(m.tokens) <= k
    <3> DEFINE x == Len(b.tokens)
               y == Len(m.tokens)
    <3>1. x \in Nat /\ y \in Nat /\ k = x + 1 + y /\ k \in 1..MaxTokens
      BY <1>1, <2>4, <2>5
    <3> HIDE DEF x, y, k
    <3>2. k - 1 \in 0..MaxTokens /\ x \in 0..(k - 1) /\ k >= y /\ x + 1 + y <= k
      BY <1>0, <3>1
    <3> QED
      BY <3>2 DEF x, y
  <2>7. b \in Runs(Len(b.tokens))
    BY DEF Kept
  <2>8. b \in Runs(k - 1)
    BY <2>6, <2>7, Grows
  <2>9. Single(m, k)
    BY <1>1, <1>v, <2>2, <2>6, SingleFits
  <2>10. Joined(p, k)
    BY <2>2, <2>6, <2>8, <2>9 DEF Joined
  <2> QED
    BY <1>1, <2>10, RunsAre
<1> QED
  BY <1>2, <1>3, <1>4, RunsAre

LEMMA Fits0 == ASSUME NEW n \in 0..MaxTokens PROVE Kept(n)
<1> DEFINE T == {k \in 0..MaxTokens : Kept(k)}
<1>1. MaxTokens \in Nat
  BY ParseAssumption
<1>2. ASSUME NEW k \in 0..MaxTokens, \A j \in 0..(k - 1) : j \in T PROVE k \in T
  <2>1. CASE k = 0
    BY <2>1, None0 DEF Kept
  <2>2. CASE k # 0
    <3>1. k \in 1..MaxTokens /\ k - 1 \in 0..(k - 1)
      BY <1>1, <2>2
    <3>2. Kept(k - 1)
      BY <1>2, <3>1
    <3> QED
      BY <3>1, <3>2, ValsKept, RunsKept DEF Kept
  <2> QED
    BY <2>1, <2>2
<1>3. \A k \in 0..MaxTokens : k \in T
  <2> HIDE DEF T
  <2> QED
    BY <1>1, <1>2, Upward
<1> QED
  BY <1>3

Values == Vals(MaxTokens)
Groups == Runs(MaxTokens)

\* A member alone.
One(p) == (\E t \in Texts, v \in Values : p = Field(t, v)) \/ (\E v \in Values : p = Item(v))

LEMMA Whole == MaxTokens \in Nat /\ MaxTokens \in 1..MaxTokens /\ MaxTokens \in 0..MaxTokens /\ MaxDepth \in Nat \ {0}
BY ParseAssumption

LEMMA ValuesFine ==
    ASSUME NEW p \in Values
    PROVE  Worded(p) /\ Len(p.tokens) \in 1..MaxTokens /\ p \in Vals(Len(p.tokens))
<1>1. Worded(p) /\ Len(p.tokens) <= MaxTokens
  BY Whole, Fine DEF ValsFine, Values
<1>2. Len(p.tokens) \in Nat \ {0}
  BY <1>1 DEF Worded
<1>3. p \in Vals(Len(p.tokens))
  BY Whole, Fits0 DEF Kept, Values
<1> QED
  BY <1>1, <1>2, <1>3, Whole

LEMMA GroupsFine ==
    ASSUME NEW p \in Groups
    PROVE  Running(p) /\ Worded(p) /\ Len(p.tokens) \in 1..MaxTokens /\ p \in Runs(Len(p.tokens))
<1>1. Running(p) /\ Len(p.tokens) <= MaxTokens
  BY Whole, Fine DEF RunsFine, Groups
<1>2. Worded(p) /\ Len(p.tokens) \in Nat \ {0}
  BY <1>1 DEF Running, Worded
<1>3. p \in Runs(Len(p.tokens))
  BY Whole, Fits0 DEF Kept, Groups
<1> QED
  BY <1>1, <1>2, <1>3, Whole

LEMMA ScalarIsValue == ASSUME NEW p \in Scalars PROVE p \in Values
BY Whole, ValsAre DEF Values

LEMMA EmptyIsValue == 2 <= MaxTokens => Empty \in Values
BY Whole, EmptyWorded, ValsAre DEF Values

\* What fits among the runs of fewer tokens.
LEMMA FitsBelow ==
    ASSUME NEW n \in 1..MaxTokens
    PROVE  /\ \A p \in Values : Len(p.tokens) < n => p \in Vals(n - 1)
           /\ \A p \in Groups : Len(p.tokens) < n => p \in Runs(n - 1)
<1>0. n - 1 \in 0..MaxTokens /\ n \in Nat
  BY Whole
<1>1. ASSUME NEW p \in Values, Len(p.tokens) < n PROVE p \in Vals(n - 1)
  <2>1. Len(p.tokens) \in 0..(n - 1) /\ p \in Vals(Len(p.tokens))
    BY <1>0, <1>1, ValuesFine
  <2> QED
    BY <1>0, <2>1, Grows
<1>2. ASSUME NEW p \in Groups, Len(p.tokens) < n PROVE p \in Runs(n - 1)
  <2>1. Len(p.tokens) \in 0..(n - 1) /\ p \in Runs(Len(p.tokens))
    BY <1>0, <1>2, GroupsFine
  <2> QED
    BY <1>0, <2>1, Grows
<1> QED
  BY <1>1, <1>2

LEMMA StructIsValue ==
    ASSUME NEW m \in Groups, NEW c \in BOOLEAN,
           Len(Struct(m, c).tokens) <= MaxTokens, m.depth + 1 <= MaxDepth
    PROVE  Struct(m, c) \in Values
<1>1. Worded(m) /\ Len(m.tokens) \in Nat
  BY GroupsFine DEF Worded
<1>2. Len(Struct(m, c).tokens) = 1 + Len(m.tokens) + Len(Ending(c)) /\ Len(Ending(c)) \in {1, 2}
      /\ Struct(m, c).depth = m.depth + 1
  BY <1>1, StructIs, EndingIs
<1>3. Len(m.tokens) < MaxTokens
  BY Whole, <1>1, <1>2
<1>4. m \in Runs(MaxTokens - 1)
  BY Whole, <1>3, FitsBelow
<1>5. Struck(Struct(m, c), MaxTokens)
  BY <1>2, <1>4 DEF Struck
<1> QED
  BY Whole, <1>5, ValsAre DEF Values

LEMMA OneIsSingle ==
    ASSUME NEW p, One(p)
    PROVE  /\ Running(p) /\ Worded(p)
           /\ Len(p.tokens) <= MaxTokens => Single(p, MaxTokens) /\ p \in Groups
<1>1. CASE \E t \in Texts, v \in Values : p = Field(t, v)
  <2>1. PICK t \in Texts, v \in Values : p = Field(t, v)
    BY <1>1
  <2>2. Worded(v) /\ Len(v.tokens) \in Nat
    BY ValuesFine DEF Worded
  <2>3. Running(p) /\ Len(p.tokens) = 2 + Len(v.tokens)
    BY <2>1, <2>2, FieldIs
  <2>4. ASSUME Len(p.tokens) <= MaxTokens PROVE Single(p, MaxTokens) /\ p \in Groups
    <3>1. Len(v.tokens) < MaxTokens
      BY Whole, <2>2, <2>3, <2>4
    <3>2. v \in Vals(MaxTokens - 1)
      BY Whole, <3>1, FitsBelow
    <3>3. Single(p, MaxTokens)
      BY <2>1, <2>4, <3>2 DEF Single
    <3> QED
      BY Whole, <3>3, RunsAre DEF Groups
  <2> QED
    BY <2>3, <2>4 DEF Running
<1>2. CASE \E v \in Values : p = Item(v)
  <2>1. PICK v \in Values : p = Item(v)
    BY <1>2
  <2>2. Worded(v)
    BY ValuesFine
  <2>3. Running(p)
    BY <2>1, <2>2, ItemIs
  <2>4. Single(p, MaxTokens)
    BY <2>1 DEF Single, Values
  <2> QED
    BY Whole, <2>3, <2>4, RunsAre DEF Groups, Running
<1> QED
  BY <1>1, <1>2 DEF One

LEMMA SingleIsOne ==
    ASSUME NEW n \in 1..MaxTokens, NEW p, Single(p, n)
    PROVE  One(p)
<1>1. n - 1 \in 0..MaxTokens /\ n \in 0..MaxTokens
  BY Whole
<1>2. Vals(n - 1) \subseteq Values /\ Vals(n) \subseteq Values
  BY Whole, <1>1, Grows DEF Values
<1> QED
  BY <1>2 DEF Single, One

LEMMA ThenIsGroup ==
    ASSUME NEW b \in Groups, NEW m, One(m), Joins(b, m), Len(Then(b, m).tokens) <= MaxTokens
    PROVE  Then(b, m) \in Groups
<1>1. Running(b) /\ Running(m) /\ b.value.kind = m.value.kind
  BY GroupsFine, OneIsSingle DEF Joins
<1>2. Len(b.tokens) \in Nat \ {0} /\ Len(m.tokens) \in Nat
  BY <1>1 DEF Running, Worded
<1>3. Len(Then(b, m).tokens) = Len(b.tokens) + 1 + Len(m.tokens)
  BY <1>1, ThenIs
<1> DEFINE x == Len(b.tokens)
           y == Len(m.tokens)
<1>4. x \in Nat \ {0} /\ y \in Nat /\ x + 1 + y <= MaxTokens
  BY <1>2, <1>3
<1> HIDE DEF x, y
<1>5. x < MaxTokens /\ y <= MaxTokens
  BY <1>4, Whole
<1>6. b \in Runs(MaxTokens - 1)
  BY Whole, <1>5, FitsBelow DEF x
<1>7. Single(m, MaxTokens)
  BY <1>5, OneIsSingle DEF y
<1>8. Joined(Then(b, m), MaxTokens)
  BY <1>4, <1>6, <1>7 DEF Joined, x, y
<1> QED
  BY Whole, <1>8, RunsAre DEF Groups

LEMMA ValueIs ==
    ASSUME NEW p \in Values
    PROVE  \/ p \in Scalars
           \/ p = Empty
           \/ \E m \in Groups, c \in BOOLEAN : p = Struct(m, c) /\ p.depth <= MaxDepth
<1> DEFINE n == Len(p.tokens)
<1>1. n \in 1..MaxTokens /\ p \in Vals(n)
  BY ValuesFine
<1> HIDE DEF n
<1>2. n - 1 \in 0..MaxTokens /\ ~(n <= n - 1)
  BY Whole, <1>1
<1>3. p \notin Vals(n - 1)
  BY <1>2, Fine DEF ValsFine, n
<1>4. ASSUME Struck(p, n) PROVE \E m \in Groups, c \in BOOLEAN : p = Struct(m, c) /\ p.depth <= MaxDepth
  <2>1. Runs(n - 1) \subseteq Groups
    BY Whole, <1>2, Grows DEF Groups
  <2> QED
    BY <1>4, <2>1 DEF Struck
<1> QED
  BY <1>1, <1>3, <1>4, ValsAre

GroupMade(p, b, m) == b \in Groups /\ One(m) /\ p = Then(b, m) /\ Joins(b, m) /\ Len(b.tokens) < Len(p.tokens)

LEMMA GroupIs ==
    ASSUME NEW p \in Groups
    PROVE  One(p) \/ \E b, m : GroupMade(p, b, m)
<1> DEFINE n == Len(p.tokens)
<1>1. n \in 1..MaxTokens /\ p \in Runs(n)
  BY GroupsFine
<1> HIDE DEF n
<1>2. n - 1 \in 0..MaxTokens /\ ~(n <= n - 1)
  BY Whole, <1>1
<1>3. p \notin Runs(n - 1)
  BY <1>2, Fine DEF RunsFine, n
<1>4. ASSUME Joined(p, n) PROVE \E b, m : GroupMade(p, b, m)
  <2>1. PICK m : \E b \in Runs(n - 1) :
                    /\ Single(m, n) /\ p = Then(b, m) /\ Joins(b, m)
                    /\ Len(b.tokens) + 1 + Len(m.tokens) <= n
    BY <1>4 DEF Joined
  <2>2. PICK b \in Runs(n - 1) :
                    /\ Single(m, n) /\ p = Then(b, m) /\ Joins(b, m)
                    /\ Len(b.tokens) + 1 + Len(m.tokens) <= n
    BY <2>1
  <2>3. Runs(n - 1) \subseteq Groups
    BY Whole, <1>2, Grows DEF Groups
  <2>4. One(m)
    BY <1>1, <2>2, SingleIsOne
  <2>5. Len(b.tokens) <= n - 1 /\ Len(b.tokens) \in Nat /\ n \in Nat
    BY Whole, <1>1, <1>2, Fine DEF RunsFine, Running, Worded
  <2>6. Len(b.tokens) < n
    BY <2>5
  <2>7. GroupMade(p, b, m)
    BY <2>2, <2>3, <2>4, <2>6 DEF GroupMade, n
  <2> QED
    BY <2>7
<1> QED
  BY <1>1, <1>3, <1>4, RunsAre, SingleIsOne

\* The names of a node's fields.
Keys(node) == IF node.kind = "map" THEN {node.fields[i].key : i \in DOMAIN node.fields} ELSE {}

LEMMA KeysHas ==
    ASSUME NEW node, node.kind = "map", NEW k
    PROVE  HasField(node, k) <=> k \in Keys(node)
BY DEF HasField, Keys

LEMMA KeysOfList == ASSUME NEW s PROVE Keys(List(s)) = {}
BY DEF List, Keys

LEMMA KeysOfNone == Keys(Map(<<>>)) = {}
<1>1. Map(<<>>).kind = "map" /\ Map(<<>>).fields = <<>>
  BY DEF Map
<1>2. DOMAIN <<>> = {}
  OBVIOUS
<1> QED
  BY <1>1, <1>2 DEF Keys

LEMMA KeysOfField == ASSUME NEW k, NEW v PROVE Keys(Map(<<[key |-> k, value |-> v]>>)) = {k}
<1> DEFINE f == [key |-> k, value |-> v]
           s == <<f>>
<1>1. DOMAIN s = {1} /\ s[1] = f
  OBVIOUS
<1>2. f.key = k
  OBVIOUS
<1>3. Map(s).kind = "map" /\ Map(s).fields = s
  BY DEF Map
<1> HIDE DEF f, s
<1>4. Keys(Map(s)) = {s[i].key : i \in DOMAIN s}
  BY <1>3 DEF Keys
<1>5. Keys(Map(s)) = {k}
  BY <1>1, <1>2, <1>4
<1> QED
  BY <1>5 DEF f, s

LEMMA KeysOfJoin ==
    ASSUME NEW s, NEW t, Sequential(s), Sequential(t)
    PROVE  Keys(Map(s \o t)) = Keys(Map(s)) \cup Keys(Map(t))
<1>1. /\ Keys(Map(s)) = {s[i].key : i \in DOMAIN s}
      /\ Keys(Map(t)) = {t[i].key : i \in DOMAIN t}
      /\ Keys(Map(s \o t)) = {(s \o t)[i].key : i \in DOMAIN (s \o t)}
  BY DEF Keys, Map
<1> DEFINE j == s \o t
           m == Len(s)
           n == Len(t)
<1>2. /\ m \in Nat /\ n \in Nat /\ DOMAIN s = 1..m /\ DOMAIN t = 1..n /\ DOMAIN j = 1..(m + n)
      /\ (\A i \in 1..m : j[i] = s[i]) /\ \A i \in 1..n : j[m + i] = t[i]
  BY SequentialJoin
<1> HIDE DEF j, m, n
<1>3. ASSUME NEW i \in DOMAIN j PROVE j[i].key \in Keys(Map(s)) \cup Keys(Map(t))
  <2>1. CASE i <= m
    <3>1. i \in 1..m
      BY <1>2, <2>1
    <3> QED
      BY <1>1, <1>2, <3>1
  <2>2. CASE ~(i <= m)
    <3>1. i - m \in 1..n /\ m + (i - m) = i
      BY <1>2, <2>2
    <3>2. j[m + (i - m)] = t[i - m]
      BY <1>2, <3>1
    <3> QED
      BY <1>1, <1>2, <3>1, <3>2
  <2> QED
    BY <2>1, <2>2
<1>4. ASSUME NEW i \in DOMAIN s PROVE s[i].key \in Keys(Map(j))
  <2>1. i \in DOMAIN j /\ j[i] = s[i]
    BY <1>2
  <2> QED
    BY <1>1, <2>1 DEF j
<1>5. ASSUME NEW i \in DOMAIN t PROVE t[i].key \in Keys(Map(j))
  <2>1. m + i \in DOMAIN j /\ j[m + i] = t[i]
    BY <1>2
  <2> QED
    BY <1>1, <2>1 DEF j
<1> QED
  BY <1>1, <1>3, <1>4, <1>5 DEF j

LEMMA KeysOfThen ==
    ASSUME NEW b, NEW m, Running(b), Running(m), b.value.kind = m.value.kind
    PROVE  Keys(Then(b, m).value) = Keys(b.value) \cup Keys(m.value) /\ Then(b, m).value.kind = b.value.kind
<1>1. Then(b, m).value = IF b.value.kind = "list" THEN List(b.value.items \o m.value.items)
                                 ELSE Map(b.value.fields \o m.value.fields)
  BY ThenIs
<1>2. CASE b.value.kind = "list"
  <2>1. m.value.kind = "list"
    BY <1>2
  <2>2. Keys(b.value) = {} /\ Keys(m.value) = {}
    BY <1>2, <2>1 DEF Keys
  <2>3. Then(b, m).value = List(b.value.items \o m.value.items)
    BY <1>1, <1>2
  <2> QED
    BY <1>2, <2>2, <2>3, KeysOfList, Kinds
<1>3. CASE b.value.kind # "list"
  <2>1. ~Listed(b) /\ ~Listed(m)
    BY <1>3, Kinds, Zenon DEF Listed
  <2>2. PICK s : Sequential(s) /\ b.value = Map(s)
    BY <2>1 DEF Running, Mapped
  <2>3. PICK t : Sequential(t) /\ m.value = Map(t)
    BY <2>1 DEF Running, Mapped
  <2>4. b.value.fields = s /\ m.value.fields = t /\ b.value.kind = "map"
    BY <2>2, <2>3, Kinds
  <2>5. Then(b, m).value = Map(s \o t)
    BY <1>1, <1>3, <2>4
  <2> QED
    BY <2>2, <2>3, <2>4, <2>5, KeysOfJoin, Kinds
<1> QED
  BY <1>2, <1>3

LEMMA KeysOfOne ==
    ASSUME NEW t \in Texts, NEW v, Worded(v)
    PROVE  /\ Keys(Field(t, v).value) = {t} /\ Field(t, v).value.kind = "map"
           /\ Field(t, v).value.fields[1].key = t
<1> DEFINE f == [key |-> t, value |-> v.value]
           s == <<f>>
<1>1. Field(t, v).value = Map(s)
  BY FieldIs
<1>2. Keys(Map(s)) = {t}
  BY KeysOfField
<1>3. s[1] = f /\ f.key = t
  OBVIOUS
<1> HIDE DEF f, s
<1> QED
  BY <1>1, <1>2, <1>3, Kinds

LEMMA KeysOfItem ==
    ASSUME NEW v, Worded(v)
    PROVE  Keys(Item(v).value) = {} /\ Item(v).value.kind = "list"
<1>1. Item(v).value = List(<<v.value>>)
  BY ItemIs
<1> QED
  BY <1>1, KeysOfList, Kinds

\* A member joins a run whose names are other than its own.
LEMMA JoinsBy ==
    ASSUME NEW b, NEW m, One(m)
    PROVE  Joins(b, m) <=> b.value.kind = m.value.kind /\ Keys(b.value) \cap Keys(m.value) = {}
<1>1. CASE \E t \in Texts, v \in Values : m = Field(t, v)
  <2>1. PICK t \in Texts, v \in Values : m = Field(t, v)
    BY <1>1
  <2>2. Keys(m.value) = {t} /\ m.value.kind = "map" /\ m.value.fields[1].key = t
    BY <2>1, KeysOfOne, ValuesFine
  <2>3. Joins(b, m) <=> b.value.kind = m.value.kind /\ ~HasField(b.value, t)
    BY <2>2 DEF Joins
  <2> QED
    BY <2>2, <2>3, KeysHas
<1>2. CASE \E v \in Values : m = Item(v)
  <2>1. PICK v \in Values : m = Item(v)
    BY <1>2
  <2>2. Keys(m.value) = {} /\ m.value.kind = "list"
    BY <2>1, KeysOfItem, ValuesFine
  <2> QED
    BY <2>2 DEF Joins
<1> QED
  BY <1>1, <1>2 DEF One

\* A run taken from the left: its first member, and the rest.
Splits(p, m, r) ==
    /\ One(m) /\ r \in Groups /\ m.value.kind = p.value.kind /\ r.value.kind = p.value.kind
    /\ p.tokens = (m.tokens \o <<Mark("#CA")>>) \o r.tokens
    /\ Keys(m.value) \cup Keys(r.value) = Keys(p.value) /\ Keys(m.value) \cap Keys(r.value) = {}
    /\ m.depth <= p.depth /\ r.depth <= p.depth

\* Sequences of tokens, with nothing known of them but how they join.
Words == Seq(Tokens)

LEMMA Join == ASSUME NEW x \in Words, NEW y \in Words PROVE x \o y \in Words
BY ConcatProperties DEF Words

LEMMA Assoc ==
    ASSUME NEW x \in Words, NEW y \in Words, NEW z \in Words
    PROVE  (x \o y) \o z = x \o (y \o z)
BY ConcatAssociative DEF Words

Regroups(x, e, y, z) == (((x \o e) \o y) \o e) \o z = (x \o e) \o ((y \o e) \o z)

LEMMA Assoc4 ==
    ASSUME NEW x \in Words, NEW e \in Words, NEW y \in Words, NEW z \in Words
    PROVE  Regroups(x, e, y, z)
<1> DEFINE w == x \o e
<1>1. w \in Words
  BY Join
<1> HIDE DEF w
<1>2. (w \o y) \o e = w \o (y \o e) /\ y \o e \in Words
  BY <1>1, Assoc, Join
<1>3. (w \o (y \o e)) \o z = w \o ((y \o e) \o z)
  BY <1>1, <1>2, Assoc
<1> QED
  BY <1>2, <1>3 DEF w, Regroups

LEMMA SplitLonger ==
    ASSUME NEW p \in Groups, NEW b, NEW m, GroupMade(p, b, m), NEW f, NEW r, Splits(b, f, r)
    PROVE  Splits(p, f, Then(r, m))
<1>1. b \in Groups /\ r \in Groups /\ One(m) /\ One(f) /\ p = Then(b, m) /\ Joins(b, m)
  BY DEF GroupMade, Splits
<1>2. Running(b) /\ Running(r) /\ Running(m) /\ Running(f)
  BY <1>1, GroupsFine, OneIsSingle
<1>3. b.value.kind = m.value.kind /\ Keys(b.value) \cap Keys(m.value) = {}
  BY <1>1, JoinsBy
<1>4. /\ f.value.kind = b.value.kind /\ r.value.kind = b.value.kind
      /\ b.tokens = (f.tokens \o <<Mark("#CA")>>) \o r.tokens
      /\ Keys(f.value) \cup Keys(r.value) = Keys(b.value) /\ Keys(f.value) \cap Keys(r.value) = {}
      /\ f.depth <= b.depth /\ r.depth <= b.depth
  BY DEF Splits
<1>5. Joins(r, m)
  BY <1>1, <1>3, <1>4, JoinsBy
<1> DEFINE q == Then(r, m)
<1>6. /\ Running(q) /\ q.tokens = (r.tokens \o <<Mark("#CA")>>) \o m.tokens
      /\ Len(q.tokens) = Len(r.tokens) + 1 + Len(m.tokens)
      /\ q.depth = IF r.depth > m.depth THEN r.depth ELSE m.depth
  <2>1. r.value.kind = m.value.kind
    BY <1>3, <1>4
  <2> QED
    BY <1>2, <2>1, ThenIs
<1>7. /\ p.tokens = (b.tokens \o <<Mark("#CA")>>) \o m.tokens
      /\ Len(p.tokens) = Len(b.tokens) + 1 + Len(m.tokens)
      /\ p.depth = IF b.depth > m.depth THEN b.depth ELSE m.depth
  BY <1>1, <1>2, <1>3, ThenIs
<1>8. /\ f.tokens \in Seq(Tokens) /\ r.tokens \in Seq(Tokens) /\ m.tokens \in Seq(Tokens)
      /\ b.tokens \in Seq(Tokens) /\ Mark("#CA") \in Tokens
      /\ f.depth \in Nat /\ r.depth \in Nat /\ m.depth \in Nat /\ b.depth \in Nat
  BY <1>2, MarksAreTokens DEF Running, Worded
<1>9. p.tokens = (f.tokens \o <<Mark("#CA")>>) \o q.tokens
  <2> DEFINE x == f.tokens
             y == r.tokens
             z == m.tokens
             a == <<Mark("#CA")>>
  <2>1. x \in Words /\ y \in Words /\ z \in Words /\ a \in Words
    BY <1>8 DEF Words
  <2>2. /\ b.tokens = (x \o a) \o y
        /\ q.tokens = (y \o a) \o z
        /\ p.tokens = (b.tokens \o a) \o z
    BY <1>4, <1>6, <1>7
  <2> HIDE DEF x, y, z, a, q
  <2>3. (((x \o a) \o y) \o a) \o z = (x \o a) \o ((y \o a) \o z)
    <3>1. Regroups(x, a, y, z)
      BY <2>1, Assoc4
    <3> QED
      BY <3>1 DEF Regroups
  <2>4. p.tokens = (x \o a) \o q.tokens
    BY <2>2, <2>3
  <2> QED
    BY <2>4 DEF x, a
<1>10. f.depth <= p.depth /\ q.depth <= p.depth
  BY <1>4, <1>6, <1>7, <1>8
<1>11. Keys(q.value) = Keys(r.value) \cup Keys(m.value) /\ q.value.kind = r.value.kind
  BY <1>2, <1>3, <1>4, KeysOfThen
<1>12. Keys(p.value) = Keys(b.value) \cup Keys(m.value) /\ p.value.kind = b.value.kind
  BY <1>1, <1>2, <1>3, KeysOfThen
<1>13. Keys(f.value) \cup Keys(q.value) = Keys(p.value) /\ Keys(f.value) \cap Keys(q.value) = {}
  BY <1>3, <1>4, <1>11, <1>12
<1>14. q \in Groups
  <2>1. Len(q.tokens) <= Len(p.tokens)
    <3>1. Len(b.tokens) = Len(f.tokens) + 1 + Len(r.tokens)
      <4> DEFINE w == f.tokens \o <<Mark("#CA")>>
      <4>1. w \in Seq(Tokens) /\ Len(w) = Len(f.tokens) + 1
        <5>1. <<Mark("#CA")>> \in Seq(Tokens) /\ Len(<<Mark("#CA")>>) = 1
          BY <1>8
        <5> QED
          BY <1>8, <5>1, ConcatProperties
      <4> HIDE DEF w
      <4>2. Len(w \o r.tokens) = Len(w) + Len(r.tokens)
        BY <1>8, <4>1, ConcatProperties
      <4> QED
        BY <1>4, <4>1, <4>2 DEF w
    <3>2. Len(f.tokens) \in Nat /\ Len(r.tokens) \in Nat /\ Len(m.tokens) \in Nat
      BY <1>8
    <3> DEFINE x == Len(f.tokens)
               y == Len(r.tokens)
               z == Len(m.tokens)
    <3>3. Len(q.tokens) = y + 1 + z /\ Len(p.tokens) = (x + 1 + y) + 1 + z /\ x \in Nat /\ y \in Nat /\ z \in Nat
      BY <1>6, <1>7, <3>1, <3>2
    <3> HIDE DEF x, y, z
    <3> QED
      BY <3>3
  <2>2. Len(p.tokens) \in 1..MaxTokens /\ Len(q.tokens) \in Nat
    BY <1>6, GroupsFine DEF Running, Worded
  <2>3. Len(q.tokens) <= MaxTokens
    BY <2>1, <2>2, Whole
  <2> QED
    BY <1>1, <1>5, <2>3, ThenIsGroup
<1> HIDE DEF q
<1>15. Splits(p, f, q)
  BY <1>1, <1>4, <1>9, <1>10, <1>11, <1>12, <1>13, <1>14 DEF Splits
<1> QED
  BY <1>15 DEF q

LEMMA SplitFirst ==
    ASSUME NEW p \in Groups, NEW b, NEW m, GroupMade(p, b, m), One(b)
    PROVE  Splits(p, b, m)
<1>1. b \in Groups /\ One(m) /\ p = Then(b, m) /\ Joins(b, m)
  BY DEF GroupMade
<1>2. Running(b) /\ Running(m)
  BY <1>1, OneIsSingle
<1>3. b.value.kind = m.value.kind /\ Keys(b.value) \cap Keys(m.value) = {}
  BY <1>1, JoinsBy
<1>4. /\ p.tokens = (b.tokens \o <<Mark("#CA")>>) \o m.tokens
      /\ Len(p.tokens) = Len(b.tokens) + 1 + Len(m.tokens)
      /\ p.depth = IF b.depth > m.depth THEN b.depth ELSE m.depth
  BY <1>1, <1>2, <1>3, ThenIs
<1>5. m.depth \in Nat /\ b.depth \in Nat /\ Len(m.tokens) \in Nat /\ Len(b.tokens) \in Nat
  BY <1>2 DEF Running, Worded
<1>6. Keys(p.value) = Keys(b.value) \cup Keys(m.value) /\ p.value.kind = b.value.kind
  BY <1>1, <1>2, <1>3, KeysOfThen
<1>7. m \in Groups
  <2>1. Len(m.tokens) <= MaxTokens
    <3>1. Len(p.tokens) \in 1..MaxTokens
      BY GroupsFine
    <3> DEFINE x == Len(b.tokens)
               y == Len(m.tokens)
    <3>2. x \in Nat /\ y \in Nat /\ Len(p.tokens) = x + 1 + y
      BY <1>4, <1>5
    <3> HIDE DEF x, y
    <3>3. y <= MaxTokens
      BY <3>1, <3>2, Whole
    <3> QED
      BY <3>3 DEF y
  <2> QED
    BY <1>1, <2>1, OneIsSingle
<1>8. b.depth <= p.depth /\ m.depth <= p.depth
  BY <1>4, <1>5
<1> QED
  BY <1>1, <1>3, <1>4, <1>6, <1>7, <1>8 DEF Splits

LEMMA GroupSplits ==
    ASSUME NEW p \in Groups
    PROVE  One(p) \/ \E m, r : Splits(p, m, r)
<1> DEFINE Fine1(q) == One(q) \/ \E m, r : Splits(q, m, r)
           T == {k \in 0..MaxTokens : \A q \in Groups : Len(q.tokens) = k => Fine1(q)}
<1>1. ASSUME NEW k \in 0..MaxTokens, \A j \in 0..(k - 1) : j \in T PROVE k \in T
  <2> SUFFICES ASSUME NEW q \in Groups, Len(q.tokens) = k PROVE Fine1(q)
    OBVIOUS
  <2>1. CASE One(q)
    BY <2>1
  <2>2. CASE ~One(q)
    <3>1. PICK b, m : GroupMade(q, b, m)
      BY <2>2, GroupIs
    <3>2. b \in Groups /\ Len(b.tokens) < k
      BY <3>1 DEF GroupMade
    <3>3. Len(b.tokens) \in 0..(k - 1)
      BY <3>2, GroupsFine, Whole
    <3>4. Fine1(b)
      BY <1>1, <3>2, <3>3
    <3> QED
      BY <3>1, <3>4, SplitFirst, SplitLonger
  <2> QED
    BY <2>1, <2>2
<1>2. \A k \in 0..MaxTokens : k \in T
  <2> HIDE DEF T
  <2> QED
    BY <1>1, Whole, Upward
<1>3. Len(p.tokens) \in 0..MaxTokens
  BY GroupsFine, Whole
<1> QED
  BY <1>2, <1>3

-----------------------------------------------------------------------------
(* What each alternate takes.                                              *)

CB == Mark("#CB")
CA == Mark("#CA")
CL == Mark("#CL")
OB == Mark("#OB")
OS == Mark("#OS")
ZZ == Mark("#ZZ")
Named(text) == [type |-> "#TX", text |-> text]
Counted(text) == [type |-> "#NR", text |-> text]
IsName(t) == \E text \in Texts : t = Named(text)
IsScalar(t) == IsName(t) \/ \E text \in Contents : t = Counted(text)

LEMMA Types ==
    ASSUME NEW t \in Tokens
    PROVE  /\ t.type = "#CB" <=> t = CB
           /\ t.type = "#CA" <=> t = CA
           /\ t.type = "#CL" <=> t = CL
           /\ t.type = "#OB" <=> t = OB
           /\ t.type = "#OS" <=> t = OS
           /\ t.type = "#ZZ" <=> t = ZZ
           /\ t.type \in KEY <=> IsName(t)
           /\ t.type \in VAL <=> IsScalar(t)
<1>1. CASE \E y \in Marks : t = Mark(y)
  <2>1. PICK y \in Marks : t = Mark(y)
    BY <1>1
  <2>2. t.type = y
    BY <2>1 DEF Mark
  <2>3. ASSUME NEW z PROVE t.type = z <=> t = Mark(z)
    <3>1. Mark(z).type = z
      BY DEF Mark
    <3> QED
      BY <2>1, <2>2, <3>1
  <2>4. y # "#TX" /\ y # "#NR"
    BY DEF Marks
  <2>5. t.type \notin KEY /\ t.type \notin VAL
    BY <2>2, <2>4 DEF KEY, VAL
  <2>6. ~IsScalar(t) /\ ~IsName(t)
    BY <2>2, <2>4 DEF IsScalar, IsName, Named, Counted
  <2> QED
    BY <2>3, <2>5, <2>6 DEF CB, CA, CL, OB, OS, ZZ
<1>2. CASE IsName(t)
  <2>1. t.type = "#TX"
    BY <1>2 DEF IsName, Named
  <2>4. /\ t.type # "#CB" /\ t.type # "#CA" /\ t.type # "#CL" /\ t.type # "#OB"
        /\ t.type # "#OS" /\ t.type # "#ZZ"
    BY <2>1
  <2>5. ASSUME NEW z, t = Mark(z) PROVE t.type = z
    BY <2>5 DEF Mark
  <2>6. t.type \in VAL /\ (t.type \in KEY <=> IsName(t)) /\ IsScalar(t)
    BY <1>2, <2>1 DEF KEY, VAL, IsScalar
  <2> QED
    BY <2>4, <2>5, <2>6 DEF CB, CA, CL, OB, OS, ZZ
<1>3. CASE \E text \in Contents : t = Counted(text)
  <2>1. t.type = "#NR"
    BY <1>3 DEF Counted
  <2>2. ~IsName(t)
    BY <2>1 DEF IsName, Named
  <2>4. /\ t.type # "#CB" /\ t.type # "#CA" /\ t.type # "#CL" /\ t.type # "#OB"
        /\ t.type # "#OS" /\ t.type # "#ZZ"
    BY <2>1
  <2>5. ASSUME NEW z, t = Mark(z) PROVE t.type = z
    BY <2>5 DEF Mark
  <2>6. t.type \in VAL /\ (t.type \in KEY <=> IsName(t)) /\ IsScalar(t)
    BY <1>3, <2>1, <2>2 DEF KEY, VAL, IsScalar
  <2> QED
    BY <2>4, <2>5, <2>6 DEF CB, CA, CL, OB, OS, ZZ
<1>4. (\E y \in Marks : t = Mark(y)) \/ IsName(t) \/ \E text \in Contents : t = Counted(text)
  BY DEF Tokens, IsName, Named, Counted, Mark
<1> QED
  BY <1>1, <1>2, <1>3, <1>4

LEMMA TokensApart ==
    /\ CB # CA /\ CB # CL /\ CB # OB /\ CB # OS /\ CB # ZZ /\ CA # CL /\ CA # OB /\ CA # OS /\ CA # ZZ
    /\ CL # OB /\ CL # OS /\ CL # ZZ /\ OB # OS /\ OB # ZZ /\ OS # ZZ
    /\ CB \in Tokens /\ CA \in Tokens /\ CL \in Tokens /\ OB \in Tokens /\ OS \in Tokens /\ ZZ \in Tokens
    /\ ~IsScalar(CB) /\ ~IsScalar(CA) /\ ~IsScalar(CL) /\ ~IsScalar(OB) /\ ~IsScalar(OS) /\ ~IsScalar(ZZ)
    /\ \A text \in Texts : Named(text) \in Tokens
BY DEF Tokens, Marks, Mark, CB, CA, CL, OB, OS, ZZ, IsName, IsScalar, Named, Counted

LEMMA AltIs ==
    ASSUME NEW s, NEW b, NEW p, NEW r
    PROVE  /\ Alt(s, b, p, r).s = s /\ Alt(s, b, p, r).b = b /\ Alt(s, b, p, r).p = p
           /\ Alt(s, b, p, r).r = r /\ Alt(s, b, p, r).array = FALSE
           /\ Array(Alt(s, b, p, r)).s = s /\ Array(Alt(s, b, p, r)).b = b
           /\ Array(Alt(s, b, p, r)).p = p /\ Array(Alt(s, b, p, r)).r = r
           /\ Array(Alt(s, b, p, r)).array = TRUE
BY DEF Alt, Array

Lexed == ahead \in Seq(Tokens) /\ Len(ahead) \in 0..2

Starts(A) == Len(ahead) >= 1 /\ ahead[1].type \in A
StartsTwo(A, B) == Starts(A) /\ Len(ahead) >= 2 /\ ahead[2].type \in B

LEMMA MatchesAny == ASSUME Lexed, NEW alt, alt.s = <<>> PROVE Matches(alt)
BY DEF Lexed, Matches

LEMMA MatchesOne == ASSUME Lexed, NEW alt, NEW A, alt.s = <<A>> PROVE Matches(alt) <=> Starts(A)
<1>1. Len(alt.s) = 1 /\ DOMAIN alt.s = {1} /\ alt.s[1] = A
  OBVIOUS
<1> QED
  BY <1>1 DEF Lexed, Matches, Starts

LEMMA MatchesTwo == ASSUME Lexed, NEW alt, NEW A, NEW B, alt.s = <<A, B>> PROVE Matches(alt) <=> StartsTwo(A, B)
<1>1. Len(alt.s) = 2 /\ DOMAIN alt.s = {1, 2} /\ alt.s[1] = A /\ alt.s[2] = B
  OBVIOUS
<1> QED
  BY <1>1 DEF Lexed, Matches, Starts, StartsTwo

\* What an alternate does when it is the one taken.
Took(k, p, r, array) ==
    /\ Rest = SubSeq(ahead, k + 1, Len(ahead))
    /\ Taken.p = p /\ Taken.r = r /\ Taken.array = array

LEMMA TookAlt ==
    ASSUME NEW s, NEW b \in Nat, NEW p, NEW r, NEW k \in Nat, Len(s) = k + b
    PROVE  /\ Taken = Alt(s, b, p, r) => Took(k, p, r, FALSE)
           /\ Taken = Array(Alt(s, b, p, r)) => Took(k, p, r, TRUE)
<1>1. (k + b) - b + 1 = k + 1
  OBVIOUS
<1>2. ASSUME Taken.s = s, Taken.b = b PROVE Rest = SubSeq(ahead, k + 1, Len(ahead))
  BY <1>1, <1>2 DEF Rest
<1>3. ASSUME Taken = Alt(s, b, p, r) PROVE Took(k, p, r, FALSE)
  <2>1. Taken.s = s /\ Taken.b = b /\ Taken.p = p /\ Taken.r = r /\ Taken.array = FALSE
    BY <1>3 DEF Alt
  <2> QED
    BY <1>2, <2>1 DEF Took
<1>4. ASSUME Taken = Array(Alt(s, b, p, r)) PROVE Took(k, p, r, TRUE)
  <2>1. Taken.s = s /\ Taken.b = b /\ Taken.p = p /\ Taken.r = r /\ Taken.array = TRUE
    BY <1>4 DEF Alt, Array
  <2> QED
    BY <1>2, <2>1 DEF Took
<1> QED
  BY <1>3, <1>4

\* The alternates of a rule, at most three that differ, and the first that matches.
FirstOf(alts, n) ==
    /\ (Matching # {}) <=> \E i \in 1..n : Matches(alts[i])
    /\ Matching # {} => \E i \in 1..n : Taken = alts[i] /\ Matches(alts[i]) /\ \A j \in 1..(i - 1) : ~Matches(alts[j])

LEMMA FirstOne ==
    ASSUME NEW alts, NEW S, alts \in Seq(S), NEW n \in Nat, Len(alts) = n,
           alts = Alternates(Top.rule, Top.state)
    PROVE  FirstOf(alts, n)
<1>1. DOMAIN alts = 1..n
  OBVIOUS
<1>2. Matching = {i \in 1..n : Matches(alts[i])}
  BY <1>1 DEF Matching
<1>3. ASSUME Matching # {}
      PROVE \E i \in 1..n : Taken = alts[i] /\ Matches(alts[i]) /\ \A j \in 1..(i - 1) : ~Matches(alts[j])
  <2>1. PICK i \in DOMAIN alts : Taken = alts[i] /\ i \in Matching /\ \A j \in Matching : i <= j
    BY <1>3, FirstTaken
  <2>2. ASSUME NEW j \in 1..(i - 1) PROVE ~Matches(alts[j])
    <3>1. j \in 1..n /\ ~(i <= j)
      BY <1>1
    <3> QED
      BY <1>2, <2>1, <3>1
  <2> QED
    BY <1>1, <1>2, <2>1, <2>2
<1> QED
  BY <1>2, <1>3 DEF FirstOf

LEMMA ValOpenTakes ==
    ASSUME Lexed, Top.rule = "val", Top.state = "open"
    PROVE  /\ Starts({"#OB"}) \/ Starts({"#OS"}) \/ Starts(VAL) => Matching # {}
           /\ Matching # {} => \/ Starts({"#OB"}) /\ Took(0, "map", None, FALSE)
                               \/ Starts({"#OS"}) /\ Took(0, "list", None, FALSE)
                               \/ Starts(VAL) /\ Took(1, None, None, FALSE)
<1> DEFINE a1 == Alt(<<{"#OS"}, {"#CB"}>>, 2, "list", None)
           a2 == Alt(<<{"#OB"}>>, 1, "map", None)
           a3 == Alt(<<{"#OS"}>>, 1, "list", None)
           a4 == Alt(<<VAL>>, 0, None, None)
           all == Alternates("val", "open")
<1>1. all = <<a1>> \o <<a2, a3, a4>>
  BY DEF Alternates, Zon, Json, ValOpen
<1>m1. Matches(a1) <=> StartsTwo({"#OS"}, {"#CB"})
  <2>1. a1.s = <<{"#OS"}, {"#CB"}>>
    BY DEF Alt, Array
  <2> HIDE DEF a1
  <2> QED
    BY <2>1, MatchesTwo
<1>t1. Taken = a1 => Took(0, "list", None, FALSE)
  <2>1. Len(<<{"#OS"}, {"#CB"}>>) = 0 + 2
    OBVIOUS
  <2> QED
    BY <2>1, TookAlt
<1>m2. Matches(a2) <=> Starts({"#OB"})
  <2>1. a2.s = <<{"#OB"}>>
    BY DEF Alt, Array
  <2> HIDE DEF a2
  <2> QED
    BY <2>1, MatchesOne
<1>t2. Taken = a2 => Took(0, "map", None, FALSE)
  <2>1. Len(<<{"#OB"}>>) = 0 + 1
    OBVIOUS
  <2> QED
    BY <2>1, TookAlt
<1>m3. Matches(a3) <=> Starts({"#OS"})
  <2>1. a3.s = <<{"#OS"}>>
    BY DEF Alt, Array
  <2> HIDE DEF a3
  <2> QED
    BY <2>1, MatchesOne
<1>t3. Taken = a3 => Took(0, "list", None, FALSE)
  <2>1. Len(<<{"#OS"}>>) = 0 + 1
    OBVIOUS
  <2> QED
    BY <2>1, TookAlt
<1>m4. Matches(a4) <=> Starts(VAL)
  <2>1. a4.s = <<VAL>>
    BY DEF Alt, Array
  <2> HIDE DEF a4
  <2> QED
    BY <2>1, MatchesOne
<1>t4. Taken = a4 => Took(1, None, None, FALSE)
  <2>1. Len(<<VAL>>) = 1 + 0
    OBVIOUS
  <2> QED
    BY <2>1, TookAlt
<1> HIDE DEF a1, a2, a3, a4
<1>2. /\ all \in Seq({a1, a2, a3, a4}) /\ Len(all) = 4
      /\ all[1] = a1
      /\ all[2] = a2
      /\ all[3] = a3
      /\ all[4] = a4
  <2> DEFINE p == <<a1>>
             q == <<a2, a3, a4>>
             S == {a1, a2, a3, a4}
  <2>1. /\ p \in Seq(S) /\ Len(p) = 1 /\ p[1] = a1
        /\ q \in Seq(S) /\ Len(q) = 3 /\ q[1] = a2 /\ q[2] = a3 /\ q[3] = a4
    OBVIOUS
  <2>2. all = p \o q
    BY <1>1
  <2> HIDE DEF p, q, all, S
  <2>3. /\ all \in Seq(S) /\ Len(all) = Len(p) + Len(q)
        /\ \A i \in 1..(Len(p) + Len(q)) : all[i] = IF i <= Len(p) THEN p[i] ELSE q[i - Len(p)]
    BY <2>1, <2>2, ConcatProperties
  <2>4. Len(all) = 4 /\ \A i \in 1..4 : all[i] = IF i <= 1 THEN p[i] ELSE q[i - 1]
    BY <2>1, <2>3
  <2>i1. all[1] = a1
    BY <2>1, <2>4
  <2>i2. all[2] = a2
    BY <2>1, <2>4
  <2>i3. all[3] = a3
    BY <2>1, <2>4
  <2>i4. all[4] = a4
    BY <2>1, <2>4
  <2> QED
    BY <2>3, <2>4, <2>i1, <2>i2, <2>i3, <2>i4 DEF S
<1>3. FirstOf(all, 4)
  <2>1. all = Alternates(Top.rule, Top.state)
    OBVIOUS
  <2> HIDE DEF all
  <2> QED
    BY <1>2, <2>1, FirstOne
<1> HIDE DEF all
<1>4. Matching # {} <=> (Matches(a1) \/ Matches(a2) \/ Matches(a3) \/ Matches(a4))
  BY <1>2, <1>3 DEF FirstOf
<1>5. Matching # {} =>
          \/ Taken = a1 /\ Matches(a1)
          \/ Taken = a2 /\ Matches(a2) /\ ~Matches(a1)
          \/ Taken = a3 /\ Matches(a3) /\ ~Matches(a1) /\ ~Matches(a2)
          \/ Taken = a4 /\ Matches(a4) /\ ~Matches(a1) /\ ~Matches(a2) /\ ~Matches(a3)
  <2> SUFFICES ASSUME Matching # {}
               PROVE  \/ Taken = a1 /\ Matches(a1)
                      \/ Taken = a2 /\ Matches(a2) /\ ~Matches(a1)
                      \/ Taken = a3 /\ Matches(a3) /\ ~Matches(a1) /\ ~Matches(a2)
                      \/ Taken = a4 /\ Matches(a4) /\ ~Matches(a1) /\ ~Matches(a2) /\ ~Matches(a3)
    OBVIOUS
  <2>1. PICK i \in 1..4 : Taken = all[i] /\ Matches(all[i]) /\ \A j \in 1..(i - 1) : ~Matches(all[j])
    BY <1>3 DEF FirstOf
  <2>c1. CASE i = 1
    BY <1>2, <2>1, <2>c1
  <2>c2. CASE i = 2
    <3>1. 1 \in 1..(i - 1)
      BY <2>c2
    <3> QED
      BY <1>2, <2>1, <2>c2, <3>1
  <2>c3. CASE i = 3
    <3>1. 1 \in 1..(i - 1) /\ 2 \in 1..(i - 1)
      BY <2>c3
    <3> QED
      BY <1>2, <2>1, <2>c3, <3>1
  <2>c4. CASE i = 4
    <3>1. 1 \in 1..(i - 1) /\ 2 \in 1..(i - 1) /\ 3 \in 1..(i - 1)
      BY <2>c4
    <3> QED
      BY <1>2, <2>1, <2>c4, <3>1
  <2> QED
    BY <2>c1, <2>c2, <2>c3, <2>c4
<1> QED
  BY <1>4, <1>5, <1>m1, <1>t1, <1>m2, <1>t2, <1>m3, <1>t3, <1>m4, <1>t4 DEF StartsTwo

LEMMA MapOpenTakes ==
    ASSUME Lexed, Top.rule = "map", Top.state = "open"
    PROVE  /\ Starts({"#OB"}) => Matching # {}
           /\ Matching # {} => StartsTwo({"#OB"}, {"#CB"}) \/ (Starts({"#OB"}) /\ Took(1, "pair", None, FALSE))
<1> DEFINE a1 == Alt(<<{"#OB"}, {"#CB"}>>, 1, None, None)
           a2 == Alt(<<{"#OB"}>>, 0, "pair", None)
           all == Alternates("map", "open")
<1>1. all = <<>> \o <<a1, a2>>
  BY DEF Alternates, Zon, Json
<1>m1. Matches(a1) <=> StartsTwo({"#OB"}, {"#CB"})
  <2>1. a1.s = <<{"#OB"}, {"#CB"}>>
    BY DEF Alt, Array
  <2> HIDE DEF a1
  <2> QED
    BY <2>1, MatchesTwo
<1>t1. Taken = a1 => Took(1, None, None, FALSE)
  <2>1. Len(<<{"#OB"}, {"#CB"}>>) = 1 + 1
    OBVIOUS
  <2> QED
    BY <2>1, TookAlt
<1>m2. Matches(a2) <=> Starts({"#OB"})
  <2>1. a2.s = <<{"#OB"}>>
    BY DEF Alt, Array
  <2> HIDE DEF a2
  <2> QED
    BY <2>1, MatchesOne
<1>t2. Taken = a2 => Took(1, "pair", None, FALSE)
  <2>1. Len(<<{"#OB"}>>) = 1 + 0
    OBVIOUS
  <2> QED
    BY <2>1, TookAlt
<1> HIDE DEF a1, a2
<1>2. /\ all \in Seq({a1, a2}) /\ Len(all) = 2
      /\ all[1] = a1
      /\ all[2] = a2
  <2> DEFINE p == <<>>
             q == <<a1, a2>>
             S == {a1, a2}
  <2>1. /\ p \in Seq(S) /\ Len(p) = 0
        /\ q \in Seq(S) /\ Len(q) = 2 /\ q[1] = a1 /\ q[2] = a2
    OBVIOUS
  <2>2. all = p \o q
    BY <1>1
  <2> HIDE DEF p, q, all, S
  <2>3. /\ all \in Seq(S) /\ Len(all) = Len(p) + Len(q)
        /\ \A i \in 1..(Len(p) + Len(q)) : all[i] = IF i <= Len(p) THEN p[i] ELSE q[i - Len(p)]
    BY <2>1, <2>2, ConcatProperties
  <2>4. Len(all) = 2 /\ \A i \in 1..2 : all[i] = IF i <= 0 THEN p[i] ELSE q[i - 0]
    BY <2>1, <2>3
  <2>i1. all[1] = a1
    BY <2>1, <2>4
  <2>i2. all[2] = a2
    BY <2>1, <2>4
  <2> QED
    BY <2>3, <2>4, <2>i1, <2>i2 DEF S
<1>3. FirstOf(all, 2)
  <2>1. all = Alternates(Top.rule, Top.state)
    OBVIOUS
  <2> HIDE DEF all
  <2> QED
    BY <1>2, <2>1, FirstOne
<1> HIDE DEF all
<1>4. Matching # {} <=> (Matches(a1) \/ Matches(a2))
  BY <1>2, <1>3 DEF FirstOf
<1>5. Matching # {} =>
          \/ Taken = a1 /\ Matches(a1)
          \/ Taken = a2 /\ Matches(a2) /\ ~Matches(a1)
  <2> SUFFICES ASSUME Matching # {}
               PROVE  \/ Taken = a1 /\ Matches(a1)
                      \/ Taken = a2 /\ Matches(a2) /\ ~Matches(a1)
    OBVIOUS
  <2>1. PICK i \in 1..2 : Taken = all[i] /\ Matches(all[i]) /\ \A j \in 1..(i - 1) : ~Matches(all[j])
    BY <1>3 DEF FirstOf
  <2>c1. CASE i = 1
    BY <1>2, <2>1, <2>c1
  <2>c2. CASE i = 2
    <3>1. 1 \in 1..(i - 1)
      BY <2>c2
    <3> QED
      BY <1>2, <2>1, <2>c2, <3>1
  <2> QED
    BY <2>c1, <2>c2
<1> QED
  BY <1>4, <1>5, <1>m1, <1>t1, <1>m2, <1>t2 DEF StartsTwo

LEMMA ListOpenTakes ==
    ASSUME Lexed, Top.rule = "list", Top.state = "open"
    PROVE  /\ Starts({"#OS"}) => Matching # {}
           /\ Matching # {} =>
                 \/ StartsTwo({"#OS"}, {"#CB"}) /\ Took(1, None, None, TRUE)
                 \/ Starts({"#OS"}) /\ ~StartsTwo({"#OS"}, {"#CB"}) /\ Took(1, "elem", None, TRUE)
<1> DEFINE a1 == Array(Alt(<<{"#OS"}, {"#CB"}>>, 1, None, None))
           a2 == Array(Alt(<<{"#OS"}>>, 0, "elem", None))
           a3 == Alt(<<{"#OS"}>>, 0, "elem", None)
           all == Alternates("list", "open")
<1>1. all = <<a1, a2>> \o <<a3>>
  BY DEF Alternates, Zon, Json, ListOpen
<1>m1. Matches(a1) <=> StartsTwo({"#OS"}, {"#CB"})
  <2>1. a1.s = <<{"#OS"}, {"#CB"}>>
    BY DEF Alt, Array
  <2> HIDE DEF a1
  <2> QED
    BY <2>1, MatchesTwo
<1>t1. Taken = a1 => Took(1, None, None, TRUE)
  <2>1. Len(<<{"#OS"}, {"#CB"}>>) = 1 + 1
    OBVIOUS
  <2> QED
    BY <2>1, TookAlt
<1>m2. Matches(a2) <=> Starts({"#OS"})
  <2>1. a2.s = <<{"#OS"}>>
    BY DEF Alt, Array
  <2> HIDE DEF a2
  <2> QED
    BY <2>1, MatchesOne
<1>t2. Taken = a2 => Took(1, "elem", None, TRUE)
  <2>1. Len(<<{"#OS"}>>) = 1 + 0
    OBVIOUS
  <2> QED
    BY <2>1, TookAlt
<1>m3. Matches(a3) <=> Starts({"#OS"})
  <2>1. a3.s = <<{"#OS"}>>
    BY DEF Alt, Array
  <2> HIDE DEF a3
  <2> QED
    BY <2>1, MatchesOne
<1>t3. Taken = a3 => Took(1, "elem", None, FALSE)
  <2>1. Len(<<{"#OS"}>>) = 1 + 0
    OBVIOUS
  <2> QED
    BY <2>1, TookAlt
<1> HIDE DEF a1, a2, a3
<1>2. /\ all \in Seq({a1, a2, a3}) /\ Len(all) = 3
      /\ all[1] = a1
      /\ all[2] = a2
      /\ all[3] = a3
  <2> DEFINE p == <<a1, a2>>
             q == <<a3>>
             S == {a1, a2, a3}
  <2>1. /\ p \in Seq(S) /\ Len(p) = 2 /\ p[1] = a1 /\ p[2] = a2
        /\ q \in Seq(S) /\ Len(q) = 1 /\ q[1] = a3
    OBVIOUS
  <2>2. all = p \o q
    BY <1>1
  <2> HIDE DEF p, q, all, S
  <2>3. /\ all \in Seq(S) /\ Len(all) = Len(p) + Len(q)
        /\ \A i \in 1..(Len(p) + Len(q)) : all[i] = IF i <= Len(p) THEN p[i] ELSE q[i - Len(p)]
    BY <2>1, <2>2, ConcatProperties
  <2>4. Len(all) = 3 /\ \A i \in 1..3 : all[i] = IF i <= 2 THEN p[i] ELSE q[i - 2]
    BY <2>1, <2>3
  <2>i1. all[1] = a1
    BY <2>1, <2>4
  <2>i2. all[2] = a2
    BY <2>1, <2>4
  <2>i3. all[3] = a3
    BY <2>1, <2>4
  <2> QED
    BY <2>3, <2>4, <2>i1, <2>i2, <2>i3 DEF S
<1>3. FirstOf(all, 3)
  <2>1. all = Alternates(Top.rule, Top.state)
    OBVIOUS
  <2> HIDE DEF all
  <2> QED
    BY <1>2, <2>1, FirstOne
<1> HIDE DEF all
<1>4. Matching # {} <=> (Matches(a1) \/ Matches(a2) \/ Matches(a3))
  BY <1>2, <1>3 DEF FirstOf
<1>5. Matching # {} =>
          \/ Taken = a1 /\ Matches(a1)
          \/ Taken = a2 /\ Matches(a2) /\ ~Matches(a1)
          \/ Taken = a3 /\ Matches(a3) /\ ~Matches(a1) /\ ~Matches(a2)
  <2> SUFFICES ASSUME Matching # {}
               PROVE  \/ Taken = a1 /\ Matches(a1)
                      \/ Taken = a2 /\ Matches(a2) /\ ~Matches(a1)
                      \/ Taken = a3 /\ Matches(a3) /\ ~Matches(a1) /\ ~Matches(a2)
    OBVIOUS
  <2>1. PICK i \in 1..3 : Taken = all[i] /\ Matches(all[i]) /\ \A j \in 1..(i - 1) : ~Matches(all[j])
    BY <1>3 DEF FirstOf
  <2>c1. CASE i = 1
    BY <1>2, <2>1, <2>c1
  <2>c2. CASE i = 2
    <3>1. 1 \in 1..(i - 1)
      BY <2>c2
    <3> QED
      BY <1>2, <2>1, <2>c2, <3>1
  <2>c3. CASE i = 3
    <3>1. 1 \in 1..(i - 1) /\ 2 \in 1..(i - 1)
      BY <2>c3
    <3> QED
      BY <1>2, <2>1, <2>c3, <3>1
  <2> QED
    BY <2>c1, <2>c2, <2>c3
<1> QED
  BY <1>4, <1>5, <1>m1, <1>t1, <1>m2, <1>t2, <1>m3, <1>t3 DEF StartsTwo

LEMMA PairOpenTakes ==
    ASSUME Lexed, Top.rule = "pair", Top.state = "open"
    PROVE  /\ StartsTwo(KEY, {"#CL"}) => Matching # {}
           /\ Matching # {} => StartsTwo(KEY, {"#CL"}) /\ Took(2, "val", None, FALSE)
<1> DEFINE a1 == Alt(<<KEY, {"#CL"}>>, 0, "val", None)
           all == Alternates("pair", "open")
<1>1. all = <<>> \o <<a1>>
  BY DEF Alternates, Zon, Json
<1>m1. Matches(a1) <=> StartsTwo(KEY, {"#CL"})
  <2>1. a1.s = <<KEY, {"#CL"}>>
    BY DEF Alt, Array
  <2> HIDE DEF a1
  <2> QED
    BY <2>1, MatchesTwo
<1>t1. Taken = a1 => Took(2, "val", None, FALSE)
  <2>1. Len(<<KEY, {"#CL"}>>) = 2 + 0
    OBVIOUS
  <2> QED
    BY <2>1, TookAlt
<1> HIDE DEF a1
<1>2. /\ all \in Seq({a1}) /\ Len(all) = 1
      /\ all[1] = a1
  <2> DEFINE p == <<>>
             q == <<a1>>
             S == {a1}
  <2>1. /\ p \in Seq(S) /\ Len(p) = 0
        /\ q \in Seq(S) /\ Len(q) = 1 /\ q[1] = a1
    OBVIOUS
  <2>2. all = p \o q
    BY <1>1
  <2> HIDE DEF p, q, all, S
  <2>3. /\ all \in Seq(S) /\ Len(all) = Len(p) + Len(q)
        /\ \A i \in 1..(Len(p) + Len(q)) : all[i] = IF i <= Len(p) THEN p[i] ELSE q[i - Len(p)]
    BY <2>1, <2>2, ConcatProperties
  <2>4. Len(all) = 1 /\ \A i \in 1..1 : all[i] = IF i <= 0 THEN p[i] ELSE q[i - 0]
    BY <2>1, <2>3
  <2>i1. all[1] = a1
    BY <2>1, <2>4
  <2> QED
    BY <2>3, <2>4, <2>i1 DEF S
<1>3. FirstOf(all, 1)
  <2>1. all = Alternates(Top.rule, Top.state)
    OBVIOUS
  <2> HIDE DEF all
  <2> QED
    BY <1>2, <2>1, FirstOne
<1> HIDE DEF all
<1>4. Matching # {} <=> (Matches(a1))
  BY <1>2, <1>3 DEF FirstOf
<1>5. Matching # {} =>
          \/ Taken = a1 /\ Matches(a1)
  BY <1>2, <1>3 DEF FirstOf
<1> QED
  BY <1>4, <1>5, <1>m1, <1>t1 DEF StartsTwo

LEMMA ElemOpenTakes ==
    ASSUME Lexed, Top.rule = "elem", Top.state = "open"
    PROVE  Matching # {} /\ Took(0, "val", None, FALSE)
<1> DEFINE a1 == Alt(<<>>, 0, "val", None)
           all == Alternates("elem", "open")
<1>1. all = <<>> \o <<a1>>
  BY DEF Alternates, Zon, Json
<1>m1. Matches(a1)
  <2>1. a1.s = <<>>
    BY DEF Alt, Array
  <2> HIDE DEF a1
  <2> QED
    BY <2>1, MatchesAny
<1>t1. Taken = a1 => Took(0, "val", None, FALSE)
  <2>1. Len(<<>>) = 0 + 0
    OBVIOUS
  <2> QED
    BY <2>1, TookAlt
<1> HIDE DEF a1
<1>2. /\ all \in Seq({a1}) /\ Len(all) = 1
      /\ all[1] = a1
  <2> DEFINE p == <<>>
             q == <<a1>>
             S == {a1}
  <2>1. /\ p \in Seq(S) /\ Len(p) = 0
        /\ q \in Seq(S) /\ Len(q) = 1 /\ q[1] = a1
    OBVIOUS
  <2>2. all = p \o q
    BY <1>1
  <2> HIDE DEF p, q, all, S
  <2>3. /\ all \in Seq(S) /\ Len(all) = Len(p) + Len(q)
        /\ \A i \in 1..(Len(p) + Len(q)) : all[i] = IF i <= Len(p) THEN p[i] ELSE q[i - Len(p)]
    BY <2>1, <2>2, ConcatProperties
  <2>4. Len(all) = 1 /\ \A i \in 1..1 : all[i] = IF i <= 0 THEN p[i] ELSE q[i - 0]
    BY <2>1, <2>3
  <2>i1. all[1] = a1
    BY <2>1, <2>4
  <2> QED
    BY <2>3, <2>4, <2>i1 DEF S
<1>3. FirstOf(all, 1)
  <2>1. all = Alternates(Top.rule, Top.state)
    OBVIOUS
  <2> HIDE DEF all
  <2> QED
    BY <1>2, <2>1, FirstOne
<1> HIDE DEF all
<1>4. Matching # {} <=> (Matches(a1))
  BY <1>2, <1>3 DEF FirstOf
<1>5. Matching # {} =>
          \/ Taken = a1 /\ Matches(a1)
  BY <1>2, <1>3 DEF FirstOf
<1> QED
  BY <1>4, <1>5, <1>m1, <1>t1

LEMMA ValCloseTakes ==
    ASSUME Lexed, Top.rule = "val", Top.state = "close"
    PROVE  Matching # {} /\ Took(0, None, None, FALSE)
<1> DEFINE a1 == Alt(<<>>, 0, None, None)
           all == Alternates("val", "close")
<1>1. all = <<>> \o <<a1>>
  BY DEF Alternates, Zon, Json
<1>m1. Matches(a1)
  <2>1. a1.s = <<>>
    BY DEF Alt, Array
  <2> HIDE DEF a1
  <2> QED
    BY <2>1, MatchesAny
<1>t1. Taken = a1 => Took(0, None, None, FALSE)
  <2>1. Len(<<>>) = 0 + 0
    OBVIOUS
  <2> QED
    BY <2>1, TookAlt
<1> HIDE DEF a1
<1>2. /\ all \in Seq({a1}) /\ Len(all) = 1
      /\ all[1] = a1
  <2> DEFINE p == <<>>
             q == <<a1>>
             S == {a1}
  <2>1. /\ p \in Seq(S) /\ Len(p) = 0
        /\ q \in Seq(S) /\ Len(q) = 1 /\ q[1] = a1
    OBVIOUS
  <2>2. all = p \o q
    BY <1>1
  <2> HIDE DEF p, q, all, S
  <2>3. /\ all \in Seq(S) /\ Len(all) = Len(p) + Len(q)
        /\ \A i \in 1..(Len(p) + Len(q)) : all[i] = IF i <= Len(p) THEN p[i] ELSE q[i - Len(p)]
    BY <2>1, <2>2, ConcatProperties
  <2>4. Len(all) = 1 /\ \A i \in 1..1 : all[i] = IF i <= 0 THEN p[i] ELSE q[i - 0]
    BY <2>1, <2>3
  <2>i1. all[1] = a1
    BY <2>1, <2>4
  <2> QED
    BY <2>3, <2>4, <2>i1 DEF S
<1>3. FirstOf(all, 1)
  <2>1. all = Alternates(Top.rule, Top.state)
    OBVIOUS
  <2> HIDE DEF all
  <2> QED
    BY <1>2, <2>1, FirstOne
<1> HIDE DEF all
<1>4. Matching # {} <=> (Matches(a1))
  BY <1>2, <1>3 DEF FirstOf
<1>5. Matching # {} =>
          \/ Taken = a1 /\ Matches(a1)
  BY <1>2, <1>3 DEF FirstOf
<1> QED
  BY <1>4, <1>5, <1>m1, <1>t1

LEMMA MapCloseTakes ==
    ASSUME Lexed, Top.rule = "map", Top.state = "close"
    PROVE  /\ Starts({"#CB"}) => Matching # {}
           /\ Matching # {} => Starts({"#CB"}) /\ Took(1, None, None, FALSE)
<1> DEFINE a1 == Alt(<<{"#CB"}>>, 0, None, None)
           all == Alternates("map", "close")
<1>1. all = <<>> \o <<a1>>
  BY DEF Alternates, Zon, Json
<1>m1. Matches(a1) <=> Starts({"#CB"})
  <2>1. a1.s = <<{"#CB"}>>
    BY DEF Alt, Array
  <2> HIDE DEF a1
  <2> QED
    BY <2>1, MatchesOne
<1>t1. Taken = a1 => Took(1, None, None, FALSE)
  <2>1. Len(<<{"#CB"}>>) = 1 + 0
    OBVIOUS
  <2> QED
    BY <2>1, TookAlt
<1> HIDE DEF a1
<1>2. /\ all \in Seq({a1}) /\ Len(all) = 1
      /\ all[1] = a1
  <2> DEFINE p == <<>>
             q == <<a1>>
             S == {a1}
  <2>1. /\ p \in Seq(S) /\ Len(p) = 0
        /\ q \in Seq(S) /\ Len(q) = 1 /\ q[1] = a1
    OBVIOUS
  <2>2. all = p \o q
    BY <1>1
  <2> HIDE DEF p, q, all, S
  <2>3. /\ all \in Seq(S) /\ Len(all) = Len(p) + Len(q)
        /\ \A i \in 1..(Len(p) + Len(q)) : all[i] = IF i <= Len(p) THEN p[i] ELSE q[i - Len(p)]
    BY <2>1, <2>2, ConcatProperties
  <2>4. Len(all) = 1 /\ \A i \in 1..1 : all[i] = IF i <= 0 THEN p[i] ELSE q[i - 0]
    BY <2>1, <2>3
  <2>i1. all[1] = a1
    BY <2>1, <2>4
  <2> QED
    BY <2>3, <2>4, <2>i1 DEF S
<1>3. FirstOf(all, 1)
  <2>1. all = Alternates(Top.rule, Top.state)
    OBVIOUS
  <2> HIDE DEF all
  <2> QED
    BY <1>2, <2>1, FirstOne
<1> HIDE DEF all
<1>4. Matching # {} <=> (Matches(a1))
  BY <1>2, <1>3 DEF FirstOf
<1>5. Matching # {} =>
          \/ Taken = a1 /\ Matches(a1)
  BY <1>2, <1>3 DEF FirstOf
<1> QED
  BY <1>4, <1>5, <1>m1, <1>t1

LEMMA ListCloseTakes ==
    ASSUME Lexed, Top.rule = "list", Top.state = "close"
    PROVE  /\ Starts({"#CB"}) => Matching # {}
           /\ Matching # {} => Starts({"#CB"}) /\ Took(1, None, None, FALSE)
<1> DEFINE a1 == Alt(<<{"#CB"}>>, 0, None, None)
           all == Alternates("list", "close")
<1>1. all = <<a1>> \o <<>>
  BY DEF Alternates, Zon, Json, ListClose
<1>m1. Matches(a1) <=> Starts({"#CB"})
  <2>1. a1.s = <<{"#CB"}>>
    BY DEF Alt, Array
  <2> HIDE DEF a1
  <2> QED
    BY <2>1, MatchesOne
<1>t1. Taken = a1 => Took(1, None, None, FALSE)
  <2>1. Len(<<{"#CB"}>>) = 1 + 0
    OBVIOUS
  <2> QED
    BY <2>1, TookAlt
<1> HIDE DEF a1
<1>2. /\ all \in Seq({a1}) /\ Len(all) = 1
      /\ all[1] = a1
  <2> DEFINE p == <<a1>>
             q == <<>>
             S == {a1}
  <2>1. /\ p \in Seq(S) /\ Len(p) = 1 /\ p[1] = a1
        /\ q \in Seq(S) /\ Len(q) = 0
    OBVIOUS
  <2>2. all = p \o q
    BY <1>1
  <2> HIDE DEF p, q, all, S
  <2>3. /\ all \in Seq(S) /\ Len(all) = Len(p) + Len(q)
        /\ \A i \in 1..(Len(p) + Len(q)) : all[i] = IF i <= Len(p) THEN p[i] ELSE q[i - Len(p)]
    BY <2>1, <2>2, ConcatProperties
  <2>4. Len(all) = 1 /\ \A i \in 1..1 : all[i] = IF i <= 1 THEN p[i] ELSE q[i - 1]
    BY <2>1, <2>3
  <2>i1. all[1] = a1
    BY <2>1, <2>4
  <2> QED
    BY <2>3, <2>4, <2>i1 DEF S
<1>3. FirstOf(all, 1)
  <2>1. all = Alternates(Top.rule, Top.state)
    OBVIOUS
  <2> HIDE DEF all
  <2> QED
    BY <1>2, <2>1, FirstOne
<1> HIDE DEF all
<1>4. Matching # {} <=> (Matches(a1))
  BY <1>2, <1>3 DEF FirstOf
<1>5. Matching # {} =>
          \/ Taken = a1 /\ Matches(a1)
  BY <1>2, <1>3 DEF FirstOf
<1> QED
  BY <1>4, <1>5, <1>m1, <1>t1

LEMMA PairCloseTakes ==
    ASSUME Lexed, Top.rule = "pair", Top.state = "close"
    PROVE  /\ Starts({"#CA"}) \/ Starts({"#CB"}) => Matching # {}
           /\ Matching # {} =>
                 \/ StartsTwo({"#CA"}, {"#CB"}) /\ Took(1, None, None, FALSE)
                 \/ Starts({"#CA"}) /\ ~StartsTwo({"#CA"}, {"#CB"}) /\ Took(1, None, "pair", FALSE)
                 \/ Starts({"#CB"}) /\ Took(0, None, None, FALSE)
<1> DEFINE a1 == Alt(<<{"#CA"}, {"#CB"}>>, 1, None, None)
           a2 == Alt(<<{"#CA"}>>, 0, None, "pair")
           a3 == Alt(<<{"#CB"}>>, 1, None, None)
           all == Alternates("pair", "close")
<1>1. all = <<a1, a2, a3>> \o <<a2, a3>>
  BY DEF Alternates, Zon, Json, MemberClose
<1>m1. Matches(a1) <=> StartsTwo({"#CA"}, {"#CB"})
  <2>1. a1.s = <<{"#CA"}, {"#CB"}>>
    BY DEF Alt, Array
  <2> HIDE DEF a1
  <2> QED
    BY <2>1, MatchesTwo
<1>t1. Taken = a1 => Took(1, None, None, FALSE)
  <2>1. Len(<<{"#CA"}, {"#CB"}>>) = 1 + 1
    OBVIOUS
  <2> QED
    BY <2>1, TookAlt
<1>m2. Matches(a2) <=> Starts({"#CA"})
  <2>1. a2.s = <<{"#CA"}>>
    BY DEF Alt, Array
  <2> HIDE DEF a2
  <2> QED
    BY <2>1, MatchesOne
<1>t2. Taken = a2 => Took(1, None, "pair", FALSE)
  <2>1. Len(<<{"#CA"}>>) = 1 + 0
    OBVIOUS
  <2> QED
    BY <2>1, TookAlt
<1>m3. Matches(a3) <=> Starts({"#CB"})
  <2>1. a3.s = <<{"#CB"}>>
    BY DEF Alt, Array
  <2> HIDE DEF a3
  <2> QED
    BY <2>1, MatchesOne
<1>t3. Taken = a3 => Took(0, None, None, FALSE)
  <2>1. Len(<<{"#CB"}>>) = 0 + 1
    OBVIOUS
  <2> QED
    BY <2>1, TookAlt
<1> HIDE DEF a1, a2, a3
<1>2. /\ all \in Seq({a1, a2, a3}) /\ Len(all) = 5
      /\ all[1] = a1
      /\ all[2] = a2
      /\ all[3] = a3
      /\ all[4] = a2
      /\ all[5] = a3
  <2> DEFINE p == <<a1, a2, a3>>
             q == <<a2, a3>>
             S == {a1, a2, a3}
  <2>1. /\ p \in Seq(S) /\ Len(p) = 3 /\ p[1] = a1 /\ p[2] = a2 /\ p[3] = a3
        /\ q \in Seq(S) /\ Len(q) = 2 /\ q[1] = a2 /\ q[2] = a3
    OBVIOUS
  <2>2. all = p \o q
    BY <1>1
  <2> HIDE DEF p, q, all, S
  <2>3. /\ all \in Seq(S) /\ Len(all) = Len(p) + Len(q)
        /\ \A i \in 1..(Len(p) + Len(q)) : all[i] = IF i <= Len(p) THEN p[i] ELSE q[i - Len(p)]
    BY <2>1, <2>2, ConcatProperties
  <2>4. Len(all) = 5 /\ \A i \in 1..5 : all[i] = IF i <= 3 THEN p[i] ELSE q[i - 3]
    BY <2>1, <2>3
  <2>i1. all[1] = a1
    BY <2>1, <2>4
  <2>i2. all[2] = a2
    BY <2>1, <2>4
  <2>i3. all[3] = a3
    BY <2>1, <2>4
  <2>i4. all[4] = a2
    BY <2>1, <2>4
  <2>i5. all[5] = a3
    BY <2>1, <2>4
  <2> QED
    BY <2>3, <2>4, <2>i1, <2>i2, <2>i3, <2>i4, <2>i5 DEF S
<1>3. FirstOf(all, 5)
  <2>1. all = Alternates(Top.rule, Top.state)
    OBVIOUS
  <2> HIDE DEF all
  <2> QED
    BY <1>2, <2>1, FirstOne
<1> HIDE DEF all
<1>4. Matching # {} <=> (Matches(a1) \/ Matches(a2) \/ Matches(a3))
  BY <1>2, <1>3 DEF FirstOf
<1>5. Matching # {} =>
          \/ Taken = a1 /\ Matches(a1)
          \/ Taken = a2 /\ Matches(a2) /\ ~Matches(a1)
          \/ Taken = a3 /\ Matches(a3) /\ ~Matches(a1) /\ ~Matches(a2)
  <2> SUFFICES ASSUME Matching # {}
               PROVE  \/ Taken = a1 /\ Matches(a1)
                      \/ Taken = a2 /\ Matches(a2) /\ ~Matches(a1)
                      \/ Taken = a3 /\ Matches(a3) /\ ~Matches(a1) /\ ~Matches(a2)
    OBVIOUS
  <2>1. PICK i \in 1..5 : Taken = all[i] /\ Matches(all[i]) /\ \A j \in 1..(i - 1) : ~Matches(all[j])
    BY <1>3 DEF FirstOf
  <2>c1. CASE i = 1
    BY <1>2, <2>1, <2>c1
  <2>c2. CASE i = 2
    <3>1. 1 \in 1..(i - 1)
      BY <2>c2
    <3> QED
      BY <1>2, <2>1, <2>c2, <3>1
  <2>c3. CASE i = 3
    <3>1. 1 \in 1..(i - 1) /\ 2 \in 1..(i - 1)
      BY <2>c3
    <3> QED
      BY <1>2, <2>1, <2>c3, <3>1
  <2>c4. CASE i = 4
    <3>1. 1 \in 1..(i - 1) /\ 2 \in 1..(i - 1) /\ 3 \in 1..(i - 1)
      BY <2>c4
    <3> QED
      BY <1>2, <2>1, <2>c4, <3>1
  <2>c5. CASE i = 5
    <3>1. 1 \in 1..(i - 1) /\ 2 \in 1..(i - 1) /\ 3 \in 1..(i - 1) /\ 4 \in 1..(i - 1)
      BY <2>c5
    <3> QED
      BY <1>2, <2>1, <2>c5, <3>1
  <2> QED
    BY <2>c1, <2>c2, <2>c3, <2>c4, <2>c5
<1> QED
  BY <1>4, <1>5, <1>m1, <1>t1, <1>m2, <1>t2, <1>m3, <1>t3 DEF StartsTwo

LEMMA ElemCloseTakes ==
    ASSUME Lexed, Top.rule = "elem", Top.state = "close"
    PROVE  /\ Starts({"#CA"}) \/ Starts({"#CB"}) => Matching # {}
           /\ Matching # {} =>
                 \/ StartsTwo({"#CA"}, {"#CB"}) /\ Took(1, None, None, FALSE)
                 \/ Starts({"#CA"}) /\ ~StartsTwo({"#CA"}, {"#CB"}) /\ Took(1, None, "elem", FALSE)
                 \/ Starts({"#CB"}) /\ Took(0, None, None, FALSE)
<1> DEFINE a1 == Alt(<<{"#CA"}, {"#CB"}>>, 1, None, None)
           a2 == Alt(<<{"#CA"}>>, 0, None, "elem")
           a3 == Alt(<<{"#CB"}>>, 1, None, None)
           all == Alternates("elem", "close")
<1>1. all = <<a1, a2, a3>> \o <<a2>>
  BY DEF Alternates, Zon, Json, MemberClose
<1>m1. Matches(a1) <=> StartsTwo({"#CA"}, {"#CB"})
  <2>1. a1.s = <<{"#CA"}, {"#CB"}>>
    BY DEF Alt, Array
  <2> HIDE DEF a1
  <2> QED
    BY <2>1, MatchesTwo
<1>t1. Taken = a1 => Took(1, None, None, FALSE)
  <2>1. Len(<<{"#CA"}, {"#CB"}>>) = 1 + 1
    OBVIOUS
  <2> QED
    BY <2>1, TookAlt
<1>m2. Matches(a2) <=> Starts({"#CA"})
  <2>1. a2.s = <<{"#CA"}>>
    BY DEF Alt, Array
  <2> HIDE DEF a2
  <2> QED
    BY <2>1, MatchesOne
<1>t2. Taken = a2 => Took(1, None, "elem", FALSE)
  <2>1. Len(<<{"#CA"}>>) = 1 + 0
    OBVIOUS
  <2> QED
    BY <2>1, TookAlt
<1>m3. Matches(a3) <=> Starts({"#CB"})
  <2>1. a3.s = <<{"#CB"}>>
    BY DEF Alt, Array
  <2> HIDE DEF a3
  <2> QED
    BY <2>1, MatchesOne
<1>t3. Taken = a3 => Took(0, None, None, FALSE)
  <2>1. Len(<<{"#CB"}>>) = 0 + 1
    OBVIOUS
  <2> QED
    BY <2>1, TookAlt
<1> HIDE DEF a1, a2, a3
<1>2. /\ all \in Seq({a1, a2, a3}) /\ Len(all) = 4
      /\ all[1] = a1
      /\ all[2] = a2
      /\ all[3] = a3
      /\ all[4] = a2
  <2> DEFINE p == <<a1, a2, a3>>
             q == <<a2>>
             S == {a1, a2, a3}
  <2>1. /\ p \in Seq(S) /\ Len(p) = 3 /\ p[1] = a1 /\ p[2] = a2 /\ p[3] = a3
        /\ q \in Seq(S) /\ Len(q) = 1 /\ q[1] = a2
    OBVIOUS
  <2>2. all = p \o q
    BY <1>1
  <2> HIDE DEF p, q, all, S
  <2>3. /\ all \in Seq(S) /\ Len(all) = Len(p) + Len(q)
        /\ \A i \in 1..(Len(p) + Len(q)) : all[i] = IF i <= Len(p) THEN p[i] ELSE q[i - Len(p)]
    BY <2>1, <2>2, ConcatProperties
  <2>4. Len(all) = 4 /\ \A i \in 1..4 : all[i] = IF i <= 3 THEN p[i] ELSE q[i - 3]
    BY <2>1, <2>3
  <2>i1. all[1] = a1
    BY <2>1, <2>4
  <2>i2. all[2] = a2
    BY <2>1, <2>4
  <2>i3. all[3] = a3
    BY <2>1, <2>4
  <2>i4. all[4] = a2
    BY <2>1, <2>4
  <2> QED
    BY <2>3, <2>4, <2>i1, <2>i2, <2>i3, <2>i4 DEF S
<1>3. FirstOf(all, 4)
  <2>1. all = Alternates(Top.rule, Top.state)
    OBVIOUS
  <2> HIDE DEF all
  <2> QED
    BY <1>2, <2>1, FirstOne
<1> HIDE DEF all
<1>4. Matching # {} <=> (Matches(a1) \/ Matches(a2) \/ Matches(a3))
  BY <1>2, <1>3 DEF FirstOf
<1>5. Matching # {} =>
          \/ Taken = a1 /\ Matches(a1)
          \/ Taken = a2 /\ Matches(a2) /\ ~Matches(a1)
          \/ Taken = a3 /\ Matches(a3) /\ ~Matches(a1) /\ ~Matches(a2)
  <2> SUFFICES ASSUME Matching # {}
               PROVE  \/ Taken = a1 /\ Matches(a1)
                      \/ Taken = a2 /\ Matches(a2) /\ ~Matches(a1)
                      \/ Taken = a3 /\ Matches(a3) /\ ~Matches(a1) /\ ~Matches(a2)
    OBVIOUS
  <2>1. PICK i \in 1..4 : Taken = all[i] /\ Matches(all[i]) /\ \A j \in 1..(i - 1) : ~Matches(all[j])
    BY <1>3 DEF FirstOf
  <2>c1. CASE i = 1
    BY <1>2, <2>1, <2>c1
  <2>c2. CASE i = 2
    <3>1. 1 \in 1..(i - 1)
      BY <2>c2
    <3> QED
      BY <1>2, <2>1, <2>c2, <3>1
  <2>c3. CASE i = 3
    <3>1. 1 \in 1..(i - 1) /\ 2 \in 1..(i - 1)
      BY <2>c3
    <3> QED
      BY <1>2, <2>1, <2>c3, <3>1
  <2>c4. CASE i = 4
    <3>1. 1 \in 1..(i - 1) /\ 2 \in 1..(i - 1) /\ 3 \in 1..(i - 1)
      BY <2>c4
    <3> QED
      BY <1>2, <2>1, <2>c4, <3>1
  <2> QED
    BY <2>c1, <2>c2, <2>c3, <2>c4
<1> QED
  BY <1>4, <1>5, <1>m1, <1>t1, <1>m2, <1>t2, <1>m3, <1>t3 DEF StartsTwo

-----------------------------------------------------------------------------
(* How a step changes the stack.                                           *)

\* The rules above the k-th go, the k-th is changed, and another may be pushed.
Changed(s, new, k, r, name) ==
    /\ k \in 1..Len(s) /\ Len(new) = k + (IF name = None THEN 0 ELSE 1)
    /\ \A i \in 1..(k - 1) : new[i] = s[i]
    /\ new[k] = r /\ r.rule = s[k].rule
    /\ name # None => new[k + 1] = Rule(name)

LEMMA PushedIs ==
    ASSUME NEW t, Sequential(t), NEW name
    PROVE  /\ Len(t) \in Nat /\ Len(t \o Pushed(name)) = Len(t) + (IF name = None THEN 0 ELSE 1)
           /\ \A i \in 1..Len(t) : (t \o Pushed(name))[i] = t[i]
           /\ name # None => (t \o Pushed(name))[Len(t) + 1] = Rule(name)
<1>1. PICK S : t \in Seq(S)
  BY DEF Sequential
<1>2. CASE name = None
  <2>1. Pushed(name) = <<>> /\ t \o <<>> = t
    BY <1>1, <1>2, ConcatEmptySeq DEF Pushed
  <2> QED
    BY <1>1, <1>2, <2>1
<1>3. CASE name # None
  <2> DEFINE u == Rule(name)
  <2>1. Pushed(name) = <<u>>
    BY <1>3 DEF Pushed
  <2> HIDE DEF u
  <2>2. Len(t) \in Nat /\ Len(t \o <<u>>) = Len(t) + 1 /\ (t \o <<u>>)[Len(t) + 1] = u
        /\ \A i \in 1..Len(t) : (t \o <<u>>)[i] = t[i]
    BY <1>1
  <2> QED
    BY <1>3, <2>1, <2>2 DEF u
<1> QED
  BY <1>2, <1>3

LEMMA Replaced ==
    ASSUME NEW t, Sequential(t), Len(t) > 0, NEW r
    PROVE  /\ Sequential([t EXCEPT ![Len(t)] = r]) /\ Len([t EXCEPT ![Len(t)] = r]) = Len(t)
           /\ [t EXCEPT ![Len(t)] = r][Len(t)] = r
           /\ \A i \in 1..(Len(t) - 1) : [t EXCEPT ![Len(t)] = r][i] = t[i]
<1>1. PICK S : t \in Seq(S)
  BY DEF Sequential
<1> DEFINE p == [t EXCEPT ![Len(t)] = r]
<1>2. t \in [1..Len(t) -> S] /\ Len(t) \in Nat
  BY <1>1
<1>3. p \in [1..Len(t) -> S \cup {r}]
  BY <1>2
<1>4. p \in Seq(S \cup {r}) /\ Len(p) = Len(t)
  BY <1>2, <1>3
<1>5. Len(t) \in 1..Len(t) /\ p[Len(t)] = r
  BY <1>2
<1>6. \A i \in 1..(Len(t) - 1) : p[i] = t[i]
  <2> DEFINE n == Len(t)
  <2>0. n \in Nat
    BY <1>2
  <2> HIDE DEF n
  <2>1. \A i \in 1..(n - 1) : i \in 1..n /\ i # n
    BY <2>0
  <2> QED
    BY <1>2, <2>1 DEF n
<1> QED
  BY <1>4, <1>5, <1>6 DEF Sequential

Opened == [Top EXCEPT !.state = "close", !.o0 = ahead[1],
                      !.node = IF Taken.array THEN List(<<>>) ELSE Top.node]

LEMMA OpenChanges ==
    ASSUME IInv, Open
    PROVE  /\ Changed(stack, stack', Len(stack), Opened, Taken.p)
           /\ Opened.rule = Top.rule /\ Opened.state = "close" /\ Opened.o0 = ahead[1]
           /\ Opened.child = Top.child
           /\ Opened.node = IF Taken.array THEN List(<<>>) ELSE Top.node
<1>1. Ready /\ stack' = [stack EXCEPT ![Len(stack)] = Opened] \o Pushed(Taken.p)
  BY DEF Open, Opened
<1>2. Len(stack) \in Nat /\ Len(stack) > 0 /\ RuleOK(Top) /\ Top = stack[Len(stack)] /\ Sequential(stack)
  BY <1>1, TopOK DEF IInv, StackOK
<1>3. /\ Opened.rule = Top.rule /\ Opened.state = "close" /\ Opened.o0 = ahead[1]
      /\ Opened.child = Top.child
      /\ Opened.node = IF Taken.array THEN List(<<>>) ELSE Top.node
  BY <1>2 DEF Opened, RuleOK
<1> DEFINE r == Opened
           t == [stack EXCEPT ![Len(stack)] = r]
           n == Len(stack)
<1> HIDE DEF r
<1>4. /\ Sequential(t) /\ Len(t) = n /\ t[n] = r
      /\ \A i \in 1..(n - 1) : t[i] = stack[i]
  BY <1>2, Replaced
<1> HIDE DEF t
<1>5. /\ Len(stack') = n + (IF Taken.p = None THEN 0 ELSE 1)
      /\ \A i \in 1..n : stack'[i] = t[i]
      /\ Taken.p # None => stack'[n + 1] = Rule(Taken.p)
  <2>1. stack' = t \o Pushed(Taken.p)
    BY <1>1 DEF t, r
  <2> QED
    BY <1>4, <2>1, PushedIs
<1>6. n \in 1..n /\ \A i \in 1..(n - 1) : i \in 1..n
  BY <1>2
<1>7. Changed(stack, stack', n, r, Taken.p)
  <2>1. r.rule = stack[n].rule
    BY <1>2, <1>3 DEF r
  <2> HIDE DEF n
  <2> QED
    BY <1>4, <1>5, <1>6, <2>1 DEF Changed, n
<1> QED
  BY <1>3, <1>7 DEF r

LEMMA PopChanges ==
    ASSUME IInv, Ready, Len(stack) > 1, NEW r, r.rule = Parent.rule, NEW name,
           stack' = [SubSeq(stack, 1, Len(stack) - 1) EXCEPT ![Len(stack) - 1] = r] \o Pushed(name)
    PROVE  Changed(stack, stack', Len(stack) - 1, r, name)
<1> DEFINE n == Len(stack) - 1
           q == SubSeq(stack, 1, n)
           t == [q EXCEPT ![n] = r]
<1>1. Len(stack) \in Nat /\ Len(stack) > 0 /\ StackOK(stack)
  BY TopOK DEF IInv
<1>2. Sequential(q) /\ Len(q) = n /\ \A i \in 1..n : q[i] = stack[i]
  BY <1>1, Popped DEF StackOK
<1>3. n \in Nat /\ n > 0 /\ n \in 1..Len(stack) /\ stack[n] = Parent
  BY <1>1 DEF Parent
<1>4. stack' = t \o Pushed(name)
  OBVIOUS
<1> HIDE DEF q, n
<1>5. Sequential(t) /\ Len(t) = n /\ t[n] = r /\ \A i \in 1..(n - 1) : t[i] = q[i]
  <2> DEFINE u == [q EXCEPT ![Len(q)] = r]
  <2>1. t = u
    BY <1>2
  <2>2. Sequential(u) /\ Len(u) = Len(q) /\ u[Len(q)] = r /\ \A i \in 1..(Len(q) - 1) : u[i] = q[i]
    BY <1>2, <1>3, Replaced
  <2> HIDE DEF t, u
  <2> QED
    BY <1>2, <2>1, <2>2
<1> HIDE DEF t
<1>6. /\ Len(stack') = n + (IF name = None THEN 0 ELSE 1)
      /\ \A i \in 1..n : stack'[i] = t[i]
      /\ name # None => stack'[n + 1] = Rule(name)
  BY <1>4, <1>5, PushedIs
<1>7. n \in 1..n /\ \A i \in 1..(n - 1) : i \in 1..n
  BY <1>3
<1>8. Changed(stack, stack', n, r, name)
  BY <1>2, <1>3, <1>5, <1>6, <1>7 DEF Changed
<1> QED
  BY <1>8 DEF n

\* A value handed to the rule below, which it leaves on top.
Holding(v) == [Parent EXCEPT !.child = v]
LEMMA ChildChanges ==
    ASSUME IInv, Ready, Len(stack) > 1, NEW v,
           stack' = [SubSeq(stack, 1, Len(stack) - 1) EXCEPT ![Len(stack) - 1].child = v]
    PROVE  /\ Changed(stack, stack', Len(stack) - 1, Holding(v), None)
           /\ Holding(v).rule = Parent.rule /\ Holding(v).state = Parent.state
           /\ Holding(v).o0 = Parent.o0 /\ Holding(v).child = v
<1> DEFINE q == SubSeq(stack, 1, Len(stack) - 1)
           r == Holding(v)
           t == [q EXCEPT ![Len(stack) - 1] = r]
<1>1. Len(stack) \in Nat /\ Len(stack) > 0 /\ StackOK(stack) /\ RuleOK(Parent)
  <2>1. Len(stack) \in Nat /\ Len(stack) > 0 /\ StackOK(stack)
    BY TopOK DEF IInv
  <2>2. Len(stack) - 1 \in 1..Len(stack)
    BY <2>1
  <2> QED
    BY <2>1, <2>2 DEF StackOK, Parent
<1>2. q[Len(stack) - 1] = Parent /\ Sequential(q) /\ Len(q) = Len(stack) - 1
  BY <1>1, Popped DEF Parent, StackOK
<1>3. stack' = t
  BY <1>2 DEF Holding
<1>4. r.rule = Parent.rule /\ r.state = Parent.state /\ r.o0 = Parent.o0 /\ r.child = v
  BY <1>1 DEF RuleOK, Holding
<1> HIDE DEF r
<1>5. Sequential(t)
  <2>1. Len(q) > 0
    BY <1>1, <1>2
  <2> QED
    BY <1>2, <2>1, Replaced
<1>6. t \o Pushed(None) = t
  <2>1. PICK S : t \in Seq(S)
    BY <1>5 DEF Sequential
  <2> HIDE DEF t
  <2> QED
    BY <2>1, ConcatEmptySeq DEF Pushed
<1>7. Changed(stack, stack', Len(stack) - 1, r, None)
  <2>1. stack' = t \o Pushed(None)
    BY <1>3, <1>6
  <2> HIDE DEF r
  <2> QED
    BY <1>4, <2>1, PopChanges
<1> QED
  BY <1>4, <1>7 DEF r

\* A member added to the container below, and another awaited or none.
Growing(node) == [Parent EXCEPT !.node = node]
LEMMA AddedChanges ==
    ASSUME IInv, Ready, Len(stack) > 1, NEW v, Added(v)
    PROVE  /\ Changed(stack, stack', Len(stack) - 1, Growing(v), Taken.r)
           /\ Growing(v).rule = Parent.rule /\ Growing(v).state = Parent.state
           /\ Growing(v).node = v
<1> DEFINE q == SubSeq(stack, 1, Len(stack) - 1)
           r == Growing(v)
           t == [q EXCEPT ![Len(stack) - 1] = r]
<1>1. Len(stack) \in Nat /\ Len(stack) > 0 /\ StackOK(stack) /\ RuleOK(Parent)
  <2>1. Len(stack) \in Nat /\ Len(stack) > 0 /\ StackOK(stack)
    BY TopOK DEF IInv
  <2>2. Len(stack) - 1 \in 1..Len(stack)
    BY <2>1
  <2> QED
    BY <2>1, <2>2 DEF StackOK, Parent
<1>2. q[Len(stack) - 1] = Parent
  BY <1>1, Popped DEF Parent
<1>3. stack' = t \o Pushed(Taken.r)
  BY <1>2 DEF Growing, Added
<1>4. r.rule = Parent.rule /\ r.state = Parent.state /\ r.node = v
  BY <1>1 DEF RuleOK, Growing
<1> HIDE DEF r
<1>7. Changed(stack, stack', Len(stack) - 1, r, Taken.r)
  BY <1>3, <1>4, PopChanges
<1> QED
  BY <1>4, <1>7 DEF r

-----------------------------------------------------------------------------
(* Depth: the containers up to a rule.                                     *)

DepthTo(s, i) == Cardinality({j \in 1..i : s[j].rule \in Containers})

LEMMA DepthSame ==
    ASSUME NEW s, NEW new, NEW i, \A j \in 1..i : new[j].rule = s[j].rule
    PROVE  DepthTo(new, i) = DepthTo(s, i)
<1>1. {j \in 1..i : s[j].rule \in Containers} = {j \in 1..i : new[j].rule \in Containers}
  OBVIOUS
<1> QED
  BY <1>1 DEF DepthTo

LEMMA DepthNext ==
    ASSUME NEW s, NEW i \in Nat
    PROVE  /\ DepthTo(s, i) \in Nat
           /\ s[i + 1].rule \notin Containers => DepthTo(s, i + 1) = DepthTo(s, i)
           /\ s[i + 1].rule \in Containers => DepthTo(s, i + 1) = DepthTo(s, i) + 1
<1> DEFINE A == {j \in 1..i : s[j].rule \in Containers}
           B == {j \in 1..(i + 1) : s[j].rule \in Containers}
<1>1. IsFiniteSet(1..i) /\ A \subseteq 1..i
  BY FS_Interval
<1>2. IsFiniteSet(A) /\ Cardinality(A) \in Nat
  BY <1>1, FS_Subset, FS_CardinalityType
<1>3. i + 1 \in 1..(i + 1) /\ i + 1 \notin A /\ \A j \in 1..(i + 1) : j = i + 1 \/ j \in 1..i
  OBVIOUS
<1>4. \A j \in 1..i : j \in 1..(i + 1)
  OBVIOUS
<1>5. s[i + 1].rule \notin Containers => B = A
  BY <1>3, <1>4
<1>6. s[i + 1].rule \in Containers => B = A \cup {i + 1}
  BY <1>3, <1>4
<1> HIDE DEF A, B
<1>7. Cardinality(A \cup {i + 1}) = Cardinality(A) + 1
  BY <1>2, <1>3, FS_AddElement
<1> QED
  BY <1>2, <1>5, <1>6, <1>7 DEF A, B, DepthTo

LEMMA DepthOfTop ==
    ASSUME IInv, Ready
    PROVE  Depth = DepthTo(stack, Len(stack)) /\ Depth \in Nat
<1>1. PICK S : stack \in Seq(S)
  BY DEF IInv, StackOK, Sequential
<1>2. DOMAIN stack = 1..Len(stack) /\ Len(stack) \in Nat
  BY <1>1
<1> QED
  BY <1>2, DepthNext DEF Depth, DepthTo

-----------------------------------------------------------------------------
(* What the rules of the stack have consumed.                              *)

\* The node a value resolves to.
Resolved(r) == IF r.child # Undefined THEN r.child ELSE Rewrap(r.o0, Scalar(r.o0.text))

\* A phrase put under d containers is in the budget.
Within(p, d) == p.depth + d <= MaxDepth
Brace(rule) == Mark(IF rule = "map" THEN "#OB" ELSE "#OS")

ValueSaid(r, w, d) == \E p \in Values : w = p.tokens /\ p.value = Resolved(r) /\ Within(p, d)
PairSaid(r, w, d)  == \E p \in Values : w = Field(r.o0.text, p).tokens /\ p.value = r.child /\ Within(p, d)
ElemSaid(r, w, d)  == \E p \in Values : w = p.tokens /\ p.value = r.child /\ Within(p, d)
NoneSaid(r, w)     == w = <<Brace(r.rule)>> /\ r.node = (IF r.rule = "map" THEN Map(<<>>) ELSE List(<<>>))
Members(r, m, d)   == m.value = r.node /\ m.value.kind = r.rule /\ Within(m, d)
MoreSaid(r, w, d)  == \E m \in Groups : Members(r, m, d) /\ w = (<<Brace(r.rule)>> \o m.tokens) \o <<CA>>
AllSaid(r, w, d)   == \/ \E m \in Groups, c \in BOOLEAN : Members(r, m, d) /\ w \o <<CB>> = Struct(m, c).tokens
                      \/ r.rule = "list" /\ NoneSaid(r, w) /\ d <= MaxDepth
Begins(r, w)       == w = <<>> /\ r.child = Undefined /\ (r.rule = "map" => r.node = Map(<<>>))
FieldNamed(r, w)   == r.o0.text \in Texts /\ w = <<Named(r.o0.text), CL>>

\* What a rule has consumed, the top of the stack or one awaiting another.
Part(r, w, d, top) ==
    IF r.state = "open" THEN Begins(r, w)
    ELSE CASE r.rule = "val"  -> IF top THEN ValueSaid(r, w, d) ELSE w = <<>>
           [] r.rule = "pair" -> IF top THEN r.o0.text \in Texts /\ PairSaid(r, w, d) ELSE FieldNamed(r, w)
           [] r.rule = "elem" -> IF top THEN ElemSaid(r, w, d) ELSE w = <<>>
           [] OTHER -> IF top THEN AllSaid(r, w, d) ELSE NoneSaid(r, w) \/ MoreSaid(r, w, d)

Levels(s, pre, seg) ==
    /\ \A i \in 1..Len(s) : pre[i] \in Words /\ seg[i] \in Words
                            /\ Part(s[i], seg[i], DepthTo(s, i), i = Len(s))
    /\ pre[1] = <<>>
    /\ \A i \in 2..Len(s) : pre[i] = pre[i - 1] \o seg[i - 1]

\* The stack has read w.
Reads(s, w) == \E pre, seg : Levels(s, pre, seg) /\ pre[Len(s)] \o seg[Len(s)] = w

LEMMA EmptyWord == <<>> \in Words /\ \A x \in Words : x \o <<>> = x /\ <<>> \o x = x
<1>1. <<>> \in Words
  BY DEF Words
<1>2. \A x \in Words : x \o <<>> = x /\ <<>> \o x = x
  BY ConcatEmptySeq DEF Words
<1> QED
  BY <1>1, <1>2

LEMMA RuleBegins ==
    ASSUME NEW name \in Rules, NEW d, NEW top
    PROVE  Part(Rule(name), <<>>, d, top) /\ Rule(name).rule = name /\ Rule(name).state = "open"
<1>1. Rule(name).state = "open" /\ Rule(name).child = Undefined /\ Rule(name).rule = name
      /\ Rule(name).node = IF name = "map" THEN Map(<<>>) ELSE Undefined
  BY DEF Rule
<1> QED
  BY <1>1 DEF Part, Begins

LEMMA Rebuilt ==
    ASSUME NEW s, Len(s) \in Nat, NEW pre, NEW seg, Levels(s, pre, seg),
           NEW new, NEW k, NEW r, NEW name \in {None} \cup Rules, Changed(s, new, k, r, name),
           NEW w \in Words, Part(r, w, DepthTo(s, k), name = None)
    PROVE  Reads(new, pre[k] \o w)
<1> DEFINE n == Len(new)
           pre2 == [i \in 1..n |-> IF i <= k THEN pre[i] ELSE pre[k] \o w]
           seg2 == [i \in 1..n |-> IF i < k THEN seg[i] ELSE IF i = k THEN w ELSE <<>>]
<1>1. /\ k \in 1..Len(s) /\ n = k + (IF name = None THEN 0 ELSE 1)
      /\ \A i \in 1..(k - 1) : new[i] = s[i]
      /\ new[k] = r /\ r.rule = s[k].rule
      /\ name # None => new[k + 1] = Rule(name)
  BY DEF Changed
<1>2. k \in Nat /\ k > 0 /\ n \in Nat /\ k \in 1..n /\ k <= Len(s) /\ (n = k \/ n = k + 1)
      /\ (n = k <=> name = None)
  BY <1>1
<1> HIDE DEF n
<1>3. /\ \A i \in 1..Len(s) : pre[i] \in Words /\ seg[i] \in Words
                            /\ Part(s[i], seg[i], DepthTo(s, i), i = Len(s))
      /\ pre[1] = <<>>
      /\ \A i \in 2..Len(s) : pre[i] = pre[i - 1] \o seg[i - 1]
  BY DEF Levels
<1>4. pre[k] \in Words /\ pre[k] \o w \in Words
  BY <1>1, <1>3, Join
<1>5. ASSUME NEW i \in 1..n PROVE pre2[i] \in Words /\ seg2[i] \in Words
  <2>1. i <= k => i \in 1..Len(s)
    BY <1>2
  <2>2. pre2[i] = (IF i <= k THEN pre[i] ELSE pre[k] \o w)
        /\ seg2[i] = (IF i < k THEN seg[i] ELSE IF i = k THEN w ELSE <<>>)
    OBVIOUS
  <2>3. i < k => i <= k
    BY <1>2
  <2> HIDE DEF pre2, seg2
  <2> QED
    BY <1>3, <1>4, <2>1, <2>2, <2>3, EmptyWord
<1>6. \A i \in 1..k : new[i].rule = s[i].rule
  <2>1. \A i \in 1..k : i = k \/ i \in 1..(k - 1)
    BY <1>2
  <2> QED
    BY <1>1, <2>1
<1>7. ASSUME NEW i \in 1..n PROVE Part(new[i], seg2[i], DepthTo(new, i), i = n)
  <2>1. CASE i < k
    <3>1. i \in 1..(k - 1) /\ i \in 1..Len(s) /\ (i = Len(s)) = FALSE /\ (i = n) = FALSE /\ \A j \in 1..i : j \in 1..k
      BY <1>2, <2>1
    <3>2. seg2[i] = seg[i] /\ new[i] = s[i]
      BY <1>1, <2>1, <3>1
    <3>3. DepthTo(new, i) = DepthTo(s, i)
      BY <1>6, <3>1, DepthSame
    <3> QED
      BY <1>3, <3>1, <3>2, <3>3
  <2>2. CASE i = k
    <3>1. (i = n) = (name = None)
      BY <1>2, <2>2
    <3>2. seg2[i] = w /\ new[i] = r
      BY <1>1, <1>2, <2>2
    <3>3. DepthTo(new, i) = DepthTo(s, k)
      BY <1>6, <2>2, DepthSame
    <3> QED
      BY <3>1, <3>2, <3>3
  <2>3. CASE i > k
    <3>1. i = k + 1 /\ name # None
      BY <1>2, <2>3
    <3>2. seg2[i] = <<>> /\ new[i] = Rule(name) /\ name \in Rules
      BY <1>1, <1>2, <2>3, <3>1
    <3> QED
      BY <3>2, RuleBegins
  <2> QED
    BY <1>2, <2>1, <2>2, <2>3
<1>8. pre2[1] = <<>>
  BY <1>2, <1>3
<1>9. ASSUME NEW i \in 2..n PROVE pre2[i] = pre2[i - 1] \o seg2[i - 1]
  <2>1. CASE i <= k
    <3>1. i \in 2..Len(s) /\ i - 1 < k /\ i - 1 <= k /\ i \in 1..n /\ i - 1 \in 1..n
      BY <1>2, <2>1
    <3>2. pre2[i] = pre[i] /\ pre2[i - 1] = pre[i - 1] /\ seg2[i - 1] = seg[i - 1]
      BY <2>1, <3>1
    <3> QED
      BY <1>3, <3>1, <3>2
  <2>2. CASE i > k
    <3>1. i - 1 = k /\ i \in 1..n
      BY <1>2, <2>2
    <3>2. pre2[i] = pre[k] \o w /\ pre2[k] = pre[k] /\ seg2[k] = w
      BY <1>2, <2>2, <3>1
    <3> QED
      BY <3>1, <3>2
  <2>3. i <= k \/ i > k
    BY <1>2
  <2> QED
    BY <2>1, <2>2, <2>3
<1>10. pre2[n] \o seg2[n] = pre[k] \o w
  <2>1. CASE n = k
    <3>1. pre2[n] = pre[k] /\ seg2[n] = w
      BY <1>2, <2>1
    <3> QED
      BY <3>1
  <2>2. CASE n = k + 1
    <3>1. pre2[n] = pre[k] \o w /\ seg2[n] = <<>>
      BY <1>2, <2>2
    <3> QED
      BY <1>4, <3>1, EmptyWord
  <2> QED
    BY <1>2, <2>1, <2>2
<1> HIDE DEF pre2, seg2
<1>11. Levels(new, pre2, seg2)
  BY <1>5, <1>7, <1>8, <1>9 DEF Levels, n
<1> QED
  BY <1>10, <1>11 DEF Reads, n

\* Before the k-th rule x was read: with what that rule has come to consume,
\* it is what a stack changed there has read.
Continues(s, k, x) ==
    \A new, r, y : \A name \in {None} \cup Rules :
        (y \in Words /\ Changed(s, new, k, r, name) /\ Part(r, y, DepthTo(s, k), name = None))
            => Reads(new, x \o y)

\* The two uses of it: the top consumes, and the rule below it goes on.
LEMMA TopReads ==
    ASSUME NEW s, Len(s) \in Nat, Len(s) > 0, NEW w, Reads(s, w)
    PROVE  \E x \in Words : \E u \in Words :
             /\ w = x \o u /\ Part(s[Len(s)], u, DepthTo(s, Len(s)), TRUE)
             /\ Continues(s, Len(s), x)
<1>1. PICK pre, seg : Levels(s, pre, seg) /\ pre[Len(s)] \o seg[Len(s)] = w
  BY DEF Reads
<1>2. Len(s) \in 1..Len(s)
  OBVIOUS
<1>3. pre[Len(s)] \in Words /\ seg[Len(s)] \in Words /\ Part(s[Len(s)], seg[Len(s)], DepthTo(s, Len(s)), TRUE)
  <2>1. (Len(s) = Len(s)) = TRUE
    OBVIOUS
  <2> QED
    BY <1>1, <1>2, <2>1 DEF Levels
<1>4. ASSUME NEW new, NEW r, NEW y, NEW name \in {None} \cup Rules,
             y \in Words, Changed(s, new, Len(s), r, name), Part(r, y, DepthTo(s, Len(s)), name = None)
      PROVE  Reads(new, pre[Len(s)] \o y)
  BY <1>1, <1>4, Rebuilt
<1>5. Continues(s, Len(s), pre[Len(s)])
  BY <1>4 DEF Continues
<1> QED
  BY <1>1, <1>3, <1>5

LEMMA BelowReads ==
    ASSUME NEW s, Len(s) \in Nat, Len(s) > 1, NEW w, Reads(s, w)
    PROVE  \E x \in Words : \E v \in Words : \E u \in Words :
             /\ w = (x \o v) \o u /\ Part(s[Len(s)], u, DepthTo(s, Len(s)), TRUE)
             /\ Part(s[Len(s) - 1], v, DepthTo(s, Len(s) - 1), FALSE)
             /\ Continues(s, Len(s) - 1, x)
<1>1. PICK pre, seg : Levels(s, pre, seg) /\ pre[Len(s)] \o seg[Len(s)] = w
  BY DEF Reads
<1> DEFINE n == Len(s)
           k == Len(s) - 1
<1>2. n \in 1..n /\ n \in 2..n /\ k \in 1..n /\ k # n
  OBVIOUS
<1> HIDE DEF n, k
<1>3. pre[n] \in Words /\ seg[n] \in Words /\ Part(s[n], seg[n], DepthTo(s, n), TRUE)
  <2>1. (n = n) = TRUE
    OBVIOUS
  <2> QED
    BY <1>1, <1>2, <2>1 DEF Levels, n
<1>4. pre[k] \in Words /\ seg[k] \in Words /\ Part(s[k], seg[k], DepthTo(s, k), FALSE)
  <2>1. (k = n) = FALSE
    BY <1>2
  <2> QED
    BY <1>1, <1>2, <2>1 DEF Levels, n
<1>5. pre[n] = pre[k] \o seg[k]
  BY <1>1, <1>2 DEF Levels, n, k
<1>6. ASSUME NEW new, NEW r, NEW y, NEW name \in {None} \cup Rules,
             y \in Words, Changed(s, new, k, r, name), Part(r, y, DepthTo(s, k), name = None)
      PROVE  Reads(new, pre[k] \o y)
  BY <1>1, <1>6, Rebuilt
<1>7. w = (pre[k] \o seg[k]) \o seg[n]
  BY <1>1, <1>5 DEF n
<1>8. Continues(s, k, pre[k])
  BY <1>6 DEF Continues
<1> QED
  BY <1>3, <1>4, <1>7, <1>8 DEF n, k

-----------------------------------------------------------------------------
(* The phrases a step completes.                                           *)

\* Three words joined either way are the same; named, to be unfolded where used.
Joins3(x, y, z) == (x \o y) \o z = x \o (y \o z)
LEMMA Assoc3 ==
    ASSUME NEW x \in Words, NEW y \in Words, NEW z \in Words
    PROVE  Joins3(x, y, z)
BY Assoc DEF Joins3

LEMMA TwoTokens ==
    ASSUME NEW x \in Tokens, NEW y \in Tokens
    PROVE  <<x>> \o <<y>> = <<x, y>>
<1> DEFINE a == <<x>>
           b == <<y>>
           c == <<x, y>>
           j == a \o b
<1>1. a \in Seq(Tokens) /\ Len(a) = 1 /\ a[1] = x /\ b \in Seq(Tokens) /\ Len(b) = 1 /\ b[1] = y
      /\ c \in Seq(Tokens) /\ Len(c) = 2 /\ c[1] = x /\ c[2] = y
  OBVIOUS
<1> HIDE DEF a, b, c
<1>2. j \in Seq(Tokens) /\ Len(j) = 2 /\ j[1] = x /\ j[2] = y
  <2>1. /\ j \in Seq(Tokens) /\ Len(j) = Len(a) + Len(b)
        /\ \A i \in 1..(Len(a) + Len(b)) : j[i] = IF i <= Len(a) THEN a[i] ELSE b[i - Len(a)]
    BY <1>1, ConcatProperties
  <2> HIDE DEF j
  <2> QED
    BY <1>1, <2>1
<1> HIDE DEF j
<1>3. \A i \in 1..Len(j) : j[i] = c[i]
  <2>1. \A i \in 1..Len(j) : i = 1 \/ i = 2
    BY <1>2
  <2> QED
    BY <1>1, <1>2, <2>1
<1>4. j = c
  BY <1>1, <1>2, <1>3, SeqEqual
<1> QED
  BY <1>4 DEF j, a, b, c

LEMMA MarksAreWords ==
    /\ <<CA>> \in Words /\ <<CB>> \in Words /\ <<ZZ>> \in Words /\ <<OB>> \in Words /\ <<OS>> \in Words
    /\ \A rule : <<Brace(rule)>> \in Words /\ Len(<<Brace(rule)>>) = 1
    /\ \A t \in Texts : <<Named(t), CL>> \in Words
    /\ \A t \in Tokens : <<t>> \in Words
    /\ <<CA>> \o <<CB>> = <<CA, CB>> /\ <<OS>> \o <<CB>> = <<OS, CB>>
<1>1. \A t \in Tokens : <<t>> \in Words
  BY DEF Words
<1>2. \A t \in Texts : <<Named(t), CL>> \in Words
  BY TokensApart DEF Words
<1>3. ASSUME NEW rule PROVE <<Brace(rule)>> \in Words /\ Len(<<Brace(rule)>>) = 1
  <2>1. Brace(rule) \in Tokens
    BY MarksAreTokens DEF Brace
  <2> QED
    BY <1>1, <2>1
<1>4. <<CA>> \o <<CB>> = <<CA, CB>> /\ <<OS>> \o <<CB>> = <<OS, CB>>
  BY TwoTokens, TokensApart
<1> QED
  BY <1>1, <1>2, <1>3, <1>4, TokensApart

\* What is known of the length and the tokens of a phrase.
LEMMA WordLen == ASSUME NEW x \in Words PROVE Len(x) \in Nat /\ x \in Seq(Tokens)
BY DEF Words

LEMMA JoinLen == ASSUME NEW x \in Words, NEW y \in Words PROVE Len(x \o y) = Len(x) + Len(y)
BY ConcatProperties DEF Words

LEMMA GroupWord == ASSUME NEW p, Worded(p) PROVE p.tokens \in Words /\ Len(p.tokens) \in Nat /\ p.depth \in Nat
BY DEF Worded, Words

\* A node with a member's items or fields after its own.
Longer2(rule, node, value) == IF rule = "list" THEN List(node.items \o value.items)
                              ELSE Map(node.fields \o value.fields)
Grown(r, w, m, g, d) ==
    /\ g.value = Longer2(r.rule, r.node, m.value) /\ g.value.kind = r.rule /\ Within(g, d)
    /\ w \o m.tokens = <<Brace(r.rule)>> \o g.tokens

LEMMA FirstMember ==
    ASSUME NEW r, r.rule \in Containers, NEW d, NEW w \in Words, NoneSaid(r, w),
           NEW m, One(m), m.value.kind = r.rule, Within(m, d),
           Len(w) + Len(m.tokens) <= MaxTokens
    PROVE  \E g \in Groups : Grown(r, w, m, g, d)
<1>1. Running(m) /\ Len(m.tokens) \in Nat
  BY OneIsSingle, GroupWord
<1>2. w = <<Brace(r.rule)>> /\ Len(w) = 1
  BY MarksAreWords DEF NoneSaid
<1>3. m \in Groups
  <2>1. Len(m.tokens) <= MaxTokens
    BY <1>1, <1>2, Whole
  <2> QED
    BY <2>1, OneIsSingle
<1>4. m.value = Longer2(r.rule, r.node, m.value)
  <2>1. CASE Listed(m)
    <3>1. PICK items : Sequential(items) /\ m.value = List(items)
      BY <2>1 DEF Listed
    <3>2. r.rule = "list" /\ r.node.items = <<>>
      BY <3>1, Kinds DEF NoneSaid
    <3>3. <<>> \o items = items
      BY <3>1, ConcatEmptySeq DEF Sequential
    <3> QED
      BY <3>1, <3>2, <3>3, Kinds DEF Longer2
  <2>2. CASE Mapped(m)
    <3>1. PICK fields : Sequential(fields) /\ m.value = Map(fields)
      BY <2>2 DEF Mapped
    <3>2. r.rule = "map" /\ r.node.fields = <<>>
      BY <3>1, Kinds DEF NoneSaid
    <3>3. <<>> \o fields = fields
      BY <3>1, ConcatEmptySeq DEF Sequential
    <3> QED
      BY <3>1, <3>2, <3>3, Kinds DEF Longer2
  <2> QED
    BY <1>1, <2>1, <2>2 DEF Running
<1> QED
  BY <1>2, <1>3, <1>4 DEF Grown

LEMMA NextMember ==
    ASSUME NEW r, r.rule \in Containers, NEW d \in Nat, NEW w \in Words, MoreSaid(r, w, d),
           NEW m, One(m), m.value.kind = r.rule, Within(m, d), Keys(r.node) \cap Keys(m.value) = {},
           Len(w) + Len(m.tokens) <= MaxTokens
    PROVE  \E g \in Groups : Grown(r, w, m, g, d)
<1>1. Running(m) /\ m.tokens \in Words /\ Len(m.tokens) \in Nat /\ m.depth \in Nat
  BY OneIsSingle, GroupWord
<1>2. PICK b \in Groups : Members(r, b, d) /\ w = (<<Brace(r.rule)>> \o b.tokens) \o <<CA>>
  BY DEF MoreSaid
<1>3. Running(b) /\ b.tokens \in Words /\ Len(b.tokens) \in Nat /\ b.depth \in Nat
  BY GroupsFine, GroupWord
<1>4. b.value = r.node /\ b.value.kind = r.rule /\ Within(b, d)
  BY <1>2 DEF Members
<1>5. Joins(b, m)
  BY <1>4, JoinsBy
<1> DEFINE g == Then(b, m)
<1>6. /\ g.tokens = (b.tokens \o <<CA>>) \o m.tokens
      /\ Len(g.tokens) = Len(b.tokens) + 1 + Len(m.tokens)
      /\ g.depth = IF b.depth > m.depth THEN b.depth ELSE m.depth
      /\ g.value = IF b.value.kind = "list" THEN List(b.value.items \o m.value.items)
                                 ELSE Map(b.value.fields \o m.value.fields)
  <2>1. b.value.kind = m.value.kind
    BY <1>4
  <2> QED
    BY <1>1, <1>3, <2>1, ThenIs DEF CA
<1> HIDE DEF g
<1>7. Len(w) = Len(b.tokens) + 2
  <2> DEFINE o == <<Brace(r.rule)>>
             c == <<CA>>
             x == b.tokens
  <2>1. o \in Words /\ c \in Words /\ Len(o) = 1 /\ Len(c) = 1
    BY MarksAreWords
  <2>2. w = (o \o x) \o c /\ x \in Words /\ Len(x) \in Nat
    BY <1>2, <1>3
  <2> HIDE DEF o, c, x
  <2>3. o \o x \in Words /\ Len(o \o x) = 1 + Len(x)
    BY <2>1, <2>2, Join, JoinLen
  <2>4. Len(w) = (1 + Len(x)) + 1
    BY <2>1, <2>2, <2>3, JoinLen
  <2>5. Len(w) = Len(x) + 2
    BY <2>2, <2>4
  <2> QED
    BY <2>5 DEF x
<1>8. g \in Groups
  <2> DEFINE x == Len(b.tokens)
             y == Len(m.tokens)
  <2>1. x \in Nat /\ y \in Nat /\ x + 2 + y <= MaxTokens /\ Len(g.tokens) = x + 1 + y
    BY <1>1, <1>3, <1>6, <1>7
  <2> HIDE DEF x, y
  <2>2. Len(g.tokens) <= MaxTokens
    BY <2>1, Whole
  <2> QED
    BY <1>5, <2>2, ThenIsGroup DEF g
<1>9. Within(g, d)
  BY <1>1, <1>3, <1>4, <1>6 DEF Within
<1>10. g.value = Longer2(r.rule, r.node, m.value) /\ g.value.kind = r.rule
  BY <1>4, <1>6, Kinds DEF Longer2, Containers
<1>11. w \o m.tokens = <<Brace(r.rule)>> \o g.tokens
  <2> DEFINE o == <<Brace(r.rule)>>
             c == <<CA>>
             x == b.tokens
             y == m.tokens
  <2>1. o \in Words /\ c \in Words /\ x \in Words /\ y \in Words
    BY <1>1, <1>3, MarksAreWords
  <2>2. w = (o \o x) \o c /\ g.tokens = (x \o c) \o y
    BY <1>2, <1>6
  <2> HIDE DEF o, c, x, y
  <2>a. Joins3(o, x, c) /\ x \o c \in Words
    BY <2>1, Assoc3, Join
  <2>3. (o \o x) \o c = o \o (x \o c)
    BY <2>a DEF Joins3
  <2>b. Joins3(o, x \o c, y)
    BY <2>1, <2>a, Assoc3
  <2>4. (o \o (x \o c)) \o y = o \o ((x \o c) \o y)
    BY <2>b DEF Joins3
  <2>5. w \o y = o \o g.tokens
    BY <2>2, <2>3, <2>4
  <2> QED
    BY <2>5 DEF o, y
<1> QED
  BY <1>8, <1>9, <1>10, <1>11 DEF Grown

\* A member added to its container, whatever comes after it.
LEMMA AddedParts ==
    ASSUME NEW r, r.rule \in Containers, NEW d \in Nat, NEW w \in Words, NoneSaid(r, w) \/ MoreSaid(r, w, d),
           NEW m, One(m), m.value.kind = r.rule, Within(m, d), Keys(r.node) \cap Keys(m.value) = {},
           Len(w) + Len(m.tokens) <= MaxTokens,
           NEW r2, r2.rule = r.rule, r2.state = "close", r2.node = Longer2(r.rule, r.node, m.value)
    PROVE  /\ Part(r2, w \o m.tokens, d, TRUE)
           /\ Part(r2, (w \o m.tokens) \o <<CA>>, d, TRUE)
           /\ Part(r2, (w \o m.tokens) \o <<CA>>, d, FALSE)
<1>1. PICK g \in Groups : Grown(r, w, m, g, d)
  BY FirstMember, NextMember
<1>2. Members(r2, g, d) /\ g.value.kind = r.rule
  BY <1>1 DEF Grown, Members
<1> DEFINE u == w \o m.tokens
           o == <<Brace(r.rule)>>
<1>3. Worded(g) /\ g.tokens \in Words
  BY GroupsFine, GroupWord
<1>4. u = o \o g.tokens /\ u \in Words /\ o \in Words
  BY <1>1, <1>3, MarksAreWords, Join DEF Grown
<1>5. \A c \in BOOLEAN : Struct(g, c).tokens = (o \o g.tokens) \o Ending(c)
  <2>1. Opening(g) = Brace(r.rule)
    BY <1>2 DEF Opening, Brace
  <2> QED
    BY <1>3, <2>1, StructIs
<1>6. u \o <<CB>> = Struct(g, FALSE).tokens
  BY <1>4, <1>5 DEF Ending, CB
<1>7. (u \o <<CA>>) \o <<CB>> = Struct(g, TRUE).tokens
  <2> DEFINE x == <<CA>>
             y == <<CB>>
  <2>1. x \in Words /\ y \in Words /\ x \o y = Ending(TRUE)
    BY MarksAreWords DEF Ending, CA, CB
  <2> HIDE DEF x, y, u
  <2>a. Joins3(u, x, y)
    BY <1>4, <2>1, Assoc3
  <2>2. (u \o x) \o y = u \o Ending(TRUE)
    BY <2>1, <2>a DEF Joins3
  <2> QED
    BY <1>4, <1>5, <2>2 DEF x, y
<1>8. MoreSaid(r2, u \o <<CA>>, d)
  BY <1>2, <1>4 DEF MoreSaid
<1> HIDE DEF u
<1>9. AllSaid(r2, u, d) /\ AllSaid(r2, u \o <<CA>>, d)
  BY <1>2, <1>6, <1>7 DEF AllSaid
<1>10. r2.rule \notin {"val", "pair", "elem"} /\ r2.state # "open"
  BY DEF Containers
<1> QED
  BY <1>8, <1>9, <1>10 DEF Part, u

\* A container closed is a value.
LEMMA ContainerSaid ==
    ASSUME NEW r, r.rule \in Containers, NEW d \in Nat, NEW u \in Words, AllSaid(r, u, d + 1),
           Len(u) + 1 <= MaxTokens
    PROVE  \E p \in Values : u \o <<CB>> = p.tokens /\ p.value = r.node /\ Within(p, d) /\ p.value # Undefined
<1>1. CASE \E m \in Groups, c \in BOOLEAN : Members(r, m, d + 1) /\ u \o <<CB>> = Struct(m, c).tokens
  <2>1. PICK m \in Groups, c \in BOOLEAN : Members(r, m, d + 1) /\ u \o <<CB>> = Struct(m, c).tokens
    BY <1>1
  <2>2. m.value = r.node /\ Within(m, d + 1)
    BY <2>1 DEF Members
  <2>3. Worded(m) /\ m.depth \in Nat /\ Running(m)
    BY GroupsFine, GroupWord
  <2>4. Struct(m, c).value = m.value /\ Struct(m, c).depth = m.depth + 1
    BY <2>3, StructIs
  <2>5. Len(Struct(m, c).tokens) <= MaxTokens
    <3> DEFINE y == <<CB>>
    <3>1. y \in Words /\ Len(y) = 1
      BY MarksAreWords
    <3> HIDE DEF y
    <3>2. Len(u \o y) = Len(u) + 1
      BY <3>1, JoinLen
    <3> QED
      BY <2>1, <3>2 DEF y
  <2>6. m.depth + 1 <= MaxDepth /\ m.depth + (d + 1) <= MaxDepth
    BY <2>2, <2>3, Whole DEF Within
  <2>7. Struct(m, c) \in Values
    BY <2>5, <2>6, StructIsValue
  <2>8. Within(Struct(m, c), d)
    BY <2>3, <2>4, <2>6 DEF Within
  <2>9. m.value # Undefined
    <3>1. m.value.kind \in {"list", "map"}
      BY <2>3, Kinds DEF Running, Listed, Mapped
    <3> QED
      BY <3>1 DEF Undefined
  <2> QED
    BY <2>1, <2>2, <2>4, <2>7, <2>8, <2>9
<1>2. CASE r.rule = "list" /\ NoneSaid(r, u) /\ d + 1 <= MaxDepth
  <2>1. u = <<Mark("#OS")>> /\ r.node = List(<<>>)
    BY <1>2 DEF NoneSaid, Brace
  <2>2. Len(u) = 1 /\ 2 <= MaxTokens
    BY <2>1, Whole
  <2>3. Empty \in Values /\ Empty.value = List(<<>>) /\ Empty.depth = 1
    BY <2>2, EmptyIsValue, EmptyWorded
  <2>4. u \o <<CB>> = Empty.tokens
    BY <2>1, EmptyWorded, MarksAreWords DEF CB, OS
  <2>5. Within(Empty, d)
    BY <1>2, <2>3, Whole DEF Within
  <2>6. List(<<>>) # Undefined
    BY DEF List, Undefined
  <2> QED
    BY <2>1, <2>3, <2>4, <2>5, <2>6
<1> QED
  BY <1>1, <1>2 DEF AllSaid

LEMMA ScalarSaid ==
    ASSUME NEW t \in Tokens, IsScalar(t)
    PROVE  \E p \in Scalars : p.tokens = <<t>> /\ p.value = Rewrap(t, Scalar(t.text)) /\ p.depth = 0
<1>1. CASE IsName(t)
  <2>1. PICK text \in Texts : t = Named(text)
    BY <1>1 DEF IsName
  <2> DEFINE p == Phrase(<<[type |-> "#TX", text |-> text]>>, IF EnumTag THEN Tagged(text) ELSE Scalar(text), 0)
  <2>2. p \in Scalars
    BY DEF Scalars
  <2>3. p.tokens = <<t>> /\ p.depth = 0 /\ p.value = IF EnumTag THEN Tagged(text) ELSE Scalar(text)
    BY <2>1 DEF Phrase, Named
  <2>4. t.text = text /\ t.type = "#TX"
    BY <2>1 DEF Named
  <2>5. Rewrap(t, Scalar(t.text)) = IF EnumTag THEN Tagged(text) ELSE Scalar(text)
    BY <2>4 DEF Rewrap, Scalar
  <2> QED
    BY <2>2, <2>3, <2>5
<1>2. CASE \E text \in Contents : t = Counted(text)
  <2>1. PICK text \in Contents : t = Counted(text)
    BY <1>2
  <2> DEFINE p == Phrase(<<[type |-> "#NR", text |-> text]>>, Scalar(text), 0)
  <2>2. p \in Scalars
    BY DEF Scalars
  <2>3. p.tokens = <<t>> /\ p.depth = 0 /\ p.value = Scalar(text)
    BY <2>1 DEF Phrase, Counted
  <2>4. t.text = text /\ t.type # "#TX"
    BY <2>1 DEF Counted
  <2>5. Rewrap(t, Scalar(t.text)) = Scalar(text)
    BY <2>4 DEF Rewrap
  <2> QED
    BY <2>2, <2>3, <2>5
<1> QED
  BY <1>1, <1>2 DEF IsScalar

-----------------------------------------------------------------------------
(* What has been read is what the stack has consumed and what is ahead.    *)

\* The tokens before any but the end mark fit in the bound.
Room(w, a) == \A i \in 0..Len(a) : (i > 0 => a[i] # ZZ) => Len(w) + i <= MaxTokens
Ends(a) == \A i \in 1..Len(a) : a[i] = ZZ => i = Len(a)
Sound(w, a, s, all) == all = w \o a /\ Room(w, a) /\ Ends(a) /\ Reads(s, w)

\* The first k tokens ahead, consumed.
Bite(k) == SubSeq(ahead, 1, k)
Eats(k) == k \in 0..Len(ahead) /\ (k > 0 => ahead[k] # ZZ) /\ Rest = SubSeq(ahead, k + 1, Len(ahead))

LEMMA Aheads == ASSUME IInv PROVE ahead \in Words /\ ahead \in Seq(Tokens) /\ Len(ahead) \in 0..2 /\ Lexed
                                  /\ \A i \in 1..Len(ahead) : ahead[i] \in Tokens
<1>1. ahead \in Seq(Tokens) /\ Len(ahead) <= 2
  BY DEF IInv
<1>2. Len(ahead) \in Nat /\ \A i \in 1..Len(ahead) : ahead[i] \in Tokens
  BY <1>1
<1> DEFINE n == Len(ahead)
<1>3. n \in Nat /\ n <= 2
  BY <1>1, <1>2
<1> HIDE DEF n
<1>4. n \in 0..2
  BY <1>3
<1> QED
  BY <1>1, <1>2, <1>4 DEF Words, Lexed, n

LEMMA BiteIs ==
    ASSUME IInv
    PROVE  /\ Bite(0) = <<>>
           /\ Len(ahead) >= 1 => Bite(1) = <<ahead[1]>>
           /\ Len(ahead) >= 2 => Bite(2) = <<ahead[1], ahead[2]>>
<1>1. ahead \in Seq(Tokens) /\ Len(ahead) \in Nat /\ \A i \in 1..Len(ahead) : ahead[i] \in Tokens
  BY Aheads
<1>2. Bite(0) = <<>>
  BY SubSeqEmpty DEF Bite
<1>3. ASSUME Len(ahead) >= 1 PROVE Bite(1) = <<ahead[1]>>
  <2>1. 1 \in 1..Len(ahead) /\ 1 \in 1..Len(ahead)
    BY <1>1, <1>3
  <2>2. SubSeq(ahead, 1, 1) = SubSeq(ahead, 1, 1 - 1) \o <<ahead[1]>>
    BY <1>1, <2>1, SubSeqRecursiveSecond
  <2>3. SubSeq(ahead, 1, 1 - 1) = <<>>
    BY SubSeqEmpty
  <2> DEFINE t == ahead[1]
             y == <<t>>
  <2>4. t \in Tokens
    BY <1>1, <2>1
  <2> HIDE DEF t
  <2>5. y \in Words
    BY <2>4, MarksAreWords
  <2> HIDE DEF y
  <2>6. <<>> \o y = y
    BY <2>5, EmptyWord
  <2> QED
    BY <2>2, <2>3, <2>6 DEF Bite, y, t
<1>4. ASSUME Len(ahead) >= 2 PROVE Bite(2) = <<ahead[1], ahead[2]>>
  <2>1. 1 \in 1..Len(ahead) /\ 2 \in 1..Len(ahead)
    BY <1>1, <1>4
  <2>2. SubSeq(ahead, 1, 2) = SubSeq(ahead, 1, 2 - 1) \o <<ahead[2]>>
    BY <1>1, <2>1, SubSeqRecursiveSecond
  <2>3. SubSeq(ahead, 1, 2 - 1) = <<ahead[1]>> /\ Len(ahead) >= 1
    BY <1>3, <1>4 DEF Bite
  <2>4. <<ahead[1]>> \o <<ahead[2]>> = <<ahead[1], ahead[2]>>
    BY <1>1, <2>1, TwoTokens
  <2> QED
    BY <2>2, <2>3, <2>4 DEF Bite
<1> QED
  BY <1>2, <1>3, <1>4

LEMMA Eaten ==
    ASSUME IInv, NEW w \in Words, Sound(w, ahead, stack, read), NEW k, Eats(k),
           ahead' = Rest, read' = read, Reads(stack', w \o Bite(k))
    PROVE  w \o Bite(k) \in Words /\ Sound(w \o Bite(k), ahead', stack', read')
<1> DEFINE n == Len(ahead)
           a == Bite(k)
           b == SubSeq(ahead, k + 1, n)
<1>1. ahead \in Seq(Tokens) /\ n \in Nat /\ \A i \in 1..n : ahead[i] \in Tokens
  BY Aheads
<1>2. k \in Nat /\ k <= n /\ (k > 0 => ahead[k] # ZZ) /\ ahead' = b
  BY <1>1 DEF Eats
<1>3. a \in Words /\ Len(a) = k
  <2>1. \A i \in 1..k : ahead[i] \in Tokens
    BY <1>1, <1>2
  <2>2. SubSeq(ahead, 1, k) \in Seq(Tokens) /\ Len(SubSeq(ahead, 1, k)) = IF 1 <= k THEN k - 1 + 1 ELSE 0
    BY <1>2, <2>1, SubSeqProperties
  <2> QED
    BY <1>2, <2>2 DEF Words, Bite
<1>4. b \in Words /\ Len(b) = n - k /\ \A i \in 1..(n - k) : b[i] = ahead[k + i]
  <2>1. \A i \in (k + 1)..n : ahead[i] \in Tokens
    BY <1>1, <1>2
  <2>2. k + 1 \in Int /\ n \in Int
    BY <1>1, <1>2
  <2>3. /\ SubSeq(ahead, k + 1, n) \in Seq(Tokens)
        /\ Len(SubSeq(ahead, k + 1, n)) = IF k + 1 <= n THEN n - (k + 1) + 1 ELSE 0
        /\ \A i \in 1..(n - (k + 1) + 1) : SubSeq(ahead, k + 1, n)[i] = ahead[k + 1 + i - 1]
    BY <2>1, <2>2, SubSeqProperties
  <2> HIDE DEF n, b
  <2>4. n - (k + 1) + 1 = n - k /\ \A i \in 1..(n - k) : k + 1 + i - 1 = k + i
    BY <1>1, <1>2 DEF n
  <2>5. (IF k + 1 <= n THEN n - (k + 1) + 1 ELSE 0) = n - k
    BY <1>1, <1>2 DEF n
  <2> QED
    BY <2>3, <2>4, <2>5 DEF b, Words
<1>5. ahead = a \o b
  <2>1. 1 \in 1..(n + 1) /\ k \in (1 - 1)..n /\ n \in k..n
    BY <1>1, <1>2
  <2>2. SubSeq(ahead, 1, k) \o SubSeq(ahead, k + 1, n) = SubSeq(ahead, 1, n)
    BY <1>1, <2>1, ConcatAdjacentSubSeq
  <2>3. SubSeq(ahead, 1, n) = ahead
    BY <1>1, SubSeqFull
  <2> QED
    BY <2>2, <2>3 DEF Bite
<1> HIDE DEF a, b, n
<1>6. w \o a \in Words /\ Len(w \o a) = Len(w) + k /\ Len(w) \in Nat
  BY <1>3, Join, JoinLen, WordLen
<1>7. read = (w \o a) \o b
  <2>1. Joins3(w, a, b)
    BY <1>3, <1>4, Assoc3
  <2> QED
    BY <1>5, <2>1 DEF Joins3, Sound
<1>8. Room(w \o a, b)
  <2> SUFFICES ASSUME NEW i \in 0..Len(b), i > 0 => b[i] # ZZ PROVE Len(w \o a) + i <= MaxTokens
    BY DEF Room
  <2>1. i \in Nat /\ i <= n - k
    BY <1>1, <1>2, <1>4
  <2>2. k + i \in 0..n
    BY <1>1, <1>2, <2>1
  <2>3. k + i > 0 => ahead[k + i] # ZZ
    <3>1. CASE i = 0
      BY <1>2, <3>1
    <3>2. CASE i > 0
      <4>1. i \in 1..(n - k)
        BY <1>1, <1>2, <2>1, <3>2
      <4> QED
        BY <1>4, <3>2, <4>1
    <3> QED
      BY <2>1, <3>1, <3>2
  <2>4. Len(w) + (k + i) <= MaxTokens
    BY <2>2, <2>3 DEF Sound, Room, n
  <2> QED
    BY <1>2, <1>6, <2>1, <2>4
<1>9. Ends(b)
  <2> SUFFICES ASSUME NEW i \in 1..Len(b), b[i] = ZZ PROVE i = Len(b)
    BY DEF Ends
  <2>1. i \in Nat /\ i > 0 /\ i \in 1..(n - k)
    BY <1>1, <1>2, <1>4
  <2>2. k + i \in 1..n
    BY <1>1, <1>2, <2>1
  <2>3. k + i = n
    BY <1>4, <2>1, <2>2 DEF Sound, Ends, n
  <2> QED
    BY <1>1, <1>2, <1>4, <2>1, <2>3
<1> QED
  BY <1>2, <1>6, <1>7, <1>8, <1>9 DEF Sound, a

LEMMA TookEats ==
    ASSUME IInv, NEW p, NEW r, NEW array
    PROVE  /\ \A k : Took(k, p, r, array) => Taken.p = p /\ Taken.r = r /\ Taken.array = array
           /\ Took(0, p, r, array) => Eats(0) /\ Bite(0) = <<>>
           /\ Took(1, p, r, array) /\ Len(ahead) >= 1 /\ ahead[1] # ZZ => Eats(1) /\ Bite(1) = <<ahead[1]>>
           /\ Took(2, p, r, array) /\ Len(ahead) >= 2 /\ ahead[2] # ZZ => Eats(2) /\ Bite(2) = <<ahead[1], ahead[2]>>
<1>1. Len(ahead) \in Nat
  BY Aheads
<1> QED
  BY <1>1, BiteIs DEF Took, Eats

LEMMA NoneIsNoRule == None \notin Rules /\ \A name \in Rules : (name = None) = FALSE
BY DEF None, Rules

\* A token of another type than the end mark.
LEMMA StartsAre ==
    ASSUME IInv
    PROVE  /\ \A y \in Marks : Starts({y}) => Len(ahead) >= 1 /\ ahead[1] = Mark(y) /\ (y # "#ZZ" => ahead[1] # ZZ)
           /\ Starts(VAL) => Len(ahead) >= 1 /\ ahead[1] \in Tokens /\ IsScalar(ahead[1]) /\ ahead[1] # ZZ
           /\ Starts(KEY) => Len(ahead) >= 1 /\ ahead[1] \in Tokens /\ IsName(ahead[1]) /\ ahead[1] # ZZ
           /\ \A A : \A y \in Marks : StartsTwo(A, {y}) => Starts(A) /\ Len(ahead) >= 2 /\ ahead[2] = Mark(y)
                                                           /\ (y # "#ZZ" => ahead[2] # ZZ)
<1>1. Len(ahead) \in Nat /\ \A i \in 1..Len(ahead) : ahead[i] \in Tokens
  BY Aheads
<1>2. ASSUME NEW t \in Tokens, NEW y \in Marks, t.type = y PROVE t = Mark(y) /\ (y # "#ZZ" => t # ZZ)
  <2>1. y # "#TX" /\ y # "#NR"
    BY DEF Marks
  <2>2. t = Mark(y)
    BY <1>2, <2>1 DEF Tokens, Mark
  <2>3. ZZ.type = "#ZZ"
    BY DEF ZZ, Mark
  <2> QED
    BY <1>2, <2>2, <2>3
<1>3. Len(ahead) >= 1 => ahead[1] \in Tokens
  BY <1>1
<1>4. Len(ahead) >= 2 => ahead[2] \in Tokens
  BY <1>1
<1>5. \A y \in Marks : Starts({y}) => Len(ahead) >= 1 /\ ahead[1] = Mark(y) /\ (y # "#ZZ" => ahead[1] # ZZ)
  BY <1>2, <1>3 DEF Starts
<1>6. Starts(VAL) => Len(ahead) >= 1 /\ ahead[1] \in Tokens /\ IsScalar(ahead[1]) /\ ahead[1] # ZZ
  BY <1>3, Types, TokensApart DEF Starts
<1>7. Starts(KEY) => Len(ahead) >= 1 /\ ahead[1] \in Tokens /\ IsName(ahead[1]) /\ ahead[1] # ZZ
  BY <1>3, Types, TokensApart DEF Starts, IsScalar
<1>8. \A A : \A y \in Marks : StartsTwo(A, {y}) => Starts(A) /\ Len(ahead) >= 2 /\ ahead[2] = Mark(y)
                                                           /\ (y # "#ZZ" => ahead[2] # ZZ)
  BY <1>2, <1>4 DEF StartsTwo
<1> QED
  BY <1>5, <1>6, <1>7, <1>8

-----------------------------------------------------------------------------
(* Opening steps.                                                          *)

Step(w) == \E k : Eats(k) /\ Reads(stack', w \o Bite(k))

LEMMA OpenTop ==
    ASSUME IInv, Ready, NEW w \in Words, Reads(stack, w), Top.state = "open"
    PROVE  Top.child = Undefined /\ (Top.rule = "map" => Top.node = Map(<<>>))
<1>1. Len(stack) \in Nat /\ Len(stack) > 0 /\ Top = stack[Len(stack)]
  BY TopOK
<1>2. \E u \in Words : Part(stack[Len(stack)], u, DepthTo(stack, Len(stack)), TRUE)
  BY <1>1, TopReads
<1> QED
  BY <1>1, <1>2 DEF Part, Begins

LEMMA OpenReads ==
    ASSUME IInv, Open, NEW w \in Words, Reads(stack, w), NEW k, Eats(k), Bite(k) \in Words,
           Taken.p \in {None} \cup Rules,
           Part(Opened, Bite(k), DepthTo(stack, Len(stack)), Taken.p = None)
    PROVE  Step(w)
<1>0. Ready /\ Top.state = "open"
  BY DEF Open
<1>1. Len(stack) \in Nat /\ Len(stack) > 0 /\ Top = stack[Len(stack)]
  BY <1>0, TopOK
<1>2. PICK x \in Words : \E u \in Words :
             /\ w = x \o u /\ Part(stack[Len(stack)], u, DepthTo(stack, Len(stack)), TRUE)
             /\ Continues(stack, Len(stack), x)
  BY <1>1, TopReads
<1>3. PICK u \in Words :
             /\ w = x \o u /\ Part(stack[Len(stack)], u, DepthTo(stack, Len(stack)), TRUE)
             /\ Continues(stack, Len(stack), x)
  BY <1>2
<1>4. u = <<>>
  BY <1>0, <1>1, <1>3 DEF Part, Begins
<1>5. w = x
  BY <1>3, <1>4, EmptyWord
<1>6. Changed(stack, stack', Len(stack), Opened, Taken.p)
  BY OpenChanges
<1>7. Reads(stack', w \o Bite(k))
  BY <1>3, <1>5, <1>6 DEF Continues
<1> QED
  BY <1>7 DEF Step

LEMMA OpenValSound ==
    ASSUME IInv, Open, NEW w \in Words, Reads(stack, w), Top.rule = "val"
    PROVE  Step(w)
<1>1. Lexed /\ Matching # {} /\ Top.state = "open" /\ Ready /\ Depth <= MaxDepth
  BY Aheads DEF Open
<1>2. /\ Opened.rule = "val" /\ Opened.state # "open" /\ Opened.o0 = ahead[1] /\ Opened.child = Undefined
  BY <1>1, OpenChanges, OpenTop
<1>3. Len(ahead) \in Nat
  BY Aheads
<1>4. ASSUME Took(0, "map", None, FALSE) \/ Took(0, "list", None, FALSE) PROVE Step(w)
  <2>1. Eats(0) /\ Bite(0) = <<>> /\ Taken.p # None /\ Taken.p \in {None} \cup Rules
    <3>1. Eats(0) /\ Bite(0) = <<>> /\ (Taken.p = "map" \/ Taken.p = "list")
      BY <1>4, TookEats
    <3> QED
      BY <3>1 DEF Rules, None
  <2>2. Part(Opened, Bite(0), DepthTo(stack, Len(stack)), FALSE)
    BY <1>2, <2>1 DEF Part
  <2>3. (Taken.p = None) = FALSE /\ Bite(0) \in Words
    BY <2>1, EmptyWord
  <2> QED
    BY <2>1, <2>2, <2>3, OpenReads
<1>5. ASSUME Starts(VAL), Took(1, None, None, FALSE) PROVE Step(w)
  <2>1. Len(ahead) >= 1 /\ ahead[1] \in Tokens /\ IsScalar(ahead[1]) /\ ahead[1] # ZZ
    BY <1>5, StartsAre
  <2>2. Eats(1) /\ Bite(1) = <<ahead[1]>> /\ Taken.p = None /\ Taken.p \in {None} \cup Rules
    BY <1>3, <1>5, <2>1, BiteIs DEF Took, Eats
  <2>3. PICK p \in Scalars : p.tokens = <<ahead[1]>> /\ p.value = Rewrap(ahead[1], Scalar(ahead[1].text)) /\ p.depth = 0
    BY <2>1, ScalarSaid
  <2>4. p \in Values /\ p.value = Resolved(Opened)
    BY <1>2, <2>3, ScalarIsValue DEF Resolved
  <2>5. Within(p, DepthTo(stack, Len(stack)))
    BY <1>1, <2>3, DepthOfTop, Whole DEF Within
  <2>6. ValueSaid(Opened, Bite(1), DepthTo(stack, Len(stack)))
    BY <2>2, <2>3, <2>4, <2>5 DEF ValueSaid
  <2>7. Part(Opened, Bite(1), DepthTo(stack, Len(stack)), TRUE)
    BY <1>2, <2>6 DEF Part
  <2>8. (Taken.p = None) = TRUE /\ Bite(1) \in Words
    BY <2>1, <2>2, MarksAreWords
  <2> QED
    BY <2>2, <2>7, <2>8, OpenReads
<1> QED
  BY <1>1, <1>4, <1>5, ValOpenTakes

\* `.{` is read as a struct's where a name comes next: a brace does not.
LEMMA NoEmptyStruct ==
    ASSUME IInv, NEW w \in Words, read = w \o ahead, PeekKept(read)
    PROVE  ~StartsTwo({"#OB"}, {"#CB"})
<1> SUFFICES ASSUME StartsTwo({"#OB"}, {"#CB"}) PROVE FALSE
  OBVIOUS
<1>1. Len(ahead) = 2 /\ ahead[1].type = "#OB" /\ ahead[2].type = "#CB"
  BY Aheads DEF StartsTwo, Starts
<1> DEFINE n == Len(w)
<1>2. /\ n \in Nat /\ Len(read) = n + 2 /\ read \in Seq(Tokens)
      /\ \A i \in 1..(n + 2) : read[i] = IF i <= n THEN w[i] ELSE ahead[i - n]
  <2>1. /\ w \o ahead \in Seq(Tokens) /\ Len(w \o ahead) = Len(w) + Len(ahead)
        /\ \A i \in 1..(Len(w) + Len(ahead)) : (w \o ahead)[i] = IF i <= Len(w) THEN w[i] ELSE ahead[i - Len(w)]
    BY Aheads, WordLen, ConcatProperties
  <2> QED
    BY <1>1, <2>1, WordLen
<1> HIDE DEF n
<1>3. n + 1 \in 1..(n + 2) /\ n + 2 \in 1..(n + 2) /\ (n + 1) + 1 = n + 2 /\ (n + 1) - n = 1 /\ (n + 2) - n = 2
      /\ ~(n + 1 <= n) /\ ~(n + 2 <= n) /\ DOMAIN read = 1..(n + 2)
  BY <1>2
<1>4. read[n + 1] = ahead[1] /\ read[n + 2] = ahead[2]
  BY <1>2, <1>3
<1>5. n + 1 + 1 <= Len(read)
  BY <1>2
<1>6. read[n + 1 + 1].type \in {"#TX", "#BD"}
  BY <1>1, <1>3, <1>4, <1>5 DEF PeekKept
<1> QED
  BY <1>1, <1>3, <1>4, <1>6

LEMMA OpenMapSound ==
    ASSUME IInv, Open, NEW w \in Words, Reads(stack, w), Top.rule = "map", read = w \o ahead, PeekKept(read)
    PROVE  Step(w)
<1>1. Lexed /\ Matching # {} /\ Top.state = "open" /\ Ready
  BY Aheads DEF Open
<1>2. Starts({"#OB"}) /\ Took(1, "pair", None, FALSE)
  BY <1>1, MapOpenTakes, NoEmptyStruct
<1>3. Opened.rule = "map" /\ Opened.state # "open" /\ Opened.node = Map(<<>>)
  BY <1>1, <1>2, OpenChanges, OpenTop DEF Took
<1>4. Len(ahead) >= 1 /\ ahead[1] = Mark("#OB") /\ ahead[1] # ZZ /\ Len(ahead) \in Nat
  BY <1>2, StartsAre, Aheads DEF Marks
<1>5. Eats(1) /\ Bite(1) = <<Brace("map")>> /\ Taken.p # None /\ Taken.p \in {None} \cup Rules
  <2>1. Eats(1) /\ Bite(1) = <<ahead[1]>> /\ Taken.p = "pair"
    BY <1>2, <1>4, TookEats
  <2> QED
    BY <1>4, <2>1 DEF Rules, None, Brace
<1>6. Part(Opened, Bite(1), DepthTo(stack, Len(stack)), FALSE)
  BY <1>3, <1>5 DEF Part, NoneSaid
<1>7. (Taken.p = None) = FALSE /\ Bite(1) \in Words
  BY <1>5, MarksAreWords
<1> QED
  BY <1>5, <1>6, <1>7, OpenReads

LEMMA OpenListSound ==
    ASSUME IInv, Open, NEW w \in Words, Reads(stack, w), Top.rule = "list"
    PROVE  Step(w)
<1>1. Lexed /\ Matching # {} /\ Top.state = "open" /\ Ready /\ Depth <= MaxDepth
  BY Aheads DEF Open
<1>2. Starts({"#OS"}) /\ (Took(1, None, None, TRUE) \/ Took(1, "elem", None, TRUE))
  BY <1>1, ListOpenTakes DEF StartsTwo
<1>3. Opened.rule = "list" /\ Opened.state # "open" /\ Opened.node = List(<<>>)
  BY <1>1, <1>2, OpenChanges DEF Took
<1>4. Len(ahead) >= 1 /\ ahead[1] = Mark("#OS") /\ ahead[1] # ZZ /\ Len(ahead) \in Nat
  BY <1>2, StartsAre, Aheads DEF Marks
<1>5. Eats(1) /\ Bite(1) = <<Brace("list")>> /\ Taken.p \in {None} \cup Rules
  BY <1>2, <1>4, BiteIs DEF Took, Eats, Rules, Brace
<1>6. NoneSaid(Opened, Bite(1)) /\ DepthTo(stack, Len(stack)) <= MaxDepth
  BY <1>1, <1>3, <1>5, DepthOfTop DEF NoneSaid
<1>7. Part(Opened, Bite(1), DepthTo(stack, Len(stack)), FALSE)
  BY <1>3, <1>6 DEF Part
<1>8. Part(Opened, Bite(1), DepthTo(stack, Len(stack)), TRUE)
  BY <1>3, <1>6 DEF Part, AllSaid
<1>9. Bite(1) \in Words
  BY <1>5, MarksAreWords
<1>10. CASE Taken.p = None
  <2>1. (Taken.p = None) = TRUE
    BY <1>10
  <2> QED
    BY <1>5, <1>8, <1>9, <2>1, OpenReads
<1>11. CASE Taken.p # None
  <2>1. (Taken.p = None) = FALSE
    BY <1>11
  <2> QED
    BY <1>5, <1>7, <1>9, <2>1, OpenReads
<1> QED
  BY <1>10, <1>11

LEMMA OpenPairSound ==
    ASSUME IInv, Open, NEW w \in Words, Reads(stack, w), Top.rule = "pair"
    PROVE  Step(w)
<1>1. Lexed /\ Matching # {} /\ Top.state = "open" /\ Ready
  BY Aheads DEF Open
<1>2. StartsTwo(KEY, {"#CL"}) /\ Took(2, "val", None, FALSE)
  BY <1>1, PairOpenTakes
<1>3. Opened.rule = "pair" /\ Opened.state # "open" /\ Opened.o0 = ahead[1]
  BY <1>1, <1>2, OpenChanges
<1>4. /\ Len(ahead) >= 2 /\ ahead[1] \in Tokens /\ IsName(ahead[1]) /\ ahead[2] = CL /\ ahead[2] # ZZ
      /\ Len(ahead) \in Nat /\ Starts(KEY)
  BY <1>2, StartsAre, Aheads DEF Marks, CL
<1>5. PICK text \in Texts : ahead[1] = Named(text)
  BY <1>4 DEF IsName
<1>6. Eats(2) /\ Bite(2) = <<Named(text), CL>> /\ Taken.p # None /\ Taken.p \in {None} \cup Rules
  <2>1. Eats(2) /\ Bite(2) = <<ahead[1], ahead[2]>> /\ Taken.p = "val"
    BY <1>2, <1>4, TookEats
  <2> QED
    BY <1>4, <1>5, <2>1 DEF Rules, None
<1>7. Opened.o0.text = text
  BY <1>3, <1>5 DEF Named
<1>8. Part(Opened, Bite(2), DepthTo(stack, Len(stack)), FALSE)
  BY <1>3, <1>6, <1>7 DEF Part, FieldNamed
<1>9. (Taken.p = None) = FALSE /\ Bite(2) \in Words
  BY <1>6, MarksAreWords
<1> QED
  BY <1>6, <1>8, <1>9, OpenReads

LEMMA OpenElemSound ==
    ASSUME IInv, Open, NEW w \in Words, Reads(stack, w), Top.rule = "elem"
    PROVE  Step(w)
<1>1. Lexed /\ Matching # {} /\ Top.state = "open" /\ Ready
  BY Aheads DEF Open
<1>2. Took(0, "val", None, FALSE)
  BY <1>1, ElemOpenTakes
<1>3. Opened.rule = "elem" /\ Opened.state # "open"
  BY <1>1, OpenChanges
<1>6. Eats(0) /\ Bite(0) = <<>> /\ Taken.p # None /\ Taken.p \in {None} \cup Rules
  <2>1. Eats(0) /\ Bite(0) = <<>> /\ Taken.p = "val"
    BY <1>2, TookEats
  <2> QED
    BY <2>1 DEF Rules, None
<1>8. Part(Opened, Bite(0), DepthTo(stack, Len(stack)), FALSE)
  BY <1>3, <1>6 DEF Part
<1>9. (Taken.p = None) = FALSE /\ Bite(0) \in Words
  BY <1>6, EmptyWord
<1> QED
  BY <1>6, <1>8, <1>9, OpenReads

LEMMA OpenSound ==
    ASSUME IInv, Open, PeekKept(read), NEW w \in Words, Sound(w, ahead, stack, read)
    PROVE  \E x \in Words : Sound(x, ahead', stack', read')
<1>1. Reads(stack, w) /\ read = w \o ahead
  BY DEF Sound
<1>2. Ready /\ ahead' = Rest /\ read' = read
  BY DEF Open
<1>3. Top.rule \in Rules
  BY <1>2, TopOK DEF RuleOK
<1>4. Step(w)
  BY <1>1, <1>3, OpenValSound, OpenMapSound, OpenListSound, OpenPairSound, OpenElemSound DEF Rules
<1>5. PICK k : Eats(k) /\ Reads(stack', w \o Bite(k))
  BY <1>4 DEF Step
<1> QED
  BY <1>2, <1>5, Eaten

-----------------------------------------------------------------------------
(* Closing steps.                                                          *)

LEMMA BelowOK ==
    ASSUME IInv, Ready, Len(stack) > 1
    PROVE  /\ Fits(Parent, Top) /\ RuleOK(Parent) /\ RuleOK(Top) /\ Parent = stack[Len(stack) - 1]
           /\ Top = stack[Len(stack)] /\ Len(stack) \in Nat
           /\ Parent.state = "close" /\ Parent.rule \in Under(Top.rule)
           /\ DepthTo(stack, Len(stack) - 1) \in Nat
           /\ Top.rule \notin Containers => DepthTo(stack, Len(stack)) = DepthTo(stack, Len(stack) - 1)
           /\ Top.rule \in Containers => DepthTo(stack, Len(stack)) = DepthTo(stack, Len(stack) - 1) + 1
<1>1. Len(stack) \in Nat /\ RuleOK(Top)
  BY TopOK
<1> DEFINE n == Len(stack)
           k == Len(stack) - 1
<1>2. k \in 1..n /\ n \in 2..n /\ k \in Nat /\ n = k + 1
  BY <1>1
<1>3. Parent = stack[k] /\ Top = stack[n]
  BY DEF Parent, Top
<1> HIDE DEF k
<1>4. RuleOK(stack[k])
  BY <1>2 DEF IInv, StackOK
<1>5. Fits(stack[n - 1], stack[n])
  BY <1>2 DEF IInv, StackOK
<1>6. Fits(Parent, Top)
  BY <1>3, <1>5 DEF k
<1>7. /\ DepthTo(stack, k) \in Nat
      /\ stack[k + 1].rule \notin Containers => DepthTo(stack, k + 1) = DepthTo(stack, k)
      /\ stack[k + 1].rule \in Containers => DepthTo(stack, k + 1) = DepthTo(stack, k) + 1
  BY <1>2, DepthNext
<1>8. Parent.state = "close" /\ Parent.rule \in Under(Top.rule)
  BY <1>6 DEF Fits
<1> HIDE DEF n
<1>9. /\ DepthTo(stack, k) \in Nat
      /\ Top.rule \notin Containers => DepthTo(stack, n) = DepthTo(stack, k)
      /\ Top.rule \in Containers => DepthTo(stack, n) = DepthTo(stack, k) + 1
  BY <1>2, <1>3, <1>7
<1> QED
  BY <1>1, <1>3, <1>4, <1>6, <1>8, <1>9 DEF n, k

\* The rule below the top, which the top's consumption goes to.
Below(w, x, v, u) ==
    /\ x \in Words /\ v \in Words /\ u \in Words /\ w = (x \o v) \o u
    /\ Part(Top, u, DepthTo(stack, Len(stack)), TRUE)
    /\ Part(Parent, v, DepthTo(stack, Len(stack) - 1), FALSE)
    /\ Continues(stack, Len(stack) - 1, x)

LEMMA TopAndBelow ==
    ASSUME IInv, Ready, Len(stack) > 1, NEW w \in Words, Reads(stack, w)
    PROVE  \E x, v, u : Below(w, x, v, u)
<1>1. Len(stack) \in Nat /\ Parent = stack[Len(stack) - 1] /\ Top = stack[Len(stack)]
  BY BelowOK
<1>2. \E x \in Words : \E v \in Words : \E u \in Words :
             /\ w = (x \o v) \o u /\ Part(stack[Len(stack)], u, DepthTo(stack, Len(stack)), TRUE)
             /\ Part(stack[Len(stack) - 1], v, DepthTo(stack, Len(stack) - 1), FALSE)
             /\ Continues(stack, Len(stack) - 1, x)
  BY <1>1, BelowReads
<1>3. PICK x \in Words : \E v \in Words : \E u \in Words :
             /\ w = (x \o v) \o u /\ Part(stack[Len(stack)], u, DepthTo(stack, Len(stack)), TRUE)
             /\ Part(stack[Len(stack) - 1], v, DepthTo(stack, Len(stack) - 1), FALSE)
             /\ Continues(stack, Len(stack) - 1, x)
  BY <1>2
<1>4. PICK v \in Words : \E u \in Words :
             /\ w = (x \o v) \o u /\ Part(stack[Len(stack)], u, DepthTo(stack, Len(stack)), TRUE)
             /\ Part(stack[Len(stack) - 1], v, DepthTo(stack, Len(stack) - 1), FALSE)
             /\ Continues(stack, Len(stack) - 1, x)
  BY <1>3
<1>5. PICK u \in Words :
             /\ w = (x \o v) \o u /\ Part(stack[Len(stack)], u, DepthTo(stack, Len(stack)), TRUE)
             /\ Part(stack[Len(stack) - 1], v, DepthTo(stack, Len(stack) - 1), FALSE)
             /\ Continues(stack, Len(stack) - 1, x)
  BY <1>4
<1>6. Below(w, x, v, u)
  BY <1>1, <1>5 DEF Below
<1> QED
  BY <1>6

LEMMA BelowStep ==
    ASSUME NEW w, NEW x, NEW v, NEW u, Below(w, x, v, u),
           NEW k, Bite(k) \in Words, NEW r, NEW name \in {None} \cup Rules,
           Changed(stack, stack', Len(stack) - 1, r, name),
           Part(r, (v \o u) \o Bite(k), DepthTo(stack, Len(stack) - 1), name = None)
    PROVE  Reads(stack', w \o Bite(k))
<1> DEFINE b == Bite(k)
           y == (v \o u) \o b
<1>1. x \in Words /\ v \in Words /\ u \in Words /\ b \in Words /\ w = (x \o v) \o u
  BY DEF Below
<1> HIDE DEF b
<1>2. v \o u \in Words /\ y \in Words
  <2>1. v \o u \in Words
    BY <1>1, Join
  <2> QED
    BY <1>1, <2>1, Join
<1>3. Continues(stack, Len(stack) - 1, x)
  BY DEF Below
<1> HIDE DEF y
<1>4. Reads(stack', x \o y)
  BY <1>2, <1>3 DEF Continues, y, b
<1>5. Joins3(x, v, u) /\ Joins3(x, v \o u, b)
  BY <1>1, <1>2, Assoc3
<1>6. x \o y = w \o b
  BY <1>1, <1>5 DEF Joins3, y
<1> QED
  BY <1>4, <1>6 DEF b

LEMMA BelowLen ==
    ASSUME IInv, NEW w, NEW x, NEW v, NEW u, Below(w, x, v, u), Room(w, ahead)
    PROVE  /\ Len(v) \in Nat /\ Len(u) \in Nat /\ Len(v) + Len(u) <= MaxTokens
           /\ Len(ahead) >= 1 /\ ahead[1] # ZZ => Len(u) + 1 <= MaxTokens
<1>1. x \in Words /\ v \in Words /\ u \in Words /\ w = (x \o v) \o u
  BY DEF Below
<1>2. x \o v \in Words
  BY <1>1, Join
<1>3. Len(w) = (Len(x) + Len(v)) + Len(u) /\ Len(x) \in Nat /\ Len(v) \in Nat /\ Len(u) \in Nat
  BY <1>1, <1>2, JoinLen, WordLen
<1> DEFINE n == Len(ahead)
           lw == Len(w)
           lx == Len(x)
           lv == Len(v)
           lu == Len(u)
<1>4. n \in Nat
  BY Aheads
<1>5. \A i \in 0..n : (i > 0 => ahead[i] # ZZ) => lw + i <= MaxTokens
  BY DEF Room
<1>6. lw = (lx + lv) + lu /\ lx \in Nat /\ lv \in Nat /\ lu \in Nat
  BY <1>3
<1> HIDE DEF n, lw, lx, lv, lu
<1>7. lw + 0 <= MaxTokens
  BY <1>4, <1>5
<1>8. n >= 1 /\ ahead[1] # ZZ => lw + 1 <= MaxTokens
  BY <1>4, <1>5
<1>9. lv + lu <= MaxTokens /\ (n >= 1 /\ ahead[1] # ZZ => lu + 1 <= MaxTokens)
  BY <1>6, <1>7, <1>8, Whole
<1> QED
  BY <1>6, <1>9 DEF n, lv, lu

LEMMA CloseValSound ==
    ASSUME IInv, CloseVal, Len(stack) > 1, NEW w \in Words, Sound(w, ahead, stack, read)
    PROVE  Step(w)
<1>1. Ready /\ Top.rule = "val" /\ Top.state = "close" /\ Lexed
  BY Aheads DEF CloseVal, Closing
<1>2. Took(0, None, None, FALSE)
  BY <1>1, ValCloseTakes
<1>3. Eats(0) /\ Bite(0) = <<>> /\ Bite(0) \in Words
  BY <1>2, TookEats, EmptyWord
<1>4. Len(stack) # 1
  OBVIOUS
<1>5. /\ stack' = [SubSeq(stack, 1, Len(stack) - 1) EXCEPT ![Len(stack) - 1].child = Resolved(Top)]
  BY <1>4 DEF CloseVal, Resolved
<1> DEFINE node == Resolved(Top)
           r == Holding(node)
           P == DepthTo(stack, Len(stack) - 1)
<1>6. /\ Changed(stack, stack', Len(stack) - 1, r, None)
      /\ r.rule = Parent.rule /\ r.state = Parent.state /\ r.o0 = Parent.o0 /\ r.child = node
  BY <1>1, <1>5, ChildChanges
<1>7. PICK x, v, u : Below(w, x, v, u)
  BY <1>1, TopAndBelow DEF Sound
<1>8. /\ Parent.state = "close" /\ Parent.rule \in {"pair", "elem"} /\ DepthTo(stack, Len(stack)) = P
  BY <1>1, BelowOK DEF Under, Containers
<1>9. x \in Words /\ v \in Words /\ u \in Words
  BY <1>7 DEF Below
<1>10. PICK p \in Values : u = p.tokens /\ p.value = node /\ Within(p, P)
  <2>1. ValueSaid(Top, u, P)
    BY <1>1, <1>7, <1>8 DEF Below, Part
  <2> QED
    BY <2>1 DEF ValueSaid
<1> HIDE DEF node, r
<1>11. Part(r, v \o u, P, TRUE)
  <2>1. CASE Parent.rule = "pair"
    <3>1. Parent.o0.text \in Texts /\ v = <<Named(Parent.o0.text), CL>>
      BY <1>7, <1>8, <2>1 DEF Below, Part, FieldNamed
    <3>2. Field(Parent.o0.text, p).tokens = v \o u
      BY <1>10, <3>1, FieldIs, ValuesFine DEF Named, CL
    <3>3. PairSaid(r, v \o u, P) /\ r.o0.text \in Texts
      BY <1>6, <1>10, <3>1, <3>2 DEF PairSaid
    <3> QED
      BY <1>6, <1>8, <2>1, <3>3 DEF Part
  <2>2. CASE Parent.rule = "elem"
    <3>1. v = <<>>
      BY <1>7, <1>8, <2>2 DEF Below, Part
    <3>2. v \o u = u
      BY <1>9, <3>1, EmptyWord
    <3>3. ElemSaid(r, v \o u, P)
      BY <1>6, <1>10, <3>2 DEF ElemSaid
    <3> QED
      BY <1>6, <1>8, <2>2, <3>3 DEF Part
  <2> QED
    BY <1>8, <2>1, <2>2
<1>12. (v \o u) \o Bite(0) = v \o u
  <2>1. v \o u \in Words
    BY <1>9, Join
  <2> QED
    BY <1>3, <2>1, EmptyWord
<1>13. Reads(stack', w \o Bite(0))
  <2>1. (None = None) = TRUE
    OBVIOUS
  <2>2. Part(r, (v \o u) \o Bite(0), DepthTo(stack, Len(stack) - 1), None = None)
    BY <1>11, <1>12, <2>1
  <2> QED
    BY <1>3, <1>6, <1>7, <2>2, BelowStep
<1> QED
  BY <1>3, <1>13 DEF Step

LEMMA CloseContainerSound ==
    ASSUME IInv, NEW rule \in Containers, CloseContainer(rule), NEW w \in Words, Sound(w, ahead, stack, read)
    PROVE  Step(w)
<1>1. Ready /\ Top.rule = rule /\ Top.state = "close" /\ Lexed /\ Matching # {}
  BY Aheads DEF CloseContainer, Closing
<1>2. Starts({"#CB"}) /\ Took(1, None, None, FALSE)
  BY <1>1, MapCloseTakes, ListCloseTakes DEF Containers
<1>3. Len(ahead) >= 1 /\ ahead[1] = CB /\ ahead[1] # ZZ
  BY <1>2, StartsAre DEF Marks, CB
<1>4. Eats(1) /\ Bite(1) = <<CB>> /\ Bite(1) \in Words
  BY <1>2, <1>3, TookEats, MarksAreWords
<1>5. stack' = [SubSeq(stack, 1, Len(stack) - 1) EXCEPT ![Len(stack) - 1].child = Top.node]
  BY DEF CloseContainer
<1>l. Len(stack) > 1
  BY <1>1, TopOK DEF Containers
<1> DEFINE r == Holding(Top.node)
           P == DepthTo(stack, Len(stack) - 1)
<1>6. /\ Changed(stack, stack', Len(stack) - 1, r, None)
      /\ r.rule = Parent.rule /\ r.state = Parent.state /\ r.child = Top.node
  BY <1>1, <1>5, <1>l, ChildChanges
<1>7. PICK x, v, u : Below(w, x, v, u)
  BY <1>1, <1>l, TopAndBelow DEF Sound
<1>8. /\ Parent.state = "close" /\ Parent.rule = "val" /\ DepthTo(stack, Len(stack)) = P + 1 /\ P \in Nat
  BY <1>1, <1>l, BelowOK DEF Under, Containers
<1>9. x \in Words /\ v \in Words /\ u \in Words
  BY <1>7 DEF Below
<1>10. AllSaid(Top, u, P + 1)
  BY <1>1, <1>7, <1>8 DEF Below, Part, Containers
<1>11. Len(u) + 1 <= MaxTokens
  BY <1>3, <1>7, BelowLen DEF Sound
<1>12. PICK p \in Values : u \o <<CB>> = p.tokens /\ p.value = Top.node /\ Within(p, P) /\ p.value # Undefined
  <2> HIDE DEF P
  <2> QED
    BY <1>1, <1>8, <1>9, <1>10, <1>11, ContainerSaid
<1>13. v = <<>>
  BY <1>7, <1>8 DEF Below, Part
<1> HIDE DEF r
<1>14. Part(r, (v \o u) \o Bite(1), P, TRUE)
  <2>1. v \o u = u
    BY <1>9, <1>13, EmptyWord
  <2>2. Resolved(r) = Top.node
    BY <1>6, <1>12 DEF Resolved
  <2>3. ValueSaid(r, (v \o u) \o Bite(1), P)
    BY <1>4, <1>12, <2>1, <2>2 DEF ValueSaid
  <2> QED
    BY <1>6, <1>8, <2>3 DEF Part
<1>15. Reads(stack', w \o Bite(1))
  <2>1. (None = None) = TRUE
    OBVIOUS
  <2> QED
    BY <1>4, <1>6, <1>7, <1>14, <2>1, BelowStep
<1> QED
  BY <1>4, <1>15 DEF Step

\* A member m that the top has read is put in the container below.
LEMMA AddedSound ==
    ASSUME IInv, Ready, Len(stack) > 1, NEW node, Added(node), Parent.rule \in Containers,
           NEW w \in Words, Sound(w, ahead, stack, read), NEW x, NEW v, NEW u, Below(w, x, v, u),
           NEW m, One(m), m.tokens = u, m.value.kind = Parent.rule,
           Within(m, DepthTo(stack, Len(stack) - 1)),
           Keys(Parent.node) \cap Keys(m.value) = {},
           node = Longer2(Parent.rule, Parent.node, m.value),
           NEW again \in Rules,
           \/ StartsTwo({"#CA"}, {"#CB"}) /\ Took(1, None, None, FALSE)
           \/ Starts({"#CA"}) /\ Took(1, None, again, FALSE)
           \/ Starts({"#CB"}) /\ Took(0, None, None, FALSE)
    PROVE  Step(w)
<1> DEFINE r == Growing(node)
           P == DepthTo(stack, Len(stack) - 1)
<1>1. /\ Changed(stack, stack', Len(stack) - 1, r, Taken.r)
      /\ r.rule = Parent.rule /\ r.state = Parent.state /\ r.node = node
  BY AddedChanges
<1>2. Parent.state = "close" /\ P \in Nat
  BY BelowOK
<1>3. x \in Words /\ v \in Words /\ u \in Words /\ v \o u \in Words
  <2>1. x \in Words /\ v \in Words /\ u \in Words
    BY DEF Below
  <2> QED
    BY <2>1, Join
<1>4. NoneSaid(Parent, v) \/ MoreSaid(Parent, v, P)
  BY <1>2 DEF Below, Part, Containers
<1>5. Len(v) + Len(m.tokens) <= MaxTokens
  BY BelowLen DEF Sound
<1> HIDE DEF r, P
<1>w. Within(m, P)
  BY DEF P
<1>6. /\ Part(r, v \o u, P, TRUE)
      /\ Part(r, (v \o u) \o <<CA>>, P, TRUE)
      /\ Part(r, (v \o u) \o <<CA>>, P, FALSE)
  BY <1>1, <1>2, <1>3, <1>4, <1>5, <1>w, AddedParts
<1>7. CASE Took(1, None, None, FALSE) /\ Starts({"#CA"})
  <2>1. Len(ahead) >= 1 /\ ahead[1] = CA /\ ahead[1] # ZZ
    BY <1>7, StartsAre DEF Marks, CA
  <2>2. Eats(1) /\ Bite(1) = <<CA>> /\ Bite(1) \in Words /\ Taken.r = None
    BY <1>7, <2>1, TookEats, MarksAreWords
  <2>3. Reads(stack', w \o Bite(1))
    <3>1. (None = None) = TRUE
      OBVIOUS
    <3>2. Part(r, (v \o u) \o Bite(1), DepthTo(stack, Len(stack) - 1), None = None)
      BY <1>6, <2>2, <3>1 DEF P
    <3> QED
      BY <1>1, <2>2, <3>2, BelowStep
  <2> QED
    BY <2>2, <2>3 DEF Step
<1>8. CASE Starts({"#CA"}) /\ Took(1, None, again, FALSE)
  <2>1. Len(ahead) >= 1 /\ ahead[1] = CA /\ ahead[1] # ZZ
    BY <1>8, StartsAre DEF Marks, CA
  <2>2. Eats(1) /\ Bite(1) = <<CA>> /\ Bite(1) \in Words /\ Taken.r = again
    BY <1>8, <2>1, TookEats, MarksAreWords
  <2>3. Reads(stack', w \o Bite(1))
    <3>1. (again = None) = FALSE
      BY NoneIsNoRule
    <3>2. Part(r, (v \o u) \o Bite(1), DepthTo(stack, Len(stack) - 1), again = None)
      BY <1>6, <2>2, <3>1 DEF P
    <3> QED
      BY <1>1, <2>2, <3>2, BelowStep
  <2> QED
    BY <2>2, <2>3 DEF Step
<1>9. CASE Starts({"#CB"}) /\ Took(0, None, None, FALSE)
  <2>2. Eats(0) /\ Bite(0) = <<>> /\ Bite(0) \in Words /\ Taken.r = None
    BY <1>9, TookEats, EmptyWord
  <2>3. Reads(stack', w \o Bite(0))
    <3>1. (None = None) = TRUE
      OBVIOUS
    <3>2. (v \o u) \o Bite(0) = v \o u
      BY <1>3, <2>2, EmptyWord
    <3>3. Part(r, (v \o u) \o Bite(0), DepthTo(stack, Len(stack) - 1), None = None)
      BY <1>6, <2>2, <3>1, <3>2 DEF P
    <3> QED
      BY <1>1, <2>2, <3>3, BelowStep
  <2> QED
    BY <2>2, <2>3 DEF Step
<1> QED
  BY <1>7, <1>8, <1>9 DEF StartsTwo

LEMMA AppendJoins == ASSUME NEW s, Sequential(s), NEW e PROVE Append(s, e) = s \o <<e>>
<1>1. PICK S : s \in Seq(S)
  BY DEF Sequential
<1>2. s \in Seq(S \cup {e}) /\ e \in S \cup {e}
  BY <1>1
<1> QED
  BY <1>2, AppendIsConcat

\* The node of a container that awaits a member: a sequence of them.
LEMMA AwaitingNode ==
    ASSUME NEW r, NEW v, NEW d, NoneSaid(r, v) \/ MoreSaid(r, v, d), r.rule \in Containers
    PROVE  /\ r.rule = "map"  => Sequential(r.node.fields) /\ r.node = Map(r.node.fields)
           /\ r.rule = "list" => Sequential(r.node.items) /\ r.node = List(r.node.items)
<1>1. Sequential(<<>>)
  <2>1. <<>> \in Seq({})
    OBVIOUS
  <2> QED
    BY <2>1 DEF Sequential
<1>2. CASE NoneSaid(r, v)
  BY <1>1, <1>2, Kinds DEF NoneSaid, Containers
<1>3. CASE MoreSaid(r, v, d)
  <2>1. PICK m \in Groups : Members(r, m, d)
    BY <1>3 DEF MoreSaid
  <2>2. m.value = r.node /\ m.value.kind = r.rule /\ Running(m)
    BY <2>1, GroupsFine DEF Members
  <2>3. CASE Listed(m)
    <3>1. PICK items : Sequential(items) /\ m.value = List(items)
      BY <2>3 DEF Listed
    <3> QED
      BY <2>2, <3>1, Kinds
  <2>4. CASE Mapped(m)
    <3>1. PICK fields : Sequential(fields) /\ m.value = Map(fields)
      BY <2>4 DEF Mapped
    <3> QED
      BY <2>2, <3>1, Kinds
  <2> QED
    BY <2>2, <2>3, <2>4 DEF Running
<1> QED
  BY <1>2, <1>3

LEMMA ClosePairSound ==
    ASSUME IInv, ClosePair, NEW w \in Words, Sound(w, ahead, stack, read)
    PROVE  Step(w)
<1> DEFINE key == Top.o0.text
           node == Assign(Parent.node, key, Top.child)
           P == DepthTo(stack, Len(stack) - 1)
<1>1. Ready /\ Top.rule = "pair" /\ Top.state = "close" /\ Lexed /\ Matching # {} /\ ~Duplicate /\ Added(node)
  BY Aheads DEF ClosePair, Closing
<1>2. Len(stack) > 1 /\ Parent.rule = "map" /\ Parent.rule \in Containers /\ Parent.state = "close"
      /\ DepthTo(stack, Len(stack)) = P
  <2>1. Len(stack) > 1
    BY <1>1, TopOK
  <2> QED
    BY <1>1, <2>1, BelowOK DEF Under, Containers
<1>3. PICK x, v, u : Below(w, x, v, u)
  BY <1>1, <1>2, TopAndBelow DEF Sound
<1>4. key \in Texts /\ PairSaid(Top, u, P)
  BY <1>1, <1>2, <1>3 DEF Below, Part
<1>5. PICK p \in Values : u = Field(key, p).tokens /\ p.value = Top.child /\ Within(p, P)
  BY <1>4 DEF PairSaid
<1> DEFINE m == Field(key, p)
           f == [key |-> key, value |-> p.value]
<1>6. One(m) /\ Keys(m.value) = {key} /\ m.value.kind = "map" /\ m.depth = p.depth /\ m.value = Map(<<f>>)
  BY <1>4, <1>5, KeysOfOne, FieldIs, ValuesFine DEF One
<1>7. Within(m, P)
  BY <1>5, <1>6 DEF Within
<1>8. NoneSaid(Parent, v) \/ MoreSaid(Parent, v, P)
  BY <1>2, <1>3 DEF Below, Part
<1>9. Sequential(Parent.node.fields) /\ Parent.node = Map(Parent.node.fields)
  BY <1>2, <1>8, AwaitingNode
<1>10. ~HasField(Parent.node, key)
  BY <1>1 DEF Duplicate
<1>11. Parent.node.kind = "map"
  BY <1>9, Kinds
<1>12. Keys(Parent.node) \cap Keys(m.value) = {}
  BY <1>6, <1>10, <1>11, KeysHas
<1>13. node = Longer2(Parent.rule, Parent.node, m.value)
  <2>1. node = Map(Append(Parent.node.fields, f))
    BY <1>5, <1>10 DEF Assign
  <2>2. Append(Parent.node.fields, f) = Parent.node.fields \o <<f>>
    BY <1>9, AppendJoins
  <2>3. m.value.fields = <<f>>
    BY <1>6, Kinds
  <2> QED
    BY <1>2, <2>1, <2>2, <2>3 DEF Longer2
<1>14. \/ StartsTwo({"#CA"}, {"#CB"}) /\ Took(1, None, None, FALSE)
       \/ Starts({"#CA"}) /\ Took(1, None, "pair", FALSE)
       \/ Starts({"#CB"}) /\ Took(0, None, None, FALSE)
  BY <1>1, PairCloseTakes
<1>15. "pair" \in Rules
  BY DEF Rules
<1> HIDE DEF node, m
<1> QED
  BY <1>1, <1>2, <1>3, <1>5, <1>6, <1>7, <1>12, <1>13, <1>14, <1>15, AddedSound DEF m

LEMMA CloseElemSound ==
    ASSUME IInv, CloseElem, NEW w \in Words, Sound(w, ahead, stack, read)
    PROVE  Step(w)
<1> DEFINE node == List(Append(Parent.node.items, Top.child))
           P == DepthTo(stack, Len(stack) - 1)
<1>1. Ready /\ Top.rule = "elem" /\ Top.state = "close" /\ Lexed /\ Matching # {} /\ Added(node)
  BY Aheads DEF CloseElem, Closing
<1>2. Len(stack) > 1 /\ Parent.rule = "list" /\ Parent.rule \in Containers /\ Parent.state = "close"
      /\ DepthTo(stack, Len(stack)) = P
  <2>1. Len(stack) > 1
    BY <1>1, TopOK
  <2> QED
    BY <1>1, <2>1, BelowOK DEF Under, Containers
<1>3. PICK x, v, u : Below(w, x, v, u)
  BY <1>1, <1>2, TopAndBelow DEF Sound
<1>4. ElemSaid(Top, u, P)
  BY <1>1, <1>2, <1>3 DEF Below, Part
<1>5. PICK p \in Values : u = p.tokens /\ p.value = Top.child /\ Within(p, P)
  BY <1>4 DEF ElemSaid
<1> DEFINE m == Item(p)
           f == p.value
<1>6. One(m) /\ Keys(m.value) = {} /\ m.value.kind = "list" /\ m.depth = p.depth /\ m.value = List(<<f>>)
      /\ m.tokens = u
  BY <1>5, KeysOfItem, ItemIs, ValuesFine DEF One
<1>7. Within(m, P)
  BY <1>5, <1>6 DEF Within
<1>8. NoneSaid(Parent, v) \/ MoreSaid(Parent, v, P)
  BY <1>2, <1>3 DEF Below, Part
<1>9. Sequential(Parent.node.items) /\ Parent.node = List(Parent.node.items)
  BY <1>2, <1>8, AwaitingNode
<1>12. Keys(Parent.node) \cap Keys(m.value) = {}
  BY <1>6
<1>13. node = Longer2(Parent.rule, Parent.node, m.value)
  <2>1. node = List(Append(Parent.node.items, f))
    BY <1>5
  <2>2. Append(Parent.node.items, f) = Parent.node.items \o <<f>>
    BY <1>9, AppendJoins
  <2>3. m.value.items = <<f>>
    BY <1>6, Kinds
  <2> QED
    BY <1>2, <2>1, <2>2, <2>3 DEF Longer2
<1>14. \/ StartsTwo({"#CA"}, {"#CB"}) /\ Took(1, None, None, FALSE)
       \/ Starts({"#CA"}) /\ Took(1, None, "elem", FALSE)
       \/ Starts({"#CB"}) /\ Took(0, None, None, FALSE)
  BY <1>1, ElemCloseTakes
<1>15. "elem" \in Rules
  BY DEF Rules
<1> HIDE DEF node, m
<1> QED
  BY <1>1, <1>2, <1>3, <1>6, <1>7, <1>12, <1>13, <1>14, <1>15, AddedSound

-----------------------------------------------------------------------------
(* What is accepted is a document.                                         *)

\* What has been read is what the rules of the stack have consumed, each of
\* them the part of a document that it says, and what is ahead.
SInv ==
    /\ IInv /\ PeekKept(read) /\ AcceptsDocuments
    /\ status = "parsing" => \E w \in Words : Sound(w, ahead, stack, read)

LEMMA SInvInit == Init => SInv
<1> SUFFICES ASSUME Init PROVE SInv
  OBVIOUS
<1> DEFINE r == Rule("val")
           s == <<r>>
           pre == [i \in 1..1 |-> <<>>]
<1>1. ahead = <<>> /\ read = <<>> /\ stack = s /\ status = "parsing"
  BY DEF Init
<1>2. Len(s) = 1 /\ s[1] = r
  OBVIOUS
<1>3. Part(r, <<>>, DepthTo(s, 1), TRUE)
  BY RuleBegins DEF Rules
<1>4. <<>> \in Words /\ <<>> \o <<>> = <<>> /\ pre[1] = <<>>
  BY EmptyWord
<1> HIDE DEF r, s, pre
<1>5. Levels(s, pre, pre)
  <2>1. \A i \in 1..Len(s) : i = 1
    BY <1>2
  <2>2. \A i \in 1..Len(s) : pre[i] \in Words /\ Part(s[i], pre[i], DepthTo(s, i), i = Len(s))
    <3> SUFFICES ASSUME NEW i \in 1..Len(s) PROVE pre[i] \in Words /\ Part(s[i], pre[i], DepthTo(s, i), i = Len(s))
      OBVIOUS
    <3>1. i = 1 /\ (i = Len(s)) = TRUE
      BY <1>2, <2>1
    <3> QED
      BY <1>2, <1>3, <1>4, <3>1
  <2>3. \A i \in 2..Len(s) : FALSE
    BY <1>2
  <2> QED
    BY <1>4, <2>2, <2>3 DEF Levels
<1>6. Reads(s, <<>>)
  BY <1>2, <1>4, <1>5 DEF Reads
<1>7. Room(<<>>, <<>>) /\ Ends(<<>>)
  <2>1. Len(<<>>) = 0 /\ \A i \in 0..0 : i = 0
    OBVIOUS
  <2>2. \A i \in 0..Len(<<>>) : Len(<<>>) + i <= MaxTokens
    BY <2>1, Whole
  <2>3. \A i \in 1..Len(<<>>) : FALSE
    BY <2>1
  <2> QED
    BY <2>2, <2>3 DEF Room, Ends
<1>8. \E w \in Words : Sound(w, ahead, stack, read)
  BY <1>1, <1>4, <1>6, <1>7 DEF Sound
<1>9. PeekKept(read)
  <2>1. DOMAIN <<>> = {}
    OBVIOUS
  <2> QED
    BY <1>1, <2>1 DEF PeekKept
<1> QED
  BY <1>1, <1>8, <1>9, InitHolds DEF SInv, AcceptsDocuments

LEMMA LexSound ==
    ASSUME IInv, NEW t \in Tokens, Lex(t), NEW w \in Words, Sound(w, ahead, stack, read)
    PROVE  Sound(w, ahead', stack', read')
<1> DEFINE y == <<t>>
           n == Len(ahead)
           a2 == ahead \o y
<1>1. ahead \in Words /\ ahead \in Seq(Tokens) /\ n \in Nat /\ read \in Seq(Tokens)
  BY Aheads DEF IInv
<1>2. y \in Words /\ ahead' = a2 /\ read' = read \o y /\ stack' = stack
  <2>1. ahead' = Append(ahead, t) /\ read' = Append(read, t) /\ stack' = stack
    BY DEF Lex
  <2> QED
    BY <1>1, <2>1, AppendIsConcat, MarksAreWords
<1>3. Len(a2) = n + 1 /\ a2[n + 1] = t /\ \A i \in 1..n : a2[i] = ahead[i]
  BY <1>1
<1>4. read = w \o ahead /\ Room(w, ahead) /\ Ends(ahead) /\ Reads(stack, w)
  BY DEF Sound
<1>5. Len(read) = Len(w) + n /\ Len(w) \in Nat
  BY <1>1, <1>4, JoinLen, WordLen
<1>6. t.type = "#ZZ" \/ Len(read) < MaxTokens
  BY DEF Lex
<1>7. \A i \in 1..n : ahead[i].type # "#ZZ"
  <2>1. DOMAIN ahead = 1..n
    BY <1>1
  <2> QED
    BY <2>1 DEF Lex
<1>8. \A i \in 1..n : ahead[i] # ZZ
  <2>1. ZZ.type = "#ZZ"
    BY DEF ZZ, Mark
  <2> QED
    BY <1>7, <2>1
<1>9. t # ZZ => Len(read) < MaxTokens
  BY <1>6, Types
<1> HIDE DEF n, a2, y
<1>10. Room(w, a2)
  <2> SUFFICES ASSUME NEW i \in 0..Len(a2), i > 0 => a2[i] # ZZ PROVE Len(w) + i <= MaxTokens
    BY DEF Room
  <2>1. CASE i = n + 1
    BY <1>1, <1>3, <1>5, <1>9, <2>1, Whole
  <2>2. CASE i \in 0..n
    <3>1. i > 0 => i \in 1..n
      BY <1>1, <2>2
    <3>2. i > 0 => ahead[i] # ZZ
      BY <1>8, <3>1
    <3> QED
      BY <1>4, <2>2, <3>2 DEF Room, n
  <2> QED
    BY <1>1, <1>3, <2>1, <2>2
<1>11. Ends(a2)
  <2> SUFFICES ASSUME NEW i \in 1..Len(a2), a2[i] = ZZ PROVE i = Len(a2)
    BY DEF Ends
  <2>1. i = n + 1 \/ i \in 1..n
    BY <1>1, <1>3
  <2>2. i \notin 1..n
    BY <1>3, <1>8
  <2> QED
    BY <1>3, <2>1, <2>2
<1>12. read' = w \o a2
  <2>1. Joins3(w, ahead, y)
    BY <1>1, <1>2, Assoc3
  <2> QED
    BY <1>2, <1>4, <2>1 DEF Joins3, a2
<1> QED
  BY <1>2, <1>4, <1>10, <1>11, <1>12 DEF Sound

\* At the end of the source the value read is the document's.
LEMMA AcceptedSound ==
    ASSUME IInv, CloseVal, Len(stack) = 1, NEW w \in Words, Sound(w, ahead, stack, read),
           status' = "accepted"
    PROVE  [tokens |-> read, value |-> result'] \in Documents
<1>1. Ready /\ Top.rule = "val" /\ Top.state = "close" /\ Lexed
  BY Aheads DEF CloseVal, Closing
<1>2. result' = Resolved(Top) /\ ahead[1].type = "#ZZ"
  BY DEF CloseVal, Resolved
<1>3. Len(ahead) = 1 \/ Len(ahead) = 2
  BY <1>1 DEF Ready
<1>4. ahead[1] = ZZ
  <2>1. ahead[1] \in Tokens
    BY <1>3, Aheads
  <2> QED
    BY <1>2, <2>1, Types
<1>5. Len(ahead) = 1
  <2>1. 1 \in 1..Len(ahead)
    BY <1>3
  <2> QED
    BY <1>4, <2>1 DEF Sound, Ends
<1>6. ahead = <<ZZ>>
  <2>1. Bite(1) = <<ahead[1]>>
    BY <1>5, BiteIs
  <2>2. Bite(1) = ahead
    BY <1>5, Aheads, SubSeqFull DEF Bite
  <2> QED
    BY <1>4, <2>1, <2>2
<1>7. PICK pre, seg : Levels(stack, pre, seg) /\ pre[Len(stack)] \o seg[Len(stack)] = w
  BY DEF Sound, Reads
<1>8. pre[1] = <<>> /\ seg[1] \in Words /\ Part(stack[1], seg[1], DepthTo(stack, 1), TRUE)
  <2>1. 1 \in 1..Len(stack) /\ (1 = Len(stack)) = TRUE
    OBVIOUS
  <2> QED
    BY <1>7, <2>1 DEF Levels
<1>9. w = seg[1]
  BY <1>7, <1>8, EmptyWord
<1>10. ValueSaid(Top, w, DepthTo(stack, 1))
  BY <1>1, <1>8, <1>9 DEF Part, Top
<1>11. PICK p \in Values : w = p.tokens /\ p.value = Resolved(Top)
  BY <1>10 DEF ValueSaid
<1>12. read = p.tokens \o <<Mark("#ZZ")>>
  BY <1>6, <1>11 DEF Sound, ZZ
<1> QED
  BY <1>2, <1>11, <1>12 DEF Documents, Values, Vals

LEMMA SInvStep == SInv /\ [Next]_vars => SInv'
<1> SUFFICES ASSUME SInv, [Next]_vars PROVE SInv'
  OBVIOUS
<1>1. IInv /\ PeekKept(read) /\ AcceptsDocuments
  BY DEF SInv
<1>2. IInv'
  BY <1>1, StepKeeps
<1>3. CASE \E t \in Tokens : Lex(t)
  <2>1. PICK t \in Tokens : Lex(t)
    BY <1>3
  <2>2. status = "parsing" /\ status' = status /\ PeekKept(read')
    BY <2>1 DEF Lex
  <2>3. PICK w \in Words : Sound(w, ahead, stack, read)
    BY <2>2 DEF SInv
  <2>4. Sound(w, ahead', stack', read')
    BY <1>1, <2>1, <2>3, LexSound
  <2> QED
    BY <1>2, <2>2, <2>4 DEF SInv, AcceptsDocuments
<1>4. ASSUME UNCHANGED <<read, status, result>>, status = "parsing", ahead' = Rest,
             \A w \in Words : Sound(w, ahead, stack, read) => Step(w)
      PROVE  SInv'
  <2>1. PICK w \in Words : Sound(w, ahead, stack, read)
    BY <1>4 DEF SInv
  <2>2. PICK k : Eats(k) /\ Reads(stack', w \o Bite(k))
    BY <1>4, <2>1 DEF Step
  <2>3. w \o Bite(k) \in Words /\ Sound(w \o Bite(k), ahead', stack', read')
    BY <1>1, <1>4, <2>1, <2>2, Eaten
  <2> QED
    BY <1>1, <1>2, <1>4, <2>3 DEF SInv, AcceptsDocuments
<1>5. CASE Open
  <2>1. status = "parsing" /\ UNCHANGED <<read, status, result>>
    BY <1>5 DEF Open, Ready
  <2>2. PICK w \in Words : Sound(w, ahead, stack, read)
    BY <2>1 DEF SInv
  <2>3. \E x \in Words : Sound(x, ahead', stack', read')
    BY <1>1, <1>5, <2>2, OpenSound
  <2> QED
    BY <1>1, <1>2, <2>1, <2>3 DEF SInv, AcceptsDocuments
<1>6. CASE Unexpected \/ Cancel \/ DuplicateField
  <2>1. status' \in {"unexpected", "cancel", "zon_dup_field"} /\ read' = read
    BY <1>6 DEF Unexpected, Cancel, DuplicateField, Fail
  <2> QED
    BY <1>1, <1>2, <2>1 DEF SInv, AcceptsDocuments
<1>7. CASE CloseVal
  <2>1. status = "parsing" /\ read' = read /\ ahead' = Rest /\ Len(stack) \in Nat /\ Len(stack) > 0
    <3>1. Ready
      BY <1>7 DEF CloseVal, Closing
    <3> QED
      BY <1>1, <1>7, <3>1, TopOK DEF CloseVal, Ready
  <2>2. CASE Len(stack) = 1
    <3>1. status' \in {"accepted", "unexpected"}
      BY <1>7, <2>2 DEF CloseVal
    <3>2. PICK w \in Words : Sound(w, ahead, stack, read)
      BY <2>1 DEF SInv
    <3>3. status' = "accepted" => [tokens |-> read, value |-> result'] \in Documents
      BY <1>1, <1>7, <2>2, <3>2, AcceptedSound
    <3> QED
      BY <1>1, <1>2, <2>1, <3>1, <3>3 DEF SInv, AcceptsDocuments
  <2>3. CASE Len(stack) # 1
    <3>1. status' = status /\ result' = result
      BY <1>7, <2>3 DEF CloseVal
    <3>2. Len(stack) > 1
      <4> DEFINE n == Len(stack)
      <4>1. n \in Nat /\ n > 0 /\ n # 1
        BY <2>1, <2>3
      <4> HIDE DEF n
      <4>2. n > 1
        BY <4>1
      <4> QED
        BY <4>2 DEF n
    <3> QED
      BY <1>1, <1>4, <1>7, <2>1, <3>1, <3>2, CloseValSound
  <2> QED
    BY <2>2, <2>3
<1>8. CASE ClosePair
  BY <1>1, <1>4, <1>8, ClosePairSound DEF ClosePair, Closing, Ready, Added
<1>9. CASE CloseElem
  BY <1>1, <1>4, <1>9, CloseElemSound DEF CloseElem, Closing, Ready, Added
<1>10. CASE \E rule \in Containers : CloseContainer(rule)
  <2>1. PICK rule \in Containers : CloseContainer(rule)
    BY <1>10
  <2> QED
    BY <1>1, <1>4, <2>1, CloseContainerSound DEF CloseContainer, Closing, Ready
<1>11. CASE UNCHANGED vars
  BY <1>1, <1>2, <1>11 DEF SInv, AcceptsDocuments, vars
<1> QED
  BY <1>3, <1>5, <1>6, <1>7, <1>8, <1>9, <1>10, <1>11 DEF Next

\* Whatever is read, what the parser accepts is a ZON document, no struct of
\* it with a name twice (`zon_dup_field` of rs/src/lib.rs), no brace closed by
\* the other's rule, nothing after it, and the value handed back is the one
\* it means, its members in order and its enum literals, they alone,
\* rewrapped (the val hook of rs/src/lib.rs).
THEOREM AcceptedAreDocuments == Spec => []AcceptsDocuments
<1>1. SInv => AcceptsDocuments
  BY DEF SInv
<1> QED
  BY <1>1, SInvInit, SInvStep, PTL DEF Spec

-----------------------------------------------------------------------------
(* What the rules of the stack still expect.                               *)

WantsValue(w, d)    == \E p \in Values : w = p.tokens /\ Within(p, d)
WantsField(w, d, t) == t \in Texts /\ \E p \in Values : w = Field(t, p).tokens /\ Within(p, d)
WantsStruct(r, w, d) ==
    /\ r.rule = "map" => r.node = Map(<<>>)
    /\ \/ \E m \in Groups, c \in BOOLEAN : w = Struct(m, c).tokens /\ Within(m, d) /\ m.value.kind = r.rule
       \/ r.rule = "list" /\ w = Empty.tokens /\ d <= MaxDepth

\* The rest of a container after a member: more, of names not in K, and the end.
TailOf(m, c) == (<<CA>> \o m.tokens) \o Ending(c)
MoreMembers(w, kind, d, K) ==
    \/ \E c \in BOOLEAN : w = Ending(c)
    \/ \E m \in Groups, c \in BOOLEAN : /\ m.value.kind = kind /\ Keys(m.value) \cap K = {}
                                        /\ Within(m, d) /\ w = TailOf(m, c)
\* t is the name of the member that is read above the container.
WantsMore(r, w, d, t) ==
    /\ t \notin Keys(r.node)
    /\ MoreMembers(w, r.rule, d, Keys(r.node) \cup (IF r.rule = "map" THEN {t} ELSE {}))

Want(r, w, d, t, top) ==
    IF r.state = "open" THEN CASE r.rule = "val"  -> WantsValue(w, d)
                               [] r.rule = "elem" -> WantsValue(w, d)
                               [] r.rule = "pair" -> WantsField(w, d, t)
                               [] OTHER -> WantsStruct(r, w, d)
    ELSE CASE r.rule = "val"  -> w = <<>>
           [] r.rule = "elem" -> w = <<>>
           [] r.rule = "pair" -> w = <<>> /\ r.o0.text = t
           [] OTHER -> IF top THEN w = <<CB>> ELSE WantsMore(r, w, d, t)

Expect(s, need, post, key) ==
    /\ \A i \in 1..Len(s) : need[i] \in Words /\ post[i] \in Words
                            /\ Want(s[i], need[i], DepthTo(s, i), key[i], i = Len(s))
    /\ post[1] = <<ZZ>>
    /\ \A i \in 2..Len(s) : post[i] = need[i - 1] \o post[i - 1]
    /\ \A i \in 2..Len(s) : s[i].rule = "pair" => key[i] = key[i - 1]

\* The stack may take w and be done.
Expects(s, w) == \E need, post, key : Expect(s, need, post, key) /\ need[Len(s)] \o post[Len(s)] = w

\* The depth of a rule pushed on one of depth d.
DepthOn(name, d) == d + (IF name \in Containers THEN 1 ELSE 0)

\* What is expected of a rule changed, t its key, and of one pushed on it.
Awaits(d, t0, r, name, y, v, t) ==
    /\ y \in Words /\ v \in Words /\ Want(r, y, d, t, name = None)
    /\ name = None => v = <<>>
    /\ name # None => Want(Rule(name), v, DepthOn(name, d), t, TRUE)
    /\ r.rule = "pair" => t = t0

LEMMA Reexpected ==
    ASSUME NEW s, Len(s) \in Nat, NEW need, NEW post, NEW key, Expect(s, need, post, key),
           NEW new, NEW k, NEW r, NEW name \in {None} \cup Rules, Changed(s, new, k, r, name),
           NEW y, NEW v, NEW t, Awaits(DepthTo(s, k), key[k], r, name, y, v, t)
    PROVE  Expects(new, v \o (y \o post[k]))
<1> DEFINE n == Len(new)
           need2 == [i \in 1..n |-> IF i < k THEN need[i] ELSE IF i = k THEN y ELSE v]
           post2 == [i \in 1..n |-> IF i <= k THEN post[i] ELSE y \o post[k]]
           key2  == [i \in 1..n |-> IF i < k THEN key[i] ELSE t]
<1>1. /\ k \in 1..Len(s) /\ n = k + (IF name = None THEN 0 ELSE 1)
      /\ \A i \in 1..(k - 1) : new[i] = s[i]
      /\ new[k] = r /\ r.rule = s[k].rule
      /\ name # None => new[k + 1] = Rule(name)
  BY DEF Changed
<1>2. k \in Nat /\ k > 0 /\ n \in Nat /\ k \in 1..n /\ k <= Len(s) /\ (n = k \/ n = k + 1)
      /\ (n = k <=> name = None)
  BY <1>1
<1> HIDE DEF n
<1>3. /\ \A i \in 1..Len(s) : need[i] \in Words /\ post[i] \in Words
                            /\ Want(s[i], need[i], DepthTo(s, i), key[i], i = Len(s))
      /\ post[1] = <<ZZ>>
      /\ \A i \in 2..Len(s) : post[i] = need[i - 1] \o post[i - 1]
      /\ \A i \in 2..Len(s) : s[i].rule = "pair" => key[i] = key[i - 1]
  BY DEF Expect
<1>a. /\ y \in Words /\ v \in Words /\ Want(r, y, DepthTo(s, k), t, name = None)
      /\ name = None => v = <<>>
      /\ name # None => Want(Rule(name), v, DepthOn(name, DepthTo(s, k)), t, TRUE)
      /\ r.rule = "pair" => t = key[k]
  BY DEF Awaits
<1>4. post[k] \in Words /\ y \o post[k] \in Words
  BY <1>1, <1>3, <1>a, Join
<1>5. ASSUME NEW i \in 1..n PROVE post2[i] \in Words /\ need2[i] \in Words
  <2>1. i <= k => i \in 1..Len(s)
    BY <1>2
  <2>2. post2[i] = (IF i <= k THEN post[i] ELSE y \o post[k])
        /\ need2[i] = (IF i < k THEN need[i] ELSE IF i = k THEN y ELSE v)
    OBVIOUS
  <2>3. i < k => i <= k
    BY <1>2
  <2> HIDE DEF post2, need2
  <2> QED
    BY <1>3, <1>4, <1>a, <2>1, <2>2, <2>3
<1>6. \A i \in 1..k : new[i].rule = s[i].rule
  <2>1. \A i \in 1..k : i = k \/ i \in 1..(k - 1)
    BY <1>2
  <2> QED
    BY <1>1, <2>1
<1>7. ASSUME NEW i \in 1..n PROVE Want(new[i], need2[i], DepthTo(new, i), key2[i], i = n)
  <2>1. CASE i < k
    <3>1. i \in 1..(k - 1) /\ i \in 1..Len(s) /\ (i = Len(s)) = FALSE /\ (i = n) = FALSE /\ \A j \in 1..i : j \in 1..k
      BY <1>2, <2>1
    <3>2. need2[i] = need[i] /\ key2[i] = key[i] /\ new[i] = s[i]
      BY <1>1, <2>1, <3>1
    <3>3. DepthTo(new, i) = DepthTo(s, i)
      BY <1>6, <3>1, DepthSame
    <3> QED
      BY <1>3, <3>1, <3>2, <3>3
  <2>2. CASE i = k
    <3>1. (i = n) = (name = None)
      BY <1>2, <2>2
    <3>2. need2[i] = y /\ key2[i] = t /\ new[i] = r
      BY <1>1, <1>2, <2>2
    <3>3. DepthTo(new, i) = DepthTo(s, k)
      BY <1>6, <2>2, DepthSame
    <3> QED
      BY <1>a, <3>1, <3>2, <3>3
  <2>3. CASE i > k
    <3>1. i = k + 1 /\ name # None /\ (i = n) = TRUE
      BY <1>2, <2>3
    <3>2. need2[i] = v /\ key2[i] = t /\ new[i] = Rule(name) /\ name \in Rules
      BY <1>1, <1>2, <2>3, <3>1
    <3>3. Rule(name).rule = name
      BY DEF Rule
    <3>4. DepthTo(new, k) = DepthTo(s, k)
      BY <1>6, DepthSame
    <3>5. DepthTo(new, k + 1) = DepthOn(name, DepthTo(s, k))
      <4>1. /\ DepthTo(new, k) \in Nat
            /\ new[k + 1].rule \notin Containers => DepthTo(new, k + 1) = DepthTo(new, k)
            /\ new[k + 1].rule \in Containers => DepthTo(new, k + 1) = DepthTo(new, k) + 1
        BY <1>2, DepthNext
      <4> QED
        BY <3>1, <3>2, <3>3, <3>4, <4>1 DEF DepthOn
    <3> QED
      BY <1>a, <3>1, <3>2, <3>5
  <2> QED
    BY <1>2, <2>1, <2>2, <2>3
<1>8. post2[1] = <<ZZ>>
  BY <1>2, <1>3
<1>9. ASSUME NEW i \in 2..n PROVE post2[i] = need2[i - 1] \o post2[i - 1]
  <2>1. CASE i <= k
    <3>1. i \in 2..Len(s) /\ i - 1 < k /\ i - 1 <= k /\ i \in 1..n /\ i - 1 \in 1..n
      BY <1>2, <2>1
    <3>2. post2[i] = post[i] /\ post2[i - 1] = post[i - 1] /\ need2[i - 1] = need[i - 1]
      BY <2>1, <3>1
    <3> QED
      BY <1>3, <3>1, <3>2
  <2>2. CASE i > k
    <3>1. i - 1 = k /\ i \in 1..n
      BY <1>2, <2>2
    <3>2. post2[i] = y \o post[k] /\ post2[k] = post[k] /\ need2[k] = y
      BY <1>2, <2>2, <3>1
    <3> QED
      BY <3>1, <3>2
  <2>3. i <= k \/ i > k
    BY <1>2
  <2> QED
    BY <2>1, <2>2, <2>3
<1>10. ASSUME NEW i \in 2..n, new[i].rule = "pair" PROVE key2[i] = key2[i - 1]
  <2>1. CASE i < k
    <3>1. i \in 2..Len(s) /\ i \in 1..k /\ i - 1 < k /\ i \in 1..n /\ i - 1 \in 1..n
      BY <1>2, <2>1
    <3>2. key2[i] = key[i] /\ key2[i - 1] = key[i - 1]
      BY <2>1, <3>1
    <3> QED
      BY <1>3, <1>6, <1>10, <3>1, <3>2
  <2>2. CASE i = k
    <3>1. i \in 2..Len(s) /\ i - 1 < k /\ i \in 1..n /\ i - 1 \in 1..n /\ ~(i < k)
      BY <1>2, <2>2
    <3>2. key2[i] = t /\ key2[i - 1] = key[i - 1]
      BY <2>2, <3>1
    <3>3. t = key[k]
      BY <1>1, <1>10, <1>a, <2>2
    <3> QED
      BY <1>1, <1>3, <1>10, <2>2, <3>1, <3>2, <3>3
  <2>3. CASE i > k
    <3>1. i - 1 = k /\ i \in 1..n /\ ~(i < k) /\ ~(k < k)
      BY <1>2, <2>3
    <3>2. key2[i] = t /\ key2[k] = t
      BY <1>2, <2>3, <3>1
    <3> QED
      BY <3>1, <3>2
  <2> QED
    BY <1>2, <2>1, <2>2, <2>3
<1>11. need2[n] \o post2[n] = v \o (y \o post[k])
  <2>1. CASE n = k
    <3>1. post2[n] = post[k] /\ need2[n] = y /\ v = <<>>
      BY <1>2, <1>a, <2>1
    <3> HIDE DEF need2, post2
    <3> DEFINE q == y \o post[k]
    <3>2. q \in Words /\ need2[n] \o post2[n] = q
      BY <1>4, <3>1
    <3>3. <<>> \o q = q
      <4> HIDE DEF q
      <4> QED
        BY <3>2, EmptyWord
    <3> QED
      BY <3>1, <3>2, <3>3
  <2>2. CASE n = k + 1
    <3>1. post2[n] = y \o post[k] /\ need2[n] = v
      BY <1>2, <2>2
    <3> QED
      BY <3>1
  <2> QED
    BY <1>2, <2>1, <2>2
<1> HIDE DEF need2, post2, key2
<1>12. Expect(new, need2, post2, key2)
  BY <1>5, <1>7, <1>8, <1>9, <1>10 DEF Expect, n
<1> QED
  BY <1>11, <1>12 DEF Expects, n

\* After the k-th rule z is expected: with what that rule now expects, it is
\* what a stack changed there does.
Goes(s, k, z, t0) ==
    \A new, r, y, v, t : \A name \in {None} \cup Rules :
        (Changed(s, new, k, r, name) /\ Awaits(DepthTo(s, k), t0, r, name, y, v, t))
            => Expects(new, v \o (y \o z))

LEMMA TopExpects ==
    ASSUME NEW s, Len(s) \in Nat, Len(s) > 0, NEW w, Expects(s, w)
    PROVE  \E u \in Words : \E z \in Words : \E t :
             /\ w = u \o z /\ Want(s[Len(s)], u, DepthTo(s, Len(s)), t, TRUE)
             /\ Goes(s, Len(s), z, t) /\ (Len(s) = 1 => z = <<ZZ>>)
<1>1. PICK need, post, key : Expect(s, need, post, key) /\ need[Len(s)] \o post[Len(s)] = w
  BY DEF Expects
<1>2. Len(s) \in 1..Len(s) /\ (Len(s) = Len(s)) = TRUE
  OBVIOUS
<1>3. /\ post[Len(s)] \in Words /\ need[Len(s)] \in Words
      /\ Want(s[Len(s)], need[Len(s)], DepthTo(s, Len(s)), key[Len(s)], TRUE)
  BY <1>1, <1>2 DEF Expect
<1>4. Goes(s, Len(s), post[Len(s)], key[Len(s)])
  BY <1>1, Reexpected DEF Goes
<1>5. Len(s) = 1 => post[Len(s)] = <<ZZ>>
  BY <1>1 DEF Expect
<1> QED
  BY <1>1, <1>3, <1>4, <1>5

LEMMA BelowExpects ==
    ASSUME NEW s, Len(s) \in Nat, Len(s) > 1, NEW w, Expects(s, w)
    PROVE  \E u \in Words : \E v \in Words : \E z \in Words : \E t, t0 :
             /\ w = u \o (v \o z) /\ Want(s[Len(s)], u, DepthTo(s, Len(s)), t, TRUE)
             /\ Want(s[Len(s) - 1], v, DepthTo(s, Len(s) - 1), t0, FALSE)
             /\ (s[Len(s)].rule = "pair" => t = t0)
             /\ Goes(s, Len(s) - 1, z, t0)
<1>1. PICK need, post, key : Expect(s, need, post, key) /\ need[Len(s)] \o post[Len(s)] = w
  BY DEF Expects
<1> DEFINE n == Len(s)
           k == Len(s) - 1
<1>2. n \in 1..n /\ n \in 2..n /\ k \in 1..n /\ (k = n) = FALSE /\ (n = n) = TRUE
  OBVIOUS
<1> HIDE DEF n, k
<1>3. post[n] \in Words /\ need[n] \in Words /\ Want(s[n], need[n], DepthTo(s, n), key[n], TRUE)
  BY <1>1, <1>2 DEF Expect, n
<1>4. post[k] \in Words /\ need[k] \in Words /\ Want(s[k], need[k], DepthTo(s, k), key[k], FALSE)
  BY <1>1, <1>2 DEF Expect, n
<1>5. post[n] = need[k] \o post[k] /\ (s[n].rule = "pair" => key[n] = key[k])
  BY <1>1, <1>2 DEF Expect, n, k
<1>6. Goes(s, k, post[k], key[k])
  BY <1>1, Reexpected DEF Goes
<1>7. w = need[n] \o (need[k] \o post[k])
  BY <1>1, <1>5 DEF n
<1> QED
  BY <1>3, <1>4, <1>5, <1>6, <1>7 DEF n, k

-----------------------------------------------------------------------------
(* What comes next in the source.                                          *)

LEMMA LeftCancel ==
    ASSUME NEW x \in Words, NEW y \in Words, NEW z \in Words, x \o y = x \o z
    PROVE  y = z
BY ConcatSimplifications DEF Words

\* The tokens of a joined word.
LEMMA Front ==
    ASSUME NEW x \in Words, NEW y \in Words
    PROVE  /\ \A i \in 1..Len(x) : (x \o y)[i] = x[i]
           /\ \A i \in 1..Len(y) : (x \o y)[Len(x) + i] = y[i]
<1> DEFINE n == Len(x)
           j == x \o y
<1>1. n \in Nat /\ Len(y) \in Nat
  BY WordLen
<1>2. \A i \in 1..(n + Len(y)) : j[i] = IF i <= n THEN x[i] ELSE y[i - n]
  <2>1. \A i \in 1..(Len(x) + Len(y)) : (x \o y)[i] = IF i <= Len(x) THEN x[i] ELSE y[i - Len(x)]
    BY WordLen, ConcatProperties
  <2> QED
    BY <2>1
<1> HIDE DEF n, j
<1>3. ASSUME NEW i \in 1..n PROVE j[i] = x[i]
  <2>1. i \in 1..(n + Len(y)) /\ i <= n
    BY <1>1
  <2> QED
    BY <1>2, <2>1
<1>4. ASSUME NEW i \in 1..Len(y) PROVE j[n + i] = y[i]
  <2> DEFINE q == n + i
  <2>1. q \in 1..(n + Len(y)) /\ (q <= n) = FALSE /\ q - n = i
    BY <1>1
  <2>2. j[q] = IF q <= n THEN x[q] ELSE y[q - n]
    BY <1>2, <2>1
  <2> HIDE DEF q
  <2>3. j[q] = y[q - n]
    BY <2>1, <2>2
  <2> QED
    BY <2>1, <2>3 DEF q
<1> QED
  BY <1>3, <1>4 DEF n, j

\* What the parser sees of what comes next.
LEMMA Looks ==
    ASSUME IInv, Ready, NEW rest \in Words, NEW x, ahead \o rest = x
    PROVE  Len(ahead) >= 1 /\ ahead[1] = x[1] /\ (x[1] # ZZ => Len(ahead) >= 2 /\ ahead[2] = x[2])
<1>1. ahead \in Words /\ Len(ahead) \in 0..2 /\ \A i \in 1..Len(ahead) : ahead[i] \in Tokens
  BY Aheads
<1>2. Len(ahead) = 2 \/ (Len(ahead) = 1 /\ ahead[1].type = "#ZZ")
  BY DEF Ready
<1>3. \A i \in 1..Len(ahead) : x[i] = ahead[i]
  BY <1>1, Front
<1>4. 1 \in 1..Len(ahead)
  BY <1>2
<1>5. ahead[1] # ZZ => Len(ahead) = 2 /\ 2 \in 1..Len(ahead)
  BY <1>1, <1>2, <1>4, Types
<1> QED
  BY <1>2, <1>3, <1>4, <1>5

\* The same of a word that comes before another.
Seen(u, z) ==
    /\ Len(u) >= 1 => Len(ahead) >= 1 /\ ahead[1] = u[1]
    /\ Len(u) >= 2 /\ u[1] # ZZ => Len(ahead) >= 2 /\ ahead[2] = u[2]
    /\ Len(u) = 0 /\ Len(z) >= 1 => ahead[1] = z[1]

LEMMA Sees ==
    ASSUME IInv, Ready, NEW rest \in Words, NEW u \in Words, NEW z \in Words, ahead \o rest = u \o z
    PROVE  Seen(u, z)
<1> DEFINE x == u \o z
           n == Len(u)
<1>1. n \in Nat /\ Len(z) \in Nat
  BY WordLen
<1>2. (\A i \in 1..Len(u) : (u \o z)[i] = u[i]) /\ (\A i \in 1..Len(z) : (u \o z)[Len(u) + i] = z[i])
  BY Front
<1>3. ahead \o rest = x
  OBVIOUS
<1>a. (\A i \in 1..n : x[i] = u[i]) /\ (\A i \in 1..Len(z) : x[n + i] = z[i])
  BY <1>2
<1> HIDE DEF x
<1>4. Len(ahead) >= 1 /\ ahead[1] = x[1] /\ (x[1] # ZZ => Len(ahead) >= 2 /\ ahead[2] = x[2])
  BY <1>3, Looks
<1> HIDE DEF n
<1>5. n >= 1 => 1 \in 1..n
  BY <1>1
<1>6. n >= 2 => 1 \in 1..n /\ 2 \in 1..n
  BY <1>1
<1>7. n = 0 /\ Len(z) >= 1 => 1 \in 1..Len(z) /\ n + 1 = 1
  BY <1>1
<1>8. n >= 1 => Len(ahead) >= 1 /\ ahead[1] = u[1]
  BY <1>4, <1>5, <1>a
<1>9. n >= 2 /\ u[1] # ZZ => Len(ahead) >= 2 /\ ahead[2] = u[2]
  BY <1>4, <1>6, <1>a
<1>10. n = 0 /\ Len(z) >= 1 => ahead[1] = z[1]
  BY <1>4, <1>7, <1>a
<1> QED
  BY <1>8, <1>9, <1>10 DEF Seen, n

\* What is left once some of it is consumed: named, to be unfolded where used.
Leaves(rest, w) == Rest \in Words /\ Rest \o rest = w
LEMMA Moves ==
    ASSUME IInv, NEW rest \in Words, NEW q, NEW z \in Words, ahead \o rest = q \o z,
           NEW k, Eats(k), NEW v \in Words, NEW y \in Words, q = Bite(k) \o (v \o y)
    PROVE  Leaves(rest, v \o (y \o z))
<1> DEFINE a == Bite(k)
           n == Len(ahead)
           b == SubSeq(ahead, k + 1, n)
<1>1. ahead \in Seq(Tokens) /\ n \in Nat /\ \A i \in 1..n : ahead[i] \in Tokens
  BY Aheads
<1>2. k \in Nat /\ k <= n /\ Rest = b
  BY <1>1 DEF Eats
<1>3. a \in Words
  <2>1. \A i \in 1..k : ahead[i] \in Tokens
    BY <1>1, <1>2
  <2>2. SubSeq(ahead, 1, k) \in Seq(Tokens)
    BY <1>2, <2>1, SubSeqProperties
  <2> QED
    BY <2>2 DEF Words, Bite
<1>4. b \in Words
  <2>1. \A i \in (k + 1)..n : ahead[i] \in Tokens
    BY <1>1, <1>2
  <2>2. k + 1 \in Int /\ n \in Int
    BY <1>1, <1>2
  <2>3. SubSeq(ahead, k + 1, n) \in Seq(Tokens)
    BY <2>1, <2>2, SubSeqProperties
  <2> QED
    BY <2>3 DEF Words
<1>5. ahead = a \o b
  <2>1. 1 \in 1..(n + 1) /\ k \in (1 - 1)..n /\ n \in k..n
    BY <1>1, <1>2
  <2>2. SubSeq(ahead, 1, k) \o SubSeq(ahead, k + 1, n) = SubSeq(ahead, 1, n)
    BY <1>1, <2>1, ConcatAdjacentSubSeq
  <2>3. SubSeq(ahead, 1, n) = ahead
    BY <1>1, SubSeqFull
  <2> QED
    BY <2>2, <2>3 DEF Bite
<1> HIDE DEF a, b, n
<1>6. v \o y \in Words /\ y \o z \in Words /\ b \o rest \in Words
  BY <1>4, Join
<1>7. (a \o b) \o rest = (a \o (v \o y)) \o z
  BY <1>5 DEF a
<1>8. Joins3(a, b, rest)
  BY <1>3, <1>4, Assoc3
<1>9. Joins3(a, v \o y, z)
  BY <1>3, <1>6, Assoc3
<1>10. Joins3(v, y, z)
  BY Assoc3
<1>11. a \o (b \o rest) = a \o ((v \o y) \o z)
  BY <1>7, <1>8, <1>9 DEF Joins3
<1>12. (v \o y) \o z \in Words
  BY <1>6, Join
<1>13. b \o rest = (v \o y) \o z
  BY <1>3, <1>6, <1>11, <1>12, LeftCancel
<1> QED
  BY <1>2, <1>4, <1>10, <1>13 DEF Joins3, Leaves

\* A run and its end, its first member taken.
Peeled(m, c, d, K, f, y) ==
    /\ One(f) /\ f.tokens \in Words /\ y \in Words /\ f.value.kind = m.value.kind
    /\ m.tokens \o Ending(c) = f.tokens \o y
    /\ MoreMembers(y, m.value.kind, d, K \cup Keys(f.value))
    /\ Within(f, d) /\ Keys(f.value) \cap K = {}

LEMMA EndingWord == ASSUME NEW c \in BOOLEAN PROVE Ending(c) \in Words
BY EndingIs DEF Words

LEMMA Peel ==
    ASSUME NEW m \in Groups, NEW c \in BOOLEAN, NEW d \in Nat, Within(m, d), NEW K, Keys(m.value) \cap K = {}
    PROVE  \E f, y : Peeled(m, c, d, K, f, y)
<1> DEFINE e == Ending(c)
<1>1. m.tokens \in Words /\ m.depth \in Nat /\ e \in Words
  BY GroupsFine, GroupWord, EndingWord
<1>2. CASE One(m)
  <2>1. MoreMembers(e, m.value.kind, d, K \cup Keys(m.value))
    BY DEF MoreMembers
  <2>2. Peeled(m, c, d, K, m, e)
    BY <1>1, <1>2, <2>1 DEF Peeled
  <2> QED
    BY <2>2
<1>3. CASE \E f, r : Splits(m, f, r)
  <2>1. PICK f, r : Splits(m, f, r)
    BY <1>3
  <2>2. /\ One(f) /\ r \in Groups /\ f.value.kind = m.value.kind /\ r.value.kind = m.value.kind
        /\ m.tokens = (f.tokens \o <<CA>>) \o r.tokens
        /\ Keys(f.value) \cup Keys(r.value) = Keys(m.value) /\ Keys(f.value) \cap Keys(r.value) = {}
        /\ f.depth <= m.depth /\ r.depth <= m.depth
    BY <2>1 DEF Splits, CA
  <2>3. f.tokens \in Words /\ r.tokens \in Words /\ f.depth \in Nat /\ r.depth \in Nat /\ <<CA>> \in Words
    BY <2>2, OneIsSingle, GroupsFine, GroupWord, MarksAreWords
  <2>4. Within(f, d) /\ Within(r, d)
    BY <1>1, <2>2, <2>3, Whole DEF Within
  <2> DEFINE y == TailOf(r, c)
             a == <<CA>>
             g == f.tokens
             h == r.tokens
             ah == a \o h
  <2>5. y = (a \o h) \o e
    BY DEF TailOf
  <2>6. Keys(r.value) \cap (K \cup Keys(f.value)) = {} /\ Keys(f.value) \cap K = {}
    BY <2>2
  <2>7. MoreMembers(y, m.value.kind, d, K \cup Keys(f.value))
    BY <2>2, <2>4, <2>6 DEF MoreMembers
  <2>8. m.tokens = (g \o a) \o h
    BY <2>2
  <2>9. g \in Words /\ h \in Words /\ a \in Words
    BY <2>3
  <2> HIDE DEF y, a, e, g, h
  <2>10. ah \in Words /\ Joins3(g, a, h) /\ (ah \in Words => Joins3(g, ah, e))
    BY <1>1, <2>9, Join, Assoc3
  <2>11. m.tokens = g \o ah
    BY <2>8, <2>10 DEF Joins3
  <2>12. y \in Words /\ m.tokens \o e = g \o y
    <3>1. (g \o ah) \o e = g \o (ah \o e)
      BY <2>10 DEF Joins3
    <3>2. ah \o e \in Words
      BY <1>1, <2>10, Join
    <3> QED
      BY <2>5, <2>11, <3>1, <3>2
  <2>13. Peeled(m, c, d, K, f, y)
    BY <2>2, <2>3, <2>4, <2>6, <2>7, <2>12 DEF Peeled, e, g
  <2> QED
    BY <2>13
<1> QED
  BY <1>2, <1>3, GroupSplits

\* The rule that reads a member of a container.
MemberRule(kind) == IF kind = "map" THEN "pair" ELSE "elem"

LEMMA MemberRules ==
    /\ MemberRule("map") = "pair" /\ MemberRule("list") = "elem"
    /\ \A kind : /\ MemberRule(kind) \in Rules /\ MemberRule(kind) # None /\ MemberRule(kind) \in {None} \cup Rules
                 /\ \A d : DepthOn(MemberRule(kind), d) = d + 0
BY DEF MemberRule, Rules, None, DepthOn, Containers

LEMMA MemberWanted ==
    ASSUME NEW f, One(f), NEW d \in Nat, Within(f, d), NEW kind \in Containers, f.value.kind = kind
    PROVE  \E t : /\ Want(Rule(MemberRule(kind)), f.tokens, d, t, TRUE)
                  /\ Keys(f.value) = (IF kind = "map" THEN {t} ELSE {})
<1>1. Rule(MemberRule(kind)).rule = MemberRule(kind) /\ Rule(MemberRule(kind)).state = "open"
  BY DEF Rule
<1>2. CASE kind = "map"
  <2>1. PICK t \in Texts, v \in Values : f = Field(t, v)
    <3>1. \A v \in Values : f = Item(v) => f.value.kind = "list"
      BY ValuesFine, KeysOfItem
    <3> QED
      BY <1>2, <3>1 DEF One
  <2>2. Worded(v)
    BY ValuesFine
  <2>3. Keys(f.value) = {t} /\ f.depth = v.depth
    BY <2>1, <2>2, KeysOfOne, FieldIs
  <2>4. Within(v, d)
    BY <2>3 DEF Within
  <2>5. WantsField(f.tokens, d, t)
    BY <2>1, <2>4 DEF WantsField
  <2>6. Want(Rule(MemberRule(kind)), f.tokens, d, t, TRUE)
    BY <1>1, <1>2, <2>5, MemberRules DEF Want
  <2> QED
    BY <1>2, <2>3, <2>6
<1>3. CASE kind = "list"
  <2>1. PICK v \in Values : f = Item(v)
    <3>1. \A t \in Texts : \A v \in Values : f = Field(t, v) => f.value.kind = "map"
      BY ValuesFine, KeysOfOne
    <3> QED
      BY <1>3, <3>1 DEF One
  <2>2. Worded(v)
    BY ValuesFine
  <2>3. Keys(f.value) = {} /\ f.depth = v.depth /\ f.tokens = v.tokens
    BY <2>1, <2>2, KeysOfItem, ItemIs DEF Item, Phrase
  <2>4. WantsValue(f.tokens, d)
    BY <2>3 DEF WantsValue, Within
  <2>5. Want(Rule(MemberRule(kind)), f.tokens, d, "", TRUE)
    BY <1>1, <1>3, <2>4, MemberRules DEF Want
  <2> QED
    BY <1>3, <2>3, <2>5
<1> QED
  BY <1>2, <1>3 DEF Containers

\* A rule of the stack changed, with what is then expected of it and of the
\* rule pushed on it.
NowAwaits(w, d, t0, r, name) ==
    \E v \in Words : \E y \in Words : \E t : w = v \o y /\ Awaits(d, t0, r, name, y, v, t)

LEMMA NextWanted ==
    ASSUME NEW m \in Groups, NEW c \in BOOLEAN, NEW d \in Nat, Within(m, d), NEW t0,
           NEW r, r.rule \in Containers, r.state = "close", r.rule = m.value.kind, r.node.kind = r.rule,
           Keys(m.value) \cap Keys(r.node) = {}
    PROVE  NowAwaits(m.tokens \o Ending(c), d, t0, r, MemberRule(r.rule))
<1> DEFINE K == Keys(r.node)
<1>1. PICK f, y : Peeled(m, c, d, K, f, y)
  BY Peel
<1>2. /\ One(f) /\ f.tokens \in Words /\ y \in Words /\ f.value.kind = r.rule
      /\ m.tokens \o Ending(c) = f.tokens \o y
      /\ MoreMembers(y, r.rule, d, K \cup Keys(f.value))
      /\ Within(f, d) /\ Keys(f.value) \cap K = {}
  BY <1>1 DEF Peeled
<1>3. PICK t : /\ Want(Rule(MemberRule(r.rule)), f.tokens, d, t, TRUE)
               /\ Keys(f.value) = (IF r.rule = "map" THEN {t} ELSE {})
  BY <1>2, MemberWanted
<1>4. t \notin K
  <2>1. r.rule = "list" => K = {}
    BY DEF Keys
  <2>2. r.rule = "map" => t \in Keys(f.value)
    BY <1>3
  <2>3. r.rule = "map" \/ r.rule = "list"
    BY DEF Containers
  <2> HIDE DEF K
  <2> QED
    BY <1>2, <2>1, <2>2, <2>3
<1>5. WantsMore(r, y, d, t)
  BY <1>2, <1>3, <1>4 DEF WantsMore
<1>6. Want(r, y, d, t, FALSE)
  <2>1. r.rule # "val" /\ r.rule # "elem" /\ r.rule # "pair" /\ r.state # "open"
    BY DEF Containers
  <2> QED
    BY <1>5, <2>1 DEF Want
<1>7. (MemberRule(r.rule) = None) = FALSE /\ r.rule # "pair" /\ DepthOn(MemberRule(r.rule), d) = d
  <2>1. d + 0 = d
    OBVIOUS
  <2> QED
    BY <2>1, MemberRules DEF Containers
<1>8. Awaits(d, t0, r, MemberRule(r.rule), y, f.tokens, t)
  BY <1>2, <1>3, <1>6, <1>7 DEF Awaits
<1> QED
  BY <1>2, <1>8 DEF NowAwaits

-----------------------------------------------------------------------------
(* A step that consumes what was expected of the rules it changes.         *)

Coming(rest) == ahead' = Rest /\ Rest \in Words /\ Expects(stack', Rest \o rest)

LEMMA GoesOn ==
    ASSUME IInv, NEW rest \in Words, NEW q, NEW z \in Words, ahead \o rest = q \o z,
           NEW k, Eats(k), NEW w, q = Bite(k) \o w,
           NEW n, NEW r, NEW name \in {None} \cup Rules, Changed(stack, stack', n, r, name),
           NEW t0, NowAwaits(w, DepthTo(stack, n), t0, r, name), Goes(stack, n, z, t0), ahead' = Rest
    PROVE  Coming(rest)
<1>1. PICK v \in Words : \E y \in Words : \E t : w = v \o y /\ Awaits(DepthTo(stack, n), t0, r, name, y, v, t)
  BY DEF NowAwaits
<1>2. PICK y \in Words : \E t : w = v \o y /\ Awaits(DepthTo(stack, n), t0, r, name, y, v, t)
  BY <1>1
<1>3. PICK t : w = v \o y /\ Awaits(DepthTo(stack, n), t0, r, name, y, v, t)
  BY <1>2
<1>4. Rest \in Words /\ Rest \o rest = v \o (y \o z)
  <2>1. q = Bite(k) \o (v \o y)
    BY <1>3
  <2>2. Leaves(rest, v \o (y \o z))
    BY <2>1, Moves
  <2> QED
    BY <2>2 DEF Leaves
<1>5. Expects(stack', v \o (y \o z))
  BY <1>3 DEF Goes
<1> QED
  BY <1>4, <1>5 DEF Coming

\* A rule that is done, and one that is pushed and nothing else.
LEMMA AwaitsNone ==
    ASSUME NEW d, NEW t0, NEW r, NEW y \in Words, Want(r, y, d, t0, TRUE)
    PROVE  NowAwaits(y, d, t0, r, None)
<1>1. <<>> \in Words /\ y = <<>> \o y /\ (None = None) = TRUE
  BY EmptyWord
<1>2. Awaits(d, t0, r, None, y, <<>>, t0)
  BY <1>1 DEF Awaits
<1> QED
  BY <1>1, <1>2 DEF NowAwaits

LEMMA AwaitsPushed ==
    ASSUME NEW d, NEW t0, NEW r, NEW name \in Rules, NEW v \in Words,
           Want(r, <<>>, d, t0, FALSE), Want(Rule(name), v, DepthOn(name, d), t0, TRUE)
    PROVE  NowAwaits(v, d, t0, r, name)
<1>1. <<>> \in Words /\ v = v \o <<>> /\ name # None /\ (name = None) = FALSE
  BY EmptyWord, NoneIsNoRule
<1>2. Awaits(d, t0, r, name, <<>>, v, t0)
  BY <1>1 DEF Awaits
<1> QED
  BY <1>1, <1>2 DEF NowAwaits

-----------------------------------------------------------------------------
(* Opening steps take what was expected.                                   *)

D == DepthTo(stack, Len(stack))
Faces(rest, u, z, t0) ==
    /\ u \in Words /\ z \in Words /\ ahead \o rest = u \o z
    /\ Want(Top, u, D, t0, TRUE) /\ Goes(stack, Len(stack), z, t0)

LEMMA Facing ==
    ASSUME IInv, Ready, NEW rest, Expects(stack, ahead \o rest)
    PROVE  \E u, z, t0 : Faces(rest, u, z, t0) /\ (Len(stack) = 1 => z = <<ZZ>>)
<1> DEFINE w == ahead \o rest
<1>1. Len(stack) \in Nat /\ Len(stack) > 0 /\ Top = stack[Len(stack)]
  BY TopOK
<1>2. Expects(stack, w)
  OBVIOUS
<1>3. w = ahead \o rest
  OBVIOUS
<1> HIDE DEF w
<1>4. PICK u \in Words : \E z \in Words : \E t :
             /\ w = u \o z /\ Want(stack[Len(stack)], u, DepthTo(stack, Len(stack)), t, TRUE)
             /\ Goes(stack, Len(stack), z, t) /\ (Len(stack) = 1 => z = <<ZZ>>)
  BY <1>1, <1>2, TopExpects
<1>5. PICK z \in Words : \E t :
             /\ w = u \o z /\ Want(stack[Len(stack)], u, DepthTo(stack, Len(stack)), t, TRUE)
             /\ Goes(stack, Len(stack), z, t) /\ (Len(stack) = 1 => z = <<ZZ>>)
  BY <1>4
<1>6. PICK t :
             /\ w = u \o z /\ Want(stack[Len(stack)], u, DepthTo(stack, Len(stack)), t, TRUE)
             /\ Goes(stack, Len(stack), z, t) /\ (Len(stack) = 1 => z = <<ZZ>>)
  BY <1>5
<1>7. ahead \o rest = u \o z
  BY <1>3, <1>6
<1>8. Faces(rest, u, z, t)
  BY <1>1, <1>6, <1>7 DEF Faces, D
<1> QED
  BY <1>6, <1>8

LEMMA FacesSeen ==
    ASSUME IInv, Ready, NEW rest \in Words, NEW u, NEW z, NEW t0, Faces(rest, u, z, t0)
    PROVE  Seen(u, z) /\ D \in Nat /\ Lexed /\ u \in Words /\ Want(Top, u, D, t0, TRUE)
<1>1. u \in Words /\ z \in Words /\ ahead \o rest = u \o z /\ Want(Top, u, D, t0, TRUE)
  BY DEF Faces
<1>2. Seen(u, z)
  BY <1>1, Sees
<1> QED
  BY <1>1, <1>2, DepthOfTop, Aheads DEF D

\* The parser opens the rule and what is left is expected still.
Opens(rest) == Matching # {} /\ Depth <= MaxDepth /\ (Open => Coming(rest))

LEMMA OpensOn ==
    ASSUME IInv, Open, NEW rest \in Words, NEW u, NEW z, NEW t0, Faces(rest, u, z, t0),
           NEW k, Eats(k), NEW w, u = Bite(k) \o w, Taken.p \in {None} \cup Rules,
           NowAwaits(w, D, t0, Opened, Taken.p)
    PROVE  Coming(rest)
<1>1. z \in Words /\ ahead \o rest = u \o z /\ Goes(stack, Len(stack), z, t0)
  BY DEF Faces
<1>2. Changed(stack, stack', Len(stack), Opened, Taken.p) /\ ahead' = Rest
  BY OpenChanges DEF Open
<1>3. NowAwaits(w, DepthTo(stack, Len(stack)), t0, Opened, Taken.p)
  BY DEF D
<1> QED
  BY <1>1, <1>2, <1>3, GoesOn

LEMMA WithinBudget ==
    ASSUME NEW d \in Nat
    PROVE  /\ \A p \in Values : Within(p, d) => d <= MaxDepth
           /\ \A p \in Groups : Within(p, d) => d <= MaxDepth
<1>1. ASSUME NEW p, p.depth \in Nat, Within(p, d) PROVE d <= MaxDepth
  BY <1>1, Whole DEF Within
<1>2. \A p \in Values : p.depth \in Nat
  BY ValuesFine, GroupWord
<1>3. \A p \in Groups : p.depth \in Nat
  BY GroupsFine, GroupWord
<1> QED
  BY <1>1, <1>2, <1>3

LEMMA ScalarIs ==
    ASSUME NEW p \in Scalars
    PROVE  \E t \in Tokens : p.tokens = <<t>> /\ t.type \in VAL /\ t # ZZ
<1>1. CASE p \in {Phrase(<<[type |-> "#NR", text |-> t]>>, Scalar(t), 0) : t \in Contents}
  <2>1. PICK t \in Contents : p = Phrase(<<[type |-> "#NR", text |-> t]>>, Scalar(t), 0)
    BY <1>1
  <2>2. [type |-> "#NR", text |-> t] \in Tokens /\ [type |-> "#NR", text |-> t].type \in VAL
        /\ [type |-> "#NR", text |-> t] # ZZ
    BY DEF Tokens, VAL, ZZ, Mark
  <2> QED
    BY <2>1, <2>2 DEF Phrase
<1>2. CASE p \in {Phrase(<<[type |-> "#TX", text |-> t]>>,
                         IF EnumTag THEN Tagged(t) ELSE Scalar(t), 0) : t \in Texts}
  <2>1. PICK t \in Texts : p = Phrase(<<[type |-> "#TX", text |-> t]>>,
                                      IF EnumTag THEN Tagged(t) ELSE Scalar(t), 0)
    BY <1>2
  <2>2. [type |-> "#TX", text |-> t] \in Tokens /\ [type |-> "#TX", text |-> t].type \in VAL
        /\ [type |-> "#TX", text |-> t] # ZZ
    BY DEF Tokens, VAL, ZZ, Mark
  <2> QED
    BY <2>1, <2>2 DEF Phrase
<1> QED
  BY <1>1, <1>2 DEF Scalars

\* The words a struct begins with.
LEMMA StructBegins ==
    ASSUME NEW m \in Groups, NEW c \in BOOLEAN
    PROVE  /\ m.value.kind \in Containers /\ m.tokens \in Words /\ m.depth \in Nat
           /\ m.tokens \o Ending(c) \in Words
           /\ Struct(m, c).tokens = <<Opening(m)>> \o (m.tokens \o Ending(c))
           /\ Len(Struct(m, c).tokens) >= 2
           /\ Struct(m, c).tokens[1] = Opening(m) /\ Struct(m, c).tokens[2] # CB
           /\ Struct(m, c).depth = m.depth + 1
<1> DEFINE o == <<Opening(m)>>
           x == m.tokens
           e == Ending(c)
           g == Opening(m)
<1>1. Running(m) /\ Worded(m)
  BY GroupsFine
<1>2. /\ Struct(m, c).tokens = (o \o x) \o e /\ Opening(m) \in Tokens
      /\ Struct(m, c).depth = m.depth + 1
  BY <1>1, StructIs
<1>3. x \in Words /\ e \in Words /\ o \in Words /\ m.depth \in Nat /\ x[1] # CB
  BY <1>1, <1>2, GroupWord, EndingWord, MarksAreWords DEF Worded, CB
<1>4. m.value.kind \in Containers
  BY <1>1, Kinds DEF Running, Listed, Mapped, Containers
<1>5. Len(x) \in Nat \ {0} /\ Len(o) = 1 /\ o[1] = g
  BY <1>1 DEF Worded
<1> HIDE DEF o, x, e, g
<1>6. Joins3(o, x, e)
  BY <1>3, Assoc3
<1>7. Struct(m, c).tokens = o \o (x \o e) /\ x \o e \in Words
  <2>1. (o \o x) \o e = o \o (x \o e)
    BY <1>6 DEF Joins3
  <2>2. x \o e \in Words
    BY <1>3, Join
  <2> QED
    BY <1>2, <2>1, <2>2
<1> DEFINE xe == x \o e
           all == o \o xe
<1>8. Len(xe) = Len(x) + Len(e) /\ Len(e) \in Nat /\ xe \in Words /\ xe[1] = x[1]
  <2>1. Len(x \o e) = Len(x) + Len(e) /\ Len(e) \in Nat
    BY <1>3, JoinLen, WordLen
  <2>2. 1 \in 1..Len(x)
    BY <1>5
  <2>3. \A i \in 1..Len(x) : (x \o e)[i] = x[i]
    BY <1>3, Front
  <2> QED
    BY <1>7, <2>1, <2>2, <2>3
<1> HIDE DEF xe
<1>9. Len(all) = Len(o) + Len(xe) /\ all[1] = o[1] /\ all[2] = xe[1]
  <2>1. Len(o \o xe) = Len(o) + Len(xe)
    BY <1>3, <1>8, JoinLen
  <2>2. 1 \in 1..Len(o) /\ 1 \in 1..Len(xe) /\ Len(o) + 1 = 2
    BY <1>5, <1>8
  <2>3. (\A i \in 1..Len(o) : (o \o xe)[i] = o[i]) /\ (\A i \in 1..Len(xe) : (o \o xe)[Len(o) + i] = xe[i])
    BY <1>3, <1>8, Front
  <2>4. (o \o xe)[Len(o) + 1] = xe[1] /\ (o \o xe)[1] = o[1]
    BY <2>2, <2>3
  <2> QED
    BY <2>1, <2>2, <2>4
<1>10. Struct(m, c).tokens = all
  BY <1>7 DEF xe
<1> HIDE DEF all
<1>11. Len(all) >= 2
  BY <1>5, <1>8, <1>9
<1> QED
  BY <1>2, <1>3, <1>4, <1>5, <1>7, <1>8, <1>9, <1>10, <1>11 DEF o, x, e, g

\* A rule that comes to "close" on opening, by its kind.
LEMMA ClosedWants ==
    ASSUME NEW r, r.state = "close", NEW d, NEW t
    PROVE  /\ \A top : r.rule = "val" \/ r.rule = "elem" => Want(r, <<>>, d, t, top)
           /\ \A top : r.rule = "pair" /\ r.o0.text = t => Want(r, <<>>, d, t, top)
           /\ r.rule \in Containers => Want(r, <<CB>>, d, t, TRUE)
BY DEF Want, Containers

LEMMA PushedRule ==
    ASSUME NEW name \in Rules
    PROVE  /\ Rule(name).rule = name /\ Rule(name).state = "open" /\ Rule(name).child = Undefined
           /\ Rule(name).node = IF name = "map" THEN Map(<<>>) ELSE Undefined
BY DEF Rule

LEMMA ValPushes ==
    ASSUME IInv, Ready, Top.rule = "val", Top.state = "open",
           NEW rest \in Words, NEW u, NEW z, NEW t0, Faces(rest, u, z, t0),
           NEW name \in {"map", "list"}, Matching # {} => Took(0, name, None, FALSE),
           Want(Rule(name), u, D + 1, t0, TRUE)
    PROVE  Open => Coming(rest)
<1> SUFFICES ASSUME Open PROVE Coming(rest)
  OBVIOUS
<1>1. u \in Words /\ D \in Nat
  BY FacesSeen
<1>2. Eats(0) /\ Bite(0) = <<>> /\ Taken.p = name
  <2>1. Took(0, name, None, FALSE)
    BY DEF Open
  <2> QED
    BY <2>1, TookEats
<1>3. name \in Rules /\ name \in {None} \cup Rules /\ DepthOn(name, D) = D + 1
  BY DEF Rules, DepthOn, Containers
<1>4. Opened.rule = "val" /\ Opened.state = "close"
  BY OpenChanges
<1>5. Want(Opened, <<>>, D, t0, FALSE)
  BY <1>4, ClosedWants
<1>6. NowAwaits(u, D, t0, Opened, name)
  BY <1>1, <1>3, <1>5, AwaitsPushed
<1>7. u = Bite(0) \o u
  BY <1>1, <1>2, EmptyWord
<1> QED
  BY <1>2, <1>3, <1>6, <1>7, OpensOn

LEMMA OpenValGoes ==
    ASSUME IInv, Ready, Top.rule = "val", Top.state = "open",
           NEW rest \in Words, NEW u, NEW z, NEW t0, Faces(rest, u, z, t0)
    PROVE  Opens(rest)
<1>1. Seen(u, z) /\ D \in Nat /\ Lexed /\ u \in Words /\ Want(Top, u, D, t0, TRUE)
  BY FacesSeen
<1>2. PICK p \in Values : u = p.tokens /\ Within(p, D)
  <2>1. WantsValue(u, D)
    BY <1>1 DEF Want
  <2> QED
    BY <2>1 DEF WantsValue
<1>3. Depth <= MaxDepth
  BY <1>1, <1>2, WithinBudget, DepthOfTop DEF D
<1>4. CASE p \in Scalars
  <2>1. PICK t \in Tokens : u = <<t>> /\ t.type \in VAL /\ t # ZZ
    BY <1>2, <1>4, ScalarIs
  <2>2. Len(ahead) >= 1 /\ ahead[1] = t
    <3>1. Len(u) >= 1 /\ u[1] = t
      BY <2>1
    <3> QED
      BY <1>1, <3>1 DEF Seen
  <2>3. Starts(VAL) /\ ~Starts({"#OB"}) /\ ~Starts({"#OS"})
    BY <2>1, <2>2 DEF Starts, VAL
  <2>4. Matching # {} /\ Took(1, None, None, FALSE)
    BY <1>1, <2>3, ValOpenTakes
  <2>5. Eats(1) /\ Bite(1) = <<t>> /\ Taken.p = None
    BY <2>1, <2>2, <2>4, TookEats
  <2>6. ASSUME Open PROVE Coming(rest)
    <3>1. Opened.rule = "val" /\ Opened.state = "close"
      BY <2>6, OpenChanges
    <3>2. Want(Opened, <<>>, D, t0, TRUE)
      BY <3>1, ClosedWants
    <3>3. NowAwaits(<<>>, D, t0, Opened, None)
      BY <3>2, AwaitsNone, EmptyWord
    <3>4. u = Bite(1) \o <<>>
      <4>1. u = Bite(1) /\ Bite(1) \in Words
        BY <1>1, <2>1, <2>5
      <4> HIDE DEF Bite
      <4> QED
        BY <4>1, EmptyWord
    <3>5. Taken.p \in {None} \cup Rules
      BY <2>5
    <3> QED
      BY <2>5, <2>6, <3>3, <3>4, <3>5, OpensOn
  <2> QED
    BY <1>3, <2>4, <2>6 DEF Opens
<1>5. CASE p = Empty
  <2>1. u = <<OS, CB>>
    BY <1>2, <1>5, EmptyWorded DEF OS, CB
  <2>2. Len(ahead) >= 2 /\ ahead[1] = OS /\ ahead[2] = CB
    <3>1. Len(u) >= 1 /\ Len(u) >= 2 /\ u[1] = OS /\ u[2] = CB /\ u[1] # ZZ
      BY <2>1, TokensApart
    <3> QED
      BY <1>1, <3>1 DEF Seen
  <2>3. Starts({"#OS"}) /\ ~Starts({"#OB"}) /\ ~Starts(VAL)
    <3>1. ahead[1].type = "#OS"
      <4>1. OS.type = "#OS"
        BY DEF OS, Mark
      <4> QED
        BY <2>2, <4>1
    <3>2. Len(ahead) >= 1
      <4>1. Len(ahead) \in 0..2
        BY Aheads
      <4> QED
        BY <2>2, <4>1
    <3> QED
      BY <3>1, <3>2 DEF Starts, VAL
  <2>4. Matching # {} /\ Took(0, "list", None, FALSE)
    BY <1>1, <2>3, ValOpenTakes
  <2>5. D + 1 <= MaxDepth
    <3>1. p.depth = 1
      BY <1>5, EmptyWorded
    <3> QED
      BY <1>1, <1>2, <3>1 DEF Within
  <2>6. Want(Rule("list"), u, D + 1, t0, TRUE)
    <3>1. u = Empty.tokens
      BY <1>2, <1>5
    <3>2. WantsStruct(Rule("list"), u, D + 1)
      BY <2>5, <3>1, PushedRule DEF WantsStruct, Rules
    <3> QED
      BY <3>2, PushedRule DEF Want, Rules
  <2>7. Open => Coming(rest)
    BY <2>4, <2>6, ValPushes
  <2> QED
    BY <1>3, <2>4, <2>7 DEF Opens
<1>6. CASE \E m \in Groups, c \in BOOLEAN : p = Struct(m, c)
  <2>1. PICK m \in Groups, c \in BOOLEAN : p = Struct(m, c)
    BY <1>6
  <2> DEFINE kind == m.value.kind
             g == Opening(m)
  <2>2. /\ kind \in Containers /\ m.depth \in Nat /\ Len(u) >= 2
        /\ u[1] = g /\ u[2] # CB /\ p.depth = m.depth + 1
    BY <1>2, <2>1, StructBegins
  <2>3. Len(ahead) >= 1 /\ ahead[1] = g
    <3>1. Len(u) >= 1
      BY <1>1, <2>2, WordLen
    <3> QED
      BY <1>1, <2>2, <3>1 DEF Seen
  <2>4. g.type = IF kind = "map" THEN "#OB" ELSE "#OS"
    BY DEF Opening, Mark
  <2>5. Within(m, D + 1)
    BY <1>1, <1>2, <2>2, Whole DEF Within
  <2>6. WantsStruct(Rule(kind), u, D + 1)
    <3>1. Rule(kind).rule = kind /\ (kind = "map" => Rule(kind).node = Map(<<>>))
      BY <2>2, PushedRule DEF Containers, Rules
    <3> QED
      BY <1>2, <2>1, <2>5, <3>1 DEF WantsStruct
  <2>7. Want(Rule(kind), u, D + 1, t0, TRUE)
    BY <2>2, <2>6, PushedRule DEF Want, Containers, Rules
  <2> HIDE DEF kind
  <2>8. Matching # {} /\ Took(0, kind, None, FALSE)
    <3>1. CASE kind = "map"
      <4>1. Starts({"#OB"}) /\ ~Starts({"#OS"}) /\ ~Starts(VAL)
        BY <2>3, <2>4, <3>1 DEF Starts, VAL
      <4> QED
        BY <1>1, <3>1, <4>1, ValOpenTakes
    <3>2. CASE kind = "list"
      <4>1. Starts({"#OS"}) /\ ~Starts({"#OB"}) /\ ~Starts(VAL)
        BY <2>3, <2>4, <3>2 DEF Starts, VAL
      <4> QED
        BY <1>1, <3>2, <4>1, ValOpenTakes
    <3> QED
      BY <2>2, <3>1, <3>2 DEF Containers
  <2>9. Open => Coming(rest)
    BY <2>2, <2>7, <2>8, ValPushes DEF Containers
  <2> QED
    BY <1>3, <2>8, <2>9 DEF Opens
<1> QED
  BY <1>4, <1>5, <1>6, ValueIs

\* A struct's first member is what its rule then awaits.
LEMMA OpenStructGoes ==
    ASSUME IInv, Ready, Top.rule \in Containers, Top.state = "open",
           NEW rest \in Words, NEW u, NEW z, NEW t0, Faces(rest, u, z, t0),
           NEW m \in Groups, NEW c \in BOOLEAN, u = Struct(m, c).tokens, Within(m, D), m.value.kind = Top.rule,
           Top.rule = "map" => Top.node = Map(<<>>)
    PROVE  Opens(rest)
<1>1. Seen(u, z) /\ D \in Nat /\ Lexed /\ u \in Words
  BY FacesSeen
<1>2. Depth <= MaxDepth
  BY <1>1, WithinBudget, DepthOfTop DEF D
<1> DEFINE g == Opening(m)
           rule == Top.rule
<1>3. /\ m.tokens \o Ending(c) \in Words /\ u = <<g>> \o (m.tokens \o Ending(c))
      /\ Len(u) >= 2 /\ u[1] = g /\ u[2] # CB
  BY StructBegins
<1>4. g = IF rule = "map" THEN OB ELSE OS
  BY DEF Opening, OB, OS
<1>5. g # ZZ
  BY <1>4, TokensApart
<1>6. Len(ahead) >= 2 /\ Len(ahead) >= 1 /\ ahead[1] = g /\ ahead[2] # CB
  <2>1. Len(u) >= 1
    BY <1>1, <1>3, WordLen
  <2> QED
    BY <1>1, <1>3, <1>5, <2>1 DEF Seen
<1>7. Matching # {} /\ Took(1, MemberRule(rule), None, rule = "list")
  <2>1. \A A : ~StartsTwo(A, {"#CB"})
    <3>1. ahead[2] \in Tokens
      <4>1. 2 \in 1..Len(ahead)
        BY <1>6, Aheads
      <4> QED
        BY <4>1, Aheads
    <3>2. ahead[2].type # "#CB"
      BY <1>6, <3>1, Types
    <3> QED
      BY <3>2 DEF StartsTwo
  <2>2. CASE rule = "map"
    <3>1. Starts({"#OB"})
      <4>1. OB.type = "#OB"
        BY DEF OB, Mark
      <4> QED
        BY <1>4, <1>6, <2>2, <4>1 DEF Starts
    <3>2. (rule = "list") = FALSE
      BY <2>2
    <3>3. Matching # {} /\ Took(1, "pair", None, FALSE)
      BY <1>1, <2>1, <2>2, <3>1, MapOpenTakes
    <3> QED
      BY <2>2, <3>2, <3>3, MemberRules
  <2>3. CASE rule = "list"
    <3>1. Starts({"#OS"})
      <4>1. OS.type = "#OS"
        BY DEF OS, Mark
      <4>2. rule # "map"
        BY <2>3
      <4> QED
        BY <1>4, <1>6, <4>1, <4>2 DEF Starts
    <3>2. (rule = "list") = TRUE
      BY <2>3
    <3>3. Matching # {} /\ Took(1, "elem", None, TRUE)
      BY <1>1, <2>1, <2>3, <3>1, ListOpenTakes
    <3> QED
      BY <2>3, <3>2, <3>3, MemberRules
  <2> QED
    BY <2>2, <2>3 DEF Containers
<1>8. Eats(1) /\ Bite(1) = <<g>> /\ Taken.p = MemberRule(rule) /\ Taken.array = (rule = "list")
  BY <1>5, <1>6, <1>7, TookEats
<1>9. ASSUME Open PROVE Coming(rest)
  <2>1. /\ Opened.rule = rule /\ Opened.state = "close"
        /\ Opened.node = IF Taken.array THEN List(<<>>) ELSE Top.node
    BY <1>9, OpenChanges
  <2>2. Opened.node.kind = rule /\ Keys(Opened.node) = {}
    <3>1. CASE rule = "map"
      <4>1. Taken.array = FALSE
        BY <1>8, <3>1
      <4>2. Opened.node = Map(<<>>)
        BY <2>1, <3>1, <4>1
      <4> QED
        BY <3>1, <4>2, KeysOfNone, Kinds
    <3>2. CASE rule = "list"
      <4>1. Taken.array = TRUE
        BY <1>8, <3>2
      <4>2. Opened.node = List(<<>>)
        BY <2>1, <4>1
      <4> QED
        BY <3>2, <4>2, KeysOfList, Kinds
    <3> QED
      BY <3>1, <3>2 DEF Containers
  <2>3. NowAwaits(m.tokens \o Ending(c), D, t0, Opened, MemberRule(rule))
    <3>1. Keys(m.value) \cap Keys(Opened.node) = {}
      BY <2>2
    <3>2. NowAwaits(m.tokens \o Ending(c), D, t0, Opened, MemberRule(Opened.rule))
      BY <1>1, <2>1, <2>2, <3>1, NextWanted
    <3> QED
      BY <2>1, <3>2
  <2>4. u = Bite(1) \o (m.tokens \o Ending(c))
    BY <1>3, <1>8
  <2>5. Taken.p \in {None} \cup Rules /\ NowAwaits(m.tokens \o Ending(c), D, t0, Opened, Taken.p)
    BY <1>8, <2>3, MemberRules
  <2> QED
    BY <1>8, <1>9, <2>4, <2>5, OpensOn
<1> QED
  BY <1>2, <1>7, <1>9 DEF Opens

LEMMA OpenMapGoes ==
    ASSUME IInv, Ready, Top.rule = "map", Top.state = "open",
           NEW rest \in Words, NEW u, NEW z, NEW t0, Faces(rest, u, z, t0)
    PROVE  Opens(rest)
<1>1. WantsStruct(Top, u, D)
  <2>1. Want(Top, u, D, t0, TRUE)
    BY FacesSeen
  <2> QED
    BY <2>1 DEF Want
<1>2. PICK m \in Groups, c \in BOOLEAN : u = Struct(m, c).tokens /\ Within(m, D) /\ m.value.kind = Top.rule
  BY <1>1 DEF WantsStruct
<1>3. Top.node = Map(<<>>) /\ Top.rule \in Containers
  BY <1>1 DEF WantsStruct, Containers
<1> QED
  BY <1>2, <1>3, OpenStructGoes

LEMMA OpenListGoes ==
    ASSUME IInv, Ready, Top.rule = "list", Top.state = "open",
           NEW rest \in Words, NEW u, NEW z, NEW t0, Faces(rest, u, z, t0)
    PROVE  Opens(rest)
<1>1. Seen(u, z) /\ D \in Nat /\ Lexed /\ u \in Words /\ Want(Top, u, D, t0, TRUE)
  BY FacesSeen
<1>2. WantsStruct(Top, u, D)
  BY <1>1 DEF Want
<1>3. CASE \E m \in Groups, c \in BOOLEAN : u = Struct(m, c).tokens /\ Within(m, D) /\ m.value.kind = Top.rule
  <2>1. PICK m \in Groups, c \in BOOLEAN : u = Struct(m, c).tokens /\ Within(m, D) /\ m.value.kind = Top.rule
    BY <1>3
  <2>2. Top.rule \in Containers /\ Top.rule # "map"
    BY DEF Containers
  <2> QED
    BY <2>1, <2>2, OpenStructGoes
<1>4. CASE u = Empty.tokens /\ D <= MaxDepth
  <2>1. u = <<OS, CB>>
    BY <1>4, EmptyWorded DEF OS, CB
  <2>2. Len(ahead) >= 1 /\ Len(ahead) >= 2 /\ ahead[1] = OS /\ ahead[2] = CB /\ OS # ZZ
    <3>1. Len(u) >= 1 /\ Len(u) >= 2 /\ u[1] = OS /\ u[2] = CB /\ OS # ZZ
      BY <2>1, TokensApart
    <3> QED
      BY <1>1, <3>1 DEF Seen
  <2>3. Starts({"#OS"}) /\ StartsTwo({"#OS"}, {"#CB"})
    <3>1. OS.type = "#OS" /\ CB.type = "#CB"
      BY DEF OS, CB, Mark
    <3> QED
      BY <2>2, <3>1 DEF Starts, StartsTwo
  <2>4. Matching # {} /\ Took(1, None, None, TRUE)
    BY <1>1, <2>3, ListOpenTakes
  <2>5. Eats(1) /\ Bite(1) = <<OS>> /\ Taken.p = None /\ Taken.p \in {None} \cup Rules
    BY <2>2, <2>4, TookEats
  <2>6. ASSUME Open PROVE Coming(rest)
    <3>1. Opened.rule = "list" /\ Opened.state = "close" /\ Opened.rule \in Containers
      BY <2>6, OpenChanges DEF Containers
    <3>2. Want(Opened, <<CB>>, D, t0, TRUE)
      BY <3>1, ClosedWants
    <3>3. NowAwaits(<<CB>>, D, t0, Opened, None)
      BY <3>2, AwaitsNone, MarksAreWords
    <3>4. u = Bite(1) \o <<CB>>
      BY <2>1, <2>5, MarksAreWords
    <3> QED
      BY <2>5, <2>6, <3>3, <3>4, OpensOn
  <2> QED
    BY <1>1, <1>4, <2>4, <2>6, DepthOfTop DEF Opens, D
<1> QED
  BY <1>2, <1>3, <1>4 DEF WantsStruct

LEMMA OpenPairGoes ==
    ASSUME IInv, Ready, Top.rule = "pair", Top.state = "open",
           NEW rest \in Words, NEW u, NEW z, NEW t0, Faces(rest, u, z, t0)
    PROVE  Opens(rest)
<1>1. Seen(u, z) /\ D \in Nat /\ Lexed /\ u \in Words /\ Want(Top, u, D, t0, TRUE)
  BY FacesSeen
<1>2. WantsField(u, D, t0)
  BY <1>1 DEF Want
<1>3. PICK p \in Values : u = Field(t0, p).tokens /\ Within(p, D)
  BY <1>2 DEF WantsField
<1>4. t0 \in Texts /\ Worded(p) /\ p.tokens \in Words
  BY <1>2, ValuesFine, GroupWord DEF WantsField
<1> DEFINE a == <<Named(t0), CL>>
           v == p.tokens
           nm == Named(t0)
<1>5. u = a \o v
  BY <1>3, <1>4, FieldIs DEF Named, CL
<1>6. a \in Words /\ v \in Words /\ Len(a) = 2 /\ a[1] = nm /\ a[2] = CL
  BY <1>4, MarksAreWords
<1>7. nm.type = "#TX" /\ nm.text = t0 /\ nm # ZZ
  <2>1. nm.type = "#TX" /\ nm.text = t0 /\ ZZ.type = "#ZZ"
    BY DEF Named, ZZ, Mark
  <2>2. nm.type # ZZ.type
    BY <2>1
  <2> HIDE DEF nm
  <2> QED
    BY <2>1, <2>2
<1> HIDE DEF a, v, nm
<1>8. Len(u) >= 1 /\ Len(u) >= 2 /\ u[1] = nm /\ u[2] = CL
  <2>1. Len(a \o v) = Len(a) + Len(v) /\ Len(v) \in Nat
    BY <1>6, JoinLen, WordLen
  <2>2. \A i \in 1..Len(a) : (a \o v)[i] = a[i]
    BY <1>6, Front
  <2>3. 1 \in 1..Len(a) /\ 2 \in 1..Len(a)
    BY <1>6
  <2>4. Len(u) = Len(a) + Len(v) /\ u[1] = a[1] /\ u[2] = a[2]
    BY <1>5, <2>1, <2>2, <2>3
  <2>5. Len(u) >= 1 /\ Len(u) >= 2
    BY <1>6, <2>1, <2>4
  <2> QED
    BY <1>6, <2>4, <2>5
<1>9. Len(ahead) >= 1 /\ Len(ahead) >= 2 /\ ahead[1] = nm /\ ahead[2] = CL /\ CL # ZZ
  BY <1>1, <1>7, <1>8, TokensApart DEF Seen
<1>10. StartsTwo(KEY, {"#CL"})
  <2>1. CL.type = "#CL"
    BY DEF CL, Mark
  <2> QED
    BY <1>7, <1>9, <2>1 DEF Starts, StartsTwo, KEY
<1>11. Matching # {} /\ Took(2, "val", None, FALSE)
  BY <1>1, <1>10, PairOpenTakes
<1>12. Eats(2) /\ Bite(2) = a /\ Taken.p = "val"
  <2>1. Eats(2) /\ Bite(2) = <<ahead[1], ahead[2]>> /\ Taken.p = "val"
    BY <1>9, <1>11, TookEats
  <2> QED
    BY <1>9, <2>1 DEF a, nm
<1>13. ASSUME Open PROVE Coming(rest)
  <2>1. Opened.rule = "pair" /\ Opened.state = "close" /\ Opened.o0.text = t0
    BY <1>7, <1>9, <1>13, OpenChanges
  <2>2. Want(Opened, <<>>, D, t0, FALSE)
    BY <2>1, ClosedWants
  <2>3. DepthOn("val", D) = D /\ "val" \in Rules
    BY <1>1 DEF DepthOn, Containers, Rules
  <2>4. Want(Rule("val"), v, D, t0, TRUE)
    <3>1. WantsValue(v, D)
      BY <1>3 DEF WantsValue, v
    <3> QED
      BY <2>3, <3>1, PushedRule DEF Want
  <2>5. NowAwaits(v, D, t0, Opened, "val")
    BY <1>6, <2>2, <2>3, <2>4, AwaitsPushed
  <2>6. u = Bite(2) \o v /\ Taken.p \in {None} \cup Rules
    BY <1>5, <1>12, <2>3
  <2> QED
    BY <1>12, <1>13, <2>5, <2>6, OpensOn
<1>14. Depth <= MaxDepth
  BY <1>1, <1>3, WithinBudget, DepthOfTop DEF D
<1> QED
  BY <1>11, <1>13, <1>14 DEF Opens

LEMMA OpenElemGoes ==
    ASSUME IInv, Ready, Top.rule = "elem", Top.state = "open",
           NEW rest \in Words, NEW u, NEW z, NEW t0, Faces(rest, u, z, t0)
    PROVE  Opens(rest)
<1>1. Seen(u, z) /\ D \in Nat /\ Lexed /\ u \in Words /\ Want(Top, u, D, t0, TRUE)
  BY FacesSeen
<1>2. WantsValue(u, D)
  BY <1>1 DEF Want
<1>3. Matching # {} /\ Took(0, "val", None, FALSE)
  BY <1>1, ElemOpenTakes
<1>4. Eats(0) /\ Bite(0) = <<>> /\ Taken.p = "val"
  BY <1>3, TookEats
<1>5. ASSUME Open PROVE Coming(rest)
  <2>1. Opened.rule = "elem" /\ Opened.state = "close"
    BY <1>5, OpenChanges
  <2>2. Want(Opened, <<>>, D, t0, FALSE)
    BY <2>1, ClosedWants
  <2>3. DepthOn("val", D) = D /\ "val" \in Rules
    BY <1>1 DEF DepthOn, Containers, Rules
  <2>4. Want(Rule("val"), u, D, t0, TRUE)
    BY <1>2, <2>3, PushedRule DEF Want
  <2>5. NowAwaits(u, D, t0, Opened, "val")
    BY <1>1, <2>2, <2>3, <2>4, AwaitsPushed
  <2>6. u = Bite(0) \o u /\ Taken.p \in {None} \cup Rules
    BY <1>1, <1>4, <2>3, EmptyWord
  <2> QED
    BY <1>4, <1>5, <2>5, <2>6, OpensOn
<1>6. Depth <= MaxDepth
  BY <1>1, <1>2, WithinBudget, DepthOfTop DEF D, WantsValue
<1> QED
  BY <1>3, <1>5, <1>6 DEF Opens

LEMMA OpenGoes ==
    ASSUME IInv, Ready, Top.state = "open", NEW rest \in Words, Expects(stack, ahead \o rest)
    PROVE  Opens(rest)
<1>1. PICK u, z, t0 : Faces(rest, u, z, t0)
  BY Facing
<1>2. Top.rule \in Rules
  BY TopOK DEF RuleOK
<1> QED
  BY <1>1, <1>2, OpenValGoes, OpenMapGoes, OpenListGoes, OpenPairGoes, OpenElemGoes DEF Rules

-----------------------------------------------------------------------------
(* Closing steps take what was expected.                                   *)

E == DepthTo(stack, Len(stack) - 1)
Straddles(rest, u, v, z, t, t0) ==
    /\ u \in Words /\ v \in Words /\ z \in Words /\ ahead \o rest = (u \o v) \o z
    /\ Want(Top, u, D, t, TRUE) /\ Want(Parent, v, E, t0, FALSE)
    /\ Top.rule = "pair" => t = t0
    /\ Goes(stack, Len(stack) - 1, z, t0)

LEMMA Straddling ==
    ASSUME IInv, Ready, Len(stack) > 1, NEW rest, Expects(stack, ahead \o rest)
    PROVE  \E u, v, z, t, t0 : Straddles(rest, u, v, z, t, t0)
<1> DEFINE w == ahead \o rest
           n == Len(stack)
<1>1. n \in Nat /\ n > 1 /\ Top = stack[n] /\ Parent = stack[n - 1]
  BY TopOK, BelowOK
<1>2. Expects(stack, w)
  OBVIOUS
<1>3. w = ahead \o rest
  OBVIOUS
<1> HIDE DEF w
<1>4. PICK u \in Words : \E v \in Words : \E z \in Words : \E t, t0 :
             /\ w = u \o (v \o z) /\ Want(stack[n], u, DepthTo(stack, n), t, TRUE)
             /\ Want(stack[n - 1], v, DepthTo(stack, n - 1), t0, FALSE)
             /\ (stack[n].rule = "pair" => t = t0)
             /\ Goes(stack, n - 1, z, t0)
  BY <1>1, <1>2, BelowExpects
<1>5. PICK v \in Words : \E z \in Words : \E t, t0 :
             /\ w = u \o (v \o z) /\ Want(stack[n], u, DepthTo(stack, n), t, TRUE)
             /\ Want(stack[n - 1], v, DepthTo(stack, n - 1), t0, FALSE)
             /\ (stack[n].rule = "pair" => t = t0)
             /\ Goes(stack, n - 1, z, t0)
  BY <1>4
<1>6. PICK z \in Words : \E t, t0 :
             /\ w = u \o (v \o z) /\ Want(stack[n], u, DepthTo(stack, n), t, TRUE)
             /\ Want(stack[n - 1], v, DepthTo(stack, n - 1), t0, FALSE)
             /\ (stack[n].rule = "pair" => t = t0)
             /\ Goes(stack, n - 1, z, t0)
  BY <1>5
<1>7. PICK t, t0 :
             /\ w = u \o (v \o z) /\ Want(stack[n], u, DepthTo(stack, n), t, TRUE)
             /\ Want(stack[n - 1], v, DepthTo(stack, n - 1), t0, FALSE)
             /\ (stack[n].rule = "pair" => t = t0)
             /\ Goes(stack, n - 1, z, t0)
  BY <1>6
<1>8. Joins3(u, v, z)
  BY Assoc3
<1>9. ahead \o rest = (u \o v) \o z
  BY <1>3, <1>7, <1>8 DEF Joins3
<1>10. Straddles(rest, u, v, z, t, t0)
  BY <1>1, <1>7, <1>9 DEF Straddles, D, E
<1> QED
  BY <1>10

LEMMA ClosesOn ==
    ASSUME IInv, NEW rest \in Words, NEW u, NEW v, NEW z, NEW t, NEW t0, Straddles(rest, u, v, z, t, t0),
           NEW k, Eats(k), NEW w, u \o v = Bite(k) \o w,
           NEW r, NEW name \in {None} \cup Rules, Changed(stack, stack', Len(stack) - 1, r, name),
           NowAwaits(w, E, t0, r, name), ahead' = Rest
    PROVE  Coming(rest)
<1> DEFINE q == u \o v
<1>1. z \in Words /\ ahead \o rest = q \o z /\ Goes(stack, Len(stack) - 1, z, t0) /\ q = Bite(k) \o w
  BY DEF Straddles
<1>2. NowAwaits(w, DepthTo(stack, Len(stack) - 1), t0, r, name)
  BY DEF E
<1> HIDE DEF q
<1> QED
  BY <1>1, <1>2, GoesOn

\* The value at the bottom is the document: the end of the source comes next.
LEMMA LastCloses ==
    ASSUME IInv, CloseVal, Len(stack) = 1, NEW rest \in Words, Expects(stack, ahead \o rest)
    PROVE  status' = "accepted"
<1>1. Ready /\ Top.rule = "val" /\ Top.state = "close"
  BY DEF CloseVal, Closing
<1>2. PICK u, z, t0 : Faces(rest, u, z, t0) /\ z = <<ZZ>>
  BY <1>1, Facing
<1>3. Seen(u, z) /\ Want(Top, u, D, t0, TRUE)
  BY <1>1, <1>2, FacesSeen
<1>4. u = <<>>
  BY <1>1, <1>3 DEF Want
<1>5. ahead[1] = ZZ
  <2>1. Len(u) = 0 /\ Len(z) >= 1 /\ z[1] = ZZ
    BY <1>2, <1>4
  <2> QED
    BY <1>3, <2>1 DEF Seen
<1>6. ahead[1].type = "#ZZ"
  <2>1. ZZ.type = "#ZZ"
    BY DEF ZZ, Mark
  <2> QED
    BY <1>5, <2>1
<1> QED
  BY <1>6 DEF CloseVal

LEMMA CloseValGoes ==
    ASSUME IInv, CloseVal, Len(stack) > 1, NEW rest \in Words, Expects(stack, ahead \o rest)
    PROVE  Coming(rest)
<1>1. Ready /\ Top.rule = "val" /\ Top.state = "close" /\ Lexed /\ ahead' = Rest
  BY Aheads DEF CloseVal, Closing
<1>2. Took(0, None, None, FALSE)
  BY <1>1, ValCloseTakes
<1>3. Eats(0) /\ Bite(0) = <<>>
  BY <1>2, TookEats
<1>4. Len(stack) # 1
  OBVIOUS
<1> DEFINE r == Holding(Resolved(Top))
<1>5. /\ Changed(stack, stack', Len(stack) - 1, r, None)
      /\ r.rule = Parent.rule /\ r.state = Parent.state /\ r.o0 = Parent.o0
  <2>1. stack' = [SubSeq(stack, 1, Len(stack) - 1) EXCEPT ![Len(stack) - 1].child = Resolved(Top)]
    BY <1>4 DEF CloseVal, Resolved
  <2> QED
    BY <1>1, <2>1, ChildChanges
<1>6. PICK u, v, z, t, t0 : Straddles(rest, u, v, z, t, t0)
  BY <1>1, Straddling
<1>7. Parent.state = "close" /\ Parent.rule \in {"pair", "elem"}
  BY <1>1, BelowOK DEF Under
<1>8. u = <<>>
  BY <1>1, <1>6 DEF Straddles, Want
<1>9. v = <<>> /\ (Parent.rule = "pair" => Parent.o0.text = t0)
  BY <1>6, <1>7 DEF Straddles, Want
<1> HIDE DEF r
<1>10. Want(r, <<>>, E, t0, TRUE)
  BY <1>5, <1>7, <1>9, ClosedWants
<1>11. NowAwaits(<<>>, E, t0, r, None)
  BY <1>10, AwaitsNone, EmptyWord
<1>12. u \o v = Bite(0) \o <<>>
  BY <1>3, <1>8, <1>9
<1> QED
  BY <1>1, <1>3, <1>5, <1>6, <1>11, <1>12, ClosesOn

LEMMA ContainerGoes ==
    ASSUME IInv, Ready, Top.rule \in Containers, Top.state = "close",
           NEW rest \in Words, Expects(stack, ahead \o rest)
    PROVE  /\ Matching # {}
           /\ \A rule : CloseContainer(rule) => Coming(rest)
<1>1. Len(stack) > 1 /\ Lexed
  BY TopOK, Aheads DEF Containers
<1>2. PICK u, v, z, t, t0 : Straddles(rest, u, v, z, t, t0)
  BY <1>1, Straddling
<1>3. Parent.state = "close" /\ Parent.rule = "val"
  BY <1>1, BelowOK DEF Under, Containers
<1>4. u = <<CB>>
  BY <1>2 DEF Straddles, Want, Containers
<1>5. v = <<>>
  BY <1>2, <1>3 DEF Straddles, Want
<1>6. Len(ahead) >= 1 /\ ahead[1] = CB /\ CB # ZZ
  <2>1. PICK y, x, s : Faces(rest, y, x, s) /\ Len(stack) \in Nat
    BY TopOK, Facing
  <2>2. Seen(y, x) /\ Want(Top, y, D, s, TRUE)
    BY <2>1, FacesSeen
  <2>3. y = <<CB>>
    BY <2>2 DEF Want, Containers
  <2>4. Len(y) >= 1 /\ y[1] = CB
    BY <2>3
  <2> QED
    BY <2>2, <2>4, TokensApart DEF Seen
<1>7. Starts({"#CB"})
  <2>1. CB.type = "#CB"
    BY DEF CB, Mark
  <2> QED
    BY <1>6, <2>1 DEF Starts
<1>8. Matching # {} /\ Took(1, None, None, FALSE)
  BY <1>1, <1>7, MapCloseTakes, ListCloseTakes DEF Containers
<1>9. Eats(1) /\ Bite(1) = <<CB>>
  BY <1>6, <1>8, TookEats
<1>10. ASSUME NEW rule, CloseContainer(rule) PROVE Coming(rest)
  <2> DEFINE r == Holding(Top.node)
  <2>1. /\ Changed(stack, stack', Len(stack) - 1, r, None)
        /\ r.rule = Parent.rule /\ r.state = Parent.state
    <3>1. stack' = [SubSeq(stack, 1, Len(stack) - 1) EXCEPT ![Len(stack) - 1].child = Top.node]
      BY <1>10 DEF CloseContainer
    <3> QED
      BY <1>1, <3>1, ChildChanges
  <2> HIDE DEF r
  <2>2. Want(r, <<>>, E, t0, TRUE)
    BY <1>3, <2>1, ClosedWants
  <2>3. NowAwaits(<<>>, E, t0, r, None)
    BY <2>2, AwaitsNone, EmptyWord
  <2>4. u \o v = Bite(1) \o <<>>
    BY <1>4, <1>5, <1>9
  <2>5. ahead' = Rest
    BY <1>10 DEF CloseContainer
  <2> QED
    BY <1>2, <1>9, <2>1, <2>3, <2>4, <2>5, ClosesOn
<1> QED
  BY <1>8, <1>10

LEMMA MemberTakes ==
    ASSUME Lexed, Top.rule \in {"pair", "elem"}, Top.state = "close"
    PROVE  /\ Starts({"#CA"}) \/ Starts({"#CB"}) => Matching # {}
           /\ Matching # {} =>
                 \/ StartsTwo({"#CA"}, {"#CB"}) /\ Took(1, None, None, FALSE)
                 \/ Starts({"#CA"}) /\ ~StartsTwo({"#CA"}, {"#CB"}) /\ Took(1, None, Top.rule, FALSE)
                 \/ Starts({"#CB"}) /\ Took(0, None, None, FALSE)
<1>1. CASE Top.rule = "pair"
  BY <1>1, PairCloseTakes
<1>2. CASE Top.rule = "elem"
  BY <1>2, ElemCloseTakes
<1> QED
  BY <1>1, <1>2

\* The member on top is done and the rest of its container comes next.
AddsTo(rest, v, z, t0) ==
    /\ v \in Words /\ z \in Words /\ Straddles(rest, <<>>, v, z, t0, t0)
    /\ t0 \notin Keys(Parent.node)
    /\ MoreMembers(v, Parent.rule, E, Keys(Parent.node) \cup (IF Parent.rule = "map" THEN {t0} ELSE {}))

LEMMA AddsSeen ==
    ASSUME IInv, Ready, NEW rest \in Words, NEW v, NEW z, NEW t0, AddsTo(rest, v, z, t0)
    PROVE  Seen(v, z) /\ v \in Words
<1>1. v \in Words /\ z \in Words /\ ahead \o rest = (<<>> \o v) \o z
  BY DEF AddsTo, Straddles
<1>2. <<>> \o v = v
  BY <1>1, EmptyWord
<1>3. ahead \o rest = v \o z
  BY <1>1, <1>2
<1> QED
  BY <1>1, <1>3, Sees

LEMMA MemberRuleIs ==
    ASSUME IInv, Ready, Top.rule \in {"pair", "elem"}
    PROVE  /\ Len(stack) > 1 /\ Parent.rule \in Containers /\ Parent.state = "close"
           /\ MemberRule(Parent.rule) = Top.rule /\ Parent.rule = (IF Top.rule = "pair" THEN "map" ELSE "list")
           /\ Parent.node.kind = Parent.rule /\ E \in Nat
<1>1. Len(stack) > 1
  BY TopOK
<1>2. Parent.state = "close" /\ Parent.rule \in Under(Top.rule) /\ RuleOK(Parent) /\ E \in Nat
  BY <1>1, BelowOK DEF E
<1>3. Parent.rule = (IF Top.rule = "pair" THEN "map" ELSE "list")
  BY <1>2 DEF Under
<1>4. Parent.node.kind = Parent.rule
  BY <1>2, <1>3 DEF RuleOK
<1> QED
  BY <1>1, <1>2, <1>3, <1>4, MemberRules DEF Containers

LEMMA AddsOn ==
    ASSUME IInv, Ready, Len(stack) > 1, NEW node, Added(node),
           NEW rest \in Words, NEW v, NEW z, NEW t0, AddsTo(rest, v, z, t0), NEW k, Eats(k), NEW w, v = Bite(k) \o w, Taken.r \in {None} \cup Rules,
           NowAwaits(w, E, t0, Growing(node), Taken.r)
    PROVE  Coming(rest)
<1>1. Changed(stack, stack', Len(stack) - 1, Growing(node), Taken.r) /\ ahead' = Rest
  BY AddedChanges DEF Added
<1>2. Straddles(rest, <<>>, v, z, t0, t0) /\ v \in Words
  BY DEF AddsTo
<1> DEFINE r == Growing(node)
           b == Bite(k) \o w
<1>3. <<>> \o v = v
  BY <1>2, EmptyWord
<1>4. v = b /\ Changed(stack, stack', Len(stack) - 1, r, Taken.r) /\ NowAwaits(w, E, t0, r, Taken.r)
  BY <1>1
<1>5. <<>> \o v = Bite(k) \o w
  BY <1>3, <1>4
<1> HIDE DEF r, b
<1> QED
  BY <1>1, <1>2, <1>4, <1>5, ClosesOn

\* The member on top is put in its container.
LEMMA MemberGoes ==
    ASSUME IInv, Ready, Top.rule \in {"pair", "elem"}, Top.state = "close",
           NEW rest \in Words, NEW v, NEW z, NEW t0, AddsTo(rest, v, z, t0)
    PROVE  /\ Matching # {}
           /\ \A node :
                 /\ Added(node) /\ node.kind = Parent.rule
                 /\ Keys(node) = Keys(Parent.node) \cup (IF Parent.rule = "map" THEN {t0} ELSE {})
                 => Coming(rest)
<1> DEFINE K == Keys(Parent.node) \cup (IF Parent.rule = "map" THEN {t0} ELSE {})
           Puts(node) == Added(node) /\ node.kind = Parent.rule /\ Keys(node) = K
<1>1. /\ Len(stack) > 1 /\ Parent.rule \in Containers /\ Parent.state = "close"
      /\ MemberRule(Parent.rule) = Top.rule /\ E \in Nat /\ Lexed
  BY MemberRuleIs, Aheads
<1>2. Seen(v, z) /\ v \in Words /\ MoreMembers(v, Parent.rule, E, K)
  BY AddsSeen DEF AddsTo
<1>3. CA.type = "#CA" /\ CB.type = "#CB" /\ CA # ZZ /\ CB # ZZ
  <2>1. CA.type = "#CA" /\ CB.type = "#CB"
    BY DEF CA, CB, Mark
  <2> QED
    BY <2>1, TokensApart
<1> HIDE DEF K
<1>4. ASSUME NEW node, Puts(node) PROVE /\ Growing(node).rule = Parent.rule /\ Growing(node).state = "close"
                                        /\ Growing(node).node = node /\ Growing(node).rule \in Containers
  BY <1>1, <1>4, AddedChanges
<1>5. CASE v = Ending(TRUE)
  <2>1. v = <<CA, CB>> /\ v = <<CA>> \o <<CB>>
    BY <1>5, MarksAreWords DEF Ending, CA, CB
  <2>2. Len(ahead) >= 1 /\ Len(ahead) >= 2 /\ ahead[1] = CA /\ ahead[2] = CB
    <3>1. Len(v) >= 1 /\ Len(v) >= 2 /\ v[1] = CA /\ v[2] = CB
      BY <2>1
    <3> QED
      BY <1>2, <1>3, <3>1 DEF Seen
  <2>3. Starts({"#CA"}) /\ StartsTwo({"#CA"}, {"#CB"}) /\ ~Starts({"#CB"})
    BY <1>3, <2>2 DEF Starts, StartsTwo
  <2>4. Matching # {} /\ Took(1, None, None, FALSE)
    BY <1>1, <2>3, MemberTakes
  <2>5. Eats(1) /\ Bite(1) = <<CA>> /\ Taken.r = None /\ Taken.r \in {None} \cup Rules
    BY <1>3, <2>2, <2>4, TookEats
  <2>6. ASSUME NEW node, Puts(node) PROVE Coming(rest)
    <3>1. Want(Growing(node), <<CB>>, E, t0, TRUE)
      BY <1>4, <2>6, ClosedWants
    <3>2. NowAwaits(<<CB>>, E, t0, Growing(node), Taken.r)
      BY <2>5, <3>1, AwaitsNone, MarksAreWords
    <3>3. v = Bite(1) \o <<CB>>
      BY <2>1, <2>5
    <3> QED
      BY <1>1, <2>5, <2>6, <3>2, <3>3, AddsOn
  <2> QED
    BY <2>4, <2>6 DEF K
<1>6. CASE v = Ending(FALSE)
  <2>1. v = <<CB>>
    BY <1>6 DEF Ending, CB
  <2>2. Len(ahead) >= 1 /\ ahead[1] = CB
    <3>1. Len(v) >= 1 /\ v[1] = CB
      BY <2>1
    <3> QED
      BY <1>2, <3>1 DEF Seen
  <2>3. Starts({"#CB"}) /\ ~Starts({"#CA"}) /\ ~StartsTwo({"#CA"}, {"#CB"})
    BY <1>3, <2>2 DEF Starts, StartsTwo
  <2>4. Matching # {} /\ Took(0, None, None, FALSE)
    BY <1>1, <2>3, MemberTakes
  <2>5. Eats(0) /\ Bite(0) = <<>> /\ Taken.r = None /\ Taken.r \in {None} \cup Rules
    BY <2>4, TookEats
  <2>6. ASSUME NEW node, Puts(node) PROVE Coming(rest)
    <3>1. Want(Growing(node), v, E, t0, TRUE)
      BY <1>4, <2>1, <2>6, ClosedWants
    <3>2. NowAwaits(v, E, t0, Growing(node), Taken.r)
      BY <1>2, <2>5, <3>1, AwaitsNone
    <3>3. v = Bite(0) \o v
      BY <1>2, <2>5, EmptyWord
    <3> QED
      BY <1>1, <2>5, <2>6, <3>2, <3>3, AddsOn
  <2> QED
    BY <2>4, <2>6 DEF K
<1>7. CASE \E m \in Groups, c \in BOOLEAN : /\ m.value.kind = Parent.rule /\ Keys(m.value) \cap K = {}
                                            /\ Within(m, E) /\ v = TailOf(m, c)
  <2>1. PICK m \in Groups, c \in BOOLEAN : /\ m.value.kind = Parent.rule /\ Keys(m.value) \cap K = {}
                                           /\ Within(m, E) /\ v = TailOf(m, c)
    BY <1>7
  <2> DEFINE x == m.tokens
             e == Ending(c)
             w == x \o e
             a == <<CA>>
  <2>2. x \in Words /\ e \in Words /\ a \in Words /\ Len(x) >= 1 /\ x[1] # CB
    <3>1. Worded(m) /\ Len(m.tokens) \in Nat \ {0}
      BY GroupsFine DEF Worded
    <3>2. Len(m.tokens) >= 1
      BY <3>1
    <3> QED
      BY <3>1, <3>2, GroupWord, EndingWord, MarksAreWords DEF Worded, CB
  <2>3. v = (a \o x) \o e
    BY <2>1 DEF TailOf
  <2>4. Len(a) = 1 /\ a[1] = CA
    OBVIOUS
  <2> HIDE DEF x, e, a
  <2>5. v = a \o w
    <3>1. Joins3(a, x, e)
      BY <2>2, Assoc3
    <3> QED
      BY <2>3, <3>1 DEF Joins3
  <2>6. w \in Words /\ Len(w) >= 1 /\ w[1] = x[1]
    <3>1. Len(x \o e) = Len(x) + Len(e) /\ Len(e) \in Nat /\ Len(x) \in Nat
      BY <2>2, JoinLen, WordLen
    <3>2. 1 \in 1..Len(x) /\ Len(x \o e) >= 1
      BY <2>2, <3>1
    <3>3. \A i \in 1..Len(x) : (x \o e)[i] = x[i]
      BY <2>2, Front
    <3>4. (x \o e)[1] = x[1] /\ x \o e \in Words
      BY <2>2, <3>2, <3>3, Join
    <3> QED
      BY <3>2, <3>4
  <2> HIDE DEF w
  <2>7. Len(v) >= 2 /\ Len(v) >= 1 /\ v[1] = CA /\ v[2] = w[1]
    <3>1. Len(a \o w) = Len(a) + Len(w) /\ Len(w) \in Nat
      BY <2>2, <2>6, JoinLen, WordLen
    <3>2. 1 \in 1..Len(a) /\ 1 \in 1..Len(w) /\ Len(a) + 1 = 2
      BY <2>4, <2>6, <3>1
    <3>3. (\A i \in 1..Len(a) : (a \o w)[i] = a[i]) /\ (\A i \in 1..Len(w) : (a \o w)[Len(a) + i] = w[i])
      BY <2>2, <2>6, Front
    <3>4. (a \o w)[1] = a[1] /\ (a \o w)[Len(a) + 1] = w[1]
      BY <3>2, <3>3
    <3>5. v[1] = CA /\ v[2] = w[1]
      BY <2>4, <2>5, <3>2, <3>4
    <3>6. Len(v) >= 2 /\ Len(v) >= 1
      <4>1. Len(v) = Len(a) + Len(w)
        BY <2>5, <3>1
      <4> QED
        BY <2>4, <2>6, <3>1, <4>1
    <3> QED
      BY <3>5, <3>6
  <2>8. Len(ahead) >= 1 /\ Len(ahead) >= 2 /\ ahead[1] = CA /\ ahead[2] # CB
    BY <1>2, <1>3, <2>2, <2>6, <2>7 DEF Seen
  <2>9. Starts({"#CA"}) /\ ~StartsTwo({"#CA"}, {"#CB"}) /\ ~Starts({"#CB"})
    <3>1. ahead[2] \in Tokens
      <4>1. 2 \in 1..Len(ahead)
        BY <2>8, Aheads
      <4> QED
        BY <4>1, Aheads
    <3>2. ahead[2].type # "#CB"
      BY <2>8, <3>1, Types
    <3> QED
      BY <1>3, <2>8, <3>2 DEF Starts, StartsTwo
  <2>10. Matching # {} /\ Took(1, None, Top.rule, FALSE)
    BY <1>1, <2>9, MemberTakes
  <2>11. Eats(1) /\ Bite(1) = a /\ Taken.r = MemberRule(Parent.rule) /\ Taken.r \in {None} \cup Rules
    <3>1. Eats(1) /\ Bite(1) = <<CA>> /\ Taken.r = Top.rule
      BY <1>3, <2>8, <2>10, TookEats
    <3> QED
      BY <1>1, <3>1, MemberRules DEF a
  <2>12. ASSUME NEW node, Puts(node) PROVE Coming(rest)
    <3>1. Keys(m.value) \cap Keys(node) = {} /\ node.kind = Parent.rule /\ Added(node)
      BY <2>1, <2>12
    <3> DEFINE r == Growing(node)
    <3>2. r.rule = Parent.rule /\ r.state = "close" /\ r.node = node /\ r.rule \in Containers
      BY <1>4, <2>12
    <3> HIDE DEF r
    <3>3. NowAwaits(m.tokens \o Ending(c), E, t0, r, MemberRule(r.rule))
      BY <1>1, <2>1, <3>1, <3>2, NextWanted
    <3>4. NowAwaits(w, E, t0, Growing(node), Taken.r)
      BY <2>11, <3>2, <3>3 DEF w, x, e, r
    <3>5. v = Bite(1) \o w
      BY <2>5, <2>11
    <3> QED
      BY <1>1, <2>11, <3>1, <3>4, <3>5, AddsOn
  <2> QED
    BY <2>10, <2>12 DEF K
<1>8. \A c \in BOOLEAN : c = TRUE \/ c = FALSE
  OBVIOUS
<1> QED
  BY <1>2, <1>5, <1>6, <1>7, <1>8 DEF MoreMembers

LEMMA AssignedKeys ==
    ASSUME NEW node, Sequential(node.fields), node = Map(node.fields), NEW key, ~HasField(node, key), NEW v
    PROVE  Keys(Assign(node, key, v)) = Keys(node) \cup {key} /\ Assign(node, key, v).kind = "map"
<1> DEFINE f == [key |-> key, value |-> v]
           s == node.fields
           one == <<f>>
<1>1. Assign(node, key, v) = Map(Append(s, f))
  BY DEF Assign
<1>2. Append(s, f) = s \o one
  BY AppendJoins
<1>3. Sequential(one)
  <2>1. one \in Seq({f})
    OBVIOUS
  <2> QED
    BY <2>1 DEF Sequential
<1>4. Keys(Map(one)) = {key}
  BY KeysOfField
<1>5. Sequential(s) /\ node = Map(s)
  OBVIOUS
<1> HIDE DEF one, f, s
<1>6. Keys(Map(s \o one)) = Keys(Map(s)) \cup Keys(Map(one))
  BY <1>3, <1>5, KeysOfJoin
<1>7. Assign(node, key, v) = Map(s \o one)
  BY <1>1, <1>2
<1> QED
  BY <1>4, <1>5, <1>6, <1>7, Kinds

\* What is expected of a member's rule that is done, and of its container.
LEMMA MemberAdds ==
    ASSUME IInv, Ready, Top.rule \in {"pair", "elem"}, Top.state = "close",
           NEW rest \in Words, Expects(stack, ahead \o rest)
    PROVE  \E v, z, t0 : AddsTo(rest, v, z, t0) /\ (Top.rule = "pair" => Top.o0.text = t0)
<1>1. /\ Len(stack) > 1 /\ Parent.rule \in Containers /\ Parent.state = "close"
      /\ MemberRule(Parent.rule) = Top.rule /\ E \in Nat
  BY MemberRuleIs
<1>2. PICK u, v, z, t, t0 : Straddles(rest, u, v, z, t, t0)
  BY <1>1, Straddling
<1>3. u = <<>> /\ (Top.rule = "pair" => Top.o0.text = t /\ t = t0) /\ v \in Words /\ z \in Words
  BY <1>2 DEF Straddles, Want
<1>4. WantsMore(Parent, v, E, t0)
  <2>1. Parent.rule # "val" /\ Parent.rule # "elem" /\ Parent.rule # "pair"
    BY <1>1 DEF Containers
  <2> QED
    BY <1>1, <1>2, <2>1 DEF Straddles, Want
<1>5. Straddles(rest, <<>>, v, z, t0, t0)
  <2>1. Want(Top, <<>>, D, t0, TRUE)
    BY <1>3, ClosedWants
  <2> QED
    BY <1>2, <1>3, <2>1 DEF Straddles
<1>6. AddsTo(rest, v, z, t0)
  BY <1>3, <1>4, <1>5 DEF AddsTo, WantsMore
<1> QED
  BY <1>3, <1>6

LEMMA PairGoes ==
    ASSUME IInv, Ready, Top.rule = "pair", Top.state = "close", NEW w \in Words, Reads(stack, w),
           NEW rest \in Words, Expects(stack, ahead \o rest)
    PROVE  Matching # {} /\ ~Duplicate /\ (ClosePair => Coming(rest))
<1>1. /\ Len(stack) > 1 /\ Parent.rule = "map" /\ Parent.rule \in Containers /\ Parent.state = "close"
      /\ Parent.node.kind = "map"
  BY MemberRuleIs
<1>2. PICK v, z, t0 : AddsTo(rest, v, z, t0) /\ Top.o0.text = t0
  BY MemberAdds
<1>3. t0 \notin Keys(Parent.node)
  BY <1>2 DEF AddsTo
<1>4. ~HasField(Parent.node, t0)
  BY <1>1, <1>3, KeysHas
<1>5. ~Duplicate
  BY <1>2, <1>4 DEF Duplicate
<1> DEFINE node == Assign(Parent.node, t0, Top.child)
           P == DepthTo(stack, Len(stack) - 1)
<1>6. Keys(node) = Keys(Parent.node) \cup {t0} /\ node.kind = "map"
  <2>1. PICK x, y, u : Below(w, x, y, u)
    BY <1>1, TopAndBelow
  <2>2. NoneSaid(Parent, y) \/ MoreSaid(Parent, y, P)
    BY <1>1, <2>1 DEF Below, Part
  <2>3. Sequential(Parent.node.fields) /\ Parent.node = Map(Parent.node.fields)
    BY <1>1, <2>2, AwaitingNode
  <2> QED
    BY <1>4, <2>3, AssignedKeys
<1>7. Keys(node) = Keys(Parent.node) \cup (IF Parent.rule = "map" THEN {t0} ELSE {}) /\ node.kind = Parent.rule
  BY <1>1, <1>6
<1>8. ClosePair => Added(node)
  BY <1>2 DEF ClosePair
<1> HIDE DEF node
<1>9. Matching # {} /\ (Added(node) => Coming(rest))
  BY <1>2, <1>7, MemberGoes
<1> QED
  BY <1>5, <1>8, <1>9

LEMMA ElemGoes ==
    ASSUME IInv, Ready, Top.rule = "elem", Top.state = "close",
           NEW rest \in Words, Expects(stack, ahead \o rest)
    PROVE  Matching # {} /\ (CloseElem => Coming(rest))
<1>1. Parent.rule = "list" /\ Parent.node.kind = "list"
  BY MemberRuleIs
<1>2. PICK v, z, t0 : AddsTo(rest, v, z, t0)
  BY MemberAdds
<1> DEFINE node == List(Append(Parent.node.items, Top.child))
<1>3. Keys(node) = {} /\ node.kind = "list" /\ Keys(Parent.node) = {}
  BY <1>1, KeysOfList, Kinds DEF Keys
<1>4. Keys(node) = Keys(Parent.node) \cup (IF Parent.rule = "map" THEN {t0} ELSE {}) /\ node.kind = Parent.rule
  BY <1>1, <1>3
<1>5. CloseElem => Added(node)
  BY DEF CloseElem
<1> HIDE DEF node
<1>6. Matching # {} /\ (Added(node) => Coming(rest))
  BY <1>2, <1>4, MemberGoes
<1> QED
  BY <1>5, <1>6

-----------------------------------------------------------------------------
(* No document is refused.                                                 *)

\* With rest after what was read it is a document.
Ahead(rest) == \E p \in Values : p.tokens \o <<ZZ>> = read \o rest
\* The inductive invariant: whatever document begins as read, what is left of
\* it is what the rules of the stack still expect.
CInv ==
    /\ SInv /\ RefusesNoDocument
    /\ status = "parsing" => \A rest \in Words : Ahead(rest) => Expects(stack, ahead \o rest)

\* What has been read begins a document: the rest of it.
LEMMA BegunIs ==
    ASSUME read \in Words, read \in Begun
    PROVE  \E rest \in Words : Ahead(rest)
<1>0. PICK d \in Documents : \E n \in 0..Len(d.tokens) : read = SubSeq(d.tokens, 1, n)
  BY DEF Begun
<1>1. PICK n \in 0..Len(d.tokens) : read = SubSeq(d.tokens, 1, n)
  BY <1>0
<1>2. PICK p \in Values : d.tokens = p.tokens \o <<ZZ>>
  BY DEF Documents, ZZ, Values, Vals
<1> DEFINE x == d.tokens
           m == Len(x)
           b == SubSeq(x, n + 1, m)
<1>3. x \in Words
  <2>1. p.tokens \in Words
    BY ValuesFine, GroupWord
  <2> QED
    BY <1>2, <2>1, Join, MarksAreWords
<1>4. x \in Seq(Tokens) /\ m \in Nat /\ n \in Nat /\ n <= m /\ \A i \in 1..m : x[i] \in Tokens
  BY <1>3 DEF Words
<1>5. x = read \o b
  <2>1. 1 \in 1..(m + 1) /\ n \in (1 - 1)..m /\ m \in n..m
    BY <1>4
  <2>2. SubSeq(x, 1, n) \o SubSeq(x, n + 1, m) = SubSeq(x, 1, m)
    BY <1>4, <2>1, ConcatAdjacentSubSeq
  <2>3. SubSeq(x, 1, m) = x
    BY <1>4, SubSeqFull
  <2> QED
    BY <1>1, <2>2, <2>3
<1>6. b \in Words
  <2>1. \A i \in (n + 1)..m : x[i] \in Tokens
    BY <1>4
  <2>2. n + 1 \in Int /\ m \in Int
    BY <1>4
  <2>3. SubSeq(x, n + 1, m) \in Seq(Tokens)
    BY <2>1, <2>2, SubSeqProperties
  <2> QED
    BY <2>3 DEF Words
<1>7. p.tokens \o <<ZZ>> = read \o b
  BY <1>2, <1>5
<1> HIDE DEF b
<1>8. Ahead(b)
  BY <1>7 DEF Ahead
<1> QED
  BY <1>6, <1>8

LEMMA CInvInit == Init => CInv
<1> SUFFICES ASSUME Init PROVE CInv
  OBVIOUS
<1> DEFINE r == Rule("val")
           s == <<r>>
<1>1. ahead = <<>> /\ read = <<>> /\ stack = s /\ status = "parsing"
  BY DEF Init
<1>2. Len(s) = 1 /\ s[1] = r /\ (1 = 1) = TRUE
  OBVIOUS
<1>3. r.rule = "val" /\ r.state = "open"
  BY PushedRule DEF Rules
<1> HIDE DEF r, s
<1>4. DepthTo(s, 1) = 0
  <2>1. {j \in 1..1 : s[j].rule \in Containers} = {}
    <3>1. \A j \in 1..1 : j = 1
      OBVIOUS
    <3> QED
      BY <1>2, <1>3, <3>1 DEF Containers
  <2> QED
    BY <2>1, FS_EmptySet DEF DepthTo
<1>5. ASSUME NEW rest \in Words, Ahead(rest) PROVE Expects(stack, ahead \o rest)
  <2>1. PICK p \in Values : p.tokens \o <<ZZ>> = read \o rest
    BY <1>5 DEF Ahead
  <2>2. p.tokens \in Words /\ p.depth \in Nat /\ p.depth <= MaxDepth
    <3>1. p.tokens \in Words /\ p.depth \in Nat
      BY ValuesFine, GroupWord
    <3>2. p.depth <= MaxDepth
      BY ValueIs, ScalarsWorded, EmptyWorded, Whole
    <3> QED
      BY <3>1, <3>2
  <2>3. Within(p, 0)
    BY <2>2 DEF Within
  <2>4. Want(r, p.tokens, DepthTo(s, 1), "", TRUE)
    BY <1>3, <1>4, <2>3 DEF Want, WantsValue
  <2> DEFINE need == [i \in 1..1 |-> p.tokens]
             post == [i \in 1..1 |-> <<ZZ>>]
             key  == [i \in 1..1 |-> ""]
  <2>5. need[1] = p.tokens /\ post[1] = <<ZZ>> /\ key[1] = ""
    OBVIOUS
  <2> HIDE DEF need, post, key
  <2>6. \A i \in 1..Len(s) : need[i] \in Words /\ post[i] \in Words
                             /\ Want(s[i], need[i], DepthTo(s, i), key[i], i = Len(s))
    <3> SUFFICES ASSUME NEW i \in 1..Len(s)
                 PROVE  need[i] \in Words /\ post[i] \in Words
                        /\ Want(s[i], need[i], DepthTo(s, i), key[i], i = Len(s))
      OBVIOUS
    <3>1. i = 1 /\ (i = Len(s)) = TRUE
      BY <1>2
    <3> QED
      BY <1>2, <2>2, <2>4, <2>5, <3>1, MarksAreWords
  <2>7. \A i \in 2..Len(s) : FALSE
    BY <1>2
  <2>8. Expect(s, need, post, key)
    BY <2>5, <2>6, <2>7 DEF Expect
  <2>9. Expects(s, need[Len(s)] \o post[Len(s)])
    BY <2>8 DEF Expects
  <2>10. need[Len(s)] \o post[Len(s)] = ahead \o rest
    BY <1>1, <1>2, <2>1, <2>5
  <2> QED
    BY <1>1, <2>9, <2>10
<1> QED
  BY <1>1, <1>5, SInvInit DEF CInv, RefusesNoDocument

LEMMA NoError ==
    ASSUME CInv, Ready, NEW rest \in Words, Ahead(rest)
    PROVE  ~Unexpected /\ ~Cancel /\ ~DuplicateField
<1>1. IInv /\ SInv /\ status = "parsing" /\ Expects(stack, ahead \o rest)
  BY DEF CInv, SInv, Ready
<1>2. PICK w \in Words : Reads(stack, w)
  BY <1>1 DEF SInv, Sound
<1>3. Top.rule \in Rules /\ Top.state \in {"open", "close"} /\ Lexed
  BY <1>1, TopOK, Aheads DEF RuleOK
<1>4. Matching # {} \/ Duplicate
  <2>1. CASE Top.state = "open"
    BY <1>1, <2>1, OpenGoes DEF Opens
  <2>2. CASE Top.state = "close"
    <3>1. CASE Top.rule = "val"
      BY <1>3, <2>2, <3>1, ValCloseTakes
    <3>2. CASE Top.rule \in Containers
      BY <1>1, <2>2, <3>2, ContainerGoes
    <3>3. CASE Top.rule = "pair"
      BY <1>1, <1>2, <2>2, <3>3, PairGoes
    <3>4. CASE Top.rule = "elem"
      BY <1>1, <2>2, <3>4, ElemGoes
    <3> QED
      BY <1>3, <3>1, <3>2, <3>3, <3>4 DEF Rules, Containers
  <2> QED
    BY <1>3, <2>1, <2>2
<1>5. ~Duplicate
  <2>1. Top.rule = "pair" /\ Top.state = "close" => ~Duplicate
    BY <1>1, <1>2, PairGoes
  <2>2. ~(Top.rule = "pair" /\ Top.state = "close") => ~Duplicate
    BY DEF Duplicate
  <2> QED
    BY <2>1, <2>2
<1>6. Top.state = "open" => ~(Depth > MaxDepth)
  <2>1. Top.state = "open" => Depth <= MaxDepth
    BY <1>1, OpenGoes DEF Opens
  <2>2. Depth \in Nat /\ MaxDepth \in Nat
    BY <1>1, DepthOfTop, Whole
  <2> HIDE DEF Depth
  <2> QED
    BY <2>1, <2>2
<1> QED
  BY <1>4, <1>5, <1>6 DEF Unexpected, Cancel, DuplicateField

LEMMA CInvStep == CInv /\ [Next]_vars => CInv'
<1> SUFFICES ASSUME CInv, [Next]_vars PROVE CInv'
  OBVIOUS
<1>1. SInv /\ IInv /\ RefusesNoDocument /\ read \in Words
  BY DEF CInv, SInv, IInv, Words
<1>2. SInv'
  BY <1>1, SInvStep
<1>3. ASSUME Ready, read' = read, status' = status, \A rest \in Words : Expects(stack, ahead \o rest) => Coming(rest)
      PROVE  CInv'
  <2>1. status = "parsing" /\ status' = "parsing"
    BY <1>3 DEF Ready
  <2>2. ASSUME NEW rest \in Words, Ahead(rest)' PROVE Expects(stack', ahead' \o rest)
    <3>1. Ahead(rest)
      BY <1>3, <2>2 DEF Ahead
    <3>2. Expects(stack, ahead \o rest)
      BY <2>1, <3>1 DEF CInv
    <3>3. Coming(rest)
      BY <1>3, <3>2
    <3> QED
      BY <3>3 DEF Coming
  <2> QED
    BY <1>2, <2>1, <2>2 DEF CInv, RefusesNoDocument
<1>4. ASSUME read' = read, status' # "parsing",
             \A rest \in Words : Ahead(rest) => status' = "accepted"
      PROVE  CInv'
  <2>1. status' = "accepted" \/ read \notin Begun
    BY <1>1, <1>4, BegunIs
  <2>2. RefusesNoDocument'
    BY <1>4, <2>1 DEF RefusesNoDocument
  <2> QED
    BY <1>2, <1>4, <2>2 DEF CInv
<1>5. CASE \E t \in Tokens : Lex(t)
  <2>1. PICK t \in Tokens : Lex(t)
    BY <1>5
  <2> DEFINE y == <<t>>
  <2>2. status = "parsing" /\ status' = "parsing" /\ stack' = stack /\ ahead' = ahead \o y /\ read' = read \o y
    <3>1. ahead \in Seq(Tokens) /\ read \in Seq(Tokens)
      BY <1>1 DEF IInv
    <3> QED
      BY <2>1, <3>1, AppendIsConcat DEF Lex
  <2>3. y \in Words /\ ahead \in Words
    BY <1>1, MarksAreWords, Aheads
  <2> HIDE DEF y
  <2>4. ASSUME NEW rest \in Words, Ahead(rest)' PROVE Expects(stack', ahead' \o rest)
    <3> DEFINE r == y \o rest
    <3>1. r \in Words /\ Joins3(read, y, rest) /\ Joins3(ahead, y, rest)
      BY <1>1, <2>3, Join, Assoc3
    <3>2. PICK p \in Values : p.tokens \o <<ZZ>> = read' \o rest
      BY <2>4 DEF Ahead
    <3>3. p.tokens \o <<ZZ>> = read \o r
      BY <2>2, <3>1, <3>2 DEF Joins3
    <3>4. ahead' \o rest = ahead \o r
      BY <2>2, <3>1 DEF Joins3
    <3> HIDE DEF r
    <3>5. Ahead(r)
      BY <3>3 DEF Ahead
    <3>6. Expects(stack, ahead \o r)
      BY <2>2, <3>1, <3>5 DEF CInv
    <3> QED
      BY <2>2, <3>4, <3>6
  <2> QED
    BY <1>2, <2>2, <2>4 DEF CInv, RefusesNoDocument
<1>6. CASE Open
  <2>1. Ready /\ Top.state = "open" /\ read' = read /\ status' = status
    BY <1>6 DEF Open
  <2> QED
    BY <1>1, <1>3, <1>6, <2>1, OpenGoes DEF Opens
<1>7. CASE Unexpected \/ Cancel \/ DuplicateField
  <2>1. Ready /\ status' \in {"unexpected", "cancel", "zon_dup_field"} /\ read' = read
    BY <1>7 DEF Unexpected, Cancel, DuplicateField, Fail
  <2>2. \A rest \in Words : ~Ahead(rest)
    BY <1>7, <2>1, NoError
  <2> QED
    BY <1>4, <2>1, <2>2
<1>8. CASE CloseVal
  <2>1. Ready /\ status = "parsing" /\ read' = read /\ Len(stack) \in Nat /\ Len(stack) > 0
    <3>1. Ready /\ read' = read
      BY <1>8 DEF CloseVal, Closing
    <3> QED
      BY <1>1, <3>1, TopOK DEF Ready
  <2>2. CASE Len(stack) = 1
    <3>1. status' # "parsing"
      BY <1>8, <2>2 DEF CloseVal
    <3>2. ASSUME NEW rest \in Words, Ahead(rest) PROVE status' = "accepted"
      <4>1. Expects(stack, ahead \o rest)
        BY <2>1, <3>2 DEF CInv
      <4> QED
        BY <1>1, <1>8, <2>2, <4>1, LastCloses
    <3> QED
      BY <1>4, <2>1, <3>1, <3>2
  <2>3. CASE Len(stack) # 1
    <3>1. status' = status
      BY <1>8, <2>3 DEF CloseVal
    <3>2. Len(stack) > 1
      <4> DEFINE n == Len(stack)
      <4>1. n \in Nat /\ n > 0 /\ n # 1
        BY <2>1, <2>3
      <4> HIDE DEF n
      <4>2. n > 1
        BY <4>1
      <4> QED
        BY <4>2 DEF n
    <3> QED
      BY <1>1, <1>3, <1>8, <2>1, <3>1, <3>2, CloseValGoes
  <2> QED
    BY <2>2, <2>3
<1>9. CASE ClosePair
  <2>1. Ready /\ Top.rule = "pair" /\ Top.state = "close" /\ read' = read /\ status' = status /\ status = "parsing"
    BY <1>9 DEF ClosePair, Closing, Added, Ready
  <2>2. PICK w \in Words : Reads(stack, w)
    BY <1>1, <2>1 DEF SInv, Sound
  <2> QED
    BY <1>1, <1>3, <1>9, <2>1, <2>2, PairGoes
<1>10. CASE CloseElem
  <2>1. Ready /\ Top.rule = "elem" /\ Top.state = "close" /\ read' = read /\ status' = status
    BY <1>10 DEF CloseElem, Closing, Added
  <2> QED
    BY <1>1, <1>3, <1>10, <2>1, ElemGoes
<1>11. CASE \E rule \in Containers : CloseContainer(rule)
  <2>1. PICK rule \in Containers : CloseContainer(rule)
    BY <1>11
  <2>2. Ready /\ Top.rule \in Containers /\ Top.state = "close" /\ read' = read /\ status' = status
    BY <2>1 DEF CloseContainer, Closing
  <2> QED
    BY <1>1, <1>3, <2>1, <2>2, ContainerGoes
<1>12. CASE UNCHANGED vars
  <2>1. read' = read /\ status' = status /\ stack' = stack /\ ahead' = ahead
    BY <1>12 DEF vars
  <2>2. status = "parsing" => \A rest \in Words : Ahead(rest) => Expects(stack, ahead \o rest)
    BY DEF CInv
  <2> QED
    BY <1>1, <1>2, <2>1, <2>2 DEF CInv, RefusesNoDocument, Ahead
<1> QED
  BY <1>5, <1>6, <1>7, <1>8, <1>9, <1>10, <1>11, <1>12 DEF Next

\* No document is refused: zon-grammar.jsonic's alternates, put before those
\* of the relaxed-JSON grammar, take every token of a document, a comma
\* before a brace and an empty tuple as well, the guard on fields stops none
\* whose names are distinct, and the budget none that is within it.
THEOREM DocumentsAreAccepted == Spec => []RefusesNoDocument
<1>1. CInv => RefusesNoDocument
  BY DEF CInv
<1> QED
  BY <1>1, CInvInit, CInvStep, PTL DEF Spec
=============================================================================
