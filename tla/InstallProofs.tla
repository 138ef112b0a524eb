--------------------------- MODULE InstallProofs ---------------------------
(***************************************************************************)
(* The installation, for any threads, tags and bags of options.            *)
(***************************************************************************)
EXTENDS ZonInstall, SequenceTheorems, TLAPS

LEMMA ValuesAre ==
    ASSUME NEW v \in Values
    PROVE  \/ v \in {Of("undefined", "undefined"), Of("null", "null")}
           \/ \E b \in {"true", "false"} : v = Of("bool", b)
           \/ \E n \in {"0", "-0", "NaN", "Infinity", "1", "2^89"} : v = Of("number", n)
           \/ \E s \in Names : v = Of("string", s)
           \/ \E c \in {"[]", "[1]", "{}"} : v = Of("container", c)
  BY DEF Values

\* What JavaScript takes for true is what is not one of the seven false values.
LEMMA TruthyIsNotFalsy == \A v \in Values : Truthy(v) <=> v \notin Falsy
<1> SUFFICES ASSUME NEW v \in Values PROVE Truthy(v) <=> v \notin Falsy
  OBVIOUS
<1>1. CASE v \in {Of("undefined", "undefined"), Of("null", "null")}
  BY <1>1 DEF Truthy, Falsy, Of
<1>2. CASE \E b \in {"true", "false"} : v = Of("bool", b)
  BY <1>2 DEF Truthy, Falsy, Of
<1>3. CASE \E n \in {"0", "-0", "NaN", "Infinity", "1", "2^89"} : v = Of("number", n)
  BY <1>3 DEF Truthy, Falsy, Of
<1>4. CASE \E s \in Names : v = Of("string", s)
  BY <1>4 DEF Truthy, Falsy, Of
<1>5. CASE \E c \in {"[]", "[1]", "{}"} : v = Of("container", c)
  <2>1. PICK c : v = Of("container", c)
    BY <1>5
  <2>2. QED
    BY <2>1 DEF Truthy, Falsy, Of
<1>6. QED
  BY ValuesAre, <1>1, <1>2, <1>3, <1>4, <1>5

\* A field of the bag the plugin is given.
LEMMA MergedField ==
    ASSUME NEW b \in Bags
    PROVE  /\ DOMAIN Merged(b) = Fields
           /\ Merged(b)["charAsNumber"] =
                 IF "charAsNumber" \in DOMAIN b THEN b["charAsNumber"] ELSE Of("bool", "false")
           /\ Merged(b)["enumTag"] = IF "enumTag" \in DOMAIN b THEN b["enumTag"] ELSE Of("null", "null")
<1>1. PICK F \in SUBSET Fields : b \in [F -> Values]
  BY DEF Bags
<1>2. DOMAIN b \subseteq Fields
  BY <1>1
<1>3. ToValue(Default) = [f \in Fields |-> IF f = "charAsNumber" THEN Of("bool", "false") ELSE Of("null", "null")]
  BY DEF ToValue, Default, Options
<1>4. QED
  BY <1>2, <1>3 DEF Merged, Over, Fields

LEMMA EmptyIsNone ==
    Empty # NoTag /\ \A s \in {"true", "Infinity", "1", "another double", "[]", "[1]", "{}"} : s # Empty /\ s # NoTag
  BY Zenon DEF Empty, NoTag

\* What is used of the options.
Used(o) == Options(o.charAsNumber, Tag(o))

\* Only a number may be the power of two.
LEMMA SpeltApart == \A v : v.is # "number" => v # PowerOfTwo /\ KeyOf(v) = v.of
<1>1. PowerOfTwo.is = "number"
  BY DEF PowerOfTwo, Of
<1>2. ASSUME NEW v, v.is # "number" PROVE v # PowerOfTwo
  BY <1>1, <1>2
<1>3. QED
  BY <1>2 DEF KeyOf

\* A tag that is given, as it is used and as TypeScript reads it.
LEMMA TagIsAsked ==
    ASSUME NEW v \in Values
    PROVE  IF v.is = "container" \/ v = PowerOfTwo
           THEN TagOf(v) = KeyOf(v) /\ KeyOf(v) # Empty /\ v \notin Falsy
           ELSE (IF TagOf(v) = Empty THEN NoTag ELSE TagOf(v))
                   = (IF v \notin Falsy THEN PropertyKey(v) ELSE NoTag)
<1>1. CASE v \in {Of("undefined", "undefined"), Of("null", "null")}
  <2>1. v \in Falsy /\ v.is \notin {"container", "string", "number"}
    BY <1>1 DEF Falsy, Of
  <2>2. TagOf(v) = NoTag
    BY <2>1, TruthyIsNotFalsy DEF TagOf
  <2>3. QED
    BY <2>1, <2>2, EmptyIsNone, SpeltApart
<1>2. CASE \E b \in {"true", "false"} : v = Of("bool", b)
  <2>1. v.is = "bool" /\ v.of \in {"true", "false"} /\ (v.of = "false" <=> v \in Falsy)
    BY <1>2 DEF Falsy, Of
  <2>2. TagOf(v) = IF v.of = "true" THEN v.of ELSE NoTag
    BY <2>1, SpeltApart, TruthyIsNotFalsy DEF TagOf
  <2>3. QED
    BY <2>1, <2>2, SpeltApart, EmptyIsNone DEF PropertyKey
<1>3. CASE \E n \in {"0", "-0", "NaN", "Infinity", "1", "2^89"} : v = Of("number", n)
  <2>1. CASE v = PowerOfTwo
    <3>1. v \notin Falsy
      BY <2>1 DEF PowerOfTwo, Falsy, Of
    <3>2. TagOf(v) = KeyOf(v)
      BY <3>1, TruthyIsNotFalsy DEF TagOf
    <3>3. QED
      BY <2>1, <3>1, <3>2, EmptyIsNone DEF KeyOf
  <2>2. CASE v # PowerOfTwo
    <3>1. v.is = "number" /\ (v \in Falsy \/ v.of \in {"Infinity", "1"})
      BY <1>3, <2>2 DEF PowerOfTwo, Falsy, Of
    <3>2. TagOf(v) = IF v \notin Falsy THEN v.of ELSE NoTag
      BY <2>2, <3>1, TruthyIsNotFalsy DEF TagOf, KeyOf
    <3>3. QED
      BY <2>2, <3>1, <3>2, EmptyIsNone DEF PropertyKey
  <2>3. QED
    BY <2>1, <2>2
<1>4. CASE \E s \in Names : v = Of("string", s)
  <2>1. v.is = "string" /\ v.of \in Names /\ (v.of = Empty <=> v \in Falsy)
    BY <1>4 DEF Falsy, Of
  <2>2. TagOf(v) = v.of
    BY <2>1, SpeltApart DEF TagOf
  <2>3. QED
    BY <2>1, <2>2, SpeltApart DEF PropertyKey
<1>5. CASE \E c \in {"[]", "[1]", "{}"} : v = Of("container", c)
  <2>1. v.is = "container" /\ v.of \in {"[]", "[1]", "{}"}
    <3>1. PICK c \in {"[]", "[1]", "{}"} : v = Of("container", c)
      BY <1>5
    <3>2. v.is = "container" /\ v.of = c
      BY <3>1 DEF Of
    <3>3. QED
      BY <3>1, <3>2
  <2>2. v \notin Falsy
    <3>1. \A w \in Falsy : w.is # "container"
      BY DEF Falsy, Of
    <3>2. QED
      BY <2>1, <3>1
  <2>3. TagOf(v) = v.of
    BY <2>1, <2>2, SpeltApart, TruthyIsNotFalsy DEF TagOf
  <2>4. QED
    BY <2>1, <2>2, <2>3, SpeltApart, EmptyIsNone
<1>6. QED
  BY ValuesAre, <1>1, <1>2, <1>3, <1>4, <1>5

\* Rust reads every bag as TypeScript does, but for two kinds of tag it spells
\* its own way, a container and a power of two (2^89 here): each field on its
\* own, whatever the other holds, and an empty tag as none, where it is used.
THEOREM ReadsAsTypeScript == \A b \in Bags : Used(FromValue(Merged(b))) = Asked(b)
<1> SUFFICES ASSUME NEW b \in Bags PROVE Used(FromValue(Merged(b))) = Asked(b)
  OBVIOUS
<1> DEFINE m == Merged(b)
<1>1. /\ DOMAIN m = Fields
      /\ m["charAsNumber"] = IF "charAsNumber" \in DOMAIN b THEN b["charAsNumber"] ELSE Of("bool", "false")
      /\ m["enumTag"] = IF "enumTag" \in DOMAIN b THEN b["enumTag"] ELSE Of("null", "null")
  BY MergedField
<1>2. \A f \in DOMAIN b : f \in Fields /\ b[f] \in Values
  BY DEF Bags
<1>3. Of("bool", "false") \in Values \cap Falsy /\ Of("null", "null") \in Values \cap Falsy
  BY DEF Values, Falsy
<1> SUFFICES Used(FromValue(m)) = Asked(b)
  OBVIOUS
<1> HIDE DEF m
<1>4. Truthy(m["charAsNumber"]) <=> "charAsNumber" \in DOMAIN b /\ b["charAsNumber"] \notin Falsy
  BY <1>1, <1>2, <1>3, TruthyIsNotFalsy
<1> DEFINE chars == "charAsNumber" \in DOMAIN b /\ b["charAsNumber"] \notin Falsy
           tag   == IF "enumTag" \in DOMAIN b /\ b["enumTag"] \notin Falsy THEN PropertyKey(b["enumTag"]) ELSE NoTag
<1>5. Canonical(b) = Options(chars, tag)
  BY DEF Canonical
<1>6. FromValue(m) = Options(chars, TagOf(m["enumTag"]))
  BY <1>1, <1>4 DEF FromValue, Fields
<1>7. Used(FromValue(m)) = Options(chars, IF TagOf(m["enumTag"]) = Empty THEN NoTag ELSE TagOf(m["enumTag"]))
  BY <1>6 DEF Used, Tag, Options
<1>8. CASE "enumTag" \notin DOMAIN b
  <2>1. TagOf(m["enumTag"]) = NoTag
    <3>1. ~Truthy(Of("null", "null")) /\ Of("null", "null").is # "string"
      BY <1>3, TruthyIsNotFalsy DEF Of
    <3>2. QED
      BY <1>1, <1>8, <3>1 DEF TagOf
  <2>2. QED
    BY <1>5, <1>7, <1>8, <2>1, EmptyIsNone DEF Asked, OwnSpelling
<1>9. CASE "enumTag" \in DOMAIN b
  <2>1. m["enumTag"] = b["enumTag"] /\ b["enumTag"] \in Values
    BY <1>1, <1>2, <1>9
  <2>2. CASE b["enumTag"].is = "container" \/ b["enumTag"] = PowerOfTwo
    <3>1. Asked(b) = Options(chars, KeyOf(b["enumTag"]))
      BY <1>5, <1>9, <2>2 DEF Asked, OwnSpelling, Options
    <3>2. QED
      BY <1>7, <2>1, <2>2, <3>1, TagIsAsked
  <2>3. CASE ~(b["enumTag"].is = "container" \/ b["enumTag"] = PowerOfTwo)
    <3>1. Asked(b) = Options(chars, tag)
      BY <1>5, <2>3 DEF Asked, OwnSpelling
    <3>2. (IF TagOf(m["enumTag"]) = Empty THEN NoTag ELSE TagOf(m["enumTag"])) = tag
      BY <1>9, <2>1, <2>3, TagIsAsked
    <3>3. QED
      BY <1>7, <3>1, <3>2
  <2>4. QED
    BY <2>2, <2>3
<1>10. QED
  BY <1>8, <1>9

-----------------------------------------------------------------------------
(* The instances there are.                                                *)

Worked(o) == Hooked(Based, o)
Done(o)   == Applied(Worked(o))
Whole(o)  == [Done(o) EXCEPT !.marked = TRUE]

LEMMA UsedTwice == \A o : Tag(Used(o)) = Tag(o) /\ Used(o).charAsNumber = o.charAsNumber
  BY EmptyIsNone DEF Used, Tag, Options

LEMMA WholeUsed == \A o : Whole(Used(o)) = Whole(o)
<1> SUFFICES ASSUME NEW o PROVE Whole(Used(o)) = Whole(o)
  OBVIOUS
<1>1. Hooked(Based, Used(o)) = Hooked(Based, o)
  BY UsedTwice DEF Hooked
<1>2. QED
  BY <1>1 DEF Whole, Done, Worked

\* Only what is whole is marked, and only a bare engine has not the rules.
LEMMA Marks ==
    /\ ~Bare.marked /\ ~Based.marked
    /\ Jsonic(Bare) = Based /\ Bare # Based
    /\ ~(JsonRules \subseteq Bare.rules) /\ JsonRules \subseteq Based.rules
    /\ \A o : ~Worked(o).marked /\ ~Done(o).marked /\ Whole(o).marked /\ Whole(o).options = Used(o)
<1>1. ~Bare.marked /\ ~Based.marked /\ Jsonic(Bare) = Based
  BY DEF Bare, Based, Jsonic
<1>2. ~(JsonRules \subseteq Bare.rules) /\ JsonRules \subseteq Based.rules
  BY DEF Bare, Based, Jsonic, JsonRules
<1>3. ASSUME NEW o PROVE ~Worked(o).marked /\ ~Done(o).marked /\ Whole(o).marked /\ Whole(o).options = Used(o)
  BY DEF Worked, Done, Whole, Hooked, Applied, Based, Jsonic, Bare, Used
<1>4. QED
  BY <1>1, <1>2, <1>3

LEMMA Join3 == \A a, b, c, d : <<a>> \o <<b, c, d>> = <<a, b, c, d>>
<1> SUFFICES ASSUME NEW a, NEW b, NEW c, NEW d PROVE <<a>> \o <<b, c, d>> = <<a, b, c, d>>
  OBVIOUS
<1> DEFINE S == {a, b, c, d}
           s == <<a>>
           t == <<b, c, d>>
           u == <<a, b, c, d>>
<1>1. s \in Seq(S) /\ t \in Seq(S) /\ u \in Seq(S) /\ Len(s) = 1 /\ Len(t) = 3 /\ Len(u) = 4
  OBVIOUS
<1>2. s[1] = a /\ t[1] = b /\ t[2] = c /\ t[3] = d /\ u[1] = a /\ u[2] = b /\ u[3] = c /\ u[4] = d
  OBVIOUS
<1> HIDE DEF S, s, t, u
<1>3. /\ s \o t \in Seq(S) /\ Len(s \o t) = 4
      /\ \A i \in 1..4 : (s \o t)[i] = IF i <= 1 THEN s[i] ELSE t[i - 1]
  <2>1. /\ s \o t \in Seq(S) /\ Len(s \o t) = Len(s) + Len(t)
        /\ \A i \in 1..Len(s) + Len(t) : (s \o t)[i] = IF i <= Len(s) THEN s[i] ELSE t[i - Len(s)]
    BY <1>1, ConcatProperties, Zenon
  <2>2. Len(s) = 1 /\ Len(t) = 3 /\ Len(s) + Len(t) = 4
    BY <1>1
  <2>3. QED
    BY <2>1, <2>2, Zenon
<1>4. \A i \in 1..4 : (s \o t)[i] = u[i]
  BY <1>2, <1>3
<1>5. s \o t = u
  BY <1>1, <1>3, <1>4, SeqEqual
<1>6. QED
  BY <1>5 DEF s, t, u

LEMMA Join1 == \A a, b : <<>> \o <<a>> \o <<b>> = <<a, b>>
<1> SUFFICES ASSUME NEW a, NEW b PROVE <<>> \o <<a>> \o <<b>> = <<a, b>>
  OBVIOUS
<1> DEFINE S == {a, b}
           s == <<a>>
           t == <<b>>
           u == <<a, b>>
<1>1. s \in Seq(S) /\ t \in Seq(S) /\ u \in Seq(S) /\ Len(s) = 1 /\ Len(t) = 1 /\ Len(u) = 2
  OBVIOUS
<1>2. s[1] = a /\ t[1] = b /\ u[1] = a /\ u[2] = b
  OBVIOUS
<1> HIDE DEF S, s, t, u
<1>3. /\ s \o t \in Seq(S) /\ Len(s \o t) = 2
      /\ \A i \in 1..2 : (s \o t)[i] = IF i <= 1 THEN s[i] ELSE t[i - 1]
  <2>1. /\ s \o t \in Seq(S) /\ Len(s \o t) = Len(s) + Len(t)
        /\ \A i \in 1..Len(s) + Len(t) : (s \o t)[i] = IF i <= Len(s) THEN s[i] ELSE t[i - Len(s)]
    BY <1>1, ConcatProperties, Zenon
  <2>2. Len(s) = 1 /\ Len(t) = 1 /\ Len(s) + Len(t) = 2
    BY <1>1
  <2>3. QED
    BY <2>1, <2>2, Zenon
<1>4. \A i \in 1..2 : (s \o t)[i] = u[i]
  BY <1>2, <1>3
<1>5. s \o t = u
  BY <1>1, <1>3, <1>4, SeqEqual
<1>6. <<>> \o s = s
  BY <1>1, ConcatEmptySeq
<1>7. QED
  BY <1>5, <1>6 DEF s, t, u

LEMMA Join0 == \A a : <<>> \o <<a>> \o <<>> = <<a>>
<1> SUFFICES ASSUME NEW a PROVE <<>> \o <<a>> \o <<>> = <<a>>
  OBVIOUS
<1>1. <<a>> \in Seq({a})
  OBVIOUS
<1>2. QED
  BY <1>1, ConcatEmptySeq

\* Installing on an instance with the grammar underneath, once, gives ZON.
LEMMA WholeSpeaksZon == \A o : SpeaksZon(Whole(o))
<1> SUFFICES ASSUME NEW o PROVE SpeaksZon(Whole(o))
  OBVIOUS
<1> DEFINE x == Whole(o)
<1>1. x.alternates = <<"zon", "json", "jsonic", "imp">> /\ x.exclude = {"jsonic", "imp"}
  <2>1. x.alternates = <<"zon">> \o <<"json", "jsonic", "imp">>
    BY DEF Whole, Done, Worked, Hooked, Applied, Based, Jsonic, Bare
  <2>2. x.exclude = ExcludeOption
    BY DEF Whole, Done, Worked, Hooked, Applied, Based, Jsonic, Bare
  <2>3. QED
    BY <2>1, <2>2, Join3 DEF ExcludeOption
<1>2. x.options.enumTag = Tag(o)
  <2>1. x.options = Used(o)
    BY Marks
  <2>2. QED
    BY <2>1 DEF Used, Options
<1>3. x.hooks = IF Tag(o) = NoTag THEN <<"@pair-bc/prepend">> ELSE <<"@pair-bc/prepend", "@val-ac/prepend">>
  <2>1. x.hooks = <<>> \o <<"@pair-bc/prepend">> \o (IF Tag(o) # NoTag THEN <<"@val-ac/prepend">> ELSE <<>>)
    BY DEF Whole, Done, Worked, Hooked, Applied, Based, Jsonic, Bare
  <2>2. CASE Tag(o) = NoTag
    BY <2>1, <2>2, Join0
  <2>3. CASE Tag(o) # NoTag
    BY <2>1, <2>3, Join1
  <2>4. QED
    BY <2>2, <2>3
<1>4. x.key = Overlaid(Bare.key, KeyOption)
  BY DEF Whole, Done, Worked, Hooked, Applied, Based, Jsonic, Bare
<1>5. x.fixed = Over(FixedOption, Bare.fixed)
  BY DEF Whole, Done, Worked, Hooked, Applied, Based, Jsonic, Bare
<1>6. x.matchers = Without(Over(LexMatch, Bare.matchers), LexOff)
  BY DEF Whole, Done, Worked, Hooked, Applied, Based, Jsonic, Bare
<1> HIDE DEF x
<1>7. {x.key[i] : i \in DOMAIN x.key} \ {Null} = Grammar!KEY
  BY <1>4 DEF Overlaid, KeyOption, Bare, Null, Grammar!KEY
<1>8. /\ DOMAIN x.fixed = {"#OB", "#CB", "#OS", "#CS", "#CL", "#CA"}
      /\ x.fixed["#OB"] = Null /\ x.fixed["#OS"] = Null /\ x.fixed["#CS"] = Null
      /\ x.fixed["#CL"] = "=" /\ x.fixed["#CB"] = "}" /\ x.fixed["#CA"] = ","
  BY <1>5 DEF Over, FixedOption, Bare, Null
<1>9. /\ DOMAIN Lexer!Fixed = {"}", "=", ","}
      /\ Lexer!Fixed["}"] = "#CB" /\ Lexer!Fixed["="] = "#CL" /\ Lexer!Fixed[","] = "#CA"
  BY DEF Lexer!Fixed
<1>10. /\ \A n \in DOMAIN x.fixed : x.fixed[n] # Null =>
             x.fixed[n] \in DOMAIN Lexer!Fixed /\ Lexer!Fixed[x.fixed[n]] = n
       /\ \A c \in DOMAIN Lexer!Fixed : x.fixed[Lexer!Fixed[c]] = c
  BY <1>8, <1>9
<1>11. /\ DOMAIN x.matchers = (DOMAIN LexMatch \cup {"fixed", "space", "line", "comment"})
       /\ \A n \in DOMAIN LexMatch : x.matchers[n] = LexMatch[n]
       /\ \A n \in {"fixed", "space", "line", "comment"} : x.matchers[n] = Bare.matchers[n]
  BY <1>6 DEF Without, Over, LexMatch, LexOff, Bare
<1>12. \A n \in DOMAIN LexMatch : LexMatch[n] \in 10..15
  BY DEF LexMatch
<1>13. \A n \in {"fixed", "space", "line", "comment"} : Bare.matchers[n] \in 200..800
  BY DEF Bare
<1>14. \A n \in DOMAIN LexMatch, m \in DOMAIN x.matchers \ DOMAIN LexMatch : x.matchers[n] < x.matchers[m]
  <2> SUFFICES ASSUME NEW n \in DOMAIN LexMatch, NEW m \in DOMAIN x.matchers \ DOMAIN LexMatch
               PROVE  x.matchers[n] < x.matchers[m]
    OBVIOUS
  <2>1. x.matchers[n] \in 10..15
    BY <1>11, <1>12
  <2>2. m \in {"fixed", "space", "line", "comment"}
    BY <1>11
  <2>3. x.matchers[m] \in 200..800
    BY <1>11, <1>13, <2>2
  <2>4. QED
    <3> DEFINE p == x.matchers[n]
               q == x.matchers[m]
    <3>1. p \in 10..15 /\ q \in 200..800
      BY <2>1, <2>3
    <3> HIDE DEF p, q
    <3>2. p < q
      BY <3>1, SMT
    <3>3. QED
      BY <3>2, Zenon DEF p, q
<1>15. {"string", "number", "text"} \cap DOMAIN x.matchers = {}
  BY <1>11 DEF LexMatch
<1>16. SpeaksZon(x)
  BY <1>1, <1>2, <1>3, <1>7, <1>10, <1>14, <1>15 DEF SpeaksZon
<1>17. QED
  BY <1>16 DEF x

-----------------------------------------------------------------------------
(* The invariant.                                                          *)

Working == {"get rules", "parse rules", "apply"}
Owning  == Working \cup {"check", "mark", "publish"}
Labels  == Owning \cup {"idle", "get default", "parse"}

Shape ==
    /\ instance = [i \in Instances |-> instance[i]] /\ asked = [i \in Instances |-> asked[i]]
    /\ pc \in [Threads -> Labels] /\ next \in [Threads -> {"publish", "parse", "idle"}]
    /\ using = [t \in Threads |-> using[t]] /\ options = [t \in Threads |-> options[t]]
    /\ \A t \in Threads : using[t] \in {t, Shared}

\* An instance that is whole, and one that nobody works on.
WholeAt(i) == instance[i] = Whole(asked[i])
Rests(i)   == instance[i] \in {Bare, Based} \/ WholeAt(i)

\* The shared instance is whole once it is published; until then it is in the
\* hands of the thread that fills the cell.
DefaultOK ==
    /\ default \in {"empty", "set"} \cup Threads
    /\ default = "empty" => instance[Shared] = Bare
    /\ default = "set" => WholeAt(Shared)
    /\ default \in Threads => pc[default] \in Owning /\ using[default] = Shared

\* What a thread has made of the instance it works on.
ThreadOK(t) ==
    /\ pc[t] \in Owning /\ using[t] = Shared => default = t
    /\ pc[t] \in Owning => (using[t] = Shared <=> next[t] = "publish")
    /\ pc[t] \in Owning \ {"publish"} /\ (pc[t] = "check" => ~Mine(t).marked) => asked[using[t]] = Used(options[t])
    /\ pc[t] \in {"get default", "publish"} => using[t] = Shared
    /\ pc[t] = "check" => Rests(using[t])
    /\ pc[t] = "check" /\ next[t] # "idle" => Mine(t) = Based
    /\ pc[t] \in {"get rules", "parse rules", "apply"} => Mine(t) = Worked(options[t])
    /\ pc[t] = "mark" => Mine(t) = Done(options[t])
    /\ pc[t] \in {"publish", "parse"} => WholeAt(using[t])
    /\ pc[t] = "parse" /\ using[t] = Shared => default = "set"
    /\ ~(pc[t] \in Owning /\ using[t] = t) => Rests(t)

IInv == Shape /\ DefaultOK /\ \A t \in Threads : ThreadOK(t)

\* What a step of a thread leaves of the others, and of what is shared.
Others(t) ==
    \A u \in Threads \ {t} :
        /\ pc'[u] = pc[u] /\ using'[u] = using[u] /\ next'[u] = next[u] /\ options'[u] = options[u]
        /\ instance'[u] = instance[u] /\ asked'[u] = asked[u]
SharedKept(t) ==
    \/ instance'[Shared] = instance[Shared] /\ asked'[Shared] = asked[Shared] /\ default' = default
    \/ default = t \/ default = "empty"

LEMMA NotShared == \A t \in Threads : t # Shared /\ t # "empty" /\ t # "set" /\ t \in Instances /\ Shared \in Instances
  BY SharedAssumption DEF Instances

\* A thread's own part is out of the others' reach.
LEMMA OthersKeep ==
    ASSUME IInv, NEW t \in Threads, Others(t), SharedKept(t), NEW u \in Threads \ {t}
    PROVE  ThreadOK(u)'
<1>1. ThreadOK(u) /\ using[u] \in {u, Shared} /\ u # Shared /\ u # "empty" /\ u # "set" /\ t # "set"
  BY NotShared DEF IInv, Shape
<1>2. /\ pc'[u] = pc[u] /\ using'[u] = using[u] /\ next'[u] = next[u] /\ options'[u] = options[u]
      /\ instance'[u] = instance[u] /\ asked'[u] = asked[u]
  BY DEF Others
<1>3. CASE using[u] = u
  <2>1. instance'[using'[u]] = instance[using[u]] /\ asked'[using'[u]] = asked[using[u]]
    BY <1>2, <1>3
  <2>2. QED
    BY <1>1, <1>2, <1>3, <2>1 DEF ThreadOK, Mine, Rests, WholeAt
<1>4. CASE using[u] = Shared /\ (pc[u] \in Owning \/ pc[u] = "parse")
  <2>1. default # t /\ default # "empty"
    BY <1>1, <1>4 DEF ThreadOK
  <2>2. instance'[Shared] = instance[Shared] /\ asked'[Shared] = asked[Shared] /\ default' = default
    BY <2>1 DEF SharedKept
  <2>3. instance'[using'[u]] = instance[using[u]] /\ asked'[using'[u]] = asked[using[u]]
    BY <1>2, <1>4, <2>2
  <2>4. QED
    BY <1>1, <1>2, <1>4, <2>2, <2>3 DEF ThreadOK, Mine, Rests, WholeAt
<1>5. CASE using[u] = Shared /\ ~(pc[u] \in Owning \/ pc[u] = "parse")
  BY <1>1, <1>2, <1>5 DEF ThreadOK, Mine, Rests, WholeAt, Owning, Working
<1>6. QED
  BY <1>1, <1>3, <1>4, <1>5


LEMMA ParseKeeps ==
    ASSUME IInv, NEW t \in Threads, Parse(t)
    PROVE  Shape' /\ Others(t) /\ SharedKept(t)
<1> USE NotShared DEF Parse, Call, Go, At
<1>1. Shape'
  BY DEF IInv, Shape, Labels, Owning, Working, ThreadOK
<1>2. Others(t)
  BY DEF IInv, Shape, Others
<1>3. SharedKept(t)
  BY DEF IInv, Shape, ThreadOK, Owning, Working, SharedKept
<1>4. QED
  BY <1>1, <1>2, <1>3

LEMMA GetDefaultKeeps ==
    ASSUME IInv, NEW t \in Threads, GetDefault(t)
    PROVE  Shape' /\ Others(t) /\ SharedKept(t)
<1> USE NotShared DEF GetDefault, Go, At
<1>1. Shape'
  BY DEF IInv, Shape, Labels, Owning, Working, ThreadOK
<1>2. Others(t)
  BY DEF IInv, Shape, Others
<1>3. SharedKept(t)
  BY DEF IInv, Shape, ThreadOK, Owning, Working, SharedKept
<1>4. QED
  BY <1>1, <1>2, <1>3

LEMMA BuildDefaultKeeps ==
    ASSUME IInv, NEW t \in Threads, BuildDefault(t)
    PROVE  Shape' /\ Others(t) /\ SharedKept(t)
<1> USE NotShared DEF BuildDefault, Becomes, Install, Go, At
<1>1. Shape'
  BY DEF IInv, Shape, Labels, Owning, Working, ThreadOK
<1>2. Others(t)
  BY DEF IInv, Shape, Others
<1>3. SharedKept(t)
  BY DEF IInv, Shape, ThreadOK, Owning, Working, SharedKept
<1>4. QED
  BY <1>1, <1>2, <1>3

LEMMA ParseWithKeeps ==
    ASSUME IInv, NEW t \in Threads, (\E o \in Typed : ParseWith(t, o))
    PROVE  Shape' /\ Others(t) /\ SharedKept(t)
<1>1. PICK o \in Typed : ParseWith(t, o)
  OBVIOUS
<1> USE <1>1, NotShared DEF ParseWith, Call, Install, Go, At
<1>2. pc' \in [Threads -> Labels] /\ next' \in [Threads -> {"publish", "parse", "idle"}]
  BY DEF IInv, Shape, Labels, Owning
<1>3. using' = [u \in Threads |-> using'[u]] /\ \A u \in Threads : using'[u] \in {u, Shared}
  BY DEF IInv, Shape
<1>4. options' = [u \in Threads |-> options'[u]]
  BY DEF IInv, Shape
<1>5. instance' = [i \in Instances |-> instance'[i]]
  BY DEF IInv, Shape
<1>6. asked' = [i \in Instances |-> asked'[i]]
  BY DEF IInv, Shape
<1>7. Others(t)
  BY DEF IInv, Shape, Others
<1>8. instance'[Shared] = instance[Shared] /\ default' = default
  BY DEF IInv, Shape
<1>9. asked'[Shared] = asked[Shared]
  BY DEF IInv, Shape
<1>10. QED
  BY <1>2, <1>3, <1>4, <1>5, <1>6, <1>7, <1>8, <1>9 DEF Shape, SharedKept

LEMMA NewKeeps ==
    ASSUME IInv, NEW t \in Threads, (\E x \in {Bare, Based} : New(t, x))
    PROVE  Shape' /\ Others(t) /\ SharedKept(t)
<1> USE NotShared DEF New, Call, Go, At
<1>1. Shape'
  BY DEF IInv, Shape, Labels, Owning, Working, ThreadOK
<1>2. Others(t)
  BY DEF IInv, Shape, Others
<1>3. SharedKept(t)
  BY DEF IInv, Shape, ThreadOK, Owning, Working, SharedKept
<1>4. QED
  BY <1>1, <1>2, <1>3

LEMMA AddJsonicKeeps ==
    ASSUME IInv, NEW t \in Threads, AddJsonic(t)
    PROVE  Shape' /\ Others(t) /\ SharedKept(t)
<1> USE NotShared DEF AddJsonic, Call, Go, At
<1>1. Shape'
  BY DEF IInv, Shape, Labels, Owning, Working, ThreadOK
<1>2. Others(t)
  BY DEF IInv, Shape, Others
<1>3. SharedKept(t)
  BY DEF IInv, Shape, ThreadOK, Owning, Working, SharedKept
<1>4. QED
  BY <1>1, <1>2, <1>3

LEMMA UsePluginKeeps ==
    ASSUME IInv, NEW t \in Threads, (\E b \in Given : UsePlugin(t, b))
    PROVE  Shape' /\ Others(t) /\ SharedKept(t)
<1>1. PICK b \in Given : UsePlugin(t, b)
  OBVIOUS
<1> USE <1>1, NotShared DEF UsePlugin, Call, Install, Go, At
<1>2. pc' \in [Threads -> Labels] /\ next' \in [Threads -> {"publish", "parse", "idle"}]
  BY DEF IInv, Shape, Labels, Owning
<1>3. using' = [u \in Threads |-> using'[u]] /\ \A u \in Threads : using'[u] \in {u, Shared}
  BY DEF IInv, Shape
<1>4. options' = [u \in Threads |-> options'[u]]
  BY DEF IInv, Shape
<1>5. instance' = [i \in Instances |-> instance'[i]]
  BY DEF IInv, Shape
<1>6. asked' = [i \in Instances |-> asked'[i]]
  BY DEF IInv, Shape
<1>7. Others(t)
  BY DEF IInv, Shape, Others
<1>8. instance'[Shared] = instance[Shared] /\ default' = default
  BY DEF IInv, Shape
<1>9. asked'[Shared] = asked[Shared]
  BY DEF IInv, Shape
<1>10. QED
  BY <1>2, <1>3, <1>4, <1>5, <1>6, <1>7, <1>8, <1>9 DEF Shape, SharedKept

LEMMA ParseOwnKeeps ==
    ASSUME IInv, NEW t \in Threads, ParseOwn(t)
    PROVE  Shape' /\ Others(t) /\ SharedKept(t)
<1> USE NotShared DEF ParseOwn, Call, Go, At
<1>1. Shape'
  BY DEF IInv, Shape, Labels, Owning, Working, ThreadOK
<1>2. Others(t)
  BY DEF IInv, Shape, Others
<1>3. SharedKept(t)
  BY DEF IInv, Shape, ThreadOK, Owning, Working, SharedKept
<1>4. QED
  BY <1>1, <1>2, <1>3

LEMMA AgainKeeps ==
    ASSUME IInv, NEW t \in Threads, Again(t)
    PROVE  Shape' /\ Others(t) /\ SharedKept(t)
<1> USE NotShared DEF Again, Installed, Mine, Go, At
<1>1. Shape'
  BY DEF IInv, Shape, Labels, Owning, Working, ThreadOK
<1>2. Others(t)
  BY DEF IInv, Shape, Others
<1>3. SharedKept(t)
  BY DEF IInv, Shape, ThreadOK, Owning, Working, SharedKept
<1>4. QED
  BY <1>1, <1>2, <1>3

LEMMA RefuseKeeps ==
    ASSUME IInv, NEW t \in Threads, Refuse(t)
    PROVE  Shape' /\ Others(t) /\ SharedKept(t)
<1> USE NotShared DEF Refuse, Mine, Go, At
<1>1. Shape'
  BY DEF IInv, Shape, Labels, Owning, Working, ThreadOK
<1>2. Others(t)
  BY DEF IInv, Shape, Others
<1>3. SharedKept(t)
  BY DEF IInv, Shape, ThreadOK, Owning, Working, SharedKept
<1>4. QED
  BY <1>1, <1>2, <1>3

LEMMA RegisterKeeps ==
    ASSUME IInv, NEW t \in Threads, Register(t)
    PROVE  Shape' /\ Others(t) /\ SharedKept(t)
<1> USE NotShared DEF Register, Becomes, Mine, Go, At
<1>1. Shape'
  BY DEF IInv, Shape, Labels, Owning, Working, ThreadOK
<1>2. Others(t)
  BY DEF IInv, Shape, Others
<1>3. SharedKept(t)
  BY DEF IInv, Shape, ThreadOK, Owning, Working, SharedKept
<1>4. QED
  BY <1>1, <1>2, <1>3

LEMMA ParseRulesKeeps ==
    ASSUME IInv, NEW t \in Threads, ParseRules(t)
    PROVE  Shape' /\ Others(t) /\ SharedKept(t)
<1> USE NotShared DEF ParseRules, Go, At
<1>1. Shape'
  BY DEF IInv, Shape, Labels, Owning, Working, ThreadOK
<1>2. Others(t)
  BY DEF IInv, Shape, Others
<1>3. SharedKept(t)
  BY DEF IInv, Shape, ThreadOK, Owning, Working, SharedKept
<1>4. QED
  BY <1>1, <1>2, <1>3

LEMMA SetRulesKeeps ==
    ASSUME IInv, NEW t \in Threads, SetRules(t)
    PROVE  Shape' /\ Others(t) /\ SharedKept(t)
<1> USE NotShared DEF SetRules, Go, At
<1>1. Shape'
  BY DEF IInv, Shape, Labels, Owning, Working, ThreadOK
<1>2. Others(t)
  BY DEF IInv, Shape, Others
<1>3. SharedKept(t)
  BY DEF IInv, Shape, ThreadOK, Owning, Working, SharedKept
<1>4. QED
  BY <1>1, <1>2, <1>3

LEMMA GetRulesKeeps ==
    ASSUME IInv, NEW t \in Threads, GetRules(t)
    PROVE  Shape' /\ Others(t) /\ SharedKept(t)
<1> USE NotShared DEF GetRules, Go, At
<1>1. Shape'
  BY DEF IInv, Shape, Labels, Owning, Working, ThreadOK
<1>2. Others(t)
  BY DEF IInv, Shape, Others
<1>3. SharedKept(t)
  BY DEF IInv, Shape, ThreadOK, Owning, Working, SharedKept
<1>4. QED
  BY <1>1, <1>2, <1>3

LEMMA ApplyKeeps ==
    ASSUME IInv, NEW t \in Threads, Apply(t)
    PROVE  Shape' /\ Others(t) /\ SharedKept(t)
<1> USE NotShared DEF Apply, Becomes, Mine, Go, At
<1>1. Shape'
  BY DEF IInv, Shape, Labels, Owning, Working, ThreadOK
<1>2. Others(t)
  BY DEF IInv, Shape, Others
<1>3. SharedKept(t)
  BY DEF IInv, Shape, ThreadOK, Owning, Working, SharedKept
<1>4. QED
  BY <1>1, <1>2, <1>3

LEMMA MarkKeeps ==
    ASSUME IInv, NEW t \in Threads, Mark(t)
    PROVE  Shape' /\ Others(t) /\ SharedKept(t)
<1> USE NotShared DEF Mark, Becomes, Installed, Mine, Go, At
<1>1. Shape'
  BY DEF IInv, Shape, Labels, Owning, Working, ThreadOK
<1>2. Others(t)
  BY DEF IInv, Shape, Others
<1>3. SharedKept(t)
  BY DEF IInv, Shape, ThreadOK, Owning, Working, SharedKept
<1>4. QED
  BY <1>1, <1>2, <1>3

LEMMA PublishKeeps ==
    ASSUME IInv, NEW t \in Threads, Publish(t)
    PROVE  Shape' /\ Others(t) /\ SharedKept(t)
<1> USE NotShared DEF Publish, Go, At
<1>1. Shape'
  BY DEF IInv, Shape, Labels, Owning, Working, ThreadOK
<1>2. Others(t)
  BY DEF IInv, Shape, Others
<1>3. SharedKept(t)
  BY DEF IInv, Shape, ThreadOK, Owning, Working, SharedKept
<1>4. QED
  BY <1>1, <1>2, <1>3

\* "The conversion is LOSSLESS": typed options go through a bag unchanged.
THEOREM Lossless == \A o \in Typed : FromValue(Merged(ToValue(o))) = o
<1> SUFFICES ASSUME NEW o \in Typed PROVE FromValue(Merged(ToValue(o))) = o
  OBVIOUS
<1>1. PICK c \in BOOLEAN, e \in Names \cup {NoTag} : o = Options(c, e)
  BY DEF Typed, Options
<1>2. o.charAsNumber = c /\ o.enumTag = e
  BY <1>1 DEF Options
<1> DEFINE chars == Of("bool", IF c THEN "true" ELSE "false")
           tag   == IF e = NoTag THEN Of("null", "null") ELSE Of("string", e)
<1>3. ToValue(o) = [f \in Fields |-> IF f = "charAsNumber" THEN chars ELSE tag]
  BY <1>2 DEF ToValue
<1>4. chars \in Values /\ tag \in Values
  BY DEF Values
<1>5. Truthy(chars) <=> c
  BY DEF Truthy, Of
<1>6. TagOf(tag) = e
  <2>1. CASE e = NoTag
    BY <2>1 DEF TagOf, Truthy, Of
  <2>2. CASE e # NoTag
    BY <2>2, SpeltApart DEF TagOf, Truthy, Of
  <2>3. QED
    BY <2>1, <2>2
<1> HIDE DEF chars, tag
<1>7. ToValue(o) \in Bags /\ DOMAIN ToValue(o) = Fields
  BY <1>3, <1>4 DEF Bags
<1>8. Merged(ToValue(o)) = ToValue(o)
  <2>1. DOMAIN ToValue(Default) = Fields
    BY DEF ToValue
  <2>2. QED
    BY <1>3, <1>7, <2>1 DEF Merged, Over
<1>9. FromValue(ToValue(o)) = Options(c, e)
  BY <1>3, <1>5, <1>6 DEF FromValue, Fields
<1>10. QED
  BY <1>1, <1>8, <1>9

LEMMA DefaultUsed == Used(FromValue(Merged(ToValue(Default)))) = Default
<1>1. Default \in Typed
  BY DEF Default, Options, Typed
<1>2. Used(Default) = Default
  BY EmptyIsNone DEF Used, Tag, Default, Options
<1>3. QED
  BY <1>1, <1>2, Lossless

LEMMA ReadKeeps ==
    ASSUME IInv, NEW t \in Threads, Read(t)
    PROVE  Shape' /\ Others(t) /\ SharedKept(t)
<1> USE NotShared DEF Read, Go, At
<1>1. Shape'
  BY DEF IInv, Shape, Labels, Owning, Working, ThreadOK
<1>2. Others(t)
  BY DEF IInv, Shape, Others
<1>3. SharedKept(t)
  BY DEF IInv, Shape, ThreadOK, Owning, Working, SharedKept
<1>4. QED
  BY <1>1, <1>2, <1>3

-----------------------------------------------------------------------------
(* A step keeps the invariant.                                             *)

\* The shared instance is out of reach of all but the one who fills the cell.
LEMMA DefaultFrame ==
    ASSUME IInv, NEW t \in Threads, Others(t), default' = default,
           default # t => instance'[Shared] = instance[Shared] /\ asked'[Shared] = asked[Shared],
           default = t => pc'[t] \in Owning /\ using'[t] = Shared
    PROVE  DefaultOK'
<1>1. DefaultOK /\ t # "empty" /\ t # "set"
  BY NotShared DEF IInv
<1>2. CASE default = t
  BY <1>1, <1>2 DEF DefaultOK
<1>3. CASE default # t
  <2>1. default \in Threads => pc'[default] = pc[default] /\ using'[default] = using[default]
    BY <1>3 DEF Others
  <2>2. QED
    BY <1>1, <1>3, <2>1 DEF DefaultOK, WholeAt
<1>4. QED
  BY <1>2, <1>3

LEMMA AgainWorks ==
    ASSUME IInv, NEW t \in Threads, Again(t)
    PROVE  DefaultOK' /\ ThreadOK(t)'
<1>1. /\ pc'[t] = next[t] /\ using'[t] = using[t] /\ next'[t] = next[t] /\ options'[t] = options[t]
      /\ asked' = asked /\ default' = default
  BY DEF Again, Installed, Go, At, IInv, Shape
<1>2. instance' = instance /\ instance[using[t]].marked
  BY NotShared DEF Again, Installed, Go, At, IInv, Shape, Mine
<1>3. instance'[Shared] = instance[Shared] \/ using[t] = Shared
  BY NotShared DEF Again, Installed, Go, At, IInv, Shape, Mine
<1>4. instance'[t] = instance[t] \/ using[t] = t
  BY NotShared DEF Again, Installed, Go, At, IInv, Shape, Mine
<1>5. pc[t] \in {"check"} /\ ThreadOK(t) /\ t # Shared /\ t \notin {"empty", "set"} /\ using[t] \in {t, Shared} /\ next[t] \in {"publish", "parse", "idle"}
  BY NotShared DEF Again, Installed, Go, At, IInv, Shape
<1>6. Others(t)
  BY AgainKeeps
<1>7. default = t => pc'[t] \in Owning /\ using[t] = Shared
  BY <1>1, <1>5 DEF IInv, DefaultOK, ThreadOK, Owning, Working
<1>8. DefaultOK'
  BY <1>1, <1>2, <1>3, <1>5, <1>6, <1>7, DefaultFrame DEF ThreadOK, Owning, Working
<1>9. ThreadOK(t)'
  BY <1>1, <1>2, <1>4, <1>5, Marks DEF ThreadOK, Owning, Working, Mine, Rests, WholeAt
<1>10. QED
  BY <1>8, <1>9

LEMMA RegisterWorks ==
    ASSUME IInv, NEW t \in Threads, Register(t)
    PROVE  DefaultOK' /\ ThreadOK(t)'
<1>1. /\ pc'[t] = "get rules" /\ using'[t] = using[t] /\ next'[t] = next[t] /\ options'[t] = options[t]
      /\ asked' = asked /\ default' = default
  BY DEF Register, Becomes, Go, At, IInv, Shape
<1>2. instance'[using[t]] = Worked(options[t]) /\ ~instance[using[t]].marked
  <2>1. /\ ThreadOK(t) /\ pc[t] = "check" /\ instance'[using[t]] = Hooked(instance[using[t]], options[t])
        /\ ~instance[using[t]].marked /\ JsonRules \subseteq instance[using[t]].rules
    BY NotShared DEF Register, Becomes, Go, At, IInv, Shape, Mine
  <2>2. instance[using[t]] = Based
    BY <2>1, Marks DEF ThreadOK, Rests, WholeAt
  <2>3. QED
    BY <2>1, <2>2 DEF Worked
<1>3. instance'[Shared] = instance[Shared] \/ using[t] = Shared
  BY NotShared DEF Register, Becomes, Go, At, IInv, Shape, Mine
<1>4. instance'[t] = instance[t] \/ using[t] = t
  BY NotShared DEF Register, Becomes, Go, At, IInv, Shape, Mine
<1>5. pc[t] \in {"check"} /\ ThreadOK(t) /\ t # Shared /\ t \notin {"empty", "set"} /\ using[t] \in {t, Shared} /\ next[t] \in {"publish", "parse", "idle"}
  BY NotShared DEF Register, Becomes, Go, At, IInv, Shape
<1>6. Others(t)
  BY RegisterKeeps
<1>7. default = t => pc'[t] \in Owning /\ using[t] = Shared
  BY <1>1, <1>5 DEF IInv, DefaultOK, ThreadOK, Owning, Working
<1>8. DefaultOK'
  BY <1>1, <1>2, <1>3, <1>5, <1>6, <1>7, DefaultFrame DEF ThreadOK, Owning, Working
<1>9. ThreadOK(t)'
  BY <1>1, <1>2, <1>4, <1>5, Marks DEF ThreadOK, Owning, Working, Mine, Rests, WholeAt
<1>10. QED
  BY <1>8, <1>9

LEMMA ParseRulesWorks ==
    ASSUME IInv, NEW t \in Threads, ParseRules(t)
    PROVE  DefaultOK' /\ ThreadOK(t)'
<1>1. /\ pc'[t] = "parse rules" /\ using'[t] = using[t] /\ next'[t] = next[t] /\ options'[t] = options[t]
      /\ asked' = asked /\ default' = default
  BY DEF ParseRules, Go, At, IInv, Shape
<1>2. instance' = instance
  BY NotShared DEF ParseRules, Go, At, IInv, Shape, Mine
<1>3. instance'[Shared] = instance[Shared] \/ using[t] = Shared
  BY NotShared DEF ParseRules, Go, At, IInv, Shape, Mine
<1>4. instance'[t] = instance[t] \/ using[t] = t
  BY NotShared DEF ParseRules, Go, At, IInv, Shape, Mine
<1>5. pc[t] \in {"get rules"} /\ ThreadOK(t) /\ t # Shared /\ t \notin {"empty", "set"} /\ using[t] \in {t, Shared} /\ next[t] \in {"publish", "parse", "idle"}
  BY NotShared DEF ParseRules, Go, At, IInv, Shape
<1>6. Others(t)
  BY ParseRulesKeeps
<1>7. default = t => pc'[t] \in Owning /\ using[t] = Shared
  BY <1>1, <1>5 DEF IInv, DefaultOK, ThreadOK, Owning, Working
<1>8. DefaultOK'
  BY <1>1, <1>2, <1>3, <1>5, <1>6, <1>7, DefaultFrame DEF ThreadOK, Owning, Working
<1>9. ThreadOK(t)'
  BY <1>1, <1>2, <1>4, <1>5, Marks DEF ThreadOK, Owning, Working, Mine, Rests, WholeAt
<1>10. QED
  BY <1>8, <1>9

LEMMA SetRulesWorks ==
    ASSUME IInv, NEW t \in Threads, SetRules(t)
    PROVE  DefaultOK' /\ ThreadOK(t)'
<1>1. /\ pc'[t] = "apply" /\ using'[t] = using[t] /\ next'[t] = next[t] /\ options'[t] = options[t]
      /\ asked' = asked /\ default' = default
  BY DEF SetRules, Go, At, IInv, Shape
<1>2. instance' = instance
  BY NotShared DEF SetRules, Go, At, IInv, Shape, Mine
<1>3. instance'[Shared] = instance[Shared] \/ using[t] = Shared
  BY NotShared DEF SetRules, Go, At, IInv, Shape, Mine
<1>4. instance'[t] = instance[t] \/ using[t] = t
  BY NotShared DEF SetRules, Go, At, IInv, Shape, Mine
<1>5. pc[t] \in {"parse rules"} /\ ThreadOK(t) /\ t # Shared /\ t \notin {"empty", "set"} /\ using[t] \in {t, Shared} /\ next[t] \in {"publish", "parse", "idle"}
  BY NotShared DEF SetRules, Go, At, IInv, Shape
<1>6. Others(t)
  BY SetRulesKeeps
<1>7. default = t => pc'[t] \in Owning /\ using[t] = Shared
  BY <1>1, <1>5 DEF IInv, DefaultOK, ThreadOK, Owning, Working
<1>8. DefaultOK'
  BY <1>1, <1>2, <1>3, <1>5, <1>6, <1>7, DefaultFrame DEF ThreadOK, Owning, Working
<1>9. ThreadOK(t)'
  BY <1>1, <1>2, <1>4, <1>5, Marks DEF ThreadOK, Owning, Working, Mine, Rests, WholeAt
<1>10. QED
  BY <1>8, <1>9

LEMMA GetRulesWorks ==
    ASSUME IInv, NEW t \in Threads, GetRules(t)
    PROVE  DefaultOK' /\ ThreadOK(t)'
<1>1. /\ pc'[t] = "apply" /\ using'[t] = using[t] /\ next'[t] = next[t] /\ options'[t] = options[t]
      /\ asked' = asked /\ default' = default
  BY DEF GetRules, Go, At, IInv, Shape
<1>2. instance' = instance
  BY NotShared DEF GetRules, Go, At, IInv, Shape, Mine
<1>3. instance'[Shared] = instance[Shared] \/ using[t] = Shared
  BY NotShared DEF GetRules, Go, At, IInv, Shape, Mine
<1>4. instance'[t] = instance[t] \/ using[t] = t
  BY NotShared DEF GetRules, Go, At, IInv, Shape, Mine
<1>5. pc[t] \in {"get rules"} /\ ThreadOK(t) /\ t # Shared /\ t \notin {"empty", "set"} /\ using[t] \in {t, Shared} /\ next[t] \in {"publish", "parse", "idle"}
  BY NotShared DEF GetRules, Go, At, IInv, Shape
<1>6. Others(t)
  BY GetRulesKeeps
<1>7. default = t => pc'[t] \in Owning /\ using[t] = Shared
  BY <1>1, <1>5 DEF IInv, DefaultOK, ThreadOK, Owning, Working
<1>8. DefaultOK'
  BY <1>1, <1>2, <1>3, <1>5, <1>6, <1>7, DefaultFrame DEF ThreadOK, Owning, Working
<1>9. ThreadOK(t)'
  BY <1>1, <1>2, <1>4, <1>5, Marks DEF ThreadOK, Owning, Working, Mine, Rests, WholeAt
<1>10. QED
  BY <1>8, <1>9

LEMMA ApplyWorks ==
    ASSUME IInv, NEW t \in Threads, Apply(t)
    PROVE  DefaultOK' /\ ThreadOK(t)'
<1>1. /\ pc'[t] = "mark" /\ using'[t] = using[t] /\ next'[t] = next[t] /\ options'[t] = options[t]
      /\ asked' = asked /\ default' = default
  BY DEF Apply, Becomes, Go, At, IInv, Shape
<1>2. instance'[using[t]] = Done(options[t])
  <2>1. ThreadOK(t) /\ pc[t] = "apply" /\ instance'[using[t]] = Applied(instance[using[t]])
    BY NotShared DEF Apply, Becomes, Go, At, IInv, Shape, Mine
  <2>2. instance[using[t]] = Worked(options[t])
    BY <2>1 DEF ThreadOK, Mine
  <2>3. QED
    BY <2>1, <2>2 DEF Done
<1>3. instance'[Shared] = instance[Shared] \/ using[t] = Shared
  BY NotShared DEF Apply, Becomes, Go, At, IInv, Shape, Mine
<1>4. instance'[t] = instance[t] \/ using[t] = t
  BY NotShared DEF Apply, Becomes, Go, At, IInv, Shape, Mine
<1>5. pc[t] \in {"apply"} /\ ThreadOK(t) /\ t # Shared /\ t \notin {"empty", "set"} /\ using[t] \in {t, Shared} /\ next[t] \in {"publish", "parse", "idle"}
  BY NotShared DEF Apply, Becomes, Go, At, IInv, Shape
<1>6. Others(t)
  BY ApplyKeeps
<1>7. default = t => pc'[t] \in Owning /\ using[t] = Shared
  BY <1>1, <1>5 DEF IInv, DefaultOK, ThreadOK, Owning, Working
<1>8. DefaultOK'
  BY <1>1, <1>2, <1>3, <1>5, <1>6, <1>7, DefaultFrame DEF ThreadOK, Owning, Working
<1>9. ThreadOK(t)'
  BY <1>1, <1>2, <1>4, <1>5, Marks DEF ThreadOK, Owning, Working, Mine, Rests, WholeAt
<1>10. QED
  BY <1>8, <1>9

LEMMA MarkWorks ==
    ASSUME IInv, NEW t \in Threads, Mark(t)
    PROVE  DefaultOK' /\ ThreadOK(t)'
<1>1. /\ pc'[t] = next[t] /\ using'[t] = using[t] /\ next'[t] = next[t] /\ options'[t] = options[t]
      /\ asked' = asked /\ default' = default
  BY DEF Mark, Becomes, Installed, Go, At, IInv, Shape
<1>2. instance'[using[t]] = Whole(asked[using[t]])
  <2>1. /\ ThreadOK(t) /\ pc[t] = "mark"
        /\ instance'[using[t]] = [instance[using[t]] EXCEPT !.marked = TRUE]
    BY NotShared DEF Mark, Becomes, Installed, Go, At, IInv, Shape, Mine
  <2>2. instance[using[t]] = Done(options[t]) /\ asked[using[t]] = Used(options[t])
    BY <2>1 DEF ThreadOK, Mine, Owning, Working
  <2>3. QED
    BY <2>1, <2>2, WholeUsed DEF Whole
<1>3. instance'[Shared] = instance[Shared] \/ using[t] = Shared
  BY NotShared DEF Mark, Becomes, Installed, Go, At, IInv, Shape, Mine
<1>4. instance'[t] = instance[t] \/ using[t] = t
  BY NotShared DEF Mark, Becomes, Installed, Go, At, IInv, Shape, Mine
<1>5. pc[t] \in {"mark"} /\ ThreadOK(t) /\ t # Shared /\ t \notin {"empty", "set"} /\ using[t] \in {t, Shared} /\ next[t] \in {"publish", "parse", "idle"}
  BY NotShared DEF Mark, Becomes, Installed, Go, At, IInv, Shape
<1>6. Others(t)
  BY MarkKeeps
<1>7. default = t => pc'[t] \in Owning /\ using[t] = Shared
  BY <1>1, <1>5 DEF IInv, DefaultOK, ThreadOK, Owning, Working
<1>8. DefaultOK'
  BY <1>1, <1>2, <1>3, <1>5, <1>6, <1>7, DefaultFrame DEF ThreadOK, Owning, Working
<1>9. ThreadOK(t)'
  BY <1>1, <1>2, <1>4, <1>5, Marks DEF ThreadOK, Owning, Working, Mine, Rests, WholeAt
<1>10. QED
  BY <1>8, <1>9

LEMMA ReadWorks ==
    ASSUME IInv, NEW t \in Threads, Read(t)
    PROVE  DefaultOK' /\ ThreadOK(t)'
<1>1. /\ pc'[t] = "idle" /\ using'[t] = using[t] /\ next'[t] = next[t] /\ options'[t] = options[t]
      /\ asked' = asked /\ default' = default
  BY DEF Read, Go, At, IInv, Shape
<1>2. instance' = instance
  BY NotShared DEF Read, Go, At, IInv, Shape, Mine
<1>3. instance'[Shared] = instance[Shared] \/ using[t] = Shared
  BY NotShared DEF Read, Go, At, IInv, Shape, Mine
<1>4. instance'[t] = instance[t] \/ using[t] = t
  BY NotShared DEF Read, Go, At, IInv, Shape, Mine
<1>5. pc[t] \in {"parse"} /\ ThreadOK(t) /\ t # Shared /\ t \notin {"empty", "set"} /\ using[t] \in {t, Shared} /\ next[t] \in {"publish", "parse", "idle"}
  BY NotShared DEF Read, Go, At, IInv, Shape
<1>6. Others(t)
  BY ReadKeeps
<1>7. default = t => pc'[t] \in Owning /\ using[t] = Shared
  BY <1>1, <1>5 DEF IInv, DefaultOK, ThreadOK, Owning, Working
<1>8. DefaultOK'
  BY <1>1, <1>2, <1>3, <1>5, <1>6, <1>7, DefaultFrame DEF ThreadOK, Owning, Working
<1>9. ThreadOK(t)'
  BY <1>1, <1>2, <1>4, <1>5, Marks DEF ThreadOK, Owning, Working, Mine, Rests, WholeAt
<1>10. QED
  BY <1>8, <1>9

LEMMA ParseWorks ==
    ASSUME IInv, NEW t \in Threads, Parse(t)
    PROVE  DefaultOK' /\ ThreadOK(t)'
<1>1. pc[t] = "idle" /\ pc'[t] = "get default" /\ using'[t] = Shared /\ default' = default
  BY DEF Parse, Call, Go, At, IInv, Shape
<1>2. instance' = instance /\ asked' = asked /\ next' = next /\ options' = options
  BY DEF Parse
<1>3. ThreadOK(t) /\ t # Shared /\ t \notin {"empty", "set"} /\ using[t] \in {t, Shared} /\ DefaultOK
  BY NotShared DEF IInv, Shape
<1>4. Others(t)
  BY ParseKeeps
<1>5. DefaultOK'
  BY <1>1, <1>2, <1>3, <1>4, Marks, DefaultFrame DEF DefaultOK, ThreadOK, Owning, Working, WholeAt, Mine
<1>6. ThreadOK(t)'
  BY <1>1, <1>2, <1>3, Marks DEF DefaultOK, ThreadOK, Owning, Working, Mine, Rests, WholeAt
<1>7. QED
  BY <1>5, <1>6

LEMMA GetDefaultWorks ==
    ASSUME IInv, NEW t \in Threads, GetDefault(t)
    PROVE  DefaultOK' /\ ThreadOK(t)'
<1>1. pc[t] = "get default" /\ pc'[t] = "parse" /\ using' = using /\ default = "set" /\ default' = default
  BY DEF GetDefault, Go, At, IInv, Shape
<1>2. instance' = instance /\ asked' = asked /\ next' = next /\ options' = options
  BY DEF GetDefault
<1>3. using[t] = Shared
  BY <1>1 DEF IInv, ThreadOK
<1>4. ThreadOK(t) /\ t # Shared /\ t \notin {"empty", "set"} /\ using[t] \in {t, Shared} /\ DefaultOK
  BY NotShared DEF IInv, Shape
<1>5. Others(t)
  BY GetDefaultKeeps
<1>6. DefaultOK'
  BY <1>1, <1>2, <1>3, <1>4, <1>5, Marks, DefaultFrame DEF DefaultOK, ThreadOK, Owning, Working, WholeAt, Mine
<1>7. ThreadOK(t)'
  BY <1>1, <1>2, <1>3, <1>4, Marks DEF DefaultOK, ThreadOK, Owning, Working, Mine, Rests, WholeAt
<1>8. QED
  BY <1>6, <1>7

LEMMA RefuseWorks ==
    ASSUME IInv, NEW t \in Threads, Refuse(t)
    PROVE  DefaultOK' /\ ThreadOK(t)'
<1>1. pc[t] = "check" /\ pc'[t] = "idle" /\ using' = using /\ default' = default /\ ~(JsonRules \subseteq instance[using[t]].rules)
  BY DEF Refuse, Go, At, IInv, Shape, Mine
<1>2. instance' = instance /\ asked' = asked /\ next' = next /\ options' = options
  BY DEF Refuse
<1>3. ThreadOK(t) /\ t # Shared /\ t \notin {"empty", "set"} /\ using[t] \in {t, Shared} /\ DefaultOK
  BY NotShared DEF IInv, Shape
<1>4. Others(t)
  BY RefuseKeeps
<1>5. DefaultOK'
  BY <1>1, <1>2, <1>3, <1>4, Marks, DefaultFrame DEF DefaultOK, ThreadOK, Owning, Working, WholeAt, Mine
<1>6. ThreadOK(t)'
  BY <1>1, <1>2, <1>3, Marks DEF DefaultOK, ThreadOK, Owning, Working, Mine, Rests, WholeAt
<1>7. QED
  BY <1>5, <1>6

LEMMA PublishWorks ==
    ASSUME IInv, NEW t \in Threads, Publish(t)
    PROVE  DefaultOK' /\ ThreadOK(t)'
<1>1. pc[t] = "publish" /\ pc'[t] = "parse" /\ using' = using /\ default' = "set"
  BY DEF Publish, Go, At, IInv, Shape
<1>2. instance' = instance /\ asked' = asked /\ next' = next /\ options' = options
  BY DEF Publish
<1>3. WholeAt(Shared)'
  BY <1>1, <1>2 DEF IInv, ThreadOK, WholeAt
<1>4. ThreadOK(t) /\ t # Shared /\ t \notin {"empty", "set"} /\ using[t] \in {t, Shared} /\ DefaultOK
  BY NotShared DEF IInv, Shape
<1>5. Others(t)
  BY PublishKeeps
<1>6. DefaultOK'
  BY <1>1, <1>3, SharedAssumption DEF DefaultOK
<1>7. ThreadOK(t)'
  BY <1>1, <1>2, <1>3, <1>4, Marks DEF DefaultOK, ThreadOK, Owning, Working, Mine, Rests, WholeAt
<1>8. QED
  BY <1>6, <1>7

LEMMA ParseOwnWorks ==
    ASSUME IInv, NEW t \in Threads, ParseOwn(t)
    PROVE  DefaultOK' /\ ThreadOK(t)'
<1>1. pc[t] = "idle" /\ pc'[t] = "parse" /\ using'[t] = t /\ default' = default /\ instance[t].marked
  BY DEF ParseOwn, Call, Go, At, IInv, Shape
<1>2. instance' = instance /\ asked' = asked /\ next' = next /\ options' = options
  BY DEF ParseOwn
<1>3. ThreadOK(t) /\ t # Shared /\ t \notin {"empty", "set"} /\ using[t] \in {t, Shared} /\ DefaultOK
  BY NotShared DEF IInv, Shape
<1>4. Others(t)
  BY ParseOwnKeeps
<1>5. DefaultOK'
  BY <1>1, <1>2, <1>3, <1>4, Marks, DefaultFrame DEF DefaultOK, ThreadOK, Owning, Working, WholeAt, Mine
<1>6. ThreadOK(t)'
  BY <1>1, <1>2, <1>3, Marks DEF DefaultOK, ThreadOK, Owning, Working, Mine, Rests, WholeAt
<1>7. QED
  BY <1>5, <1>6

LEMMA NewWorks ==
    ASSUME IInv, NEW t \in Threads, (\E x \in {Bare, Based} : New(t, x))
    PROVE  DefaultOK' /\ ThreadOK(t)'
<1>1. PICK x \in {Bare, Based} : New(t, x)
  OBVIOUS
<1>2. pc[t] = "idle" /\ pc' = pc /\ using' = using /\ default' = default /\ asked' = asked /\ next' = next /\ options' = options
  BY <1>1 DEF New, Call, At
<1>3. instance'[t] \in {Bare, Based} /\ instance'[Shared] = instance[Shared]
  BY <1>1, NotShared DEF New, IInv, Shape
<1>4. ThreadOK(t) /\ t # Shared /\ t \notin {"empty", "set"} /\ using[t] \in {t, Shared} /\ DefaultOK
  BY NotShared DEF IInv, Shape
<1>5. Others(t)
  BY NewKeeps
<1>6. DefaultOK'
  BY <1>2, <1>3, <1>4, <1>5, Marks, DefaultFrame DEF DefaultOK, ThreadOK, Owning, Working, WholeAt, Mine
<1>7. ThreadOK(t)'
  BY <1>2, <1>3, <1>4, Marks DEF DefaultOK, ThreadOK, Owning, Working, Mine, Rests, WholeAt
<1>8. QED
  BY <1>6, <1>7

LEMMA AddJsonicWorks ==
    ASSUME IInv, NEW t \in Threads, AddJsonic(t)
    PROVE  DefaultOK' /\ ThreadOK(t)'
<1>1. pc[t] = "idle" /\ pc' = pc /\ using' = using /\ default' = default /\ asked' = asked /\ next' = next /\ options' = options
  BY DEF AddJsonic, Call, At
<1>2. instance'[t] = Based /\ instance'[Shared] = instance[Shared]
  BY NotShared, Marks DEF AddJsonic, IInv, Shape
<1>3. ThreadOK(t) /\ t # Shared /\ t \notin {"empty", "set"} /\ using[t] \in {t, Shared} /\ DefaultOK
  BY NotShared DEF IInv, Shape
<1>4. Others(t)
  BY AddJsonicKeeps
<1>5. DefaultOK'
  BY <1>1, <1>2, <1>3, <1>4, Marks, DefaultFrame DEF DefaultOK, ThreadOK, Owning, Working, WholeAt, Mine
<1>6. ThreadOK(t)'
  BY <1>1, <1>2, <1>3, Marks DEF DefaultOK, ThreadOK, Owning, Working, Mine, Rests, WholeAt
<1>7. QED
  BY <1>5, <1>6

LEMMA BuildDefaultWorks ==
    ASSUME IInv, NEW t \in Threads, BuildDefault(t)
    PROVE  DefaultOK' /\ ThreadOK(t)'
<1>1. pc[t] = "get default" /\ pc'[t] = "check" /\ using'[t] = Shared /\ next'[t] = "publish" /\ default = "empty" /\ default' = t
  BY DEF BuildDefault, Install, Go, At, IInv, Shape
<1>2. options'[t] = FromValue(Merged(ToValue(Default)))
  BY DEF BuildDefault, Install, IInv, Shape
<1>3. asked'[Shared] = Default /\ asked'[t] = asked[t]
  BY NotShared DEF BuildDefault, IInv, Shape
<1>4. asked'[Shared] = Used(options'[t])
  BY <1>2, <1>3, DefaultUsed
<1>5. using[t] = Shared
  BY <1>1 DEF IInv, ThreadOK
<1>6. instance'[Shared] = Based /\ instance'[t] = instance[t]
  BY <1>5, NotShared DEF BuildDefault, Becomes, IInv, Shape
<1>7. ThreadOK(t) /\ t # Shared /\ t \notin {"empty", "set"} /\ using[t] \in {t, Shared} /\ DefaultOK
  BY NotShared DEF IInv, Shape
<1>8. Others(t)
  BY BuildDefaultKeeps
<1>9. DefaultOK'
  BY <1>1, <1>2, <1>3, <1>4, <1>5, <1>6, <1>7, <1>8, Marks, DefaultFrame DEF DefaultOK, ThreadOK, Owning, Working, WholeAt, Mine
<1>10. ThreadOK(t)'
  BY <1>1, <1>2, <1>3, <1>4, <1>5, <1>6, <1>7, Marks DEF DefaultOK, ThreadOK, Owning, Working, Mine, Rests, WholeAt
<1>11. QED
  BY <1>9, <1>10

LEMMA ParseWithWorks ==
    ASSUME IInv, NEW t \in Threads, (\E o \in Typed : ParseWith(t, o))
    PROVE  DefaultOK' /\ ThreadOK(t)'
<1>1. PICK o \in Typed : ParseWith(t, o)
  OBVIOUS
<1>2. pc[t] = "idle" /\ pc'[t] = "check" /\ using'[t] = t /\ next'[t] = "parse" /\ default' = default
  BY <1>1 DEF ParseWith, Call, Install, Go, At, IInv, Shape
<1>3. options'[t] = o
  BY <1>1, Lossless DEF ParseWith, Install, IInv, Shape
<1>4. asked'[t] = Used(o) /\ asked'[Shared] = asked[Shared]
  BY <1>1, NotShared DEF ParseWith, Used, IInv, Shape
<1>5. instance'[t] = Based /\ instance'[Shared] = instance[Shared]
  BY <1>1, NotShared DEF ParseWith, IInv, Shape
<1>6. ThreadOK(t) /\ t # Shared /\ t \notin {"empty", "set"} /\ using[t] \in {t, Shared} /\ DefaultOK
  BY NotShared DEF IInv, Shape
<1>7. Others(t)
  BY ParseWithKeeps
<1>8. DefaultOK'
  BY <1>2, <1>3, <1>4, <1>5, <1>6, <1>7, Marks, DefaultFrame DEF DefaultOK, ThreadOK, Owning, Working, WholeAt, Mine
<1>9. ThreadOK(t)'
  BY <1>2, <1>3, <1>4, <1>5, <1>6, Marks DEF DefaultOK, ThreadOK, Owning, Working, Mine, Rests, WholeAt
<1>10. QED
  BY <1>8, <1>9

LEMMA UsePluginWorks ==
    ASSUME IInv, NEW t \in Threads, (\E b \in Given : UsePlugin(t, b))
    PROVE  DefaultOK' /\ ThreadOK(t)'
<1>1. PICK b \in Given : UsePlugin(t, b)
  OBVIOUS
<1>2. pc[t] = "idle" /\ pc'[t] = "check" /\ using'[t] = t /\ next'[t] = "idle" /\ default' = default /\ instance' = instance
  BY <1>1 DEF UsePlugin, Call, Install, Go, At, IInv, Shape
<1>3. options'[t] = FromValue(Merged(b))
  BY <1>1 DEF UsePlugin, Install, IInv, Shape
<1>4. Asked(b) = Used(options'[t])
  BY <1>3, ReadsAsTypeScript, InstallAssumption
<1>5. asked'[Shared] = asked[Shared]
  BY <1>1, NotShared DEF UsePlugin, IInv, Shape
<1>6. asked'[t] = IF instance[t].marked THEN asked[t] ELSE Asked(b)
  BY <1>1, NotShared DEF UsePlugin, IInv, Shape
<1>7. ThreadOK(t) /\ t # Shared /\ t \notin {"empty", "set"} /\ using[t] \in {t, Shared} /\ DefaultOK
  BY NotShared DEF IInv, Shape
<1>8. Others(t)
  BY UsePluginKeeps
<1>9. DefaultOK'
  BY <1>2, <1>3, <1>4, <1>5, <1>6, <1>7, <1>8, Marks, DefaultFrame DEF DefaultOK, ThreadOK, Owning, Working, WholeAt, Mine
<1>10. ThreadOK(t)'
  BY <1>2, <1>3, <1>4, <1>5, <1>6, <1>7, Marks DEF DefaultOK, ThreadOK, Owning, Working, Mine, Rests, WholeAt
<1>11. QED
  BY <1>9, <1>10

LEMMA StepKeeps ==
    ASSUME IInv, Next
    PROVE  IInv'
<1>1. PICK t \in Threads : Begin(t) \/ Step(t)
  BY DEF Next
<1>2. Shape' /\ Others(t) /\ SharedKept(t) /\ DefaultOK' /\ ThreadOK(t)'
  <2>1. CASE Parse(t)
    BY <2>1, ParseKeeps, ParseWorks
  <2>2. CASE AddJsonic(t)
    BY <2>2, AddJsonicKeeps, AddJsonicWorks
  <2>3. CASE ParseOwn(t)
    BY <2>3, ParseOwnKeeps, ParseOwnWorks
  <2>4. CASE \E o \in Typed : ParseWith(t, o)
    BY <2>4, ParseWithKeeps, ParseWithWorks
  <2>5. CASE \E x \in {Bare, Based} : New(t, x)
    BY <2>5, NewKeeps, NewWorks
  <2>6. CASE \E b \in Given : UsePlugin(t, b)
    BY <2>6, UsePluginKeeps, UsePluginWorks
  <2>7. CASE GetDefault(t)
    BY <2>7, GetDefaultKeeps, GetDefaultWorks
  <2>8. CASE BuildDefault(t)
    BY <2>8, BuildDefaultKeeps, BuildDefaultWorks
  <2>9. CASE Publish(t)
    BY <2>9, PublishKeeps, PublishWorks
  <2>10. CASE Read(t)
    BY <2>10, ReadKeeps, ReadWorks
  <2>11. CASE Again(t)
    BY <2>11, AgainKeeps, AgainWorks
  <2>12. CASE Refuse(t)
    BY <2>12, RefuseKeeps, RefuseWorks
  <2>13. CASE Register(t)
    BY <2>13, RegisterKeeps, RegisterWorks
  <2>14. CASE ParseRules(t)
    BY <2>14, ParseRulesKeeps, ParseRulesWorks
  <2>15. CASE SetRules(t)
    BY <2>15, SetRulesKeeps, SetRulesWorks
  <2>16. CASE GetRules(t)
    BY <2>16, GetRulesKeeps, GetRulesWorks
  <2>17. CASE Apply(t)
    BY <2>17, ApplyKeeps, ApplyWorks
  <2>18. CASE Mark(t)
    BY <2>18, MarkKeeps, MarkWorks
  <2>19. QED
    BY <1>1, <2>1, <2>2, <2>3, <2>4, <2>5, <2>6, <2>7, <2>8, <2>9, <2>10, <2>11, <2>12, <2>13, <2>14,
       <2>15, <2>16, <2>17, <2>18 DEF Begin, Step
<1>3. \A u \in Threads \ {t} : ThreadOK(u)'
  BY <1>2, OthersKeep
<1>4. QED
  BY <1>2, <1>3 DEF IInv

LEMMA Stutters ==
    ASSUME IInv, UNCHANGED vars
    PROVE  IInv'
  BY DEF vars, IInv, Shape, DefaultOK, ThreadOK, WholeAt, Rests, Mine

LEMMA InitHolds == Init => IInv
<1> SUFFICES ASSUME Init PROVE IInv
  OBVIOUS
<1>1. Shape
  BY DEF Init, Shape, Labels, Owning
<1>2. DefaultOK
  BY SharedAssumption DEF Init, DefaultOK, Instances
<1>3. ASSUME NEW t \in Threads PROVE ThreadOK(t)
  <2>1. pc[t] = "idle" /\ using[t] = t /\ instance[t] = Bare
    BY NotShared DEF Init
  <2>2. QED
    BY <2>1 DEF ThreadOK, Rests, Owning, Working
<1>4. QED
  BY <1>1, <1>2, <1>3 DEF IInv

LEMMA IInvHolds == Spec => []IInv
<1>1. IInv /\ [Next]_vars => IInv'
  BY StepKeeps, Stutters
<1>2. QED
  BY <1>1, InitHolds, PTL DEF Spec

-----------------------------------------------------------------------------
(* What is promised.                                                       *)

\* An instance is marked only once it speaks ZON; and one that is not marked
\* is as it was, but while a thread installs on it.
LEMMA PromiseFollows == IInv => WholeOrUntouched
<1> SUFFICES ASSUME IInv, NEW i \in Instances
             PROVE  \/ instance[i].marked /\ SpeaksZon(instance[i])
                    \/ ~instance[i].marked /\ (Busy(i) \/ instance[i] \in {Bare, Based})
  BY DEF WholeOrUntouched
<1>1. CASE Rests(i)
  BY <1>1, WholeSpeaksZon, Marks DEF Rests, WholeAt
<1>2. ASSUME NEW t \in Threads, using[t] = i, pc[t] \in Owning
      PROVE  Rests(i) \/ (~instance[i].marked /\ Busy(i))
  <2>1. ThreadOK(t)
    BY DEF IInv
  <2>2. CASE pc[t] \in {"check", "publish"}
    BY <1>2, <2>1, <2>2 DEF ThreadOK, Rests
  <2>3. CASE pc[t] \in Working
    BY <1>2, <2>1, <2>3, Marks DEF ThreadOK, Mine, Working, Busy
  <2>4. CASE pc[t] = "mark"
    BY <1>2, <2>1, <2>4, Marks DEF ThreadOK, Mine, Busy
  <2>5. QED
    BY <1>2, <2>2, <2>3, <2>4 DEF Owning
<1>3. CASE i = Shared
  <2>1. DefaultOK
    BY DEF IInv
  <2>2. CASE default \in Threads
    BY <1>1, <1>2, <1>3, <2>1, <2>2 DEF DefaultOK
  <2>3. CASE default \notin Threads
    BY <1>1, <1>3, <2>1, <2>3 DEF DefaultOK, Rests
  <2>4. QED
    BY <2>2, <2>3
<1>4. CASE i \in Threads
  <2>1. ThreadOK(i)
    BY <1>4 DEF IInv
  <2>2. CASE pc[i] \in Owning /\ using[i] = i
    BY <1>1, <1>2, <1>4, <2>2
  <2>3. CASE ~(pc[i] \in Owning /\ using[i] = i)
    BY <1>1, <2>1, <2>3 DEF ThreadOK
  <2>4. QED
    BY <2>2, <2>3
<1>5. QED
  BY <1>3, <1>4 DEF Instances

\* Every instance is as it was, in the hands of one thread, or speaks ZON:
\* "a failed install ... must not turn the next call into a silent no-op".
THEOREM NeverHalfInstalled == Spec => []WholeOrUntouched
<1>1. QED
  BY IInvHolds, PromiseFollows, PTL

\* The options an instance is asked for are options as they are used.
AskedUsed == \A i \in Instances : Used(asked[i]) = asked[i]

LEMMA UsedIsUsed == \A o : Used(Used(o)) = Used(o)
  BY UsedTwice DEF Used

LEMMA AskedUsedHolds == Spec => []AskedUsed
<1>1. Used(Default) = Default
  BY EmptyIsNone DEF Used, Tag, Default, Options
<1>2. Init => AskedUsed
  BY <1>1 DEF Init, AskedUsed
<1>3. IInv /\ AskedUsed /\ [Next]_vars => AskedUsed'
  <2> SUFFICES ASSUME IInv, AskedUsed, [Next]_vars, asked' # asked PROVE AskedUsed'
    BY DEF AskedUsed
  <2>1. PICK t \in Threads : Begin(t) \/ Step(t)
    BY DEF Next, vars
  <2>2. PICK i, o : i \in Instances /\ asked' = [asked EXCEPT ![i] = o] /\ Used(o) = o
    <3>1. CASE BuildDefault(t)
      BY <1>1, <3>1, NotShared DEF BuildDefault
    <3>2. CASE \E o \in Typed : ParseWith(t, o)
      <4>1. PICK o \in Typed : ParseWith(t, o)
        BY <3>2
      <4>2. asked' = [asked EXCEPT ![t] = Used(o)]
        BY <4>1 DEF ParseWith, Used
      <4>3. QED
        BY <4>2, UsedIsUsed, NotShared
    <3>3. CASE \E b \in Given : UsePlugin(t, b)
      <4>1. PICK b \in Given : UsePlugin(t, b)
        BY <3>3
      <4>2. asked' = [asked EXCEPT ![t] = Asked(b)]
        BY <4>1 DEF UsePlugin
      <4>3. Asked(b) = Used(FromValue(Merged(b)))
        BY <4>1, ReadsAsTypeScript, InstallAssumption
      <4>4. QED
        BY <4>2, <4>3, UsedIsUsed, NotShared
    <3>4. QED
      BY <2>1, <3>1, <3>2, <3>3
      DEF Begin, Step, Parse, AddJsonic, ParseOwn, New, GetDefault, Publish, Read, Again, Refuse, Register,
          ParseRules, SetRules, GetRules, Apply, Mark
  <2>3. asked = [j \in Instances |-> asked[j]]
    BY DEF IInv, Shape
  <2>4. ASSUME NEW j \in Instances PROVE asked'[j] = asked[j] \/ (asked'[j] = o)
    BY <2>2, <2>3
  <2>5. QED
    BY <2>2, <2>4 DEF AskedUsed
<1>4. QED
  BY <1>2, <1>3, IInvHolds, PTL DEF Spec

\* Every parse goes by a whole instance and the options its caller asked for,
\* read as TypeScript reads them, whichever threads met at the two cells.
THEOREM ParsesGoByWhatWasAsked == Spec => ParsesAsAsked
<1>1. IInv /\ AskedUsed /\ [Next]_vars => [\A t \in Threads : Read(t) => AsAsked(t)]_vars
  <2> SUFFICES ASSUME IInv, AskedUsed, NEW t \in Threads, Read(t) PROVE AsAsked(t)
    OBVIOUS
  <2>1. ThreadOK(t) /\ using[t] \in Instances /\ pc[t] = "parse"
    BY NotShared DEF IInv, Shape, Read, At
  <2>2. Mine(t) = Whole(asked[using[t]])
    BY <2>1 DEF ThreadOK, WholeAt, Mine
  <2>3. QED
    BY <2>1, <2>2, Marks DEF AsAsked, AskedUsed
<1>2. QED
  BY <1>1, IInvHolds, AskedUsedHolds, PTL DEF Spec, ParsesAsAsked

=============================================================================
