----------------------------- MODULE ZonInstall -----------------------------
(***************************************************************************)
(* The installation of the plugin, rs/src/lib.rs: `zon` on an instance of  *)
(* the engine, which must carry the relaxed-JSON grammar, and the parsers  *)
(* `parse`, `parse_with` and a caller's own, used by threads at once.  Two *)
(* things are made once in a process and shared: the default parser, and   *)
(* the rules of the grammar text.                                          *)
(*                                                                         *)
(* An instance being built is in one thread's hands (`&mut`); the engine   *)
(* and the two OnceLocks are modelled as they are used.                    *)
(***************************************************************************)
EXTENDS ZonOptions

CONSTANTS Threads,
          Given,      \* bound: the bags callers give, of Bags
          MaxCalls    \* bound: the calls of all threads

ASSUME InstallAssumption == Given \subseteq Bags /\ MaxCalls \in Nat

Shared == "shared"
ASSUME SharedAssumption == {Shared, "empty", "set"} \cap Threads = {}
Instances == Threads \cup {Shared}  \* the default parser, and one for each thread

VARIABLES instance,  \* the instances
          rules,     \* the cell of the grammar's rules: "empty", "set", or who fills it
          default,   \* the cell of the default parser, likewise
          pc, using, \* of each thread: where it is, and the instance it has
          options,   \* of each thread: those it installs
          next,      \* and what it does then
          asked,     \* of each instance: the options asked for it
          calls

vars == <<instance, rules, default, pc, using, options, next, asked, calls>>

Grammar == INSTANCE ZonTokens WITH Texts <- {}, Contents <- {}
Lexer   == INSTANCE ZonLex WITH Texts <- {}, Contents <- {}, Sources <- {}, src <- <<>>, at <- 1, tokens <- <<>>

-----------------------------------------------------------------------------
(* The instance.                                                           *)

JsonRules == {"val", "map", "list", "pair", "elem"}

\* An engine without a grammar.  The alternates are groups, in their order,
\* and a matcher has its place among the others, in ten thousands.
Bare == [rules |-> {}, alternates |-> <<>>, exclude |-> {}, hooks |-> <<>>, options |-> Default,
         key |-> <<"#TX", "#NR", "#ST", "#VL">>,
         fixed |-> [n \in {"#OB", "#CB", "#OS", "#CS", "#CL", "#CA"} |->
                       CASE n = "#OB" -> "{" [] n = "#CB" -> "}" [] n = "#OS" -> "["
                         [] n = "#CS" -> "]" [] n = "#CL" -> ":" [] n = "#CA" -> ","],
         matchers |-> [n \in {"fixed", "space", "line", "string", "comment", "number", "text"} |->
                          CASE n = "fixed" -> 200 [] n = "space" -> 300 [] n = "line" -> 400
                            [] n = "string" -> 500 [] n = "comment" -> 600
                            [] n = "number" -> 700 [] n = "text" -> 800],
         marked |-> FALSE]

\* With the relaxed-JSON grammar.
Jsonic(x) == [x EXCEPT !.rules = JsonRules, !.alternates = <<"json", "jsonic", "imp">>]
Based == Jsonic(Bare)

\* Null clears a member of a set, and a token that is fixed.
Null == "null"

\* Mutant: the set is given without the nulls.
KeyOnly == <<"#TX">>

\* options_document: the members of the set KEY, the fixed tokens, what is
\* excluded, the matchers turned off and those there are instead.
KeyOption     == <<"#TX", Null, Null, Null>>
FixedOption   == [n \in {"#OB", "#OS", "#CS", "#CL"} |-> IF n = "#CL" THEN "=" ELSE Null]
ExcludeOption == {"jsonic", "imp"}
LexOff        == {"string", "number", "text"}
LexMatch ==
    [n \in {"zonDot", "zonMultiString", "zonChar", "zonNumber", "zonDocComment", "zonString"} |->
        CASE n = "zonDot" -> 10 [] n = "zonMultiString" -> 11 [] n = "zonChar" -> 12
          [] n = "zonNumber" -> 13 [] n = "zonDocComment" -> 14 [] n = "zonString" -> 15]

\* A set of tokens is overlaid by index, the fixed tokens by name.
Overlaid(set, by) == [i \in DOMAIN set |-> IF i \in DOMAIN by THEN by[i] ELSE set[i]]
Without(f, off)   == [n \in DOMAIN f \ off |-> f[n]]

\* ZON's alternates go before those there are.
Applied(x) ==
    [x EXCEPT !.alternates = <<"zon">> \o @,
              !.exclude = ExcludeOption,
              !.key = Overlaid(@, KeyOption),
              !.fixed = Over(FixedOption, @),
              !.matchers = Without(Over(LexMatch, @), LexOff)]

\* The closures the document names.
Hooked(x, o) ==
    [x EXCEPT !.hooks = @ \o <<"@pair-bc/prepend">> \o (IF Tag(o) # NoTag THEN <<"@val-ac/prepend">> ELSE <<>>),
              !.options = Options(o.charAsNumber, Tag(o))]

-----------------------------------------------------------------------------
(* A thread.                                                               *)

At(t, label) == pc[t] = label
Go(t, label) == pc' = [pc EXCEPT ![t] = label]
Mine(t) == instance[using[t]]
Becomes(t, x) == instance' = [instance EXCEPT ![using[t]] = x]

Call(t) == At(t, "idle") /\ calls < MaxCalls /\ calls' = calls + 1

Install(t, i, o, label) ==
    /\ using' = [using EXCEPT ![t] = i] /\ options' = [options EXCEPT ![t] = o]
    /\ next' = [next EXCEPT ![t] = label] /\ Go(t, "check")

\* parse: the default parser, built by the first who comes, for whom the
\* others wait.
Parse(t) ==
    /\ Call(t) /\ using' = [using EXCEPT ![t] = Shared] /\ Go(t, "get default")
    /\ UNCHANGED <<instance, rules, default, options, next, asked>>

GetDefault(t) ==
    /\ At(t, "get default") /\ default = "set" /\ Go(t, "parse")
    /\ UNCHANGED <<instance, rules, default, using, options, next, asked, calls>>

\* Mutant: whoever comes while it is being built takes it as it is.
BuildOrTake(t) ==
    /\ At(t, "get default") /\ default # "set"
    /\ IF default = "empty"
       THEN /\ default' = t /\ Becomes(t, Based) /\ Install(t, Shared, FromValue(Merged(ToValue(Default))), "publish")
            /\ asked' = [asked EXCEPT ![Shared] = Default]
       ELSE Go(t, "parse") /\ UNCHANGED <<default, instance, using, options, next, asked>>
    /\ UNCHANGED <<rules, calls>>

BuildDefault(t) ==
    /\ At(t, "get default") /\ default = "empty"
    /\ default' = t /\ Becomes(t, Based) /\ Install(t, Shared, FromValue(Merged(ToValue(Default))), "publish")
    /\ asked' = [asked EXCEPT ![Shared] = Default]
    /\ UNCHANGED <<rules, calls>>

\* parse_with: make_with, and a parse.
ParseWith(t, o) ==
    /\ Call(t) /\ Install(t, t, FromValue(Merged(ToValue(o))), "parse")
    /\ instance' = [instance EXCEPT ![t] = Based]
    /\ asked' = [asked EXCEPT ![t] = Options(o.charAsNumber, Tag(o))]
    /\ UNCHANGED <<rules, default>>

\* A caller's own instance, with or without the grammar underneath, the plugin
\* used on it with any options, now or again, and parses.
New(t, x) ==
    /\ Call(t) /\ instance' = [instance EXCEPT ![t] = x]
    /\ UNCHANGED <<rules, default, pc, using, options, next, asked>>

AddJsonic(t) ==
    /\ Call(t) /\ instance[t] = Bare /\ instance' = [instance EXCEPT ![t] = Jsonic(@)]
    /\ UNCHANGED <<rules, default, pc, using, options, next, asked>>

UsePlugin(t, b) ==
    /\ Call(t) /\ Install(t, t, FromValue(Merged(b)), "idle")
    /\ asked' = IF instance[t].marked THEN asked ELSE [asked EXCEPT ![t] = Asked(b)]
    /\ UNCHANGED <<instance, rules, default>>

ParseOwn(t) ==
    /\ Call(t) /\ instance[t].marked
    /\ using' = [using EXCEPT ![t] = t] /\ Go(t, "parse")
    /\ UNCHANGED <<instance, rules, default, options, next, asked>>

-----------------------------------------------------------------------------
(* zon, and what comes after it.                                           *)

Installed(t) == Go(t, next[t])

\* Already installed.
Again(t) ==
    /\ At(t, "check") /\ Mine(t).marked /\ Installed(t)
    /\ UNCHANGED <<instance, rules, default, using, options, next, asked, calls>>

\* Mutant: the instance is marked before anything is done, as in Go.
RefuseMarked(t) ==
    /\ At(t, "check") /\ ~Mine(t).marked /\ ~(JsonRules \subseteq Mine(t).rules)
    /\ Go(t, "idle") /\ Becomes(t, [Mine(t) EXCEPT !.marked = TRUE])
    /\ UNCHANGED <<rules, default, using, options, next, asked, calls>>

\* No rules to reshape.
Refuse(t) ==
    /\ At(t, "check") /\ ~Mine(t).marked /\ ~(JsonRules \subseteq Mine(t).rules)
    /\ Go(t, "idle")
    /\ UNCHANGED <<instance, rules, default, using, options, next, asked, calls>>

Register(t) ==
    /\ At(t, "check") /\ ~Mine(t).marked /\ JsonRules \subseteq Mine(t).rules
    /\ Becomes(t, Hooked(Mine(t), options[t])) /\ Go(t, "get rules")
    /\ UNCHANGED <<rules, default, using, options, next, asked, calls>>

\* grammar_document: the text is parsed once in a process.
ParseRules(t) ==
    /\ At(t, "get rules") /\ rules = "empty" /\ rules' = t /\ Go(t, "parse rules")
    /\ UNCHANGED <<instance, default, using, options, next, asked, calls>>

SetRules(t) ==
    /\ At(t, "parse rules") /\ rules' = "set" /\ Go(t, "apply")
    /\ UNCHANGED <<instance, default, using, options, next, asked, calls>>

GetRules(t) ==
    /\ At(t, "get rules") /\ rules = "set" /\ Go(t, "apply")
    /\ UNCHANGED <<instance, rules, default, using, options, next, asked, calls>>

\* The document is a fixed text the engine takes: the three errors that would
\* end the installation here, and in grammar_document, are left out.
Apply(t) ==
    /\ At(t, "apply") /\ Becomes(t, Applied(Mine(t))) /\ Go(t, "mark")
    /\ UNCHANGED <<rules, default, using, options, next, asked, calls>>

\* Last of all.
Mark(t) ==
    /\ At(t, "mark") /\ Becomes(t, [Mine(t) EXCEPT !.marked = TRUE]) /\ Installed(t)
    /\ UNCHANGED <<rules, default, using, options, next, asked, calls>>

\* Mutant: the cell is left as it is.
PublishNothing(t) ==
    /\ At(t, "publish") /\ Go(t, "parse")
    /\ UNCHANGED <<instance, rules, default, using, options, next, asked, calls>>

Publish(t) ==
    /\ At(t, "publish") /\ default' = "set" /\ Go(t, "parse")
    /\ UNCHANGED <<instance, rules, using, options, next, asked, calls>>

\* A parse only reads the instance.
Read(t) ==
    /\ At(t, "parse") /\ Go(t, "idle")
    /\ UNCHANGED <<instance, rules, default, using, options, next, asked, calls>>

Init ==
    /\ instance = [i \in Instances |-> Bare] /\ rules = "empty" /\ default = "empty"
    /\ pc = [t \in Threads |-> "idle"] /\ using = [t \in Threads |-> t]
    /\ options = [t \in Threads |-> Default] /\ next = [t \in Threads |-> "idle"]
    /\ asked = [i \in Instances |-> Default]
    /\ calls = 0

Begin(t) ==
    \/ Parse(t) \/ AddJsonic(t) \/ ParseOwn(t)
    \/ \E o \in Typed : ParseWith(t, o)
    \/ \E x \in {Bare, Based} : New(t, x)
    \/ \E b \in Given : UsePlugin(t, b)

Step(t) ==
    \/ GetDefault(t) \/ BuildDefault(t) \/ Publish(t) \/ Read(t)
    \/ Again(t) \/ Refuse(t) \/ Register(t)
    \/ ParseRules(t) \/ SetRules(t) \/ GetRules(t) \/ Apply(t) \/ Mark(t)

Next == \E t \in Threads : Begin(t) \/ Step(t)

Spec == Init /\ [][Next]_vars

\* A thread that is in a call is run until it returns.
FairSpec == Spec /\ \A t \in Threads : WF_vars(Step(t))

-----------------------------------------------------------------------------
(* What is promised.                                                       *)

\* An instance that speaks ZON: its alternates before the JSON ones, once,
\* and none of jsonic's; every closure the options call for, once; no name
\* but an identifier, no bracket but the braces; and the doc comments, the
\* numbers and the strings are ZON's before they are anything else.
SpeaksZon(x) ==
    /\ x.alternates = <<"zon", "json", "jsonic", "imp">> /\ x.exclude = {"jsonic", "imp"}
    /\ x.hooks = IF x.options.enumTag = NoTag THEN <<"@pair-bc/prepend">>
                 ELSE <<"@pair-bc/prepend", "@val-ac/prepend">>
    /\ {x.key[i] : i \in DOMAIN x.key} \ {Null} = Grammar!KEY
    /\ \A n \in DOMAIN x.fixed : x.fixed[n] # Null =>
          x.fixed[n] \in DOMAIN Lexer!Fixed /\ Lexer!Fixed[x.fixed[n]] = n
    /\ \A c \in DOMAIN Lexer!Fixed : x.fixed[Lexer!Fixed[c]] = c
    /\ \A n \in DOMAIN LexMatch, m \in DOMAIN x.matchers \ DOMAIN LexMatch :
          x.matchers[n] < x.matchers[m]
    /\ {"string", "number", "text"} \cap DOMAIN x.matchers = {}

\* "Marked only once everything above succeeded: a failed install (a bare
\* engine, say) must not turn the next call into a silent no-op", and "a
\* second call on the same instance is a no-op": an instance no thread is
\* installing on is as it was, or speaks ZON, as it does once it is marked.
Busy(i) == \E t \in Threads : using[t] = i /\ pc[t] \in {"get rules", "parse rules", "apply", "mark"}
WholeOrUntouched ==
    \A i \in Instances :
        \/ instance[i].marked /\ SpeaksZon(instance[i])
        \/ ~instance[i].marked /\ (Busy(i) \/ instance[i] \in {Bare, Based})

\* What a parse goes by: a whole instance, and the options its caller asked
\* for, as TypeScript reads them: the default parser's are the defaults
\* whatever other threads install, and a caller's instance keeps those of
\* its first use.
AsAsked(t) == Mine(t).marked /\ Mine(t).options = asked[using[t]]
ParsesAsAsked == [][\A t \in Threads : Read(t) => AsAsked(t)]_vars

\* Threads that meet at the two cells do not wait for each other for ever.
EveryCallReturns == \A t \in Threads : ~At(t, "idle") ~> At(t, "idle")
=============================================================================
