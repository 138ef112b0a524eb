---------------------------- MODULE ClibAnswers ----------------------------
(***************************************************************************)
(* The replies of the C library (go/clib/core.go, tabnas_c.go): "THREE     *)
(* OUTCOMES, NOT TWO", a call that failed (ok:false and a code), an input  *)
(* outside the language (accept:false), an input in it (accept:true, with  *)
(* its value or with the reason the value is withheld).                    *)
(***************************************************************************)
EXTENDS Integers

CONSTANTS Sources,   \* the inputs callers parse
          Verdict    \* what an engine left to itself makes of each of them

\* What safeParse brings back: a value encoding/json carries faithfully, one
\* it would corrupt (jsonUnsafe), a rejection, an error the engine recovered
\* itself (code "internal"), or a panic recovered by safeParse.
Verdicts == {"value", "unsafe", "reject", "internal", "panic"}

ASSUME VerdictAssumption == Verdict \in [Sources -> Verdicts]

Codes == {"usage", "grammar", "handle", "internal"}

Failed(code)  == [ok |-> FALSE, code |-> code]
Loaded(id)    == [ok |-> TRUE, handle |-> id]
Accepted(val) == [ok |-> TRUE, accept |-> val]

\* The tail of parseWith, and acceptDoc: the reply made of a verdict.
Answer(v) ==
    CASE v \in {"panic", "internal"} -> Failed("internal")
      [] v = "reject"                -> Accepted("no")
      [] v = "value"                 -> Accepted("with value")
      [] v = "unsafe"                -> Accepted("value withheld")

\* tabnas_grammar_free returns nothing, and a call that has not answered has
\* no reply yet.
Silent == [ok |-> TRUE]

Replies ==
    {Silent} \cup {Failed(c) : c \in Codes}
             \cup [ok : {TRUE}, handle : Nat]
             \cup {Answer(v) : v \in Verdicts}

NoHandle == -1
NoSource == "none"
=============================================================================
