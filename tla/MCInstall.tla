----------------------------- MODULE MCInstall -----------------------------
(***************************************************************************)
(* Two threads, each with the default parser, parsers of its own, or both, *)
(* and bags whose fields are left out, well typed, and not.                *)
(***************************************************************************)
EXTENDS ZonInstall, TLC

Bag(chars, tag) == "charAsNumber" :> chars @@ "enumTag" :> tag
SomeBags ==
    {<<>>, "enumTag" :> Of("string", Empty)}
        \cup {Bag(Of("bool", "true"), v) : v \in {Of("string", "t"), Of("bool", "false")}}
        \cup {Bag(Of("string", Empty), v) : v \in {Of("undefined", "undefined"), Of("container", "[1]")}}
        \cup {Bag(Of("number", "Infinity"), Of("number", "Infinity")),
              Bag(Of("number", "NaN"), Of("number", "-0")),
              "enumTag" :> PowerOfTwo}
=============================================================================
