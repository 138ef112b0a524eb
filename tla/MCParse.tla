------------------------------ MODULE MCParse ------------------------------
(* The parser on every source of a few tokens, and what it accepts         *)
(* translated and read again.                                              *)
EXTENDS Translation

\* The names of a source, and what they are written as.
Spellings == "$big" :> <<"$", "big">> @@ "$empty" :> <<"$", "empty">>
                @@ "$$big" :> <<"$", "$", "big">> @@ "$$empty" :> <<"$", "$", "empty">>
EmptySpelt == <<"$", "empty">>
BigSpelt   == <<"$", "big">>

\* One integer that no double holds, whose digits are a string too.
BigDigits == "integer 12" :> "12"
=============================================================================
