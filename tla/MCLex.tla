------------------------------- MODULE MCLex -------------------------------
(* The lexer on what may stand after a dot.                                *)
EXTENDS ZonLex, SequencesExt

Dotted == {<<".">> \o s : s \in BoundedSeq({"a", "/", "!", "\n"}, 5)}
=============================================================================
