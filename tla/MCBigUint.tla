----------------------------- MODULE MCBigUint -----------------------------
(* Hexadecimal floats of a few digits, on a small machine.                 *)
EXTENDS ZonBigUint

Strings(bits, n) == BoundedSeq(0..(2^bits - 1), n) \ {<<>>}

\* A mantissa of two digits, the point at every place, the exponent past the
\* cap on both sides.
Floats == {[digits |-> s, bits |-> 4, float |-> TRUE, point |-> p, exponent |-> e] :
              s \in Strings(4, 2), p \in 0..2, e \in -16..16}
HexFloats == {l \in Floats : l.point <= Len(l.digits)}
=============================================================================
