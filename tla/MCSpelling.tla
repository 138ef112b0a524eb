----------------------------- MODULE MCSpelling -----------------------------
(* Every double of four bits.                                              *)
EXTENDS ZonSpelling

SmallestExp == -7
=============================================================================
