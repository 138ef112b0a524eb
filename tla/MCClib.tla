------------------------------- MODULE MCClib -------------------------------
(* Clib on small sets.  Sources has an input of each kind of verdict.       *)
EXTENDS Clib, TLC

MCVerdict == [s \in Sources |->
                CASE s = "good"   -> "value"
                  [] s = "bad"    -> "reject"
                  [] s = "opaque" -> "unsafe"
                  [] s = "bug"    -> "internal"
                  [] s = "crash"  -> "panic"]
=============================================================================
