---------------------------- MODULE CorpusProofs ----------------------------
(***************************************************************************)
(* The corpora, for any suites and any number of edits and stops.          *)
(***************************************************************************)
EXTENDS Corpus, TLAPS

\* Where the script is on its way to a tree that is whole.
Stale      == {"fetch source", "load source", "remove tree", "remove rest"}
Unstamped  == {"extract", "extract rest"}
Downloads  == {"remove tree", "remove rest", "extract", "extract rest"}
Stamped    == {"oracle", "harvest"}

Numbers == script \in Nat /\ tools \in Nat /\ stamp \in Int /\ stamp <= script

\* The tree at each step, and what was unpacked into it.
TreeGrows ==
    /\ pc \in Stale => stamp # script
    /\ pc \in Unstamped => stamp = NoStamp
    /\ pc \in Downloads => tar["source"] = "good"
    /\ pc = "extract rest" => tree = [of |-> script, whole |-> FALSE]
    /\ pc = "write stamp" => tree = WholeTree(script) /\ stamp = NoStamp
    /\ pc \in Stamped => stamp = script

\* The documents and the files of cases on the way to the suite.
CasesGrow ==
    /\ pc \in {"judge zigzon", "write zigzon"} => harvest = Cases(WholeTree(script), tools)
    /\ pc \in {"judge strictness", "write strictness"} => Current("zigzon")
    /\ pc = "grade" /\ suite \in Always => \A f \in Files : Current(f)

\* No file has the cases of a part of a tree.
WholeCases ==
    /\ corpus = [f \in Files |-> corpus[f]]
    /\ \A f \in Files : corpus[f] \notin Cut => corpus[f].tree = WholeTree(corpus[f].tree.of)

IInv == Numbers /\ tar \in [Tars -> {"none", "bad", "good"}] /\ StampedTreeIsWhole /\ TreeGrows /\ CasesGrow /\ WholeCases

\* A stamp is of a script there has been.
LEMMA NumbersKept ==
    ASSUME Numbers, UNCHANGED <<script, tools>>, stamp' \in {stamp, script, NoStamp}
    PROVE  Numbers'
  BY DEF Numbers, NoStamp

LEMMA NoScript == \A n \in Nat : n # NoStamp
  BY DEF NoStamp

\* What is judged from a whole tree.
LEMMA WholeCase ==
    ASSUME NEW s, NEW by
    PROVE  LET c == Cases(WholeTree(s), by) IN c.tree = WholeTree(c.tree.of)
  BY DEF Cases, WholeTree

\* One step of the script, a suite or the world keeps every part.
LEMMA StepKeeps == IInv /\ [Next]_vars => IInv'
<1> SUFFICES ASSUME IInv, [Next]_vars PROVE IInv'
  OBVIOUS
<1> USE CorpusAssumption DEF IInv, Numbers, StampedTreeIsWhole, TreeGrows, CasesGrow, WholeCases, Stale, Unstamped, Downloads, Stamped, Current, WholeTree, NoTree, NoStamp, Cases, Cut, Missing, Torn, Files, At, Go, Keeps
<1>1. ASSUME NEW s \in Suites, Begin(s) PROVE IInv'
  BY <1>1 DEF Begin, Fetches, files
<1>2. ASSUME NEW t \in Tars, FetchCached(t) PROVE IInv'
  <2>1. CASE t = "toolchain"
    BY <1>2, <2>1 DEF FetchCached, Fetching, Unpack, Tars, files
  <2>2. CASE t = "source"
    BY <1>2, <2>2 DEF FetchCached, Fetching, Unpack, Tars, files
  <2>3. QED
    BY <2>1, <2>2 DEF Tars
<1>3. ASSUME NEW t \in Tars, Download(t) PROVE IInv'
  <2>1. CASE t = "toolchain"
    BY <1>3, <2>1 DEF Download, Fetching, Loading, Tars, files
  <2>2. CASE t = "source"
    BY <1>3, <2>2 DEF Download, Fetching, Loading, Tars, files
  <2>3. QED
    BY <2>1, <2>2 DEF Tars
<1>4. ASSUME NEW t \in Tars, Downloaded(t) PROVE IInv'
  <2>1. CASE t = "toolchain"
    BY <1>4, <2>1 DEF Downloaded, Loading, Unpack, Tars, files
  <2>2. CASE t = "source"
    BY <1>4, <2>2 DEF Downloaded, Loading, Unpack, Tars, files
  <2>3. QED
    BY <2>1, <2>2 DEF Tars
<1>5. ASSUME NEW t \in Tars, DownloadFails(t) PROVE IInv'
  BY <1>5 DEF DownloadFails, Loading, Fails, Tars, files
<1>6. ASSUME FindToolchain PROVE IInv'
  BY <1>6 DEF FindToolchain, Fetching, files
<1>7. ASSUME UnpackCompiler PROVE IInv'
  BY <1>7 DEF UnpackCompiler
<1>8. ASSUME UnpackRest PROVE IInv'
  BY <1>8 DEF UnpackRest
<1>9. ASSUME Version PROVE IInv'
  BY <1>9 DEF Version, Runs, files
<1>10. ASSUME Oracle PROVE IInv'
  BY <1>10 DEF Oracle, Runs, files
<1>11. ASSUME RunFails PROVE IInv'
  BY <1>11 DEF RunFails, Fails, files
<1>12. ASSUME CheckStamp PROVE IInv'
  BY <1>12 DEF CheckStamp, Fetching, files
<1>13. ASSUME RemoveSome PROVE IInv'
  BY <1>13 DEF RemoveSome
<1>14. ASSUME RemoveRest PROVE IInv'
  <2>1. CasesGrow' /\ WholeCases'
    BY <1>14 DEF RemoveRest
  <2> HIDE DEF CasesGrow, WholeCases, Numbers
  <2>2. Numbers' /\ tar' \in [Tars -> {"none", "bad", "good"}]
    BY <1>14, NumbersKept DEF RemoveRest
  <2> HIDE DEF NoTree, WholeTree
  <2>3. StampedTreeIsWhole'
    <3>1. stamp' = NoStamp /\ script' \in Nat
      BY <1>14 DEF RemoveRest, Numbers
    <3> HIDE DEF NoStamp, IInv
    <3>2. QED
      BY <3>1, NoScript DEF StampedTreeIsWhole
  <2>4. TreeGrows'
    BY <1>14 DEF RemoveRest, Numbers
  <2>5. QED
    BY <2>1, <2>2, <2>3, <2>4
<1>15. ASSUME ExtractSome PROVE IInv'
  <2>1. CasesGrow' /\ WholeCases'
    BY <1>15 DEF ExtractSome
  <2> HIDE DEF CasesGrow, WholeCases, Numbers
  <2>2. Numbers' /\ tar' \in [Tars -> {"none", "bad", "good"}]
    BY <1>15, NumbersKept DEF ExtractSome
  <2> HIDE DEF NoTree, WholeTree
  <2>3. StampedTreeIsWhole'
    <3>1. stamp' = NoStamp /\ script' \in Nat
      BY <1>15 DEF ExtractSome, Numbers
    <3> HIDE DEF NoStamp, IInv
    <3>2. QED
      BY <3>1, NoScript DEF StampedTreeIsWhole
  <2>4. TreeGrows'
    BY <1>15 DEF ExtractSome, Numbers
  <2>5. QED
    BY <2>1, <2>2, <2>3, <2>4
<1>16. ASSUME ExtractRest PROVE IInv'
  <2>1. CasesGrow' /\ WholeCases'
    BY <1>16 DEF ExtractRest
  <2> HIDE DEF CasesGrow, WholeCases, Numbers
  <2>2. Numbers' /\ tar' \in [Tars -> {"none", "bad", "good"}]
    BY <1>16, NumbersKept DEF ExtractRest
  <2> HIDE DEF NoTree, WholeTree
  <2>3. StampedTreeIsWhole'
    <3>1. stamp' = NoStamp /\ script' \in Nat
      BY <1>16 DEF ExtractRest, Numbers
    <3> HIDE DEF NoStamp, IInv
    <3>2. QED
      BY <3>1, NoScript DEF StampedTreeIsWhole
  <2>4. TreeGrows'
    <3>1. tree = [of |-> script, whole |-> FALSE] /\ tar["source"] = "good" /\ stamp = NoStamp
      BY <1>16 DEF ExtractRest
    <3>2. tree' = WholeTree(script)
      BY <1>16, <3>1 DEF ExtractRest, WholeTree
    <3>3. tree' = WholeTree(script')
      BY <1>16, <3>2 DEF ExtractRest
    <3>4. QED
      BY <1>16, <3>1, <3>3 DEF ExtractRest
  <2>5. QED
    BY <2>1, <2>2, <2>3, <2>4
<1>17. ASSUME WriteStamp PROVE IInv'
  <2>1. CasesGrow' /\ WholeCases'
    BY <1>17 DEF WriteStamp
  <2> HIDE DEF CasesGrow, WholeCases, Numbers
  <2>2. Numbers' /\ tar' \in [Tars -> {"none", "bad", "good"}]
    BY <1>17, NumbersKept DEF WriteStamp
  <2>3. StampedTreeIsWhole'
    BY <1>17 DEF WriteStamp, Numbers
  <2>4. TreeGrows'
    BY <1>17 DEF WriteStamp, Numbers
  <2>5. QED
    BY <2>1, <2>2, <2>3, <2>4
<1>18. ASSUME Harvest PROVE IInv'
  BY <1>18 DEF Harvest
<1>19. ASSUME Judge PROVE IInv'
  <2>1. CASE Open("zigzon", "judge zigzon", "write zigzon")
    BY <2>1 DEF Open
  <2>2. CASE Write("zigzon", harvest, "write zigzon", "judge strictness")
    <3>1. Current("zigzon")'
      BY <2>2 DEF Write
    <3>2. WholeCases'
      <4> DEFINE c == Cases(WholeTree(script), tools)
      <4>1. corpus' = [corpus EXCEPT !["zigzon"] = c]
        BY <2>2 DEF Write
      <4>2. c.tree = WholeTree(c.tree.of)
        BY WholeCase
      <4> HIDE DEF c
      <4>3. QED
        BY <4>1, <4>2
    <3>3. QED
      BY <2>2, <3>1, <3>2 DEF Write
  <2>3. CASE Open("strictness", "judge strictness", "write strictness")
    BY <2>3 DEF Open
  <2>4. CASE Write("strictness", Cases(WholeTree(script), tools), "write strictness", "grade")
    BY <2>4 DEF Write
  <2>5. QED
    BY <1>19, <2>1, <2>2, <2>3, <2>4 DEF Judge
<1>20. ASSUME Pass \/ Fail PROVE IInv'
  BY <1>20 DEF Pass, Fail, files
<1>21. ASSUME Stop PROVE IInv'
  BY <1>21 DEF Stop, files
<1>22. ASSUME Edit PROVE IInv'
  BY <1>22 DEF Edit, files
<1>23. ASSUME UNCHANGED vars PROVE IInv'
  BY <1>23 DEF vars, files
<1>24. QED
  BY <1>1, <1>2, <1>3, <1>4, <1>5, <1>6, <1>7, <1>8, <1>9, <1>10, <1>11, <1>12, <1>13, <1>14, <1>15, <1>16, <1>17, <1>18, <1>19, <1>20, <1>21, <1>22, <1>23 DEF Next, Work, Fetch, Sources

LEMMA InitHolds == Init => IInv
<1> SUFFICES ASSUME Init PROVE IInv
  OBVIOUS
<1>1. Numbers /\ tar \in [Tars -> {"none", "bad", "good"}]
  BY DEF Init, Numbers, NoStamp
<1>2. script # stamp
  BY NoScript DEF Init
<1>3. StampedTreeIsWhole /\ TreeGrows /\ CasesGrow
  BY <1>2 DEF Init, StampedTreeIsWhole, TreeGrows, CasesGrow, Stale, Unstamped, Downloads, Stamped
<1>4. WholeCases
  BY DEF Init, WholeCases, Cut
<1>5. QED
  BY <1>1, <1>3, <1>4 DEF IInv

LEMMA IInvHolds == Spec => []IInv
  BY InitHolds, StepKeeps, PTL DEF Spec

\* The tree the script takes as it is, is all of what it would unpack,
\* whatever runs were stopped where.
THEOREM StampsAreTrue == Spec => []StampedTreeIsWhole
<1>1. IInv => StampedTreeIsWhole
  BY DEF IInv
<1>2. QED
  BY <1>1, IInvHolds, PTL

\* What a suite that passes has graded, whatever was stopped and edited before.
THEOREM PassesOnWholeCorpora == Spec => GradesWhatItShould
<1> DEFINE Graded == \A s \in Suites : suite = s /\ Pass =>
        \A f \in Files :
              \/ Current(f)
              \/ s \notin Always /\ corpus[f].tree = WholeTree(corpus[f].tree.of)
<1>1. IInv => Graded
  BY DEF IInv, CasesGrow, WholeCases, Pass, At, Readable
<1>2. IInv /\ [Next]_vars => [Graded]_vars
  BY <1>1
<1>3. Spec => [][Graded]_vars
  BY <1>2, IInvHolds, PTL DEF Spec
<1>4. QED
  BY <1>3 DEF GradesWhatItShould
=============================================================================
