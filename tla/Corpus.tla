------------------------------- MODULE Corpus -------------------------------
(***************************************************************************)
(* The conformance corpora: scripts/fetch-zigzon.sh with its judge.py, and *)
(* the test suites that run it before they grade.  A run may be stopped    *)
(* between any two of its steps, and what it wrote stays: the downloads,   *)
(* the toolchain and the tree unpacked from them, the tree's stamp, and    *)
(* the two files of cases.                                                 *)
(*                                                                         *)
(* One suite runs at a time.  The script and what it judges with are       *)
(* edited between runs, and not back to what they were; a script is the    *)
(* number of edits before it, and so are the tools and the probes.         *)
(***************************************************************************)
EXTENDS Integers

CONSTANTS Suites, Always,      \* of the suites, those that always run the script
          MaxEdits, MaxStops   \* bounds

ASSUME CorpusAssumption == Always \subseteq Suites /\ MaxEdits \in Nat /\ MaxStops \in Nat

VARIABLES script, tools,       \* as they are checked out
          tar,                 \* the downloads: "none", "bad" when not of the hash, "good"
          toolchain,           \* "none", "torn" when there is a compiler but not all, "whole"
          tree, stamp,         \* the sources, and the script they are stamped with
          harvest,             \* the documents found
          corpus,              \* the two files of cases
          pc, suite, stops

files == <<tar, toolchain, tree, stamp, harvest, corpus>>
vars  == <<script, tools, files, pc, suite, stops>>

Tars  == {"toolchain", "source"}
Files == {"zigzon", "strictness"}

NoSuite  == "no suite"
NoStamp  == -1
NoTree   == [of |-> NoStamp, whole |-> FALSE]
WholeTree(s) == [of |-> s, whole |-> TRUE]

\* What a file of cases holds: what was harvested, from what and by which tools.
Cases(t, by) == [tree |-> t, by |-> by]
Missing == Cases(NoTree, -2)
Torn    == Cases(NoTree, -1)
Cut     == {Missing, Torn}

At(label) == pc = label
Go(label) == pc' = label
Keeps == UNCHANGED <<script, tools, suite, stops>>

-----------------------------------------------------------------------------
(* The suites.                                                             *)

\* Mutant: the script is run for lack of a corpus only.
OnlyMissing(s) == \E f \in Files : corpus[f] = Missing

\* `pretest` of TypeScript; in Go and Rust only where a file is not there.
Fetches(s) == s \in Always \/ \E f \in Files : corpus[f] = Missing

Begin(s) ==
    /\ At("idle") /\ suite' = s /\ Go(IF Fetches(s) THEN "toolchain" ELSE "grade")
    /\ UNCHANGED <<script, tools, files, stops>>

\* The script ends in an error: npm ends too, Go and Rust go on to grade.
Fails == IF suite \in Always THEN Go("idle") ELSE Go("grade")

\* A file that is missing or cannot be read fails the suite.  So may what is
\* read, which need not have as many cases as the suite counts on.
Readable == \A f \in Files : corpus[f] \notin Cut

Pass == At("grade") /\ Readable /\ Go("idle") /\ Keeps /\ UNCHANGED files
Fail == At("grade") /\ Go("idle") /\ Keeps /\ UNCHANGED files

-----------------------------------------------------------------------------
(* fetch: a download under another name, which nothing reads, and moved    *)
(* when its hash is right.                                                 *)

Fetching == [toolchain |-> "fetch toolchain", source |-> "fetch source"]
Loading  == [toolchain |-> "load toolchain", source |-> "load source"]
Unpack   == [toolchain |-> "unpack", source |-> "remove tree"]

FetchCached(t) ==
    /\ At(Fetching[t]) /\ tar[t] = "good" /\ Go(Unpack[t])
    /\ Keeps /\ UNCHANGED files

\* Mutant: a download kept with another hash is an error.
RefuseCached(t) ==
    /\ At(Fetching[t]) /\ tar[t] # "good"
    /\ IF tar[t] = "none" THEN Go(Loading[t]) ELSE Fails
    /\ Keeps /\ UNCHANGED files

\* One that was kept with another hash is removed first.
Download(t) ==
    /\ At(Fetching[t]) /\ tar[t] # "good"
    /\ tar' = [tar EXCEPT ![t] = "none"]
    /\ Go(Loading[t])
    /\ Keeps /\ UNCHANGED <<toolchain, tree, stamp, harvest, corpus>>

\* What the server sends, and the hash of it.
Downloaded(t) ==
    /\ At(Loading[t]) /\ tar' = [tar EXCEPT ![t] = "good"]
    /\ Go(Unpack[t])
    /\ Keeps /\ UNCHANGED <<toolchain, tree, stamp, harvest, corpus>>

DownloadFails(t) ==
    /\ At(Loading[t]) /\ Fails
    /\ Keeps /\ UNCHANGED <<tar, toolchain, tree, stamp, harvest, corpus>>

-----------------------------------------------------------------------------
(* The toolchain, which is there if its compiler can be executed.          *)

FindToolchain ==
    /\ At("toolchain") /\ Go(IF toolchain = "none" THEN Fetching["toolchain"] ELSE "version")
    /\ Keeps /\ UNCHANGED files

UnpackCompiler ==
    /\ At("unpack") /\ toolchain' = "torn" /\ Go("unpack rest")
    /\ Keeps /\ UNCHANGED <<tar, tree, stamp, harvest, corpus>>

UnpackRest ==
    /\ At("unpack rest") /\ toolchain' = "whole" /\ Go("version")
    /\ Keeps /\ UNCHANGED <<tar, tree, stamp, harvest, corpus>>

\* What is not whole may do for what is asked of it, and may not.
Runs(from, to) == At(from) /\ Go(to) /\ Keeps /\ UNCHANGED files
RunFails == pc \in {"version", "oracle"} /\ toolchain = "torn" /\ Fails /\ Keeps /\ UNCHANGED files
Version == Runs("version", "stamp")
Oracle  == Runs("oracle", "harvest")

-----------------------------------------------------------------------------
(* The sources, unpacked again unless they are stamped with the script.    *)

CheckStamp ==
    /\ At("stamp") /\ Go(IF stamp = script THEN "oracle" ELSE Fetching["source"])
    /\ Keeps /\ UNCHANGED files

RemoveSome ==
    /\ At("remove tree") /\ tree' = [tree EXCEPT !.whole = FALSE] /\ Go("remove rest")
    /\ Keeps /\ UNCHANGED <<tar, toolchain, stamp, harvest, corpus>>

RemoveRest ==
    /\ At("remove rest") /\ tree' = NoTree /\ stamp' = NoStamp /\ Go("extract")
    /\ Keeps /\ UNCHANGED <<tar, toolchain, harvest, corpus>>

\* Mutant: the stamp is written as soon as there is a directory.
StampFirst ==
    /\ At("extract") /\ tree' = [of |-> script, whole |-> FALSE] /\ stamp' = script
    /\ Go("extract rest")
    /\ Keeps /\ UNCHANGED <<tar, toolchain, harvest, corpus>>

ExtractSome ==
    /\ At("extract") /\ tree' = [of |-> script, whole |-> FALSE] /\ Go("extract rest")
    /\ Keeps /\ UNCHANGED <<tar, toolchain, stamp, harvest, corpus>>

ExtractRest ==
    /\ At("extract rest") /\ tree' = [tree EXCEPT !.whole = tar["source"] = "good"]
    /\ Go("write stamp")
    /\ Keeps /\ UNCHANGED <<tar, toolchain, stamp, harvest, corpus>>

WriteStamp ==
    /\ At("write stamp") /\ stamp' = script /\ Go("oracle")
    /\ Keeps /\ UNCHANGED <<tar, toolchain, tree, harvest, corpus>>

-----------------------------------------------------------------------------
(* The corpora.                                                            *)

Harvest ==
    /\ At("harvest") /\ harvest' = Cases(tree, tools) /\ Go("judge zigzon")
    /\ Keeps /\ UNCHANGED <<tar, toolchain, tree, stamp, corpus>>

\* A file is opened, which empties it, and then written.
Open(f, from, to) ==
    /\ At(from) /\ corpus' = [corpus EXCEPT ![f] = Torn] /\ Go(to)
    /\ Keeps /\ UNCHANGED <<tar, toolchain, tree, stamp, harvest>>

Write(f, cases, from, to) ==
    /\ At(from) /\ corpus' = [corpus EXCEPT ![f] = cases] /\ Go(to)
    /\ Keeps /\ UNCHANGED <<tar, toolchain, tree, stamp, harvest>>

\* The probes are not of the tree; what they are judged by is.
Judge ==
    \/ Open("zigzon", "judge zigzon", "write zigzon")
    \/ Write("zigzon", harvest, "write zigzon", "judge strictness")
    \/ Open("strictness", "judge strictness", "write strictness")
    \/ Write("strictness", Cases(WholeTree(script), tools), "write strictness", "grade")

-----------------------------------------------------------------------------
(* The world.                                                              *)

Stop ==
    /\ ~At("idle") /\ stops < MaxStops /\ stops' = stops + 1 /\ Go("idle")
    /\ UNCHANGED <<script, tools, files, suite>>

Edit ==
    /\ At("idle") /\ script + tools < MaxEdits
    /\ \/ script' = script + 1 /\ UNCHANGED tools
       \/ tools' = tools + 1 /\ UNCHANGED script
    /\ UNCHANGED <<files, pc, suite, stops>>

Init ==
    /\ script = 0 /\ tools = 0
    /\ tar \in [Tars -> {"none", "bad"}]
    /\ toolchain = "none" /\ tree = NoTree /\ stamp = NoStamp /\ harvest = Missing
    /\ corpus = [f \in Files |-> Missing]
    /\ pc = "idle" /\ suite = NoSuite /\ stops = 0

Fetch(t) == FetchCached(t) \/ Download(t) \/ Downloaded(t) \/ DownloadFails(t)

Sources == CheckStamp \/ RemoveSome \/ RemoveRest \/ ExtractSome \/ ExtractRest \/ WriteStamp

Work ==
    \/ \E t \in Tars : Fetch(t)
    \/ FindToolchain \/ UnpackCompiler \/ UnpackRest \/ Version \/ Oracle \/ RunFails
    \/ Sources \/ Harvest \/ Judge \/ Pass \/ Fail

Next == (\E s \in Suites : Begin(s)) \/ Work \/ Stop \/ Edit

Spec == Init /\ [][Next]_vars

\* The suites go on being run, and a server that is asked again and again
\* sends what it should.
FairSpec ==
    /\ Spec /\ WF_vars(Work)
    /\ \A s \in Always : SF_vars(Begin(s))
    /\ \A t \in Tars : SF_vars(Downloaded(t))

-----------------------------------------------------------------------------
(* What is promised.                                                       *)

\* "Re-extract whenever the recipe changes": the tree that is taken as it is
\* has all of what this script unpacks, wherever runs were stopped before.
StampedTreeIsWhole == stamp = script => tree = WholeTree(script)

\* A suite that passes has graded whole corpora, never what a run that was
\* stopped left behind; TypeScript, which has the script run every time, has
\* graded those of this script and these tools.
Current(f) == corpus[f] = Cases(WholeTree(script), tools)
GradesWhatItShould ==
    [][\A s \in Suites : suite = s /\ Pass =>
          \A f \in Files :
              \/ Current(f)
              \/ s \notin Always /\ corpus[f].tree = WholeTree(corpus[f].tree.of)]_vars

\* "Idempotent", and "a cached file with the wrong hash is refetched, not
\* trusted": whatever a stop leaves, running the suites again brings the
\* corpora of this checkout, unless it left a compiler without its library.
Recovers == []<>(\A f \in Files : Current(f)) \/ <>[](toolchain = "torn")
=============================================================================
