--------------------------- MODULE ReleaseProofs ---------------------------
(***************************************************************************)
(* Proofs about Release.tla and ReleaseJobs.tla, for any history of main,  *)
(* any number of overlapping runs and any number of jobs.                  *)
(*                                                                         *)
(* A run acts on tags it fetched earlier.  What makes that safe is that a  *)
(* tag the remote has never moves, so what a run knows stays true, and the *)
(* atomic push refuses what the run did not know.                          *)
(***************************************************************************)
EXTENDS ReleaseJobs, TLAPS

\* What a run knows of the tags is still so: those it fetched, and the one
\* that started it.
KnowsTags(r) ==
    /\ \A k \in Kinds : run[r].fetched[k] \in {NoCommit, tags[k][Version(r)]}
    /\ run[r].event = "push" => tags["ts"][Version(r)] = run[r].sha

\* So is what it knows of npm: it publishes nothing beside a tag it fetched,
\* and tags what is on npm.
KnowsNpm(r) ==
    /\ run[r].step \in {"view", "publish"} =>
          run[r].fetched["ts"] \in {NoCommit, run[r].sha} \/ npm[Version(r)] # NoCommit
    /\ run[r].step = "tag" => run[r].event = "dispatch" /\ npm[Version(r)] # NoCommit

RunKnows(r) == KnowsTags(r) /\ KnowsNpm(r)

RunsKnow == \A r \in Runs : RunKnows(r)

IInv == TypeOK /\ TagsAgree /\ RunsKnow

\* No tag, and no version on npm, ever changes: a run started later reads
\* what was there.
Settled ==
    /\ \A k \in Kinds, v \in Versions : tags[k][v] \in {NoCommit, tags'[k][v]}
    /\ \A v \in Versions : npm[v] \in {NoCommit, npm'[v]}

-----------------------------------------------------------------------------
(* One run's record.                                                       *)

\* Where a run's version comes from: its commit's is a version of main's
\* (Read the version).
LEMMA RunVersion ==
    ASSUME TypeOK, NEW r \in Runs
    PROVE  Version(r) \in Versions /\ run[r].sha \in Commits /\ run[r] \in RunType
<1>1. run[r] \in RunType
  BY DEF TypeOK
<1>2. run[r].sha \in Commits
  BY <1>1 DEF RunType
<1> QED
  BY <1>1, <1>2 DEF Version, Versions

\* What moving a run on does to the runs (Advance).
Moved(r, to) ==
    /\ run' \in [Runs -> RunType]
    /\ \A s \in Runs \ {r} : run'[s] = run[s]
    /\ run'[r].step = to
    /\ run'[r].event = run[r].event /\ run'[r].sha = run[r].sha

LEMMA AdvanceMoves ==
    ASSUME TypeOK, NEW r \in Runs, NEW from, NEW to \in Steps, Advance(r, from, to)
    PROVE  /\ Moved(r, to)
           /\ run[r].step = from
           /\ run'[r].fetched = IF to \in Resting THEN NoTags ELSE run[r].fetched
<1>1. run \in [Runs -> RunType]
  BY DEF TypeOK
<1>2. run[r] \in RunType
  BY <1>1
<1>3. NoTags \in [Kinds -> Commits \cup {NoCommit}]
  BY DEF NoTags
<1>4. PICK f : /\ f = IF to \in Resting THEN NoTags ELSE run[r].fetched
               /\ run' = [run EXCEPT ![r].step = to, ![r].fetched = f]
               /\ run[r].step = from
  BY <1>1, <1>2 DEF Advance, RunType
<1>5. f \in [Kinds -> Commits \cup {NoCommit}]
  BY <1>2, <1>3, <1>4 DEF RunType
<1>6. /\ run'[r] = [run[r] EXCEPT !.step = to, !.fetched = f]
      /\ \A s \in Runs \ {r} : run'[s] = run[s]
      /\ DOMAIN run' = Runs /\ run' = [s \in Runs |-> run'[s]]
  BY <1>1, <1>4
<1>7. run'[r] \in RunType
  BY <1>2, <1>5, <1>6 DEF RunType
<1>8. run' \in [Runs -> RunType]
  BY <1>1, <1>6, <1>7
<1>9. /\ run'[r].step = to /\ run'[r].fetched = f
      /\ run'[r].event = run[r].event /\ run'[r].sha = run[r].sha
  BY <1>2, <1>6 DEF RunType
<1> QED
  BY <1>4, <1>6, <1>8, <1>9 DEF Moved

-----------------------------------------------------------------------------
(* What a run knows stays so.                                              *)

\* A run nobody moves: the tags and npm it read are settled (Decide's
\* decision is acted on later, by Publish and Tag).
LEMMA OthersKnow ==
    ASSUME TypeOK, Settled, NEW r \in Runs, RunKnows(r), run'[r] = run[r]
    PROVE  RunKnows(r)'
<1>1. Version(r) \in Versions /\ run[r].sha \in Commits /\ Version(r)' = Version(r)
  BY RunVersion DEF Version
<1>2. NoCommit \notin Commits
  BY DEF NoCommit, Commits
<1>3. KnowsTags(r)'
  <2>1. ASSUME NEW k \in Kinds
        PROVE  run[r].fetched[k] \in {NoCommit, tags'[k][Version(r)]}
    BY <1>1 DEF RunKnows, KnowsTags, Settled
  <2>2. run[r].event = "push" => tags'["ts"][Version(r)] = run[r].sha
    <3>1. "ts" \in Kinds
      BY DEF Kinds
    <3> QED
      BY <1>1, <1>2, <3>1 DEF RunKnows, KnowsTags, Settled
  <2> QED
    BY <1>1, <2>1, <2>2 DEF KnowsTags
<1>4. KnowsNpm(r)'
  <2>1. npm[Version(r)] # NoCommit => npm'[Version(r)] # NoCommit
    BY <1>1 DEF Settled
  <2> QED
    BY <1>1, <2>1 DEF RunKnows, KnowsNpm
<1> QED
  BY <1>3, <1>4 DEF RunKnows

\* A run that moved on keeps what it knew of the tags.
LEMMA MovedKnowsTags ==
    ASSUME TypeOK, Settled, NEW r \in Runs, KnowsTags(r), NEW to, Moved(r, to),
           run'[r].fetched \in {NoTags, run[r].fetched}
    PROVE  KnowsTags(r)'
<1>1. Version(r) \in Versions /\ run[r].sha \in Commits /\ Version(r)' = Version(r)
  BY RunVersion DEF Version, Moved
<1>2. NoCommit \notin Commits
  BY DEF NoCommit, Commits
<1>3. ASSUME NEW k \in Kinds
      PROVE  run'[r].fetched[k] \in {NoCommit, tags'[k][Version(r)]}
  <2>1. NoTags[k] = NoCommit
    BY DEF NoTags
  <2>2. run[r].fetched[k] \in {NoCommit, tags'[k][Version(r)]}
    BY <1>1 DEF KnowsTags, Settled
  <2> QED
    BY <2>1, <2>2
<1>4. run[r].event = "push" => tags'["ts"][Version(r)] = run[r].sha
  <2>1. "ts" \in Kinds
    BY DEF Kinds
  <2> QED
    BY <1>1, <1>2, <2>1 DEF KnowsTags, Settled
<1>5. run'[r].event = run[r].event /\ run'[r].sha = run[r].sha
  BY DEF Moved
<1> QED
  BY <1>1, <1>3, <1>4, <1>5 DEF KnowsTags

\* When one run moved on, all still know what they knew, if the one that
\* moved knows what its new step asks of npm.
LEMMA AllKnow ==
    ASSUME TypeOK, RunsKnow, Settled, NEW r \in Runs, NEW to, Moved(r, to),
           run'[r].fetched \in {NoTags, run[r].fetched},
           KnowsNpm(r)'
    PROVE  RunsKnow'
<1>1. KnowsTags(r)'
  BY MovedKnowsTags DEF RunsKnow, RunKnows
<1>2. ASSUME NEW s \in Runs, s # r
      PROVE  RunKnows(s)'
  <2>1. run'[s] = run[s]
    BY <1>2 DEF Moved
  <2> QED
    BY <2>1, OthersKnow DEF RunsKnow
<1> QED
  BY <1>1, <1>2 DEF RunsKnow, RunKnows

-----------------------------------------------------------------------------
(* Every step keeps the invariant and settles nothing anew.                *)

StepOK == IInv' /\ Settled

\* A step that only moves the runs.
LEMMA OnlyRuns ==
    ASSUME TypeOK, TagsAgree, UNCHANGED <<main, tags, npm>>, run' \in [Runs -> RunType]
    PROVE  TypeOK' /\ TagsAgree' /\ Settled
<1>1. TypeOK'
  BY DEF TypeOK
<1>2. TagsAgree'
  BY DEF TagsAgree
<1>3. Settled
  BY DEF Settled
<1> QED
  BY <1>1, <1>2, <1>3

\* A new run knows nothing yet but the tag that started it (Dispatch, the
\* orchestrator's push, a re-run).
LEMMA StartKnows ==
    ASSUME TypeOK, RunsKnow, Settled, NEW r \in Runs,
           NEW event \in {"dispatch", "push"}, NEW go \in BOOLEAN, NEW sha \in Commits,
           run' = [run EXCEPT ![r] = NewRun(event, go, sha)],
           event = "push" => tags'["ts"][VersionAt[sha]] = sha
    PROVE  RunsKnow' /\ run' \in [Runs -> RunType]
<1>1. NewRun(event, go, sha) \in RunType
  BY DEF NewRun, RunType, NoTags, Steps
<1>2. run \in [Runs -> RunType]
  BY DEF TypeOK
<1>3. run' \in [Runs -> RunType] /\ run'[r] = NewRun(event, go, sha)
  BY <1>1, <1>2
<1>4. ASSUME NEW s \in Runs, s # r
      PROVE  RunKnows(s)'
  <2>1. run'[s] = run[s]
    BY <1>2, <1>4
  <2> QED
    BY <2>1, OthersKnow DEF RunsKnow
<1>5. RunKnows(r)'
  BY <1>3 DEF RunKnows, KnowsTags, KnowsNpm, NewRun, NoTags, Version
<1> QED
  BY <1>3, <1>4, <1>5 DEF RunsKnow

\* A pull request is merged.
LEMMA CommitKeeps ==
    ASSUME IInv, Commit
    PROVE  StepOK
<1>1. main' \in Commits
  BY ReleaseAssumption DEF IInv, TypeOK, Commit, Commits
<1>2. TypeOK'
  BY <1>1 DEF IInv, TypeOK, Commit
<1>3. Settled
  BY DEF Commit, Settled
<1>4. TagsAgree'
  BY DEF IInv, TagsAgree, Commit
<1>5. RunsKnow'
  BY <1>3, OthersKnow DEF IInv, RunsKnow, Commit
<1> QED
  BY <1>2, <1>3, <1>4, <1>5 DEF StepOK, IInv

\* A maintainer dispatches the workflow.
LEMMA DispatchKeeps ==
    ASSUME IInv, NEW r \in Runs, NEW go \in BOOLEAN, Dispatch(r, go)
    PROVE  StepOK
<1>1. TypeOK /\ TagsAgree /\ RunsKnow /\ main \in Commits
  BY DEF IInv, TypeOK
<1>2. UNCHANGED <<main, tags, npm>> /\ run' = [run EXCEPT ![r] = NewRun("dispatch", go, main)]
  BY DEF Dispatch
<1>3. Settled
  BY <1>2 DEF Settled
<1>4. RunsKnow' /\ run' \in [Runs -> RunType]
  BY <1>1, <1>2, <1>3, StartKnows
<1> QED
  BY <1>1, <1>2, <1>4, OnlyRuns DEF StepOK, IInv

\* A failed run is started again.
LEMMA RerunKeeps ==
    ASSUME IInv, NEW r \in Runs, Rerun(r)
    PROVE  StepOK
<1>1. TypeOK /\ TagsAgree /\ RunsKnow /\ run \in [Runs -> RunType]
  BY DEF IInv, TypeOK
<1>2. /\ UNCHANGED <<main, tags, npm>>
      /\ run' = [run EXCEPT ![r] = NewRun(run[r].event, run[r].go, run[r].sha)]
  BY DEF Rerun
<1>3. Settled
  BY <1>2 DEF Settled
<1>4. run[r].event \in {"dispatch", "push"} /\ run[r].go \in BOOLEAN /\ run[r].sha \in Commits
  <2>1. run[r] \in RunType
    BY <1>1
  <2> QED
    BY <2>1 DEF RunType
<1>5. run[r].event = "push" => tags'["ts"][VersionAt[run[r].sha]] = run[r].sha
  BY <1>1, <1>2 DEF RunsKnow, RunKnows, KnowsTags, Version
<1>6. RunsKnow' /\ run' \in [Runs -> RunType]
  BY <1>1, <1>2, <1>3, <1>4, <1>5, StartKnows
<1> QED
  BY <1>1, <1>2, <1>6, OnlyRuns DEF StepOK, IInv

\* The orchestrator pushes the tags of main's version, where there is none.
LEMMA OrchestratorPushKeeps ==
    ASSUME IInv, NEW r \in Runs, NEW kinds \in SUBSET Kinds, OrchestratorPush(r, kinds)
    PROVE  StepOK
<1> DEFINE v == VersionAt[main]
<1>1. TypeOK /\ TagsAgree /\ RunsKnow /\ main \in Commits /\ v \in Versions
  BY DEF IInv, TypeOK, Versions
<1>2. /\ "ts" \in kinds /\ main' = main /\ npm' = npm
      /\ \A k \in kinds : tags[k][v] = NoCommit
      /\ tags' = [k \in Kinds |-> IF k \in kinds THEN [tags[k] EXCEPT ![v] = main] ELSE tags[k]]
      /\ run' = [run EXCEPT ![r] = NewRun("push", FALSE, main)]
  BY DEF OrchestratorPush
<1>3. /\ tags \in [Kinds -> [Versions -> Commits \cup {NoCommit}]]
      /\ npm \in [Versions -> Commits \cup {NoCommit}]
  BY <1>1 DEF TypeOK
<1>4. ASSUME NEW k \in Kinds, NEW w \in Versions
      PROVE  tags'[k][w] = IF k \in kinds /\ w = v THEN main ELSE tags[k][w]
  BY <1>2, <1>3
<1>5. tags' \in [Kinds -> [Versions -> Commits \cup {NoCommit}]]
  BY <1>1, <1>2, <1>3
<1>6. Settled
  BY <1>2, <1>4 DEF Settled
<1>7. RunsKnow' /\ run' \in [Runs -> RunType]
  <2>1. tags'["ts"][VersionAt[main]] = main
    BY <1>1, <1>2, <1>4 DEF Kinds
  <2> QED
    BY <1>1, <1>2, <1>6, <2>1, StartKnows
<1>8. TypeOK'
  <2>1. ASSUME NEW w \in Versions, NEW c \in {tags'["ts"][w], tags'["go"][w], npm'[w]}, c # NoCommit
        PROVE  VersionAt[c] = w
    BY <1>1, <1>2, <1>4, <2>1 DEF TypeOK, Kinds
  <2> QED
    BY <1>1, <1>2, <1>3, <1>5, <1>7, <2>1 DEF TypeOK
<1>9. TagsAgree'
  BY <1>1, <1>2, <1>4 DEF TagsAgree, Kinds
<1> QED
  BY <1>6, <1>7, <1>8, <1>9 DEF StepOK, IInv

\* A run moves on and the remote and npm stay as they are.
LEMMA AdvanceKeeps ==
    ASSUME IInv, NEW r \in Runs, NEW from, NEW to \in Steps, Advance(r, from, to),
           UNCHANGED <<main, tags, npm>>,
           to \in {"view", "publish"} =>
              run[r].fetched["ts"] \in {NoCommit, run[r].sha} \/ npm[Version(r)] # NoCommit,
           to = "tag" => run[r].event = "dispatch" /\ npm[Version(r)] # NoCommit
    PROVE  StepOK
<1>1. TypeOK /\ TagsAgree /\ RunsKnow
  BY DEF IInv
<1>2. /\ Moved(r, to)
      /\ run'[r].fetched = IF to \in Resting THEN NoTags ELSE run[r].fetched
  BY <1>1, AdvanceMoves
<1>3. TypeOK' /\ TagsAgree' /\ Settled
  BY <1>1, <1>2, OnlyRuns DEF Moved
<1>4. KnowsNpm(r)'
  BY <1>2 DEF KnowsNpm, Moved, Version, Resting
<1>5. RunsKnow'
  BY <1>1, <1>2, <1>3, <1>4, AllKnow
<1> QED
  BY <1>3, <1>5 DEF StepOK, IInv

\* The checkout brings the tags of the remote.
LEMMA CheckoutKeeps ==
    ASSUME IInv, NEW r \in Runs, Checkout(r)
    PROVE  StepOK
<1> DEFINE to == IF run[r].event = "push" THEN "view" ELSE "decide"
           f == [k \in Kinds |-> tags[k][Version(r)]]
<1>1. TypeOK /\ TagsAgree /\ RunsKnow /\ run \in [Runs -> RunType] /\ run[r] \in RunType
  BY DEF IInv, TypeOK
<1>2. UNCHANGED <<main, tags, npm>> /\ run' = [run EXCEPT ![r].step = to, ![r].fetched = f]
  BY DEF Checkout
<1>3. Version(r) \in Versions
  BY <1>1, RunVersion
<1>4. f \in [Kinds -> Commits \cup {NoCommit}] /\ to \in Steps
  BY <1>1, <1>3 DEF TypeOK, Steps
<1> HIDE DEF f
<1>5. run'[r] = [run[r] EXCEPT !.step = to, !.fetched = f] /\ \A s \in Runs \ {r} : run'[s] = run[s]
  BY <1>1, <1>2
<1>6. run'[r] \in RunType
  BY <1>1, <1>4, <1>5 DEF RunType
<1>7. run' \in [Runs -> RunType]
  BY <1>1, <1>2, <1>5, <1>6
<1>8. TypeOK' /\ TagsAgree' /\ Settled
  BY <1>1, <1>2, <1>7, OnlyRuns
<1>9. RunsKnow'
  <2>1. ASSUME NEW s \in Runs, s # r
        PROVE  RunKnows(s)'
    BY <1>1, <1>5, <1>8, <2>1, OthersKnow DEF RunsKnow
  <2>2. /\ run'[r].step = to /\ run'[r].fetched = f
        /\ run'[r].sha = run[r].sha /\ run'[r].event = run[r].event /\ Version(r)' = Version(r)
    BY <1>1, <1>5 DEF RunType, Version
  <2>3. \A k \in Kinds : f[k] = tags[k][Version(r)]
    BY DEF f
  <2>4. run[r].event = "push" => tags["ts"][Version(r)] = run[r].sha
    BY <1>1 DEF RunsKnow, RunKnows, KnowsTags
  <2>5. KnowsTags(r)'
    BY <1>2, <2>2, <2>3, <2>4 DEF KnowsTags
  <2>6. KnowsNpm(r)'
    BY <1>2, <2>2, <2>3, <2>4 DEF KnowsNpm, Kinds
  <2> QED
    BY <2>1, <2>5, <2>6 DEF RunsKnow, RunKnows
<1> QED
  BY <1>8, <1>9 DEF StepOK, IInv

\* The tags a run has of its checkout anchor it: a ts tag it has is where it
\* anchors (Decide).
LEMMA AnchorFacts ==
    ASSUME NEW r \in Runs
    PROVE  /\ run[r].fetched["ts"] # NoCommit => Anchor(r) = run[r].fetched["ts"]
           /\ Missing(r) \subseteq Kinds
           /\ \A k \in Missing(r) : run[r].fetched[k] = NoCommit
<1>1. "ts" \in Wanted(r) /\ Wanted(r) \subseteq Kinds
  BY DEF Wanted, Kinds
<1>2. run[r].fetched["ts"] # NoCommit => "ts" \in Present(r)
  BY <1>1 DEF Present, Missing
<1> QED
  BY <1>1, <1>2 DEF Anchor, Missing

\* The guard against a bump forgotten and a repair that would ship HEAD.
LEMMA DecideKeeps ==
    ASSUME IInv, NEW r \in Runs, Decide(r)
    PROVE  StepOK
<1>1. CASE Refused(r)
  <2>1. Advance(r, "decide", "failed") /\ UNCHANGED <<main, tags, npm>>
    BY <1>1 DEF Decide
  <2> QED
    BY <2>1, AdvanceKeeps DEF Steps, Resting
<1>2. CASE ~Refused(r)
  <2>1. Advance(r, "decide", "view") /\ UNCHANGED <<main, tags, npm>>
    BY <1>2 DEF Decide
  <2>2. run[r].fetched["ts"] \in {NoCommit, run[r].sha} \/ npm[Version(r)] # NoCommit
    BY <1>2, AnchorFacts DEF Refused
  <2> QED
    BY <2>1, <2>2, AdvanceKeeps DEF Steps
<1> QED
  BY <1>1, <1>2

\* What the registry says before a publish.
LEMMA ViewKeeps ==
    ASSUME IInv, NEW r \in Runs, View(r)
    PROVE  StepOK
<1>1. run[r].step = "view" /\ UNCHANGED <<main, tags, npm>> /\ run[r] \in RunType
  BY DEF View, Advance, IInv, TypeOK
<1>2. run[r].fetched["ts"] \in {NoCommit, run[r].sha} \/ npm[Version(r)] # NoCommit
  BY <1>1 DEF IInv, RunsKnow, RunKnows, KnowsNpm
<1>3. CASE npm[Version(r)] = NoCommit
  <2>1. Advance(r, "view", "publish")
    BY <1>3 DEF View
  <2> QED
    BY <1>1, <1>2, <2>1, AdvanceKeeps DEF Steps
<1>4. CASE npm[Version(r)] # NoCommit
  <2>1. Advance(r, "view", AfterPublish(r))
    BY <1>4 DEF View
  <2>2. AfterPublish(r) \in Steps
    BY DEF AfterPublish, Steps
  <2>3. AfterPublish(r) \in {"tag", "hand"}
    BY DEF AfterPublish
  <2>4. AfterPublish(r) = "tag" => run[r].event = "dispatch"
    BY <1>1 DEF AfterPublish, RunType
  <2> QED
    BY <1>1, <1>4, <2>1, <2>2, <2>3, <2>4, AdvanceKeeps
<1> QED
  BY <1>3, <1>4

\* Any step may fail.
LEMMA FailKeeps ==
    ASSUME IInv, NEW r \in Runs, Fail(r)
    PROVE  StepOK
<1>1. Advance(r, run[r].step, "failed") /\ UNCHANGED <<main, tags, npm>>
  BY DEF Fail
<1> QED
  BY <1>1, AdvanceKeeps DEF Steps, Resting

\* The Go tag is handed on.
LEMMA HandKeeps ==
    ASSUME IInv, NEW r \in Runs, Hand(r)
    PROVE  StepOK
<1> DEFINE h == tags["go"][Version(r)] # NoCommit
<1>1. TypeOK /\ TagsAgree /\ RunsKnow /\ run \in [Runs -> RunType] /\ run[r] \in RunType
  BY DEF IInv, TypeOK
<1>2. /\ UNCHANGED <<main, tags, npm>>
      /\ run' = [run EXCEPT ![r].step = "done", ![r].fetched = NoTags, ![r].handed = h]
  BY DEF Hand
<1>3. h \in BOOLEAN /\ NoTags \in [Kinds -> Commits \cup {NoCommit}]
  BY DEF NoTags
<1> HIDE DEF h
<1>4. /\ run'[r] = [run[r] EXCEPT !.step = "done", !.fetched = NoTags, !.handed = h]
      /\ \A s \in Runs \ {r} : run'[s] = run[s]
  BY <1>1, <1>2
<1>5. run'[r] \in RunType
  BY <1>1, <1>3, <1>4 DEF RunType, Steps, Resting
<1>6. run' \in [Runs -> RunType]
  BY <1>1, <1>2, <1>4, <1>5
<1>7. Moved(r, "done") /\ run'[r].fetched = NoTags
  BY <1>1, <1>4, <1>6 DEF Moved, RunType
<1>8. TypeOK' /\ TagsAgree' /\ Settled
  BY <1>1, <1>2, <1>6, OnlyRuns
<1>9. KnowsNpm(r)'
  BY <1>7 DEF KnowsNpm, Moved
<1>10. RunsKnow'
  BY <1>1, <1>7, <1>8, <1>9, AllKnow
<1> QED
  BY <1>8, <1>10 DEF StepOK, IInv

\* npm takes the version, or has it from another run.
LEMMA PublishKeeps ==
    ASSUME IInv, NEW r \in Runs, Publish(r)
    PROVE  StepOK
<1> DEFINE v == Version(r)
<1>1. TypeOK /\ TagsAgree /\ RunsKnow /\ v \in Versions /\ run[r].sha \in Commits /\ run[r] \in RunType
  BY RunVersion DEF IInv
<1>2. CASE npm[v] # NoCommit
  <2>1. Advance(r, "publish", "failed") /\ UNCHANGED <<main, tags, npm>>
    BY <1>2 DEF Publish
  <2> QED
    BY <2>1, AdvanceKeeps DEF Steps, Resting
<1>3. CASE npm[v] = NoCommit
  <2>1. /\ UNCHANGED <<main, tags>> /\ npm' = [npm EXCEPT ![v] = run[r].sha]
        /\ Advance(r, "publish", AfterPublish(r))
    BY <1>3 DEF Publish
  <2>2. /\ AfterPublish(r) \in Steps /\ AfterPublish(r) \in {"tag", "hand"}
        /\ AfterPublish(r) = "tag" => run[r].event = "dispatch"
    BY <1>1 DEF AfterPublish, Steps, RunType
  <2>3. Moved(r, AfterPublish(r)) /\ run'[r].fetched \in {NoTags, run[r].fetched}
    BY <1>1, <2>1, <2>2, AdvanceMoves
  <2>4. /\ npm' \in [Versions -> Commits \cup {NoCommit}]
        /\ \A w \in Versions : npm'[w] = IF w = v THEN run[r].sha ELSE npm[w]
    BY <1>1, <2>1 DEF TypeOK
  <2>5. Settled
    BY <1>3, <2>1, <2>4 DEF Settled
  <2>6. VersionAt[run[r].sha] = v /\ NoCommit \notin Commits
    BY DEF Version, NoCommit, Commits
  <2>7. TypeOK'
    <3>1. run' \in [Runs -> RunType]
      BY <2>3 DEF Moved
    <3>2. \A w \in Versions : npm'[w] # NoCommit => VersionAt[npm'[w]] = w
      BY <1>1, <2>4, <2>6 DEF TypeOK
    <3> QED
      BY <1>1, <2>1, <2>4, <3>1, <3>2 DEF TypeOK
  <2>8. TagsAgree'
    BY <1>1, <2>1 DEF TagsAgree
  <2>9. KnowsNpm(r)'
    <3>1. Version(r)' = v /\ run'[r].step \in {"tag", "hand"}
      BY <2>2, <2>3 DEF Moved, Version
    <3>2. npm'[v] # NoCommit
      BY <1>1, <2>4, <2>6
    <3> QED
      BY <2>2, <2>3, <3>1, <3>2 DEF KnowsNpm, Moved
  <2>10. RunsKnow'
    BY <1>1, <2>3, <2>5, <2>9, AllKnow
  <2> QED
    BY <2>5, <2>7, <2>8, <2>10 DEF StepOK, IInv
<1> QED
  BY <1>2, <1>3

\* What the atomic push makes of the tags: those the run has to create name
\* its anchor, a commit of its version.
LEMMA PushFacts ==
    ASSUME IInv, NEW r \in Runs, Pushable(r), tags' = Tagged(r)
    PROVE  /\ tags' \in [Kinds -> [Versions -> Commits \cup {NoCommit}]]
           /\ Anchor(r) \in Commits /\ VersionAt[Anchor(r)] = Version(r)
           /\ \A k \in Kinds, v \in Versions :
                 tags'[k][v] = IF k \in Missing(r) /\ v = Version(r) THEN Anchor(r) ELSE tags[k][v]
<1>1. /\ TypeOK /\ TagsAgree /\ RunKnows(r) /\ Version(r) \in Versions
      /\ run[r].sha \in Commits /\ run[r] \in RunType
  BY RunVersion DEF IInv, RunsKnow
<1>2. tags \in [Kinds -> [Versions -> Commits \cup {NoCommit}]]
  BY <1>1 DEF TypeOK
<1>3. Anchor(r) \in Commits /\ VersionAt[Anchor(r)] = Version(r)
  <2>1. CASE Present(r) = {}
    BY <1>1, <2>1 DEF Anchor, Version
  <2>2. CASE Present(r) # {}
    <3>1. PICK k \in Kinds : k \in Present(r) /\ Anchor(r) = run[r].fetched[k]
      <4>1. Present(r) \subseteq {"ts", "go"}
        BY DEF Present, Wanted, Kinds
      <4> QED
        BY <2>2, <4>1 DEF Anchor, Kinds
    <3>2. run[r].fetched[k] # NoCommit
      BY <3>1 DEF Present, Missing
    <3>3. run[r].fetched[k] = tags[k][Version(r)]
      BY <1>1, <3>2 DEF RunKnows, KnowsTags
    <3>4. tags[k][Version(r)] \in Commits
      BY <1>1, <1>2, <3>2, <3>3
    <3> QED
      BY <1>1, <3>1, <3>2, <3>3, <3>4 DEF TypeOK, Kinds
  <2> QED
    BY <2>1, <2>2
<1>4. ASSUME NEW k \in Kinds, NEW v \in Versions
      PROVE  tags'[k][v] = IF k \in Missing(r) /\ v = Version(r) THEN Anchor(r) ELSE tags[k][v]
  <2>1. tags'[k] = IF k \in Missing(r) THEN [tags[k] EXCEPT ![Version(r)] = Anchor(r)] ELSE tags[k]
    BY DEF Tagged
  <2> QED
    BY <1>1, <1>2, <2>1
<1>5. tags' \in [Kinds -> [Versions -> Commits \cup {NoCommit}]]
  <2>1. ASSUME NEW k \in Kinds
        PROVE  [tags[k] EXCEPT ![Version(r)] = Anchor(r)] \in [Versions -> Commits \cup {NoCommit}]
    BY <1>1, <1>2, <1>3
  <2> QED
    BY <1>2, <2>1 DEF Tagged
<1> QED
  BY <1>3, <1>4, <1>5

\* The two tags agree after the push: the run anchors to the tag it has, and
\* a tag it does not know of is refused or names its anchor.
LEMMA TagsStillAgree ==
    ASSUME IInv, NEW r \in Runs, Pushable(r), tags' = Tagged(r)
    PROVE  TagsAgree'
<1>1. TagsAgree /\ RunKnows(r) /\ Version(r) \in Versions
  BY RunVersion DEF IInv, RunsKnow
<1>2. SUFFICES ASSUME NEW v \in Versions, tags'["go"][v] # NoCommit
               PROVE  tags'["go"][v] = tags'["ts"][v]
  BY DEF TagsAgree
<1>3. "ts" \in Kinds /\ "go" \in Kinds
  BY DEF Kinds
<1>4. \A k \in Kinds :
         tags'[k][v] = IF k \in Missing(r) /\ v = Version(r) THEN Anchor(r) ELSE tags[k][v]
  BY PushFacts
<1>5. CASE v # Version(r)
  BY <1>1, <1>2, <1>3, <1>4, <1>5 DEF TagsAgree
<1>6. CASE v = Version(r)
  <2>1. "ts" \in Missing(r) \/ run[r].fetched["ts"] # NoCommit
    BY DEF Missing, Wanted, Kinds
  <2>2. CASE "ts" \notin Missing(r)
    <3>1. tags["ts"][v] = Anchor(r) /\ tags'["ts"][v] = Anchor(r)
      BY <1>1, <1>3, <1>4, <1>6, <2>1, <2>2, AnchorFacts DEF RunKnows, KnowsTags
    <3>2. CASE "go" \in Missing(r)
      BY <1>3, <1>4, <1>6, <3>1, <3>2
    <3>3. CASE "go" \notin Missing(r)
      BY <1>1, <1>2, <1>3, <1>4, <3>1, <3>3 DEF TagsAgree
    <3> QED
      BY <3>2, <3>3
  <2>3. CASE "ts" \in Missing(r)
    <3>1. tags'["ts"][v] = Anchor(r) /\ tags["ts"][v] \in {NoCommit, Anchor(r)}
      BY <1>3, <1>4, <1>6, <2>3 DEF Pushable
    <3>2. CASE "go" \in Missing(r)
      BY <1>3, <1>4, <1>6, <3>1, <3>2
    <3>3. CASE "go" \notin Missing(r)
      BY <1>1, <1>2, <1>3, <1>4, <3>1, <3>3 DEF TagsAgree
    <3> QED
      BY <3>2, <3>3
  <2> QED
    BY <2>2, <2>3
<1> QED
  BY <1>5, <1>6

\* The atomic push of a run's tags.
LEMMA TagKeeps ==
    ASSUME IInv, NEW r \in Runs, Tag(r)
    PROVE  StepOK
<1>1. TypeOK /\ TagsAgree /\ RunsKnow /\ Version(r) \in Versions
  BY RunVersion DEF IInv
<1>2. CASE ~Pushable(r)
  <2>1. Advance(r, "tag", "failed") /\ UNCHANGED <<main, tags, npm>>
    BY <1>2 DEF Tag
  <2> QED
    BY <2>1, AdvanceKeeps DEF Steps, Resting
<1>3. CASE Pushable(r)
  <2>1. UNCHANGED <<main, npm>> /\ tags' = Tagged(r) /\ Advance(r, "tag", "hand")
    BY <1>3 DEF Tag
  <2>2. Moved(r, "hand") /\ run'[r].fetched \in {NoTags, run[r].fetched}
    <3>1. "hand" \in Steps
      BY DEF Steps
    <3> QED
      BY <1>1, <2>1, <3>1, AdvanceMoves
  <2>3. /\ tags' \in [Kinds -> [Versions -> Commits \cup {NoCommit}]]
        /\ VersionAt[Anchor(r)] = Version(r)
        /\ \A k \in Kinds, v \in Versions :
              tags'[k][v] = IF k \in Missing(r) /\ v = Version(r) THEN Anchor(r) ELSE tags[k][v]
    BY <1>3, <2>1, PushFacts
  <2>4. Settled
    <3>1. ASSUME NEW k \in Kinds, NEW v \in Versions
          PROVE  tags[k][v] \in {NoCommit, tags'[k][v]}
      BY <1>3, <2>3 DEF Pushable
    <3> QED
      BY <2>1, <3>1 DEF Settled
  <2>5. TypeOK'
    <3>1. run' \in [Runs -> RunType]
      BY <2>2 DEF Moved
    <3>2. ASSUME NEW v \in Versions, NEW k \in Kinds, tags'[k][v] # NoCommit
          PROVE  VersionAt[tags'[k][v]] = v
      BY <1>1, <2>3, <3>2 DEF TypeOK, Kinds
    <3>3. \A v \in Versions : \A c \in {tags'["ts"][v], tags'["go"][v], npm'[v]} :
             c # NoCommit => VersionAt[c] = v
      BY <1>1, <2>1, <3>2 DEF TypeOK, Kinds
    <3> QED
      BY <1>1, <2>1, <2>3, <3>1, <3>3 DEF TypeOK
  <2>6. TagsAgree'
    BY <1>3, <2>1, TagsStillAgree
  <2>7. KnowsNpm(r)'
    BY <2>2 DEF KnowsNpm, Moved
  <2>8. RunsKnow'
    BY <1>1, <2>2, <2>4, <2>7, AllKnow
  <2> QED
    BY <2>4, <2>5, <2>6, <2>8 DEF StepOK, IInv
<1> QED
  BY <1>2, <1>3

\* A step that changes nothing the invariant speaks of.
LEMMA StutterKeeps ==
    ASSUME IInv, UNCHANGED vars
    PROVE  StepOK
<1>1. TypeOK' /\ TagsAgree' /\ Settled
  BY OnlyRuns DEF IInv, TypeOK, vars
<1>2. RunsKnow'
  BY <1>1, OthersKnow DEF IInv, RunsKnow, vars
<1> QED
  BY <1>1, <1>2 DEF StepOK, IInv

\* Every step of the release.
LEMMA NextKeeps ==
    ASSUME IInv, [Next]_vars
    PROVE  StepOK
<1>1. CASE Commit
  BY <1>1, CommitKeeps
<1>2. ASSUME NEW r \in Runs, Start(r)
      PROVE  StepOK
  BY <1>2, DispatchKeeps, OrchestratorPushKeeps, RerunKeeps DEF Start
<1>3. ASSUME NEW r \in Runs, Work(r)
      PROVE  StepOK
  BY <1>3, CheckoutKeeps, DecideKeeps, ViewKeeps, PublishKeeps, TagKeeps, HandKeeps DEF Work
<1>4. ASSUME NEW r \in Runs, Fail(r)
      PROVE  StepOK
  BY <1>4, FailKeeps
<1>5. CASE UNCHANGED vars
  BY <1>5, StutterKeeps
<1> QED
  BY <1>1, <1>2, <1>3, <1>4, <1>5 DEF Next

\* At first there is no tag and nothing on npm.
LEMMA InitIInv == Init => IInv
<1> SUFFICES ASSUME Init PROVE IInv
  OBVIOUS
<1>1. 1 \in Commits
  BY ReleaseAssumption DEF Commits
<1>2. [NewRun("dispatch", TRUE, 1) EXCEPT !.step = "idle"] \in RunType
  BY <1>1 DEF NewRun, RunType, NoTags, Steps, Resting
<1>3. TypeOK
  <2>1. \A v \in Versions : tags["ts"][v] = NoCommit /\ tags["go"][v] = NoCommit /\ npm[v] = NoCommit
    BY DEF Init, Kinds
  <2>2. /\ tags \in [Kinds -> [Versions -> Commits \cup {NoCommit}]]
        /\ npm \in [Versions -> Commits \cup {NoCommit}] /\ main \in Commits
    BY <1>1 DEF Init
  <2>3. run \in [Runs -> RunType]
    BY <1>2 DEF Init
  <2> QED
    BY <2>1, <2>2, <2>3 DEF TypeOK
<1>4. TagsAgree
  BY DEF Init, TagsAgree, Kinds
<1>5. RunsKnow
  BY DEF Init, RunsKnow, RunKnows, KnowsTags, KnowsNpm, NewRun, NoTags
<1> QED
  BY <1>3, <1>4, <1>5 DEF IInv

-----------------------------------------------------------------------------
(* The theorems.                                                           *)

\* The invariant holds of every behaviour of release.yml.
THEOREM Inductive == Spec => []IInv
<1>1. IInv /\ [Next]_vars => IInv'
  BY NextKeeps DEF StepOK
<1> QED
  BY InitIInv, <1>1, PTL DEF Spec

\* Type correctness, and every artifact of a version comes from a commit that
\* has that version in ts/package.json.
THEOREM TypeCorrect == Spec => []TypeOK
<1>1. IInv => TypeOK
  BY DEF IInv
<1> QED
  BY Inductive, <1>1, PTL

\* The ts and the Go tag of a version never name different commits, however
\* many runs overlap and whichever step any of them dies at.
THEOREM TagsNeverPart == Spec => []TagsAgree
<1>1. IInv => TagsAgree
  BY DEF IInv
<1> QED
  BY Inductive, <1>1, PTL

\* A tag is written only by the orchestrator or for a version on npm, and a
\* run that knows a ts tag publishes only what it names.
TagStep ==
    \A v \in Versions, k \in Kinds :
        tags'[k][v] # tags[k][v] =>
            npm[v] # NoCommit \/ \E r \in Runs : run'[r].event = "push" /\ run'[r].step = "checkout"

LEMMA TagSteps ==
    ASSUME IInv, [Next]_vars
    PROVE  TagStep
<1>1. run \in [Runs -> RunType]
  BY DEF IInv, TypeOK
<1>2. CASE tags' = tags
  BY <1>2 DEF TagStep
<1>3. ASSUME NEW r \in Runs, NEW kinds \in SUBSET Kinds, OrchestratorPush(r, kinds)
      PROVE  TagStep
  <2>1. run'[r] = NewRun("push", FALSE, main)
    BY <1>1, <1>3 DEF OrchestratorPush
  <2> QED
    BY <2>1 DEF TagStep, NewRun
<1>4. ASSUME NEW r \in Runs, Tag(r)
      PROVE  TagStep
  <2>1. CASE ~Pushable(r)
    BY <1>4, <2>1 DEF Tag, TagStep
  <2>2. CASE Pushable(r)
    <3>1. tags' = Tagged(r) /\ run[r].step = "tag"
      BY <1>4, <2>2 DEF Tag, Advance
    <3>2. npm[Version(r)] # NoCommit
      BY <3>1 DEF IInv, RunsKnow, RunKnows, KnowsNpm
    <3>3. \A v \in Versions, k \in Kinds : v # Version(r) => tags'[k][v] = tags[k][v]
      BY <2>2, <3>1, PushFacts
    <3> QED
      BY <3>2, <3>3 DEF TagStep
  <2> QED
    BY <2>1, <2>2
<1> QED
  BY <1>2, <1>3, <1>4 DEF Next, Start, Work, Fail, Commit, Dispatch, Rerun, Checkout, Decide,
     View, Publish, Hand, vars

\* "A tag only ever exists for a release that reached the registry", for the
\* tags the workflow itself writes.
THEOREM TagsFollowNpm == Spec => TagAfterPublish
<1>1. IInv /\ [Next]_vars => [TagStep]_vars
  BY TagSteps
<1>2. Spec => [][TagStep]_vars
  BY Inductive, <1>1, PTL DEF Spec
<1> QED
  BY <1>2 DEF TagAfterPublish, TagStep

RepairStep ==
    \A r \in Runs : npm'[Version(r)] # npm[Version(r)] /\ run[r].step = "publish" /\ run'[r].step # "publish" =>
        run[r].fetched["ts"] \in {NoCommit, npm'[Version(r)]}

\* The run that publishes is the one that leaves the step, and it finds
\* nothing on npm, so that what it fetched is what it ships (KnowsNpm).
LEMMA RepairSteps ==
    ASSUME IInv, [Next]_vars
    PROVE  RepairStep
<1>1. CASE npm' = npm
  BY <1>1 DEF RepairStep
<1>2. ASSUME NEW r \in Runs, Publish(r), npm' # npm
      PROVE  RepairStep
  <2>1. npm[Version(r)] = NoCommit /\ npm' = [npm EXCEPT ![Version(r)] = run[r].sha] /\ run[r].step = "publish"
    BY <1>2 DEF Publish, Advance
  <2>2. npm'[Version(r)] = run[r].sha
    BY <2>1, RunVersion DEF IInv, TypeOK
  <2>3. run[r].fetched["ts"] \in {NoCommit, run[r].sha}
    BY <2>1 DEF IInv, RunsKnow, RunKnows, KnowsNpm
  <2>4. \A s \in Runs \ {r} : run'[s] = run[s]
    BY <1>2 DEF Publish, Advance, IInv, TypeOK
  <2> QED
    BY <2>2, <2>3, <2>4 DEF RepairStep
<1> QED
  BY <1>1, <1>2 DEF Next, Start, Work, Fail, Commit, Dispatch, OrchestratorPush, Rerun, Checkout,
     Decide, View, Tag, Hand, vars

\* A repair never ships a second commit beside the tags, however many runs
\* overlap: "publishing would ship HEAD while the tags name an older commit"
\* (release.yml, Decide).
THEOREM RepairsShipTheTag == Spec => RepairShipsTheTag
<1>1. IInv /\ [Next]_vars => [RepairStep]_vars
  BY RepairSteps
<1>2. Spec => [][RepairStep]_vars
  BY Inductive, <1>1, PTL DEF Spec
<1> QED
  BY <1>2 DEF RepairShipsTheTag, RepairStep

-----------------------------------------------------------------------------
(* The jobs that follow.                                                   *)

\* A crate about to be published is from the commit of the ts tag, and a job
\* of the C release has a Release once that is ensured.
JobKnows(j) ==
    /\ job[j].step \in {"crate decide", "crate publish"} =>
          job[j].source # NoCommit /\ job[j].source = tags["ts"][job[j].version]
    /\ job[j].step \in {"artifacts", "clib publish"} => release[NameOf(j)] # "none"

JobsTyped ==
    /\ crate \in [Versions -> Commits \cup {NoCommit}]
    /\ release \in [TagNames -> Releases]
    /\ manifest \subseteq TagNames
    /\ byHand \subseteq TagNames
    /\ job \in [Jobs -> JobType]

JobsInv ==
    /\ JobsTyped
    /\ \A j \in Jobs : JobKnows(j)
    /\ \A v \in Versions : crate[v] # NoCommit => crate[v] = tags["ts"][v]
    /\ PublicReleaseWhole

\* A tag's name is its kind and its version.
LEMMA Names == ASSUME NEW k \in Kinds, NEW v \in Versions PROVE <<k, v>> \in TagNames
  BY DEF TagNames

\* Where the two tags agree and never move, a tag of either kind is the ts
\* tag for good.
LEMMA TagIsTheTsTag ==
    ASSUME IInv, Settled, NEW v \in Versions
    PROVE  /\ \A k \in Kinds : tags[k][v] # NoCommit => tags["ts"][v] = tags[k][v]
           /\ tags["ts"][v] # NoCommit => tags'["ts"][v] = tags["ts"][v]
           /\ \A k \in Kinds : tags[k][v] # NoCommit => tags'[k][v] # NoCommit
  BY DEF IInv, TagsAgree, Settled, Kinds

\* A step of the release leaves what the jobs know true.
LEMMA ReleaseKeepsJobs ==
    ASSUME IInv, JobsInv, [Next]_vars, UNCHANGED jobVars
    PROVE  JobsInv'
<1>1. Settled
  BY NextKeeps DEF StepOK
<1>2. JobsTyped'
  BY DEF JobsInv, JobsTyped, jobVars
<1>3. ASSUME NEW j \in Jobs
      PROVE  JobKnows(j)'
  <2>1. job[j].version \in Versions
    BY DEF JobsInv, JobsTyped, JobType
  <2> QED
    BY <1>1, <2>1, TagIsTheTsTag DEF JobsInv, JobKnows, NameOf, jobVars
<1>4. ASSUME NEW v \in Versions, crate'[v] # NoCommit
      PROVE  crate'[v] = tags'["ts"][v]
  BY <1>1, <1>4, TagIsTheTsTag DEF JobsInv, jobVars
<1>5. PublicReleaseWhole'
  BY <1>1, TagIsTheTsTag DEF JobsInv, PublicReleaseWhole, jobVars
<1> QED
  BY <1>2, <1>3, <1>4, <1>5 DEF JobsInv

\* Releases once made are never unmade.
ReleasesStay ==
    \A k \in Kinds, v \in Versions : release[<<k, v>>] # "none" => release'[<<k, v>>] # "none"

\* A job's record changes and the tags do not.
LEMMA OneJob ==
    ASSUME JobsInv, UNCHANGED tags, ReleasesStay, NEW j \in Jobs, NEW n \in JobType,
           job' = [job EXCEPT ![j] = n],
           n.step \in {"crate decide", "crate publish"} =>
              n.source # NoCommit /\ n.source = tags["ts"][n.version],
           n.step \in {"artifacts", "clib publish"} => release'[<<n.kind, n.version>>] # "none"
    PROVE  job' \in [Jobs -> JobType] /\ \A i \in Jobs : JobKnows(i)'
<1>1. job \in [Jobs -> JobType]
  BY DEF JobsInv, JobsTyped
<1>2. job' \in [Jobs -> JobType] /\ job'[j] = n /\ \A i \in Jobs \ {j} : job'[i] = job[i]
  BY <1>1
<1>3. JobKnows(j)'
  BY <1>2 DEF JobKnows, NameOf
<1>4. ASSUME NEW i \in Jobs \ {j}
      PROVE  JobKnows(i)'
  <2>1. job'[i] = job[i] /\ job[i].kind \in Kinds /\ job[i].version \in Versions /\ JobKnows(i)
    BY <1>1, <1>2 DEF JobsInv, JobType
  <2> QED
    BY <2>1 DEF JobKnows, NameOf, ReleasesStay
<1> QED
  BY <1>2, <1>3, <1>4

\* A job that ends knows nothing.
LEMMA JobEnds ==
    ASSUME JobsInv, UNCHANGED tags, ReleasesStay, NEW j \in Jobs, job' = [job EXCEPT ![j] = NoJob]
    PROVE  job' \in [Jobs -> JobType] /\ \A i \in Jobs : JobKnows(i)'
<1>1. 1 \in Commits
  BY ReleaseAssumption DEF Commits
<1>2. NoJob \in JobType /\ NoJob.step = "idle"
  BY <1>1 DEF NoJob, JobType, Kinds, Versions
<1> QED
  BY <1>2, OneJob

\* A job that goes on keeps its tag and the commit it checked out.
LEMMA JobGoesOn ==
    ASSUME JobsInv, UNCHANGED tags, ReleasesStay, NEW j \in Jobs, NEW to \in CrateSteps \cup ClibSteps,
           job' = [job EXCEPT ![j].step = to],
           to \in {"crate decide", "crate publish"} => job[j].step = "crate decide",
           to \in {"artifacts", "clib publish"} => release'[NameOf(j)] # "none"
    PROVE  job' \in [Jobs -> JobType] /\ \A i \in Jobs : JobKnows(i)'
<1>1. job \in [Jobs -> JobType] /\ job[j] \in JobType /\ JobKnows(j)
  BY DEF JobsInv, JobsTyped
<1>2. PICK n : n = [job[j] EXCEPT !.step = to]
  OBVIOUS
<1>3. job' = [job EXCEPT ![j] = n]
  BY <1>1, <1>2
<1>4. /\ n \in JobType /\ n.step = to
      /\ n.source = job[j].source /\ n.version = job[j].version /\ n.kind = job[j].kind
  BY <1>1, <1>2 DEF JobType
<1>5. n.step \in {"crate decide", "crate publish"} =>
         n.source # NoCommit /\ n.source = tags["ts"][n.version]
  BY <1>1, <1>4 DEF JobKnows
<1>6. NameOf(j) = <<n.kind, n.version>>
  BY <1>4 DEF NameOf
<1>7. n.step \in {"artifacts", "clib publish"} => release'[<<n.kind, n.version>>] # "none"
  BY <1>4, <1>6
<1> QED
  BY <1>3, <1>4, <1>5, <1>7, OneJob

\* A job that begins has checked out nothing.
LEMMA JobBegins ==
    ASSUME JobsInv, UNCHANGED tags, ReleasesStay, NEW j \in Jobs,
           NEW step \in {"crate checkout", "ensure"}, NEW k \in Kinds, NEW v \in Versions,
           Begin(j, step, k, v)
    PROVE  job' \in [Jobs -> JobType] /\ \A i \in Jobs : JobKnows(i)'
<1>1. PICK n : n = [step |-> step, kind |-> k, version |-> v, source |-> NoCommit]
  OBVIOUS
<1>2. n \in JobType /\ n.step = step
  BY <1>1 DEF JobType, CrateSteps, ClibSteps
<1>3. job' = [job EXCEPT ![j] = n]
  BY <1>1 DEF Begin
<1> QED
  BY <1>2, <1>3, OneJob

\* Where only the jobs' records change.
LEMMA OnlyJobs ==
    ASSUME JobsInv, UNCHANGED <<vars, crate, release, manifest, byHand>>,
           job' \in [Jobs -> JobType], \A i \in Jobs : JobKnows(i)'
    PROVE  JobsInv'
<1>1. JobsTyped'
  BY DEF JobsInv, JobsTyped
<1>2. PublicReleaseWhole'
  BY DEF JobsInv, PublicReleaseWhole, vars
<1>3. \A v \in Versions : crate'[v] # NoCommit => crate'[v] = tags'["ts"][v]
  BY DEF JobsInv, vars
<1> QED
  BY <1>1, <1>2, <1>3 DEF JobsInv

\* What starts a job.
LEMMA JobStartKeeps ==
    ASSUME IInv, JobsInv, NEW j \in Jobs, JobStarts(j)
    PROVE  JobsInv'
<1>1. ASSUME NEW r \in Runs, NEW first \in {"crate checkout", "ensure"}, CallJob(r, j, first)
      PROVE  JobsInv'
  <2>1. /\ Begin(j, first, "go", Version(r)) /\ "go" \in Kinds /\ Version(r) \in Versions
        /\ UNCHANGED <<vars, crate, release, manifest, byHand>> /\ UNCHANGED tags /\ ReleasesStay
    BY <1>1, RunVersion DEF CallJob, IInv, Kinds, vars, ReleasesStay
  <2> QED
    BY <2>1, JobBegins, OnlyJobs
<1>2. ASSUME NEW k \in Kinds, NEW v \in Versions, DispatchCrates(j, k, v)
      PROVE  JobsInv'
  <2>1. /\ Begin(j, "crate checkout", k, v)
        /\ UNCHANGED <<vars, crate, release, manifest, byHand>> /\ UNCHANGED tags /\ ReleasesStay
    BY <1>2 DEF DispatchCrates, vars, ReleasesStay
  <2> QED
    BY <2>1, JobBegins, OnlyJobs
<1>3. ASSUME NEW k \in Kinds, NEW v \in Versions, DispatchClib(j, k, v)
      PROVE  JobsInv'
  <2>1. /\ Begin(j, "ensure", k, v)
        /\ UNCHANGED <<vars, crate, release, manifest, byHand>> /\ UNCHANGED tags /\ ReleasesStay
    BY <1>3 DEF DispatchClib, vars, ReleasesStay
  <2> QED
    BY <2>1, JobBegins, OnlyJobs
<1>4. ASSUME NEW k \in Kinds, NEW v \in Versions, PublishByHand(j, k, v)
      PROVE  JobsInv'
  <2>1. /\ Begin(j, "ensure", k, v) /\ tags[k][v] # NoCommit
        /\ tags' = tags /\ crate' = crate /\ manifest' = manifest
        /\ release' = [release EXCEPT ![<<k, v>>] = "public"] /\ byHand' = byHand \cup {<<k, v>>}
    BY <1>4 DEF PublishByHand, vars
  <2>2. <<k, v>> \in TagNames /\ release \in [TagNames -> Releases]
    BY Names DEF JobsInv, JobsTyped
  <2>3. job' \in [Jobs -> JobType] /\ \A i \in Jobs : JobKnows(i)'
    <3>1. ReleasesStay
      BY <2>1, <2>2, Names DEF ReleasesStay
    <3> QED
      BY <2>1, <3>1, JobBegins
  <2>4. JobsTyped'
    BY <2>1, <2>2, <2>3 DEF JobsInv, JobsTyped, Releases
  <2>5. PublicReleaseWhole'
    BY <2>1, <2>2, Names DEF JobsInv, PublicReleaseWhole
  <2> QED
    BY <2>1, <2>3, <2>4, <2>5 DEF JobsInv
<1> QED
  BY <1>1, <1>2, <1>3, <1>4 DEF JobStarts

\* The crates job: it checks out its tag, asks crates.io and publishes.
LEMMA CrateKeeps ==
    ASSUME IInv, JobsInv, NEW j \in Jobs, CrateCheckout(j) \/ CrateDecide(j) \/ CratePublish(j)
    PROVE  JobsInv'
<1>1. job \in [Jobs -> JobType] /\ job[j] \in JobType /\ job[j].version \in Versions /\ JobKnows(j)
  <2>1. job \in [Jobs -> JobType]
    BY DEF JobsInv, JobsTyped
  <2> QED
    BY <2>1 DEF JobsInv, JobType
<1>2. CASE CrateCheckout(j)
  <2>1. UNCHANGED <<vars, crate, release, manifest, byHand>> /\ UNCHANGED tags /\ ReleasesStay
    BY <1>2 DEF CrateCheckout, vars, ReleasesStay
  <2>2. CASE UsableTag(j)
    <3>1. PICK n : n = [job[j] EXCEPT !.step = "crate decide", !.source = TagOf(j)]
      OBVIOUS
    <3>2. job' = [job EXCEPT ![j] = n]
      BY <1>1, <1>2, <2>2, <3>1 DEF CrateCheckout
    <3>3. TagOf(j) \in Commits /\ TagOf(j) = tags["ts"][job[j].version]
      <4>1. job[j].kind \in Kinds
        BY <1>1 DEF JobType
      <4>2. TagOf(j) # NoCommit
        BY <2>2 DEF UsableTag
      <4> QED
        BY <1>1, <4>1, <4>2 DEF TagOf, IInv, TypeOK, TagsAgree, Kinds
    <3>4. /\ n \in JobType /\ n.source = TagOf(j) /\ n.version = job[j].version
          /\ n.step = "crate decide"
      BY <1>1, <3>1, <3>3 DEF JobType, CrateSteps
    <3>5. NoCommit \notin Commits
      BY DEF NoCommit, Commits
    <3>6. job' \in [Jobs -> JobType] /\ \A i \in Jobs : JobKnows(i)'
      BY <2>1, <3>2, <3>3, <3>4, <3>5, OneJob
    <3> QED
      BY <2>1, <3>6, OnlyJobs
  <2>3. CASE ~UsableTag(j)
    <3>1. job' = [job EXCEPT ![j] = NoJob]
      BY <1>2, <2>3 DEF CrateCheckout, End
    <3> QED
      BY <2>1, <3>1, JobEnds, OnlyJobs
  <2> QED
    BY <2>2, <2>3
<1>3. CASE CrateDecide(j)
  <2>1. UNCHANGED <<vars, crate, release, manifest, byHand>> /\ UNCHANGED tags /\ ReleasesStay
    BY <1>3 DEF CrateDecide, vars, ReleasesStay
  <2>2. CASE crate[job[j].version] = NoCommit
    <3>1. job[j].step = "crate decide" /\ job' = [job EXCEPT ![j].step = "crate publish"]
      BY <1>3, <2>2 DEF CrateDecide, To
    <3>2. "crate publish" \in CrateSteps \cup ClibSteps
      BY DEF CrateSteps
    <3>3. job' \in [Jobs -> JobType] /\ \A i \in Jobs : JobKnows(i)'
      BY <2>1, <3>1, <3>2, JobGoesOn
    <3> QED
      BY <2>1, <3>3, OnlyJobs
  <2>3. CASE crate[job[j].version] # NoCommit
    <3>1. job' = [job EXCEPT ![j] = NoJob]
      BY <1>3, <2>3 DEF CrateDecide, End
    <3> QED
      BY <2>1, <3>1, JobEnds, OnlyJobs
  <2> QED
    BY <2>2, <2>3
<1>4. CASE CratePublish(j)
  <2> DEFINE v == job[j].version
  <2>1. /\ job[j].step = "crate publish" /\ job' = [job EXCEPT ![j] = NoJob]
        /\ crate' = [crate EXCEPT ![v] = IF @ = NoCommit THEN job[j].source ELSE @]
        /\ tags' = tags /\ release' = release /\ manifest' = manifest /\ byHand' = byHand
    BY <1>4 DEF CratePublish, End, vars
  <2>2. job' \in [Jobs -> JobType] /\ \A i \in Jobs : JobKnows(i)'
    BY <2>1, JobEnds DEF ReleasesStay
  <2>3. job[j].source \in Commits /\ job[j].source = tags["ts"][v]
    BY <1>1, <2>1 DEF JobKnows, JobType
  <2>4. crate \in [Versions -> Commits \cup {NoCommit}]
    BY DEF JobsInv, JobsTyped
  <2>5. JobsTyped'
    BY <1>1, <2>1, <2>2, <2>3, <2>4 DEF JobsInv, JobsTyped
  <2>6. ASSUME NEW w \in Versions, crate'[w] # NoCommit
        PROVE  crate'[w] = tags'["ts"][w]
    BY <1>1, <2>1, <2>3, <2>4, <2>6 DEF JobsInv
  <2>7. PublicReleaseWhole'
    BY <2>1 DEF JobsInv, PublicReleaseWhole
  <2> QED
    BY <2>2, <2>5, <2>6, <2>7 DEF JobsInv
<1> QED
  BY <1>2, <1>3, <1>4

\* The C release: a draft on the tag, the artifacts, and the Release made
\* public only with its manifest.
LEMMA ClibKeeps ==
    ASSUME IInv, JobsInv, NEW j \in Jobs, EnsureRelease(j) \/ Artifacts(j) \/ PublishRelease(j)
    PROVE  JobsInv'
<1>1. /\ job \in [Jobs -> JobType] /\ job[j] \in JobType /\ JobKnows(j)
      /\ release \in [TagNames -> Releases] /\ manifest \subseteq TagNames
  <2>1. job \in [Jobs -> JobType]
    BY DEF JobsInv, JobsTyped
  <2> QED
    BY <2>1 DEF JobsInv, JobsTyped
<1>2. PICK k \in Kinds, v \in Versions : k = job[j].kind /\ v = job[j].version
  BY <1>1 DEF JobType
<1>3. NameOf(j) = <<k, v>> /\ <<k, v>> \in TagNames /\ TagOf(j) = tags[k][v]
  BY <1>2, Names DEF NameOf, TagOf
<1>4. ASSUME tags' = tags, crate' = crate, byHand' = byHand,
             release' \in [TagNames -> Releases], manifest' \subseteq TagNames,
             job' \in [Jobs -> JobType], \A i \in Jobs : JobKnows(i)',
             PublicReleaseWhole'
      PROVE  JobsInv'
  BY <1>4 DEF JobsInv, JobsTyped
<1>5. CASE EnsureRelease(j)
  <2>1. /\ tags' = tags /\ crate' = crate /\ byHand' = byHand /\ manifest' = manifest
        /\ job[j].step = "ensure"
    BY <1>5 DEF EnsureRelease, To, End, vars
  <2>2. CASE release' = release /\ release[<<k, v>>] = "none"
    <3>1. job' = [job EXCEPT ![j] = NoJob]
      BY <1>1, <1>3, <1>5, <2>2 DEF EnsureRelease, To, End
    <3>2. job' \in [Jobs -> JobType] /\ \A i \in Jobs : JobKnows(i)'
      BY <2>1, <2>2, <3>1, JobEnds DEF ReleasesStay
    <3> QED
      BY <1>1, <1>4, <2>1, <2>2, <3>2 DEF JobsInv, PublicReleaseWhole
  <2>3. CASE release[<<k, v>>] # "none" \/ release' # release
    <3>1. job' = [job EXCEPT ![j].step = "artifacts"]
      BY <1>1, <1>3, <1>5, <2>3 DEF EnsureRelease, To, End
    <3>2. \/ release' = release /\ release[<<k, v>>] # "none"
          \/ tags[k][v] # NoCommit /\ release' = [release EXCEPT ![<<k, v>>] = "draft"] /\ release[<<k, v>>] = "none"
      BY <1>3, <1>5, <2>3 DEF EnsureRelease
    <3>3. /\ release' \in [TagNames -> Releases] /\ release'[<<k, v>>] # "none"
          /\ \A n \in TagNames \ {<<k, v>>} : release'[n] = release[n]
          /\ release'[<<k, v>>] = "public" => release[<<k, v>>] = "public"
      BY <1>1, <1>3, <3>2 DEF Releases
    <3>4. ReleasesStay
      BY <3>3, Names DEF ReleasesStay
    <3>5. job' \in [Jobs -> JobType] /\ \A i \in Jobs : JobKnows(i)'
      BY <1>3, <2>1, <3>1, <3>3, <3>4, JobGoesOn DEF ClibSteps
    <3>6. tags[k][v] # NoCommit
      BY <3>2 DEF JobsInv, PublicReleaseWhole
    <3>7. PublicReleaseWhole'
      BY <2>1, <3>3, <3>6, Names DEF JobsInv, PublicReleaseWhole
    <3> QED
      BY <1>1, <1>4, <2>1, <3>3, <3>5, <3>7
  <2> QED
    BY <2>2, <2>3
<1>6. CASE Artifacts(j)
  <2>1. /\ tags' = tags /\ crate' = crate /\ byHand' = byHand /\ release' = release
        /\ manifest \subseteq manifest' /\ manifest' \subseteq manifest \cup {<<k, v>>}
        /\ job[j].step = "artifacts" /\ job' = [job EXCEPT ![j].step = "clib publish"]
    BY <1>3, <1>6 DEF Artifacts, To, vars
  <2>2. release'[<<k, v>>] # "none" /\ ReleasesStay
    BY <1>1, <1>3, <2>1 DEF JobKnows, ReleasesStay
  <2>3. job' \in [Jobs -> JobType] /\ \A i \in Jobs : JobKnows(i)'
    BY <1>3, <2>1, <2>2, JobGoesOn DEF ClibSteps
  <2>4. PublicReleaseWhole'
    BY <2>1 DEF JobsInv, PublicReleaseWhole
  <2> QED
    BY <1>1, <1>3, <1>4, <2>1, <2>3, <2>4
<1>7. CASE PublishRelease(j)
  <2>1. /\ tags' = tags /\ crate' = crate /\ byHand' = byHand /\ manifest' = manifest
        /\ job[j].step = "clib publish" /\ job' = [job EXCEPT ![j] = NoJob]
        /\ release' = [release EXCEPT ![<<k, v>>] = IF <<k, v>> \in manifest THEN "public" ELSE @]
    BY <1>3, <1>7 DEF PublishRelease, End, vars
  <2>2. /\ release' \in [TagNames -> Releases]
        /\ \A n \in TagNames \ {<<k, v>>} : release'[n] = release[n]
        /\ release'[<<k, v>>] = IF <<k, v>> \in manifest THEN "public" ELSE release[<<k, v>>]
    BY <1>1, <1>3, <2>1 DEF Releases
  <2>3. ReleasesStay
    BY <2>2, Names DEF ReleasesStay
  <2>4. job' \in [Jobs -> JobType] /\ \A i \in Jobs : JobKnows(i)'
    BY <2>1, <2>3, JobEnds
  <2>5. PublicReleaseWhole'
    <3>1. release[<<k, v>>] # "none"
      BY <1>1, <1>3, <2>1 DEF JobKnows
    <3>2. tags[k][v] # NoCommit /\ (release'[<<k, v>>] = "public" => <<k, v>> \in manifest \cup byHand)
      BY <2>2, <3>1 DEF JobsInv, PublicReleaseWhole
    <3>3. ASSUME NEW x \in Kinds, NEW y \in Versions, ~(x = k /\ y = v)
          PROVE  release'[<<x, y>>] = release[<<x, y>>]
      <4>1. <<x, y>> # <<k, v>>
        BY <3>3
      <4> QED
        BY <2>2, <4>1, Names
    <3>4. ASSUME NEW x \in Kinds, NEW y \in Versions
          PROVE  /\ release'[<<x, y>>] = "public" => <<x, y>> \in manifest' \cup byHand'
                 /\ release'[<<x, y>>] # "none" => tags'[x][y] # NoCommit
      <4>1. CASE x = k /\ y = v
        BY <2>1, <3>2, <4>1
      <4>2. CASE ~(x = k /\ y = v)
        <5>1. /\ release[<<x, y>>] = "public" => <<x, y>> \in manifest \cup byHand
              /\ release[<<x, y>>] # "none" => tags[x][y] # NoCommit
          BY DEF JobsInv, PublicReleaseWhole
        <5> QED
          BY <2>1, <3>3, <4>2, <5>1
      <4> QED
        BY <4>1, <4>2
    <3> QED
      BY <3>4 DEF PublicReleaseWhole
  <2> QED
    BY <1>1, <1>4, <2>1, <2>2, <2>4, <2>5
<1> QED
  BY <1>5, <1>6, <1>7

\* Both invariants together, of the release and of its jobs.
LEMMA JobsNextKeeps ==
    ASSUME IInv, JobsInv, [JobsNext]_allVars
    PROVE  IInv' /\ JobsInv'
<1>1. CASE Next /\ UNCHANGED jobVars
  BY <1>1, NextKeeps, ReleaseKeepsJobs DEF StepOK
<1>2. ASSUME NEW j \in Jobs, JobStarts(j) \/ JobWorks(j) \/ JobFails(j)
      PROVE  IInv' /\ JobsInv'
  <2>1. UNCHANGED vars
    BY <1>2 DEF JobStarts, JobWorks, JobFails, CallJob, DispatchCrates, DispatchClib, PublishByHand,
       CrateCheckout, CrateDecide, CratePublish, EnsureRelease, Artifacts, PublishRelease
  <2>2. IInv'
    BY <2>1, StutterKeeps DEF StepOK
  <2>3. CASE JobFails(j)
    <3>1. /\ job' = [job EXCEPT ![j] = NoJob]
          /\ UNCHANGED <<vars, crate, release, manifest, byHand>> /\ UNCHANGED tags /\ ReleasesStay
      BY <2>3 DEF JobFails, ReleasesStay, vars
    <3> QED
      BY <2>2, <3>1, JobEnds, OnlyJobs
  <2> QED
    BY <1>2, <2>2, <2>3, JobStartKeeps, CrateKeeps, ClibKeeps DEF JobWorks
<1>3. CASE UNCHANGED allVars
  <2>1. UNCHANGED vars /\ UNCHANGED jobVars
    BY <1>3 DEF allVars
  <2> QED
    BY <2>1, StutterKeeps, ReleaseKeepsJobs DEF StepOK
<1> QED
  BY <1>1, <1>2, <1>3 DEF JobsNext

\* At first there is no crate and no Release, and no job runs.
LEMMA InitJobs == JobsInit => IInv /\ JobsInv
<1> SUFFICES ASSUME JobsInit PROVE IInv /\ JobsInv
  OBVIOUS
<1>1. IInv
  BY InitIInv DEF JobsInit
<1>2. 1 \in Commits
  BY ReleaseAssumption DEF Commits
<1>3. NoJob \in JobType
  BY <1>2 DEF NoJob, JobType, Kinds, Versions
<1>4. JobsTyped
  BY <1>3 DEF JobsInit, JobsTyped, Releases
<1>5. \A j \in Jobs : JobKnows(j)
  BY DEF JobsInit, JobKnows, NoJob
<1>6. \A k \in Kinds, v \in Versions : release[<<k, v>>] = "none"
  BY Names DEF JobsInit
<1> QED
  BY <1>1, <1>4, <1>5, <1>6 DEF JobsInit, JobsInv, PublicReleaseWhole

\* The invariants hold of every behaviour of the release with its jobs.
THEOREM JobsInductive == JobsSpec => [](IInv /\ JobsInv)
  BY InitJobs, JobsNextKeeps, PTL DEF JobsSpec

\* The crate of a version is built from the commit of its tags, whatever
\* overlaps, is dispatched to repair or fails.
THEOREM CratesMatchTheTags == JobsSpec => []CrateFromTheTag
<1>1. IInv /\ JobsInv => CrateFromTheTag
  BY DEF IInv, JobsInv, TagsAgree, CrateFromTheTag
<1> QED
  BY JobsInductive, <1>1, PTL

\* On a tag of either kind, dispatched for as any maintainer may, no workflow
\* makes a Release public without its manifest, nor makes one where the tag
\* does not exist.
THEOREM ReleasesAreWhole == JobsSpec => []PublicReleaseWhole
<1>1. JobsInv => PublicReleaseWhole
  BY DEF JobsInv
<1> QED
  BY JobsInductive, <1>1, PTL

\* Type correctness of the jobs, and no crate without a source.
THEOREM JobsTypeCorrect == JobsSpec => []JobsTypeOK
<1>1. JobsInv => JobsTypeOK
  BY DEF JobsInv, JobsTyped, JobKnows, JobsTypeOK
<1> QED
  BY JobsInductive, <1>1, PTL
=============================================================================
