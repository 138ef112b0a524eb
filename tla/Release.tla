------------------------------ MODULE Release ------------------------------
(***************************************************************************)
(* The release of one repository, .github/workflows/release.yml: npm and   *)
(* the two tags ts/v and go/v of each version.  Nothing stops two runs of  *)
(* the workflow from overlapping (it declares no concurrency group), a run *)
(* may die between any two steps, and main may move on under both.         *)
(*                                                                         *)
(* What the outside does is modelled from how the workflow uses it: npm    *)
(* takes a version once, the remote refuses to move a tag, and an          *)
(* orchestrator (admin/publish.sh) may push tags of its own.               *)
(***************************************************************************)
EXTENDS Integers, FiniteSets

CONSTANTS Runs,        \* the runs there may be at a time
          LastCommit,  \* main's commits are 1..LastCommit (bounds the history)
          VersionAt    \* the version ts/package.json has at each of them

NoCommit == 0

Commits  == 1..LastCommit
Versions == {VersionAt[c] : c \in Commits}
Kinds    == {"ts", "go"}

ASSUME ReleaseAssumption ==
    /\ LastCommit \in Nat \ {0}
    /\ VersionAt \in [Commits -> Nat]

VARIABLES main,   \* the head of main
          tags,   \* kind -> version -> the commit the remote's tag names
          npm,    \* version -> the commit it was published from
          run     \* the runs of the workflow

vars == <<main, tags, npm, run>>

Resting == {"idle", "failed", "done"}
Steps   == Resting \cup {"checkout", "decide", "view", "publish", "tag", "hand"}

NoTags == [k \in Kinds |-> NoCommit]

\* A run: its trigger and inputs, the commit it was started at, the tags its
\* checkout fetched and whether its outputs hold the Go tag.
RunType ==
    [step : Steps, event : {"dispatch", "push"}, go : BOOLEAN,
     sha : Commits, fetched : [Kinds -> Commits \cup {NoCommit}], handed : BOOLEAN]

NewRun(event, go, sha) ==
    [step |-> "checkout", event |-> event, go |-> go, sha |-> sha,
     fetched |-> NoTags, handed |-> FALSE]

Init ==
    /\ main = 1
    /\ tags = [k \in Kinds |-> [v \in Versions |-> NoCommit]]
    /\ npm  = [v \in Versions |-> NoCommit]
    /\ run  = [r \in Runs |-> [NewRun("dispatch", TRUE, 1) EXCEPT !.step = "idle"]]

Version(r) == VersionAt[run[r].sha]

\* A run moves on; one that ends forgets what it fetched.
Advance(r, from, to) ==
    /\ run[r].step = from
    /\ run' = [run EXCEPT ![r].step = to,
                          ![r].fetched = IF to \in Resting THEN NoTags ELSE @]

-----------------------------------------------------------------------------
(* What starts a run.                                                      *)

\* A pull request is merged, with or without a bump of the version.
Commit ==
    /\ main < LastCommit
    /\ main' = main + 1
    /\ UNCHANGED <<tags, npm, run>>

\* A dispatch, which is refused anywhere but on main.
Dispatch(r, go) ==
    /\ run[r].step \in Resting
    /\ run' = [run EXCEPT ![r] = NewRun("dispatch", go, main)]
    /\ UNCHANGED <<main, tags, npm>>

\* The orchestrator pushes the tags of main's version, all or none, and
\* ts/v starts a run.
OrchestratorPush(r, kinds) ==
    LET v == VersionAt[main]
    IN  /\ run[r].step \in Resting
        /\ "ts" \in kinds
        /\ \A k \in kinds : tags[k][v] = NoCommit
        /\ tags' = [k \in Kinds |-> IF k \in kinds THEN [tags[k] EXCEPT ![v] = main] ELSE tags[k]]
        /\ run' = [run EXCEPT ![r] = NewRun("push", FALSE, main)]
        /\ UNCHANGED <<main, npm>>

\* Re-running a failed run keeps its trigger, inputs and commit.
Rerun(r) ==
    /\ run[r].step = "failed"
    /\ run' = [run EXCEPT ![r] = NewRun(@.event, @.go, @.sha)]
    /\ UNCHANGED <<main, tags, npm>>

-----------------------------------------------------------------------------
(* The publish-npm job.                                                    *)

\* fetch-depth: 0 brings the tags of this instant.
Checkout(r) ==
    /\ run[r].step = "checkout"
    /\ run' = [run EXCEPT ![r].step = IF run[r].event = "push" THEN "view" ELSE "decide",
                          ![r].fetched = [k \in Kinds |-> tags[k][Version(r)]]]
    /\ UNCHANGED <<main, tags, npm>>

\* Which tags a dispatch still has to create, and at which commit.
Wanted(r)  == IF run[r].go THEN Kinds ELSE {"ts"}
Missing(r) == {k \in Wanted(r) : run[r].fetched[k] = NoCommit}
Present(r) == Wanted(r) \ Missing(r)

\* Mutant: a repair names whatever main has become since.
AnchorHead(r) == run[r].sha

Anchor(r) ==
    IF Present(r) = {} THEN run[r].sha
    ELSE run[r].fetched[IF "ts" \in Present(r) THEN "ts" ELSE "go"]

\* Mutant: a repair of a version that npm does not have goes ahead.
RefusedOnlyWhenDone(r) == Missing(r) = {}

\* Mutant: any tag there already refuses the run.
RefusedWhenTagged(r) == Present(r) # {}

\* Nothing to create, or a repair of a version that npm does not have.
Refused(r) ==
    \/ Missing(r) = {}
    \/ Anchor(r) # run[r].sha /\ npm[Version(r)] = NoCommit

\* Mutant: the tags go out before the package.
DecideToTag(r) ==
    /\ Advance(r, "decide", IF Refused(r) THEN "failed" ELSE "tag")
    /\ UNCHANGED <<main, tags, npm>>

Decide(r) ==
    /\ Advance(r, "decide", IF Refused(r) THEN "failed" ELSE "view")
    /\ UNCHANGED <<main, tags, npm>>

AfterPublish(r) == IF run[r].event = "push" THEN "hand" ELSE "tag"

\* The registry, not the tag, says whether the version is released.
View(r) ==
    /\ Advance(r, "view", IF npm[Version(r)] = NoCommit THEN "publish" ELSE AfterPublish(r))
    /\ UNCHANGED <<main, tags, npm>>

\* npm refuses a version it has: another run may have been first.
Publish(r) ==
    LET v == Version(r)
    IN  /\ UNCHANGED <<main, tags>>
        /\ \/ /\ npm[v] = NoCommit
              /\ npm' = [npm EXCEPT ![v] = run[r].sha]
              /\ Advance(r, "publish", AfterPublish(r))
           \/ /\ npm[v] # NoCommit
              /\ Advance(r, "publish", "failed")
              /\ UNCHANGED npm

\* One atomic push: the remote takes every tag, or refuses them all for one
\* that names another commit there.
Pushable(r) == \A k \in Missing(r) : tags[k][Version(r)] \in {NoCommit, Anchor(r)}

Tagged(r) ==
    [k \in Kinds |-> IF k \in Missing(r) THEN [tags[k] EXCEPT ![Version(r)] = Anchor(r)] ELSE tags[k]]

Tag(r) ==
    /\ UNCHANGED <<main, npm>>
    /\ \/ /\ Pushable(r)
          /\ tags' = Tagged(r)
          /\ Advance(r, "tag", "hand")
       \/ /\ ~Pushable(r)
          /\ Advance(r, "tag", "failed")
          /\ UNCHANGED tags

\* The Go tag is handed to the C and the crates jobs if the remote has it.
Hand(r) ==
    /\ run[r].step = "hand"
    /\ run' = [run EXCEPT ![r].step = "done", ![r].fetched = NoTags,
                          ![r].handed = tags["go"][Version(r)] # NoCommit]
    /\ UNCHANGED <<main, tags, npm>>

\* A step fails, or the runner is lost after it did its work.
Fail(r) ==
    /\ run[r].step \notin Resting
    /\ Advance(r, run[r].step, "failed")
    /\ UNCHANGED <<main, tags, npm>>

Work(r) == Checkout(r) \/ Decide(r) \/ View(r) \/ Publish(r) \/ Tag(r) \/ Hand(r)

Start(r) ==
    \/ \E go \in BOOLEAN : Dispatch(r, go)
    \/ \E kinds \in SUBSET Kinds : OrchestratorPush(r, kinds)
    \/ Rerun(r)

Next == Commit \/ \E r \in Runs : Start(r) \/ Work(r) \/ Fail(r)

Spec == Init /\ [][Next]_vars

(* Fairness.  A maintainer who has a half-finished release dispatches       *)
(* again, with go, and no step of such a run fails every time it is tried.  *)
(* A run ends.  Nothing makes main move or the orchestrator push, and other *)
(* runs do as they please.                                                 *)
Repairing(r) ==
    /\ SF_vars(Dispatch(r, TRUE))
    /\ WF_vars(Work(r))
    /\ SF_vars(run[r].go /\ Checkout(r))
    /\ SF_vars(run[r].go /\ Decide(r))
    /\ SF_vars(run[r].go /\ View(r))
    /\ SF_vars(run[r].go /\ Publish(r))
    /\ SF_vars(run[r].go /\ Tag(r))

\* Runs are alike, so that any one may be the maintainer's.
FairSpec == Spec /\ Repairing(CHOOSE r \in Runs : TRUE)

-----------------------------------------------------------------------------
(* Properties.                                                             *)

\* Every variable has its type, and a version's artifacts come from commits
\* of that version (Read the version).
TypeOK ==
    /\ main \in Commits
    /\ tags \in [Kinds -> [Versions -> Commits \cup {NoCommit}]]
    /\ npm \in [Versions -> Commits \cup {NoCommit}]
    /\ run \in [Runs -> RunType]
    /\ \A v \in Versions : \A c \in {tags["ts"][v], tags["go"][v], npm[v]} :
          c # NoCommit => VersionAt[c] = v

\* The two tags of a version never name different commits, which would be
\* "permanent for the Go module": whatever overlaps, dies and is repaired,
\* a Go tag stands beside a ts tag at the same commit (Decide, Tag).
TagsAgree ==
    \A v \in Versions : tags["go"][v] # NoCommit => tags["go"][v] = tags["ts"][v]

\* "A tag only ever exists for a release that reached the registry": a step
\* that writes a tag and is not the orchestrator's push finds the version on
\* npm (the order of Publish and Tag).
TagAfterPublish ==
    [][\A v \in Versions, k \in Kinds :
          tags'[k][v] # tags[k][v] =>
              npm[v] # NoCommit \/ \E r \in Runs : run'[r].event = "push" /\ run'[r].step = "checkout"]_vars

\* A repair never ships a second commit beside the tags: a run that has a
\* tag from its checkout publishes only the commit the tag names (Decide's
\* refusal: "publishing would ship HEAD while the tags name an older commit").
RepairShipsTheTag ==
    [][\A r \in Runs : npm'[Version(r)] # npm[Version(r)] /\ run[r].step = "publish"
          /\ run'[r].step # "publish" =>
              run[r].fetched["ts"] \in {NoCommit, npm'[Version(r)]}]_vars

\* "A half-finished release must be repairable, not refused": a version that
\* is on npm gets both its tags while main still has that version.
Half(v)  == npm[v] # NoCommit /\ VersionAt[main] = v
Whole(v) == \A k \in Kinds : tags[k][v] # NoCommit

RepairFinishes == \A v \in Versions : Half(v) ~> Whole(v) \/ VersionAt[main] # v

\* "A REPAIR must name the commit the release actually happened at, not
\* whatever main has become since" (release.yml, Decide): the tags a run
\* pushes name the commit npm has.
TagNamesTheRelease ==
    [][\A r \in Runs : run[r].step = "tag" /\ run'[r].step = "hand" =>
          \A k \in Missing(r) : tags'[k][Version(r)] = npm[Version(r)]]_vars
=============================================================================
