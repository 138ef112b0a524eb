---------------------------- MODULE ReleaseJobs ----------------------------
(***************************************************************************)
(* What follows the Go tag of a version, beside release.yml (Release.tla): *)
(* the crate on crates.io (.github/workflows/crates-release.yml) and the   *)
(* GitHub Release with the C artifacts (clib-release.yml).  A release run  *)
(* that was handed the Go tag calls both, and a maintainer may dispatch    *)
(* either for any tag, of either kind, at any time, to repair or to        *)
(* backfill.  A GitHub Release belongs to a tag, so that a version may     *)
(* have two.                                                               *)
(*                                                                         *)
(* crates.io takes a version once; what the shared clib build attaches is  *)
(* external, and so is all of a dispatch with darwin_only.                 *)
(***************************************************************************)
EXTENDS Release

CONSTANTS Jobs   \* the jobs there may be at a time

VARIABLES crate,     \* version -> the commit its crate was built from
          release,   \* tag -> its GitHub Release
          manifest,  \* the tags whose Release has manifest.json
          byHand,    \* the tags whose Release a maintainer published
          job        \* the jobs under way

jobVars == <<crate, release, manifest, byHand, job>>
allVars == <<vars, jobVars>>

Releases == {"none", "draft", "public"}

\* What a tag is called, whether the remote has it or not.
TagNames == Kinds \X Versions

CrateSteps == {"crate checkout", "crate decide", "crate publish"}
ClibSteps  == {"ensure", "artifacts", "clib publish"}

\* A job, its tag (a kind and a version) and the commit it checked out.
JobType ==
    [step : {"idle"} \cup CrateSteps \cup ClibSteps,
     kind : Kinds, version : Versions, source : Commits \cup {NoCommit}]

NoJob == [step |-> "idle", kind |-> "go", version |-> VersionAt[1], source |-> NoCommit]

JobsInit ==
    /\ Init
    /\ crate    = [v \in Versions |-> NoCommit]
    /\ release  = [n \in TagNames |-> "none"]
    /\ manifest = {}
    /\ byHand   = {}
    /\ job      = [j \in Jobs |-> NoJob]

Begin(j, step, k, v) ==
    /\ job[j] = NoJob
    /\ job' = [job EXCEPT ![j] = [step |-> step, kind |-> k, version |-> v, source |-> NoCommit]]

To(j, from, to) ==
    /\ job[j].step = from
    /\ job' = [job EXCEPT ![j].step = to]

End(j, from) ==
    /\ job[j].step = from
    /\ job' = [job EXCEPT ![j] = NoJob]

\* Mutant: main is checked out, not the tag.
MainFor(j) == main

NameOf(j) == <<job[j].kind, job[j].version>>

TagOf(j) == tags[job[j].kind][job[j].version]

-----------------------------------------------------------------------------
(* What starts a job.                                                      *)

\* A run with the Go tag in its outputs calls both jobs, and one that failed
\* can be re-run.
CallJob(r, j, first) ==
    /\ run[r].step = "done" /\ run[r].handed
    /\ Begin(j, first, "go", Version(r))
    /\ UNCHANGED <<vars, crate, release, manifest, byHand>>

DispatchCrates(j, k, v) ==
    /\ Begin(j, "crate checkout", k, v)
    /\ UNCHANGED <<vars, crate, release, manifest, byHand>>

DispatchClib(j, k, v) ==
    /\ Begin(j, "ensure", k, v)
    /\ UNCHANGED <<vars, crate, release, manifest, byHand>>

\* A Release published by hand starts the C build, which attaches to it as
\* it stands.  The maintainer publishes on a tag that is there.
PublishByHand(j, k, v) ==
    /\ tags[k][v] # NoCommit
    /\ release[<<k, v>>] # "public"
    /\ release' = [release EXCEPT ![<<k, v>>] = "public"]
    /\ byHand'  = byHand \cup {<<k, v>>}
    /\ Begin(j, "ensure", k, v)
    /\ UNCHANGED <<vars, crate, manifest>>

-----------------------------------------------------------------------------
(* crates-release.yml.                                                     *)

UsableTag(j) == TagOf(j) # NoCommit /\ VersionAt[TagOf(j)] = job[j].version

\* The source that ships is the tag's, never main's, and has its version.
CrateCheckout(j) ==
    /\ UNCHANGED <<vars, crate, release, manifest, byHand>>
    /\ \/ /\ UsableTag(j)
          /\ job[j].step = "crate checkout"
          /\ job' = [job EXCEPT ![j].step = "crate decide", ![j].source = TagOf(j)]
       \/ /\ ~UsableTag(j)
          /\ End(j, "crate checkout")

CrateDecide(j) ==
    /\ UNCHANGED <<vars, crate, release, manifest, byHand>>
    /\ IF crate[job[j].version] = NoCommit THEN To(j, "crate decide", "crate publish")
       ELSE End(j, "crate decide")

\* crates.io refuses a version it has.
CratePublish(j) ==
    /\ End(j, "crate publish")
    /\ crate' = [crate EXCEPT ![job[j].version] = IF @ = NoCommit THEN job[j].source ELSE @]
    /\ UNCHANGED <<vars, release, manifest, byHand>>

-----------------------------------------------------------------------------
(* clib-release.yml.                                                       *)

\* Mutant: a Release that exists already ends the job.
EnsureNewRelease(j) ==
    LET n == NameOf(j)
    IN  /\ UNCHANGED <<vars, crate, manifest, byHand>>
        /\ IF release[n] = "none" /\ TagOf(j) # NoCommit
           THEN To(j, "ensure", "artifacts") /\ release' = [release EXCEPT ![n] = "draft"]
           ELSE End(j, "ensure") /\ UNCHANGED release

\* A missing Release is created as a draft, on a tag the remote has
\* (--verify-tag), of whichever kind.
EnsureRelease(j) ==
    LET n == NameOf(j)
    IN  /\ UNCHANGED <<vars, crate, manifest, byHand>>
        /\ \/ /\ release[n] # "none"
              /\ To(j, "ensure", "artifacts")
              /\ UNCHANGED release
           \/ /\ release[n] = "none" /\ TagOf(j) # NoCommit
              /\ To(j, "ensure", "artifacts")
              /\ release' = [release EXCEPT ![n] = "draft"]
           \/ /\ release[n] = "none" /\ TagOf(j) = NoCommit
              /\ End(j, "ensure")
              /\ UNCHANGED release

\* The shared build attaches its artifacts, the manifest among them or not.
Artifacts(j) ==
    /\ To(j, "artifacts", "clib publish")
    /\ manifest' \in {manifest, manifest \cup {NameOf(j)}}
    /\ UNCHANGED <<vars, crate, release, byHand>>

\* Mutant: the manifest is not asked for.
PublishAnyRelease(j) ==
    /\ End(j, "clib publish")
    /\ release' = [release EXCEPT ![NameOf(j)] = "public"]
    /\ UNCHANGED <<vars, crate, manifest, byHand>>

\* Only a Release with its manifest leaves the draft.
PublishRelease(j) ==
    LET n == NameOf(j)
    IN  /\ End(j, "clib publish")
        /\ release' = [release EXCEPT ![n] = IF n \in manifest THEN "public" ELSE @]
        /\ UNCHANGED <<vars, crate, manifest, byHand>>

\* A job fails, or the runner is lost, between its steps.
JobFails(j) ==
    /\ job[j] # NoJob
    /\ job' = [job EXCEPT ![j] = NoJob]
    /\ UNCHANGED <<vars, crate, release, manifest, byHand>>

JobStarts(j) ==
    \/ \E r \in Runs, first \in {"crate checkout", "ensure"} : CallJob(r, j, first)
    \/ \E k \in Kinds, v \in Versions :
          DispatchCrates(j, k, v) \/ DispatchClib(j, k, v) \/ PublishByHand(j, k, v)

JobWorks(j) ==
    \/ CrateCheckout(j) \/ CrateDecide(j) \/ CratePublish(j)
    \/ EnsureRelease(j) \/ Artifacts(j) \/ PublishRelease(j)

JobsNext ==
    \/ Next /\ UNCHANGED jobVars
    \/ \E j \in Jobs : JobStarts(j) \/ JobWorks(j) \/ JobFails(j)

JobsSpec == JobsInit /\ [][JobsNext]_allVars

(* Fairness.  A job goes on until it ends.                                 *)
JobsFairSpec == JobsSpec /\ \A j \in Jobs : WF_allVars(JobWorks(j))

(* A maintainer with a draft left over dispatches the whole C path again    *)
(* for its tag, and no step for that tag fails every time.  Of other tags   *)
(* nothing is asked.                                                        *)
ClibRepairing(j, k, v) ==
    /\ SF_allVars(DispatchClib(j, k, v))
    /\ SF_allVars(NameOf(j) = <<k, v>> /\ EnsureRelease(j))
    /\ SF_allVars(NameOf(j) = <<k, v>> /\ Artifacts(j) /\ <<k, v>> \in manifest')
    /\ SF_allVars(NameOf(j) = <<k, v>> /\ PublishRelease(j))

-----------------------------------------------------------------------------
(* Properties.                                                             *)

\* Every variable of the jobs has its type, and a crate about to be published
\* has a source (the checkout of refs/tags/).
JobsTypeOK ==
    /\ crate \in [Versions -> Commits \cup {NoCommit}]
    /\ release \in [TagNames -> Releases]
    /\ manifest \subseteq TagNames
    /\ byHand \subseteq TagNames
    /\ job \in [Jobs -> JobType]
    /\ \A j \in Jobs : job[j].step \in {"crate decide", "crate publish"} => job[j].source # NoCommit

\* "So the crate is built from the commit that npm and the Go proxy serve":
\* whichever of the two tags a job was given and whatever main has become,
\* the crate of a version is that of both its tags (crates-release.yml,
\* PUBLISHED FROM THE TAG).  npm's own commit may differ from the tags', as
\* TagNamesTheRelease shows, and then from the crate's.
CrateFromTheTag ==
    \A v \in Versions : crate[v] # NoCommit =>
        /\ crate[v] = tags["ts"][v]
        /\ tags["go"][v] \in {NoCommit, crate[v]}

\* "A public Release without [a manifest] is a broken download": no workflow
\* makes one, on a tag of either kind, whatever builds fail and are tried
\* again; and a Release stands on a tag that exists, although a dispatch may
\* name any (clib-release.yml, the release and publish jobs).
PublicReleaseWhole ==
    \A k \in Kinds, v \in Versions :
        /\ release[<<k, v>>] = "public" => <<k, v>> \in manifest \cup byHand
        /\ release[<<k, v>>] # "none" => tags[k][v] # NoCommit

\* "A failed build leaves the draft for a re-dispatch to finish": a draft
\* on either kind of tag becomes public if it is re-dispatched for, whatever
\* jobs for other tags, crates and releases come in between.
DraftFinishes ==
    \A k \in Kinds, v \in Versions :
        (\A j \in Jobs : ClibRepairing(j, k, v)) =>
            (release[<<k, v>>] = "draft" ~> release[<<k, v>>] = "public")
=============================================================================
