------------------------- MODULE ReleaseCoordinator -------------------------
(***************************************************************************)
(* How a version of Mirafold Desktop becomes GitHub's latest release: runs *)
(* of the Shell intake that commit, tag and publish by themselves, and     *)
(* tags pushed by a maintainer that publish an accepted candidate after an *)
(* approval.  scripts/release-coordinator.mjs, release-candidate.mjs and   *)
(* release-contract.mjs decide; the order of their calls is that of the    *)
(* jobs in .github/workflows.  A job may be killed at any moment and rerun *)
(* with the artifacts it has; GitHub's repository and releases are shared  *)
(* with people who go on working.                                          *)
(*                                                                         *)
(* A tree is known by the commit it makes: its parent, its Desktop and     *)
(* Shell versions, and whether the automation wrote its message.  The      *)
(* assets of a release are known by the tree and the job they were built   *)
(* of and by.                                                              *)
(***************************************************************************)
EXTENDS Naturals, Sequences, FiniteSets

CONSTANTS Runs,          \* runs of the Shell intake workflow
          MaxCommits,    \* bound: commits on main
          MaxVersion,    \* bound: Desktop versions
          MaxShell,      \* bound: Shell versions on npm
          MaxKills,      \* bound: jobs killed, and drafts whose deletion fails
          Endpoints,     \* may GET /releases/tags/TAG answer with a draft?
          None

ASSUME BoundsAssumption ==
    /\ {MaxCommits, MaxVersion, MaxShell, MaxKills} \subseteq Nat \ {0}
    /\ Endpoints \subseteq BOOLEAN /\ Endpoints # {}

Versions == 1..MaxVersion
CommitIds == 1..MaxCommits
Jobs == Runs \cup Versions         \* a manual job is known by its tag
Trees == [parent: 0..MaxCommits, version: Versions, shell: 1..MaxShell,
          automated: BOOLEAN]
Assets == [tree: Trees, job: Jobs]
Tags == [commit: CommitIds, candidate: CommitIds]
Releases == [draft: BOOLEAN, assets: {None} \cup Assets]

\* A run of the intake has no version's name; "none" is no file, tag or release.
ASSUME NamesAssumption ==
    /\ Runs \cap Versions = {}
    /\ None \notin Assets /\ None \notin Tags /\ None \notin Releases

VARIABLES
    commits,    \* the commits of main, oldest first
    tags,       \* version -> the commit its tag names, and the candidate
    lagging,    \* tags the API does not show yet
    drafts,     \* the draft releases: number -> tag and assets
    published,  \* version -> the assets of its public release, or None
    latest,     \* the version GitHub calls latest
    npm,        \* npm's latest Shell
    runs,       \* the intake runs
    manual,     \* version -> where the release job of its tag is
    writer,     \* the job in the publication group, or None
    kills,
    shows       \* the member of Endpoints that is true of GitHub

remote == <<commits, tags, lagging, drafts, published, latest>>
vars == <<remote, npm, runs, manual, writer, kills, shows>>

main == Len(commits)

TypeOK ==
    /\ commits \in Seq(Trees) /\ main \in CommitIds
    /\ tags \in [Versions -> {None} \cup Tags]
    /\ lagging \in SUBSET Versions
    /\ DOMAIN drafts \subseteq 1..(MaxKills + 2)
    /\ \A d \in DOMAIN drafts : drafts[d] \in [tag: Versions, assets: {None} \cup Assets]
    /\ published \in [Versions -> {None} \cup Assets]
    /\ latest \in Versions /\ npm \in 1..MaxShell
    /\ runs \in [Runs -> [at: {"idle", "built", "writing", "failed", "done"},
                          base: 0..MaxCommits, shell: 1..MaxShell]]
    /\ manual \in [Versions -> {"idle", "resolve", "approval", "writing", "failed", "done"}]
    /\ writer = None \/ writer \in
         [job: Jobs, tag: Versions, assets: Assets, created: BOOLEAN,
          at: {"main", "tag", "await", "release", "push", "verify", "delete", "create",
               "upload", "list", "edit", "check"},
          recheck: BOOLEAN, main: 0..MaxCommits, named: 0..MaxCommits]
    /\ kills \in 0..MaxKills /\ shows \in Endpoints

Init ==
    /\ commits = <<[parent |-> 0, version |-> 1, shell |-> 1, automated |-> FALSE]>>
    /\ tags = [v \in Versions |-> IF v = 1 THEN [commit |-> 1, candidate |-> 1] ELSE None]
    /\ lagging = {} /\ drafts = <<>>
    /\ published = [v \in Versions |->
         IF v = 1 THEN [tree |-> commits[1], job |-> 1] ELSE None]
    /\ latest = 1 /\ npm = 1
    /\ runs = [r \in Runs |-> [at |-> "idle", base |-> 0, shell |-> 1]]
    /\ manual = [v \in Versions |-> IF v = 1 THEN "done" ELSE "idle"]
    /\ writer = None /\ kills = 0 /\ shows \in Endpoints

----------------------------------------------------------------------------
(* People and npm. *)

\* A pull request is merged; it may raise either version.
HumanCommit ==
    /\ main < MaxCommits
    /\ \E v \in {commits[main].version, commits[main].version + 1} \cap Versions,
          s \in commits[main].shell..npm :
         commits' = Append(commits, [parent |-> main, version |-> v, shell |-> s,
                                     automated |-> FALSE])
    /\ UNCHANGED <<tags, lagging, drafts, published, latest, npm, runs, manual,
                   writer, kills, shows>>

\* A maintainer pushes an annotated tag that names a candidate; the release
\* workflow starts for it.
HumanTag(v) ==
    /\ tags[v] = None
    /\ \E c, candidate \in 1..main :
         tags' = [tags EXCEPT ![v] = [commit |-> c, candidate |-> candidate]]
    /\ manual' = [manual EXCEPT ![v] = "resolve"]
    /\ lagging' = lagging \cup {v}
    /\ UNCHANGED <<commits, drafts, published, latest, npm, runs, writer,
                   kills, shows>>

ShellReleased ==
    /\ npm < MaxShell /\ npm' = npm + 1
    /\ UNCHANGED <<remote, runs, manual, writer, kills, shows>>

TagVisible(v) ==
    /\ v \in lagging /\ lagging' = lagging \ {v}
    /\ UNCHANGED <<commits, tags, drafts, published, latest, npm, runs, manual,
                   writer, kills, shows>>

----------------------------------------------------------------------------
(* The two workflows up to their publication jobs. *)

\* One intake run is active at a time.
Idle == \A r \in Runs : runs[r].at \notin {"built", "writing"}

\* prepareIntake(): a newer Shell makes a candidate one patch above main's.
Trigger(r) ==
    /\ runs[r].at = "idle" /\ Idle
    /\ npm > commits[main].shell /\ commits[main].version < MaxVersion
    /\ main < MaxCommits
    /\ runs' = [runs EXCEPT ![r] = [at |-> "built", base |-> main, shell |-> npm]]
    /\ UNCHANGED <<remote, npm, manual, writer, kills, shows>>

\* The tree that prepareReleaseCandidate() rebuilds on the intake base.
Candidate(r) ==
    [parent |-> runs[r].base, version |-> commits[runs[r].base].version + 1,
     shell |-> runs[r].shell, automated |-> TRUE]

\* Failed jobs are rerun with the artifacts of their run.
Rerun(j) ==
    \/ /\ j \in Runs /\ runs[j].at = "failed" /\ Idle
       /\ runs' = [runs EXCEPT ![j].at = "built"]
       /\ UNCHANGED <<remote, npm, manual, writer, kills, shows>>
    \/ /\ j \in Versions /\ manual[j] = "failed"
       /\ manual' = [manual EXCEPT ![j] = "approval"]
       /\ UNCHANGED <<remote, npm, runs, writer, kills, shows>>

\* Mutant: whatever run the tag names is taken for the candidate.
AcceptedAnyRun(v) == commits[tags[v].commit].version = v

\* parseCandidateTag(), verifyCandidateRun(), selectCandidateArtifact().
Accepted(v) ==
    /\ tags[v].candidate = tags[v].commit
    /\ commits[tags[v].commit].version = v

\* resolveCandidate(): the tag must be the tip of main.
Resolves(v) == tags[v].commit = main /\ Accepted(v)

\* A refusal is final: main never comes back to an older commit.
Resolve(v) ==
    /\ manual[v] = "resolve"
    /\ manual' = [manual EXCEPT ![v] = IF Resolves(v) THEN "approval" ELSE "done"]
    /\ UNCHANGED <<remote, npm, runs, writer, kills, shows>>

Enters(j, tag, assets, at) ==
    /\ writer = None
    /\ writer' = [job |-> j, tag |-> tag, assets |-> assets, created |-> FALSE,
                  at |-> at, recheck |-> FALSE, main |-> 0, named |-> 0]

EnterRun(r) ==
    /\ runs[r].at = "built"
    /\ Enters(r, Candidate(r).version, [tree |-> Candidate(r), job |-> r], "main")
    /\ runs' = [runs EXCEPT ![r].at = "writing"]
    /\ UNCHANGED <<remote, npm, manual, kills, shows>>

EnterManual(v) ==
    /\ manual[v] = "approval"
    /\ Enters(v, v, [tree |-> commits[tags[v].candidate], job |-> v], "verify")
    /\ manual' = [manual EXCEPT ![v] = "writing"]
    /\ UNCHANGED <<remote, npm, runs, kills, shows>>

\* The job ends and leaves the publication group.
Leaves(result) ==
    /\ writer' = None
    /\ \/ /\ writer.job \in Runs
          /\ runs' = [runs EXCEPT ![writer.job].at = result]
          /\ UNCHANGED manual
       \/ /\ writer.job \in Versions
          /\ manual' = [manual EXCEPT ![writer.job] = result]
          /\ UNCHANGED runs

At(step) == writer # None /\ writer.at = step
Goes(step) == writer' = [writer EXCEPT !.at = step]

----------------------------------------------------------------------------
(* inspectRemoteRelease() and classifyRemoteRelease(): main, then the tag, *)
(* then the release, each read at its own time.                            *)

ReadMain ==
    /\ At("main")
    /\ writer' = [writer EXCEPT !.at = "tag", !.main = main]
    /\ UNCHANGED <<remote, npm, runs, manual, kills, shows>>

\* assertCandidateCommit()
IsCandidate(c) == commits[c] = writer.assets.tree

\* The tag the API shows: the commit it names, or 0.
Shown == IF tags[writer.tag] # None /\ writer.tag \notin lagging
         THEN tags[writer.tag].commit ELSE 0

ReadTag ==
    /\ At("tag")
    /\ \/ /\ Shown # 0 \/ writer.main = writer.assets.tree.parent
          /\ writer' = [writer EXCEPT !.at = "release", !.named = Shown]
          /\ UNCHANGED <<runs, manual>>
       \/ /\ Shown = 0 /\ writer.main # writer.assets.tree.parent
          /\ IsCandidate(writer.main)
          /\ Goes("await")
          /\ UNCHANGED <<runs, manual>>
       \/ /\ Shown = 0 /\ writer.main # writer.assets.tree.parent
          /\ ~IsCandidate(writer.main)
          /\ Leaves("failed")
    /\ UNCHANGED <<remote, npm, kills, shows>>

\* The commit is there and its tag is not shown yet: ask again, and do not
\* believe the main that was read before.
AwaitTag ==
    /\ At("await") /\ Shown # 0
    /\ \/ /\ writer.main = main
          /\ writer' = [writer EXCEPT !.at = "release", !.named = Shown]
          /\ UNCHANGED <<runs, manual>>
       \/ writer.main # main /\ Leaves("failed")
    /\ UNCHANGED <<remote, npm, kills, shows>>

DraftsOf(v) == {d \in DOMAIN drafts : drafts[d].tag = v}

\* exactRemoteAssets() and exactRemoteMetadata()
Exact(assets) == assets = writer.assets

\* What /releases/tags/TAG may answer: the public release, or a draft.
Answers(v) ==
    IF published[v] # None THEN {[draft |-> FALSE, assets |-> published[v]]}
    ELSE IF shows /\ DraftsOf(v) # {}
         THEN {[draft |-> TRUE, assets |-> drafts[d].assets] : d \in DraftsOf(v)}
         ELSE {None}

\* The tag names the candidate, and the candidate is main.
Reviewed ==
    /\ writer.main # writer.assets.tree.parent
    /\ IsCandidate(writer.main)
    /\ writer.named = writer.main

\* Mutant: a draft that is not the candidate's stops the job.
ClassifyOwnDraft(answer) ==
    CASE writer.named = 0 /\ answer = None
           /\ writer.main = writer.assets.tree.parent -> "create"
      [] writer.named # 0 /\ Reviewed /\ answer = None -> "release-create"
      [] writer.named # 0 /\ Reviewed /\ answer # None ->
           IF ~Exact(answer.assets) THEN "unsafe"
           ELSE IF answer.draft THEN "draft-complete" ELSE "complete"
      [] OTHER -> "unsafe"

\* classifyRemoteRelease(); "unsafe" stands for each of its refusals.
Classify(answer) ==
    CASE writer.named = 0 /\ answer = None
           /\ writer.main = writer.assets.tree.parent -> "create"
      [] writer.named # 0 /\ Reviewed /\ answer = None -> "release-create"
      [] writer.named # 0 /\ Reviewed /\ answer # None /\ answer.draft ->
           IF Exact(answer.assets) THEN "draft-complete" ELSE "draft-replace"
      [] writer.named # 0 /\ Reviewed /\ answer # None /\ ~answer.draft
           /\ Exact(answer.assets) /\ latest = writer.tag -> "complete"
      [] OTHER -> "unsafe"

\* The step that follows in the job: the push, the second look, or the release.
NextStep(mode) ==
    IF ~writer.recheck
    THEN CASE mode = "unsafe" -> "failed"
           [] mode = "create" -> "push"
           [] OTHER -> "main"
    ELSE CASE mode = "complete" -> "done"
           [] mode = "draft-replace" -> "delete"
           [] mode = "release-create" -> "create"
           [] mode = "draft-complete" -> "list"
           [] OTHER -> "failed"

ReadRelease ==
    /\ At("release")
    /\ \E answer \in Answers(writer.tag) :
         LET step == NextStep(Classify(answer)) IN
           \/ step \in {"failed", "done"} /\ Leaves(step)
           \/ /\ step \notin {"failed", "done"}
              /\ writer' = [writer EXCEPT !.at = step, !.recheck = @ \/ step = "main"]
              /\ UNCHANGED <<runs, manual>>
    /\ UNCHANGED <<remote, npm, kills, shows>>

----------------------------------------------------------------------------
(* The writes of the two publication jobs. *)

\* verifyLocalReleaseCandidate(), then git push --atomic of commit and tag.
Push ==
    /\ At("push")
    /\ \/ /\ main = writer.assets.tree.parent /\ tags[writer.tag] = None
          /\ commits' = Append(commits, writer.assets.tree)
          /\ tags' = [tags EXCEPT ![writer.tag] =
                        [commit |-> main + 1, candidate |-> main + 1]]
          /\ lagging' = lagging \cup {writer.tag}
          /\ writer' = [writer EXCEPT !.at = "main", !.recheck = TRUE]
          /\ UNCHANGED <<runs, manual>>
       \/ /\ main # writer.assets.tree.parent \/ tags[writer.tag] # None
          /\ Leaves("failed")
          /\ UNCHANGED <<commits, tags, lagging>>
    /\ UNCHANGED <<drafts, published, latest, npm, kills, shows>>

Unreleased(v) == published[v] = None /\ DraftsOf(v) = {}

\* Mutant: what was resolved before the approval is believed after it.
VerifyBelieves ==
    /\ At("verify")
    /\ \/ Unreleased(writer.tag) /\ Goes("create") /\ UNCHANGED <<runs, manual>>
       \/ ~Unreleased(writer.tag) /\ Leaves("failed")
    /\ UNCHANGED <<remote, npm, kills, shows>>

\* The approved manual job repeats resolveCandidate() and refuses a tag that
\* has a release of any kind.
Verify ==
    /\ At("verify")
    /\ \/ /\ Resolves(writer.tag) /\ Unreleased(writer.tag)
          /\ Goes("create") /\ UNCHANGED <<runs, manual>>
       \/ /\ ~(Resolves(writer.tag) /\ Unreleased(writer.tag))
          /\ Leaves("failed")
    /\ UNCHANGED <<remote, npm, kills, shows>>

Without(d) == [e \in DOMAIN drafts \ {d} |-> drafts[e]]

DeleteDraft ==
    /\ At("delete")
    /\ \E d \in DraftsOf(writer.tag) : drafts' = Without(d)
    /\ Goes("create")
    /\ UNCHANGED <<commits, tags, lagging, published, latest, npm, runs, manual,
                   kills, shows>>

Create ==
    /\ At("create")
    /\ \E d \in (1..(MaxKills + 2)) \ DOMAIN drafts :
         /\ \A e \in 1..(d - 1) : e \in DOMAIN drafts
         /\ drafts' = [e \in DOMAIN drafts \cup {d} |->
              IF e = d THEN [tag |-> writer.tag, assets |-> None] ELSE drafts[e]]
    /\ writer' = [writer EXCEPT !.at = "upload", !.created = TRUE]
    /\ UNCHANGED <<commits, tags, lagging, published, latest, npm, runs, manual,
                   kills, shows>>

\* The trap: a draft this job created, or another of its tag, is deleted.
CleansUp ==
    \/ ~writer.created /\ UNCHANGED drafts
    \/ writer.created /\ \E d \in DraftsOf(writer.tag) : drafts' = Without(d)

\* The files go to a draft of the tag; one that has files already refuses them.
Upload ==
    /\ At("upload")
    /\ \/ \E d \in DraftsOf(writer.tag) :
            /\ drafts[d].assets = None
            /\ drafts' = [drafts EXCEPT ![d].assets = writer.assets]
            /\ Goes("list") /\ UNCHANGED <<runs, manual>>
       \/ /\ Cardinality(DraftsOf(writer.tag)) > 1
          /\ CleansUp /\ Leaves("failed")
    /\ UNCHANGED <<commits, tags, lagging, published, latest, npm, kills, shows>>

\* verifyGitHubDraft(): the listing must show one draft, whole and this job's.
VerifyDraft ==
    /\ At("list")
    /\ LET whole == \E d \in DraftsOf(writer.tag) :
             DraftsOf(writer.tag) = {d} /\ Exact(drafts[d].assets)
       IN \/ /\ whole
             /\ writer' = [writer EXCEPT !.at = "edit", !.created = FALSE]
             /\ UNCHANGED <<drafts, runs, manual>>
          \/ ~whole /\ CleansUp /\ Leaves("failed")
    /\ UNCHANGED <<commits, tags, lagging, published, latest, npm, kills, shows>>

Publish ==
    /\ At("edit")
    /\ \E d \in DraftsOf(writer.tag) :
         /\ published' = [published EXCEPT ![writer.tag] = drafts[d].assets]
         /\ drafts' = Without(d)
    /\ latest' = writer.tag
    /\ Goes("check")
    /\ UNCHANGED <<commits, tags, lagging, npm, runs, manual, kills, shows>>

\* verifyGitHubPublished()
VerifyPublished ==
    /\ At("check")
    /\ Leaves(IF Exact(published[writer.tag]) /\ latest = writer.tag
              THEN "done" ELSE "failed")
    /\ UNCHANGED <<remote, npm, kills, shows>>

----------------------------------------------------------------------------
(* A command of the job fails, or the job is killed, or its place in the   *)
(* queue is taken by a later one.                                          *)

Misfortune == kills < MaxKills /\ kills' = kills + 1

StepFails ==
    /\ Misfortune /\ writer # None
    /\ CleansUp \/ UNCHANGED drafts
    /\ Leaves("failed")
    /\ UNCHANGED <<commits, tags, lagging, published, latest, npm, shows>>

Superseded(j) ==
    /\ Misfortune /\ writer # None
    /\ \/ /\ j \in Runs /\ runs[j].at = "built"
          /\ runs' = [runs EXCEPT ![j].at = "failed"] /\ UNCHANGED manual
       \/ /\ j \in Versions /\ manual[j] = "approval"
          /\ manual' = [manual EXCEPT ![j] = "failed"] /\ UNCHANGED runs
    /\ UNCHANGED <<remote, npm, writer, shows>>

Write ==
    \/ ReadMain \/ ReadTag \/ AwaitTag \/ ReadRelease \/ Push \/ Verify
    \/ DeleteDraft \/ Create \/ Upload \/ VerifyDraft \/ Publish \/ VerifyPublished

Next ==
    \/ HumanCommit \/ ShellReleased
    \/ \E v \in Versions : HumanTag(v) \/ TagVisible(v) \/ Resolve(v) \/ EnterManual(v)
    \/ \E r \in Runs : Trigger(r) \/ EnterRun(r)
    \/ \E j \in Jobs : Rerun(j) \/ Superseded(j)
    \/ Write \/ StepFails

Spec == Init /\ [][Next]_vars

FairSpec ==
    /\ Spec /\ WF_vars(Write)
    /\ \A v \in Versions : WF_vars(TagVisible(v)) /\ WF_vars(Resolve(v))
    /\ \A v \in Versions : SF_vars(EnterManual(v))
    /\ \A r \in Runs : SF_vars(EnterRun(r)) /\ SF_vars(Rerun(r))

----------------------------------------------------------------------------
(* Properties. *)

\* A public release is whole, and its files were built of the very tree that
\* its tag names on main: "nothing partial ever becomes visible", whichever job
\* is killed, superseded or rerun and whoever pushes between its looks at GitHub
\* (release-coordinator.mjs, release-candidate.mjs).
PublishedIsReviewed ==
    /\ TypeOK
    /\ \A v \in Versions : published[v] # None =>
         /\ tags[v] # None
         /\ published[v].tree = commits[tags[v].commit]
         /\ published[v].tree.version = v

\* The feed of the installed updaters only grows: no public release is replaced
\* or withdrawn, the latest one is public, and no job sets it back to an older
\* version, however long its approval took (resolveCandidate() twice).
FeedGrows ==
    [][/\ \A v \in Versions : published[v] # None => published'[v] = published[v]
       /\ latest' >= latest
       /\ published'[latest'] # None]_vars

\* The commit that run r pushed is main's tip and has no public release yet.
Stands(r) ==
    /\ runs[r].base > 0 /\ main = runs[r].base + 1
    /\ commits[main] = Candidate(r)
    /\ published[commits[main].version] = None

LeftDraft == DraftsOf(commits[main].version) # {}

\* Reruns of an intake run whose commit is out finish its release, whatever was
\* done of it before: none is refused that nobody killed, unless main moved on (then
\* they refuse for good) or a draft was left that GitHub does not show them
\* (classifyRemoteRelease() and the publication job).
RerunPublishes ==
    [][\A r \in Runs :
         runs[r].at = "writing" /\ runs'[r].at = "failed" /\ Stands(r) =>
           kills' > kills \/ (~shows /\ LeftDraft)]_vars

\* docs/RELEASING.md: "Retries resume; nothing partial ever becomes visible."
\* inspectRemoteRelease() asks the endpoint that knows public releases only.
RetriesResume == \A r \in Runs : Stands(r) ~> ~Stands(r)
=============================================================================
