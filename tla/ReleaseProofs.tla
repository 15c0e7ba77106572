----------------------------- MODULE ReleaseProofs -----------------------------
(***************************************************************************)
(* Proofs about ReleaseCoordinator.tla, for any number of runs, commits,    *)
(* versions, killed jobs and reruns: a public release is what its tag names *)
(* on main, the feed never goes back, and a rerun is not refused without a  *)
(* reason.                                                                  *)
(*                                                                          *)
(* The inductive invariant says what main and its tags are like, what the   *)
(* job in the publication group knows of them at each of its steps, though  *)
(* people go on pushing after it has looked, and that while it writes nobody *)
(* else has published anything newer than what it found.                    *)
(***************************************************************************)
EXTENDS ReleaseCoordinator, FiniteSetTheorems, TLAPS

\* main grows by one commit at a time, versions never go back on it, and a commit of
\* the automation has the tag of its version.
History ==
    /\ \A c \in 1..main : commits[c].parent = c - 1
    /\ \A c, d \in 1..main : c <= d => commits[c].version <= commits[d].version
    /\ \A c \in 1..main : commits[c].automated =>
         /\ tags[commits[c].version] # None
         /\ tags[commits[c].version].commit = c

\* A tag and its candidate are on main; a tag's job has its tag.
TagsAre ==
    /\ \A v \in Versions : tags[v] # None =>
         tags[v].commit \in 1..main /\ tags[v].candidate \in 1..main
    /\ \A v \in Versions : manual[v] # "idle" => tags[v] # None

\* A public release is of the commit that its tag names.
PublicAre ==
    /\ published[latest] # None
    /\ \A v \in Versions : published[v] # None =>
         /\ tags[v] # None
         /\ published[v].tree = commits[tags[v].commit]
         /\ published[v].tree.version = v

\* A run was prepared on a commit of main that leaves room for the next.
RunsAre ==
    \A r \in Runs : runs[r].at # "idle" =>
        /\ runs[r].base \in 1..main /\ runs[r].base < MaxCommits
        /\ commits[runs[r].base].version < MaxVersion

\* Whose job is in the publication group, and what it is to release.
WriterIs ==
    writer # None =>
        /\ writer.assets.job = writer.job
        /\ writer.job \in Runs =>
             /\ runs[writer.job].at = "writing" /\ writer.at # "verify"
             /\ writer.assets.tree = Candidate(writer.job)
             /\ writer.tag = writer.assets.tree.version
        /\ writer.job \in Versions =>
             /\ writer.at \in {"verify", "create", "upload", "list", "edit", "check"}
             /\ writer.tag = writer.job /\ tags[writer.tag] # None
             /\ writer.assets.tree = commits[tags[writer.tag].candidate]

\* What it has seen of main: nothing public is newer, and what was pushed since is
\* not of the automation.
Looking == {"tag", "await", "release", "push"}
Seen ==
    writer # None /\ writer.at \in Looking =>
        /\ writer.main \in 1..main
        /\ \A c \in 1..main : writer.main < c => ~commits[c].automated
        /\ \A v \in Versions : published[v] # None => tags[v].commit <= writer.main
        /\ writer.at = "push" => writer.main = writer.assets.tree.parent
        /\ writer.at = "await" => /\ writer.main # writer.assets.tree.parent
                                  /\ IsCandidate(writer.main)
        /\ writer.at = "release" =>
             \/ writer.named = 0 /\ writer.main = writer.assets.tree.parent
             \/ tags[writer.tag] # None /\ tags[writer.tag].commit = writer.named

\* What it releases is what its tag names; the version is not public, and what is
\* public is not newer.
Releasing == {"delete", "create", "upload", "list", "edit"}
Chosen ==
    writer # None /\ writer.at \in Releasing =>
        /\ tags[writer.tag] # None
        /\ commits[tags[writer.tag].commit] = writer.assets.tree
        /\ writer.assets.tree.version = writer.tag
        /\ published[writer.tag] = None
        /\ \A v \in Versions : published[v] # None => tags[v].commit <= tags[writer.tag].commit

\* Where GitHub shows drafts there is one of a version at most.
OneDraft == shows => \A d, e \in DOMAIN drafts : drafts[d].tag = drafts[e].tag => d = e

\* What the drafts of its version are like at the last steps of the job.
DraftsAre ==
    /\ OneDraft
    /\ At("create") /\ shows => DraftsOf(writer.tag) = {}
    /\ At("list") => \E d \in DraftsOf(writer.tag) : Exact(drafts[d].assets)
    /\ At("edit") => \A d \in DraftsOf(writer.tag) : Exact(drafts[d].assets)
    /\ At("check") => published[writer.tag] # None

Inv == /\ TypeOK /\ History /\ TagsAre /\ PublicAre /\ RunsAre
       /\ WriterIs /\ Seen /\ Chosen /\ DraftsAre

-----------------------------------------------------------------------------
(* What the types give.                                                     *)

Steps == {"main", "tag", "await", "release", "push", "verify", "delete", "create",
          "upload", "list", "edit", "check"}
Writers == [job : Jobs, tag : Versions, assets : Assets, created : BOOLEAN, at : Steps,
            recheck : BOOLEAN, main : 0..MaxCommits, named : 0..MaxCommits]
Intakes == [at : {"idle", "built", "writing", "failed", "done"}, base : 0..MaxCommits,
            shell : 1..MaxShell]
Manuals == {"idle", "resolve", "approval", "writing", "failed", "done"}
Drafts == [tag : Versions, assets : {None} \cup Assets]

\* The bounds are positive, and no run has the name of a version.
LEMMA Bounds ==
    /\ MaxCommits \in Nat \ {0} /\ MaxVersion \in Nat \ {0} /\ MaxShell \in Nat \ {0}
    /\ MaxKills \in Nat \ {0}
    /\ 1 \in CommitIds /\ 1 \in Versions
    /\ \A r \in Runs : r \notin Versions
  BY BoundsAssumption, NamesAssumption DEF CommitIds, Versions

\* The types, one variable at a time.
LEMMA TypesAre ==
  ASSUME TypeOK
  PROVE  /\ commits \in Seq(Trees) /\ main \in Nat /\ main \in CommitIds
         /\ tags \in [Versions -> {None} \cup Tags] /\ lagging \in SUBSET Versions
         /\ DOMAIN drafts \subseteq 1..(MaxKills + 2)
         /\ \A d \in DOMAIN drafts : drafts[d] \in Drafts
         /\ published \in [Versions -> {None} \cup Assets]
         /\ latest \in Versions /\ npm \in 1..MaxShell
         /\ runs \in [Runs -> Intakes] /\ manual \in [Versions -> Manuals]
         /\ writer # None => writer \in Writers
         /\ kills \in 0..MaxKills /\ shows \in BOOLEAN
  BY BoundsAssumption DEF TypeOK, Intakes, Manuals, Drafts, Writers, Steps, CommitIds

\* And back.
LEMMA TypesBack ==
  ASSUME commits \in Seq(Trees), main \in CommitIds,
         tags \in [Versions -> {None} \cup Tags], lagging \in SUBSET Versions,
         DOMAIN drafts \subseteq 1..(MaxKills + 2),
         \A d \in DOMAIN drafts : drafts[d] \in Drafts,
         published \in [Versions -> {None} \cup Assets],
         latest \in Versions, npm \in 1..MaxShell,
         runs \in [Runs -> Intakes], manual \in [Versions -> Manuals],
         writer = None \/ writer \in Writers, kills \in 0..MaxKills, shows \in Endpoints
  PROVE  TypeOK
  BY DEF TypeOK, Intakes, Manuals, Drafts, Writers, Steps

\* A commit of main.
LEMMA CommitHas ==
  ASSUME TypeOK, NEW c \in 1..main
  PROVE  /\ commits[c] \in Trees /\ c \in CommitIds /\ c \in Nat
         /\ commits[c].version \in Versions /\ commits[c].shell \in 1..MaxShell
         /\ commits[c].parent \in 0..MaxCommits /\ commits[c].automated \in BOOLEAN
  <1>1. commits \in Seq(Trees) /\ main \in Nat /\ main \in 1..MaxCommits
    BY TypesAre DEF CommitIds
  <1>2. commits[c] \in Trees
    BY <1>1 DEF main
  <1> QED
    BY <1>1, <1>2, Bounds DEF Trees, CommitIds

\* A tag names a commit and the candidate it was made for.
LEMMA TagHas ==
  ASSUME TypeOK, NEW v \in Versions, tags[v] # None
  PROVE  tags[v] \in Tags /\ tags[v].commit \in CommitIds /\ tags[v].candidate \in CommitIds
  BY TypesAre DEF Tags

\* The fields of the job that writes.
LEMMA WriterHas ==
  ASSUME TypeOK, writer # None
  PROVE  /\ writer \in Writers /\ writer.job \in Jobs /\ writer.tag \in Versions
         /\ writer.assets \in Assets /\ writer.assets.tree \in Trees
         /\ writer.created \in BOOLEAN /\ writer.recheck \in BOOLEAN
         /\ writer.at \in Steps
         /\ writer.main \in 0..MaxCommits /\ writer.named \in 0..MaxCommits
         /\ writer.assets # None
  BY TypesAre, NamesAssumption DEF Writers, Assets

\* The candidate of a run is a tree that may follow its base.
LEMMA CandidateIs ==
  ASSUME TypeOK, RunsAre, NEW r \in Runs, runs[r].at # "idle"
  PROVE  /\ Candidate(r) \in Trees /\ Candidate(r).version \in Versions
         /\ Candidate(r).parent = runs[r].base
         /\ Candidate(r).version = commits[runs[r].base].version + 1
         /\ Candidate(r).shell = runs[r].shell /\ Candidate(r).automated = TRUE
  <1>1. runs[r] \in Intakes /\ runs[r].base \in 1..main
        /\ commits[runs[r].base].version < MaxVersion
    BY TypesAre DEF RunsAre
  <1>2. runs[r].shell \in 1..MaxShell /\ runs[r].base \in 0..MaxCommits
    BY <1>1 DEF Intakes
  <1>3. commits[runs[r].base].version \in 1..MaxVersion
    BY <1>1, CommitHas DEF Versions
  <1>4. commits[runs[r].base].version + 1 \in Versions
    BY <1>1, <1>3, Bounds DEF Versions
  <1> QED
    BY <1>2, <1>4 DEF Candidate, Trees

-----------------------------------------------------------------------------
(* People.                                                                  *)

\* A commit on top of main, of a version that is not older.
LEMMA MainGrows ==
  ASSUME TypeOK, History, main < MaxCommits, NEW tree \in Trees,
         commits' = Append(commits, tree),
         tree.parent = main, commits[main].version <= tree.version
  PROVE  /\ commits' \in Seq(Trees) /\ main' = main + 1 /\ main' \in CommitIds
         /\ 1..main \subseteq 1..main' /\ main' \in 1..main' /\ main \in 1..main
         /\ commits'[main'] = tree
         /\ \A c \in 1..main : commits'[c] = commits[c]
         /\ \A c \in 1..main' : c \in 1..main \/ c = main'
         /\ \A c \in 1..main' : commits'[c].parent = c - 1
         /\ \A c, d \in 1..main' : c <= d => commits'[c].version <= commits'[d].version
  <1>1. commits \in Seq(Trees) /\ main \in Nat /\ main \in 1..MaxCommits
    BY TypesAre DEF CommitIds
  <1>2. /\ commits' \in Seq(Trees) /\ main' = main + 1
        /\ commits'[main + 1] = tree /\ \A c \in 1..main : commits'[c] = commits[c]
    BY <1>1 DEF main
  <1>3. /\ main' \in CommitIds /\ 1..main \subseteq 1..main' /\ main' \in 1..main'
        /\ main \in 1..main /\ main + 1 = main'
        /\ \A c \in 1..main' : c \in 1..main \/ c = main'
    BY <1>1, <1>2, Bounds DEF CommitIds
  <1>4. \A c \in 1..main' : commits'[c].parent = c - 1
    BY <1>1, <1>2, <1>3 DEF History
  <1>5. ASSUME NEW c \in 1..main', NEW d \in 1..main', c <= d
        PROVE  commits'[c].version <= commits'[d].version
    <2>1. CASE d \in 1..main
      <3>1. c \in 1..main
        BY <1>1, <1>5, <2>1
      <3> QED
        BY <1>2, <1>5, <2>1, <3>1 DEF History
    <2>2. CASE c \in 1..main /\ d = main'
      <3>1. commits'[d] = tree /\ commits'[c] = commits[c]
        BY <1>2, <1>3, <2>2
      <3>2. commits[c].version <= commits[main].version
        BY <1>1, <1>3, <2>2 DEF History
      <3>3. commits[c].version \in Nat /\ commits[main].version \in Nat /\ tree.version \in Nat
        <4>1. \A v \in Versions : v \in Nat
          BY Bounds DEF Versions
        <4>2. tree.version \in Versions
          BY DEF Trees
        <4>3. commits[c].version \in Versions /\ commits[main].version \in Versions
          BY <1>3, <2>2, CommitHas
        <4> QED
          BY <4>1, <4>2, <4>3
      <3> DEFINE x == commits[c].version
                 y == commits[main].version
                 z == tree.version
      <3>4. x \in Nat /\ y \in Nat /\ z \in Nat /\ x <= y /\ y <= z
        BY <3>2, <3>3
      <3> HIDE DEF x, y, z
      <3>5. x <= z
        BY <3>4
      <3> QED
        BY <3>1, <3>5 DEF x, z
    <2>3. CASE c = main' /\ d = main'
      <3>1. commits'[d] = tree /\ commits'[c] = tree
        BY <1>2, <1>3, <2>3
      <3>2. tree.version \in Nat
        BY Bounds DEF Versions, Trees
      <3> QED
        BY <3>1, <3>2
    <2> QED
      BY <1>1, <1>3, <1>5, <2>1, <2>2, <2>3
  <1> QED
    BY <1>2, <1>3, <1>4, <1>5

\* What was said of runs and of the writer holds on a longer main.
LEMMA StillKnown ==
  ASSUME Inv, UNCHANGED <<runs, writer>>,
         1..main \subseteq 1..main', \A c \in 1..main : commits'[c] = commits[c],
         \A v \in Versions : tags[v] # None => tags'[v] = tags[v]
  PROVE  RunsAre' /\ WriterIs'
  <1>1. RunsAre'
    BY DEF Inv, RunsAre
  <1>2. writer # None => writer \in Writers /\ writer.tag \in Versions
    BY WriterHas DEF Inv
  <1>3. WriterIs'
    <2>1. ASSUME writer # None, writer.job \in Runs
          PROVE  Candidate(writer.job)' = Candidate(writer.job)
      <3>1. runs[writer.job].base \in 1..main
        BY <2>1 DEF Inv, WriterIs, RunsAre
      <3> QED
        BY <3>1 DEF Candidate
    <2>2. ASSUME writer # None, writer.job \in Versions
          PROVE  /\ tags'[writer.tag] = tags[writer.tag]
                 /\ commits'[tags'[writer.tag].candidate] = commits[tags[writer.tag].candidate]
      BY <1>2, <2>2 DEF Inv, WriterIs, TagsAre
    <2> QED
      BY <2>1, <2>2 DEF Inv, WriterIs
  <1> QED
    BY <1>1, <1>3

\* A commit of somebody else goes on top; nothing that was read changes.
LEMMA HumanCommitInv ==
  ASSUME Inv, HumanCommit
  PROVE  Inv'
  <1>1. main < MaxCommits /\ UNCHANGED <<tags, lagging, drafts, published, latest, npm, runs,
                                         manual, writer, kills, shows>>
    BY DEF HumanCommit
  <1>2. PICK v \in {commits[main].version, commits[main].version + 1} \cap Versions,
             s \in commits[main].shell..npm :
          commits' = Append(commits, [parent |-> main, version |-> v, shell |-> s,
                                      automated |-> FALSE])
    BY DEF HumanCommit
  <1> DEFINE tree == [parent |-> main, version |-> v, shell |-> s, automated |-> FALSE]
  <1>3. main \in 1..main /\ main \in Nat /\ main \in 0..MaxCommits
    BY <1>1, TypesAre, Bounds DEF Inv, CommitIds
  <1>4. commits[main].version \in Nat /\ commits[main].shell \in 1..MaxShell
    BY <1>3, CommitHas, Bounds DEF Inv, Versions
  <1>5. s \in 1..MaxShell /\ commits[main].version <= v
    BY <1>2, <1>4, TypesAre, Bounds DEF Inv
  <1>6. tree \in Trees /\ tree.parent = main /\ tree.version = v /\ tree.automated = FALSE
    BY <1>2, <1>3, <1>5 DEF Trees
  <1> HIDE DEF tree
  <1>7. commits' = Append(commits, tree)
    BY <1>2 DEF tree
  <1>8. /\ commits' \in Seq(Trees) /\ main' = main + 1 /\ main' \in CommitIds
        /\ 1..main \subseteq 1..main' /\ main' \in 1..main'
        /\ commits'[main'] = tree
        /\ \A c \in 1..main : commits'[c] = commits[c]
        /\ \A c \in 1..main' : c \in 1..main \/ c = main'
        /\ \A c \in 1..main' : commits'[c].parent = c - 1
        /\ \A c, d \in 1..main' : c <= d => commits'[c].version <= commits'[d].version
    BY <1>1, <1>5, <1>6, <1>7, MainGrows DEF Inv
  <1>9. TypeOK'
    BY <1>1, <1>8 DEF Inv, TypeOK
  <1>10. History'
    <2>1. \A c \in 1..main : commits[c].automated =>
            /\ tags[commits[c].version] # None
            /\ tags[commits[c].version].commit = c
      BY DEF Inv, History
    <2>2. \A c \in 1..main' : commits'[c].automated => c \in 1..main /\ commits'[c] = commits[c]
      BY <1>6, <1>8
    <2>3. \A c \in 1..main' : commits'[c].automated =>
            /\ tags'[commits'[c].version] # None
            /\ tags'[commits'[c].version].commit = c
      BY <1>1, <2>1, <2>2
    <2> QED
      BY <1>8, <2>3 DEF History
  <1>11. TagsAre'
    BY <1>1, <1>8 DEF Inv, TagsAre
  <1>12. PublicAre'
    BY <1>1, <1>8 DEF Inv, PublicAre, TagsAre
  <1>13. RunsAre' /\ WriterIs'
    BY <1>1, <1>8, StillKnown
  <1>14. Seen'
    <2>1. \A c \in 1..main' : commits'[c].automated => c \in 1..main /\ commits[c].automated
      BY <1>6, <1>8
    <2> QED
      BY <1>1, <1>8, <2>1 DEF Inv, Seen, IsCandidate
  <1>15. Chosen'
    <2> SUFFICES ASSUME writer # None, writer.at \in Releasing
                 PROVE  /\ tags[writer.tag] # None
                        /\ commits'[tags[writer.tag].commit] = writer.assets.tree
                        /\ writer.assets.tree.version = writer.tag
                        /\ published[writer.tag] = None
                        /\ \A u \in Versions : published[u] # None =>
                              tags[u].commit <= tags[writer.tag].commit
      BY <1>1 DEF Chosen
    <2>1. writer.tag \in Versions
      BY WriterHas DEF Inv
    <2> QED
      BY <1>8, <2>1 DEF Inv, Chosen, TagsAre
  <1>16. DraftsAre'
    BY <1>1 DEF Inv, DraftsAre, OneDraft, At, DraftsOf, Exact
  <1> QED
    BY <1>9, <1>10, <1>11, <1>12, <1>13, <1>14, <1>15, <1>16 DEF Inv

\* A tag that somebody pushes names a commit of main, and is not yet visible.
LEMMA HumanTagInv ==
  ASSUME Inv, NEW v \in Versions, HumanTag(v)
  PROVE  Inv'
  <1>1. /\ tags[v] = None /\ manual' = [manual EXCEPT ![v] = "resolve"]
        /\ lagging' = lagging \cup {v}
        /\ UNCHANGED <<commits, drafts, published, latest, npm, runs, writer, kills, shows>>
    BY DEF HumanTag
  <1>2. PICK c \in 1..main, candidate \in 1..main :
          tags' = [tags EXCEPT ![v] = [commit |-> c, candidate |-> candidate]]
    BY DEF HumanTag
  <1> DEFINE tag == [commit |-> c, candidate |-> candidate]
  <1>3. tag \in Tags /\ tag # None /\ tag.commit = c /\ tag.candidate = candidate
    BY CommitHas, NamesAssumption DEF Inv, Tags
  <1> HIDE DEF tag
  <1>4. /\ tags' \in [Versions -> {None} \cup Tags] /\ tags'[v] = tag
        /\ \A u \in Versions : u # v => tags'[u] = tags[u]
    BY <1>2, <1>3, TypesAre DEF Inv, tag
  <1>5. \A u \in Versions : tags[u] # None => tags'[u] = tags[u] /\ u # v
    BY <1>1, <1>4
  <1>6. manual' \in [Versions -> Manuals] /\ \A u \in Versions : u # v => manual'[u] = manual[u]
    BY <1>1, TypesAre DEF Inv, Manuals
  <1>7. main' = main
    BY <1>1 DEF main
  <1>8. TypeOK'
    <2>1. lagging' \in SUBSET Versions
      BY <1>1, TypesAre DEF Inv
    <2> QED
      BY <1>1, <1>4, <1>6, <1>7, <2>1 DEF Inv, TypeOK, Manuals
  <1>9. History'
    <2>1. \A d \in 1..main : commits[d].automated =>
            /\ tags'[commits[d].version] # None /\ tags'[commits[d].version].commit = d
      BY <1>5, CommitHas DEF Inv, History
    <2> QED
      BY <1>1, <1>7, <2>1 DEF Inv, History
  <1>10. TagsAre'
    BY <1>2, <1>3, <1>4, <1>6, <1>7 DEF Inv, TagsAre
  <1>11. PublicAre'
    BY <1>1, <1>5 DEF Inv, PublicAre
  <1>12. RunsAre' /\ WriterIs'
    BY <1>1, <1>5, <1>7, StillKnown
  <1>13. writer # None => writer.tag \in Versions
    BY WriterHas DEF Inv
  <1>14. Seen'
    <2> SUFFICES ASSUME writer # None, writer.at \in Looking
                 PROVE  Seen'
      BY <1>1 DEF Seen
    <2>1. \A u \in Versions : published[u] # None => tags'[u].commit <= writer.main
      BY <1>5 DEF Inv, Seen, PublicAre
    <2>2. tags[writer.tag] # None => tags'[writer.tag] = tags[writer.tag]
      BY <1>5, <1>13
    <2> QED
      BY <1>1, <1>7, <2>1, <2>2 DEF Inv, Seen, IsCandidate
  <1>15. Chosen'
    <2> SUFFICES ASSUME writer # None, writer.at \in Releasing
                 PROVE  Chosen'
      BY <1>1 DEF Chosen
    <2>1. tags'[writer.tag] = tags[writer.tag]
      BY <1>5, <1>13 DEF Inv, Chosen
    <2>2. \A u \in Versions : published[u] # None =>
            tags'[u].commit <= tags'[writer.tag].commit
      BY <1>5, <2>1 DEF Inv, Chosen, PublicAre
    <2> QED
      BY <1>1, <2>1, <2>2 DEF Inv, Chosen
  <1>16. DraftsAre'
    BY <1>1 DEF Inv, DraftsAre, OneDraft, At, DraftsOf, Exact
  <1> QED
    BY <1>8, <1>9, <1>10, <1>11, <1>12, <1>14, <1>15, <1>16 DEF Inv

-----------------------------------------------------------------------------
(* The workflows up to their publication jobs.                               *)

\* What GitHub has and the job in the publication group are as they were.
LEMMA QuietInv ==
  ASSUME Inv, UNCHANGED <<commits, tags, drafts, published, latest, writer, shows>>,
         lagging' \in SUBSET Versions, npm' \in 1..MaxShell, kills' \in 0..MaxKills,
         runs' \in [Runs -> Intakes], manual' \in [Versions -> Manuals],
         \A v \in Versions : manual'[v] # "idle" => tags[v] # None,
         \A r \in Runs : runs[r].at = "writing" => runs'[r] = runs[r],
         RunsAre'
  PROVE  Inv'
  <1>1. main' = main
    BY DEF main
  <1>2. TypeOK'
    BY <1>1 DEF Inv, TypeOK, Intakes, Manuals
  <1>3. History' /\ TagsAre' /\ PublicAre'
    BY <1>1 DEF Inv, History, TagsAre, PublicAre
  <1>4. WriterIs'
    BY DEF Inv, WriterIs, Candidate
  <1>5. Seen' /\ Chosen'
    BY <1>1 DEF Inv, Seen, Chosen, IsCandidate
  <1>6. DraftsAre'
    BY DEF Inv, DraftsAre, OneDraft, At, DraftsOf, Exact
  <1> QED
    BY <1>2, <1>3, <1>4, <1>5, <1>6 DEF Inv

\* A new Shell is part of no commit yet.
LEMMA ShellReleasedInv ==
  ASSUME Inv, ShellReleased
  PROVE  Inv'
  <1>1. /\ npm < MaxShell /\ npm' = npm + 1
        /\ UNCHANGED <<commits, tags, lagging, drafts, published, latest, runs, manual,
                       writer, kills, shows>>
    BY DEF ShellReleased, remote
  <1>2. npm' \in 1..MaxShell
    BY <1>1, TypesAre, Bounds DEF Inv
  <1>3. RunsAre'
    BY <1>1 DEF Inv, RunsAre, main
  <1> QED
    BY <1>1, <1>2, <1>3, QuietInv, TypesAre DEF Inv, TagsAre

\* A tag that becomes visible is the one that was pushed.
LEMMA TagVisibleInv ==
  ASSUME Inv, NEW v \in Versions, TagVisible(v)
  PROVE  Inv'
  <1>1. /\ lagging' = lagging \ {v}
        /\ UNCHANGED <<commits, tags, drafts, published, latest, npm, runs, manual,
                       writer, kills, shows>>
    BY DEF TagVisible
  <1>2. RunsAre'
    BY <1>1 DEF Inv, RunsAre, main
  <1> QED
    BY <1>1, <1>2, QuietInv, TypesAre DEF Inv, TagsAre

\* A pushed tag is accepted or not before its job may write.
LEMMA ResolveInv ==
  ASSUME Inv, NEW v \in Versions, Resolve(v)
  PROVE  Inv'
  <1> DEFINE now == IF Resolves(v) THEN "approval" ELSE "done"
  <1>1. /\ manual[v] = "resolve" /\ manual' = [manual EXCEPT ![v] = now]
        /\ UNCHANGED <<commits, tags, lagging, drafts, published, latest, npm, runs,
                       writer, kills, shows>>
    BY DEF Resolve, remote
  <1>2. now \in Manuals
    BY DEF Manuals
  <1>3. manual' \in [Versions -> Manuals]
        /\ \A u \in Versions : manual'[u] # "idle" => tags[u] # None
    <2> HIDE DEF now
    <2> QED
      BY <1>1, <1>2, TypesAre DEF Inv, TagsAre
  <1>4. RunsAre'
    BY <1>1 DEF Inv, RunsAre, main
  <1> QED
    BY <1>1, <1>3, <1>4, QuietInv, TypesAre DEF Inv

\* An intake run begins with the main and the Shell of its time.
LEMMA TriggerInv ==
  ASSUME Inv, NEW r \in Runs, Trigger(r)
  PROVE  Inv'
  <1> DEFINE now == [at |-> "built", base |-> main, shell |-> npm]
  <1>1. /\ runs[r].at = "idle" /\ main < MaxCommits /\ commits[main].version < MaxVersion
        /\ runs' = [runs EXCEPT ![r] = now]
        /\ UNCHANGED <<commits, tags, lagging, drafts, published, latest, npm, manual,
                       writer, kills, shows>>
    BY DEF Trigger, remote
  <1>2. main \in 1..main /\ main \in 0..MaxCommits /\ npm \in 1..MaxShell
    BY TypesAre, Bounds DEF Inv, CommitIds
  <1>3. now \in Intakes /\ now.at = "built" /\ now.base = main
    BY <1>2 DEF Intakes
  <1> HIDE DEF now
  <1>4. /\ runs' \in [Runs -> Intakes] /\ runs'[r] = now
        /\ \A q \in Runs : q # r => runs'[q] = runs[q]
    BY <1>1, <1>3, TypesAre DEF Inv
  <1>5. main' = main
    BY <1>1 DEF main
  <1>6. RunsAre'
    BY <1>1, <1>2, <1>3, <1>4, <1>5 DEF Inv, RunsAre
  <1>7. \A q \in Runs : runs[q].at = "writing" => runs'[q] = runs[q]
    BY <1>1, <1>4
  <1> QED
    BY <1>1, <1>4, <1>6, <1>7, QuietInv, TypesAre DEF Inv, TagsAre

\* Where a run is changes, what it was prepared of does not.
LEMMA RunGoes ==
  ASSUME Inv, NEW r \in Runs, NEW s \in {"built", "writing", "failed", "done"},
         runs[r].at # "idle", runs' = [runs EXCEPT ![r].at = s], UNCHANGED commits
  PROVE  /\ runs' \in [Runs -> Intakes] /\ runs'[r] = [runs[r] EXCEPT !.at = s]
         /\ runs'[r].at = s /\ runs'[r].base = runs[r].base /\ runs'[r].shell = runs[r].shell
         /\ \A q \in Runs : q # r => runs'[q] = runs[q]
         /\ \A q \in Runs : Candidate(q)' = Candidate(q)
         /\ RunsAre'
  <1>1. runs \in [Runs -> Intakes] /\ runs[r] \in Intakes
    BY TypesAre DEF Inv
  <1>2. /\ runs'[r] = [runs[r] EXCEPT !.at = s]
        /\ \A q \in Runs : q # r => runs'[q] = runs[q]
    BY <1>1
  <1>3. /\ runs'[r] \in Intakes /\ runs'[r].at = s /\ runs'[r].base = runs[r].base
        /\ runs'[r].shell = runs[r].shell
    BY <1>1, <1>2 DEF Intakes
  <1>4. runs' \in [Runs -> Intakes]
    BY <1>1, <1>2, <1>3
  <1>5. \A q \in Runs : Candidate(q)' = Candidate(q)
    BY <1>2, <1>3 DEF Candidate
  <1>6. RunsAre'
    BY <1>2, <1>3 DEF Inv, RunsAre, main
  <1> QED
    BY <1>2, <1>3, <1>4, <1>5, <1>6

\* A run that is not writing may come to wait or to fail.
LEMMA RunWaits ==
  ASSUME Inv, NEW r \in Runs, NEW s \in {"built", "failed"},
         runs[r].at \notin {"idle", "writing"}, runs' = [runs EXCEPT ![r].at = s],
         UNCHANGED <<commits, tags, lagging, drafts, published, latest, npm, manual,
                     writer, shows>>,
         kills' \in 0..MaxKills
  PROVE  Inv'
  <1>1. /\ runs' \in [Runs -> Intakes] /\ RunsAre'
        /\ \A q \in Runs : q # r => runs'[q] = runs[q]
    BY RunGoes
  <1>2. \A q \in Runs : runs[q].at = "writing" => runs'[q] = runs[q]
    BY <1>1
  <1> QED
    BY <1>1, <1>2, QuietInv, TypesAre DEF Inv, TagsAre

\* So may the job of a pushed tag.
LEMMA ManualWaits ==
  ASSUME Inv, NEW v \in Versions, NEW s \in Manuals,
         manual[v] # "idle", manual' = [manual EXCEPT ![v] = s],
         UNCHANGED <<commits, tags, lagging, drafts, published, latest, npm, runs,
                     writer, shows>>,
         kills' \in 0..MaxKills
  PROVE  Inv'
  <1>1. /\ manual' \in [Versions -> Manuals]
        /\ \A u \in Versions : manual'[u] # "idle" => tags[u] # None
    BY TypesAre DEF Inv, TagsAre
  <1>2. RunsAre'
    BY DEF Inv, RunsAre, main
  <1> QED
    BY <1>1, <1>2, QuietInv, TypesAre DEF Inv

\* A rerun has the artifacts of its run: it is built again.
LEMMA RerunInv ==
  ASSUME Inv, NEW j \in Jobs, Rerun(j)
  PROVE  Inv'
  <1>1. CASE j \in Runs /\ runs[j].at = "failed" /\ runs' = [runs EXCEPT ![j].at = "built"]
             /\ UNCHANGED <<remote, npm, manual, writer, kills, shows>>
    BY <1>1, RunWaits, TypesAre DEF Inv, remote
  <1>2. CASE j \in Versions /\ manual[j] = "failed"
             /\ manual' = [manual EXCEPT ![j] = "approval"]
             /\ UNCHANGED <<remote, npm, runs, writer, kills, shows>>
    BY <1>2, ManualWaits, TypesAre DEF Inv, remote, Manuals
  <1> QED
    BY <1>1, <1>2 DEF Rerun

\* A kill is counted, within the bound.
LEMMA OneMore ==
  ASSUME TypeOK, Misfortune
  PROVE  kills' \in 0..MaxKills
  BY TypesAre, Bounds DEF Misfortune

\* A job that loses its place in the group was not writing.
LEMMA SupersededInv ==
  ASSUME Inv, NEW j \in Jobs, Superseded(j)
  PROVE  Inv'
  <1>1. kills' \in 0..MaxKills /\ UNCHANGED <<commits, tags, lagging, drafts, published,
                                              latest, npm, writer, shows>>
    BY OneMore DEF Inv, Superseded, remote
  <1>2. CASE j \in Runs /\ runs[j].at = "built"
             /\ runs' = [runs EXCEPT ![j].at = "failed"] /\ UNCHANGED manual
    BY <1>1, <1>2, RunWaits
  <1>3. CASE j \in Versions /\ manual[j] = "approval"
             /\ manual' = [manual EXCEPT ![j] = "failed"] /\ UNCHANGED runs
    BY <1>1, <1>3, ManualWaits DEF Manuals
  <1> QED
    BY <1>2, <1>3 DEF Superseded

\* A job that comes in has no draft and has looked at nothing.
LEMMA EnterInv ==
  ASSUME Inv, writer = None, writer' \in Writers, writer'.at \in {"main", "verify"},
         UNCHANGED <<commits, tags, lagging, drafts, published, latest, npm, kills, shows>>,
         runs' \in [Runs -> Intakes], manual' \in [Versions -> Manuals],
         \A v \in Versions : manual'[v] # "idle" => tags[v] # None,
         RunsAre', WriterIs'
  PROVE  Inv'
  <1>1. main' = main
    BY DEF main
  <1>2. TypeOK'
    BY <1>1, TypesAre, TypesBack DEF Inv, TypeOK, Intakes, Manuals, Writers, Steps
  <1>3. History' /\ TagsAre' /\ PublicAre'
    BY <1>1 DEF Inv, History, TagsAre, PublicAre
  <1>4. Seen' /\ Chosen'
    BY DEF Seen, Chosen, Looking, Releasing
  <1>5. DraftsAre'
    BY DEF Inv, DraftsAre, OneDraft, At
  <1> QED
    BY <1>2, <1>3, <1>4, <1>5 DEF Inv

\* An intake run that becomes the writer has read nothing yet.
LEMMA EnterRunInv ==
  ASSUME Inv, NEW r \in Runs, EnterRun(r)
  PROVE  Inv'
  <1> DEFINE now == [job |-> r, tag |-> Candidate(r).version,
                     assets |-> [tree |-> Candidate(r), job |-> r], created |-> FALSE,
                     at |-> "main", recheck |-> FALSE, main |-> 0, named |-> 0]
  <1>1. /\ runs[r].at = "built" /\ writer = None /\ writer' = now
        /\ runs' = [runs EXCEPT ![r].at = "writing"]
        /\ UNCHANGED <<commits, tags, lagging, drafts, published, latest, npm, manual,
                       kills, shows>>
    BY DEF EnterRun, Enters, remote
  <1>2. Candidate(r) \in Trees /\ Candidate(r).version \in Versions /\ r \in Jobs
    BY <1>1, CandidateIs DEF Inv, Jobs
  <1>3. [tree |-> Candidate(r), job |-> r] \in Assets
    BY <1>2 DEF Assets
  <1>4. now \in Writers /\ now.at = "main"
    BY <1>2, <1>3, Bounds DEF Writers, Steps
  <1>5. /\ now.job = r /\ now.assets.tree = Candidate(r) /\ now.assets.job = r
        /\ now.tag = Candidate(r).version
    OBVIOUS
  <1> HIDE DEF now
  <1>6. /\ runs' \in [Runs -> Intakes] /\ runs'[r].at = "writing" /\ RunsAre'
        /\ Candidate(r)' = Candidate(r)
    BY <1>1, RunGoes
  <1>7. WriterIs'
    BY <1>1, <1>4, <1>5, <1>6, Bounds DEF WriterIs
  <1> QED
    BY <1>1, <1>4, <1>6, <1>7, EnterInv, TypesAre DEF Inv, TagsAre

\* The job of a tag writes what was built of the tag's commit.
LEMMA EnterManualInv ==
  ASSUME Inv, NEW v \in Versions, EnterManual(v)
  PROVE  Inv'
  <1> DEFINE tree == commits[tags[v].candidate]
             now == [job |-> v, tag |-> v, assets |-> [tree |-> tree, job |-> v],
                     created |-> FALSE, at |-> "verify", recheck |-> FALSE, main |-> 0,
                     named |-> 0]
  <1>1. /\ manual[v] = "approval" /\ writer = None /\ writer' = now
        /\ manual' = [manual EXCEPT ![v] = "writing"]
        /\ UNCHANGED <<commits, tags, lagging, drafts, published, latest, npm, runs,
                       kills, shows>>
    BY DEF EnterManual, Enters, remote
  <1>2. tags[v] # None /\ tags[v].candidate \in 1..main
    BY <1>1 DEF Inv, TagsAre
  <1>3. tree \in Trees /\ v \in Jobs
    BY <1>2, CommitHas DEF Inv, Jobs
  <1> HIDE DEF tree
  <1>4. [tree |-> tree, job |-> v] \in Assets
    BY <1>3 DEF Assets
  <1>5. now \in Writers /\ now.at = "verify"
    BY <1>3, <1>4, Bounds DEF Writers, Steps
  <1>6. now.job = v /\ now.assets.tree = tree /\ now.assets.job = v /\ now.tag = v
    OBVIOUS
  <1> HIDE DEF now
  <1>7. manual' \in [Versions -> Manuals]
        /\ \A u \in Versions : manual'[u] # "idle" => tags[u] # None
    BY <1>1, <1>2, TypesAre DEF Inv, TagsAre, Manuals
  <1>8. RunsAre'
    BY <1>1 DEF Inv, RunsAre, main
  <1>9. v \notin Runs
    BY Bounds
  <1>10. WriterIs'
    BY <1>1, <1>2, <1>5, <1>6, <1>9 DEF WriterIs, tree
  <1> QED
    BY <1>1, <1>5, <1>7, <1>8, <1>10, EnterInv, TypesAre DEF Inv

-----------------------------------------------------------------------------
(* The job in the publication group looks, goes on, or leaves.               *)

\* It is the same job, of the same candidate.
Same == /\ writer # None /\ writer' \in Writers
        /\ writer'.job = writer.job /\ writer'.tag = writer.tag
        /\ writer'.assets = writer.assets
        /\ writer'.at # "verify"
        /\ writer.job \in Versions =>
             writer'.at \in {"verify", "create", "upload", "list", "edit", "check"}

\* A writer that keeps its job, tag and assets is still the one it was.
LEMMA SameWriter ==
  ASSUME Inv, Same, UNCHANGED <<commits, tags, runs>>
  PROVE  WriterIs'
  BY DEF Inv, WriterIs, Same, Candidate

\* A step of the writer that changes the drafts at most.
LEMMA MovesInv ==
  ASSUME Inv, Same, UNCHANGED <<commits, tags, lagging, published, latest, npm, runs, manual,
                                kills, shows>>,
         DOMAIN drafts' \subseteq 1..(MaxKills + 2), \A d \in DOMAIN drafts' : drafts'[d] \in Drafts,
         Seen', Chosen', DraftsAre'
  PROVE  Inv'
  <1>1. main' = main
    BY DEF main
  <1>2. TypeOK'
    BY <1>1, TypesAre DEF Inv, Same, TypeOK, Drafts, Writers, Steps
  <1>3. History' /\ TagsAre' /\ PublicAre' /\ RunsAre'
    BY <1>1 DEF Inv, History, TagsAre, PublicAre, RunsAre
  <1> QED
    BY <1>2, <1>3, SameWriter DEF Inv

\* Whose step it is.
LEMMA RunWrites ==
  ASSUME Inv, writer # None, writer.at \notin {"verify", "create", "upload", "list", "edit", "check"}
  PROVE  /\ writer.job \in Runs /\ writer.job \notin Versions
         /\ writer.assets.tree = Candidate(writer.job) /\ writer.tag = writer.assets.tree.version
         /\ runs[writer.job].at = "writing"
  BY WriterHas, Bounds DEF Inv, WriterIs, Jobs

\* It has read main, which may move on at once.
LEMMA ReadMainInv ==
  ASSUME Inv, ReadMain
  PROVE  Inv'
  <1>1. /\ writer # None /\ writer.at = "main"
        /\ writer' = [writer EXCEPT !.at = "tag", !.main = main]
        /\ UNCHANGED <<commits, tags, lagging, drafts, published, latest, npm, runs, manual,
                       kills, shows>>
    BY DEF ReadMain, At, remote
  <1>2. writer \in Writers /\ main \in 0..MaxCommits /\ main \in 1..main /\ main \in Nat
    BY <1>1, TypesAre, Bounds DEF Inv, CommitIds
  <1>3. /\ writer' \in Writers /\ writer'.at = "tag" /\ writer'.main = main
        /\ writer'.job = writer.job /\ writer'.tag = writer.tag
        /\ writer'.assets = writer.assets
    BY <1>1, <1>2 DEF Writers, Steps
  <1>4. Same
    BY <1>1, <1>3, RunWrites DEF Same
  <1>5. main' = main
    BY <1>1 DEF main
  <1>6. \A c \in 1..main : ~(main < c)
    BY <1>2
  <1>7. \A v \in Versions : published[v] # None => tags[v].commit <= main
    BY <1>2 DEF Inv, PublicAre, TagsAre
  <1>8. Seen'
    BY <1>1, <1>2, <1>3, <1>5, <1>6, <1>7 DEF Seen, Looking
  <1>9. Chosen'
    BY <1>3 DEF Chosen, Releasing
  <1>10. DraftsAre'
    BY <1>1, <1>3 DEF Inv, DraftsAre, OneDraft, At
  <1> QED
    BY <1>1, <1>4, <1>8, <1>9, <1>10, MovesInv, TypesAre DEF Inv

\* A draft is deleted.
LEMMA WithoutIs ==
  ASSUME TypeOK, OneDraft, NEW d \in DOMAIN drafts, drafts' = Without(d), UNCHANGED shows
  PROVE  /\ DOMAIN drafts' = DOMAIN drafts \ {d}
         /\ DOMAIN drafts' \subseteq 1..(MaxKills + 2)
         /\ \A e \in DOMAIN drafts' : e \in DOMAIN drafts /\ drafts'[e] = drafts[e]
         /\ \A e \in DOMAIN drafts' : drafts'[e] \in Drafts
         /\ OneDraft'
         /\ shows => \A e \in DOMAIN drafts' : drafts'[e].tag # drafts[d].tag
  <1>1. /\ DOMAIN drafts' = DOMAIN drafts \ {d}
        /\ \A e \in DOMAIN drafts' : e \in DOMAIN drafts /\ drafts'[e] = drafts[e]
    BY DEF Without
  <1>2. OneDraft'
    BY <1>1 DEF OneDraft
  <1>3. shows => \A e \in DOMAIN drafts' : drafts'[e].tag # drafts[d].tag
    BY <1>1 DEF OneDraft
  <1> QED
    BY <1>1, <1>2, <1>3, TypesAre

\* The cleanup of a failed job leaves one draft at most where drafts are shown.
LEMMA CleanIs ==
  ASSUME TypeOK, OneDraft, UNCHANGED shows, CleansUp \/ UNCHANGED drafts
  PROVE  /\ DOMAIN drafts' \subseteq 1..(MaxKills + 2)
         /\ \A e \in DOMAIN drafts' : drafts'[e] \in Drafts
         /\ OneDraft'
  <1>1. CASE UNCHANGED drafts
    BY <1>1, TypesAre DEF OneDraft
  <1>2. CASE \E d \in DraftsOf(writer.tag) : drafts' = Without(d)
    <2>1. PICK d \in DraftsOf(writer.tag) : drafts' = Without(d)
      BY <1>2
    <2>2. d \in DOMAIN drafts
      BY DEF DraftsOf
    <2> QED
      BY <2>1, <2>2, WithoutIs
  <1> QED
    BY <1>1, <1>2 DEF CleansUp

\* The job is over: nobody is in the group.
LEMMA LeavesInv ==
  ASSUME Inv, writer # None, NEW result \in {"failed", "done"}, Leaves(result),
         UNCHANGED <<commits, tags, lagging, published, latest, npm, shows>>,
         kills' \in 0..MaxKills,
         DOMAIN drafts' \subseteq 1..(MaxKills + 2),
         \A e \in DOMAIN drafts' : drafts'[e] \in Drafts,
         OneDraft'
  PROVE  Inv'
  <1>1. main' = main /\ writer' = None
    BY DEF main, Leaves
  <1>2. runs' \in [Runs -> Intakes] /\ manual' \in [Versions -> Manuals]
        /\ RunsAre' /\ \A v \in Versions : manual'[v] # "idle" => tags[v] # None
    <2>1. CASE writer.job \in Runs /\ runs' = [runs EXCEPT ![writer.job].at = result]
               /\ UNCHANGED manual
      <3>1. runs[writer.job].at # "idle"
        BY <2>1 DEF Inv, WriterIs
      <3>2. runs' \in [Runs -> Intakes] /\ RunsAre'
        BY <2>1, <3>1, RunGoes
      <3> QED
        BY <2>1, <3>2, TypesAre DEF Inv, TagsAre
    <2>2. CASE writer.job \in Versions /\ manual' = [manual EXCEPT ![writer.job] = result]
               /\ UNCHANGED runs
      <3>1. tags[writer.job] # None
        BY <2>2 DEF Inv, WriterIs
      <3>2. manual' \in [Versions -> Manuals]
            /\ \A v \in Versions : manual'[v] # "idle" => tags[v] # None
        BY <2>2, <3>1, TypesAre DEF Inv, TagsAre, Manuals
      <3>3. RunsAre'
        BY <2>2 DEF Inv, RunsAre, main
      <3> QED
        BY <2>2, <3>2, <3>3, TypesAre DEF Inv
    <2> QED
      BY <2>1, <2>2 DEF Leaves
  <1>3. TypeOK'
    BY <1>1, <1>2 DEF Inv, TypeOK, Intakes, Manuals, Drafts
  <1>4. History' /\ TagsAre' /\ PublicAre'
    BY <1>1, <1>2 DEF Inv, History, TagsAre, PublicAre
  <1>5. WriterIs' /\ Seen' /\ Chosen' /\ DraftsAre'
    BY <1>1 DEF WriterIs, Seen, Chosen, DraftsAre, At
  <1> QED
    BY <1>2, <1>3, <1>4, <1>5 DEF Inv

\* ... and it left GitHub as it was.
LEMMA GivesUpInv ==
  ASSUME Inv, writer # None, NEW result \in {"failed", "done"}, Leaves(result),
         UNCHANGED <<remote, npm, kills, shows>>
  PROVE  Inv'
  <1>1. UNCHANGED <<commits, tags, lagging, drafts, published, latest, npm, kills, shows>>
    BY DEF remote
  <1>2. OneDraft'
    BY <1>1 DEF Inv, DraftsAre, OneDraft
  <1> QED
    BY <1>1, <1>2, LeavesInv, TypesAre DEF Inv

\* ... and deleted a draft, or not.
LEMMA CleanLeavesInv ==
  ASSUME Inv, writer # None, NEW result \in {"failed", "done"}, Leaves(result),
         CleansUp \/ UNCHANGED drafts,
         UNCHANGED <<commits, tags, lagging, published, latest, npm, shows>>,
         kills' \in 0..MaxKills
  PROVE  Inv'
  <1>1. TypeOK /\ OneDraft
    BY DEF Inv, DraftsAre
  <1> QED
    BY <1>1, CleanIs, LeavesInv

\* A tag that is shown is the tag.
LEMMA ShownIs ==
  ASSUME Inv, writer # None
  PROVE  /\ Shown \in 0..MaxCommits
         /\ Shown # 0 => tags[writer.tag] # None /\ tags[writer.tag].commit = Shown
  BY WriterHas, TagHas, Bounds DEF Inv, Shown, CommitIds

\* It has read the tag and goes on.
LEMMA HasReadTag ==
  ASSUME Inv, writer # None, writer.at \in {"tag", "await"},
         writer' = [writer EXCEPT !.at = "release", !.named = Shown],
         Shown # 0 \/ writer.main = writer.assets.tree.parent,
         UNCHANGED <<remote, npm, runs, manual, kills, shows>>
  PROVE  Inv'
  <1>1. UNCHANGED <<commits, tags, lagging, drafts, published, latest, npm, runs, manual,
                    kills, shows>> /\ main' = main
    BY DEF remote, main
  <1>2. writer \in Writers /\ Shown \in 0..MaxCommits
    BY ShownIs, TypesAre DEF Inv
  <1>3. /\ writer' \in Writers /\ writer'.at = "release" /\ writer'.main = writer.main
        /\ writer'.named = Shown
        /\ writer'.job = writer.job /\ writer'.tag = writer.tag
        /\ writer'.assets = writer.assets
    BY <1>2 DEF Writers, Steps
  <1>4. Same
    BY <1>3, RunWrites DEF Same
  <1>5. \/ Shown = 0 /\ writer.main = writer.assets.tree.parent
        \/ tags[writer.tag] # None /\ tags[writer.tag].commit = Shown
    BY ShownIs
  <1>6. Seen'
    BY <1>1, <1>3, <1>5 DEF Inv, Seen, Looking
  <1>7. Chosen'
    BY <1>3 DEF Chosen, Releasing
  <1>8. DraftsAre'
    BY <1>1, <1>3 DEF Inv, DraftsAre, OneDraft, At
  <1> QED
    BY <1>1, <1>4, <1>6, <1>7, <1>8, MovesInv, TypesAre DEF Inv

LEMMA ReadTagInv ==
  ASSUME Inv, ReadTag
  PROVE  Inv'
  <1>1. writer # None /\ writer.at = "tag" /\ UNCHANGED <<remote, npm, kills, shows>>
    BY DEF ReadTag, At
  <1>2. CASE (Shown # 0 \/ writer.main = writer.assets.tree.parent)
             /\ writer' = [writer EXCEPT !.at = "release", !.named = Shown]
             /\ UNCHANGED <<runs, manual>>
    BY <1>1, <1>2, HasReadTag
  <1>3. CASE Shown = 0 /\ writer.main # writer.assets.tree.parent
             /\ IsCandidate(writer.main) /\ Goes("await") /\ UNCHANGED <<runs, manual>>
    <2>1. UNCHANGED <<commits, tags, lagging, drafts, published, latest, npm, runs, manual,
                      kills, shows>> /\ main' = main
      BY <1>1, <1>3 DEF remote, main
    <2>2. writer \in Writers
      BY <1>1, TypesAre DEF Inv
    <2>3. /\ writer' \in Writers /\ writer'.at = "await" /\ writer'.main = writer.main
          /\ writer'.job = writer.job /\ writer'.tag = writer.tag
          /\ writer'.assets = writer.assets
      BY <1>3, <2>2 DEF Writers, Steps, Goes
    <2>4. Same
      BY <1>1, <2>3, RunWrites DEF Same
    <2>5. Seen'
      BY <1>1, <1>3, <2>1, <2>3 DEF Inv, Seen, Looking, IsCandidate
    <2>6. Chosen'
      BY <2>3 DEF Chosen, Releasing
    <2>7. DraftsAre'
      BY <2>1, <2>3 DEF Inv, DraftsAre, OneDraft, At
    <2> QED
      BY <2>1, <2>4, <2>5, <2>6, <2>7, MovesInv, TypesAre DEF Inv
  <1>4. CASE Leaves("failed")
    BY <1>1, <1>4, GivesUpInv
  <1> QED
    BY <1>2, <1>3, <1>4 DEF ReadTag

\* It has waited for the tag to be visible, and reads it again.
LEMMA AwaitTagInv ==
  ASSUME Inv, AwaitTag
  PROVE  Inv'
  <1>1. writer # None /\ writer.at = "await" /\ Shown # 0
        /\ UNCHANGED <<remote, npm, kills, shows>>
    BY DEF AwaitTag, At
  <1>2. CASE writer' = [writer EXCEPT !.at = "release", !.named = Shown]
             /\ UNCHANGED <<runs, manual>>
    BY <1>1, <1>2, HasReadTag
  <1>3. CASE Leaves("failed")
    BY <1>1, <1>3, GivesUpInv
  <1> QED
    BY <1>2, <1>3 DEF AwaitTag

\* What the endpoint answers about a version.
LEMMA AnswerIs ==
  ASSUME TypeOK, NEW v \in Versions, NEW answer \in Answers(v)
  PROVE  /\ answer = None => published[v] = None /\ (shows => DraftsOf(v) = {})
         /\ answer # None /\ answer.draft =>
              /\ published[v] = None /\ shows
              /\ \E d \in DraftsOf(v) : answer.assets = drafts[d].assets
         /\ answer # None /\ ~answer.draft => answer.assets = published[v] /\ published[v] # None
  <1>1. CASE published[v] # None
    <2>1. answer = [draft |-> FALSE, assets |-> published[v]]
      BY <1>1 DEF Answers
    <2>2. answer \in Releases
      BY <1>1, <2>1, TypesAre DEF Releases
    <2> QED
      BY <1>1, <2>1, <2>2, NamesAssumption
  <1>2. CASE published[v] = None /\ shows /\ DraftsOf(v) # {}
    <2>1. PICK d \in DraftsOf(v) : answer = [draft |-> TRUE, assets |-> drafts[d].assets]
      BY <1>2 DEF Answers
    <2>2. drafts[d].assets \in {None} \cup Assets
      BY TypesAre DEF DraftsOf, Drafts
    <2>3. answer \in Releases
      BY <2>1, <2>2 DEF Releases
    <2> QED
      BY <1>2, <2>1, <2>3, NamesAssumption
  <1>3. CASE published[v] = None /\ ~(shows /\ DraftsOf(v) # {})
    BY <1>3, TypesAre DEF Answers
  <1> QED
    BY <1>1, <1>2, <1>3

\* The step that a classification leads to is one of these, for these reasons.
LEMMA NextStepIs ==
  ASSUME Inv, writer # None, NEW answer, NEW step, step = NextStep(Classify(answer))
  PROVE  /\ step \in {"failed", "done", "push", "main", "delete", "create", "list"}
         /\ step = "push" => writer.main = writer.assets.tree.parent
         /\ step = "create" => Reviewed /\ writer.named # 0 /\ answer = None
         /\ step \in {"delete", "list"} =>
              Reviewed /\ writer.named # 0 /\ answer # None /\ answer.draft
         /\ step = "list" => Exact(answer.assets)
  <1> DEFINE mode == Classify(answer)
  <1>1. /\ mode \in {"create", "release-create", "draft-complete", "draft-replace", "complete",
                     "unsafe"}
        /\ mode = "create" => writer.main = writer.assets.tree.parent
        /\ mode = "release-create" => Reviewed /\ writer.named # 0 /\ answer = None
        /\ mode \in {"draft-complete", "draft-replace"} =>
             Reviewed /\ writer.named # 0 /\ answer # None /\ answer.draft
        /\ mode = "draft-complete" => Exact(answer.assets)
    BY DEF Classify
  <1> HIDE DEF mode
  <1>2. step = NextStep(mode)
    BY DEF mode
  <1> QED
    BY <1>1, <1>2 DEF NextStep

\* It has read the release and chosen what to do.
LEMMA ReadReleaseInv ==
  ASSUME Inv, ReadRelease
  PROVE  Inv'
  <1>1. writer # None /\ writer.at = "release" /\ UNCHANGED <<remote, npm, kills, shows>>
    BY DEF ReadRelease, At
  <1>2. UNCHANGED <<commits, tags, lagging, drafts, published, latest, npm, kills, shows>>
        /\ main' = main
    BY <1>1 DEF remote, main
  <1>3. PICK answer \in Answers(writer.tag) :
          LET step == NextStep(Classify(answer)) IN
           \/ step \in {"failed", "done"} /\ Leaves(step)
           \/ /\ step \notin {"failed", "done"}
              /\ writer' = [writer EXCEPT !.at = step, !.recheck = @ \/ step = "main"]
              /\ UNCHANGED <<runs, manual>>
    BY DEF ReadRelease
  <1> DEFINE step == NextStep(Classify(answer))
  <1>4. writer \in Writers /\ writer.tag \in Versions
    BY <1>1, WriterHas DEF Inv
  <1>5. /\ step \in {"failed", "done", "push", "main", "delete", "create", "list"}
        /\ step = "push" => writer.main = writer.assets.tree.parent
        /\ step = "create" => Reviewed /\ writer.named # 0 /\ answer = None
        /\ step \in {"delete", "list"} =>
             Reviewed /\ writer.named # 0 /\ answer # None /\ answer.draft
        /\ step = "list" => Exact(answer.assets)
    BY <1>1, NextStepIs
  <1>6. /\ answer = None => published[writer.tag] = None /\ (shows => DraftsOf(writer.tag) = {})
        /\ answer # None /\ answer.draft =>
              /\ published[writer.tag] = None
              /\ \E d \in DraftsOf(writer.tag) : answer.assets = drafts[d].assets
    BY <1>4, AnswerIs DEF Inv
  <1>7. \/ step \in {"failed", "done"} /\ Leaves(step)
        \/ /\ step \notin {"failed", "done"}
           /\ writer' = [writer EXCEPT !.at = step, !.recheck = @ \/ step = "main"]
           /\ UNCHANGED <<runs, manual>>
    BY <1>3
  <1> HIDE DEF step
  <1>8. CASE step \in {"failed", "done"} /\ Leaves(step)
    BY <1>1, <1>8, GivesUpInv
  <1>9. CASE /\ step \notin {"failed", "done"}
             /\ writer' = [writer EXCEPT !.at = step, !.recheck = @ \/ step = "main"]
             /\ UNCHANGED <<runs, manual>>
    <2>1. /\ writer' \in Writers /\ writer'.at = step /\ writer'.main = writer.main
          /\ writer'.job = writer.job /\ writer'.tag = writer.tag
          /\ writer'.assets = writer.assets
      BY <1>4, <1>5, <1>9 DEF Writers, Steps
    <2>2. Same
      BY <1>1, <1>5, <2>1, RunWrites DEF Same
    <2>3. Seen'
      BY <1>1, <1>2, <1>5, <1>9, <2>1 DEF Inv, Seen, Looking
    <2>4. Chosen'
      <3> SUFFICES ASSUME step \in Releasing PROVE Chosen'
        BY <2>1 DEF Chosen
      <3>1. Reviewed /\ writer.named # 0 /\ published[writer.tag] = None
        BY <1>5, <1>6 DEF Releasing
      <3>2. writer.named = writer.main /\ commits[writer.main] = writer.assets.tree
            /\ writer.main # writer.assets.tree.parent
        BY <3>1 DEF Reviewed, IsCandidate
      <3>3. tags[writer.tag] # None /\ tags[writer.tag].commit = writer.named
        BY <1>1, <3>2 DEF Inv, Seen, Looking
      <3>4. \A v \in Versions : published[v] # None => tags[v].commit <= writer.main
        BY <1>1 DEF Inv, Seen, Looking
      <3>5. writer.tag = writer.assets.tree.version
        BY <1>1, RunWrites
      <3> QED
        BY <1>2, <2>1, <3>1, <3>2, <3>3, <3>4, <3>5 DEF Chosen
    <2>5. DraftsAre'
      BY <1>2, <1>5, <1>6, <2>1 DEF Inv, DraftsAre, OneDraft, At, DraftsOf, Exact
    <2> QED
      BY <1>2, <1>9, <2>2, <2>3, <2>4, <2>5, MovesInv, TypesAre DEF Inv
  <1> QED
    BY <1>7, <1>8, <1>9

-----------------------------------------------------------------------------
(* The writes.                                                               *)

\* It pushes commit and tag together, onto the main that it has read, or fails.
LEMMA PushInv ==
  ASSUME Inv, Push
  PROVE  Inv'
  <1>1. writer # None /\ writer.at = "push"
        /\ UNCHANGED <<drafts, published, latest, npm, kills, shows>>
    BY DEF Push, At
  <1>2. CASE Leaves("failed") /\ UNCHANGED <<commits, tags, lagging>>
    BY <1>1, <1>2, GivesUpInv DEF remote
  <1>3. CASE /\ main = writer.assets.tree.parent /\ tags[writer.tag] = None
             /\ commits' = Append(commits, writer.assets.tree)
             /\ tags' = [tags EXCEPT ![writer.tag] =
                          [commit |-> main + 1, candidate |-> main + 1]]
             /\ lagging' = lagging \cup {writer.tag}
             /\ writer' = [writer EXCEPT !.at = "main", !.recheck = TRUE]
             /\ UNCHANGED <<runs, manual>>
    <2> DEFINE r == writer.job
               tree == writer.assets.tree
               v == writer.tag
               tag == [commit |-> main + 1, candidate |-> main + 1]
    <2>1. /\ r \in Runs /\ r \notin Versions /\ tree = Candidate(r) /\ v = tree.version
          /\ runs[r].at = "writing"
      BY <1>1, RunWrites
    <2>2. writer \in Writers /\ v \in Versions /\ tree \in Trees
      BY <1>1, WriterHas DEF Inv
    <2>3. /\ tree.parent = runs[r].base /\ tree.version = commits[runs[r].base].version + 1
          /\ tree.automated = TRUE
      BY <2>1, CandidateIs DEF Inv
    <2>4. runs[r].base = main /\ main < MaxCommits /\ main \in 1..main /\ main \in Nat
      BY <1>3, <2>1, <2>3, TypesAre, Bounds DEF Inv, RunsAre, CommitIds
    <2>5. commits[main].version \in Nat
      BY <2>4, CommitHas, Bounds DEF Inv, Versions
    <2>6. tree.parent = main /\ commits[main].version <= tree.version
      BY <2>3, <2>4, <2>5
    <2>7. tag.commit = main + 1 /\ tag.candidate = main + 1
      OBVIOUS
    <2>8. commits' = Append(commits, tree) /\ tags' = [tags EXCEPT ![v] = tag]
      BY <1>3
    <2> HIDE DEF tag
    <2>9. /\ commits' \in Seq(Trees) /\ main' = main + 1 /\ main' \in CommitIds
          /\ 1..main \subseteq 1..main' /\ main' \in 1..main'
          /\ commits'[main'] = tree
          /\ \A c \in 1..main : commits'[c] = commits[c]
          /\ \A c \in 1..main' : c \in 1..main \/ c = main'
          /\ \A c \in 1..main' : commits'[c].parent = c - 1
          /\ \A c, d \in 1..main' : c <= d => commits'[c].version <= commits'[d].version
      BY <2>2, <2>4, <2>6, <2>8, MainGrows DEF Inv
    <2>10. tag \in Tags /\ tag # None
      BY <2>9, NamesAssumption DEF tag, Tags
    <2>11. /\ tags' \in [Versions -> {None} \cup Tags] /\ tags'[v] = tag
           /\ \A u \in Versions : u # v => tags'[u] = tags[u]
           /\ \A u \in Versions : tags[u] # None => tags'[u] = tags[u] /\ u # v
      BY <1>3, <2>2, <2>8, <2>10, TypesAre DEF Inv
    <2>12. /\ writer' \in Writers /\ writer'.at = "main"
           /\ writer'.job = r /\ writer'.tag = v /\ writer'.assets = writer.assets
      BY <1>3, <2>2 DEF Writers, Steps
    <2>13. lagging' \in SUBSET Versions
      BY <1>3, <2>2, TypesAre DEF Inv
    <2>14. TypeOK'
      BY <1>1, <1>3, <2>9, <2>11, <2>12, <2>13 DEF Inv, TypeOK, Writers, Steps
    <2>15. History'
      <3>1. ASSUME NEW c \in 1..main, commits[c].automated
            PROVE  /\ tags'[commits[c].version] # None
                   /\ tags'[commits[c].version].commit = c
        BY <2>11, <3>1, CommitHas DEF Inv, History
      <3>2. tags'[tree.version] # None /\ tags'[tree.version].commit = main'
        BY <2>1, <2>7, <2>9, <2>10, <2>11
      <3>3. \A c \in 1..main' : commits'[c].automated =>
              /\ tags'[commits'[c].version] # None
              /\ tags'[commits'[c].version].commit = c
        BY <2>9, <3>1, <3>2
      <3> QED
        BY <2>9, <3>3 DEF History
    <2>16. TagsAre'
      <3>1. \A u \in Versions : tags'[u] # None =>
              tags'[u].commit \in 1..main' /\ tags'[u].candidate \in 1..main'
        BY <2>7, <2>9, <2>11 DEF Inv, TagsAre
      <3>2. \A u \in Versions : manual'[u] # "idle" => tags'[u] # None
        BY <1>3, <2>11 DEF Inv, TagsAre
      <3> QED
        BY <3>1, <3>2 DEF TagsAre
    <2>17. PublicAre'
      <3>1. \A u \in Versions : published[u] # None =>
              /\ tags'[u] = tags[u] /\ tags[u] # None
              /\ commits'[tags[u].commit] = commits[tags[u].commit]
        BY <2>9, <2>11 DEF Inv, PublicAre, TagsAre
      <3> QED
        BY <1>1, <3>1 DEF Inv, PublicAre
    <2>18. RunsAre'
      BY <1>3, <2>9 DEF Inv, RunsAre
    <2>19. WriterIs'
      <3>1. Candidate(r)' = Candidate(r)
        BY <1>3, <2>4, <2>9, <2>12 DEF Candidate
      <3>2. writer.assets.job = r
        BY <1>1 DEF Inv, WriterIs
      <3> QED
        BY <1>3, <2>1, <2>12, <3>1, <3>2 DEF WriterIs
    <2>20. Seen' /\ Chosen'
      BY <2>12 DEF Seen, Chosen, Looking, Releasing
    <2>21. DraftsAre'
      BY <1>1, <2>12 DEF Inv, DraftsAre, OneDraft, At
    <2> QED
      BY <2>14, <2>15, <2>16, <2>17, <2>18, <2>19, <2>20, <2>21 DEF Inv
  <1> QED
    BY <1>2, <1>3 DEF Push

\* It verifies that its tag is still main and its version not yet released.
LEMMA VerifyInv ==
  ASSUME Inv, Verify
  PROVE  Inv'
  <1>1. writer # None /\ writer.at = "verify" /\ UNCHANGED <<remote, npm, kills, shows>>
    BY DEF Verify, At
  <1>2. UNCHANGED <<commits, tags, lagging, drafts, published, latest, npm, kills, shows>>
        /\ main' = main
    BY <1>1 DEF remote, main
  <1>3. CASE Leaves("failed")
    BY <1>1, <1>3, GivesUpInv
  <1>4. CASE Resolves(writer.tag) /\ Unreleased(writer.tag) /\ Goes("create")
             /\ UNCHANGED <<runs, manual>>
    <2>1. writer \in Writers /\ writer.tag \in Versions /\ writer.job \in Jobs
      BY <1>1, WriterHas DEF Inv
    <2>2. /\ writer' \in Writers /\ writer'.at = "create" /\ writer'.job = writer.job
          /\ writer'.tag = writer.tag /\ writer'.assets = writer.assets
      BY <1>4, <2>1 DEF Goes, Writers, Steps
    <2>3. Same
      BY <1>1, <2>2 DEF Same
    <2>4. /\ tags[writer.tag] # None
          /\ writer.assets.tree = commits[tags[writer.tag].candidate]
      BY <1>1, <2>1 DEF Inv, WriterIs, Jobs
    <2>5. /\ tags[writer.tag].commit = main
          /\ tags[writer.tag].candidate = tags[writer.tag].commit
          /\ commits[tags[writer.tag].commit].version = writer.tag
      BY <1>4 DEF Resolves, Accepted
    <2>6. published[writer.tag] = None /\ DraftsOf(writer.tag) = {}
      BY <1>4 DEF Unreleased
    <2>7. \A v \in Versions : published[v] # None => tags[v].commit <= main
      BY TypesAre DEF Inv, PublicAre, TagsAre
    <2>8. Seen'
      BY <2>2 DEF Seen, Looking
    <2>9. Chosen'
      BY <1>2, <2>2, <2>4, <2>5, <2>6, <2>7 DEF Chosen
    <2>10. DraftsAre'
      BY <1>2, <2>2, <2>6 DEF Inv, DraftsAre, OneDraft, At, DraftsOf
    <2> QED
      BY <1>2, <1>4, <2>3, <2>8, <2>9, <2>10, MovesInv, TypesAre DEF Inv
  <1> QED
    BY <1>3, <1>4 DEF Verify

\* A step of a release that leaves the repository and what is public alone.
LEMMA ReleasesInv ==
  ASSUME Inv, Same, writer.at \in Releasing, writer'.at \in Releasing,
         UNCHANGED <<commits, tags, lagging, published, latest, npm, runs, manual, kills, shows>>,
         DOMAIN drafts' \subseteq 1..(MaxKills + 2), \A d \in DOMAIN drafts' : drafts'[d] \in Drafts,
         DraftsAre'
  PROVE  Inv'
  <1>1. writer # None /\ writer'.tag = writer.tag /\ writer'.assets = writer.assets
    BY DEF Same
  <1>2. Chosen'
    BY <1>1 DEF Inv, Chosen
  <1>3. Seen'
    BY DEF Seen, Looking, Releasing
  <1> QED
    BY <1>2, <1>3, MovesInv

\* It deletes an incomplete draft.
LEMMA DeleteDraftInv ==
  ASSUME Inv, DeleteDraft
  PROVE  Inv'
  <1>1. /\ writer # None /\ writer.at = "delete" /\ Goes("create")
        /\ UNCHANGED <<commits, tags, lagging, published, latest, npm, runs, manual, kills, shows>>
    BY DEF DeleteDraft, At
  <1>2. PICK d \in DraftsOf(writer.tag) : drafts' = Without(d)
    BY DEF DeleteDraft
  <1>3. d \in DOMAIN drafts /\ drafts[d].tag = writer.tag
    BY DEF DraftsOf
  <1>4. /\ DOMAIN drafts' \subseteq 1..(MaxKills + 2)
        /\ \A e \in DOMAIN drafts' : drafts'[e] \in Drafts
        /\ OneDraft'
        /\ shows => \A e \in DOMAIN drafts' : drafts'[e].tag # writer.tag
    BY <1>1, <1>2, <1>3, WithoutIs DEF Inv, DraftsAre
  <1>5. Same /\ writer'.at = "create" /\ writer'.tag = writer.tag
    BY <1>1, TypesAre, RunWrites DEF Inv, Goes, Same, Writers, Steps
  <1>6. DraftsAre'
    BY <1>1, <1>4, <1>5 DEF DraftsAre, At, DraftsOf
  <1> QED
    BY <1>1, <1>4, <1>5, <1>6, ReleasesInv DEF Releasing

\* It creates its draft, without assets.
LEMMA CreateInv ==
  ASSUME Inv, Create
  PROVE  Inv'
  <1> DEFINE new == [tag |-> writer.tag, assets |-> None]
  <1>1. /\ writer # None /\ writer.at = "create"
        /\ writer' = [writer EXCEPT !.at = "upload", !.created = TRUE]
        /\ UNCHANGED <<commits, tags, lagging, published, latest, npm, runs, manual, kills, shows>>
    BY DEF Create, At
  <1>2. PICK d \in (1..(MaxKills + 2)) \ DOMAIN drafts :
          drafts' = [e \in DOMAIN drafts \cup {d} |-> IF e = d THEN new ELSE drafts[e]]
    BY DEF Create
  <1>3. writer \in Writers /\ writer.tag \in Versions
    BY <1>1, WriterHas DEF Inv
  <1>4. new \in Drafts /\ new.tag = writer.tag
    BY <1>3 DEF Drafts
  <1> HIDE DEF new
  <1>5. /\ DOMAIN drafts' = DOMAIN drafts \cup {d} /\ drafts'[d] = new
        /\ \A e \in DOMAIN drafts : drafts'[e] = drafts[e] /\ e # d
    BY <1>2
  <1>6. DOMAIN drafts' \subseteq 1..(MaxKills + 2) /\ \A e \in DOMAIN drafts' : drafts'[e] \in Drafts
    BY <1>2, <1>4, <1>5, TypesAre DEF Inv
  <1>7. Same /\ writer'.at = "upload" /\ writer'.tag = writer.tag
    BY <1>1, <1>3 DEF Same, Writers, Steps
  <1>8. OneDraft'
    <2>1. shows => \A e \in DOMAIN drafts : drafts[e].tag # writer.tag
      BY <1>1 DEF Inv, DraftsAre, At, DraftsOf
    <2> QED
      BY <1>1, <1>4, <1>5, <2>1 DEF Inv, DraftsAre, OneDraft
  <1>9. DraftsAre'
    BY <1>7, <1>8 DEF DraftsAre, At
  <1> QED
    BY <1>1, <1>6, <1>7, <1>9, ReleasesInv DEF Releasing

\* Its assets are uploaded to the draft, or it fails and cleans up.
LEMMA UploadInv ==
  ASSUME Inv, Upload
  PROVE  Inv'
  <1>1. /\ writer # None /\ writer.at = "upload"
        /\ UNCHANGED <<commits, tags, lagging, published, latest, npm, kills, shows>>
    BY DEF Upload, At
  <1>2. CASE CleansUp /\ Leaves("failed")
    BY <1>1, <1>2, CleanLeavesInv, TypesAre DEF Inv
  <1>3. CASE \E d \in DraftsOf(writer.tag) :
            /\ drafts[d].assets = None
            /\ drafts' = [drafts EXCEPT ![d].assets = writer.assets]
            /\ Goes("list") /\ UNCHANGED <<runs, manual>>
    <2>1. PICK d \in DraftsOf(writer.tag) :
            /\ drafts' = [drafts EXCEPT ![d].assets = writer.assets]
            /\ Goes("list") /\ UNCHANGED <<runs, manual>>
      BY <1>3
    <2>2. d \in DOMAIN drafts /\ drafts[d].tag = writer.tag /\ drafts[d] \in Drafts
      BY TypesAre DEF DraftsOf, Inv
    <2>3. writer \in Writers /\ writer.assets \in Assets
      BY <1>1, WriterHas DEF Inv
    <2>4. /\ DOMAIN drafts' = DOMAIN drafts /\ drafts'[d] = [drafts[d] EXCEPT !.assets = writer.assets]
          /\ \A e \in DOMAIN drafts : e # d => drafts'[e] = drafts[e]
      BY <2>1, <2>2
    <2>5. drafts'[d] \in Drafts /\ drafts'[d].tag = writer.tag /\ drafts'[d].assets = writer.assets
      BY <2>2, <2>3, <2>4 DEF Drafts
    <2>6. \A e \in DOMAIN drafts' : drafts'[e] \in Drafts /\ drafts'[e].tag = drafts[e].tag
      BY <2>2, <2>4, <2>5, TypesAre DEF Inv
    <2>7. /\ Same /\ writer'.at = "list" /\ writer'.tag = writer.tag
          /\ writer'.assets = writer.assets
      BY <1>1, <2>1, <2>3 DEF Same, Goes, Writers, Steps
    <2>8. OneDraft'
      BY <1>1, <2>4, <2>6 DEF Inv, DraftsAre, OneDraft
    <2>9. DraftsAre'
      BY <2>2, <2>4, <2>5, <2>7, <2>8 DEF DraftsAre, At, DraftsOf, Exact
    <2>10. DOMAIN drafts' \subseteq 1..(MaxKills + 2)
      BY <2>4, TypesAre DEF Inv
    <2> QED
      BY <1>1, <2>1, <2>6, <2>7, <2>9, <2>10, ReleasesInv DEF Releasing
  <1> QED
    BY <1>2, <1>3 DEF Upload

\* The draft it goes on with has exactly its assets.
LEMMA VerifyDraftInv ==
  ASSUME Inv, VerifyDraft
  PROVE  Inv'
  <1>1. /\ writer # None /\ writer.at = "list"
        /\ UNCHANGED <<commits, tags, lagging, published, latest, npm, kills, shows>>
    BY DEF VerifyDraft, At
  <1>2. CASE CleansUp /\ Leaves("failed")
    BY <1>1, <1>2, CleanLeavesInv, TypesAre DEF Inv
  <1>3. CASE /\ \E d \in DraftsOf(writer.tag) :
                  DraftsOf(writer.tag) = {d} /\ Exact(drafts[d].assets)
             /\ writer' = [writer EXCEPT !.at = "edit", !.created = FALSE]
             /\ UNCHANGED <<drafts, runs, manual>>
    <2>1. writer \in Writers
      BY <1>1, TypesAre DEF Inv
    <2>2. /\ Same /\ writer'.at = "edit" /\ writer'.tag = writer.tag
          /\ writer'.assets = writer.assets
      BY <1>1, <1>3, <2>1 DEF Same, Writers, Steps
    <2>3. \A d \in DraftsOf(writer.tag) : Exact(drafts[d].assets)
      BY <1>3
    <2>4. DraftsAre'
      BY <1>1, <1>3, <2>2, <2>3 DEF Inv, DraftsAre, OneDraft, At, DraftsOf, Exact
    <2> QED
      BY <1>1, <1>3, <2>2, <2>4, ReleasesInv, TypesAre DEF Inv, Releasing
  <1> QED
    BY <1>2, <1>3 DEF VerifyDraft

\* What a job makes public was whole, and of the candidate.
LEMMA PublishIs ==
  ASSUME Inv, Publish
  PROVE  /\ writer # None /\ writer.at = "edit" /\ writer.tag \in Versions
         /\ writer.assets # None /\ published[writer.tag] = None
         /\ published' = [published EXCEPT ![writer.tag] = writer.assets]
         /\ published'[writer.tag] = writer.assets /\ latest' = writer.tag
         /\ \A v \in Versions : v # writer.tag => published'[v] = published[v]
         /\ published' \in [Versions -> {None} \cup Assets]
         /\ tags[writer.tag] # None
         /\ commits[tags[writer.tag].commit] = writer.assets.tree
         /\ writer.assets.tree.version = writer.tag
         /\ \A v \in Versions : published[v] # None => tags[v].commit <= tags[writer.tag].commit
  <1>1. writer # None /\ writer.at = "edit" /\ latest' = writer.tag
    BY DEF Publish, At
  <1>2. PICK d \in DraftsOf(writer.tag) :
          published' = [published EXCEPT ![writer.tag] = drafts[d].assets]
    BY DEF Publish
  <1>3. drafts[d].assets = writer.assets
    BY <1>1 DEF Inv, DraftsAre, At, Exact
  <1>4. writer.tag \in Versions /\ writer.assets # None /\ writer.assets \in Assets
    BY <1>1, WriterHas DEF Inv
  <1>5. published' = [published EXCEPT ![writer.tag] = writer.assets]
    BY <1>2, <1>3
  <1>6. /\ published'[writer.tag] = writer.assets
        /\ \A v \in Versions : v # writer.tag => published'[v] = published[v]
        /\ published' \in [Versions -> {None} \cup Assets]
    BY <1>4, <1>5, TypesAre DEF Inv
  <1> QED
    BY <1>1, <1>4, <1>5, <1>6 DEF Inv, Chosen, Releasing

\* What it publishes is the draft it verified: the assets of the reviewed tree.
LEMMA PublishInv ==
  ASSUME Inv, Publish
  PROVE  Inv'
  <1>1. /\ writer # None /\ writer.at = "edit" /\ Goes("check") /\ latest' = writer.tag
        /\ UNCHANGED <<commits, tags, lagging, npm, runs, manual, kills, shows>> /\ main' = main
    BY DEF Publish, At, main
  <1>2. PICK d \in DraftsOf(writer.tag) : drafts' = Without(d)
    BY DEF Publish
  <1>3. /\ writer.tag \in Versions /\ writer.assets # None
        /\ published'[writer.tag] = writer.assets
        /\ \A v \in Versions : v # writer.tag => published'[v] = published[v]
        /\ published' \in [Versions -> {None} \cup Assets]
        /\ tags[writer.tag] # None
        /\ commits[tags[writer.tag].commit] = writer.assets.tree
        /\ writer.assets.tree.version = writer.tag
    BY PublishIs
  <1>4. /\ DOMAIN drafts' \subseteq 1..(MaxKills + 2)
        /\ \A e \in DOMAIN drafts' : drafts'[e] \in Drafts
        /\ OneDraft'
    BY <1>1, <1>2, WithoutIs DEF Inv, DraftsAre, DraftsOf
  <1>5. /\ Same /\ writer'.at = "check" /\ writer'.tag = writer.tag
        /\ writer'.assets = writer.assets
    BY <1>1, TypesAre DEF Inv, Same, Goes, Writers, Steps
  <1>6. TypeOK'
    BY <1>1, <1>3, <1>4, <1>5 DEF Inv, TypeOK, Same, Drafts, Writers, Steps
  <1>7. History' /\ TagsAre' /\ RunsAre'
    BY <1>1 DEF Inv, History, TagsAre, RunsAre
  <1>8. PublicAre'
    BY <1>1, <1>3 DEF Inv, PublicAre
  <1>9. WriterIs'
    BY <1>1, <1>5, SameWriter
  <1>10. Seen' /\ Chosen'
    BY <1>5 DEF Seen, Chosen, Looking, Releasing
  <1>11. DraftsAre'
    BY <1>3, <1>4, <1>5 DEF DraftsAre, At
  <1> QED
    BY <1>6, <1>7, <1>8, <1>9, <1>10, <1>11 DEF Inv

\* It looks at what is public and leaves.
LEMMA VerifyPublishedInv ==
  ASSUME Inv, VerifyPublished
  PROVE  Inv'
  <1> DEFINE result == IF Exact(published[writer.tag]) /\ latest = writer.tag
                       THEN "done" ELSE "failed"
  <1>1. writer # None /\ Leaves(result) /\ UNCHANGED <<remote, npm, kills, shows>>
    BY DEF VerifyPublished, At
  <1>2. result \in {"failed", "done"}
    OBVIOUS
  <1> HIDE DEF result
  <1> QED
    BY <1>1, <1>2, GivesUpInv

\* It is killed at any place, with or without its cleanup.
LEMMA StepFailsInv ==
  ASSUME Inv, StepFails
  PROVE  Inv'
  <1>1. kills' \in 0..MaxKills
    BY OneMore DEF Inv, StepFails
  <1> QED
    BY <1>1, CleanLeavesInv DEF StepFails

-----------------------------------------------------------------------------
(* The invariant and what follows from it.                                   *)

\* The repository begins with one commit, its tag and its release.
LEMMA InitInv ==
  ASSUME Init
  PROVE  Inv
  <1> DEFINE first == [parent |-> 0, version |-> 1, shell |-> 1, automated |-> FALSE]
             tag == [commit |-> 1, candidate |-> 1]
             built == [tree |-> first, job |-> 1]
  <1>1. first \in Trees /\ first.version = 1 /\ first.automated = FALSE /\ first.parent = 0
    BY Bounds DEF Trees
  <1>2. tag \in Tags /\ tag # None /\ tag.commit = 1 /\ tag.candidate = 1
    BY Bounds, NamesAssumption DEF Tags
  <1>3. built \in Assets /\ built # None /\ built.tree = first
    <2> HIDE DEF first
    <2>1. built \in Assets /\ built.tree = first
      BY <1>1, Bounds DEF Assets, Jobs
    <2> QED
      BY <2>1, NamesAssumption
  <1> HIDE DEF first, tag, built
  <1>4. commits = <<first>> /\ main = 1 /\ commits[1] = first
    BY DEF Init, main, first
  <1>5. /\ tags = [v \in Versions |-> IF v = 1 THEN tag ELSE None]
        /\ published = [v \in Versions |-> IF v = 1 THEN built ELSE None]
    BY <1>4 DEF Init, tag, built
  <1>6. /\ lagging = {} /\ drafts = <<>> /\ latest = 1 /\ npm = 1 /\ writer = None /\ kills = 0
        /\ runs = [r \in Runs |-> [at |-> "idle", base |-> 0, shell |-> 1]]
        /\ manual = [v \in Versions |-> IF v = 1 THEN "done" ELSE "idle"] /\ shows \in Endpoints
    BY DEF Init
  <1>7. DOMAIN drafts = {}
    BY <1>6
  <1>8. commits \in Seq(Trees) /\ 1..main = {1}
    BY <1>1, <1>4
  <1>9. TypeOK
    <2>1. [at |-> "idle", base |-> 0, shell |-> 1] \in Intakes
      BY Bounds DEF Intakes
    <2>2. runs \in [Runs -> Intakes] /\ manual \in [Versions -> Manuals]
      BY <1>6, <2>1 DEF Manuals
    <2>3. tags \in [Versions -> {None} \cup Tags] /\ published \in [Versions -> {None} \cup Assets]
      BY <1>2, <1>3, <1>5
    <2>4. 1 \in 1..MaxShell /\ 0 \in 0..MaxKills
      BY Bounds
    <2> QED
      BY <1>4, <1>6, <1>7, <1>8, <2>2, <2>3, <2>4, Bounds, TypesBack
  <1>10. History
    BY <1>1, <1>4, <1>8 DEF History
  <1>11. TagsAre
    BY <1>2, <1>4, <1>5, <1>6, <1>8, Bounds DEF TagsAre
  <1>12. PublicAre
    BY <1>1, <1>2, <1>3, <1>4, <1>5, <1>6, Bounds DEF PublicAre
  <1>13. RunsAre
    BY <1>6 DEF RunsAre
  <1>14. WriterIs /\ Seen /\ Chosen /\ DraftsAre
    BY <1>6, <1>7 DEF WriterIs, Seen, Chosen, DraftsAre, OneDraft, At
  <1> QED
    BY <1>9, <1>10, <1>11, <1>12, <1>13, <1>14 DEF Inv

\* One lemma per action, put together.
LEMMA StepInv ==
  ASSUME Inv, [Next]_vars
  PROVE  Inv'
  <1>1. CASE UNCHANGED vars
    <2>1. UNCHANGED <<commits, tags, lagging, drafts, published, latest, npm, runs, manual,
                      writer, kills, shows>>
      BY <1>1 DEF vars, remote
    <2>2. RunsAre'
      BY <2>1 DEF Inv, RunsAre, main
    <2> QED
      BY <2>1, <2>2, QuietInv, TypesAre DEF Inv, TagsAre
  <1>2. CASE HumanCommit \/ ShellReleased
    BY <1>2, HumanCommitInv, ShellReleasedInv
  <1>3. CASE \E v \in Versions : HumanTag(v) \/ TagVisible(v) \/ Resolve(v) \/ EnterManual(v)
    BY <1>3, HumanTagInv, TagVisibleInv, ResolveInv, EnterManualInv
  <1>4. CASE \E r \in Runs : Trigger(r) \/ EnterRun(r)
    BY <1>4, TriggerInv, EnterRunInv
  <1>5. CASE \E j \in Jobs : Rerun(j) \/ Superseded(j)
    BY <1>5, RerunInv, SupersededInv
  <1>6. CASE Write
    BY <1>6, ReadMainInv, ReadTagInv, AwaitTagInv, ReadReleaseInv, PushInv, VerifyInv,
       DeleteDraftInv, CreateInv, UploadInv, VerifyDraftInv, PublishInv, VerifyPublishedInv
       DEF Write
  <1>7. CASE StepFails
    BY <1>7, StepFailsInv
  <1> QED
    BY <1>1, <1>2, <1>3, <1>4, <1>5, <1>6, <1>7 DEF Next

\* The inductive invariant, for any number of runs, commits, versions and kills.
THEOREM Invariance == Spec => []Inv
  BY InitInv, StepInv, PTL DEF Spec

\* PublishedIsReviewed: a public release was built of the tree that its tag names on
\* main, at every moment (release-coordinator.mjs, release-candidate.mjs).
THEOREM PublishedIsReviewedHolds == Spec => []PublishedIsReviewed
  <1>1. Inv => PublishedIsReviewed
    BY DEF Inv, PublicAre, PublishedIsReviewed
  <1> QED
    BY <1>1, Invariance, PTL

\* One step of the feed: nothing public changes, the latest never goes back.
LEMMA FeedStep ==
  ASSUME Inv, [Next]_vars
  PROVE  /\ \A v \in Versions : published[v] # None => published'[v] = published[v]
         /\ latest' >= latest
         /\ published'[latest'] # None
  <1> DEFINE P == /\ \A v \in Versions : published[v] # None => published'[v] = published[v]
                  /\ latest' >= latest
                  /\ published'[latest'] # None
  <1>1. ASSUME UNCHANGED <<published, latest>>
        PROVE  P
    BY <1>1, TypesAre, Bounds DEF Inv, PublicAre, Versions
  <1>2. ASSUME Publish
        PROVE  P
    <2> DEFINE v == writer.tag
    <2>1. /\ v \in Versions /\ published[v] = None /\ published'[v] = writer.assets
          /\ writer.assets # None /\ latest' = v
          /\ \A u \in Versions : u # v => published'[u] = published[u]
          /\ tags[v] # None /\ commits[tags[v].commit] = writer.assets.tree
          /\ writer.assets.tree.version = v
          /\ \A u \in Versions : published[u] # None => tags[u].commit <= tags[v].commit
      BY <1>2, PublishIs
    <2>2. /\ latest \in Versions /\ published[latest] # None /\ tags[latest] # None
          /\ commits[tags[latest].commit].version = latest
      BY TypesAre DEF Inv, PublicAre
    <2>3. /\ tags[latest].commit \in 1..main /\ tags[v].commit \in 1..main
          /\ tags[latest].commit <= tags[v].commit
      BY <2>1, <2>2 DEF Inv, TagsAre
    <2>4. commits[tags[latest].commit].version <= commits[tags[v].commit].version
      BY <2>3 DEF Inv, History
    <2>5. latest <= v
      BY <2>1, <2>2, <2>4
    <2>6. latest' >= latest
      BY <2>1, <2>2, <2>5, Bounds DEF Versions
    <2> QED
      BY <2>1, <2>6
  <1>3. CASE UNCHANGED vars
    BY <1>1, <1>3 DEF vars, remote
  <1>4. CASE HumanCommit \/ ShellReleased
    BY <1>1, <1>4 DEF HumanCommit, ShellReleased, remote
  <1>5. CASE \E v \in Versions : HumanTag(v) \/ TagVisible(v) \/ Resolve(v) \/ EnterManual(v)
    BY <1>1, <1>5 DEF HumanTag, TagVisible, Resolve, EnterManual, remote
  <1>6. CASE \E r \in Runs : Trigger(r) \/ EnterRun(r)
    BY <1>1, <1>6 DEF Trigger, EnterRun, remote
  <1>7. CASE \E j \in Jobs : Rerun(j) \/ Superseded(j)
    BY <1>1, <1>7 DEF Rerun, Superseded, remote
  <1>8. CASE ReadMain \/ ReadTag \/ AwaitTag \/ ReadRelease \/ Push \/ Verify
    BY <1>1, <1>8 DEF ReadMain, ReadTag, AwaitTag, ReadRelease, Push, Verify, remote
  <1>9. CASE DeleteDraft \/ Create \/ Upload \/ VerifyDraft \/ VerifyPublished
    BY <1>1, <1>9 DEF DeleteDraft, Create, Upload, VerifyDraft, VerifyPublished, remote
  <1>10. CASE StepFails
    BY <1>1, <1>10 DEF StepFails
  <1>11. CASE Write
    BY <1>2, <1>8, <1>9, <1>11 DEF Write
  <1> QED
    BY <1>3, <1>4, <1>5, <1>6, <1>7, <1>10, <1>11 DEF Next

\* FeedGrows: what the installed updaters see is never withdrawn, replaced or older than
\* it was, whoever is approved or rerun and however late (resolveCandidate() twice).
THEOREM FeedGrowsHolds == Spec => FeedGrows
  <1>1. Inv /\ [Next]_vars =>
          [/\ \A v \in Versions : published[v] # None => published'[v] = published[v]
           /\ latest' >= latest
           /\ published'[latest'] # None]_vars
    BY FeedStep
  <1> QED
    BY <1>1, Invariance, PTL DEF Spec, FeedGrows

-----------------------------------------------------------------------------
(* A rerun whose commit is out is refused by nothing but a kill or a draft   *)
(* it is not shown.                                                          *)

\* A run is refused: by its own job, or it is killed.
LEMMA WhoFails ==
  ASSUME Inv, Next, NEW r \in Runs, runs[r].at = "writing", runs'[r].at = "failed"
  PROVE  \/ kills' > kills
         \/ /\ writer # None /\ writer.job = r /\ Leaves("failed")
            /\ Write
  <1>1. runs \in [Runs -> Intakes] /\ r \notin Versions
    BY TypesAre, Bounds DEF Inv
  <1>2. ASSUME UNCHANGED runs PROVE FALSE
    BY <1>2
  <1>3. ASSUME NEW q \in Runs, NEW s, runs' = [runs EXCEPT ![q] = s], runs[q].at # "writing"
        PROVE  FALSE
    BY <1>1, <1>3
  <1>4. ASSUME NEW q \in Runs, NEW s, runs' = [runs EXCEPT ![q].at = s], runs[q].at # "writing"
        PROVE  FALSE
    BY <1>1, <1>4
  <1>5. ASSUME NEW result, Leaves(result), writer # None
        PROVE  writer.job = r /\ result = "failed"
    <2>1. CASE writer.job \in Runs /\ runs' = [runs EXCEPT ![writer.job].at = result]
      <3>1. writer.job = r
        BY <1>1, <2>1
      <3>2. runs[r] \in Intakes
        BY <1>1
      <3>3. runs'[r].at = result
        BY <1>1, <2>1, <3>1, <3>2 DEF Intakes
      <3> QED
        BY <3>1, <3>3
    <2>2. CASE UNCHANGED runs
      BY <1>2, <2>2
    <2> QED
      BY <1>5, <2>1, <2>2 DEF Leaves
  <1>6. CASE HumanCommit \/ ShellReleased
    BY <1>2, <1>6 DEF HumanCommit, ShellReleased
  <1>7. CASE \E v \in Versions : HumanTag(v) \/ TagVisible(v) \/ Resolve(v) \/ EnterManual(v)
    BY <1>2, <1>7 DEF HumanTag, TagVisible, Resolve, EnterManual
  <1>8. CASE \E q \in Runs : Trigger(q) \/ EnterRun(q)
    <2>1. PICK q \in Runs : Trigger(q) \/ EnterRun(q)
      BY <1>8
    <2> QED
      BY <1>3, <1>4, <2>1 DEF Trigger, EnterRun
  <1>9. CASE \E j \in Jobs : Rerun(j)
    BY <1>2, <1>4, <1>9 DEF Rerun
  <1>10. CASE \E j \in Jobs : Superseded(j)
    BY <1>2, <1>4, <1>10 DEF Superseded
  <1>11. CASE StepFails
    BY <1>11, TypesAre, Bounds DEF StepFails, Misfortune, Inv
  <1>12. CASE Write
    <2>1. CASE ReadMain \/ DeleteDraft \/ Create \/ Publish
      BY <1>2, <2>1 DEF ReadMain, DeleteDraft, Create, Publish
    <2>2. CASE ReadTag \/ AwaitTag \/ Push \/ Verify
      BY <1>2, <1>5, <1>12, <2>2 DEF ReadTag, AwaitTag, Push, Verify, At
    <2>3. CASE ReadRelease
      <3>1. writer # None /\ \E step : Leaves(step) \/ UNCHANGED runs
        BY <2>3 DEF ReadRelease, At
      <3> QED
        BY <1>2, <1>5, <1>12, <3>1
    <2>4. CASE Upload \/ VerifyDraft
      BY <1>2, <1>5, <1>12, <2>4 DEF Upload, VerifyDraft, At
    <2>5. CASE VerifyPublished
      BY <1>5, <1>12, <2>5 DEF VerifyPublished, At
    <2> QED
      BY <1>12, <2>1, <2>2, <2>3, <2>4, <2>5 DEF Write
  <1> QED
    BY <1>6, <1>7, <1>8, <1>9, <1>10, <1>11, <1>12 DEF Next

\* What the job of a run whose commit is out has seen.
LEMMA StandsIs ==
  ASSUME Inv, NEW r \in Runs, Stands(r), writer # None, writer.job = r
  PROVE  /\ main \in 1..main /\ main # writer.assets.tree.parent
         /\ commits[main] = writer.assets.tree
         /\ writer.tag = commits[main].version /\ writer.tag \in Versions
         /\ published[writer.tag] = None /\ tags[writer.tag] # None
         /\ tags[writer.tag].commit = main
         /\ writer.at \in Looking => writer.main = main
         /\ LeftDraft = (DraftsOf(writer.tag) # {})
  <1>1. main \in 1..main /\ main \in Nat
    BY TypesAre, Bounds DEF Inv, CommitIds
  <1>2. /\ main = runs[r].base + 1 /\ commits[main] = Candidate(r)
        /\ published[commits[main].version] = None
    BY DEF Stands
  <1>3. writer.assets.tree = Candidate(r) /\ writer.tag = writer.assets.tree.version
    BY DEF Inv, WriterIs
  <1>4. Candidate(r).parent = runs[r].base /\ Candidate(r).automated = TRUE
    BY DEF Candidate
  <1>5. runs[r].base \in Nat
    BY TypesAre, Bounds DEF Inv, Intakes
  <1>6. main # writer.assets.tree.parent
    BY <1>2, <1>3, <1>4, <1>5
  <1>7. tags[writer.tag] # None /\ tags[writer.tag].commit = main
    BY <1>1, <1>2, <1>3, <1>4 DEF Inv, History
  <1>8. writer.at \in Looking => writer.main = main
    <2> SUFFICES ASSUME writer.at \in Looking PROVE writer.main = main
      OBVIOUS
    <2>1. writer.main \in 1..main /\ ~(writer.main < main)
      BY <1>1, <1>2, <1>4 DEF Inv, Seen
    <2> QED
      BY <1>1, <2>1
  <1> QED
    BY <1>1, <1>2, <1>3, <1>6, <1>7, <1>8, WriterHas DEF Inv, LeftDraft

\* While it looks, it is never refused.
LEMMA LooksOn ==
  ASSUME Inv, NEW r \in Runs, Stands(r), writer # None, writer.job = r,
         runs[r].at = "writing", runs'[r].at = "failed",
         ReadTag \/ AwaitTag \/ ReadRelease \/ Push \/ Verify
  PROVE  FALSE
  <1>1. /\ main # writer.assets.tree.parent /\ commits[main] = writer.assets.tree
        /\ writer.tag \in Versions /\ published[writer.tag] = None
        /\ tags[writer.tag] # None /\ tags[writer.tag].commit = main
        /\ writer.at \in Looking => writer.main = main
    BY StandsIs
  <1>2. ASSUME UNCHANGED runs PROVE FALSE
    BY <1>2
  <1>3. ASSUME ReadTag PROVE FALSE
    <2>1. writer.main = main
      BY <1>1, <1>3 DEF ReadTag, At, Looking
    <2>2. IsCandidate(writer.main)
      BY <1>1, <2>1 DEF IsCandidate
    <2> QED
      BY <1>2, <1>3, <2>2 DEF ReadTag
  <1>4. ASSUME AwaitTag PROVE FALSE
    <2>1. writer.main = main
      BY <1>1, <1>4 DEF AwaitTag, At, Looking
    <2> QED
      BY <1>2, <1>4, <2>1 DEF AwaitTag
  <1>5. ASSUME Push PROVE FALSE
    BY <1>1, <1>5 DEF Push, At, Looking, Inv, Seen
  <1>6. ASSUME Verify PROVE FALSE
    BY <1>6 DEF Verify, At, Inv, WriterIs
  <1>7. ASSUME ReadRelease PROVE FALSE
    <2>1. writer.at = "release" /\ writer.main = main
      BY <1>1, <1>7 DEF ReadRelease, At, Looking
    <2>2. PICK answer \in Answers(writer.tag) :
            LET step == NextStep(Classify(answer)) IN
             \/ step \in {"failed", "done"} /\ Leaves(step)
             \/ step \notin {"failed", "done"} /\ UNCHANGED runs
      BY <1>7 DEF ReadRelease
    <2>3. writer.named = main /\ main # 0
      <3>1. main \in Nat \ {0}
        BY TypesAre, Bounds DEF Inv, CommitIds
      <3> QED
        BY <1>1, <2>1, <3>1 DEF Inv, Seen, Looking
    <2>4. Reviewed /\ writer.named # 0
      BY <1>1, <2>1, <2>3 DEF Reviewed, IsCandidate
    <2>5. answer = None \/ answer.draft
      BY <1>1, AnswerIs DEF Inv
    <2> DEFINE mode == Classify(answer)
    <2>6. mode \in {"release-create", "draft-complete", "draft-replace"}
      BY <2>4, <2>5 DEF Classify
    <2> HIDE DEF mode
    <2>7. NextStep(mode) \in {"main", "delete", "create", "list"}
      BY <2>6 DEF NextStep
    <2>8. NextStep(mode) \notin {"failed", "done"}
      BY <2>7
    <2>9. UNCHANGED runs
      BY <2>2, <2>8 DEF mode
    <2> QED
      BY <1>2, <2>9
  <1> QED
    BY <1>3, <1>4, <1>5, <1>6, <1>7

\* Writing, it is refused for a draft that is left and not shown.
LEMMA WritesOn ==
  ASSUME Inv, NEW r \in Runs, Stands(r), writer # None, writer.job = r,
         runs[r].at = "writing", runs'[r].at = "failed",
         Upload \/ VerifyDraft \/ VerifyPublished
  PROVE  ~shows /\ LeftDraft
  <1>1. /\ writer.tag \in Versions /\ published[writer.tag] = None
        /\ LeftDraft = (DraftsOf(writer.tag) # {})
    BY StandsIs
  <1>2. ASSUME UNCHANGED runs PROVE FALSE
    BY <1>2
  <1>3. shows => \A d \in DraftsOf(writer.tag) : DraftsOf(writer.tag) = {d}
    BY DEF Inv, DraftsAre, OneDraft, DraftsOf
  <1>4. CASE Upload
    <2>1. Cardinality(DraftsOf(writer.tag)) > 1
      BY <1>2, <1>4 DEF Upload
    <2>2. DraftsOf(writer.tag) # {}
      BY <2>1, FS_EmptySet
    <2>3. ~shows
      <3> SUFFICES ASSUME shows PROVE FALSE
        OBVIOUS
      <3>1. PICK d \in DraftsOf(writer.tag) : DraftsOf(writer.tag) = {d}
        BY <1>3, <2>2
      <3>2. Cardinality({d}) = 1
        BY FS_Singleton
      <3> QED
        BY <2>1, <3>1, <3>2
    <2> QED
      BY <1>1, <2>2, <2>3
  <1>5. CASE VerifyDraft
    <2>1. PICK d \in DraftsOf(writer.tag) : Exact(drafts[d].assets)
      BY <1>5 DEF VerifyDraft, Inv, DraftsAre
    <2>2. ~(DraftsOf(writer.tag) = {d})
      BY <1>2, <1>5, <2>1 DEF VerifyDraft
    <2> QED
      BY <1>1, <1>3, <2>1, <2>2
  <1>6. CASE VerifyPublished
    BY <1>1, <1>6 DEF VerifyPublished, Inv, DraftsAre
  <1> QED
    BY <1>4, <1>5, <1>6

\* RerunPublishes: an intake run whose commit is main's tip and has no public release
\* is refused only if it is killed, or for a draft that GitHub did not show it
\* (classifyRemoteRelease() and the publication job).
THEOREM RerunPublishesHolds == Spec => RerunPublishes
  <1>1. ASSUME Inv, Next, NEW r \in Runs, runs[r].at = "writing", runs'[r].at = "failed",
               Stands(r)
        PROVE  kills' > kills \/ (~shows /\ LeftDraft)
    <2>1. CASE kills' > kills
      BY <2>1
    <2>2. CASE writer # None /\ writer.job = r /\ Write
      <3>1. ~(ReadTag \/ AwaitTag \/ ReadRelease \/ Push \/ Verify)
        BY <1>1, <2>2, LooksOn
      <3>2. ~(ReadMain \/ DeleteDraft \/ Create \/ Publish)
        BY <1>1 DEF ReadMain, DeleteDraft, Create, Publish
      <3>3. Upload \/ VerifyDraft \/ VerifyPublished
        BY <2>2, <3>1, <3>2 DEF Write
      <3> QED
        BY <1>1, <2>2, <3>3, WritesOn
    <2> QED
      BY <1>1, <2>1, <2>2, WhoFails
  <1>2. Inv /\ [Next]_vars =>
          [\A r \in Runs :
             runs[r].at = "writing" /\ runs'[r].at = "failed" /\ Stands(r) =>
               kills' > kills \/ (~shows /\ LeftDraft)]_vars
    BY <1>1
  <1> QED
    BY <1>2, Invariance, PTL DEF Spec, RerunPublishes
===============================================================================
