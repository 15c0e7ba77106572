------------------------------- MODULE AppImage -------------------------------
(***************************************************************************)
(* src/src/platform-updaters.js: the AppImage updater, which replaces the   *)
(* file the app was started from while it runs.                             *)
(*                                                                          *)
(* One action is one file system call, because the process may be killed or *)
(* the machine lose power between any two, and every call may fail.  The    *)
(* JavaScript between two awaits is not interleaved (InSync).  A rename and *)
(* an unlink are atomic and durable in their order; the data of a file is   *)
(* durable once synced.                                                     *)
(***************************************************************************)
EXTENDS FiniteSets

CONSTANTS Names,        \* file names for the AppImage in its directory
          Attempts,     \* calls of quitAndInstall()
          Absent        \* no file

\* What a file holds: the image, and whether all of it was written and synced.
Image == [image : {"old", "new"}, data : {"partial", "cached", "durable"}]

ASSUME AppImageConstants == Absent \notin Image

File == Image \cup {Absent}
Written(image, data) == [image |-> image, data |-> data]
Complete(file) == file # Absent /\ file.data # "partial"

\* In one stretch of JavaScript, and at an await.
InSync == {"copying", "copied", "backing", "backed", "ready", "committing", "cleaning"}
Awaiting == {"launching", "clearing"}
Ended == {"failed", "dirty", "quit", "killed"}

VARIABLES
    files,      \* the AppImages in the directory
    current,    \* APPIMAGE: the file this process was started from
    alive,      \* the process runs
    called,     \* quitAndInstallCalled
    pc,         \* per attempt, the call it makes next
    dest,       \* per attempt, the destination
    staged,     \* per attempt, replacement.AppImage in its staging directory
    backup,     \* per attempt, previous.AppImage there
    before,     \* per attempt, the directory when it began
    launched    \* attempts whose new version was launched

process == <<current, alive>>
appImageVars == <<files, process, called, pc, dest, staged, backup, before, launched>>

AppImageTypeOK ==
    /\ files \in [Names -> File]
    /\ current \in Names
    /\ alive \in BOOLEAN /\ called \in BOOLEAN
    /\ pc \in [Attempts -> {"new"} \cup InSync \cup Awaiting \cup Ended]
    /\ dest \in [Attempts -> Names]
    /\ staged \in [Attempts -> File]
    /\ backup \in [Attempts -> File]
    /\ before \in [Attempts -> [Names -> File]]
    /\ launched \subseteq Attempts
    /\ \A a \in Attempts :
         staged[a] # Absent => pc[a] \in {"copying", "copied", "backing", "backed", "ready", "killed"}

\* At least one installed version is there; it need not be the file the process
\* was started from, which may have been removed or renamed since.
AppImageInit ==
    /\ files \in [Names -> {Absent, Written("old", "durable")}]
    /\ \E n \in Names : files[n] # Absent
    /\ current \in Names
    /\ alive = TRUE /\ called = FALSE
    /\ pc = [a \in Attempts |-> "new"]
    /\ dest = [a \in Attempts |-> current]
    /\ staged = [a \in Attempts |-> Absent]
    /\ backup = [a \in Attempts |-> Absent]
    /\ before = [a \in Attempts |-> files]
    /\ launched = {}

-----------------------------------------------------------------------------
(* The attempt.                                                             *)

Reaches(a, place) == alive /\ pc[a] = place
Goes(a, place) == pc' = [pc EXCEPT ![a] = place]
Idle == alive /\ \A a \in Attempts : pc[a] \notin InSync

\* Mutant: a second call is not refused.
MayBeginAgain == TRUE

\* beginQuitAndInstall() and the start of prepareAppImageReplacement(): a second
\* call is refused.  The new version keeps the file's name, or brings its own.
MayBegin == ~called
Begin(a) ==
    /\ Idle /\ MayBegin
    /\ pc[a] = "new"
    /\ called' = TRUE
    /\ Goes(a, "copying")
    /\ \E n \in Names : dest' = [dest EXCEPT ![a] = n]
    /\ before' = [before EXCEPT ![a] = files]
    /\ staged' = [staged EXCEPT ![a] = Written("new", "partial")]
    /\ UNCHANGED <<files, process, backup, launched>>

\* No download, no APPIMAGE, no valid path, or no staging directory.
BeginFails(a) ==
    /\ Idle /\ MayBegin
    /\ pc[a] = "new"
    /\ Goes(a, "failed")
    /\ before' = [before EXCEPT ![a] = files]
    /\ UNCHANGED <<files, process, called, dest, staged, backup, launched>>

\* copyFileSync and chmodSync of the verified download.
CopyStaged(a) ==
    /\ Reaches(a, "copying")
    /\ staged' = [staged EXCEPT ![a] = Written("new", "cached")]
    /\ Goes(a, "copied")
    /\ UNCHANGED <<files, process, called, dest, backup, before, launched>>

Existed(a) == before[a][dest[a]] # Absent

\* fsync; then the copy of the prior file begins, if there is one.
SyncStaged(a) ==
    /\ Reaches(a, "copied")
    /\ staged' = [staged EXCEPT ![a] = Written("new", "durable")]
    /\ IF Existed(a)
       THEN /\ Goes(a, "backing")
            /\ backup' = [backup EXCEPT ![a] = Written(files[dest[a]].image, "partial")]
       ELSE Goes(a, "ready") /\ UNCHANGED backup
    /\ UNCHANGED <<files, process, called, dest, before, launched>>

CopyBackup(a) ==
    /\ Reaches(a, "backing")
    /\ backup' = [backup EXCEPT ![a].data = "cached"]
    /\ Goes(a, "backed")
    /\ UNCHANGED <<files, process, called, dest, staged, before, launched>>

SyncBackup(a) ==
    /\ Reaches(a, "backed")
    /\ backup' = [backup EXCEPT ![a].data = "durable"]
    /\ Goes(a, "ready")
    /\ UNCHANGED <<files, process, called, dest, staged, before, launched>>

\* The rename, and the launch of the new version at once.
Replace(a) ==
    /\ Reaches(a, "ready")
    /\ files' = [files EXCEPT ![dest[a]] = staged[a]]
    /\ staged' = [staged EXCEPT ![a] = Absent]
    /\ Goes(a, "launching")
    /\ UNCHANGED <<process, called, dest, backup, before, launched>>

\* Any of those calls throws: the staging directory goes, the error is told.
PrepareFails(a) ==
    /\ \E place \in {"copying", "copied", "backing", "backed", "ready"} : Reaches(a, place)
    /\ staged' = [staged EXCEPT ![a] = Absent]
    /\ backup' = [backup EXCEPT ![a] = Absent]
    /\ called' = FALSE
    /\ Goes(a, "failed")
    /\ UNCHANGED <<files, process, dest, before, launched>>

Launch(a) ==
    /\ Idle /\ Reaches(a, "launching")
    /\ launched' = launched \cup {a}
    /\ Goes(a, "committing")
    /\ UNCHANGED <<files, process, called, dest, staged, backup, before>>

\* The launch fails: rollback().  A rollback that fails keeps the backup.
RolledBack(a) ==
    /\ files' = [files EXCEPT ![dest[a]] = IF Existed(a) THEN backup[a] ELSE Absent]
    /\ backup' = [backup EXCEPT ![a] = Absent]
    /\ Goes(a, "failed")

\* Mutant: the staging directory goes whatever became of the rollback.
RollbackFailsTidy(a) ==
    /\ Goes(a, "dirty")
    /\ backup' = [backup EXCEPT ![a] = Absent]
    /\ UNCHANGED files

RollbackFails(a) ==
    /\ Goes(a, "dirty")
    /\ UNCHANGED <<files, backup>>

NewLaunchFails(a) ==
    /\ Idle /\ Reaches(a, "launching")
    /\ RolledBack(a) \/ RollbackFails(a)
    /\ called' = FALSE
    /\ UNCHANGED <<process, dest, staged, before, launched>>

\* Mutant: the file the app was started from goes, destination or not.
CommitAlways(a) ==
    /\ Reaches(a, "committing")
    /\ UNCHANGED files \/ files' = [files EXCEPT ![current] = Absent]
    /\ Goes(a, "cleaning")
    /\ UNCHANGED <<process, called, dest, staged, backup, before, launched>>

\* commit(): a versioned file's predecessor goes, if it can be removed.
Commit(a) ==
    /\ Reaches(a, "committing")
    /\ \/ UNCHANGED files
       \/ dest[a] # current /\ files' = [files EXCEPT ![current] = Absent]
    /\ Goes(a, "cleaning")
    /\ UNCHANGED <<process, called, dest, staged, backup, before, launched>>

CleanUp(a) ==
    /\ Reaches(a, "cleaning")
    /\ UNCHANGED backup \/ backup' = [backup EXCEPT ![a] = Absent]
    /\ Goes(a, "clearing")
    /\ UNCHANGED <<files, process, called, dest, staged, before, launched>>

\* The download cache is cleared, or not; app.quit().
QuitApp(a) ==
    /\ Idle /\ Reaches(a, "clearing")
    /\ alive' = FALSE
    /\ Goes(a, "quit")
    /\ UNCHANGED <<files, current, called, dest, staged, backup, before, launched>>

-----------------------------------------------------------------------------
(* Crashes.                                                                 *)

Left(file, power) ==
    IF power /\ file # Absent /\ file.data = "cached"
    THEN [file EXCEPT !.data = "partial"] ELSE file

\* The process is killed, or the machine loses power and what was not synced.
Dies(power) ==
    /\ alive
    /\ alive' = FALSE
    /\ pc' = [a \in Attempts |-> IF pc[a] \in InSync \cup Awaiting THEN "killed" ELSE pc[a]]
    /\ files' = [n \in Names |-> Left(files[n], power)]
    /\ staged' = [a \in Attempts |-> Left(staged[a], power)]
    /\ backup' = [a \in Attempts |-> Left(backup[a], power)]
    /\ UNCHANGED <<current, called, dest, before, launched>>

\* The user starts an image that is there.
Restart ==
    /\ ~alive
    /\ \E n \in Names : Complete(files[n]) /\ current' = n
    /\ alive' = TRUE
    /\ called' = FALSE
    /\ UNCHANGED <<files, pc, dest, staged, backup, before, launched>>

-----------------------------------------------------------------------------

Prepare(a) == CopyStaged(a) \/ SyncStaged(a) \/ CopyBackup(a) \/ SyncBackup(a) \/ Replace(a)
              \/ PrepareFails(a)
Settle(a) == Launch(a) \/ NewLaunchFails(a) \/ Commit(a) \/ CleanUp(a) \/ QuitApp(a)
Steps(a) == Prepare(a) \/ Settle(a)

AppImageNext ==
    \/ \E a \in Attempts : Begin(a) \/ BeginFails(a) \/ Steps(a)
    \/ \E power \in BOOLEAN : Dies(power)
    \/ Restart

AppImageSpec == AppImageInit /\ [][AppImageNext]_appImageVars

-----------------------------------------------------------------------------
(* Properties.                                                              *)

\* The image is there in full, under a name or as a backup that was kept.
Present(image) ==
    \/ \E n \in Names : Complete(files[n]) /\ files[n].image = image
    \/ \E a \in Attempts : Complete(backup[a]) /\ backup[a].image = image

\* "failure leaves two working versions, not zero" (platform-updaters.js:105):
\* whatever call fails and whenever the machine stops, a whole AppImage is there
\* to be started.
Bootable == \E n \in Names : Complete(files[n])

\* "preserve the prior file for rollback" (platform-updaters.js:73-74): until a
\* new version has been launched the old one is not lost, not even where the
\* rollback fails; afterwards the new one is there.
NewInstalled == \E n \in Names : Complete(files[n]) /\ files[n].image = "new"
PriorKept == Present("old") \/ (launched # {} /\ NewInstalled)

\* "an atomic transaction" (platform-updaters.js:146): an attempt that failed and
\* rolled back leaves the directory as it found it, so that no other attempt
\* may have run meanwhile.
FailureRestores ==
    [][\A a \in Attempts : pc[a] # "failed" /\ pc'[a] = "failed" => files' = before'[a]]_appImageVars

\* A failed attempt can be retried: "Mirafold has kept the downloaded update for
\* another attempt" (updater.js:288).
RetryAllowed ==
    (\A a \in Attempts : pc[a] \in {"new", "failed", "dirty"}) => ~called
==============================================================================
