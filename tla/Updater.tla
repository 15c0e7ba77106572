------------------------------- MODULE Updater -------------------------------
(***************************************************************************)
(* src/src/updater.js: createDesktopUpdater(), the controller of checks,    *)
(* prompts and installation, between the electron-updater library and the   *)
(* two callbacks of src/src/main.js, prepareInstall and recoverInstall.     *)
(*                                                                          *)
(* One action is what runs between two awaits of something slower than the  *)
(* microtask queue.  Of the main process there is the queue of its two      *)
(* update transitions and what they do to the daemon session; Desktop.tla   *)
(* has the rest.  The library is what the controller uses of it.            *)
(***************************************************************************)
EXTENDS Naturals, Sequences, FiniteSets

CONSTANTS Versions, None,
          MaxManual,    \* bound: "Check for Updates" clicks
          StrayErrors   \* may the library's "error" also tell of a check or a
                        \* download that failed, and not only of an installer?

ASSUME UpdaterConstants ==
    None \notin Versions /\ MaxManual \in Nat /\ StrayErrors \subseteq BOOLEAN

\* The dialogs of the controller, by what waits for them: the prompt's own
\* choice; the outcome or the failure of a check; the end of an installation
\* that was refused, could not be prepared, or failed; the download page that
\* did not open; nobody.
Dialogs == {"prompt", "outcome", "checkFailed", "refused", "installFailed", "pageFailed",
            "notice"}
Stages == {"loading", "asking", "outcome", "prompt", "failing"}
Checks == [manual : BOOLEAN, stage : Stages]
NoPrompt == [info |-> None, inFlight |-> FALSE, prompted |-> None]

VARIABLES
    strategy,   \* install or manual-download
    stray,      \* the member of StrayErrors that is true of the library
    started,    \* start() was called
    clicks,     \* manual checks so far
    loaded,     \* the library is loaded and configured
    check,      \* checkPromise with its context, or None
    download,   \* a download: None, or who is told that it failed
    prompt,     \* installPrompt or externalPrompt, the one this strategy uses
    dialogs,    \* dialogTail
    shown,      \* the first of them is on the screen
    installing,
    install,    \* what installDownloadedUpdate() awaits
    recovery,   \* what installFailurePromise awaits, or none
    turns,      \* main.js: update transitions that wait for their turn
    session,    \* main.js: the daemon's process tree
    quitting,
    closing     \* lifecycle.closing

checking == <<strategy, stray, started, clicks, loaded, check, download>>
asking == <<prompt, dialogs, shown>>
installer == <<installing, install, recovery>>
main == <<turns, session, quitting, closing>>
vars == <<checking, asking, installer, main>>

TypeOK ==
    /\ strategy \in {"install", "manual-download"} /\ stray \in StrayErrors
    /\ started \in BOOLEAN /\ loaded \in BOOLEAN /\ shown \in BOOLEAN
    /\ clicks \in 0..MaxManual
    /\ check \in Checks \cup {None}
    /\ download \in {None, "silent", "told"}
    /\ prompt \in [info : Versions \cup {None}, inFlight : BOOLEAN,
                   prompted : Versions \cup {None}]
    /\ dialogs \in Seq(Dialogs)
    /\ shown => dialogs # <<>>
    /\ installing \in BOOLEAN
    /\ install \in {"idle", "preparing", "launching", "waiting", "told", "left"}
    /\ recovery \in {"none", "recovering", "reporting"}
    /\ turns \in Seq({"prepare", "recover"})
    /\ session \in {"up", "stopped", "unproved"}
    /\ quitting \in BOOLEAN /\ closing \in BOOLEAN

\* start() is called once the first boot succeeded.
Init ==
    /\ strategy \in {"install", "manual-download"} /\ stray \in StrayErrors
    /\ started = FALSE /\ clicks = 0 /\ loaded = FALSE
    /\ check = None /\ download = None
    /\ prompt = NoPrompt /\ dialogs = <<>> /\ shown = FALSE
    /\ installing = FALSE /\ install = "idle" /\ recovery = "none"
    /\ turns = <<>> /\ session = "up" /\ quitting = FALSE /\ closing = FALSE

-----------------------------------------------------------------------------
(* Dialogs and prompts.                                                     *)

Say(ds) == dialogs' = dialogs \o ds

\* reportFailure(): logged, and told to whoever asked.
Failure(dialog, visible) == IF visible THEN <<dialog>> ELSE <<>>

\* Mutant: a prompt in flight does not keep the next one away.
ShowsAgain(version, repeat) == repeat \/ prompt.prompted # version

\* A prompt is shown unless one is, or unless this version was answered already
\* and nobody asks to see it again.
Shows(version, repeat) == ~prompt.inFlight /\ (repeat \/ prompt.prompted # version)

PromptNow(version, repeat) ==
    IF Shows(version, repeat)
    THEN prompt' = [info |-> version, inFlight |-> TRUE, prompted |-> version]
    ELSE prompt' = [prompt EXCEPT !.info = version]
PromptDialog(version, repeat) == IF Shows(version, repeat) THEN <<"prompt">> ELSE <<>>

\* The promise of the prompt settles, and with it a check that awaits it.
EndPrompt ==
    /\ prompt' = [prompt EXCEPT !.inFlight = FALSE]
    /\ check' = IF check # None /\ check.stage = "prompt" THEN None ELSE check

-----------------------------------------------------------------------------
(* The failure of an installer.                                             *)

\* recoverFromInstallFailure(): recoverInstall() queues a transition, or returns
\* at once when the app closes.
Recovers == installing /\ recovery = "none"
Recover ==
    IF Recovers
    THEN /\ installing' = FALSE
         /\ recovery' = IF closing THEN "reporting" ELSE "recovering"
         /\ turns' = IF closing THEN turns ELSE Append(turns, "recover")
    ELSE UNCHANGED <<installing, recovery, turns>>
RecoveryDialog == IF Recovers /\ closing THEN <<"installFailed">> ELSE <<>>

\* The library's "error" event for something else than an installer.
StrayError == IF stray THEN Recover ELSE UNCHANGED <<installing, recovery, turns>>
StrayDialog == IF stray THEN RecoveryDialog ELSE <<>>

-----------------------------------------------------------------------------
(* Checks.                                                                  *)

\* checkForUpdates(manual)
Check(manual) ==
    IF manual /\ prompt.info # None
    THEN /\ PromptNow(prompt.info, TRUE)
         /\ Say(PromptDialog(prompt.info, TRUE))
         /\ UNCHANGED check
    ELSE IF check # None
    THEN Say(Failure("notice", manual)) /\ UNCHANGED <<check, prompt>>
    ELSE /\ check' = [manual |-> manual, stage |-> IF loaded THEN "asking" ELSE "loading"]
         /\ UNCHANGED <<prompt, dialogs>>

Start ==
    /\ ~closing /\ ~started
    /\ started' = TRUE
    /\ Check(FALSE)
    /\ UNCHANGED <<strategy, stray, clicks, loaded, download, shown, installer, main>>

CheckManually ==
    /\ ~closing /\ clicks < MaxManual
    /\ clicks' = clicks + 1
    /\ Check(TRUE)
    /\ UNCHANGED <<strategy, stray, started, loaded, download, shown, installer, main>>

At(stage) == check # None /\ check.stage = stage
CheckAwaits(stage) == check' = [check EXCEPT !.stage = stage]

\* The check fails: a manual one waits until the user has been told.
CheckEnds == IF check.manual THEN CheckAwaits("failing") ELSE check' = None

LibraryLoads ==
    /\ At("loading")
    /\ loaded' = TRUE
    /\ CheckAwaits("asking")
    /\ UNCHANGED <<strategy, stray, started, clicks, download, asking, installer, main>>

LibraryFails ==
    /\ At("loading")
    /\ CheckEnds
    /\ Say(Failure("checkFailed", check.manual))
    /\ UNCHANGED <<strategy, stray, started, clicks, loaded, download, prompt, shown, installer, main>>

\* "update-available" where the app installs: the download goes on, or begins.
UpdateAvailable ==
    /\ At("asking") /\ strategy = "install"
    /\ download' = IF check.manual THEN "told"
                   ELSE IF download = None THEN "silent" ELSE download
    /\ IF check.manual THEN CheckAwaits("outcome") ELSE check' = None
    /\ Say(Failure("outcome", check.manual))
    /\ UNCHANGED <<strategy, stray, started, clicks, loaded, prompt, shown, installer, main>>

\* "update-available" where the user downloads: the check awaits the prompt.
ExternalUpdate ==
    /\ At("asking") /\ strategy = "manual-download"
    /\ \E version \in Versions :
         /\ PromptNow(version, FALSE)
         /\ Say(PromptDialog(version, FALSE))
         /\ IF prompt.inFlight \/ Shows(version, FALSE)
            THEN CheckAwaits("prompt") ELSE check' = None
    /\ UNCHANGED <<strategy, stray, started, clicks, loaded, download, shown, installer, main>>

NoUpdate ==
    /\ At("asking")
    /\ IF check.manual THEN CheckAwaits("outcome") ELSE check' = None
    /\ Say(Failure("outcome", check.manual))
    /\ UNCHANGED <<strategy, stray, started, clicks, loaded, download, prompt, shown, installer, main>>

CheckFails ==
    /\ At("asking")
    /\ StrayError
    /\ CheckEnds
    /\ Say(StrayDialog \o Failure("checkFailed", check.manual))
    /\ UNCHANGED <<strategy, stray, started, clicks, loaded, download, prompt, shown, install,
                   session, quitting, closing>>

\* "update-downloaded"
Downloaded ==
    /\ download # None
    /\ download' = None
    /\ \E version \in Versions :
         /\ PromptNow(version, FALSE)
         /\ Say(PromptDialog(version, FALSE))
    /\ UNCHANGED <<strategy, stray, started, clicks, loaded, check, shown, installer, main>>

DownloadFails ==
    /\ download # None
    /\ download' = None
    /\ StrayError
    /\ Say(StrayDialog \o Failure("notice", download = "told"))
    /\ UNCHANGED <<strategy, stray, started, clicks, loaded, check, prompt, shown, install,
                   session, quitting, closing>>

-----------------------------------------------------------------------------
(* Installing.                                                              *)

\* What installDownloadedUpdate() does once it returns.
InstallEnds(stage) == install' = stage /\ EndPrompt

\* prepareInstall() said no.  (main.js lets it throw nowhere.)
RefusedWith(ds) ==
    /\ installing' = FALSE
    /\ install' = "told"
    /\ Say(ds \o <<"refused">>)

\* prepareForUpdateInstall() looks before it queues its transition.
MayPrepare == ~quitting /\ ~closing /\ session # "unproved"

Install(rest) ==
    \/ /\ installing
       /\ InstallEnds(install)
       /\ dialogs' = rest
       /\ UNCHANGED <<installing, turns>>
    \/ /\ ~installing /\ MayPrepare
       /\ installing' = TRUE
       /\ install' = "preparing"
       /\ turns' = Append(turns, "prepare")
       /\ dialogs' = rest
       /\ UNCHANGED <<prompt, check>>
    \/ /\ ~installing /\ ~MayPrepare
       /\ installing' = FALSE
       /\ install' = "told"
       /\ dialogs' = rest \o <<"refused">>
       /\ UNCHANGED <<prompt, check, turns>>

\* The turn of prepareInstall(): the tree is proved gone and boots are frozen,
\* and quitAndInstall() is called at once.
PrepareProves ==
    /\ turns # <<>> /\ Head(turns) = "prepare"
    /\ MayPrepare
    /\ turns' = Tail(turns)
    /\ session' = "stopped"
    /\ quitting' = TRUE
    /\ install' = "launching"
    /\ UNCHANGED <<checking, asking, installing, recovery, closing>>

\* It is skipped, comes too late, or cannot prove it, upon which the app quits.
PrepareRefuses ==
    /\ turns # <<>> /\ Head(turns) = "prepare"
    /\ turns' = Tail(turns)
    /\ IF MayPrepare
       THEN session' = "unproved" /\ quitting' = TRUE /\ closing' = TRUE
       ELSE UNCHANGED <<session, quitting, closing>>
    /\ RefusedWith(<<>>)
    /\ UNCHANGED <<checking, prompt, shown, recovery>>

\* The installer runs: app.quit().  A controller that stopped installing awaits
\* the recovery first.
LaunchSucceeds ==
    /\ install = "launching"
    /\ quitting' = TRUE /\ closing' = TRUE
    /\ \/ installing /\ InstallEnds("left")
       \/ /\ ~installing /\ recovery # "none"
          /\ install' = "waiting"
          /\ UNCHANGED <<prompt, check>>
       \/ ~installing /\ recovery = "none" /\ InstallEnds("idle")
    /\ UNCHANGED <<strategy, stray, started, clicks, loaded, download, dialogs, shown, installing,
                   recovery, turns, session>>

\* Mutant: a failed installer is not recovered from.
LaunchFailsUnrecovered ==
    /\ install = "launching"
    /\ installing' = FALSE
    /\ InstallEnds("idle")
    /\ UNCHANGED <<strategy, stray, started, clicks, loaded, download, dialogs, shown, recovery, main>>

\* The installer fails: by an "error" event, after which quitAndInstall()
\* resolves (platform-updaters.js), or by throwing where no stray error came
\* first.
LaunchFails ==
    /\ install = "launching"
    /\ Recover
    /\ Say(RecoveryDialog)
    /\ \/ /\ recovery' # "none"
          /\ install' = "waiting"
          /\ UNCHANGED <<prompt, check>>
       \/ recovery' = "none" /\ InstallEnds("idle")
    /\ UNCHANGED <<strategy, stray, started, clicks, loaded, download, shown, session, quitting, closing>>

\* Mutant: the recovery does not take `quitting` back.
RecoverTurnStillQuitting ==
    /\ turns # <<>> /\ Head(turns) = "recover"
    /\ turns' = Tail(turns)
    /\ recovery' = "reporting"
    /\ Say(<<"installFailed">>)
    /\ UNCHANGED <<checking, prompt, shown, installing, install, session, quitting, closing>>

\* The turn of recoverInstall(): boots are allowed again, and one is made.
RecoverTurn ==
    /\ turns # <<>> /\ Head(turns) = "recover"
    /\ turns' = Tail(turns)
    /\ IF closing
       THEN UNCHANGED <<quitting, session>>
       ELSE /\ quitting' = FALSE
            /\ session' \in IF session = "stopped" THEN {"up", "stopped"} ELSE {session}
    /\ recovery' = "reporting"
    /\ Say(<<"installFailed">>)
    /\ UNCHANGED <<checking, prompt, shown, installing, install, closing>>

Quit ==
    /\ ~closing
    /\ quitting' = TRUE /\ closing' = TRUE
    /\ UNCHANGED <<checking, asking, installer, turns, session>>

-----------------------------------------------------------------------------
(* What the user answers.                                                   *)

\* showMessage(): a dialog whose turn comes during a quit is skipped.
DialogShown ==
    /\ dialogs # <<>> /\ ~shown
    /\ ~quitting /\ ~closing
    /\ shown' = TRUE
    /\ UNCHANGED <<checking, prompt, dialogs, installer, main>>

Settles(dialog) == dialogs # <<>> /\ Head(dialogs) = dialog /\ (shown \/ quitting)

PromptAccepted ==
    /\ shown /\ Settles("prompt")
    /\ shown' = FALSE
    /\ \/ /\ strategy = "install"
          /\ Install(Tail(dialogs))
       \/ /\ strategy = "manual-download"             \* the page opens, or not
          /\ \/ dialogs' = Tail(dialogs) /\ EndPrompt
             \/ dialogs' = Tail(dialogs) \o <<"pageFailed">> /\ UNCHANGED <<prompt, check>>
          /\ UNCHANGED <<installing, install, turns>>
    /\ UNCHANGED <<strategy, stray, started, clicks, loaded, download, recovery, session, quitting, closing>>

\* Any other answer, and the dialogs that have only one.
DialogClosed ==
    /\ \E dialog \in Dialogs :
         /\ Settles(dialog)
         /\ CASE dialog \in {"prompt", "pageFailed"} ->
                   EndPrompt /\ UNCHANGED <<install, recovery>>
              [] dialog \in {"outcome", "checkFailed"} ->
                   check' = None /\ UNCHANGED <<prompt, install, recovery>>
              [] dialog = "refused" ->
                   InstallEnds("idle") /\ UNCHANGED recovery
              [] dialog = "installFailed" ->
                   /\ recovery' = "none"
                   /\ IF install = "waiting" THEN InstallEnds("idle")
                      ELSE UNCHANGED <<prompt, check, install>>
              [] OTHER -> UNCHANGED <<prompt, check, install, recovery>>
    /\ dialogs' = Tail(dialogs)
    /\ shown' = FALSE
    /\ UNCHANGED <<strategy, stray, started, clicks, loaded, download, installing, main>>

-----------------------------------------------------------------------------

Library == LibraryLoads \/ LibraryFails \/ UpdateAvailable \/ ExternalUpdate \/ NoUpdate
           \/ CheckFails
Transfers == Downloaded \/ DownloadFails
Launches == LaunchSucceeds \/ LaunchFails
Turns == PrepareProves \/ PrepareRefuses \/ RecoverTurn
Answers == DialogShown \/ PromptAccepted \/ DialogClosed

Next == Start \/ CheckManually \/ Library \/ Transfers \/ Launches \/ Turns \/ Answers \/ Quit

Spec == Init /\ [][Next]_vars

\* The library and the installer's launch answer, main.js gives each transition
\* its turn, and the user closes the dialogs.
FairSpec == Spec /\ WF_vars(Library) /\ WF_vars(Launches) /\ WF_vars(Turns) /\ WF_vars(Answers)

-----------------------------------------------------------------------------
(* Safety.                                                                  *)

CountOf(s, x) == Cardinality({i \in DOMAIN s : s[i] = x})

\* One question at a time (versionPrompt(), comment of updater.js:139-143): a
\* prompt on the screen or in the queue, an installation it led to, or the
\* failure it is told of, and never two.
OnePrompt ==
    CountOf(dialogs, "prompt") + CountOf(dialogs, "pageFailed")
      + (IF install \in {"idle", "left"} THEN 0 ELSE 1)
    = IF prompt.inFlight THEN 1 ELSE 0

\* Each call into main.js is under way once, and somebody awaits it: no
\* installation and no recovery is queued twice or forgotten.
TurnsAreAwaited ==
    /\ CountOf(turns, "prepare") = IF install = "preparing" THEN 1 ELSE 0
    /\ CountOf(turns, "recover") = IF recovery = "recovering" THEN 1 ELSE 0

\* The controller asks one question at a time and makes one call at a time.
OneAtATime == TypeOK /\ OnePrompt /\ TurnsAreAwaited

\* "Freeze boots, stop the daemon tree, and prove it is gone before an updater
\* gets permission to open an installer" (main.js:1082-1083): from the call of
\* quitAndInstall() until it failed or the app is gone, the tree is gone.
InstallerAlone == install \in {"launching", "left"} => session = "stopped"

\* What Desktop.tla assumes of this controller.
Gate == INSTANCE InstallGate WITH
    updater <- IF stray THEN "idle"
               ELSE IF recovery = "recovering" THEN "recovering"
               ELSE IF install = "preparing" THEN "preparing"
               ELSE IF install \in {"launching", "left"} THEN "installing" ELSE "idle",
    left <- ~stray /\ closing
ImplementsGate == Gate!GateSpec

\* Where the event tells of installers only, main.js gets the calls it is written
\* for, and no session runs beside an installer.
InstallIsGated == [](stray \/ InstallerAlone) /\ ImplementsGate

-----------------------------------------------------------------------------
(* Liveness.                                                                *)

\* A check comes to its end, so that the next click is not told for ever that
\* one is under way: it awaits dialogs that wait behind others, and prompts.
CheckSettles == check # None ~> (check = None \/ closing)

\* Boots that were frozen for an installer are allowed again, or the app quits.
FreezeEnds == quitting ~> (~quitting \/ closing)

\* An installation that failed does not block the next one.
InstallingEnds == installing ~> (~installing \/ closing)

\* Neither a check nor a freeze nor an installation lasts for ever.
NothingIsForever == CheckSettles /\ FreezeEnds /\ InstallingEnds
==============================================================================
