------------------------------- MODULE Desktop -------------------------------
(***************************************************************************)
(* src/src/main.js over the lifecycle coordinator (Lifecycle.tla) and the   *)
(* daemon instances (Daemon.tla): booting, folder change, Pro restart and   *)
(* removal, update install and recovery, daemon crash, and quit.            *)
(*                                                                          *)
(* One action is what main.js runs between two awaits.  The coordinator is  *)
(* what Lifecycle.tla proves it to be: a FIFO of transitions with one owner *)
(* that skips queued work once closing.  bootSeq is reduced to `stale`, that *)
(* it moved since the boot in flight began: every boot runs inside an owned *)
(* transition, so there is never a second one.  The behaviours begin when    *)
(* the menu can be used and the first boot is still to be asked for.         *)
(***************************************************************************)
EXTENDS Naturals, Sequences

CONSTANTS Daemons,      \* Daemon objects main.js can still reach; one that is
                        \* gone and unreferenced is reused by the next boot
          None,
          MaxWaiting    \* bound: user and updater requests queued at a time

ASSUME DesktopConstants == None \notin Daemons /\ MaxWaiting \in Nat

Kinds == {"restart", "folder", "pro", "removal", "install", "recovery", "crash", "quit"}
\* `clean` is the stop proof that onDaemonCrash was told.
Ops == [kind : Kinds, clean : BOOLEAN]
Idle == [kind |-> "idle", clean |-> TRUE]
Op(k) == [kind |-> k, clean |-> TRUE]

\* An instance whose tree is gone, or that never had one, is "gone".  "dead" is
\* a daemon that died on its own while its crash cleanup is under way, "lost" one
\* that main.js let go of without a stop().
Lives == {"starting", "up", "dead", "stopping", "gone", "unproved", "lost"}
\* The dialogs an owner awaits: without a session, and the notice after a boot.
Dialogs == {"bootDialog", "crashDialog", "cleanupDialog", "loadingDialog", "removalDialog",
            "noticeDialog"}
Places == {"idle", "begin", "saving", "store", "support", "stopping",
           "loading", "starting", "startFailed", "page", "retiring"} \cup Dialogs

VARIABLES
    win,        \* the window exists
    quitting,
    blocked,    \* daemonCleanupBlocked
    stale,      \* bootSeq moved since the boot in flight began
    daemon,     \* the instance main.js holds, or None
    origin,     \* the instance whose origin the window may visit, or None
    life,       \* what became of each instance's process tree
    closing,    \* lifecycle.closing
    queue,      \* operationTail: transitions that wait for their turn
    owner,      \* the transition whose turn it is, or Idle
    pc,         \* what the owner awaits
    held,       \* the instance the owner boots or stops, or None
    failed,     \* the retirement in flight ends a failed boot, not a stale one
    folder,     \* folderChangePromise: none, picking or pending
    updater,    \* idle, preparing, installing or recovering
    gate,       \* before-quit: open, cleaning, cleaned or exited
    stopError,  \* what the quit cleanup reported: none, an unproved stop, or the
                \* rejected Pro retirement before it
    startup     \* initializeProSupport() runs, or the first RESTART was asked for

app == <<win, quitting, blocked, stale, daemon, origin>>
turn == <<owner, pc, held, failed>>
outside == <<folder, updater, gate, stopError, startup>>
vars == <<app, life, closing, queue, turn, outside>>

TypeOK ==
    /\ win \in BOOLEAN /\ quitting \in BOOLEAN /\ blocked \in BOOLEAN /\ stale \in BOOLEAN
    /\ closing \in BOOLEAN /\ failed \in BOOLEAN
    /\ daemon \in Daemons \cup {None}
    /\ origin \in Daemons \cup {None}
    /\ held \in Daemons \cup {None}
    /\ life \in [Daemons -> Lives]
    /\ queue \in Seq(Ops)
    /\ owner \in Ops \cup {Idle}
    /\ pc \in Places /\ (pc = "idle" <=> owner = Idle)
    /\ folder \in {"none", "picking", "pending"}
    /\ updater \in {"idle", "preparing", "installing", "recovering"}
    /\ gate \in {"open", "cleaning", "cleaned", "exited"}
    /\ stopError \in {"none", "unproved", "retirement"}
    /\ startup \in {"support", "asked"}

\* The app is ready, its menu can be used, a folder is chosen, the window exists,
\* and the start waits for the Pro store and its keyring.
Init ==
    /\ win = TRUE
    /\ quitting = FALSE /\ blocked = FALSE /\ stale = FALSE
    /\ daemon = None /\ origin = None
    /\ life = [d \in Daemons |-> "gone"]
    /\ closing = FALSE
    /\ queue = <<>>
    /\ owner = Idle /\ pc = "idle" /\ held = None /\ failed = FALSE
    /\ folder = "none" /\ updater = "idle" /\ gate = "open"
    /\ stopError = "none" /\ startup = "support"

-----------------------------------------------------------------------------
(* The coordinator.                                                         *)

\* Nothing of main.js runs once the app has exited.
Alive == gate # "exited"

Pending(k) == owner.kind = k \/ \E i \in DOMAIN queue : queue[i].kind = k

\* lifecycle.run(): a call made after close() resolves at once, unqueued.
Run(op) == queue' = IF closing THEN queue ELSE Append(queue, op)

\* How the promise of a transition of kind k settles its caller's state.
SettleCaller(k, ok) ==
    /\ folder' = IF k = "folder" THEN "none" ELSE folder
    /\ updater' = CASE k = "install" -> (IF ok THEN "installing" ELSE "idle")
                    [] k = "recovery" -> "idle"
                    [] OTHER -> updater

\* The owner's operation returns.
Return(ok) ==
    /\ owner' = Idle
    /\ pc' = "idle"
    /\ held' = None
    /\ failed' = FALSE
    /\ SettleCaller(owner.kind, ok)

Await(place) ==
    /\ pc' = place
    /\ UNCHANGED <<owner, folder, updater>>

\* Mutant: a turn is taken while another transition still owns the daemon.
TakeTurnAtOnce ==
    /\ queue # <<>>
    /\ ~closing \/ Head(queue).kind = "quit"
    /\ owner' = Head(queue)
    /\ pc' = "begin"
    /\ queue' = Tail(queue)
    /\ UNCHANGED <<app, life, closing, held, failed, outside>>

TakeTurn ==
    /\ owner = Idle /\ queue # <<>>
    /\ ~closing \/ Head(queue).kind = "quit"
    /\ owner' = Head(queue)
    /\ pc' = "begin"
    /\ queue' = Tail(queue)
    /\ UNCHANGED <<app, life, closing, held, failed, outside>>

SkipTurn ==
    /\ owner = Idle /\ queue # <<>>
    /\ closing /\ Head(queue).kind # "quit"
    /\ queue' = Tail(queue)
    /\ SettleCaller(Head(queue).kind, FALSE)
    /\ UNCHANGED <<app, life, closing, turn, gate, stopError, startup>>

-----------------------------------------------------------------------------
(* Quit.                                                                    *)

\* app.quit() raises before-quit at once.  The first one is held: beginQuit and
\* lifecycle.close(); the ones after it share its cleanup.  (origin is cleared
\* by beginQuit, and already by whatever else calls app.quit().)
QuitEvent ==
    /\ quitting' = TRUE
    /\ origin' = None
    /\ IF gate = "open"
       THEN /\ gate' = "cleaning"
            /\ stale' = TRUE
            /\ closing' = TRUE
            /\ queue' = Append(queue, Op("quit"))
       ELSE UNCHANGED <<gate, stale, closing, queue>>

\* The user, or an installer that took over.
QuitAsked ==
    /\ gate = "open"
    /\ QuitEvent
    /\ UNCHANGED <<win, blocked, daemon, life, turn, folder, updater, stopError, startup>>

\* "closed", then "window-all-closed".
WindowCloses ==
    /\ Alive /\ win
    /\ win' = FALSE
    /\ QuitEvent
    /\ UNCHANGED <<blocked, daemon, life, turn, folder, updater, stopError, startup>>

\* The cleanup settled: released, and finishQuit's own quit event goes through.
Exit ==
    /\ gate = "cleaned"
    /\ gate' = "exited"
    /\ UNCHANGED <<app, life, closing, queue, turn, folder, updater, stopError, startup>>

-----------------------------------------------------------------------------
(* The daemon instances.                                                    *)

Running(d) == life[d] \in {"starting", "up"}
Settled(d) == life[d] \in {"gone", "unproved"}
Fresh(d) == life[d] = "gone" /\ d # daemon /\ d # held

\* Daemon.stop(): a live tree gets a new cleanup; otherwise the one under way or
\* settled answers.  Setting #stopping also silences the callback of a crash
\* whose cleanup is still under way.
Stop(d) ==
    life' = IF life[d] \in {"starting", "up", "dead"}
            THEN [life EXCEPT ![d] = "stopping"] ELSE life

\* terminateProcessTree settles: proved gone, or not.
CleanupSettles(d) ==
    /\ Alive
    /\ life[d] = "stopping"
    /\ \E result \in {"gone", "unproved"} : life' = [life EXCEPT ![d] = result]
    /\ UNCHANGED <<app, closing, queue, turn, outside>>

\* The daemon exits on its own; its "close" starts the cleanup of what it left.
Dies(d) ==
    /\ Alive
    /\ life[d] = "up"
    /\ life' = [life EXCEPT ![d] = "dead"]
    /\ UNCHANGED <<app, closing, queue, turn, outside>>

\* A lost one dies on its own, its cleanup proves it, and nobody is told.
LostEnds(d) ==
    /\ Alive
    /\ life[d] = "lost"
    /\ life' = [life EXCEPT ![d] = "gone"]
    /\ UNCHANGED <<app, closing, queue, turn, outside>>

\* That cleanup settles, no stop() having been called meanwhile: onDaemonCrash
\* runs.  It ignores an instance that main.js no longer holds.
CrashCleaned(d) ==
    /\ Alive
    /\ life[d] = "dead"
    /\ \E clean \in BOOLEAN :
         /\ life' = [life EXCEPT ![d] = IF clean THEN "gone" ELSE "unproved"]
         /\ IF daemon # d
            THEN UNCHANGED <<app, queue>>
            ELSE /\ daemon' = None
                 /\ origin' = None
                 /\ stale' = TRUE
                 /\ blocked' = IF clean THEN blocked ELSE TRUE
                 /\ Run([kind |-> "crash", clean |-> clean])
                 /\ UNCHANGED <<win, quitting>>
    /\ UNCHANGED <<closing, turn, outside>>

-----------------------------------------------------------------------------
(* boot().                                                                  *)

\* Mutant: boot() does not look again after an await.
CurrentOnce == ~blocked /\ win
Current == ~stale /\ ~quitting /\ ~blocked /\ win

\* What a transition does after its boot: showProSuccess, showProRemovalFailure
\* or showProFailure may follow, unless nobody is there to be told.
BootReturns(ok) ==
    \/ Return(ok)
    \/ /\ owner.kind = "removal" \/ (ok /\ owner.kind \in {"pro", "recovery"})
       /\ ~quitting /\ ~closing /\ win
       /\ Await("noticeDialog")
       /\ held' = None
       /\ failed' = FALSE

\* The synchronous start of boot(), up to the loading page.  (Its callers clear
\* the origin before it does.)
CallBoot ==
    IF quitting \/ ~win \/ blocked
    THEN BootReturns(FALSE) /\ UNCHANGED stale
    ELSE /\ stale' = FALSE
         /\ held' = None
         /\ failed' = FALSE
         /\ Await("loading")

\* onDaemonCleanupFailure(): nobody is asked during a quit.
CleanupFailure ==
    IF quitting \/ ~win THEN Return(FALSE)
    ELSE Await("cleanupDialog") /\ held' = None /\ failed' = FALSE

\* The page is there: the new instance takes the place of whatever `daemon` holds.
LoadingPage ==
    /\ pc = "loading"
    /\ \/ /\ ~Current
          /\ BootReturns(FALSE)
          /\ UNCHANGED <<daemon, life>>
       \/ /\ Current                                  \* loadFile rejects
          /\ Await("loadingDialog")
          /\ UNCHANGED <<daemon, life, held, failed>>
       \/ /\ Current                                  \* new Daemon, start()
          /\ \E d \in Daemons :
               /\ Fresh(d)
               /\ life' = [e \in Daemons |-> IF e = d THEN "starting"
                                            ELSE IF e = daemon THEN "lost" ELSE life[e]]
               /\ daemon' = d
               /\ held' = d
          /\ Await("starting")
          /\ UNCHANGED failed
    /\ UNCHANGED <<win, quitting, blocked, stale, origin, closing, queue, gate, stopError, startup>>

Retire(isFailure) ==
    /\ Stop(held)
    /\ failed' = isFailure
    /\ Await("retiring")
    /\ UNCHANGED held

\* start() resolves.  A URL of a foreign origin is a failed boot.
Started ==
    /\ pc = "starting"
    /\ life[held] = "starting"
    /\ \/ /\ ~Current \/ daemon # held
          /\ Retire(FALSE)
          /\ UNCHANGED origin
       \/ /\ Current /\ daemon = held
          /\ Retire(TRUE)
          /\ UNCHANGED origin
       \/ /\ Current /\ daemon = held
          /\ life' = [life EXCEPT ![held] = "up"]
          /\ origin' = held
          /\ Await("page")
          /\ UNCHANGED <<held, failed>>
    /\ UNCHANGED <<win, quitting, blocked, stale, daemon, closing, queue, gate, stopError, startup>>

\* start() fails: it cleans up its own tree before it rejects.
StartFails ==
    /\ pc = "starting"
    /\ life[held] = "starting"
    /\ life' = [life EXCEPT ![held] = "stopping"]
    /\ Await("startFailed")
    /\ UNCHANGED <<app, closing, queue, held, failed, gate, stopError, startup>>

StartRejects ==
    /\ pc = "startFailed"
    /\ Settled(held)
    /\ Retire(TRUE)
    /\ UNCHANGED <<app, closing, queue, gate, stopError, startup>>

\* loadURL settles.
PageLoaded ==
    /\ pc = "page"
    /\ IF Current /\ daemon = held /\ Running(held)
       THEN BootReturns(TRUE) /\ UNCHANGED life
       ELSE Retire(FALSE)
    /\ UNCHANGED <<app, closing, queue, gate, stopError, startup>>

PageFails ==
    /\ pc = "page"
    /\ \/ /\ ~Current \/ daemon # held
          /\ Retire(FALSE)
       \/ /\ Current /\ daemon = held
          /\ ~Running(held)                 \* onDaemonCrash owns the report
          /\ BootReturns(FALSE)
          /\ UNCHANGED life
       \/ /\ Current /\ daemon = held
          /\ Running(held)
          /\ Retire(TRUE)
    /\ UNCHANGED <<app, closing, queue, gate, stopError, startup>>

\* retire() settles.  An unproved tree stays reachable through `daemon`.
Retired ==
    /\ pc = "retiring"
    /\ Settled(held)
    /\ LET clean == life[held] = "gone" IN
         /\ blocked' = IF clean THEN blocked ELSE TRUE
         /\ daemon' = IF daemon = held /\ clean THEN None ELSE daemon
         /\ \/ /\ failed /\ ~clean
               /\ CleanupFailure
               /\ origin' = None
            \/ /\ failed /\ clean /\ Current
               /\ Await("bootDialog")
               /\ held' = None /\ failed' = FALSE
               /\ origin' = None
            \/ /\ ~failed \/ (clean /\ ~Current)
               /\ BootReturns(FALSE)
               /\ origin' = IF daemon = held THEN None ELSE origin
    /\ UNCHANGED <<win, quitting, stale, life, closing, queue, gate, stopError, startup>>

-----------------------------------------------------------------------------
(* Stopping the current daemon before a transition goes on.                 *)

AfterStop(clean) ==
    LET kind == owner.kind IN
    /\ quitting' = IF clean /\ kind = "install" THEN TRUE ELSE quitting
    /\ gate' = IF kind = "quit" THEN "cleaned" ELSE gate
    /\ stopError' = IF ~clean /\ kind = "quit" THEN "unproved" ELSE stopError
    /\ \/ /\ kind = "quit" \/ (kind = "install" /\ clean)
          /\ Return(clean)
          /\ UNCHANGED stale
       \/ /\ kind # "quit" /\ ~clean
          /\ CleanupFailure
          /\ UNCHANGED stale
       \/ /\ kind = "removal" /\ clean
          /\ IF quitting \/ closing \/ ~win THEN Return(FALSE)
             ELSE Await("store") /\ held' = None /\ UNCHANGED failed
          /\ UNCHANGED stale
       \/ /\ kind \in {"folder", "pro"} /\ clean
          /\ CallBoot

\* Mutant: the origin of the daemon being stopped stays allowed.
StopFirstKeepsOrigin ==
    /\ UNCHANGED origin
    /\ daemon' = None
    /\ IF daemon = None
       THEN AfterStop(TRUE) /\ UNCHANGED life
       ELSE /\ Stop(daemon)
            /\ held' = daemon
            /\ Await("stopping")
            /\ UNCHANGED <<quitting, stale, failed, gate, stopError>>

\* daemonOrigin = null; stopping = daemon; daemon = null; await stopping?.stop()
StopFirst ==
    /\ origin' = None
    /\ daemon' = None
    /\ IF daemon = None
       THEN AfterStop(TRUE) /\ UNCHANGED life
       ELSE /\ Stop(daemon)
            /\ held' = daemon
            /\ Await("stopping")
            /\ UNCHANGED <<quitting, stale, failed, gate, stopError>>

\* Mutant: the answer of stop() is not looked at.
StopSettlesAnyhow ==
    /\ pc = "stopping"
    /\ Settled(held)
    /\ AfterStop(TRUE)
    /\ UNCHANGED <<win, blocked, daemon, origin, life, closing, queue, startup>>

StopSettles ==
    /\ pc = "stopping"
    /\ Settled(held)
    /\ AfterStop(life[held] = "gone")
    /\ UNCHANGED <<win, blocked, daemon, origin, life, closing, queue, startup>>

-----------------------------------------------------------------------------
(* The transitions, from the turn they are given.                           *)

AtStart(k) == pc = "begin" /\ owner.kind = k
Unavailable == quitting \/ closing \/ ~win

\* The operation returns where it stands.
GiveUp ==
    /\ Return(FALSE)
    /\ UNCHANGED <<app, life, gate, stopError>>

\* initializeProSupport() has settled, and the first boot is asked for, whatever
\* the menu asked for meanwhile.
FirstBoot ==
    /\ Alive
    /\ startup = "support"
    /\ startup' = "asked"
    /\ Run(Op("restart"))
    /\ UNCHANGED <<app, life, closing, turn, folder, updater, gate, stopError>>

RestartBegins ==
    /\ AtStart("restart")
    /\ CallBoot
    /\ origin' = None
    /\ UNCHANGED <<win, quitting, blocked, daemon, life, closing, queue, gate, stopError, startup>>

\* performFolderChange
FolderBegins ==
    /\ AtStart("folder")
    /\ IF Unavailable \/ blocked THEN GiveUp
       ELSE StopFirst /\ UNCHANGED <<win, blocked>>
    /\ UNCHANGED <<closing, queue, startup>>

\* persistActivatedKey: its activation may have been retired meanwhile.
ProBegins ==
    /\ AtStart("pro")
    /\ \/ GiveUp
       \/ /\ ~Unavailable
          /\ Await("saving")
          /\ UNCHANGED <<app, life, held, failed, gate, stopError>>
    /\ UNCHANGED <<closing, queue, startup>>

\* The key is durable, or the user gave up; then restartDaemonForPro.
ProSaved ==
    /\ pc = "saving"
    /\ \/ GiveUp
       \/ ~Unavailable /\ StopFirst /\ UNCHANGED <<win, blocked>>
    /\ UNCHANGED <<closing, queue, startup>>

\* stopAfterUncertainProRemoval
UncertainRemoval ==
    /\ IF closing \/ ~win THEN Return(FALSE)
       ELSE Await("removalDialog") /\ held' = None /\ UNCHANGED failed
    /\ UNCHANGED <<app, life, gate, stopError>>

\* The retired activation, its action included, has settled or was rejected.
RemovalBegins ==
    /\ AtStart("removal")
    /\ \/ UncertainRemoval
       \/ Unavailable /\ GiveUp
       \/ ~Unavailable /\ StopFirst /\ UNCHANGED <<win, blocked>>
    /\ UNCHANGED <<closing, queue, startup>>

\* The store was emptied, or still holds the key, or nobody can tell.
RemovalStored ==
    /\ pc = "store"
    /\ \/ UncertainRemoval
       \/ Unavailable /\ GiveUp
       \/ /\ ~Unavailable
          /\ CallBoot
          /\ UNCHANGED <<win, quitting, blocked, daemon, origin, life, gate, stopError>>
    /\ UNCHANGED <<closing, queue, startup>>

\* Mutant: a tree whose crash cleanup was not proved does not hold the install.
InstallUnblocked ==
    /\ AtStart("install")
    /\ \/ Unavailable /\ GiveUp
       \/ ~Unavailable /\ StopFirst /\ UNCHANGED <<win, blocked>>
    /\ UNCHANGED <<closing, queue, startup>>

InstallBegins ==
    /\ AtStart("install")
    /\ \/ /\ CleanupFailure                           \* the retirement was rejected
          /\ origin' = None
          /\ UNCHANGED <<win, quitting, blocked, stale, daemon, life, gate, stopError>>
       \/ (Unavailable \/ blocked) /\ GiveUp
       \/ ~Unavailable /\ ~blocked /\ StopFirst /\ UNCHANGED <<win, blocked>>
    /\ UNCHANGED <<closing, queue, startup>>

\* recoverFromUpdateInstallFailure
RecoveryBegins ==
    /\ AtStart("recovery")
    /\ IF ~win \/ closing THEN GiveUp
       ELSE /\ quitting' = FALSE
            /\ Await("support")
            /\ UNCHANGED <<win, blocked, stale, daemon, origin, life, held, failed, gate, stopError>>
    /\ UNCHANGED <<closing, queue, startup>>

\* Mutant: recovery looks for a daemon and boots none.
RecoveryOnlyLooks ==
    /\ pc = "support"
    /\ Return(daemon # None)
    /\ UNCHANGED <<app, life, closing, queue, gate, stopError, startup>>

\* initializeProSupport has settled.
RecoveryReady ==
    /\ pc = "support"
    /\ IF daemon # None THEN BootReturns(TRUE) /\ UNCHANGED <<origin, stale>>
       ELSE CallBoot /\ origin' = None
    /\ UNCHANGED <<win, quitting, blocked, daemon, life, closing, queue, gate, stopError, startup>>

\* The transition that onDaemonCrash asked for.
CrashBegins ==
    /\ AtStart("crash")
    /\ \/ /\ Unavailable \/ (owner.clean /\ daemon # None)
          /\ GiveUp
       \/ /\ ~Unavailable /\ ~owner.clean
          /\ CleanupFailure
          /\ origin' = None
          /\ UNCHANGED <<win, quitting, blocked, stale, daemon, life, gate, stopError>>
       \/ /\ ~Unavailable /\ owner.clean /\ daemon = None
          /\ Await("crashDialog")
          /\ UNCHANGED <<app, life, held, failed, gate, stopError>>
    /\ UNCHANGED <<closing, queue, startup>>

\* Mutant: quit does not wait for a daemon that still starts or stops.
QuitLeaves ==
    /\ AtStart("quit")
    /\ Return(TRUE)
    /\ gate' = "cleaned"
    /\ UNCHANGED <<app, life, closing, queue, stopError, startup>>

\* A rejected Pro retirement rejects the quit cleanup before it stops anything.
QuitBegins ==
    /\ AtStart("quit")
    /\ \/ StopFirst /\ UNCHANGED <<win, blocked>>
       \/ /\ Return(FALSE)
          /\ gate' = "cleaned"
          /\ stopError' = "retirement"
          /\ UNCHANGED <<app, life>>
    /\ UNCHANGED <<closing, queue, startup>>

-----------------------------------------------------------------------------
(* The native dialogs that an owner awaits.                                 *)

\* Mutant: only the dialogs that offer a restart are raced with whenClosing.
DialogReleasedBut ==
    /\ pc \in {"bootDialog", "crashDialog", "noticeDialog"}
    /\ closing
    /\ GiveUp
    /\ UNCHANGED <<closing, queue, startup>>

\* lifecycle.whenClosing wins the race: the outcome counts as skipped.
DialogReleased ==
    /\ pc \in Dialogs
    /\ closing
    /\ GiveUp
    /\ UNCHANGED <<closing, queue, startup>>

\* "Try again", "Choose another folder", "Restart"
DialogRetries ==
    /\ pc \in {"bootDialog", "crashDialog"}
    /\ ~Unavailable
    /\ pc = "crashDialog" => daemon = None
    /\ CallBoot
    /\ UNCHANGED <<win, quitting, blocked, daemon, origin, life, closing, queue, gate, stopError, startup>>

\* "Quit", or the native dialog failed.
DialogQuits ==
    /\ pc \in Dialogs \ {"noticeDialog"}
    /\ ~closing
    /\ Return(FALSE)
    /\ QuitEvent
    /\ UNCHANGED <<win, blocked, daemon, life, stopError, startup>>

\* The user closes a notice.
NoticeAnswered ==
    /\ pc = "noticeDialog"
    /\ GiveUp
    /\ UNCHANGED <<closing, queue, startup>>

-----------------------------------------------------------------------------
(* What the user, the browser and the updater ask for.                      *)

Room == Len(queue) < MaxWaiting

OpenFolder ==
    /\ folder = "none"
    /\ win /\ ~quitting
    /\ folder' = "picking"
    /\ UNCHANGED <<app, life, closing, queue, turn, updater, gate, stopError, startup>>

\* Electron cannot cancel a presented chooser: a late choice is discarded.
FolderPicked ==
    /\ Alive
    /\ folder = "picking"
    /\ \/ /\ folder' = "none"                         \* canceled or discarded
          /\ UNCHANGED queue
       \/ /\ ~Unavailable /\ ~blocked /\ Room
          /\ Run(Op("folder"))
          /\ folder' = "pending"
    /\ UNCHANGED <<app, life, closing, turn, updater, gate, stopError, startup>>

\* finishProActivation's key, and a confirmed removal
ProAsked(k) ==
    /\ k \in {"pro", "removal"}
    /\ ~Pending(k)
    /\ ~Unavailable /\ Room
    /\ Run(Op(k))
    /\ UNCHANGED <<app, life, closing, turn, outside>>

\* prepareForUpdateInstall
InstallAsked ==
    /\ updater = "idle"
    /\ ~quitting /\ ~closing /\ ~blocked /\ Room
    /\ Run(Op("install"))
    /\ updater' = "preparing"
    /\ UNCHANGED <<app, life, closing, turn, folder, gate, stopError, startup>>

\* The platform installer failed before the app quit.
InstallerFails ==
    /\ Alive
    /\ updater = "installing"
    /\ IF ~win \/ closing
       THEN updater' = "idle" /\ UNCHANGED queue
       ELSE updater' = "recovering" /\ Run(Op("recovery"))
    /\ UNCHANGED <<app, life, closing, turn, folder, gate, stopError, startup>>

-----------------------------------------------------------------------------

OwnerSteps ==
    \/ LoadingPage \/ Started \/ StartFails \/ StartRejects
    \/ PageLoaded \/ PageFails \/ Retired \/ StopSettles
    \/ RestartBegins \/ FolderBegins \/ ProBegins \/ ProSaved
    \/ RemovalBegins \/ RemovalStored \/ InstallBegins
    \/ RecoveryBegins \/ RecoveryReady \/ CrashBegins \/ QuitBegins
    \/ DialogReleased

DaemonSteps(d) == CleanupSettles(d) \/ CrashCleaned(d)

Environment ==
    \/ QuitAsked \/ WindowCloses
    \/ \E d \in Daemons : Dies(d) \/ LostEnds(d)
    \/ DialogRetries \/ DialogQuits \/ NoticeAnswered
    \/ OpenFolder \/ FolderPicked
    \/ \E k \in Kinds : ProAsked(k)
    \/ InstallAsked \/ InstallerFails

Next ==
    \/ TakeTurn \/ SkipTurn \/ OwnerSteps \/ Exit \/ FirstBoot
    \/ \E d \in Daemons : DaemonSteps(d)
    \/ Environment

\* Turns are microtasks; what an owner awaits is bounded by a deadline of its
\* own (startup, process-tree termination, code exchange), by Electron (loading
\* a page) or, for dialogs, by the closing signal.  Users owe nothing, and nothing
\* below needs the start's own wait for the keyring to end.
Fairness ==
    /\ WF_vars(TakeTurn \/ SkipTurn)
    /\ WF_vars(OwnerSteps)
    /\ WF_vars(Exit)
    /\ \A d \in Daemons : WF_vars(DaemonSteps(d))

Spec == Init /\ [][Next]_vars
FairSpec == Spec /\ Fairness

-----------------------------------------------------------------------------
(* Properties.                                                              *)

MayLive(d) == life[d] # "gone"

\* No daemon is started while another tree may still be running: not after a stop
\* that is under way, nor after one whose proof failed.  The one exception is the
\* first boot: when the menu booted before it, it puts its daemon in the place of
\* the one that runs.  So there are two trees at most, and then one is lost.
OneTree ==
    \A d, e \in Daemons :
        MayLive(d) /\ MayLive(e) /\ d # e => (life[d] = "lost") # (life[e] = "lost")

\* What Daemon.tla assumes of its caller: a daemon that starts is owned by the
\* boot that started it, so that nothing calls its stop() before start() settles.
StartIsOwned ==
    \A d \in Daemons : life[d] = "starting" => pc = "starting" /\ held = d

\* The installer has the application files to itself: from the moment
\* prepareForUpdateInstall says yes until the recovery, no tree may be running but
\* one that the first boot lost (OneTree): only `daemon` is stopped.
InstallerAlone ==
    updater = "installing" => \A d \in Daemons : MayLive(d) => life[d] = "lost"

\* The window may only visit the origin of the daemon main.js holds, none once
\* quitting, and that of a daemon being stopped only while the boot that failed
\* to load it retires it.
OriginIsHeld ==
    origin # None =>
        origin = daemon /\ win /\ ~quitting /\ (life[origin] \notin {"up", "dead"} => pc = "retiring")

\* What may still run when the app exits is a tree whose stop was tried and not
\* proved, the one that the first boot lost, or, if the Pro retirement was
\* rejected, the daemon main.js holds: the cleanup then ends before it stops it.
ExitLeavesNothing ==
    gate = "exited" =>
        \A d \in Daemons : MayLive(d) =>
            \/ life[d] \in {"unproved", "lost"}
            \/ stopError = "retirement" /\ d = daemon

\* The inductive invariant of DesktopProofs.  What main.js has let go of without
\* a proof keeps it from ever booting again: blocked, closing, or about to quit.
Halted == blocked \/ closing \/ pc = "cleanupDialog"

IsStopped(d) == held = d /\ pc \in {"stopping", "startFailed", "retiring"}

TreesAreHeld ==
    \A d \in Daemons :
        /\ life[d] \in {"up", "dead"} => daemon = d
        /\ life[d] = "stopping" => IsStopped(d)
        /\ life[d] = "unproved" => d = daemon \/ IsStopped(d) \/ Halted

\* Which instance is held where, and where none is current.
HeldByPlace ==
    /\ held # None <=> pc \in {"stopping", "starting", "startFailed", "page", "retiring"}
    /\ pc \in {"starting", "startFailed", "page", "retiring"} => daemon \in {held, None}
    /\ pc \in {"store", "bootDialog", "stopping"} => daemon = None
    /\ pc = "loading" /\ daemon # None => owner.kind = "restart" /\ origin = None

\* The first boot is asked for once, and nothing is lost before it ...
FirstBootIsSound ==
    /\ owner.kind = "restart" => startup = "asked"
    /\ owner.kind = "restart" /\ (pc = "begin" \/ (pc = "loading" /\ daemon # None)) =>
         \A d \in Daemons : life[d] # "lost"
    /\ startup = "support" => \A d \in Daemons : life[d] # "lost"
    /\ \A i \in DOMAIN queue : queue[i].kind = "restart" =>
         /\ startup = "asked" /\ owner.kind # "restart"
         /\ \A d \in Daemons : life[d] # "lost"
         /\ \A j \in DOMAIN queue : queue[j].kind = "restart" => i = j

\* ... and each of the updater's transitions is queued once, on behalf of its state.
QueueIsSound ==
    /\ closing => quitting
    /\ ~win => closing
    /\ closing <=> gate # "open"
    /\ owner.kind = "quit" => closing
    /\ owner.kind = "install" => updater = "preparing"
    /\ owner.kind = "recovery" => updater = "recovering"
    /\ \A i \in DOMAIN queue : LET k == queue[i].kind IN
         /\ k = "quit" => closing
         /\ k = "install" => updater = "preparing"
         /\ k = "recovery" => updater = "recovering"
         /\ k \in {"install", "recovery"} => owner.kind # k
         /\ \A j \in DOMAIN queue :
              queue[j].kind = k /\ k \in {"install", "recovery"} => i = j

\* While an installer may run, and until its recovery begins, nothing else does.
InstallIsQuiet ==
    /\ updater = "installing" => quitting
    /\ updater = "installing" \/ (quitting /\ ~closing) =>
         daemon = None /\ pc \in {"idle", "begin", "removalDialog"}
    /\ owner.kind = "install" => pc \in {"begin", "stopping", "cleanupDialog"}
    /\ owner.kind = "install" /\ pc = "stopping" =>
         \A d \in Daemons : MayLive(d) /\ life[d] # "lost" => d = held

Inv ==
    /\ TypeOK
    /\ OneTree
    /\ StartIsOwned
    /\ InstallerAlone
    /\ TreesAreHeld
    /\ HeldByPlace
    /\ FirstBootIsSound
    /\ QueueIsSound
    /\ InstallIsQuiet

\* Once quitting, for good or for an installer, no boot starts a daemon.
NoDaemonStartsWhileQuitting ==
    [][quitting => \A d \in Daemons : life'[d] = "starting" => life[d] = "starting"]_vars

\* A quit, once begun, ends, whatever owned the daemon when it came.
QuitCompletes == (gate = "cleaning") ~> (gate = "exited")

\* A failed installer leaves no dead window: the session comes back, or the
\* user is asked, or the app quits.
RecoveryRestores ==
    (updater = "recovering") ~> (origin # None \/ pc \in Dialogs \/ closing)

\* "As a child, it's an exit code the app catches, reports ... and offers to
\* restart from" (README): whenever no transition is owned or queued, an open
\* window has its session or the report of its death is on the way.
DeathIsReported ==
    owner = Idle /\ queue = <<>> /\ startup = "asked" /\ win /\ ~quitting =>
        daemon # None /\ life[daemon] \in {"up", "dead"}

\* "The daemon and every agent CLI beneath it go down with us.  Without this the
\* user quits the app and leaves processes running that they cannot see"
\* (main.js:1468-1469): what outlives the app was at least told to stop.
GoesDownWithUs ==
    gate = "exited" => \A d \in Daemons : MayLive(d) => life[d] = "unproved"

\* "Freeze boots, stop the daemon tree, and prove it is gone before an updater
\* gets permission to open an installer" (main.js:1082-1083).
InstallProvesItsTree == updater = "installing" => \A d \in Daemons : ~MayLive(d)

\* "A failed proof restarts the local daemon and returns false; the updater then
\* keeps the download for later" (main.js:1083-1084): the app goes on when an
\* installation is given up because its daemon was not proved stopped.
FailedProofGoesOn ==
    [][owner.kind = "install" /\ pc = "cleanupDialog" /\ daemon = None /\ ~quitting
       /\ pc' = "idle" => ~quitting']_vars
==============================================================================
