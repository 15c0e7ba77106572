------------------------------ MODULE ProActions ------------------------------
(***************************************************************************)
(* src/src/main.js: Mirafold Pro over one activation controller at a time   *)
(* (ActivationFlow.tla) and the lifecycle queue: the activation action, its *)
(* retirement, the removal of Pro access, the update that retires it and    *)
(* the recovery that resumes it, and quit.                                  *)
(*                                                                          *)
(* One action is what main.js runs between two awaits.  The queue is the    *)
(* coordinator as Lifecycle.tla proves it: FIFO, one owner, and queued work  *)
(* is skipped once closing.  A transition that does not touch Pro is         *)
(* "folder".  What a failed boot or stop proof leads to is Desktop.tla's.    *)
(***************************************************************************)
EXTENDS Naturals, Sequences

CONSTANT MaxWaiting     \* bound: requests queued at a time

ASSUME ProActionsConstants == MaxWaiting \in Nat

Retirers == {"removal", "install", "quit"}
Turns == Retirers \cup {"folder", "start", "complete", "reopen", "recovery"}

Keys == {"none", "old", "new"}
\* A flow in the store is "spent" once its code was exchanged for the key.
Envelope == [key : Keys, pending : {"none", "fresh", "spent"}]
Nothing == [key |-> "none", pending |-> "none"]
Activated == [key |-> "new", pending |-> "none"]

VARIABLES
    asked, flow, retired,   \* the newest controller, as ActivationFlow has it
    current,    \* proActivation is that controller, not null
    action,     \* proActionPromise: where it is, and whether its owner is current
    awaited,    \* whose retirement awaits that action
    queue, turn, place,     \* the queue, its owner, and what that owner awaits
    store,      \* what the encrypted store holds
    memory,     \* proLicenseKey, proRetryKey and proPendingFlow
    daemon,     \* the key the running daemon has, or "down"
    removal,    \* removeProAccess(): none, asking or queued
    updater,    \* idle, preparing, installing or recovering
    quitting,
    gate        \* open, closing or exited

controller == <<asked, flow, retired>>
pro == <<controller, current, action, awaited>>
turns == <<queue, turn, place>>
data == <<store, memory, daemon>>
outside == <<removal, updater, quitting, gate>>
vars == <<pro, turns, data, outside>>

Flow == INSTANCE ActivationFlow

\* starting and completing wait for a turn; waiting is for the browser, out of
\* any turn; the rest is inside one, but for a report of the result.
ActionPlaces == {"none", "starting", "begun", "preflight", "asking", "reopening", "waiting",
                 "completing", "saving", "confirming", "storeDialog", "dialog", "report",
                 "booting", "success"}
\* It began by itself, and what it asked the controller for last.
Action == [pc : ActionPlaces, auto : BOOLEAN, resumes : BOOLEAN, mine : BOOLEAN]
NoAction == [pc |-> "none", auto |-> FALSE, resumes |-> FALSE, mine |-> FALSE]

TypeOK ==
    /\ Flow!FlowTypeOK
    /\ current \in BOOLEAN
    /\ action \in Action
    /\ awaited \subseteq Retirers
    /\ queue \in Seq(Turns) /\ turn \in Turns \cup {"idle"}
    /\ place \in {"idle", "begin", "retiring", "removing", "looking", "loading", "booting",
                  "dialog", "uncertain"}
    /\ store \in Envelope
    /\ memory \in [key : Keys, retry : {"none", "new"}, pending : BOOLEAN]
    /\ daemon \in Keys \cup {"down"}
    /\ removal \in {"none", "asking", "queued"}
    /\ updater \in {"idle", "preparing", "installing", "recovering"}
    /\ quitting \in BOOLEAN /\ gate \in {"open", "closing", "exited"}

\* The app runs a session; an unfinished activation of an earlier one resumes.
Init ==
    /\ Flow!FlowInit
    /\ current = TRUE /\ awaited = {}
    /\ store \in [key : {"none", "old"}, pending : {"none", "fresh"}]
    /\ memory = [key |-> store.key, retry |-> "none", pending |-> store.pending # "none"]
    /\ daemon = store.key
    /\ action = IF memory.pending THEN [NoAction EXCEPT !.pc = "starting", !.auto = TRUE, !.mine = TRUE]
                                  ELSE NoAction
    /\ queue = IF memory.pending THEN <<"start">> ELSE <<>>
    /\ turn = "idle" /\ place = "idle"
    /\ removal = "none" /\ updater = "idle"
    /\ quitting = FALSE /\ gate = "open"

Open == gate = "open" /\ ~quitting

\* isCurrentProActivation(owner)
IsCurrent == action.mine /\ Open

Alive == gate # "exited"
Room == Len(queue) < MaxWaiting

-----------------------------------------------------------------------------
(* The controller.  Its own steps, with what they leave in the store.        *)

FlowListens ==
    /\ Flow!Listen
    /\ action.resumes = (store.pending # "none")
    /\ store' \in IF action.resumes THEN {store} ELSE {store, [store EXCEPT !.pending = "fresh"]}
    /\ UNCHANGED <<current, action, awaited, turns, memory, daemon, outside>>

\* The flow ends without a key; its record goes if it expired.
FlowFails ==
    /\ Flow!Fail
    /\ store' \in {store, [store EXCEPT !.pending = "none"]}
    /\ UNCHANGED <<current, action, awaited, turns, memory, daemon, outside>>

ControllerDown ==
    /\ Flow!Down
    /\ UNCHANGED <<current, action, awaited, turns, data, outside>>

ActionEnds == action' = NoAction /\ awaited' = {}

\* Mutant: it does not look whether its owner is still current.
GetsAnyKey ==
    /\ action' = [action EXCEPT !.pc = "completing"]
    /\ queue' = Append(queue, "complete")
    /\ UNCHANGED awaited

\* finishProActivation() gets the key, at once if it waits for it.
GetsKey ==
    IF IsCurrent
    THEN /\ action' = [action EXCEPT !.pc = "completing"]
         /\ queue' = Append(queue, "complete")
         /\ UNCHANGED awaited
    ELSE ActionEnds /\ UNCHANGED queue

\* A key that comes before start() answered brings the answer and all that
\* follows up to here with it: it is as if it came after.
FlowDelivers ==
    /\ Flow!Deliver
    /\ ~asked
    /\ store' = [store EXCEPT !.pending = IF @ = "fresh" THEN "spent" ELSE @]
    /\ IF action.pc = "waiting" THEN GetsKey ELSE UNCHANGED <<action, awaited, queue>>
    /\ UNCHANGED <<current, turn, place, memory, daemon, outside>>

\* A free queue takes its next turn, and a turn that was taken runs to its first
\* await, before the user or the updater is heard.
Resting == action.pc \notin {"begun", "saving"} /\ (turn # "idle" \/ queue = <<>>)

\* retireProActivation()
Retire(by) ==
    /\ Resting
    /\ current' = FALSE
    /\ IF current THEN Flow!Shutdown ELSE UNCHANGED controller
    /\ action' = [action EXCEPT !.mine = FALSE]
    /\ awaited' = IF action.pc = "none" THEN awaited ELSE awaited \cup {by}

\* Mutant: the settlement does not wait for the controller.
SettledByAction(by) == by \notin awaited

\* Its settlement: the controller answered, and so did the action.
Settled(by) == retired # "asked" /\ by \notin awaited

-----------------------------------------------------------------------------
(* The queue.                                                               *)

TurnEnds == turn' = "idle" /\ place' = "idle"

TakeTurn ==
    /\ Alive /\ turn = "idle" /\ queue # <<>>
    /\ gate = "open" \/ Head(queue) = "quit"
    /\ queue' = Tail(queue)
    /\ turn' = Head(queue)
    /\ place' = IF Head(queue) \in Retirers THEN "retiring" ELSE "begin"
    /\ action' = CASE Head(queue) = "start" -> [action EXCEPT !.pc = "begun"]
                   [] Head(queue) = "complete" -> [action EXCEPT !.pc = "saving"]
                   [] OTHER -> action
    /\ UNCHANGED <<controller, current, awaited, data, outside>>

\* A request that is skipped resolves to undefined.
SkipTurn ==
    /\ Alive /\ turn = "idle" /\ queue # <<>>
    /\ gate = "closing" /\ Head(queue) # "quit"
    /\ queue' = Tail(queue)
    /\ IF Head(queue) \in {"start", "complete"} THEN ActionEnds ELSE UNCHANGED <<action, awaited>>
    /\ removal' = IF Head(queue) = "removal" THEN "none" ELSE removal
    /\ updater' = IF Head(queue) \in {"install", "recovery"} THEN "idle" ELSE updater
    /\ UNCHANGED <<controller, current, turn, place, data, quitting, gate>>

\* A transition that only restarts the daemon.
FolderAsked ==
    /\ Open /\ Room
    /\ queue' = Append(queue, "folder")
    /\ UNCHANGED <<pro, turn, place, data, outside>>

Boot == daemon' \in {memory.key, "down"}

FolderStops ==
    /\ turn = "folder" /\ place = "begin"
    /\ IF Open THEN daemon' = "down" /\ place' = "booting" /\ UNCHANGED turn
               ELSE TurnEnds /\ UNCHANGED daemon
    /\ UNCHANGED <<pro, queue, store, memory, outside>>

FolderBoots ==
    /\ turn = "folder" /\ place = "booting"
    /\ IF Open THEN Boot ELSE UNCHANGED daemon
    /\ TurnEnds
    /\ UNCHANGED <<pro, queue, store, memory, outside>>

-----------------------------------------------------------------------------
(* The action: beginProActivation() and resumeProActivation().               *)

Starts(auto) ==
    /\ action' = [NoAction EXCEPT !.pc = "starting", !.auto = auto, !.mine = current]
    /\ queue' = Append(queue, "start")

\* The trusted marker, with no action under way.
ActivationAsked ==
    /\ gate = "open" /\ Room
    /\ action.pc = "none"
    /\ Starts(FALSE)
    /\ UNCHANGED <<controller, current, awaited, turn, place, data, outside>>

\* The marker again: the same page reopens, after a turn of its own.
ReopenAsked ==
    /\ gate = "open" /\ Room
    /\ action.pc = "waiting" /\ turn # "reopen"
    /\ \A i \in DOMAIN queue : queue[i] # "reopen"
    /\ queue' = Append(queue, "reopen")
    /\ UNCHANGED <<pro, turn, place, data, outside>>

Reopens ==
    /\ turn = "reopen" /\ place = "begin"
    /\ TurnEnds
    /\ UNCHANGED <<pro, queue, data, outside>>

At(pc) == action.pc = pc /\ Alive
Moves(pc) == action' = [action EXCEPT !.pc = pc] /\ UNCHANGED awaited
Stays == UNCHANGED <<turn, place>>
Leaves == ActionEnds /\ TurnEnds

\* Its turn comes too late, or without a controller: a notice, if anyone is there.
BeginsLate ==
    /\ At("begun") /\ ~IsCurrent
    /\ \/ Leaves
       \/ /\ ~action.auto /\ Open /\ ~current
          /\ Moves("dialog") /\ Stays
    /\ UNCHANGED <<controller, current, queue, data, outside>>

\* A key that could not be stored is not bought again.
BeginsRetry ==
    /\ At("begun") /\ IsCurrent
    /\ ~action.auto /\ memory.retry # "none"
    /\ TurnEnds
    /\ Moves("completing")
    /\ queue' = Append(queue, "complete")
    /\ UNCHANGED <<controller, current, data, outside>>

Begins ==
    /\ At("begun") /\ IsCurrent
    /\ \/ /\ action.auto
          /\ action' = [action EXCEPT !.pc = "asking", !.resumes = TRUE]
          /\ Flow!Ask
       \/ /\ ~action.auto /\ memory.retry = "none"
          /\ action' = [action EXCEPT !.pc = "preflight"]
          /\ UNCHANGED controller
    /\ Stays
    /\ UNCHANGED <<current, awaited, queue, data, outside>>

Preflight ==
    /\ At("preflight")
    /\ \/ ~IsCurrent /\ Leaves /\ UNCHANGED controller
       \/ IsCurrent /\ Moves("dialog") /\ Stays /\ UNCHANGED controller
       \/ /\ IsCurrent
          /\ action' = [action EXCEPT !.pc = "asking", !.resumes = memory.pending]
          /\ Flow!Ask
          /\ Stays /\ UNCHANGED awaited
    /\ UNCHANGED <<current, queue, data, outside>>

\* The controller answers with a handle.
GetsHandle ==
    /\ At("asking")
    /\ flow \in {"open", "key"} /\ store.pending # "none"
    /\ Flow!Answer
    /\ IF ~IsCurrent THEN Leaves /\ UNCHANGED memory
       ELSE /\ memory' = [memory EXCEPT !.pending = TRUE]
            /\ IF action.resumes /\ ~action.auto THEN Moves("reopening") /\ Stays
                                               ELSE Moves("waiting") /\ TurnEnds
    /\ UNCHANGED <<current, queue, store, daemon, outside>>

\* resume() found nothing, or what it found had expired: beginProActivation()
\* asks for a new flow.
GetsNothing ==
    /\ At("asking") /\ action.resumes
    /\ flow = "none"
    /\ store' = [store EXCEPT !.pending = "none"]
    /\ memory' = IF IsCurrent \/ ~action.auto THEN [memory EXCEPT !.pending = FALSE] ELSE memory
    /\ IF IsCurrent /\ ~action.auto
       THEN /\ action' = [action EXCEPT !.resumes = FALSE]
            /\ Stays /\ UNCHANGED <<controller, awaited>>
       ELSE Leaves /\ Flow!Answer
    /\ UNCHANGED <<current, queue, daemon, outside>>

\* refreshProPendingState(): an unreadable store changes nothing.
Refresh == memory' \in {memory, [memory EXCEPT !.pending = (store'.pending # "none")]}

GetsError ==
    /\ At("asking")
    /\ flow \in {"none", "failed"}
    /\ store' \in {store, [store EXCEPT !.pending = "none"]}
    /\ Flow!Answer
    /\ IF IsCurrent THEN Moves("dialog") /\ Stays ELSE Leaves
    /\ IF IsCurrent /\ ~action.auto THEN Refresh ELSE UNCHANGED memory
    /\ UNCHANGED <<current, queue, daemon, outside>>

\* reopenProActivationPage(): whatever the browser does, the flow goes on.
PageReopened ==
    /\ At("reopening")
    /\ TurnEnds
    /\ IF IsCurrent THEN Moves("waiting") ELSE ActionEnds
    /\ UNCHANGED <<controller, current, queue, data, outside>>

KeyWasThere ==
    /\ At("waiting") /\ flow = "key"
    /\ GetsKey
    /\ UNCHANGED <<controller, current, turn, place, data, outside>>

ResultRejected ==
    /\ At("waiting") /\ flow = "failed"
    /\ UNCHANGED store
    /\ IF IsCurrent THEN Moves("report") /\ Refresh ELSE ActionEnds /\ UNCHANGED memory
    /\ UNCHANGED <<controller, current, queue, turn, place, daemon, outside>>

\* The user, or the close of the app, answers the action's last dialog.
DialogSeen ==
    /\ \/ At("report") /\ ActionEnds /\ Stays
       \/ (At("dialog") \/ At("success")) /\ Leaves
    /\ UNCHANGED <<controller, current, queue, data, outside>>

\* persistActivatedKey(): a save may fail after it committed.
Saves ==
    /\ At("saving")
    /\ IF IsCurrent
       THEN /\ memory' = [memory EXCEPT !.retry = "new"]
            /\ store' \in {store, Activated}
            /\ Moves("confirming") /\ Stays
       ELSE Leaves /\ UNCHANGED <<memory, store>>
    /\ UNCHANGED <<controller, current, queue, daemon, outside>>

\* Mutant: a save that may have failed is believed.
Believes ==
    /\ At("confirming")
    /\ IF ~IsCurrent THEN Leaves /\ UNCHANGED <<memory, daemon>>
       ELSE /\ memory' = [key |-> "new", retry |-> "none", pending |-> FALSE]
            /\ daemon' = "down"
            /\ Moves("booting") /\ Stays
    /\ UNCHANGED <<controller, current, queue, store, outside>>

\* The readback is the authority.
Confirms ==
    /\ At("confirming")
    /\ \/ ~IsCurrent /\ Leaves /\ UNCHANGED <<memory, daemon>>
       \/ IsCurrent /\ Moves("storeDialog") /\ Stays /\ UNCHANGED <<memory, daemon>>
       \/ /\ IsCurrent /\ store = Activated
          /\ memory' = [key |-> "new", retry |-> "none", pending |-> FALSE]
          /\ daemon' = "down"
          /\ Moves("booting") /\ Stays
    /\ UNCHANGED <<controller, current, queue, store, outside>>

StoreDialogSeen ==
    /\ At("storeDialog")
    /\ \/ IsCurrent /\ Moves("saving") /\ Stays
       \/ Leaves
    /\ UNCHANGED <<controller, current, queue, data, outside>>

\* restartDaemonForPro()
BootsWithKey ==
    /\ At("booting")
    /\ IF Open THEN Boot ELSE UNCHANGED daemon
    /\ IF IsCurrent /\ daemon' # "down" THEN Moves("success") /\ Stays ELSE Leaves
    /\ UNCHANGED <<controller, current, queue, store, memory, outside>>

-----------------------------------------------------------------------------
(* removeProAccess()                                                        *)

RemovalAsked ==
    /\ removal = "none" /\ Open
    /\ removal' = "asking"
    /\ UNCHANGED <<pro, turns, data, updater, quitting, gate>>

RemovalAnswered ==
    /\ removal = "asking" /\ Alive
    /\ \/ removal' = "none" /\ UNCHANGED <<pro, queue>>
       \/ /\ Open /\ Room
          /\ Retire("removal")
          /\ queue' = Append(queue, "removal")
          /\ removal' = "queued"
    /\ UNCHANGED <<turn, place, data, updater, quitting, gate>>

Removing(at) == turn = "removal" /\ place = at
RemovalEnds == TurnEnds /\ removal' = "none"

RemovalRetired ==
    /\ Removing("retiring") /\ Settled("removal")
    /\ IF Open THEN daemon' = "down" /\ place' = "removing" /\ UNCHANGED <<turn, removal>>
               ELSE RemovalEnds /\ UNCHANGED daemon
    /\ UNCHANGED <<pro, queue, store, memory, updater, quitting, gate>>

\* store.remove() may fail after it committed.
Removes ==
    /\ Removing("removing")
    /\ IF Open THEN store' \in {store, Nothing} /\ place' = "looking" /\ UNCHANGED <<turn, removal>>
               ELSE RemovalEnds /\ UNCHANGED store
    /\ UNCHANGED <<pro, queue, memory, daemon, updater, quitting, gate>>

\* The owner of an action that began before is not the new controller.
NewController ==
    /\ current' = TRUE
    /\ Flow!Renew
    /\ action' = [action EXCEPT !.mine = FALSE]

\* inspect(), and load() of what survived, decide; or nothing is known.
Looks ==
    /\ Removing("looking")
    /\ \/ place' = "uncertain" /\ UNCHANGED <<turn, removal, controller, current, action, memory>>
       \/ /\ memory' = [key |-> store.key, pending |-> store.pending # "none",
                         retry |-> IF store = Nothing THEN "none" ELSE memory.retry]
          /\ IF Open THEN NewController /\ place' = "booting" /\ UNCHANGED <<turn, removal>>
                     ELSE RemovalEnds /\ UNCHANGED <<controller, current, action>>
    /\ UNCHANGED <<awaited, queue, store, daemon, updater, quitting, gate>>

RemovalBoots ==
    /\ Removing("booting")
    /\ IF Open THEN Boot ELSE UNCHANGED daemon
    /\ IF store = Nothing THEN RemovalEnds ELSE place' = "dialog" /\ UNCHANGED <<turn, removal>>
    /\ UNCHANGED <<pro, queue, store, memory, updater, quitting, gate>>

\* What resumes an unfinished flow that survived a transition.
ResumesPending ==
    IF memory.pending /\ memory.retry = "none" /\ current /\ Open /\ action.pc = "none"
    THEN Starts(TRUE) ELSE UNCHANGED <<action, queue>>

RemovalFailureSeen ==
    /\ Removing("dialog") /\ Alive
    /\ RemovalEnds
    /\ ResumesPending
    /\ UNCHANGED <<controller, current, awaited, data, updater, quitting, gate>>

-----------------------------------------------------------------------------
(* prepareForUpdateInstall() and recoverFromUpdateInstallFailure()           *)

InstallAsked ==
    /\ updater = "idle" /\ Open /\ Room
    /\ Retire("install")
    /\ queue' = Append(queue, "install")
    /\ updater' = "preparing"
    /\ UNCHANGED <<turn, place, data, removal, quitting, gate>>

InstallRetired ==
    /\ turn = "install" /\ place = "retiring" /\ Settled("install")
    /\ TurnEnds
    /\ IF Open THEN daemon' = "down" /\ quitting' = TRUE /\ updater' = "installing"
               ELSE updater' = "idle" /\ UNCHANGED <<daemon, quitting>>
    /\ UNCHANGED <<pro, queue, store, memory, removal, gate>>

InstallerFails ==
    /\ updater = "installing" /\ gate = "open"
    /\ updater' = "recovering"
    /\ queue' = Append(queue, "recovery")
    /\ UNCHANGED <<pro, turn, place, data, removal, quitting, gate>>

Recovering(at) == turn = "recovery" /\ place = at
RecoveryEnds == TurnEnds /\ updater' = "idle"

Recovers ==
    /\ Recovering("begin")
    /\ IF gate = "open"
       THEN /\ quitting' = FALSE
            /\ memory' = [memory EXCEPT !.key = "none", !.pending = FALSE]
            /\ NewController
            /\ place' = "loading"
            /\ UNCHANGED <<turn, updater>>
       ELSE RecoveryEnds /\ UNCHANGED <<quitting, memory, controller, current, action>>
    /\ UNCHANGED <<awaited, queue, store, daemon, removal, gate>>

\* initializeProSupport(): an unreadable store is reported, and the session
\* starts without Pro.
RecoveryLoads ==
    /\ Recovering("loading")
    /\ memory' \in {memory, [memory EXCEPT !.key = store.key, !.pending = (store.pending # "none")]}
    /\ place' = "booting"
    /\ UNCHANGED <<pro, queue, turn, store, daemon, outside>>

RecoveryBoots ==
    /\ Recovering("booting")
    /\ IF Open THEN Boot ELSE UNCHANGED daemon
    /\ RecoveryEnds
    /\ IF daemon' = "down" THEN UNCHANGED <<action, queue>> ELSE ResumesPending
    /\ UNCHANGED <<controller, current, awaited, store, memory, removal, quitting, gate>>

-----------------------------------------------------------------------------
(* Quit.                                                                    *)

\* before-quit; an uncertain removal asks for it.
QuitAsked ==
    /\ gate = "open"
    /\ gate' = "closing"
    /\ quitting' = TRUE
    /\ Retire("quit")
    /\ queue' = Append(queue, "quit")
    /\ UNCHANGED <<turn, place, data, removal, updater>>

UncertainSeen ==
    /\ Removing("uncertain") /\ Alive
    /\ RemovalEnds
    /\ IF gate = "open"
       THEN /\ gate' = "closing" /\ quitting' = TRUE
            /\ Retire("quit")
            /\ queue' = Append(queue, "quit")
       ELSE UNCHANGED <<gate, quitting, pro, queue>>
    /\ UNCHANGED <<data, updater>>

QuitRetired ==
    /\ turn = "quit" /\ place = "retiring" /\ Settled("quit")
    /\ TurnEnds
    /\ daemon' = "down"
    /\ gate' = "exited"
    /\ UNCHANGED <<pro, queue, store, memory, removal, updater, quitting>>

-----------------------------------------------------------------------------
FlowWork == FlowListens \/ FlowFails \/ ControllerDown

ActionWork ==
    \/ BeginsLate \/ BeginsRetry \/ Begins \/ Preflight \/ GetsHandle \/ GetsNothing \/ GetsError
    \/ PageReopened \/ KeyWasThere \/ ResultRejected \/ DialogSeen
    \/ Saves \/ Confirms \/ StoreDialogSeen \/ BootsWithKey

TurnWork ==
    \/ TakeTurn \/ SkipTurn \/ Reopens \/ FolderStops \/ FolderBoots
    \/ RemovalRetired \/ Removes \/ Looks \/ RemovalBoots \/ RemovalFailureSeen \/ UncertainSeen
    \/ InstallRetired \/ Recovers \/ RecoveryLoads \/ RecoveryBoots
    \/ QuitRetired

Next ==
    \/ FlowWork \/ FlowDelivers \/ ActionWork \/ TurnWork
    \/ FolderAsked \/ ActivationAsked \/ ReopenAsked \/ RemovalAsked \/ RemovalAnswered
    \/ InstallAsked \/ InstallerFails \/ QuitAsked

Fairness == WF_vars(FlowWork) /\ WF_vars(ActionWork) /\ WF_vars(TurnWork)

Spec == Init /\ [][Next]_vars /\ Fairness

-----------------------------------------------------------------------------
(* Properties.                                                              *)

\* When a transition or the exit goes on from the retirement of the controller, that
\* controller has no listener and no call under way, and its action touches neither
\* the store nor the daemon: no key is saved while the store is removed, and none
\* beside an installer.
HandoverIsQuiet ==
    gate = "exited" \/ updater = "installing" \/ place = "looking" =>
        /\ ~asked /\ flow # "open"
        /\ action.pc \notin {"saving", "confirming", "booting", "asking"}

\* A daemon that has a license key has the one in the store, but while a save whose
\* outcome is unknown is being retried: a failed save, removal or recovery never
\* leaves a session running on another key than the next start would load.
SessionMatchesStore ==
    /\ TypeOK
    /\ daemon \notin {"down", "none"} =>
         store.key = daemon \/ (memory.retry = "new" /\ store = Activated)

\* No transition waits for ever for a retirement, though the action it waits for may
\* itself be waiting for a turn behind it.
RetirementSettles ==
    \A by \in Retirers : turn = by /\ place = "retiring" ~> ~(turn = by /\ place = "retiring")

\* What main.js:1026 says of a purchased key that could not be saved: while the
\* session goes on, a flow whose code was exchanged has its key kept for a retry.
UnsavedKeyRetained ==
    /\ store.pending = "spent" /\ action.pc = "none" /\ Open
    /\ turn = "idle" /\ removal = "none" /\ updater = "idle"
    => memory.retry = "new"
==============================================================================
