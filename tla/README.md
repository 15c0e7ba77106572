# Formal model of Mirafold Desktop

TLA+ models of the Electron main process of Mirafold Desktop (`src/src/`), the
TLC configurations that check them, and TLAPS proofs about them. Paths are
relative to the repository root; the code itself is under `src/src/`.

## What the program is

The app is one window onto one daemon. The main process starts the daemon as a
child process, loads the URL that it prints, and stops its whole process tree
before a folder change, a credential change, an update or a quit. A daemon left
running without an owner is invisible to the user, so most of the code is about
who owns the tree, and about stopping it with a proof.

## Inventory

| Component | State it keeps | Operations | What is hard | What makes it correct |
|---|---|---|---|---|
| Lifecycle coordinator, `app-lifecycle.js` | promise chain, owner, closing, named flights | `run`, `close` | calls between any two microtasks, rejections, calls after close | one owner, request order, shared flights, one final cleanup and nothing after it |
| Before-quit gate, `app-lifecycle.js` | cleanup promise, released | `handleBeforeQuit` | re-entrant quits, a cleanup that is rejected | the held quit is released exactly after the cleanup |
| Daemon instance, `daemon.js` | child, stop flag, stop promise, startup URL, handoff | `start`, `stop`, close listeners, deadlines | death at every point, stop before the spawn, cleanup that cannot be proved | a true `stop()` is a proof, every death is reported or stopped |
| Main process, `main.js` | window, folder, daemon, origin, blocked, quitting, boot sequence | boot, folder change, Pro restart and removal, update install and recovery, crash, quit | each of them yields many times, and users, crashes and quits come in between | one tree at a time, none beside an installer or after a quit, no dead window |
| Process tree, `process-tree.js`, `daemon-bootstrap.cjs`, `windows-daemon-job.ps1` | tracked identities, ledger, Job, stop event | sample, terminate, escalate | process IDs are reused, descendants fork and change group, timeouts | true only if every process that a sample could read is gone, no signal to a stranger whose number did not change hands |
| Updater, `updater.js` | installing, checks, prompts | check, prompt, install, recover | errors as events and as exceptions, repeated checks | an installer only with a stop proof, recovery once per failure |
| Platform updaters, `platform-updaters.js` | staging files | replace, commit, roll back | a failure between two file operations | a working application file always exists |
| Pro store, `pro-store.js` | one encrypted file and its temporaries | load, save, remove, inspect | crashes, unsynced renames | old or new state, never a mixture, removal is final |
| Pro activation, `pro-activation.js` | operation, session, listener, timer, exchange | start, resume, callback, shutdown | callback, timer, shutdown, exchange and a store that fails race | one settlement; no key after retirement; the stored flow decides |
| Pro actions, `main.js` | the action, its controller, the key in memory and for a retry | activate, reopen, complete, remove, retire, resume | a retirement while the action waits for its own turn, saves that fail after they committed | who goes on after a retirement finds it quiet; the session has the stored key |
| Daemon output, `daemon-output.js` | the line under way, the kept lines, the tail | push, end, search for the URL | secrets and the URL split across chunks, at the limit of each buffer | no secret leaves the process, the URL is found |
| Navigation, permissions, state, scale, login environment | small or none | - | - | pure classification or plain I/O |
| Release coordination, `scripts/release-*.mjs`, `shell-intake.mjs`, the two publication jobs | the repository, tags, drafts and releases on GitHub | classify, push, draft, publish, resolve | jobs killed and rerun, people who push, a draft that is not shown | only reviewed bytes become public, the feed never goes back, a rerun resumes |
| Other `scripts/`, packaging | - | - | - | build tools in a straight line |

They interact as follows. Everything in `main.js` that touches the daemon, the
Pro state or the activation is an operation handed to the coordinator's `run`.
An operation calls `start` and `stop` of a `Daemon`; a `Daemon` calls back
`onDaemonCrash`, which updates the globals at once and queues an operation of
its own. The updater calls `prepareForUpdateInstall` and
`recoverFromUpdateInstallFailure`. Electron's `before-quit` event passes through
the gate, which closes the coordinator. `whenClosing` is the one signal that
interrupts an operation: every native dialog is raced with it.

## Modules

| Module | Models | Notes |
|---|---|---|
| `OwnerLock` | what the coordinator promises | abstract: acquire, release, seal |
| `Lifecycle` | `createLifecycleCoordinator` | one action per synchronous run of code |
| `LifecycleProofs` | - | TLAPS proofs about `Lifecycle` |
| `DaemonLife` | what `main.js` may rely on about a daemon | abstract: the moves of one instance's life |
| `Daemon` | `class Daemon` | one action per JavaScript callback or event of the system |
| `Desktop` | `main.js` over the coordinator and the instances | one action per stretch of code between two awaits |
| `DesktopProofs` | - | TLAPS proofs about `Desktop` |
| `InstallGate` | what `main.js` may rely on about the updater | abstract: the moves of one installation |
| `Updater` | `createDesktopUpdater` between the library and `main.js` | one action per stretch of code between two awaits |
| `AppImage` | the AppImage replacement of `platform-updaters.js` | one action per file system call |
| `UpdaterProofs` | - | TLAPS proofs about `Updater` and `AppImage` |
| `DurableCell` | what the Pro store promises | abstract: a cell that survives crashes |
| `ProStore` | `createProStore` | one action per file system call that changes the disk |
| `ProStoreProofs` | - | TLAPS proofs about `ProStore` |
| `DaemonOutput` | `CredentialSafeLineStream`, `appendStderr`, `findStartupUrl` | the text as symbols, one action per chunk |
| `DaemonStartup` | `Daemon` and `DaemonOutput` together | a URL is seen where the text has one |
| `ProcessTree` | the tracker and `terminateProcessTree` on Linux | one action per reading of `/proc` or per signal |
| `DaemonProofs` | - | TLAPS proofs about `Daemon`, `DaemonStartup` with `DaemonOutput`, and `ProcessTree` |
| `ActivationFlow` | what `main.js` may rely on about an activation | abstract: one operation, one flow, one retirement |
| `ProActivation` | `createProActivation` over the store | one action per stretch of code between two awaits |
| `ProActivationProofs` | - | TLAPS proofs about `ProActivation` |
| `ProActions` | the Pro actions of `main.js` over a controller and the queue | one action per stretch of code between two awaits |
| `ProActionsProofs` | - | TLAPS proofs about `ProActions` |
| `ReleaseCoordinator` | the publication of releases | one action per call to GitHub or git |
| `ReleaseProofs` | - | TLAPS proofs about `ReleaseCoordinator` |
| `MCLifecycle`, `MCDaemon`, `MCDesktop`, `MCUpdater`, `MCAppImage`, `MCProStore`, `MCProActivation`, `MCProActions`, `MCProcessTree`, `MCReleaseCoordinator` | - | instances for TLC |

The modules meet in abstract specifications. The variable `updater` of `Desktop`
moves as `InstallGate` says, which `Updater` implements where errors tell of
installers only. `Desktop` moves its instances by the steps of `DaemonLife`, which
`Daemon` implements. `ProActions` drives its controller by
the actions of `ActivationFlow`, which `ProActivation` implements; both see the
store as a record that a call changes or not, which is what `ProStore` makes of
the disk (`DurableCell`). All of these refinements are checked and proved. `Lifecycle` gives `Desktop` and `ProActions` their
queue. `DaemonStartup` composes `Daemon` and `DaemonOutput` action by action.
`ProcessTree` is the call that `Daemon` takes at its word.

### Lifecycle

`Requests` are calls of `run`, `Close` is the request of `close()`. `chain` is
`operationTail` with its history: entry *i* may begin once entry *i - 1* has
settled. A call is `RunShared` (its key is in flight), `RunRefused` (closing) or
`RunQueued`. A turn is `Begin` or, after `close()`, `Retire`. `Finish` is the
operation returning or throwing, with the `finally` that clears `owner`;
`Settle` is the promise settling together with the deletion of its flight,
because both reactions run before any continuation of a caller. Between `Finish`
and `Settle` other calls may come. The refinement `Lock` maps the settled and the
running operations to `served`.

### Daemon

The state is the fields of the class (`child`, `stopping`, `answer` for
`#stopPromise`, `cleanup` for what that promise resolves to), the two promises of
`start` (`url`, `handoff`), and the system's side (`tree`, `event`). A tree is
*headless* when its root died and descendants live on. `Reacting` says that both
promises have settled or one has failed: microtasks run before the next event of
the child, which is why there is no gap before the listener of line 514. The
mutant `ReactsLater` opens that gap, and `StartsAndDeathsAreTold` then fails.

The platforms differ in three places: only Unix has a credential handoff to wait
for, only Windows has a wrapper that must report before the URL counts, and on
Windows the Job takes every descendant along with the root.

`terminateProcessTree` is taken at its word: it answers true only if the tree is
gone, and may answer false at any time. What that word is worth is the subject of
`ProcessTree`.

A death is only noticed at "close", and that waits for the pipes: an orphan that
holds them delays the report for as long as it lives. `StartsAndDeathsAreTold` is
stated for a tree that is gone.

The startup deadline is one event that may come once the daemon was spawned. On
Windows the wrapper's ready line arms it anew (`daemon.js:260`), for another phase
and another time; the model has both sides of that line but not how long each
deadline is, and would not notice one that is armed wrongly.

### DaemonOutput and DaemonStartup

The text is a sequence of five symbols: the two halves of what introduces a
credential (or the boot URL), a character, a space and the newline. That is
enough to cut an introduction in the middle, to end a credential at a blank or a
line, and to overrun a line or the tail. `Data` is one "data" event with any
text; `Push` cuts it into parts, one for each line it touches, of which the first
goes on with the line under way and each other begins one; `Keep` is `appendStderr`,
`LooksForUrl` the search in the retained tail. `End` is what "end" and "close" do.

In `DaemonStartup` the text meets the start: `Prints` takes the step `UrlSeen` of
`Daemon` when the text has brought the URL, `Closes` flushes the stream with
`CloseEvent`, `PipeEnds` is the pipe's own end. The text is followed until
`start()` settles; of the lines printed later the model knows nothing. One stream
stands for both: in the code stdout is searched and stderr is kept, and both go
through the same line stream.

### ProcessTree

`proc` is the process table: of each process ID the start time (`birth`), parent,
group and state, and whether the process is the daemon's (`owned`). The processes
are the environment: between any two steps they fork (`Fork`), leave their groups
for one of their own or another of the daemon's (`ChangesGroup`), exit (`Exits`),
are reaped, and their numbers go to strangers. `Records` is the line that
`daemon-bootstrap.cjs` appends to the ledger some time after a pseudo-terminal was
started. Nothing restricts the environment but the kernel: a number is free when
neither a process nor a group has it, and the daemon, a session leader that is
Electron's child, neither changes its group nor is reaped while the event loop is
held.

One step reads one file of `/proc`, or sends one signal. `ReadLedger` begins a
sample (`rememberLinuxLedger`); `Looks`, `Lists` and `Reads` are the walk of
`rememberLinuxDescendants`: an identity is looked up, the numbers of its children
are listed, and each number is read later, whoever has it by then; `Kept` is the
filter at the end. `stage` says how far the code is: `tracking` (the timer's
`Capture`, `Captured`), `stopping` (`Terminate`: the last sample), `begun`
(`Retains`, `Begins`: the two verdicts on the root), the waits `term` and `kill`,
and the answer. In a wait `SignalGroup` signals the group, `PassSignals` samples
again, `Checks` and `Kill` check an identity and signal its number in two steps,
and `LooksOn`, `LooksGone` are `treeExists()` looking first at the group and then
at the identities.

Three variables keep what the code cannot see and the properties speak of:
`escaped`, the processes that lost their parent before any sample had read them;
`misread`, the strangers whose number was another's at a step before; `sampled`,
how many processes had been started when the last sample began. So the properties
name what the code cannot promise, and assume none of it away:

- `ProofIsTrue`: true means that the daemon's group is empty, and that what else
  still runs of the daemon's is, or comes of, a process in `escaped`.
- `RefusalTriedAll`: before false, whatever is older than the last sample has had
  SIGKILL itself, but for those that have escaped and what comes of them (the last
  sample did not retain its parent).
- `SparesStrangers`: a signal reaches no stranger but one in `misread` and what such
  a stranger starts. `misread` grows in four steps only: a number listed and then
  read (`Reads`, or `Stranger` with the ledger), a number checked and then signalled
  (`Kill`), and the daemon's own, when it is looked for by its number (`Retains`)
  or its group is signalled after it was reaped (`SignalGroup`).

Abstracted: the threads of a process are one; the kernel's list of children is
taken at its word; the ledger is read in one step and the filter at the end of a
sample is one step (comments at `FromLedger` and `Keeps` say why that loses
nothing); the first pass of a wait is always followed by a second, of which the
model makes a choice; a deadline may pass at any look; after the answer nothing
moves. Left out: the Windows branch (Job, stop event, `taskkill`), other Unix
systems (the group alone), and unreadable `/proc` entries.

### Desktop

`queue`, `owner` and `closing` are the coordinator as `Lifecycle` establishes it.
`life` is what has become of the tree of each instance and moves by the steps of
`DaemonLife`. `pc` is what the owner awaits, `held` the instance it boots or
stops. `stale` replaces `bootSeq`: only whether the counter moved since the boot
in flight began matters, because boots never overlap. `folder` and `updater` are
the callers of transitions that have state of their own, `gate` is the
before-quit handler.

The behaviours begin where the menu can be used and a folder is chosen, while the
start awaits the Pro store and its keyring (`startup`, `main.js:1441`). `FirstBoot`
is the first RESTART being queued when that await ends, behind whatever the menu has
asked for meanwhile. A folder change among it boots first, and `boot()` then
overwrites `daemon` (`main.js:712`, `LoadingPage`): the tree of that daemon is
`"lost"`, it runs on, nobody stops it and its death is not reported (`LostEnds`).
`OneTree`, `InstallerAlone` and `ExitLeavesNothing` name this tree as their one
exemption, and so bound what the race may lead to: it happens once at most, there
are never three trees, and only the lost one may be alive beside an installer or
after the exit. What the comments promise without it is `InstallProvesItsTree`, see
Divergences.

`stopError` says why a quit cleanup failed: a stop that was not proved, or a Pro
retirement that was rejected, after which the cleanup never gets to the daemon
(`main.js:1479`). `ExitLeavesNothing` tells them apart: the first leaves a tree that
was told to stop, the second the daemon that `main.js` still holds.

A transition is a kind in `Kinds`. It begins with its `...Begins` action, goes
through `StopFirst`/`StopSettles` if it replaces the daemon, and through
`CallBoot`, `LoadingPage`, `Started`, `PageLoaded` if it boots one; `Retire` and
`Retired` are `boot()`'s `retire()`. Each dialog an owner awaits is a place of
its own; the dialog that names the outcome of a finished boot is `noticeDialog`.

What it abstracts: the result of a Pro save or removal is any of the outcomes the
code distinguishes; the folder's name is not kept; a cleanup may be proved or not
at any time. An activation's retirement settles or is rejected without its own
steps. Instances that are gone and no longer referenced are reused.

### Updater

`check`, `prompt`, `installing`, `install` and `recovery` are the locals of
`createDesktopUpdater`: `checkPromise` with what it awaits, `versionPrompt()`'s
`inFlight` and `prompted`, the flag, what `installDownloadedUpdate()` awaits, and
`installFailurePromise`. `dialogs` is `dialogTail`, whose first entry is on the
screen once `shown`. `DialogClosed` gives each answer to whoever awaits it, which
is why every dialog is named by its waiter. `turns`, `session`, `quitting` and
`closing` are as much of `main.js` as its two callbacks touch.

The library `electron-updater` is not part of the repository. `LibraryLoads`,
`UpdateAvailable`, `Downloaded`, `LaunchFails` and the others are its answers and
events, as the handlers in `updater.js` register for them. Its `error` event
tells of failed checks and downloads as well as of failed installers. The
variable `stray`, one of `StrayErrors` chosen for good, says whether a behaviour
has that first use: what the controller promises of prompts, checks and waiting
holds either way, what it promises of the installer (`InstallIsGated`) only
without; with it, it does not hold (see below).

Left out: platforms on which nothing is checked, redaction, wording, an installer
that throws after a stray error (it could only repeat a recovery), and a
`prepareInstall` that throws, which `main.js` never lets it do.

### AppImage

One action is one file system call, since the process may be killed or lose power
between any two, and each may fail. `InSync` holds the places in a stretch of
synchronous JavaScript, `Awaiting` the two awaits, at which another
`quitAndInstall()` may come. `files` are the names in the AppImage's directory,
`staged` and `backup` the two files of an attempt's staging directory, `called` is
`quitAndInstallCalled`. `Restart` starts any file that is whole. `dest` is any
name: the new version keeps the old file's name or brings its own, which may be
that of a third file.

Of the file system it assumes that a rename or an unlink is atomic and that they
are durable in their order, and that data which was synced survives a power loss.
Data that was written but not synced may be lost with the power (`Left`).

### ProStore

`dir` is what the store's directory shows and `possible` what a power loss may
leave in it: every change adds to it and a sync reduces it to what is shown
(`Shows`, `Syncs`). `entry` is the directory's own entry in `userData`, durable
once that parent was synced. `files` has the contents of each file, which a power
loss tears unless they were synced. Syncs that fail change nothing.

A call is `call[c]` with its place `pc[c]`: a `load()` that has to rewrite or
remove what it read goes on as a save or a removal (`does`), and is still a load
(`goal`). `outcome` is what it came to, where only the code
`durability-uncertain` is told from the other errors. `told` is what the last
answer said the record holds; the rename and the unlink of the record make it
`Unknown`. `ImplementsCell` shows that all this is a `DurableCell`, whose
contents are whole envelopes or nothing.

An envelope is a key, a pending activation or both, and an activation may expire
at any time. The keyring and the validation of fields are outcomes (`Fails`).
Nobody else is assumed to change the directory, so that a file found is there
when it is removed. That calls wait for each other is `MayBegin`; the calls that
wait are not kept.

### ProActivation

`op` is the serialized `start()` or `resume()` with what it loaded, `session` the
last session with its socket (`listen`), its timer, its exchange, the place of
`terminate()` (`end`) and its promise (`result`); `clearing` is
`clearExactPending()`, which either of them may run. A session that is over is
inert, so only the last is kept. The store is one envelope: a call may fail before
or after its effect, and one that returns may still not have had it, which is why
the code reads back. `Tick` moves the wall clock; flows expire `Lifetime` ticks after
they were created. The process may be killed at any time and starts with a new
controller, and perhaps with a clock that was set meanwhile.

The browser owes nothing, and neither does whoever would call back. Requests and
answers are outcomes: authorized or not, a key or none.

### ProActions

The queue and its owner (`queue`, `turn`, `place`) are as in `Desktop`; the
controller (`asked`, `flow`, `retired`) is an `ActivationFlow` whose steps the
actions take. `action` is `proActionPromise`: it waits for a turn (`starting`,
`completing`), for the browser (`waiting`), or is inside a turn; `mine` says
whether its owner is still current. `Retire` is `retireProActivation()`: whoever
retires waits for the controller's shutdown and for the action, which itself may
be waiting for a turn behind; the code lets go of it then, and `RetirementSettles`
shows that nobody waits for ever. `store` is what the encrypted store holds, with
a flow whose code was exchanged marked `spent`; `memory` are `proLicenseKey`,
`proRetryKey` and `proPendingFlow`; `daemon` is the key of the running session.

A transition that has nothing to do with Pro is `folder`. What a failed boot or a
failed stop proof leads to is `Desktop`'s.

### ReleaseCoordinator

`commits`, `tags`, `drafts`, `published` and `latest` are GitHub; `runs` are the
intake runs, `manual` the release jobs of tags that people push; `writer` is the
one job in the publication group with the place it has come to. A tree is known by
its parent, versions and author, an asset by the tree and the job it was built of
and by. `ReadMain`, `ReadTag`, `AwaitTag` and `ReadRelease` are
`inspectRemoteRelease()`, each reading at its own time; `Classify` is
`classifyRemoteRelease()`; the rest are the writes of the jobs in their order.
People push commits and tags, npm releases Shells, a tag may not be visible yet, a
job may be killed, lose its place in the group, and be rerun with its artifacts.

`shows` says whether the endpoint of a tag answers with a draft: the code looks
for one there, and a comment in the workflow says that it does not. Both are
checked.

`HumanCommit` may raise the version of the Desktop, keep it or change anything else,
but not lower it: no script enforces that, and `FeedGrows` rests on it.

Left out: lightweight tags, the deletion of tags, hashes and file formats. An
exhausted wait for a tag is a job that fails.

## Runs

| Run | States | What it shows |
|---|---|---|
| `lifecycle` | 20,573 | every interleaving of four calls and `close()`: order, sharing, sealing, refinement of `OwnerLock`, and that `close()` settles every promise handed out |
| `daemon` | 162,063 | one instance on both platforms with every text of up to five symbols cut in every way: stop proofs, no death unheard, no secret said, no URL missed, `start()` settles, refinement of `DaemonLife` |
| `desktop` | 461,887 | the start and all transitions with failures, crashes, dialogs, an installer and a quit at any moment |
| `updater` | 10,492 | two manual checks, the automatic one, both strategies, errors of every origin: one prompt, calls into `main.js` once and awaited, nothing waits for ever; and, where errors tell of installers only, no session beside an installer, and the controller is what `Desktop` assumes |
| `appimage` | 21,876 | two attempts over two names with failing calls, kills, power losses, restarts: a whole AppImage always, the old one until the new one was launched, no trace of a failed attempt |
| `prostore` | 314,840 | calls in any order with failing file system calls, kills, power losses and expiry: no answer is undone, no record torn, no ciphertext left behind, errors tell what they say |
| `pro_activation` | 35,646 | two flows started, resumed, answered, expired, shut down and restarted in any order: what listens has an owner, the store decides, everything settles, refinement of `ActivationFlow` |
| `proactions` | 242,291 | the activation's action beside removal, installation, recovery, folder change and quit: a retirement is quiet and settles, the session has the stored key |
| `processtree` | 5.3 million | forks, changes of group, deaths, zombies, orphans, reused numbers between any two readings: what true proves, whom a signal may reach, what was killed before false |
| `release` | 3.1 million | two intake runs and tags pushed by people, killed anywhere and rerun: only what was reviewed becomes public, the feed only grows, no rerun refuses what it can finish |
| `updater_stray`, `proactions_key` | stop at the violation | two of the divergences described below |

Bounds. `lifecycle` has four calls: two with a common key (a flight and its
duplicate, or a flight after the first has gone), one with another key and one
without; with `close()` these reach every branch of `enqueue`, and a chain of
five is long enough for a predecessor that is retired, rejected or still running.
`daemon` has texts of `MaxHeard = 5` symbols, lines of three and a tail of four:
an introduction, a credential character and a blank fill the tail, so that one
more symbol pushes a URL out of it, and a line may overrun at any symbol; two kept
lines of two symbols are both forgotten and cut. Six symbols (815,953 states) gave
the same. `desktop` has three instances: one in use, the one of the
next boot, and the one that the first boot may lose; `OneTree` excludes a third
tree. `MaxWaiting = 2`: at most two requests of the user and the updater wait, to
which crash, quit and the first boot are added unbounded. Four instances and
three requests (2,087,897 states) gave the same. `lifecycle`, `daemon`, `desktop`, `updater`, `proactions`,
`processtree` and `release` have no deadlock check: the app stops once it has
exited, the coordinator when every call has settled, an instance when it is gone,
a termination when it has answered, and the release when its bounds are used up.

`updater` has two versions, since `prompted` tells the same version from another,
and `MaxManual = 2` clicks beside the automatic check: one check in flight and
one that finds it so, or one after it. `appimage` has two attempts (the second of
the same process or of the next one) and two names (the same or another
destination); its deadlock check is on, because a process can always be
restarted. `prostore` has a key and an activation, hence three envelopes, so that
old, new and relieved of an expired activation differ; three files are one more
than the code ever needs (the record and its replacement, as leftovers go first);
two calls, of which one waits. Files and calls are interchangeable (`Alike`); the
run has no liveness. Its deadlock check is on.

`pro_activation` has two flows, so that one can be left behind by a crash and meet
another, a clock of three values and a lifetime of one tick, so that a flow can be
fresh, expired or from the future. `proactions` lets two requests of the user wait.
`processtree` has three process IDs and three processes beside each other or after
each other: the root with a child and a grandchild, or a child and a stranger that
takes the number of the child or of the root. All three mutants are caught with
them, and so is each of the four gaps that `misread` names. `release` has
three commits, three versions, two Shells and one kill: an intake run, a commit of
somebody else before, between or after its looks, a tag, and a rerun. Its two runs
are interchangeable (`Alike`); it has no liveness.

Fairness. `Lifecycle`: turns and settlements are microtasks and always run. An
operation is only assumed to end once closing, since until then it may wait for
the user. `Daemon`: deadlines exist for the environment, the startup and each
termination; `close` is only assumed once no descendant is left that could hold
the pipes; no process has to die and nobody has to call anything. `Desktop`: the
owner's steps are bounded by those deadlines, by Electron (loading a page) or,
for dialogs, by the closing signal; users, crashes and the installer owe nothing. `Updater`: the library and the
launch of an installer answer, `main.js` gives each transition its turn (the
coordinator's promise), and the user closes dialogs; downloads, clicks and quits
owe nothing. `ProActivation`: the operation, the exchange and the end of a session
go on, as each of their awaits has a deadline (the store's calls, `forceClose()`,
the fetch), and timers fire; the browser and the callback owe nothing.
`ProActions`: the controller ends what it was told to end (`ActivationFlow`), the
action and the owner of the turn go on, dialogs are answered by the user or by the
closing signal; a key never has to come. `AppImage`, `ProStore`, `ProcessTree` and
`ReleaseCoordinator` are checked for safety only: their calls end when the system,
or GitHub, answers.

Every property is there because some plausible slip in the code breaks it: each
one has a mutant, next to the definition it alters, under which TLC finds the
property violated.

### Divergences

Two runs, and seven further configurations beside them, end in a counterexample to
something that a comment or a document of the repository says. The two runs are
listed; the others are run by hand, `tlc -config MCDesktopDeath.cfg MCDesktop` and
so on.

`MCDesktopDeath.cfg` (`DeathIsReported`). The comment at `src/src/main.js:756-760` says that a daemon that
died "in the gap between reporting its URL and the page loading" is reported by
`onDaemonCrash`. That is so when the load rejects. When the load succeeds although
the daemon is already dead, `main.js:771` calls `retire()`, hence `stop()`, which
sets `#stopping`; if the cleanup of the crash is still under way at that moment,
`daemon.js:531` then drops the crash callback. `boot()` returns without a report,
and the window shows a page with nothing behind it.

`MCDesktopProof.cfg` (`FailedProofGoesOn`). The comment at `main.js:1083-1084` says that a failed proof
"restarts the local daemon and returns false; the updater then keeps the download
for later". The code at `main.js:1106` restarts nothing: it shows the cleanup
dialog, whose one button quits the app.

`MCDesktopStartup.cfg` (`InstallProvesItsTree`). The comment at `main.js:1082-1083`
says of an installation "Freeze boots, stop the daemon tree, and prove it is gone
before an updater gets permission to open an installer". The menu is built at
`main.js:1435`, and line 1441 awaits the Pro store and its keyring
before line 1442 queues the first boot. A folder change
chosen in that time boots a daemon; the first boot then puts another in its place
(line 712) without stopping it. From then on only the second is stopped: the first
runs beside the installer, and after the app has exited.

`MCDesktopQuit.cfg` (`GoesDownWithUs`). The comment at `main.js:1468-1469` says "The
daemon and every agent CLI beneath it go down with us". The quit cleanup awaits the
Pro retirement first (line 1479); if that is rejected, the cleanup ends there, the
error is logged, and the app exits with its daemon running.

Run `updater_stray` (`InstallerAlone`). `updater.js:372` takes every `error` event that comes while
`installing` is set for a failure of the installer, and `installing` is set before
`prepareInstall()` is awaited. When a check that was still in flight fails in that
time, the recovery clears `installing` and queues `recoverInstall()`; but
`installDownloadedUpdate()` does not look again and calls `quitAndInstall()`. The
recovery allows boots and starts a daemon beside the installer. The needed order is
narrow: a manual check begun while the first download runs, and the update
accepted before that check has its answer.

Run `proactions_key` (`UnsavedKeyRetained`). The comment at `main.js:1026-1027`
says "A returned-but-unsaved key owns the consumed pending flow. Retrying that
exact key from the next trusted marker is the only lossless recovery", and
`PLAN.md:1345` claims "returned-but-unsaved key survival across failed removal and
updater recovery". But `persistActivatedKey()` answers a retired owner at
`main.js:345`, before line 350 keeps the key for a retry. When a removal or an
installation retires the activation after `finishProActivation()` has queued its
turn and before that turn comes, the key is dropped; once the removal or the
installer has failed, the spent flow that is still in the store is resumed, for
nothing. The tests (`test/pro-main.test.js:1557` and `1561`) have a key whose save
had begun.

`MCProcessTreeOrphan.cfg` (`NothingLives`). `process-tree.js:252` says "true only
after clean tree termination is proven". A descendant outside the daemon's group
whose parent exits before a sample has read it is in no sample, not in the daemon's
group and, unless it is a pseudo-terminal that the daemon itself opened, not in the
ledger: the answer is true while it runs. No unusual program is needed: a
pseudo-terminal has a group of its own, its processes inherit it, and
`sh -c 'server &'` in one forks and exits within one sampling interval (25 ms). The
counterexample has such a child leave the daemon's group itself.

`MCProcessTreeReuse.cfg` (`SignalsOnlyOurs`). `process-tree.js:29-30` says that
"retaining the pair guards a later cleanup against signalling an unrelated process
that reused an exited child's PID". It does between samples, but not between two
readings that belong together: the walk lists the numbers of children and reads
each later without looking at its parent (`process-tree.js:98-104`), an identity is
checked and then signalled by number (388 and 391), and the root is read again by
its number when the last sample has lost it (367), as is its group. The
counterexample has the reaped daemon's number given to a stranger. Each gap is as
narrow as the two calls are close, but for the last one.

`MCReleaseResume.cfg` (`RetriesResume`). `docs/RELEASING.md:121` says "Retries
resume; nothing partial ever becomes visible", `RELEASE-RECOVERY.md` (from line
133) that an incomplete draft is replaced and a complete one published, and
`classifyRemoteRelease()` and its test (`test/release-coordinator.test.js:273`)
have modes for both. But `inspectRemoteRelease()` looks for the draft at
`/releases/tags/TAG` (`release-coordinator.mjs:471`), and the workflow itself says
that this endpoint "resolves published releases only"
(`.github/workflows/shell-intake.yml:581`). A job that dies with its draft left
behind is then followed by reruns that see no release, create a second draft and
refuse both, without end. Nothing partial becomes visible, as `release` shows with
either behaviour of the endpoint.

## Proofs

`LifecycleProofs` proves for any set of requests and keys, with no bound:

- `Invariance`: `Spec => []Inv`. `RequestOrder` is not inductive by itself. It
  needs that the chain holds every request once, and exactly those that were
  queued (`ChainIsWhatWasQueued`), so that a step of one request is a step of one
  entry. `OneFlightPerKey` needs the same. That nothing is chained behind the
  cleanup needs `CloseIsChainedLast`; the mapping of `owner` to the abstract
  holder needs `OwnerIsRunning`. The proof has one lemma per action, and
  `TurnIsQuiet` and `EnqueueKeepsOrder` for what actions have in common.
- From `Inv`: `TypeCorrect`, `RequestOrderHolds`, `OneFlightPerKeyHolds`,
  `FinalCleanupIsLastHolds`, and the action properties
  `NothingStartsAfterCloseHolds` and `NoStaleShareHolds`.
- `LifecycleImplementsLock`: every behaviour of `Spec` is one of `OwnerLock`.
  `Begin` is `Acquire`, `Finish` is `Release`, `CloseCall` is `Seal`, all else
  stutters.

`DesktopProofs` proves for any set of instances and any `MaxWaiting`:

- `Invariance`: `Spec => []Inv`. None of `OneTree`, `StartIsOwned` and
  `InstallerAlone` is inductive. What carries them is `TreesAreHeld`: a tree that
  runs is main.js's `daemon`, one being stopped is `held` by an owner that waits
  for it, and one whose stop was not proved is either of these or has halted
  everything (`blocked`, `closing`, or the cleanup dialog after which the app
  quits). That in turn needs to know where the owner holds what (`HeldByPlace`),
  that only the first boot may find a daemon in its place (`HeldByPlace`,
  `FirstBootIsSound`), that each updater transition is queued at most once
  (`QueueIsSound`), and that between prepareInstall's yes and the recovery
  no transition gets past its beginning (`InstallIsQuiet`). One group of lemmas
  shows that each operator shared by the actions keeps the types (`...Typed`),
  one that it is safe (`...Safe`); the steps for the actions cite these.
- From `Inv`: `TypeCorrect`, `OneTreeHolds`, `StartIsOwnedHolds`,
  `InstallerAloneHolds`. `StartIsOwned` is what `Daemon.tla` assumes of its
  caller. The first two have the exemption for the tree that the first boot may lose
  in their statements; the proof of `OneTree` needs that this happens once at most
  (`FirstBootIsSound`: the first boot is asked for once, and nothing is lost before).
- `NoDaemonStartsWhileQuittingHolds`: only `LoadingPage` starts a daemon
  (`OnlyLoadingStarts`), and it has looked at `quitting`.
- `OriginIsHeldHolds`: inductive once `Inv` is there (`OriginStep`), because a
  daemon that leaves `daemon` takes the origin with it.
- `ExitLeavesNothingHolds`: needs that the quit cleanup is queued once and behind
  everything else (`QuitIsLast`), and that it has an answer for every instance
  before the gate opens (`QuitStopped`): a proof, a failed proof, or, if the Pro
  retirement was rejected, none.

`UpdaterProofs` proves of `Updater`, for any versions, any number of clicks, and
errors of either kind:

- `Invariance`: `Spec => []IInv`. `OneAtATime` counts what the controller awaits in
  its queues. It is inductive only with the two counts it does not state, of the
  refusal that an installation tells of and of the report of a recovery
  (`RefusalIsHeard`, `FailureIsHeard`): the dialog that is closed is then the one
  somebody awaits. `CountAppend` and `CountTail` say how a queue's count moves; one
  lemma per action has the effect of its calls on each count.
- `OneAtATimeHolds`, from `IInv`.
- `InstallIsGatedHolds`: without stray errors the installation, the recovery and
  what `main.js` holds move together (`InstallerIsOne`), hence no session runs
  beside an installer, and each action is a step of `InstallGate` or none.

and of `AppImage`, for any file names and any number of attempts:

- `DiskInvariance`: `AppImageSpec => []DiskInv`. `Bootable` is not inductive: it needs that
  whatever is under a name is synced (`NamesDurable`), so that a power loss takes
  nothing, that one attempt is under way at a time (`OneAttempt`), and what is on
  the disk at each of its places (`DiskOK`): the directory as it was until the
  rename, and from then on the copy that would undo it. `DiskStep` uses that an
  attempt under way makes its own steps alone (`StepsMove`, `Alone`, `OwnDisk`).
- From `DiskInv`: `TypeCorrect`, `BootableHolds`, `RetryAllowedHolds`, and the action
  property `FailureRestoresHolds`.
- `PriorKeptHolds`: the copies of attempts that could not roll back, or were cut
  off, still hold the old version (`OldThere`); a copy was only made of a file that
  existed, and an attempt that began after a launch began with the new version
  (`PriorIs`).

`ProStoreProofs` proves for any keys, activations, files and calls:

- `Invariance`: `Spec => []IInv`. It says that calls exclude each other (`OneCall`),
  that a record which a power loss may bring back was synced before it was renamed
  (`DiskIsWhole`), and of each call at each of its places: what its method is, which
  temporary files there are, what the record is to become, and that until the
  record changes a crash leaves nothing that it might not have left when the call
  began (`MethodIsAt`, `TempsAre`, `TargetIs`, `BeforeHolds`).
- `ToldIsDurableHolds`; the action property `AnswersHoldHolds`; and
  `StoreImplementsCell`: a rename or an unlink of the record is `Update`, a sync or
  an answer `Settle`, a power loss `Lose`, all else stutters.

`ProActivationProofs` proves for any number of flows, any lifetime and any clock:

- `Invariance`: `Spec => []IInv`. It says what is open at each stage of a session
  (`SessionIsWhole`), that an operation binds its session beside no other and none
  after a shutdown (`OpIsAt`), and what is known of the store between two of its
  calls: the flow that is cleared has expired and is the one about to be
  overwritten, and a `start()` that has not saved yet knows that there is none
  (`StoreIsKnown`).
- `LiveIsOwnedHolds`; the action properties of `StoreIsAuthorityHolds`; and
  `ActivationImplementsFlow`, by one lemma per kind of step.

`ProActionsProofs` proves for any `MaxWaiting`:

- `Invariance`: `Spec => []IInv`. `HandoverIsQuiet` is not inductive: a retirement
  awaits the action of its own time, and an action may begin after it was asked for.
  It needs that such an action waits for a turn behind the retirement's (`Ahead` in
  `Handed`), and that its owner is gone (`AwaitedIsOld`). `SessionMatchesStore`
  needs what the session knows of the key (`KnowsKey`) and that no new flow is
  asked for while a key waits to be stored (`Data`). `Joins` and `HasTurn` say what
  a queue keeps, `Kit` what the calls shared by the actions do; one lemma per action.
- `SessionMatchesStoreHolds` and `HandoverIsQuietHolds`, from `IInv`.

`DaemonProofs` proves for any set of platforms:

- `Invariance`: `Spec => []IInv`. `ProofHolds` is not inductive: it needs what has
  been spawned and begun at each place of `start()` (`StartIsAt`), that an end the
  code notices is one of the tree (`EndsAreReal`: no "clean" before the tree is
  gone, no URL from a spawn that failed, and on Windows no orphans, so that a closed
  wrapper is an empty Job), and that an immediate true was given only where nothing
  is or will be spawned (`ImmediateIsEmpty`). The refinement needs `CrashIsOnce`.
  One lemma per action, one step per conjunct.
- From `IInv`: `TrueIsProof`, which is `ProofHolds`.
- `DaemonImplementsLife`: every callback is the step that `DaemonLife` names, or
  none. `Start` is `Begin`; a refused spawn is `Fails`, or `Ends` after a `stop()`;
  `StartResolves` is `Starts`, `StartFails` is `Fails`, `CloseEvent` is `Dies`; a
  cleanup `Ends` or `Reports`.
- `StartupIsDaemon`: `DaemonStartup`, whatever is printed, takes only steps of
  `Daemon`; hence `StartupKeepsTheContract`.

and of the text that the daemon prints, for lines, tails and chunks of any length:

- `AscendingIs`, `AscendingIsOne`: a finite set of numbers is listed once, in order.
  Hence `PartsJoin`: the parts of two texts put together are those of the first and
  those of the second, save that the last of the first and the first of the second
  are one. Hence `PushSays`, what a chunk makes of a line under way.
- `SaysLinesHolds`. It needs `Streamed`, which says what the buffers hold: the line
  under way is the rest of the text since its last newline, and what was said is
  what the lines before it say.
- `UrlIsFoundHolds`. It needs `Searched`: until a URL is found the tail is the end of
  what was heard and has no URL in it. `TailSlides`: the end of the tail with a chunk
  is the end of all text with it. `UrlOfTail` and `UrlMissed`: a URL of the tail is
  one of the text, and one of the text that begins within the tail is in it. That
  there is a first URL is the well-foundedness of the order of the numbers.

and of `ProcessTree`, for any number of processes and births:

- `SparesStrangersHolds`, from the invariant `Ours` (`TreeIsOurs`): what is retained,
  recorded, listed or about to be signalled was started (`Dated`), and is, while it
  is that process, the daemon's or a stranger that was misread (`Adopted`); parents
  and children are both the daemon's or neither is (`Kin`); and until the daemon's
  number is another's, no stranger has it or is in its group (`Apart`).
- `ProofIsTrueHolds` and `RefusalTriedAllHolds`, from the invariant `Traceable`
  (`TreeIsTraced`): a living process of the daemon without a parent is retained or
  listed, or has escaped (`Orphans`); a child of one that the search has been at,
  older than the search, is retained or listed (`Walked`); what is retained and runs
  has been signalled or is about to be (`WaitIs`); and the group was looked at where
  it is the daemon's (`RootIs`, `GroupIs`). So no process outside `escaped` can be
  the first of its line when no retained one runs.

None of these assumes anything of the processes: what the code cannot promise is in
the statements, as `escaped` and `misread`. One lemma per action and invariant.

`ReleaseProofs` proves for any number of intake runs, commits, versions, kills and
reruns, whether or not the endpoint of a tag shows drafts:

- `Invariance`: `Spec => []Inv`. `PublishedIsReviewed` is not inductive: between the
  look at the repository and the publication other people push. The invariant says
  what main and its tags are like (`History`, `TagsAre`: versions never go back along
  main, and a commit of the automation has the tag of its version), what is public
  (`PublicAre`), what each run was prepared on (`RunsAre`), whose job writes and what
  (`WriterIs`), what it has seen, and that everything newer than what it saw is not
  of the automation (`Seen`), what it chose to release and that nothing public is
  newer (`Chosen`), and what its drafts are like (`DraftsAre`). One lemma per action.
- `PublishedIsReviewedHolds`, from `Inv`.
- `FeedGrowsHolds`: the commit of what is published is not older than that of
  anything public (`Chosen`), hence by `History` neither is its version.
- `RerunPublishesHolds`: while it looks, a run whose commit is main's tip and not yet
  public is never refused (`LooksOn`); writing, it is refused for a draft that was
  left and that the endpoint did not show (`WritesOn`).

The assumptions are the named ones on the constants (`LifecycleConstants`,
`DesktopConstants`, `AppImageConstants`, `DaemonConstants`, `UpdaterConstants`,
`ProStoreConstants`, `ProActivationConstants`, `ProActionsConstants`,
`OutputConstants`, `ProcessTreeConstants`, `BoundsAssumption`, `NamesAssumption`),
which TLC evaluates in the runs of their modules. They give the bounds their types, keep the value
"none" and the names of runs apart from the others, and say that a kept line has
room for a character; none of them bounds a set.

The inductive invariants were checked by TLC on the instances of the runs before
they were proved; they, `RetryAllowed` and `NoStaleShare` are not repeated in the
runs.

Every invariant and every action property of the runs is stated by a theorem, and
so is every refinement. Only model-checked: liveness (`CloseSettlesAll`,
`StartsAndDeathsAreTold`, `QuitCompletes`, `RecoveryRestores`, `NothingIsForever`,
`Settles`, `RetirementSettles`), because fairness and ENABLED are out of the
prover's reach.

## Not modelled, and the plan

Done: `Lifecycle`, `Daemon`, `Desktop`, `Updater`, `AppImage`, `ProStore`,
`ProActivation`, `ProActions`, `ProcessTree`, `DaemonOutput` with `DaemonStartup`,
`ReleaseCoordinator`, their abstract specifications, and the proofs above.

Left, with the reason:

- The Windows branch of `process-tree.js` (from line 258): a stop event signalled
  by a helper process, the closing of the Job, `taskkill`. `Daemon` has its answer
  and that a dead wrapper takes the Job along.
- The queue of native dialogs (`main.js:894`): a dialog that an owner awaits counts
  as shown once asked for. A report may in fact wait for a notice nobody closes;
  closing the app ends both.
- The startup of `main.js` before its menu is live and after its first boot, its
  menus and permissions; the launch arguments of the
  daemon; the launch fallbacks of the Windows installer, which in `Updater` are one
  launch that succeeds or fails.
- Navigation verdicts: pure, over URLs put together character by character.
  Interface scale, saved state, permissions, login environment: stateless, or one
  file.
- Releases: the scripts that build, the Linux repositories, the probes. They run in
  a straight line and nobody else changes what they read.

Nothing is left to prove of the safety properties that the runs check. A next step
would be the Windows branch of `process-tree.js`, with a proof like that of `Traceable`
whose sample is the Job.

Not planned: build and packaging configuration, test drivers, file and network
I/O in a straight line, wording of dialogs, logging, argument checks.
