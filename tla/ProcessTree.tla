------------------------------ MODULE ProcessTree ------------------------------
(***************************************************************************)
(* src/src/process-tree.js on Linux: the tracker that samples the daemon's  *)
(* descendants while it lives, and terminateProcessTree(), which signals    *)
(* them, waits, kills, waits again and answers whether the tree is proved    *)
(* gone; with src/src/daemon-bootstrap.cjs, which records pseudo-terminals   *)
(* in the ledger.                                                           *)
(*                                                                          *)
(* The processes are the environment: between any two steps they fork, leave *)
(* their groups, exit, are reaped, and their numbers are given to others.    *)
(* A step of the search reads one file of /proc; a signal is sent in a step  *)
(* after the one that checked whom it is for.                               *)
(***************************************************************************)
EXTENDS Naturals

CONSTANTS MaxPid,       \* bound: process IDs
          MaxBirths     \* bound: processes ever started

ASSUME ProcessTreeConstants == MaxPid \in Nat \ {0} /\ MaxBirths \in Nat \ {0}

Pids == 1..MaxPid
Root == 1               \* the daemon's
Births == 1..MaxBirths

\* What /proc says of a PID; "birth" is the kernel start time, parent 0 is init.
Process == [birth : 0..MaxBirths, parent : 0..MaxPid, group : 0..MaxPid,
            state : {"running", "zombie", "gone"}, owned : BOOLEAN]
NoProcess == [birth |-> 0, parent |-> 0, group |-> 0, state |-> "gone", owned |-> FALSE]

\* processIdentityKey()
Identity == [pid : Pids, birth : Births]

VARIABLES
    proc,       \* the process table
    births,     \* processes started
    ledger,     \* the identities the bootstrap recorded
    stage,      \* tracking; terminateProcessTree(): its beginning, two waits and answer
    at,         \* where it is in that stage
    known,      \* the retained identities
    seen,       \* visited: those whose children this search has listed
    listing,    \* the children listed and not yet read, each with who it was
    aim,        \* the identity just checked: to be listed, or to be signalled
    root,       \* rootIdentity, if it is not null
    groupOwned, \* originalGroupIsOwned
    signalled,  \* termSignalled and killSignalled
    todo,       \* the identities this pass has still to signal
    \* what the code cannot see, and the properties speak of
    sampled,    \* the processes started before the last search
    escaped,    \* those that lost their parent and were never read
    misread,    \* strangers whose number was another's when it was read
    strayed     \* a signal reached any other stranger

world == <<proc, births, ledger>>
search == <<known, seen, listing, sampled>>
stop == <<stage, at, aim, root, groupOwned, signalled, todo>>
ghosts == <<escaped, misread, strayed>>
treeVars == <<world, search, stop, ghosts>>

-----------------------------------------------------------------------------
Exists(p) == proc[p].state # "gone"
Runs(p) == proc[p].state = "running"
IdentityOf(p) == [pid |-> p, birth |-> proc[p].birth]

\* currentLinuxIdentity()
Current(id) == Exists(id.pid) /\ proc[id.pid].birth = id.birth

\* Mutant: whoever has the PID is taken for the process it was.
RunningByPid(id) == Runs(id.pid)

\* runningLinuxIdentity()
Running(id) == Current(id) /\ Runs(id.pid)

\* unixProcessGroupExists(): a zombie is still a member.
Group(g) == {p \in Pids : Exists(p) /\ proc[p].group = g}

Living == {p \in Pids : proc[p].owned /\ Runs(p)}
Children(p) == {c \in Pids : Exists(c) /\ proc[c].parent = p}

RootIdentity == [pid |-> Root, birth |-> 1]

\* Its group is the daemon's, whose number no one was given since.
InDaemonsGroup(p) == proc[p].group = Root /\ proc[Root].birth = 1

TreeInit ==
    /\ proc = [p \in Pids |-> IF p # Root THEN NoProcess
                               ELSE [NoProcess EXCEPT !.birth = 1, !.group = Root,
                                                 !.state = "running", !.owned = TRUE]]
    /\ births = 1 /\ ledger = {}
    /\ stage = "tracking" /\ at = "idle"
    /\ known = {RootIdentity} /\ seen = {} /\ listing = {} /\ aim = {}
    /\ root = {} /\ groupOwned = FALSE
    /\ signalled = [wait \in {"term", "kill"} |-> {}] /\ todo = {}
    /\ sampled = 1 /\ escaped = {} /\ misread = {} /\ strayed = FALSE

-----------------------------------------------------------------------------
(* The environment.                                                         *)

\* A number is free when no process and no process group has it.
Free(p) == ~Exists(p) /\ Group(p) = {}

Born(c, process) ==
    /\ births < MaxBirths /\ Free(c)
    /\ births' = births + 1
    /\ proc' = [proc EXCEPT ![c] = process]

\* Of the daemon's or a stranger, a process has children in its own group.
Fork(p, c) ==
    /\ Runs(p)
    /\ Born(c, [proc[p] EXCEPT !.birth = births', !.parent = p])
    /\ UNCHANGED <<ledger, search, stop, ghosts>>

\* setsid(), setpgid(): into a group of its own, or another of the daemon's processes.
\* The daemon leads its session and cannot.
ChangesGroup(p, g) ==
    /\ p \in Living \ {Root}
    /\ g = p \/ \E q \in Living : proc[q].group = g
    /\ proc' = [proc EXCEPT ![p].group = g]
    /\ UNCHANGED <<births, ledger, search, stop, ghosts>>

\* ownedPtySpawn(): the daemon records a child of its own, unless it dies first.
Records(c) ==
    /\ Current(RootIdentity) /\ Runs(Root)
    /\ Exists(c) /\ proc[c].parent = Root
    /\ ledger' = ledger \cup {IdentityOf(c)}
    /\ UNCHANGED <<proc, births, search, stop, ghosts>>

\* A process that is not the daemon's starts.  If the number was a pseudo-terminal's,
\* it may be the stranger's start time that the daemon reads and records.
Stranger(p) ==
    /\ Born(p, [birth |-> births', parent |-> 0, group |-> p,
                 state |-> "running", owned |-> FALSE])
    /\ \/ UNCHANGED <<ledger, misread>>
       \/ /\ Current(RootIdentity) /\ Runs(Root) /\ proc[p].parent = Root
          /\ ledger' = ledger \cup {[pid |-> p, birth |-> births']}
          /\ misread' = misread \cup {births'}
    /\ UNCHANGED <<search, stop, escaped, strayed>>

\* Nothing the code knows leads to this process but its parent.
Unread(c) == IdentityOf(c) \notin known /\ \A entry \in listing : entry # IdentityOf(c)

\* A process exits, for a signal or of itself; its children lose their parent.
Exits(p) ==
    /\ Runs(p)
    /\ proc' = [q \in Pids |->
                  IF q = p THEN [proc[q] EXCEPT !.state = "zombie"]
                  ELSE IF proc[q].parent = p THEN [proc[q] EXCEPT !.parent = 0] ELSE proc[q]]
    /\ escaped' = escaped \cup {proc[c].birth : c \in {q \in Children(p) \cap Living : Unread(q)}}
    /\ UNCHANGED <<births, ledger, search, stop, misread, strayed>>

\* The daemon is Electron's child, and is reaped where its event loop runs.
Reaped(p) ==
    /\ proc[p].state = "zombie"
    /\ IdentityOf(p) = RootIdentity => at \in {"idle", "delay"}
    /\ proc' = [proc EXCEPT ![p].state = "gone", ![p].group = 0]
    /\ UNCHANGED <<births, ledger, search, stop, ghosts>>

-----------------------------------------------------------------------------
(* Sampling: rememberLinuxLedger(), then rememberLinuxDescendants().        *)

Searching == at = "walk" /\ listing = {}
Goes(place) == at' = place /\ UNCHANGED stage

\* A record counts while its process is that one.  (A record that is read later than
\* another is of a process that has had longer to exit, as it may exit at once.)
FromLedger == {id \in ledger : Current(id)}

ReadLedger ==
    /\ at = "ledger" /\ Goes("walk")
    /\ known' = known \cup FromLedger /\ seen' = {} /\ listing' = {}
    /\ sampled' = births
    /\ escaped' = escaped \ {id.birth : id \in FromLedger}
    /\ UNCHANGED <<world, aim, root, groupOwned, signalled, todo, misread, strayed>>

\* The search: each identity retained is visited once; if its process is still there,
Looks(id) ==
    /\ Searching
    /\ id \in known \ seen
    /\ seen' = seen \cup {id}
    /\ IF Current(id) THEN aim' = {id} /\ Goes("list") ELSE UNCHANGED <<aim, stage, at>>
    /\ UNCHANGED <<world, known, listing, sampled, root, groupOwned, signalled, todo, ghosts>>

\* linuxChildPids(): the numbers of its children are listed, whoever has its own by now,
Lists ==
    /\ at = "list" /\ Goes("walk")
    /\ \E id \in aim :
         listing' = {[IdentityOf(c) EXCEPT !.birth =
                        IF Current(id) /\ id.birth \notin misread THEN @ ELSE 0] :
                      c \in Children(id.pid)}
    /\ aim' = {}
    /\ UNCHANGED <<world, known, seen, sampled, root, groupOwned, signalled, todo, ghosts>>

\* and each is read, whoever has it by now, and retained.
Reads(entry) ==
    /\ at = "walk" /\ entry \in listing
    /\ listing' = listing \ {entry}
    /\ LET p == entry.pid
           read == IF Exists(p) THEN {proc[p].birth} ELSE {}
       IN  /\ known' = known \cup {[pid |-> p, birth |-> b] : b \in read}
           /\ escaped' = escaped \ read
           /\ misread' = misread \cup {b \in read : ~proc[p].owned /\ b # entry.birth}
    /\ UNCHANGED <<world, seen, sampled, stop, strayed>>

\* At the end what does not run is dropped.  (What is dropped could have exited a
\* moment after it was checked; what exits a moment later is checked again.)
Found == Searching /\ known \subseteq seen
Kept == {id \in known : Running(id)}

Keeps ==
    /\ known' = Kept /\ seen' = {}
    /\ UNCHANGED <<world, listing, sampled, aim, escaped, strayed>>

\* LinuxProcessTreeTracker: its timer.
Capture ==
    /\ stage = "tracking" /\ at = "idle" /\ Goes("ledger")
    /\ UNCHANGED <<world, search, aim, root, groupOwned, signalled, todo, ghosts>>

Captured ==
    /\ stage = "tracking" /\ Found /\ Goes("idle")
    /\ Keeps
    /\ UNCHANGED <<root, groupOwned, signalled, todo, misread>>

-----------------------------------------------------------------------------
(* terminateProcessTree()                                                   *)

\* tracker.stop(): one more sample.
Terminate ==
    /\ stage = "tracking" /\ at = "idle"
    /\ stage' = "stopping" /\ at' = "ledger"
    /\ UNCHANGED <<world, search, aim, root, groupOwned, signalled, todo, ghosts>>

\* The root as that sample has it, or whoever has its number now; then another sample.
Retains ==
    /\ stage = "stopping" /\ Found
    /\ LET retained == {id \in Kept : id.pid = Root}
           current == IF retained = {} /\ Exists(Root) THEN {IdentityOf(Root)} ELSE {}
       IN  /\ root' = retained \cup current
           /\ known' = Kept \cup current
           /\ misread' = misread \cup {id.birth : id \in {i \in current : ~proc[Root].owned}}
           /\ escaped' = escaped \ {id.birth : id \in current}
    /\ stage' = "begun" /\ at' = "ledger"
    /\ seen' = {}
    /\ UNCHANGED <<world, listing, sampled, aim, groupOwned, signalled, todo, strayed>>

Begins ==
    /\ stage = "begun" /\ Found
    /\ Keeps
    /\ groupOwned' = (\E id \in root : Current(id))
    /\ stage' = "term" /\ at' = "group"
    /\ UNCHANGED <<root, signalled, todo, misread>>

In(place) == stage \in {"term", "kill"} /\ at = place

\* killTree(): the group is signalled, whoever is in it now.
SignalGroup ==
    /\ In("group") /\ Goes("ledger")
    /\ LET strangers == {proc[p].birth : p \in {q \in Group(Root) : groupOwned /\ ~proc[q].owned}}
       IN  IF Current(RootIdentity)
           THEN strayed' = (strayed \/ ~(strangers \subseteq misread)) /\ UNCHANGED misread
           ELSE misread' = misread \cup strangers /\ UNCHANGED strayed
    /\ UNCHANGED <<world, search, aim, root, groupOwned, signalled, todo, escaped>>

\* Mutant: a process that had SIGTERM is not signalled again.
PassSignalsNew ==
    /\ In("walk") /\ Found /\ Goes("signal")
    /\ Keeps
    /\ todo' = known' \ (signalled["term"] \cup signalled["kill"])
    /\ UNCHANGED <<root, groupOwned, signalled, misread>>

\* signalNewIdentities() has sampled again,
PassSignals ==
    /\ In("walk") /\ Found /\ Goes("signal")
    /\ Keeps
    /\ todo' = known' \ signalled[stage]
    /\ UNCHANGED <<root, groupOwned, signalled, misread>>

\* checks each identity once
Checks(id) ==
    /\ In("signal") /\ aim = {}
    /\ id \in todo
    /\ todo' = todo \ {id}
    /\ IF Running(id)
       THEN /\ signalled' = [signalled EXCEPT ![stage] = @ \cup {id}]
            /\ aim' = {IdentityOf(id.pid)}
       ELSE UNCHANGED <<signalled, aim>>
    /\ UNCHANGED <<world, search, stage, at, root, groupOwned, ghosts>>

\* and signals its number, whoever has that by now.
Kill ==
    /\ In("signal") /\ aim # {}
    /\ aim' = {}
    /\ LET strangers == {proc[id.pid].birth :
                            id \in {i \in aim : Exists(i.pid) /\ ~proc[i.pid].owned}}
       IN  IF \A id \in aim : Current(id)
           THEN strayed' = (strayed \/ ~(strangers \subseteq misread)) /\ UNCHANGED misread
           ELSE misread' = misread \cup strangers /\ UNCHANGED strayed
    /\ UNCHANGED <<world, search, stage, at, root, groupOwned, signalled, todo, escaped>>

\* The pass is over.  The first of a wait is followed by another at once; here any
\* pass may be.
SignalledAll ==
    /\ In("signal") /\ todo = {} /\ aim = {}
    /\ Goes("ledger") \/ Goes("look")
    /\ UNCHANGED <<world, search, aim, root, groupOwned, signalled, todo, ghosts>>

\* unidentifiedRootExists(): a live PID nobody could identify is no proof.
UnidentifiedRoot == root = {} /\ (Exists(Root) \/ Group(Root) # {})

\* Mutant: only the identities count.
TreeByIdentity == at = "last" /\ \E id \in known : Running(id)

\* treeExists(): it looks at the root and its group, and last at the identities.
TreeExists ==
    \/ at = "look" /\ (UnidentifiedRoot \/ (groupOwned /\ Group(Root) # {}))
    \/ at = "last" /\ \E id \in known : Running(id)

LooksOn ==
    /\ In("look") /\ ~TreeExists
    /\ Goes("last")
    /\ UNCHANGED <<world, search, aim, root, groupOwned, signalled, todo, ghosts>>

\* waitUntil(): the tree is gone, or the poll goes on, or its deadline has passed.
LooksGone ==
    /\ In("last") /\ ~TreeExists
    /\ stage' = "true" /\ at' = "answered"
    /\ UNCHANGED <<world, search, aim, root, groupOwned, signalled, todo, ghosts>>

Delays ==
    /\ stage \in {"term", "kill"} /\ TreeExists
    /\ Goes("delay")
    /\ UNCHANGED <<world, search, aim, root, groupOwned, signalled, todo, ghosts>>

PollsAgain ==
    /\ In("delay") /\ Goes("ledger")
    /\ UNCHANGED <<world, search, aim, root, groupOwned, signalled, todo, ghosts>>

TimesOut ==
    /\ stage \in {"term", "kill"} /\ TreeExists
    /\ IF stage = "term" THEN stage' = "kill" /\ at' = "group"
                         ELSE stage' = "false" /\ at' = "answered"
    /\ UNCHANGED <<world, search, aim, root, groupOwned, signalled, todo, ghosts>>

\* What happens after the answer is nobody's concern.
Environment ==
    /\ at # "answered"
    /\ \/ \E p, q \in Pids : Fork(p, q) \/ ChangesGroup(p, q)
       \/ \E p \in Pids : Records(p) \/ Stranger(p) \/ Exits(p) \/ Reaped(p)

Sampling ==
    \/ ReadLedger \/ Lists
    \/ \E id \in known : Looks(id)
    \/ \E entry \in listing : Reads(entry)

Termination ==
    \/ Capture \/ Captured \/ Terminate \/ Retains \/ Begins
    \/ SignalGroup \/ PassSignals \/ (\E id \in todo : Checks(id)) \/ Kill \/ SignalledAll
    \/ LooksOn \/ LooksGone \/ Delays \/ PollsAgain \/ TimesOut

TreeNext == Environment \/ Sampling \/ Termination

TreeSpec == TreeInit /\ [][TreeNext]_treeVars

-----------------------------------------------------------------------------
(* Properties.                                                              *)

TreeTypeOK ==
    /\ proc \in [Pids -> Process]
    /\ births \in Births /\ sampled \in Births /\ ledger \subseteq Identity
    /\ stage \in {"tracking", "stopping", "begun", "term", "kill", "true", "false"}
    /\ at \in {"idle", "ledger", "walk", "list", "group", "signal", "look", "last", "delay",
                "answered"}
    /\ known \subseteq Identity /\ seen \subseteq known
    /\ listing \subseteq [pid : Pids, birth : 0..MaxBirths]
    /\ aim \subseteq Identity /\ root \subseteq Identity
    /\ groupOwned \in BOOLEAN /\ strayed \in BOOLEAN
    /\ signalled \in [{"term", "kill"} -> SUBSET Identity] /\ todo \subseteq Identity
    /\ escaped \subseteq Births /\ misread \subseteq Births

\* No signal reaches a process that is not the daemon's, but one whose number was
\* another's at a step before: when it was listed and then read, when it was checked
\* and then signalled, or when the daemon, reaped meanwhile, was looked for by it or
\* its group was signalled; and what such a stranger starts.
SparesStrangers == TreeTypeOK /\ ~strayed

\* true is a proof of two things: the daemon's group is empty, and whatever else runs
\* of the daemon's is, or comes of, a process that lost its parent before any sample
\* had read it.
ProofIsTrue ==
    [][stage' = "true" =>
         \A p \in Living : /\ ~InDaemonsGroup(p)
                           /\ proc[p].parent = 0 => proc[p].birth \in escaped]_treeVars

\* false is not answered lightly: what was started before the last sample, and still
\* runs, has itself had SIGKILL, unless it is, or comes of, such a process.
RefusalTriedAll ==
    [][stage' = "false" /\ stage # "false" =>
         \A p \in Living :
            /\ proc[p].birth <= sampled
            /\ IF proc[p].parent = 0 THEN proc[p].birth \notin escaped
                                     ELSE IdentityOf(proc[p].parent) \in known
            => IdentityOf(p) \in signalled["kill"]]_treeVars

\* What the code's comments say without those exemptions (the README shows where each
\* fails).  "true only after clean tree termination is proven" (process-tree.js:252):
\* nothing of the daemon's runs when true is answered.
NothingLives == [][stage' = "true" => Living = {}]_treeVars

\* "retaining the pair guards a later cleanup against signalling an unrelated process
\* that reused an exited child's PID" (process-tree.js:29-30): each signal sent to one
\* process reaches a process of the daemon, or nobody.
SignalsOnlyOurs ==
    [][Kill => \A id \in aim : Exists(id.pid) => proc[id.pid].owned]_treeVars
==============================================================================
