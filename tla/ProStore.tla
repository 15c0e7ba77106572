------------------------------- MODULE ProStore -------------------------------
(***************************************************************************)
(* src/src/pro-store.js: one encrypted file with the license key and the    *)
(* pending activation, replaced by way of temporary files.                  *)
(*                                                                          *)
(* One action is one file system call that changes the disk, because the    *)
(* process may be killed or lose power between any two and each may fail.   *)
(* A directory shows every change at once, and a power loss may undo those  *)
(* made since its last sync, from the last one backwards.  Contents that    *)
(* were written and not synced may be lost with the power.                  *)
(***************************************************************************)
EXTENDS FiniteSets

CONSTANTS Keys, Pendings,   \* license keys and pending activations
          Files,            \* bound: files that exist at a time
          Calls,            \* calls of the store's methods
          None

\* What a call came to: its value, inspect()'s "there is something", an error,
\* and the error "durability-uncertain".
Outcomes == {"done", "present", "failed", "uncertain"}

ASSUME ProStoreConstants == None \notin Keys \cup Pendings \cup Files \cup Outcomes

Contents == [key : Keys \cup {None}, pending : Pendings \cup {None}]
Absent == [key |-> None, pending |-> None]
Torn == [key |-> "torn", pending |-> "torn"]
Unknown == [key |-> "unknown", pending |-> "unknown"]

\* validateEnvelope(): there is something in it.
Envelopes == Contents \ {Absent}

Directory == [record : Files \cup {None}, temps : SUBSET Files]
Empty == [record |-> None, temps |-> {}]

\* Where a call is; it removed no temporary file yet in "tidying", and some in
\* "clearing".
Stages == {"starting", "opening", "syncing", "anchoring", "tidying", "clearing", "flushing",
           "creating", "writing", "sealing", "renaming", "confirming", "abandoning",
           "abandoned", "reading", "unlinking", "looking"}

VARIABLES
    entry,      \* the store's directory in userData
    dir,        \* what is in it
    possible,   \* what a power loss may leave in it
    files,      \* the contents of each file
    expired,    \* pending activations whose time has come
    pc,         \* per call, the file system call it makes next
    call,       \* per call, the method and its locals
    outcome,    \* what the last call to settle came to
    told        \* what the last answer said the store holds

disk == <<entry, dir, possible, files>>
calls == <<pc, call, outcome>>
vars == <<disk, expired, calls, told>>

Call == [goal : {"none", "load", "save", "remove", "inspect"},  \* the method
         does : {"none", "load", "save", "remove", "inspect"},  \* what load() turned to
         target : Contents, temp : Files \cup {None}, before : SUBSET (Contents \cup {Torn})]
NoCall == [goal |-> "none", does |-> "none", target |-> Absent, temp |-> None, before |-> {}]

\* What a reader finds in a directory.
Content(d) ==
    IF d.record = None THEN Absent
    ELSE IF files[d.record].data = "durable" THEN files[d.record].content ELSE Torn

Surviving == possible \cup IF entry = "durable" THEN {} ELSE {Empty}
MayHold == {Content(d) : d \in Surviving}

TypeOK ==
    /\ entry \in {"absent", "visible", "durable"}
    /\ dir \in Directory
    /\ possible \subseteq Directory /\ dir \in possible
    /\ files \in [Files -> [data : {"partial", "cached", "durable"}, content : Contents]]
    /\ expired \subseteq Pendings
    /\ pc \in [Calls -> {"idle"} \cup Stages]
    /\ outcome \in Outcomes \cup {None}
    /\ call \in [Calls -> Call]
    /\ told \in Contents \cup {Unknown}
    /\ \A c \in Calls : pc[c] = "idle" <=> call[c].goal = "none"
    /\ \A c \in Calls :
         pc[c] \in {"writing", "sealing", "renaming", "abandoning"} => call[c].temp \in dir.temps

Init ==
    /\ entry = "absent" /\ dir = Empty /\ possible = {Empty}
    /\ files = [f \in Files |-> [data |-> "partial", content |-> Absent]]
    /\ expired = {}
    /\ pc = [c \in Calls |-> "idle"]
    /\ call = [c \in Calls |-> NoCall]
    /\ outcome = None
    /\ told = Unknown

-----------------------------------------------------------------------------
(* The disk.                                                                *)

Shows(d) == dir' = d /\ possible' = possible \cup {d}

\* confirmDirectoryDurability()
Syncs == possible' = {dir} /\ UNCHANGED dir

Goes(c, stage) == pc' = [pc EXCEPT ![c] = stage] /\ UNCHANGED <<call, outcome>>
Ends(c, as) ==
    /\ pc' = [pc EXCEPT ![c] = "idle"]
    /\ call' = [call EXCEPT ![c] = NoCall]
    /\ outcome' = as

Does(c, does, target, stage) ==
    /\ pc' = [pc EXCEPT ![c] = stage]
    /\ call' = [call EXCEPT ![c].does = does, ![c].target = target]
    /\ UNCHANGED outcome

\* serialize(): a call begins when the one before has settled.
MayBegin == \A c \in Calls : pc[c] = "idle"

Begins(c, goal, target, stage) ==
    /\ pc[c] = "idle" /\ MayBegin
    /\ pc' = [pc EXCEPT ![c] = stage]
    /\ call' = [call EXCEPT ![c] = [NoCall EXCEPT !.goal = goal, !.does = goal,
                                                  !.target = target, !.before = MayHold]]
    /\ outcome' = None
    /\ UNCHANGED <<disk, expired, told>>

\* saveRaw() takes no pending activation that has expired.
Save(c) ==
    \E envelope \in Envelopes :
       envelope.pending \notin expired /\ Begins(c, "save", envelope, "opening")

Load(c) == Begins(c, "load", Absent, "starting")
Remove(c) == Begins(c, "remove", Absent, "starting")
Inspect(c) == Begins(c, "inspect", Absent, "starting")

-----------------------------------------------------------------------------
(* The directory.                                                           *)

\* openDirectory(false)
Start(c) ==
    /\ pc[c] = "starting"
    /\ IF entry = "absent" THEN Ends(c, "done") /\ told' = Absent
       ELSE /\ Goes(c, IF call[c].does = "inspect" THEN "looking" ELSE "tidying")
            /\ UNCHANGED told
    /\ UNCHANGED <<disk, expired>>

\* Mutant: a directory that exists is taken to be durable.
MakeDirectoryOnce(c) ==
    /\ pc[c] = "opening"
    /\ IF entry = "absent"
       THEN entry' = "visible" /\ (Goes(c, "syncing") \/ Ends(c, "failed"))
       ELSE UNCHANGED entry /\ Goes(c, "tidying")
    /\ UNCHANGED <<dir, possible, files, expired, told>>

\* openDirectory(true): mkdir, and chmod of what it made.
MakeDirectory(c) ==
    /\ pc[c] = "opening"
    /\ IF entry = "absent"
       THEN entry' = "visible" /\ (Goes(c, "syncing") \/ Ends(c, "failed"))
       ELSE UNCHANGED entry /\ Goes(c, "syncing")
    /\ UNCHANGED <<dir, possible, files, expired, told>>

SyncDirectory(c) ==
    /\ pc[c] = "syncing"
    /\ Syncs
    /\ Goes(c, "anchoring")
    /\ UNCHANGED <<entry, files, expired, told>>

\* syncUserDataParent(); the target is one that can be replaced.
SyncParent(c) ==
    /\ pc[c] = "anchoring"
    /\ entry' = "durable"
    /\ Goes(c, "tidying")
    /\ UNCHANGED <<dir, possible, files, expired, told>>

-----------------------------------------------------------------------------
(* cleanupTemporaryFiles().                                                 *)

Tidying(c) == pc[c] \in {"tidying", "clearing"}

UnlinkTemp(c) ==
    /\ Tidying(c)
    /\ \E f \in dir.temps : Shows([dir EXCEPT !.temps = @ \ {f}])
    /\ Goes(c, "clearing")
    /\ UNCHANGED <<entry, files, expired, told>>

\* Once they are gone: remove() is done if there was no record.
NothingToRemove(c) == call[c].does = "remove" /\ dir.record = None
AfterTidying(c) ==
    CASE call[c].does = "save" -> "creating"
      [] call[c].does = "load" -> "reading"
      [] OTHER -> "unlinking"

\* load(), and a remove() without a record, sync even if nothing was removed.
MustFlush(c) == pc[c] = "clearing" \/ call[c].does = "load" \/ NothingToRemove(c)

Tidied(c) ==
    /\ Tidying(c)
    /\ dir.temps = {}
    /\ IF MustFlush(c) THEN Goes(c, "flushing") /\ UNCHANGED told
       ELSE IF NothingToRemove(c) THEN Ends(c, "done") /\ told' = Absent
       ELSE Goes(c, AfterTidying(c)) /\ UNCHANGED told
    /\ UNCHANGED <<disk, expired>>

Flush(c) ==
    /\ pc[c] = "flushing"
    /\ Syncs
    /\ IF NothingToRemove(c) THEN Ends(c, "done") /\ told' = Absent
       ELSE Goes(c, AfterTidying(c)) /\ UNCHANGED told
    /\ UNCHANGED <<entry, files, expired>>

\* An unlink fails; those before it are confirmed, or not.
TidyFails(c) ==
    /\ Tidying(c)
    /\ CASE pc[c] = "tidying" -> Ends(c, "failed") /\ UNCHANGED <<dir, possible>>
         [] OTHER -> \/ Syncs /\ Ends(c, "failed")
                     \/ Ends(c, "uncertain") /\ UNCHANGED <<dir, possible>>
    /\ UNCHANGED <<entry, files, expired, told>>

-----------------------------------------------------------------------------
(* replaceCiphertext().                                                     *)

Free(f) == \A d \in possible : f # d.record /\ f \notin d.temps

CreateTemp(c) ==
    /\ pc[c] = "creating"
    /\ \E f \in Files :
         /\ Free(f)
         /\ Shows([dir EXCEPT !.temps = @ \cup {f}])
         /\ files' = [files EXCEPT ![f] = [data |-> "partial", content |-> call[c].target]]
         /\ call' = [call EXCEPT ![c].temp = f]
    /\ \E stage \in {"writing", "abandoning"} : pc' = [pc EXCEPT ![c] = stage]
    /\ UNCHANGED <<entry, expired, outcome, told>>

WriteTemp(c) ==
    /\ pc[c] = "writing"
    /\ files' = [files EXCEPT ![call[c].temp].data = "cached"]
    /\ Goes(c, "sealing")
    /\ UNCHANGED <<entry, dir, possible, expired, told>>

\* Mutant: the temporary file is not synced.
SealTempNot(c) ==
    /\ pc[c] = "sealing"
    /\ Goes(c, "renaming")
    /\ UNCHANGED <<disk, expired, told>>

SealTemp(c) ==
    /\ pc[c] = "sealing"
    /\ files' = [files EXCEPT ![call[c].temp].data = "durable"]
    /\ Goes(c, "renaming")
    /\ UNCHANGED <<entry, dir, possible, expired, told>>

Rename(c) ==
    /\ pc[c] = "renaming"
    /\ call[c].temp \in dir.temps
    /\ Shows([record |-> call[c].temp, temps |-> dir.temps \ {call[c].temp}])
    /\ told' = Unknown
    /\ Goes(c, "confirming")
    /\ UNCHANGED <<entry, files, expired>>

\* Mutant: a sync that fails after the record changed is a failure as any other.
ConfirmFailsPlainly(c) ==
    /\ pc[c] \in {"confirming", "flushing"}
    /\ Ends(c, "failed")
    /\ UNCHANGED <<disk, expired, told>>

ConfirmFails(c) ==
    /\ pc[c] \in {"confirming", "flushing"}
    /\ Ends(c, "uncertain")
    /\ UNCHANGED <<disk, expired, told>>

\* The sync after a rename, or after the removal of the record.
Confirm(c) ==
    /\ pc[c] = "confirming"
    /\ Syncs
    /\ told' = call[c].target
    /\ Ends(c, "done")
    /\ UNCHANGED <<entry, files, expired>>

\* A write, a sync or the rename fails, or the target was found unsafe.
WriteFails(c) ==
    /\ pc[c] \in {"writing", "sealing", "renaming"}
    /\ Goes(c, "abandoning")
    /\ UNCHANGED <<disk, expired, told>>

UnlinkOwnTemp(c) ==
    /\ pc[c] = "abandoning"
    /\ IF call[c].temp \in dir.temps
       THEN \/ Shows([dir EXCEPT !.temps = @ \ {call[c].temp}]) /\ Goes(c, "abandoned")
            \/ Ends(c, "uncertain") /\ UNCHANGED <<dir, possible>>
       ELSE Ends(c, "failed") /\ UNCHANGED <<dir, possible>>
    /\ UNCHANGED <<entry, files, expired, told>>

Abandoned(c) ==
    /\ pc[c] = "abandoned"
    /\ \/ Syncs /\ Ends(c, "failed")
       \/ Ends(c, "uncertain") /\ UNCHANGED <<dir, possible>>
    /\ UNCHANGED <<entry, files, expired, told>>

-----------------------------------------------------------------------------
(* load(), remove() and inspect().                                          *)

\* What load() leaves of a record whose activation has expired.
Unexpired(content) == [content EXCEPT !.pending = None]

\* The record is decrypted.  It is kept, encrypted again for a new key of the
\* keyring, or relieved of an activation that has expired.
Read(c) ==
    /\ pc[c] = "reading"
    /\ LET content == Content(dir) IN
       /\ content # Torn
       /\ CASE content.pending \in expired ->
                 /\ IF Unexpired(content) # Absent
                    THEN Does(c, "save", Unexpired(content), "opening")
                    ELSE Does(c, "remove", Absent, "starting")
                 /\ UNCHANGED told
            [] OTHER ->
                 \/ Ends(c, "done") /\ told' = content
                 \/ /\ content # Absent
                    /\ Does(c, "save", content, "opening")
                    /\ UNCHANGED told
    /\ UNCHANGED <<disk, expired>>

UnlinkRecord(c) ==
    /\ pc[c] = "unlinking"
    /\ Shows([dir EXCEPT !.record = None])
    /\ told' = Unknown
    /\ Goes(c, "confirming")
    /\ UNCHANGED <<entry, files, expired>>

Look(c) ==
    /\ pc[c] = "looking"
    /\ Syncs
    /\ IF dir # Empty THEN Ends(c, "present") /\ UNCHANGED told
       ELSE Ends(c, "done") /\ told' = Absent
    /\ UNCHANGED <<entry, files, expired>>

LookFails(c) ==
    /\ pc[c] = "looking"
    /\ Ends(c, "uncertain")
    /\ UNCHANGED <<disk, expired, told>>

\* Everything else that throws: the keyring, an unsafe directory or file, a
\* record that cannot be read, a call that fails before it changed anything.
Fails(c) ==
    /\ pc[c] \in {"starting", "opening", "syncing", "anchoring", "creating", "reading",
                  "unlinking", "looking"}
    /\ Ends(c, "failed")
    /\ UNCHANGED <<disk, expired, told>>

-----------------------------------------------------------------------------
(* The world.                                                               *)

Expires == \E p \in Pendings \ expired : expired' = expired \cup {p}
           /\ UNCHANGED <<disk, calls, told>>

\* The process dies, and starts anew.
Restarts ==
    /\ pc' = [c \in Calls |-> "idle"]
    /\ call' = [c \in Calls |-> NoCall]
    /\ outcome' = None

Killed == Restarts /\ UNCHANGED <<disk, expired, told>>

PowerLost ==
    /\ Restarts
    /\ \/ /\ dir' \in possible
          /\ entry' = IF entry = "visible" THEN "durable" ELSE entry
       \/ entry = "visible" /\ dir' = Empty /\ entry' = "absent"
    /\ possible' = {dir'}
    /\ files' = [f \in Files |-> IF files[f].data = "cached"
                                 THEN [files[f] EXCEPT !.data = "partial"] ELSE files[f]]
    /\ UNCHANGED <<expired, told>>

-----------------------------------------------------------------------------

Begin(c) == Save(c) \/ Load(c) \/ Remove(c) \/ Inspect(c)
Opens(c) == Start(c) \/ MakeDirectory(c) \/ SyncDirectory(c) \/ SyncParent(c)
Tidies(c) == UnlinkTemp(c) \/ Tidied(c) \/ Flush(c) \/ TidyFails(c)
Replaces(c) == CreateTemp(c) \/ WriteTemp(c) \/ SealTemp(c) \/ Rename(c)
Settles(c) == Confirm(c) \/ ConfirmFails(c) \/ WriteFails(c) \/ UnlinkOwnTemp(c) \/ Abandoned(c)
Reads(c) == Read(c) \/ UnlinkRecord(c) \/ Look(c) \/ LookFails(c) \/ Fails(c)
Steps(c) == Opens(c) \/ Tidies(c) \/ Replaces(c) \/ Settles(c) \/ Reads(c)

Next == Expires \/ Killed \/ PowerLost \/ \E c \in Calls : Begin(c) \/ Steps(c)

Spec == Init /\ [][Next]_vars

-----------------------------------------------------------------------------
(* Properties.                                                              *)

\* What a caller was told the store holds, by save(), load(), remove() or
\* inspect(), is what any crash leaves, until a later call changes the record.
\* main.js takes a readback for "the authority" (main.js:358) after an error:
\* load() and inspect() confirm what an earlier call could not.
ToldIsDurable == TypeOK /\ (told # Unknown => MayHold = {told})

\* A call that succeeds leaves no other ciphertext behind that a crash could
\* bring back: "recovery and removal clear every reserved temporary ciphertext"
\* (test/pro-store.test.js:601).
Settled(c) == pc[c] # "idle" /\ pc'[c] = "idle"
AnswersAreTidy ==
    [][\A c \in Calls : Settled(c) /\ outcome' = "done" =>
         \A d \in possible' : d.temps = {}]_vars

\* "could not be updated" and "changed, but durable storage could not be
\* confirmed" are different errors (pro-store.js:48-54): after any but the latter
\* the record is what it was, also after a crash.
PlainFailureKeeps ==
    [][\A c \in Calls : Settled(c) /\ outcome' = "failed" =>
         MayHold' \subseteq call[c].before]_vars

\* A load changes nothing but an activation that has expired; in particular it
\* never costs the user the license key.
LoadKeepsKey ==
    [][\A c \in Calls : call[c].goal = "load" /\ (pc'[c] # "idle" \/ outcome' # None) =>
         Content(dir)' = Content(dir)
         \/ /\ Content(dir).pending \in expired
            /\ Content(dir)' = [Content(dir) EXCEPT !.pending = None]]_vars

\* An answer means what its error or its success says.
AnswersHold == AnswersAreTidy /\ PlainFailureKeeps /\ LoadKeepsKey

\* The store is a durable cell.
Cell == INSTANCE DurableCell WITH now <- Content(dir), may <- MayHold
ImplementsCell == Cell!CellSpec
==============================================================================
