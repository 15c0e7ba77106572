----------------------------- MODULE ProStoreProofs -----------------------------
(***************************************************************************)
(* Proofs about ProStore.tla, for any keys, activations, files and calls:   *)
(* what an answer of the store says is durable and means what it says, and  *)
(* the store is the cell of DurableCell.tla.                                *)
(***************************************************************************)
EXTENDS ProStore, TLAPS

\* serialize(): one call at a time.
OneCall == \A c, d \in Calls : pc[c] # "idle" /\ pc[d] # "idle" => c = d

\* Before the directory is durable nothing is in it; and every record that a power
\* loss may leave was synced before it was renamed.
DiskIsWhole ==
    /\ entry # "durable" => possible = {Empty}
    /\ \A d \in possible : d.record # None => files[d.record].data = "durable"

\* The method that is at each file system call; save() has made the directory
\* durable before it writes.
MethodIsAt(c) ==
    /\ pc[c] \in {"opening", "syncing", "anchoring", "creating", "writing", "sealing",
                  "renaming", "abandoning", "abandoned"} => call[c].does = "save"
    /\ pc[c] \in {"tidying", "clearing", "flushing"} =>
         call[c].does \in {"save", "load", "remove"}
    /\ pc[c] = "reading" => call[c].does = "load"
    /\ pc[c] = "unlinking" => call[c].does = "remove"
    /\ pc[c] = "confirming" => call[c].does \in {"save", "remove"}
    /\ pc[c] = "starting" => call[c].does \in {"load", "remove", "inspect"}
    /\ call[c].does = "save" /\ pc[c] \notin {"idle", "opening", "syncing", "anchoring"} =>
         entry = "durable"

\* The temporary files while a call is at it: none once they were cleaned up, then
\* its own, which no record is and which is whole before it is renamed.
TempsAre(c) ==
    /\ pc[c] \in {"flushing", "creating", "reading", "unlinking", "confirming"} =>
         dir.temps = {}
    /\ pc[c] \in {"writing", "sealing", "renaming", "abandoning"} =>
         /\ call[c].temp \in Files /\ dir.temps = {call[c].temp}
         /\ \A d \in possible : d.record # call[c].temp
    /\ pc[c] \in {"writing", "sealing", "renaming"} =>
         files[call[c].temp].content = call[c].target
    /\ pc[c] = "renaming" => files[call[c].temp].data = "durable"
    /\ pc[c] = "reading" => possible = {dir}

\* What the record is to become; load() has its reasons from the record itself.
TargetIs(c) ==
    /\ pc[c] # "idle" /\ call[c].does = "remove" => call[c].target = Absent
    /\ pc[c] = "confirming" => Content(dir) = call[c].target
    /\ call[c].goal = "load" /\ call[c].does \in {"save", "remove"}
         /\ pc[c] \notin {"idle", "confirming"} =>
         \/ call[c].target = Content(dir) /\ call[c].does = "save"
         \/ /\ Content(dir).pending \in expired
            /\ call[c].target = Unexpired(Content(dir))

\* Until the record changes, a crash leaves nothing that it might not have left
\* when the call began.
BeforeHolds(c) == pc[c] \notin {"idle", "confirming"} => MayHold \subseteq call[c].before

CallIsAt(c) == MethodIsAt(c) /\ TempsAre(c) /\ TargetIs(c) /\ BeforeHolds(c)

\* What a caller was told is all that a power loss may leave.
ToldHolds == told # Unknown => MayHold = {told}

\* The inductive invariant.
IInv ==
    /\ TypeOK /\ OneCall /\ DiskIsWhole /\ ToldHolds
    /\ \A c \in Calls : CallIsAt(c)

-----------------------------------------------------------------------------
(* The parts of TypeOK, and what the helpers do.                            *)

\* The disk has its type;
DiskOK ==
    /\ entry \in {"absent", "visible", "durable"}
    /\ dir \in Directory
    /\ possible \subseteq Directory /\ dir \in possible
    /\ files \in [Files -> [data : {"partial", "cached", "durable"}, content : Contents]]

\* the calls have theirs, and no call is idle in the middle of a method;
ControlOK ==
    /\ pc \in [Calls -> {"idle"} \cup Stages]
    /\ outcome \in Outcomes \cup {None}
    /\ call \in [Calls -> Call]
    /\ \A c \in Calls : pc[c] = "idle" <=> call[c].goal = "none"

\* and a call that writes a temporary file has one.
OwnTemps ==
    \A c \in Calls :
      pc[c] \in {"writing", "sealing", "renaming", "abandoning"} => call[c].temp \in dir.temps

\* TypeOK, part by part.
LEMMA TypeParts ==
    TypeOK <=> /\ DiskOK /\ ControlOK /\ OwnTemps
               /\ expired \subseteq Pendings /\ told \in Contents \cup {Unknown}
  BY DEF TypeOK, DiskOK, ControlOK, OwnTemps

\* The empty directory, its content and no call have their types.
LEMMA EmptyTyped == Empty \in Directory /\ Absent \in Contents
  BY DEF Empty, Directory, Absent, Contents

\* A record of a possible directory is a file, and is whole.
LEMMA ContentTyped ==
    ASSUME DiskOK, DiskIsWhole, NEW d \in possible
    PROVE  Content(d) \in Contents
  <1>1. CASE d.record = None
    BY <1>1, EmptyTyped DEF Content
  <1>2. CASE d.record # None
    <2>1. d.record \in Files
      BY <1>2 DEF DiskOK, Directory
    <2>2. Content(d) = files[d.record].content
      BY <1>2 DEF Content, DiskIsWhole
    <2>3. QED
      BY <2>1, <2>2 DEF DiskOK
  <1>3. QED
    BY <1>1, <1>2

\* What a power loss may leave is what the possible directories hold.
LEMMA MayHoldIs == DiskIsWhole => MayHold = {Content(d) : d \in possible}
  <1> SUFFICES ASSUME DiskIsWhole PROVE Surviving = possible
    BY DEF MayHold
  <1>1. QED
    BY DEF DiskIsWhole, Surviving

\* And so it is after a step.
LEMMA MayHoldIsNext == DiskIsWhole' => MayHold' = {Content(d)' : d \in possible'}
  <1> SUFFICES ASSUME DiskIsWhole' PROVE Surviving' = possible'
    BY DEF MayHold
  <1>1. QED
    BY DEF DiskIsWhole, Surviving

\* The first and the last states of a call.
LEMMA GoesControl ==
    ASSUME ControlOK, NEW c \in Calls, pc[c] # "idle", NEW stage \in Stages, Goes(c, stage)
    PROVE  ControlOK' /\ pc'[c] = stage /\ call' = call /\ outcome' = outcome
  <1>1. pc' = [pc EXCEPT ![c] = stage] /\ call' = call /\ outcome' = outcome
    BY DEF Goes
  <1>2. "idle" \notin Stages
    BY DEF Stages
  <1>3. QED
    BY <1>1, <1>2 DEF ControlOK

\* No call has its type.
LEMMA NoCallTyped == NoCall \in Call /\ NoCall.goal = "none"
  BY EmptyTyped DEF NoCall, Call

\* A call that ends is idle.
LEMMA EndsControl ==
    ASSUME ControlOK, NEW c \in Calls, NEW as \in Outcomes, Ends(c, as)
    PROVE  ControlOK' /\ pc'[c] = "idle" /\ outcome' = as
  <1>1. pc' = [pc EXCEPT ![c] = "idle"] /\ call' = [call EXCEPT ![c] = NoCall] /\ outcome' = as
    BY DEF Ends
  <1>2. QED
    BY <1>1, NoCallTyped DEF ControlOK

\* load() turns to another method.
LEMMA DoesControl ==
    ASSUME ControlOK, NEW c \in Calls, pc[c] # "idle", NEW does \in {"save", "remove"},
           NEW target \in Contents, NEW stage \in Stages, Does(c, does, target, stage)
    PROVE  /\ ControlOK' /\ pc'[c] = stage /\ outcome' = outcome
           /\ call'[c].does = does /\ call'[c].target = target
           /\ call'[c].goal = call[c].goal /\ call'[c].before = call[c].before
  <1>1. /\ pc' = [pc EXCEPT ![c] = stage]
        /\ call' = [call EXCEPT ![c].does = does, ![c].target = target] /\ outcome' = outcome
    BY DEF Does
  <1>2. call[c] \in Call
    BY DEF ControlOK
  <1>3. call' = [call EXCEPT ![c] = [call[c] EXCEPT !.does = does, !.target = target]]
    BY <1>1 DEF ControlOK
  <1>4. [call[c] EXCEPT !.does = does, !.target = target] \in Call
    BY <1>2 DEF Call
  <1>5. "idle" \notin Stages
    BY DEF Stages
  <1>6. call'[c] = [call[c] EXCEPT !.does = does, !.target = target]
    BY <1>3 DEF ControlOK
  <1>7. /\ call'[c].does = does /\ call'[c].target = target
        /\ call'[c].goal = call[c].goal /\ call'[c].before = call[c].before
    BY <1>2, <1>6 DEF Call
  <1>8. ControlOK'
    BY <1>1, <1>3, <1>4, <1>5, <1>7 DEF ControlOK
  <1>9. QED
    BY <1>1, <1>7, <1>8 DEF ControlOK

\* A step that leaves the record alone: it may change temporary files, sync the
\* directory, and change files that are no record.
Quiet ==
    /\ dir'.record = dir.record
    /\ dir' \in possible' /\ possible' \subseteq possible \cup {dir'}
    /\ \A d \in possible : d.record # None => files'[d.record] = files[d.record]
    /\ entry' # "durable" => entry # "durable" /\ possible' = {Empty}

\* Such a step leaves what a reader finds, and adds nothing to what a power loss
\* may leave.
LEMMA QuietKeeps ==
    ASSUME DiskOK, DiskIsWhole, Quiet
    PROVE  /\ DiskIsWhole' /\ Content(dir)' = Content(dir)
           /\ MayHold' \subseteq MayHold /\ Content(dir) \in MayHold'
  <1>1. \A d \in possible' : \E b \in possible : b.record = d.record
    BY DEF Quiet, DiskOK
  <1>2. \A b \in possible : b.record # None => files'[b.record] = files[b.record]
    BY DEF Quiet
  <1>3. DiskIsWhole'
    BY <1>1, <1>2 DEF Quiet, DiskIsWhole
  <1>4. ASSUME NEW d \in possible', NEW b \in possible, b.record = d.record
        PROVE  Content(d)' = Content(b)
    BY <1>2, <1>4 DEF Content
  <1>5. Content(dir)' = Content(dir)
    BY <1>2 DEF Quiet, DiskOK, Content
  <1>6. MayHold' \subseteq MayHold
    BY <1>1, <1>3, <1>4, MayHoldIs, MayHoldIsNext
  <1>7. Content(dir) \in MayHold'
    <2>1. dir' \in possible'
      BY DEF Quiet
    <2>2. Content(dir)' \in {Content(d)' : d \in possible'}
      BY <2>1
    <2>3. QED
      BY <1>3, <1>5, <2>2, MayHoldIsNext
  <1>8. QED
    BY <1>3, <1>5, <1>6, <1>7

-----------------------------------------------------------------------------
(* The disk.                                                                *)

\* A directory that changes its temporary files,
LEMMA ShowsQuiet ==
    ASSUME DiskOK, DiskIsWhole, NEW d \in Directory, d.record = dir.record, Shows(d),
           entry = "durable", UNCHANGED <<entry, files>>
    PROVE  DiskOK' /\ Quiet
  BY DEF DiskOK, Quiet, Shows

\* one that is synced,
LEMMA SyncsQuiet ==
    ASSUME DiskOK, DiskIsWhole, Syncs, UNCHANGED <<entry, files>>
    PROVE  DiskOK' /\ Quiet /\ possible' = {dir} /\ dir' = dir
  BY DEF DiskOK, DiskIsWhole, Quiet, Syncs

\* and one that is left alone.
LEMMA StillQuiet ==
    ASSUME DiskOK, DiskIsWhole, UNCHANGED disk
    PROVE  DiskOK' /\ Quiet
  BY DEF DiskOK, DiskIsWhole, Quiet, disk

\* The system calls that leave the record alone.
LEMMA QuietSteps ==
    ASSUME DiskOK, DiskIsWhole, ControlOK, NEW c \in Calls, CallIsAt(c), Steps(c)
    PROVE  Rename(c) \/ UnlinkRecord(c) \/ (DiskOK' /\ Quiet)
  <1>1. CASE Start(c)
    BY <1>1, StillQuiet DEF Start
  <1>2. CASE MakeDirectory(c)
    BY <1>2 DEF MakeDirectory, DiskOK, DiskIsWhole, Quiet
  <1>3. CASE SyncDirectory(c)
    BY <1>3, SyncsQuiet DEF SyncDirectory
  <1>4. CASE SyncParent(c)
    BY <1>4 DEF SyncParent, DiskOK, Quiet
  <1>5. CASE UnlinkTemp(c)
    <2>1. PICK f \in dir.temps : Shows([dir EXCEPT !.temps = @ \ {f}])
      BY <1>5 DEF UnlinkTemp
    <2>2. entry = "durable"
      BY <2>1 DEF DiskOK, DiskIsWhole, Empty
    <2>3. /\ [dir EXCEPT !.temps = @ \ {f}] \in Directory
          /\ [dir EXCEPT !.temps = @ \ {f}].record = dir.record
      BY DEF DiskOK, Directory
    <2>4. QED
      BY <1>5, <2>1, <2>2, <2>3, ShowsQuiet DEF UnlinkTemp
  <1>6. CASE Tidied(c)
    BY <1>6, StillQuiet DEF Tidied
  <1>7. CASE Flush(c)
    BY <1>7, SyncsQuiet DEF Flush
  <1>8. CASE TidyFails(c)
    <2>1. CASE Syncs
      BY <1>8, <2>1, SyncsQuiet DEF TidyFails
    <2>2. CASE UNCHANGED <<dir, possible>>
      BY <1>8, <2>2, StillQuiet DEF TidyFails, disk
    <2>3. QED
      BY <1>8, <2>1, <2>2 DEF TidyFails
  <1>9. CASE CreateTemp(c)
    <2>1. PICK f \in Files :
            /\ Free(f) /\ Shows([dir EXCEPT !.temps = @ \cup {f}])
            /\ files' = [files EXCEPT ![f] = [data |-> "partial", content |-> call[c].target]]
      BY <1>9 DEF CreateTemp
    <2> DEFINE with == [dir EXCEPT !.temps = @ \cup {f}]
    <2>2. entry = "durable" /\ entry' = entry
      BY <1>9 DEF CreateTemp, CallIsAt, MethodIsAt
    <2>3. with \in Directory /\ with.record = dir.record
      BY DEF DiskOK, Directory
    <2>4. call[c].target \in Contents
      BY DEF ControlOK, Call
    <2>5. dir' = with /\ possible' = possible \cup {with}
      BY <2>1 DEF Shows
    <2>6. DiskOK'
      BY <2>1, <2>2, <2>3, <2>4, <2>5 DEF DiskOK
    <2>7. \A d \in possible : d.record # f
      BY <2>1 DEF Free
    <2>8. QED
      BY <2>1, <2>2, <2>3, <2>5, <2>6, <2>7 DEF DiskOK, Directory, Quiet
  <1>10. CASE WriteTemp(c)
    <2>1. /\ call[c].temp \in Files /\ \A d \in possible : d.record # call[c].temp
          /\ entry = "durable"
      BY <1>10 DEF WriteTemp, CallIsAt, TempsAre, MethodIsAt
    <2>2. files' = [files EXCEPT ![call[c].temp] = [files[call[c].temp] EXCEPT !.data = "cached"]]
      BY <1>10 DEF WriteTemp
    <2>3. \A d \in possible : d.record # None => files'[d.record] = files[d.record]
      BY <2>1, <2>2 DEF DiskOK, Directory
    <2>4. DiskOK'
      BY <1>10, <2>1, <2>2 DEF WriteTemp, DiskOK
    <2>5. QED
      BY <1>10, <2>1, <2>3, <2>4 DEF WriteTemp, DiskOK, Quiet
  <1>11. CASE SealTemp(c)
    <2>1. /\ call[c].temp \in Files /\ \A d \in possible : d.record # call[c].temp
          /\ entry = "durable"
      BY <1>11 DEF SealTemp, CallIsAt, TempsAre, MethodIsAt
    <2>2. files' = [files EXCEPT ![call[c].temp] = [files[call[c].temp] EXCEPT !.data = "durable"]]
      BY <1>11 DEF SealTemp
    <2>3. \A d \in possible : d.record # None => files'[d.record] = files[d.record]
      BY <2>1, <2>2 DEF DiskOK, Directory
    <2>4. DiskOK'
      BY <1>11, <2>1, <2>2 DEF SealTemp, DiskOK
    <2>5. QED
      BY <1>11, <2>1, <2>3, <2>4 DEF SealTemp, DiskOK, Quiet
  <1>12. CASE Confirm(c)
    BY <1>12, SyncsQuiet DEF Confirm
  <1>13. CASE ConfirmFails(c)
    BY <1>13, StillQuiet DEF ConfirmFails
  <1>14. CASE WriteFails(c)
    BY <1>14, StillQuiet DEF WriteFails
  <1>15. CASE UnlinkOwnTemp(c)
    <2> DEFINE without == [dir EXCEPT !.temps = @ \ {call[c].temp}]
    <2>1. entry = "durable"
      BY <1>15 DEF UnlinkOwnTemp, CallIsAt, MethodIsAt
    <2>2. without \in Directory /\ without.record = dir.record
      BY DEF DiskOK, Directory
    <2>3. CASE Shows(without)
      BY <1>15, <2>1, <2>2, <2>3, ShowsQuiet DEF UnlinkOwnTemp
    <2>4. CASE UNCHANGED <<dir, possible>>
      BY <1>15, <2>4, StillQuiet DEF UnlinkOwnTemp, disk
    <2>5. QED
      BY <1>15, <2>3, <2>4 DEF UnlinkOwnTemp
  <1>16. CASE Abandoned(c)
    <2>1. CASE Syncs
      BY <1>16, <2>1, SyncsQuiet DEF Abandoned
    <2>2. CASE UNCHANGED <<dir, possible>>
      BY <1>16, <2>2, StillQuiet DEF Abandoned, disk
    <2>3. QED
      BY <1>16, <2>1, <2>2 DEF Abandoned
  <1>17. CASE Read(c)
    BY <1>17, StillQuiet DEF Read
  <1>18. CASE Look(c)
    BY <1>18, SyncsQuiet DEF Look
  <1>19. CASE LookFails(c)
    BY <1>19, StillQuiet DEF LookFails
  <1>20. CASE Fails(c)
    BY <1>20, StillQuiet DEF Fails
  <1>21. QED
    BY <1>1, <1>2, <1>3, <1>4, <1>5, <1>6, <1>7, <1>8, <1>9, <1>10, <1>11, <1>12, <1>13,
       <1>14, <1>15, <1>16, <1>17, <1>18, <1>19, <1>20
       DEF Steps, Opens, Tidies, Replaces, Settles, Reads

\* A new record may be left by a power loss, beside what may have been before.
LEMMA UpdateHolds ==
    ASSUME DiskIsWhole, DiskIsWhole', files' = files, possible' = possible \cup {dir'}
    PROVE  MayHold' = MayHold \cup {Content(dir)'}
  <1>1. ASSUME NEW d PROVE Content(d)' = Content(d)
    BY DEF Content
  <1>2. Content(dir)' = Content(dir')
    BY DEF Content
  <1>3. MayHold' = {Content(d) : d \in possible'}
    BY <1>1, MayHoldIsNext
  <1>4. QED
    BY <1>2, <1>3, MayHoldIs

\* The two that change it: a rename, and the removal of the record.
LEMMA UpdateSteps ==
    ASSUME DiskOK, DiskIsWhole, ControlOK, NEW c \in Calls, CallIsAt(c),
           Rename(c) \/ UnlinkRecord(c)
    PROVE  /\ DiskOK' /\ DiskIsWhole' /\ entry' = entry
           /\ Content(dir)' = call[c].target
           /\ MayHold' = MayHold \cup {call[c].target}
           /\ dir'.temps = {}
  <1>1. CASE Rename(c)
    <2>1. /\ call[c].temp \in Files /\ dir.temps = {call[c].temp} /\ entry = "durable"
          /\ files[call[c].temp].content = call[c].target
          /\ files[call[c].temp].data = "durable"
      BY <1>1 DEF Rename, CallIsAt, TempsAre, MethodIsAt
    <2>2. /\ dir' = [record |-> call[c].temp, temps |-> {}]
          /\ possible' = possible \cup {dir'} /\ entry' = entry /\ files' = files
      BY <1>1, <2>1 DEF Rename, Shows
    <2>3. dir' \in Directory
      BY <2>1, <2>2 DEF Directory
    <2>4. DiskOK' /\ DiskIsWhole'
      <3>1. DiskOK'
        BY <2>2, <2>3 DEF DiskOK
      <3>2. files'[dir'.record].data = "durable"
        BY <2>1, <2>2
      <3>3. \A d \in possible' : d.record # None => files'[d.record].data = "durable"
        BY <2>2, <3>2 DEF DiskIsWhole
      <3>4. QED
        BY <2>1, <2>2, <3>1, <3>3 DEF DiskIsWhole
    <2>5. call[c].temp # None
      BY <2>1, ProStoreConstants DEF ProStoreConstants
    <2>6. Content(dir)' = call[c].target
      BY <2>1, <2>2, <2>5 DEF Content
    <2>7. QED
      BY <2>2, <2>4, <2>6, UpdateHolds
  <1>2. CASE UnlinkRecord(c)
    <2>1. dir.temps = {} /\ call[c].target = Absent
      BY <1>2 DEF UnlinkRecord, CallIsAt, TempsAre, TargetIs, MethodIsAt
    <2>2. /\ dir' = Empty
          /\ possible' = possible \cup {dir'} /\ entry' = entry /\ files' = files
      BY <1>2, <2>1 DEF UnlinkRecord, Shows, DiskOK, Directory, Empty
    <2>3. DiskOK' /\ DiskIsWhole'
      <3>1. DiskOK'
        BY <2>2, EmptyTyped DEF DiskOK
      <3>2. dir'.record = None
        BY <2>2 DEF Empty
      <3>3. QED
        BY <2>2, <3>1, <3>2 DEF DiskIsWhole
    <2>4. Content(dir)' = call[c].target
      BY <2>1, <2>2 DEF Content, Empty
    <2>5. QED
      BY <2>1, <2>2, <2>3, <2>4, UpdateHolds DEF Empty
  <1>3. QED
    BY <1>1, <1>2

\* A power loss leaves one of the possible directories.
LEMMA LossKeeps ==
    ASSUME DiskOK, DiskIsWhole, PowerLost
    PROVE  /\ DiskOK' /\ DiskIsWhole' /\ Content(dir)' \in MayHold /\ MayHold' = {Content(dir)'}
  <1>1. dir' \in possible /\ possible' = {dir'}
    BY EmptyTyped DEF PowerLost, DiskOK, DiskIsWhole
  <1>2. entry' \in {"absent", "durable"} /\ (entry' # "durable" => dir' = Empty)
    BY DEF PowerLost, DiskOK, DiskIsWhole
  <1>3. files' = [f \in Files |-> IF files[f].data = "cached"
                                  THEN [files[f] EXCEPT !.data = "partial"] ELSE files[f]]
    BY DEF PowerLost
  <1>4. DiskOK'
    BY <1>1, <1>2, <1>3 DEF DiskOK
  <1>5. \A d \in possible : d.record # None => files'[d.record] = files[d.record]
    BY <1>3 DEF DiskOK, DiskIsWhole, Directory
  <1>6. DiskIsWhole'
    BY <1>1, <1>2, <1>5 DEF DiskIsWhole
  <1>7. ASSUME NEW d \in possible, dir' = d PROVE Content(dir)' = Content(d)
    BY <1>5, <1>7 DEF Content
  <1>8. Content(dir)' \in MayHold
    BY <1>1, <1>7, MayHoldIs
  <1>9. MayHold' = {Content(dir)'}
    BY <1>1, <1>6, MayHoldIsNext
  <1>10. QED
    BY <1>4, <1>6, <1>8, <1>9

-----------------------------------------------------------------------------
(* A call.                                                                  *)

\* A step of one call moves that call alone.
Moves(c) == \E stage : pc' = [pc EXCEPT ![c] = stage]

\* What is known of a call that moved.
Keeps(c) == ControlOK' /\ Moves(c) /\ CallIsAt(c)'

\* Nothing is claimed of a call that has ended;
LEMMA EndsKeeps ==
    ASSUME ControlOK, NEW c \in Calls, NEW as \in Outcomes, Ends(c, as)
    PROVE  Keeps(c)
  <1>1. ControlOK' /\ pc'[c] = "idle" /\ Moves(c)
    BY EndsControl DEF Ends, Moves
  <1>2. CallIsAt(c)'
    BY <1>1 DEF CallIsAt, MethodIsAt, TempsAre, TargetIs, BeforeHolds
  <1>3. QED
    BY <1>1, <1>2 DEF Keeps

\* of one that goes on, its target and what it began with are.
LEMMA GoesKeeps ==
    ASSUME ControlOK, NEW c \in Calls, CallIsAt(c), pc[c] \notin {"idle", "confirming"},
           NEW stage \in Stages, stage # "confirming", Goes(c, stage),
           Content(dir)' = Content(dir), MayHold' \subseteq MayHold, expired' = expired,
           MethodIsAt(c)', TempsAre(c)'
    PROVE  Keeps(c)
  <1>1. ControlOK' /\ pc'[c] = stage /\ call' = call /\ Moves(c)
    BY GoesControl DEF Goes, Moves
  <1>2. TargetIs(c)'
    BY <1>1 DEF CallIsAt, TargetIs, Unexpired
  <1>3. BeforeHolds(c)'
    BY <1>1 DEF CallIsAt, BeforeHolds
  <1>4. QED
    BY <1>1, <1>2, <1>3 DEF Keeps, CallIsAt

\* Every call that is in the store, other than the one that creates its file, the
\* two that change the record, and the reading of it.
LEMMA GoingSteps ==
    ASSUME DiskOK, DiskIsWhole, ControlOK, NEW c \in Calls, CallIsAt(c), Steps(c),
           DiskOK', Quiet
    PROVE  CreateTemp(c) \/ Rename(c) \/ UnlinkRecord(c) \/ Read(c) \/ Keeps(c)
  <1>1. /\ DiskIsWhole' /\ Content(dir)' = Content(dir) /\ MayHold' \subseteq MayHold
        /\ ControlOK /\ CallIsAt(c) /\ c \in Calls /\ Quiet /\ DiskOK
    BY QuietKeeps
  <1>2. CASE Start(c)
    <2>1. pc[c] \in {"starting"} /\ pc[c] \notin {"idle", "confirming"} /\ expired' = expired
      BY <1>2 DEF Start
    <2>2. CASE Goes(c, "looking") /\ call[c].does = "inspect"
      <3>1. pc'[c] = "looking" /\ call' = call
        BY <2>1, <2>2, GoesControl DEF Stages
      <3>2. MethodIsAt(c)'
        BY <1>1, <2>1, <2>2, <3>1 DEF CallIsAt, MethodIsAt, Quiet
      <3>3. TempsAre(c)'
        BY <1>1, <1>2, <2>1, <2>2, <3>1 DEF Start, CallIsAt, TempsAre, MethodIsAt
      <3>4. QED
        BY <1>1, <2>1, <2>2, <3>2, <3>3, GoesKeeps DEF Stages
    <2>3. CASE Goes(c, "tidying") /\ call[c].does # "inspect"
      <3>1. pc'[c] = "tidying" /\ call' = call
        BY <2>1, <2>3, GoesControl DEF Stages
      <3>2. MethodIsAt(c)'
        BY <1>1, <2>1, <2>3, <3>1 DEF CallIsAt, MethodIsAt, Quiet
      <3>3. TempsAre(c)'
        BY <1>1, <1>2, <2>1, <2>3, <3>1 DEF Start, CallIsAt, TempsAre, MethodIsAt
      <3>4. QED
        BY <1>1, <2>1, <2>3, <3>2, <3>3, GoesKeeps DEF Stages
    <2>4. CASE \E as \in Outcomes : Ends(c, as)
      BY <1>1, <2>4, EndsKeeps
    <2>5. QED
      BY <1>2, <2>2, <2>3, <2>4 DEF Start, Outcomes
  <1>3. CASE MakeDirectory(c)
    <2>1. pc[c] \in {"opening"} /\ pc[c] \notin {"idle", "confirming"} /\ expired' = expired
      BY <1>3 DEF MakeDirectory
    <2>2. CASE Goes(c, "syncing")
      <3>1. pc'[c] = "syncing" /\ call' = call
        BY <2>1, <2>2, GoesControl DEF Stages
      <3>2. MethodIsAt(c)'
        BY <1>1, <2>1, <2>2, <3>1 DEF CallIsAt, MethodIsAt, Quiet
      <3>3. TempsAre(c)'
        BY <1>1, <1>3, <2>1, <2>2, <3>1 DEF MakeDirectory, CallIsAt, TempsAre, MethodIsAt
      <3>4. QED
        BY <1>1, <2>1, <2>2, <3>2, <3>3, GoesKeeps DEF Stages
    <2>3. CASE \E as \in Outcomes : Ends(c, as)
      BY <1>1, <2>3, EndsKeeps
    <2>4. QED
      BY <1>3, <2>2, <2>3 DEF MakeDirectory, Outcomes
  <1>4. CASE SyncDirectory(c)
    <2>1. pc[c] \in {"syncing"} /\ pc[c] \notin {"idle", "confirming"} /\ expired' = expired
      BY <1>4 DEF SyncDirectory
    <2>2. CASE Goes(c, "anchoring")
      <3>1. pc'[c] = "anchoring" /\ call' = call
        BY <2>1, <2>2, GoesControl DEF Stages
      <3>2. MethodIsAt(c)'
        BY <1>1, <2>1, <2>2, <3>1 DEF CallIsAt, MethodIsAt, Quiet
      <3>3. TempsAre(c)'
        BY <1>1, <1>4, <2>1, <2>2, <3>1 DEF SyncDirectory, CallIsAt, TempsAre, MethodIsAt
      <3>4. QED
        BY <1>1, <2>1, <2>2, <3>2, <3>3, GoesKeeps DEF Stages
    <2>3. QED
      BY <1>4, <2>2 DEF SyncDirectory
  <1>5. CASE SyncParent(c)
    <2>1. pc[c] \in {"anchoring"} /\ pc[c] \notin {"idle", "confirming"} /\ expired' = expired
      BY <1>5 DEF SyncParent
    <2>2. CASE Goes(c, "tidying")
      <3>1. pc'[c] = "tidying" /\ call' = call
        BY <2>1, <2>2, GoesControl DEF Stages
      <3>2. MethodIsAt(c)'
        BY <1>1, <1>5, <2>1, <2>2, <3>1 DEF SyncParent, CallIsAt, MethodIsAt, Quiet
      <3>3. TempsAre(c)'
        BY <1>1, <1>5, <2>1, <2>2, <3>1 DEF SyncParent, CallIsAt, TempsAre, MethodIsAt
      <3>4. QED
        BY <1>1, <2>1, <2>2, <3>2, <3>3, GoesKeeps DEF Stages
    <2>3. QED
      BY <1>5, <2>2 DEF SyncParent
  <1>6. CASE UnlinkTemp(c)
    <2>1. pc[c] \in {"tidying", "clearing"} /\ pc[c] \notin {"idle", "confirming"} /\ expired' = expired
      BY <1>6 DEF UnlinkTemp, Tidying
    <2>2. CASE Goes(c, "clearing")
      <3>1. pc'[c] = "clearing" /\ call' = call
        BY <2>1, <2>2, GoesControl DEF Stages
      <3>2. MethodIsAt(c)'
        BY <1>1, <2>1, <2>2, <3>1 DEF CallIsAt, MethodIsAt, Quiet
      <3>3. TempsAre(c)'
        BY <1>1, <1>6, <2>1, <2>2, <3>1 DEF UnlinkTemp, Tidying, CallIsAt, TempsAre,
           MethodIsAt
      <3>4. QED
        BY <1>1, <2>1, <2>2, <3>2, <3>3, GoesKeeps DEF Stages
    <2>3. QED
      BY <1>6, <2>2 DEF UnlinkTemp
  <1>7. CASE Tidied(c)
    <2>1. pc[c] \in {"tidying", "clearing"} /\ pc[c] \notin {"idle", "confirming"} /\ expired' = expired
      BY <1>7 DEF Tidied, Tidying
    <2>2. CASE Goes(c, "flushing")
      <3>1. pc'[c] = "flushing" /\ call' = call
        BY <2>1, <2>2, GoesControl DEF Stages
      <3>2. MethodIsAt(c)'
        BY <1>1, <2>1, <2>2, <3>1 DEF CallIsAt, MethodIsAt, Quiet
      <3>3. TempsAre(c)'
        BY <1>1, <1>7, <2>1, <2>2, <3>1 DEF Tidied, disk, CallIsAt, TempsAre, MethodIsAt
      <3>4. QED
        BY <1>1, <2>1, <2>2, <3>2, <3>3, GoesKeeps DEF Stages
    <2>3. CASE Goes(c, "creating") /\ call[c].does = "save"
      <3>1. pc'[c] = "creating" /\ call' = call
        BY <2>1, <2>3, GoesControl DEF Stages
      <3>2. MethodIsAt(c)'
        BY <1>1, <2>1, <2>3, <3>1 DEF CallIsAt, MethodIsAt, Quiet
      <3>3. TempsAre(c)'
        BY <1>1, <1>7, <2>1, <2>3, <3>1 DEF Tidied, disk, CallIsAt, TempsAre, MethodIsAt
      <3>4. QED
        BY <1>1, <2>1, <2>3, <3>2, <3>3, GoesKeeps DEF Stages
    <2>4. CASE Goes(c, "unlinking") /\ call[c].does = "remove"
      <3>1. pc'[c] = "unlinking" /\ call' = call
        BY <2>1, <2>4, GoesControl DEF Stages
      <3>2. MethodIsAt(c)'
        BY <1>1, <2>1, <2>4, <3>1 DEF CallIsAt, MethodIsAt, Quiet
      <3>3. TempsAre(c)'
        BY <1>1, <1>7, <2>1, <2>4, <3>1 DEF Tidied, disk, CallIsAt, TempsAre, MethodIsAt
      <3>4. QED
        BY <1>1, <2>1, <2>4, <3>2, <3>3, GoesKeeps DEF Stages
    <2>5. CASE \E as \in Outcomes : Ends(c, as)
      BY <1>1, <2>5, EndsKeeps
    <2>6. QED
      BY <1>1, <2>1, <1>7, <2>2, <2>3, <2>4, <2>5 DEF Tidied, Outcomes, MustFlush,
         NothingToRemove, AfterTidying, CallIsAt, MethodIsAt
  <1>8. CASE Flush(c)
    <2>1. pc[c] \in {"flushing"} /\ pc[c] \notin {"idle", "confirming"} /\ expired' = expired
      BY <1>8 DEF Flush
    <2>2. CASE Goes(c, "creating") /\ call[c].does = "save"
      <3>1. pc'[c] = "creating" /\ call' = call
        BY <2>1, <2>2, GoesControl DEF Stages
      <3>2. MethodIsAt(c)'
        BY <1>1, <2>1, <2>2, <3>1 DEF CallIsAt, MethodIsAt, Quiet
      <3>3. TempsAre(c)'
        BY <1>1, <1>8, <2>1, <2>2, <3>1 DEF Flush, Syncs, CallIsAt, TempsAre, MethodIsAt
      <3>4. QED
        BY <1>1, <2>1, <2>2, <3>2, <3>3, GoesKeeps DEF Stages
    <2>3. CASE Goes(c, "reading") /\ call[c].does = "load"
      <3>1. pc'[c] = "reading" /\ call' = call
        BY <2>1, <2>3, GoesControl DEF Stages
      <3>2. MethodIsAt(c)'
        BY <1>1, <2>1, <2>3, <3>1 DEF CallIsAt, MethodIsAt, Quiet
      <3>3. TempsAre(c)'
        BY <1>1, <1>8, <2>1, <2>3, <3>1 DEF Flush, Syncs, CallIsAt, TempsAre, MethodIsAt
      <3>4. QED
        BY <1>1, <2>1, <2>3, <3>2, <3>3, GoesKeeps DEF Stages
    <2>4. CASE Goes(c, "unlinking") /\ call[c].does = "remove"
      <3>1. pc'[c] = "unlinking" /\ call' = call
        BY <2>1, <2>4, GoesControl DEF Stages
      <3>2. MethodIsAt(c)'
        BY <1>1, <2>1, <2>4, <3>1 DEF CallIsAt, MethodIsAt, Quiet
      <3>3. TempsAre(c)'
        BY <1>1, <1>8, <2>1, <2>4, <3>1 DEF Flush, Syncs, CallIsAt, TempsAre, MethodIsAt
      <3>4. QED
        BY <1>1, <2>1, <2>4, <3>2, <3>3, GoesKeeps DEF Stages
    <2>5. CASE \E as \in Outcomes : Ends(c, as)
      BY <1>1, <2>5, EndsKeeps
    <2>6. QED
      BY <1>1, <2>1, <1>8, <2>2, <2>3, <2>4, <2>5 DEF Flush, Outcomes, AfterTidying,
         NothingToRemove, CallIsAt, MethodIsAt
  <1>9. CASE TidyFails(c)
    <2>1. \E as \in Outcomes : Ends(c, as)
      BY <1>9 DEF TidyFails, Outcomes
    <2>2. QED
      BY <1>1, <2>1, EndsKeeps
  <1>10. CASE WriteTemp(c)
    <2>1. pc[c] \in {"writing"} /\ pc[c] \notin {"idle", "confirming"} /\ expired' = expired
      BY <1>10 DEF WriteTemp
    <2>2. CASE Goes(c, "sealing")
      <3>1. pc'[c] = "sealing" /\ call' = call
        BY <2>1, <2>2, GoesControl DEF Stages
      <3>2. MethodIsAt(c)'
        BY <1>1, <2>1, <2>2, <3>1 DEF CallIsAt, MethodIsAt, Quiet
      <3>3. TempsAre(c)'
        BY <1>1, <1>10, <2>1, <2>2, <3>1 DEF WriteTemp, DiskOK, CallIsAt, TempsAre,
           MethodIsAt
      <3>4. QED
        BY <1>1, <2>1, <2>2, <3>2, <3>3, GoesKeeps DEF Stages
    <2>3. QED
      BY <1>10, <2>2 DEF WriteTemp
  <1>11. CASE SealTemp(c)
    <2>1. pc[c] \in {"sealing"} /\ pc[c] \notin {"idle", "confirming"} /\ expired' = expired
      BY <1>11 DEF SealTemp
    <2>2. CASE Goes(c, "renaming")
      <3>1. pc'[c] = "renaming" /\ call' = call
        BY <2>1, <2>2, GoesControl DEF Stages
      <3>2. MethodIsAt(c)'
        BY <1>1, <2>1, <2>2, <3>1 DEF CallIsAt, MethodIsAt, Quiet
      <3>3. TempsAre(c)'
        BY <1>1, <1>11, <2>1, <2>2, <3>1 DEF SealTemp, DiskOK, CallIsAt, TempsAre,
           MethodIsAt
      <3>4. QED
        BY <1>1, <2>1, <2>2, <3>2, <3>3, GoesKeeps DEF Stages
    <2>3. QED
      BY <1>11, <2>2 DEF SealTemp
  <1>12. CASE Confirm(c)
    <2>1. \E as \in Outcomes : Ends(c, as)
      BY <1>12 DEF Confirm, Outcomes
    <2>2. QED
      BY <1>1, <2>1, EndsKeeps
  <1>13. CASE ConfirmFails(c)
    <2>1. \E as \in Outcomes : Ends(c, as)
      BY <1>13 DEF ConfirmFails, Outcomes
    <2>2. QED
      BY <1>1, <2>1, EndsKeeps
  <1>14. CASE WriteFails(c)
    <2>1. pc[c] \in {"writing", "sealing", "renaming"} /\ pc[c] \notin {"idle", "confirming"} /\ expired' = expired
      BY <1>14 DEF WriteFails
    <2>2. CASE Goes(c, "abandoning")
      <3>1. pc'[c] = "abandoning" /\ call' = call
        BY <2>1, <2>2, GoesControl DEF Stages
      <3>2. MethodIsAt(c)'
        BY <1>1, <2>1, <2>2, <3>1 DEF CallIsAt, MethodIsAt, Quiet
      <3>3. TempsAre(c)'
        BY <1>1, <1>14, <2>1, <2>2, <3>1 DEF WriteFails, disk, CallIsAt, TempsAre,
           MethodIsAt
      <3>4. QED
        BY <1>1, <2>1, <2>2, <3>2, <3>3, GoesKeeps DEF Stages
    <2>3. QED
      BY <1>14, <2>2 DEF WriteFails
  <1>15. CASE UnlinkOwnTemp(c)
    <2>1. pc[c] \in {"abandoning"} /\ pc[c] \notin {"idle", "confirming"} /\ expired' = expired
      BY <1>15 DEF UnlinkOwnTemp
    <2>2. CASE Goes(c, "abandoned")
      <3>1. pc'[c] = "abandoned" /\ call' = call
        BY <2>1, <2>2, GoesControl DEF Stages
      <3>2. MethodIsAt(c)'
        BY <1>1, <2>1, <2>2, <3>1 DEF CallIsAt, MethodIsAt, Quiet
      <3>3. TempsAre(c)'
        BY <1>1, <1>15, <2>1, <2>2, <3>1 DEF UnlinkOwnTemp, CallIsAt, TempsAre, MethodIsAt
      <3>4. QED
        BY <1>1, <2>1, <2>2, <3>2, <3>3, GoesKeeps DEF Stages
    <2>3. CASE \E as \in Outcomes : Ends(c, as)
      BY <1>1, <2>3, EndsKeeps
    <2>4. QED
      BY <1>15, <2>2, <2>3 DEF UnlinkOwnTemp, Outcomes
  <1>16. CASE Abandoned(c)
    <2>1. \E as \in Outcomes : Ends(c, as)
      BY <1>16 DEF Abandoned, Outcomes
    <2>2. QED
      BY <1>1, <2>1, EndsKeeps
  <1>17. CASE Look(c)
    <2>1. \E as \in Outcomes : Ends(c, as)
      BY <1>17 DEF Look, Outcomes
    <2>2. QED
      BY <1>1, <2>1, EndsKeeps
  <1>18. CASE LookFails(c)
    <2>1. \E as \in Outcomes : Ends(c, as)
      BY <1>18 DEF LookFails, Outcomes
    <2>2. QED
      BY <1>1, <2>1, EndsKeeps
  <1>19. CASE Fails(c)
    <2>1. \E as \in Outcomes : Ends(c, as)
      BY <1>19 DEF Fails, Outcomes
    <2>2. QED
      BY <1>1, <2>1, EndsKeeps
  <1>20. QED
    BY <1>2, <1>3, <1>4, <1>5, <1>6, <1>7, <1>8, <1>9, <1>10, <1>11, <1>12, <1>13, <1>14,
       <1>15, <1>16, <1>17, <1>18, <1>19
       DEF Steps, Opens, Tidies, Replaces, Settles, Reads

\* The creation of the temporary file, which is no record's.
LEMMA CreateKeeps ==
    ASSUME DiskOK, DiskIsWhole, ControlOK, NEW c \in Calls, CallIsAt(c), CreateTemp(c),
           DiskOK', Quiet
    PROVE  Keeps(c)
  <1>1. PICK f \in Files :
          /\ Free(f) /\ Shows([dir EXCEPT !.temps = @ \cup {f}])
          /\ files' = [files EXCEPT ![f] = [data |-> "partial", content |-> call[c].target]]
          /\ call' = [call EXCEPT ![c].temp = f]
    BY DEF CreateTemp
  <1>2. PICK stage \in {"writing", "abandoning"} : pc' = [pc EXCEPT ![c] = stage]
    BY DEF CreateTemp
  <1>3. call[c] \in Call /\ pc[c] = "creating" /\ stage \in Stages /\ "idle" \notin Stages
    BY DEF CreateTemp, ControlOK, Stages
  <1>4. call' = [call EXCEPT ![c] = [call[c] EXCEPT !.temp = f]]
    BY <1>1 DEF ControlOK
  <1>5. [call[c] EXCEPT !.temp = f] \in Call
    BY <1>3 DEF Call
  <1>6. call'[c] = [call[c] EXCEPT !.temp = f]
    BY <1>4 DEF ControlOK
  <1>7. /\ call'[c].temp = f /\ call'[c].does = call[c].does /\ call'[c].goal = call[c].goal
        /\ call'[c].target = call[c].target /\ call'[c].before = call[c].before
    BY <1>3, <1>6 DEF Call
  <1>8. outcome' = outcome /\ entry' = entry /\ expired' = expired
    BY DEF CreateTemp
  <1>9. ControlOK'
    <2>1. pc' \in [Calls -> {"idle"} \cup Stages]
      BY <1>2, <1>3 DEF ControlOK
    <2>2. call' \in [Calls -> Call]
      BY <1>4, <1>5 DEF ControlOK
    <2>3. \A e \in Calls : pc'[e] = "idle" <=> call'[e].goal = "none"
      BY <1>2, <1>3, <1>4, <1>7 DEF ControlOK
    <2>4. QED
      BY <1>8, <2>1, <2>2, <2>3 DEF ControlOK
  <1>10. pc'[c] = stage
    BY <1>2 DEF ControlOK
  <1>11. MethodIsAt(c)'
    BY <1>3, <1>7, <1>8, <1>10 DEF CallIsAt, MethodIsAt
  <1>12. TempsAre(c)'
    <2>1. dir'.temps = {f}
      <3>1. dir.temps = {}
        BY <1>3 DEF CallIsAt, TempsAre
      <3>2. QED
        BY <1>1, <3>1 DEF Shows, DiskOK, Directory
    <2>2. \A d \in possible' : d.record # f
      <3>1. \A d \in possible : d.record # f
        BY <1>1 DEF Free
      <3>2. possible' \subseteq possible \cup {dir'} /\ dir'.record = dir.record /\ dir \in possible
        BY DEF Quiet, DiskOK
      <3>3. QED
        BY <3>1, <3>2
    <2>3. files'[f].content = call[c].target
      BY <1>1 DEF DiskOK
    <2>4. QED
      BY <1>7, <1>10, <2>1, <2>2, <2>3 DEF TempsAre
  <1>13. TargetIs(c)' /\ BeforeHolds(c)'
    BY <1>3, <1>7, <1>8, <1>10, QuietKeeps DEF CallIsAt, TargetIs, BeforeHolds, Unexpired
  <1>14. QED
    BY <1>2, <1>9, <1>11, <1>12, <1>13 DEF Keeps, Moves, CallIsAt

\* The record has changed, and is the target of the call.
LEMMA UpdateCallKeeps ==
    ASSUME DiskOK, DiskIsWhole, ControlOK, NEW c \in Calls, CallIsAt(c),
           Rename(c) \/ UnlinkRecord(c)
    PROVE  Keeps(c) /\ call' = call /\ pc[c] # "idle"
  <1>1. pc[c] \in {"renaming", "unlinking"} /\ Goes(c, "confirming")
    BY DEF Rename, UnlinkRecord
  <1>2. ControlOK' /\ pc'[c] = "confirming" /\ call' = call /\ Moves(c)
    BY <1>1, GoesControl DEF Stages, Goes, Moves
  <1>3. MethodIsAt(c)'
    BY <1>1, <1>2, UpdateSteps DEF CallIsAt, MethodIsAt
  <1>4. TempsAre(c)'
    BY <1>2, UpdateSteps DEF TempsAre
  <1>5. TargetIs(c)' /\ BeforeHolds(c)'
    BY <1>1, <1>2, UpdateSteps DEF CallIsAt, TargetIs, BeforeHolds
  <1>6. QED
    BY <1>1, <1>2, <1>3, <1>4, <1>5 DEF Keeps, CallIsAt

\* load() reads the record, and turns to another method for its own reasons.
LEMMA ReadKeeps ==
    ASSUME DiskOK, DiskIsWhole, ControlOK, NEW c \in Calls, CallIsAt(c), Read(c),
           DiskOK', Quiet
    PROVE  Keeps(c)
  <1> DEFINE content == Content(dir)
  <1>1. /\ Content(dir)' = Content(dir) /\ MayHold' \subseteq MayHold /\ pc[c] = "reading"
        /\ content \in Contents /\ expired' = expired
    BY QuietKeeps, ContentTyped DEF Read, DiskOK
  <1>2. Unexpired(content) \in Contents
    BY <1>1 DEF Unexpired, Contents
  <1>3. ASSUME NEW does \in {"save", "remove"}, NEW target \in Contents,
               NEW stage \in {"opening", "starting"}, Does(c, does, target, stage),
               stage = "opening" <=> does = "save", does = "remove" => target = Absent,
               \/ target = content /\ does = "save"
               \/ content.pending \in expired /\ target = Unexpired(content)
        PROVE  Keeps(c)
    <2>1. /\ ControlOK' /\ pc'[c] = stage /\ call'[c].does = does /\ call'[c].target = target
          /\ call'[c].before = call[c].before /\ Moves(c)
      BY <1>1, <1>3, DoesControl DEF Stages, Does, Moves
    <2>2. MethodIsAt(c)'
      BY <1>3, <2>1 DEF MethodIsAt
    <2>3. TempsAre(c)'
      BY <1>3, <2>1 DEF TempsAre
    <2>4. TargetIs(c)'
      BY <1>1, <1>3, <2>1 DEF TargetIs, Unexpired
    <2>5. BeforeHolds(c)'
      BY <1>1, <1>3, <2>1 DEF CallIsAt, BeforeHolds
    <2>6. QED
      BY <2>1, <2>2, <2>3, <2>4, <2>5 DEF Keeps, CallIsAt
  <1>4. CASE content.pending \in expired /\ Unexpired(content) # Absent
    <2>1. Does(c, "save", Unexpired(content), "opening")
      BY <1>4 DEF Read
    <2>2. QED
      BY <1>2, <1>3, <1>4, <2>1
  <1>5. CASE content.pending \in expired /\ Unexpired(content) = Absent
    <2>1. Does(c, "remove", Absent, "starting")
      BY <1>5 DEF Read
    <2>2. QED
      BY <1>2, <1>3, <1>5, <2>1
  <1>6. CASE content.pending \notin expired
    <2>1. Ends(c, "done") \/ Does(c, "save", content, "opening")
      BY <1>6 DEF Read
    <2>2. QED
      BY <1>1, <1>3, <2>1, EndsKeeps DEF Outcomes
  <1>7. QED
    BY <1>4, <1>5, <1>6

\* A call that begins: nothing has changed, and what it may leave is what it found.
LEMMA BeginKeeps ==
    ASSUME DiskOK, DiskIsWhole, ControlOK, NEW c \in Calls, Begin(c)
    PROVE  Keeps(c) /\ UNCHANGED <<disk, expired, told>> /\ outcome' = None /\ MayBegin
  <1>1. PICK goal \in {"save", "load", "remove", "inspect"}, target \in Contents,
             stage \in {"opening", "starting"} :
          /\ Begins(c, goal, target, stage)
          /\ stage = "opening" <=> goal = "save"
          /\ goal # "save" => target = Absent
    BY EmptyTyped DEF Begin, Save, Load, Remove, Inspect, Envelopes
  <1>2. /\ MayBegin /\ pc' = [pc EXCEPT ![c] = stage] /\ outcome' = None
        /\ call' = [call EXCEPT ![c] = [NoCall EXCEPT !.goal = goal, !.does = goal,
                                                      !.target = target, !.before = MayHold]]
        /\ UNCHANGED <<disk, expired, told>>
    BY <1>1 DEF Begins
  <1> DEFINE new == [NoCall EXCEPT !.goal = goal, !.does = goal, !.target = target,
                                   !.before = MayHold]
  <1>3. /\ new \in Call /\ new.goal = goal /\ new.does = goal /\ new.target = target
        /\ new.before = MayHold
    <2>1. MayHold \subseteq Contents
      BY MayHoldIs, ContentTyped
    <2>2. QED
      BY <2>1, NoCallTyped DEF Call
  <1>4. pc'[c] = stage /\ call'[c] = new
    BY <1>2 DEF ControlOK
  <1>5. ControlOK'
    BY <1>2, <1>3 DEF ControlOK, Stages
  <1>6. MayHold' = MayHold
    BY <1>2 DEF MayHold, Surviving, Content, disk
  <1>7. CallIsAt(c)'
    <2>1. MethodIsAt(c)'
      BY <1>1, <1>3, <1>4 DEF MethodIsAt
    <2>2. TempsAre(c)'
      BY <1>4 DEF TempsAre
    <2>3. TargetIs(c)' /\ BeforeHolds(c)'
      BY <1>1, <1>3, <1>4, <1>6 DEF TargetIs, BeforeHolds
    <2>4. QED
      BY <2>1, <2>2, <2>3 DEF CallIsAt
  <1>8. QED
    BY <1>2, <1>5, <1>7 DEF Keeps, Moves

-----------------------------------------------------------------------------
(* What a caller is told, and the invariant.                                *)

\* TypeOK after a step, part by part.
LEMMA TypePartsNext ==
    ASSUME DiskOK', ControlOK', OwnTemps', expired' \subseteq Pendings,
           told' \in Contents \cup {Unknown}
    PROVE  TypeOK'
  BY DEF TypeOK, DiskOK, ControlOK, OwnTemps

\* What every possible directory holds is all that a power loss may leave.
LEMMA OnlyOne ==
    ASSUME DiskIsWhole', possible' = {dir'} PROVE MayHold' = {Content(dir)'}
  BY MayHoldIsNext

\* An answer tells what the record is, and all that a power loss may leave.
LEMMA Tells ==
    ASSUME DiskOK, DiskIsWhole, ControlOK, NEW c \in Calls, CallIsAt(c), Steps(c),
           DiskOK', Quiet, ~Rename(c), ~UnlinkRecord(c)
    PROVE  told' = told \/ (told' = Content(dir) /\ MayHold' = {Content(dir)})
  <1>1. DiskIsWhole' /\ Content(dir)' = Content(dir)
    BY QuietKeeps
  <1>2. CASE Start(c)
    <2>1. CASE entry = "absent"
      <3>1. dir = Empty /\ possible' = {dir'} /\ told' = Absent
        BY <1>2, <2>1 DEF Start, DiskOK, DiskIsWhole, disk
      <3>2. QED
        BY <1>1, <3>1, OnlyOne DEF Content, Empty
    <2>2. CASE entry # "absent"
      BY <1>2, <2>2 DEF Start
    <2>3. QED
      BY <2>1, <2>2
  <1>3. CASE Tidied(c)
    BY <1>3 DEF Tidied, MustFlush
  <1>4. CASE Flush(c)
    <2>1. possible' = {dir'}
      BY <1>4 DEF Flush, Syncs
    <2>2. told' = told \/ (told' = Absent /\ dir.record = None)
      BY <1>4 DEF Flush, NothingToRemove
    <2>3. QED
      BY <1>1, <2>1, <2>2, OnlyOne DEF Content
  <1>5. CASE Confirm(c)
    <2>1. possible' = {dir'} /\ told' = Content(dir)
      BY <1>5 DEF Confirm, Syncs, CallIsAt, TargetIs
    <2>2. QED
      BY <1>1, <2>1, OnlyOne
  <1>6. CASE Read(c)
    <2>1. possible' = {dir'}
      BY <1>6 DEF Read, CallIsAt, TempsAre, disk
    <2>2. told' = told \/ told' = Content(dir)
      BY <1>6 DEF Read
    <2>3. QED
      BY <1>1, <2>1, <2>2, OnlyOne
  <1>7. CASE Look(c)
    <2>1. possible' = {dir'}
      BY <1>7 DEF Look, Syncs
    <2>2. told' = told \/ (told' = Absent /\ dir = Empty)
      BY <1>7 DEF Look
    <2>3. QED
      BY <1>1, <2>1, <2>2, OnlyOne DEF Content, Empty
  <1>8. CASE UNCHANGED told
    BY <1>8
  <1>9. QED
    BY <1>2, <1>3, <1>4, <1>5, <1>6, <1>7, <1>8
       DEF Steps, Opens, Tidies, Replaces, Settles, Reads, MakeDirectory, SyncDirectory,
       SyncParent, UnlinkTemp, TidyFails, CreateTemp, WriteTemp, SealTemp, ConfirmFails,
       WriteFails, UnlinkOwnTemp, Abandoned, LookFails, Fails

\* A call that takes a step has begun.
LEMMA StepsOfOne == ASSUME NEW c \in Calls, Steps(c) PROVE pc[c] # "idle"
  BY DEF Steps, Opens, Tidies, Replaces, Settles, Reads, Start, MakeDirectory,
     SyncDirectory,
     SyncParent, UnlinkTemp, Tidied, Tidying, Flush, TidyFails, CreateTemp, WriteTemp,
     SealTemp,
     Rename, Confirm, ConfirmFails, WriteFails, UnlinkOwnTemp, Abandoned, Read,
     UnlinkRecord,
     Look, LookFails, Fails

\* What a system call does to the cell: it updates the record, or leaves it, and
\* tells nothing but what holds.
CellUpdate(new) ==
    /\ Content(dir)' = new /\ MayHold' = MayHold \cup {new} /\ told' = Unknown

CellSettle ==
    /\ Content(dir)' = Content(dir) /\ MayHold' \subseteq MayHold /\ Content(dir) \in MayHold'
    /\ told' = told \/ (told' = Content(dir) /\ MayHold' = {Content(dir)})

\* A step of a call.
LEMMA StepKeeps ==
    ASSUME IInv, NEW c \in Calls, Steps(c)
    PROVE  /\ DiskOK' /\ DiskIsWhole' /\ Keeps(c) /\ expired' = expired
           /\ \/ CellSettle /\ ~Rename(c) /\ ~UnlinkRecord(c)
              \/ CellUpdate(call[c].target) /\ (Rename(c) \/ UnlinkRecord(c))
  <1>1. DiskOK /\ DiskIsWhole /\ ControlOK /\ CallIsAt(c)
    BY TypeParts DEF IInv
  <1>2. expired' = expired
    BY DEF Steps, Opens, Tidies, Replaces, Settles, Reads, Start, MakeDirectory,
       SyncDirectory,
       SyncParent, UnlinkTemp, Tidied, Flush, TidyFails, CreateTemp, WriteTemp, SealTemp,
       Rename, Confirm, ConfirmFails, WriteFails, UnlinkOwnTemp, Abandoned, Read,
       UnlinkRecord,
       Look, LookFails, Fails
  <1>3. CASE Rename(c) \/ UnlinkRecord(c)
    <2>1. told' = Unknown
      BY <1>3 DEF Rename, UnlinkRecord
    <2>2. QED
      BY <1>1, <1>2, <1>3, <2>1, UpdateSteps, UpdateCallKeeps DEF CellUpdate
  <1>4. CASE ~Rename(c) /\ ~UnlinkRecord(c)
    <2>1. DiskOK' /\ Quiet
      BY <1>1, <1>4, QuietSteps
    <2>2. Keeps(c)
      BY <1>1, <1>4, <2>1, GoingSteps, CreateKeeps, ReadKeeps
    <2>3. CellSettle
      BY <1>1, <1>4, <2>1, QuietKeeps, Tells DEF CellSettle
    <2>4. QED
      BY <1>1, <1>2, <1>4, <2>1, <2>2, <2>3, QuietKeeps
  <1>5. QED
    BY <1>3, <1>4

\* While one call moves the others are idle, and nothing is claimed of them.
LEMMA OneMoves ==
    ASSUME IInv, NEW c \in Calls, Keeps(c), pc[c] # "idle" \/ MayBegin
    PROVE  OneCall' /\ ControlOK' /\ OwnTemps' /\ \A e \in Calls : CallIsAt(e)'
  <1>1. PICK stage : pc' = [pc EXCEPT ![c] = stage]
    BY DEF Keeps, Moves
  <1>2. pc \in [Calls -> {"idle"} \cup Stages] /\ ControlOK' /\ CallIsAt(c)'
    BY TypeParts DEF IInv, ControlOK, Keeps
  <1>3. \A e \in Calls : e # c => pc'[e] = "idle"
    BY <1>1, <1>2 DEF IInv, OneCall, MayBegin
  <1>4. OneCall'
    BY <1>3 DEF OneCall
  <1>5. ASSUME NEW e \in Calls PROVE CallIsAt(e)'
    <2>1. CASE e = c
      BY <1>2, <2>1
    <2>2. CASE e # c
      <3>1. pc'[e] = "idle"
        BY <1>3, <2>2
      <3>2. QED
        BY <3>1 DEF CallIsAt, MethodIsAt, TempsAre, TargetIs, BeforeHolds
    <2>3. QED
      BY <2>1, <2>2
  <1>6. OwnTemps'
    BY <1>5 DEF OwnTemps, CallIsAt, TempsAre
  <1>7. QED
    BY <1>2, <1>4, <1>5, <1>6

\* What was told stays true of a cell that settles.
LEMMA SettlesTold ==
    ASSUME DiskOK, DiskIsWhole, told \in Contents \cup {Unknown}, ToldHolds, CellSettle
    PROVE  ToldHolds' /\ told' \in Contents \cup {Unknown}
  <1>1. Content(dir) \in Contents
    BY ContentTyped DEF DiskOK
  <1>2. CASE told' = told
    BY <1>2 DEF CellSettle, ToldHolds
  <1>3. CASE told' = Content(dir) /\ MayHold' = {Content(dir)}
    BY <1>1, <1>3 DEF ToldHolds
  <1>4. QED
    BY <1>2, <1>3 DEF CellSettle

\* A restart leaves no call.
LEMMA RestartKeeps ==
    ASSUME Restarts
    PROVE  OneCall' /\ ControlOK' /\ OwnTemps' /\ \A e \in Calls : CallIsAt(e)'
  <1>1. pc' = [c \in Calls |-> "idle"] /\ call' = [c \in Calls |-> NoCall] /\ outcome' = None
    BY DEF Restarts
  <1>2. \A e \in Calls : pc'[e] = "idle"
    BY <1>1
  <1>3. ControlOK'
    BY <1>1, NoCallTyped DEF ControlOK
  <1>4. OneCall' /\ OwnTemps'
    BY <1>2 DEF OneCall, OwnTemps
  <1>5. \A e \in Calls : CallIsAt(e)'
    BY <1>2 DEF CallIsAt, MethodIsAt, TempsAre, TargetIs, BeforeHolds
  <1>6. QED
    BY <1>3, <1>4, <1>5

\* A step that leaves the disk alone.
LEMMA StillSettles ==
    ASSUME DiskOK, DiskIsWhole, UNCHANGED disk, told' = told
    PROVE  DiskOK' /\ DiskIsWhole' /\ CellSettle /\ MayHold' = MayHold
  <1>1. MayHold' = MayHold
    BY DEF MayHold, Surviving, Content, disk
  <1>2. QED
    BY <1>1, StillQuiet, QuietKeeps DEF CellSettle

\* A new store is empty.
LEMMA InitInv == Init => IInv
  <1> SUFFICES ASSUME Init PROVE IInv
    OBVIOUS
  <1>1. DiskOK /\ DiskIsWhole
    BY EmptyTyped DEF Init, DiskOK, DiskIsWhole, Empty
  <1>2. ControlOK
    BY NoCallTyped DEF Init, ControlOK
  <1>3. \A c \in Calls : pc[c] = "idle"
    BY DEF Init
  <1>4. OneCall /\ OwnTemps
    BY <1>3 DEF OneCall, OwnTemps
  <1>5. \A c \in Calls : CallIsAt(c)
    BY <1>3 DEF CallIsAt, MethodIsAt, TempsAre, TargetIs, BeforeHolds
  <1>6. ToldHolds /\ told \in Contents \cup {Unknown} /\ expired \subseteq Pendings
    BY DEF Init, ToldHolds
  <1>7. QED
    BY <1>1, <1>2, <1>4, <1>5, <1>6, TypeParts DEF IInv

\* What happens to the cell in a step.
CellStep ==
    \/ CellSettle
    \/ \E new \in Contents : CellUpdate(new)
    \/ Content(dir)' \in MayHold /\ MayHold' = {Content(dir)'} /\ told' = told

\* Every step keeps the invariant, and is one of the cell.
LEMMA NextKeeps == IInv /\ [Next]_vars => IInv' /\ CellStep
  <1> SUFFICES ASSUME IInv, [Next]_vars PROVE IInv' /\ CellStep
    OBVIOUS
  <1>1. /\ DiskOK /\ DiskIsWhole /\ ControlOK /\ ToldHolds
        /\ expired \subseteq Pendings /\ told \in Contents \cup {Unknown}
    BY TypeParts DEF IInv
  <1>2. ASSUME NEW c \in Calls, Begin(c) PROVE IInv' /\ CellStep
    <2>1. Keeps(c) /\ UNCHANGED <<disk, expired, told>> /\ MayBegin
      BY <1>1, <1>2, BeginKeeps
    <2>2. DiskOK' /\ DiskIsWhole' /\ CellSettle
      BY <1>1, <2>1, StillSettles
    <2>3. ToldHolds' /\ told' \in Contents \cup {Unknown}
      BY <1>1, <2>2, SettlesTold
    <2>4. OneCall' /\ ControlOK' /\ OwnTemps' /\ \A e \in Calls : CallIsAt(e)'
      BY <2>1, OneMoves
    <2>5. QED
      BY <1>1, <2>1, <2>2, <2>3, <2>4, TypePartsNext DEF IInv, CellStep
  <1>3. ASSUME NEW c \in Calls, Steps(c) PROVE IInv' /\ CellStep
    <2>1. DiskOK' /\ DiskIsWhole' /\ Keeps(c) /\ expired' = expired /\ pc[c] # "idle"
      BY <1>3, StepKeeps, StepsOfOne
    <2>2. CellSettle \/ CellUpdate(call[c].target)
      BY <1>3, StepKeeps
    <2>3. ToldHolds' /\ told' \in Contents \cup {Unknown}
      BY <1>1, <2>2, SettlesTold DEF CellUpdate, ToldHolds
    <2>4. OneCall' /\ ControlOK' /\ OwnTemps' /\ \A e \in Calls : CallIsAt(e)'
      BY <2>1, OneMoves
    <2>5. call[c].target \in Contents
      BY <1>1 DEF ControlOK, Call
    <2>6. QED
      BY <1>1, <2>1, <2>2, <2>3, <2>4, <2>5, TypePartsNext DEF IInv, CellStep
  <1>4. CASE Expires \/ UNCHANGED vars
    <2>1. /\ UNCHANGED <<disk, calls, told>>
          /\ expired \subseteq expired' /\ expired' \subseteq Pendings
      BY <1>1, <1>4 DEF Expires, vars
    <2>2. DiskOK' /\ DiskIsWhole' /\ CellSettle /\ MayHold' = MayHold
      BY <1>1, <2>1, StillSettles
    <2>3. ToldHolds' /\ told' \in Contents \cup {Unknown}
      BY <1>1, <2>2, SettlesTold
    <2>4. UNCHANGED <<pc, call, outcome, dir, possible, files, entry>>
      BY <2>1 DEF calls, disk
    <2>5. OneCall' /\ ControlOK' /\ OwnTemps'
      BY <2>4, TypeParts DEF IInv, OneCall, ControlOK, OwnTemps
    <2>6. ASSUME NEW e \in Calls PROVE CallIsAt(e)'
      <3>1. CallIsAt(e)
        BY DEF IInv
      <3>2. MethodIsAt(e)' /\ TempsAre(e)'
        BY <2>4, <3>1 DEF CallIsAt, MethodIsAt, TempsAre
      <3>3. TargetIs(e)'
        BY <2>1, <2>4, <3>1 DEF CallIsAt, TargetIs, Unexpired, Content
      <3>4. BeforeHolds(e)'
        BY <2>2, <2>4, <3>1 DEF CallIsAt, BeforeHolds
      <3>5. QED
        BY <3>2, <3>3, <3>4 DEF CallIsAt
    <2>7. QED
      BY <2>1, <2>2, <2>3, <2>5, <2>6, TypePartsNext DEF IInv, CellStep
  <1>5. CASE Killed
    <2>1. Restarts /\ UNCHANGED <<disk, expired, told>>
      BY <1>5 DEF Killed
    <2>2. DiskOK' /\ DiskIsWhole' /\ CellSettle
      BY <1>1, <2>1, StillSettles
    <2>3. ToldHolds' /\ told' \in Contents \cup {Unknown}
      BY <1>1, <2>2, SettlesTold
    <2>4. QED
      BY <1>1, <2>1, <2>2, <2>3, RestartKeeps, TypePartsNext DEF IInv, CellStep
  <1>6. CASE PowerLost
    <2>1. /\ DiskOK' /\ DiskIsWhole' /\ Content(dir)' \in MayHold
          /\ MayHold' = {Content(dir)'} /\ told' = told /\ expired' = expired /\ Restarts
      BY <1>1, <1>6, LossKeeps DEF PowerLost
    <2>2. ToldHolds'
      BY <1>1, <2>1 DEF ToldHolds
    <2>3. QED
      BY <1>1, <2>1, <2>2, RestartKeeps, TypePartsNext DEF IInv, CellStep
  <1>7. QED
    BY <1>2, <1>3, <1>4, <1>5, <1>6 DEF Next

-----------------------------------------------------------------------------
(* What an answer means.                                                    *)

\* An outcome is one.
LEMMA NoneIsNoOutcome == None \notin Outcomes /\ {"done", "failed"} \subseteq Outcomes
  BY ProStoreConstants DEF ProStoreConstants, Outcomes

\* A call that settles took the step itself: a restart leaves no outcome, and while
\* a call runs no other does.
LEMMA SettlesItself ==
    ASSUME IInv, [Next]_vars, NEW c \in Calls, Settled(c), outcome' # None
    PROVE  Steps(c)
  <1>1. pc[c] # "idle" /\ pc'[c] # pc[c]
    BY DEF Settled
  <1>2. ~Expires /\ ~UNCHANGED vars
    BY <1>1 DEF Expires, calls, vars
  <1>3. ~Killed /\ ~PowerLost
    BY DEF Killed, PowerLost, Restarts
  <1>4. ASSUME NEW e \in Calls, Begin(e) PROVE FALSE
    BY <1>4, <1>1 DEF Begin, Save, Load, Remove, Inspect, Begins, MayBegin
  <1>5. ASSUME NEW e \in Calls, Steps(e) PROVE e = c
    BY <1>1, <1>5, StepsOfOne DEF IInv, OneCall
  <1>6. QED
    BY <1>2, <1>3, <1>4, <1>5 DEF Next

\* A call that was not cut off, and during which the record changed, changed it.
LEMMA ChangesItself ==
    ASSUME IInv, [Next]_vars, NEW c \in Calls, pc[c] # "idle",
           pc'[c] # "idle" \/ outcome' # None, Content(dir)' # Content(dir)
    PROVE  Rename(c) \/ UnlinkRecord(c)
  <1>1. DiskOK /\ DiskIsWhole /\ ControlOK
    BY TypeParts DEF IInv
  <1>2. ~UNCHANGED disk
    BY DEF disk, Content
  <1>3. ~Expires /\ ~UNCHANGED vars
    BY <1>2 DEF Expires, vars
  <1>4. ~Killed /\ ~PowerLost
    BY DEF Killed, PowerLost, Restarts
  <1>5. ASSUME NEW e \in Calls, Begin(e) PROVE FALSE
    BY <1>1, <1>2, <1>5, BeginKeeps
  <1>6. ASSUME NEW e \in Calls, Steps(e) PROVE Rename(c) \/ UnlinkRecord(c)
    <2>1. e = c
      BY <1>6, StepsOfOne DEF IInv, OneCall
    <2>2. QED
      BY <1>6, <2>1, StepKeeps DEF CellSettle
  <1>7. QED
    BY <1>3, <1>4, <1>5, <1>6 DEF Next

\* A call that is done confirmed a directory without temporary files.
LEMMA DoneIsTidy ==
    ASSUME IInv, NEW c \in Calls, Steps(c), Settled(c), outcome' = "done"
    PROVE  \A d \in possible' : d.temps = {}
  <1>1. DiskOK /\ DiskIsWhole /\ ControlOK /\ CallIsAt(c) /\ pc'[c] = "idle"
    BY TypeParts DEF IInv, Settled
  <1>2. Empty.temps = {}
    BY DEF Empty
  <1>3. "idle" \notin Stages
    BY DEF Stages
  <1>4. \A stage \in Stages : ~Goes(c, stage)
    BY <1>1, <1>3 DEF Goes, ControlOK
  <1>5. ~CreateTemp(c) /\ ~WriteTemp(c) /\ ~SealTemp(c) /\ ~Rename(c) /\ ~UnlinkRecord(c)
        /\ ~WriteFails(c) /\ ~UnlinkTemp(c) /\ ~SyncDirectory(c) /\ ~SyncParent(c)
    <2>1. ~CreateTemp(c)
      BY <1>1 DEF CreateTemp, ControlOK
    <2>2. QED
      BY <1>4, <2>1 DEF WriteTemp, SealTemp, Rename, UnlinkRecord, WriteFails, UnlinkTemp,
         SyncDirectory, SyncParent, Stages
  <1>6. ~MakeDirectory(c) /\ ~TidyFails(c) /\ ~ConfirmFails(c) /\ ~UnlinkOwnTemp(c)
        /\ ~Abandoned(c) /\ ~LookFails(c) /\ ~Fails(c)
    BY <1>4 DEF MakeDirectory, TidyFails, ConfirmFails, UnlinkOwnTemp, Abandoned, LookFails,
       Fails, Ends, Stages
  <1>7. CASE Start(c)
    <2>1. entry = "absent" /\ possible' = possible
      BY <1>4, <1>7 DEF Start, Stages, disk
    <2>2. QED
      BY <1>1, <1>2, <2>1 DEF DiskIsWhole
  <1>8. CASE Tidied(c)
    <2>1. ~MustFlush(c) /\ NothingToRemove(c)
      <3>1. AfterTidying(c) \in Stages /\ "flushing" \in Stages
        BY DEF AfterTidying, Stages
      <3>2. QED
        BY <1>4, <1>8, <3>1 DEF Tidied
    <2>2. QED
      BY <2>1 DEF MustFlush
  <1>9. CASE Flush(c) \/ Confirm(c)
    <2>1. pc[c] \in {"flushing", "confirming"} /\ possible' = {dir}
      BY <1>9 DEF Flush, Confirm, Syncs
    <2>2. QED
      BY <1>1, <2>1 DEF CallIsAt, TempsAre
  <1>10. CASE Read(c)
    <2>1. pc[c] = "reading" /\ possible' = possible
      BY <1>10 DEF Read, disk
    <2>2. QED
      BY <1>1, <2>1 DEF CallIsAt, TempsAre
  <1>11. CASE Look(c)
    <2>1. possible' = {dir} /\ dir = Empty
      BY <1>11 DEF Look, Syncs, Ends
    <2>2. QED
      BY <1>2, <2>1
  <1>12. QED
    BY <1>5, <1>6, <1>7, <1>8, <1>9, <1>10, <1>11 DEF Steps, Opens, Tidies, Replaces,
       Settles,
       Reads

\* A call that failed plainly left the record as it was.
LEMMA FailedIsPlain ==
    ASSUME IInv, NEW c \in Calls, Steps(c), Settled(c), outcome' = "failed"
    PROVE  MayHold' \subseteq call[c].before
  <1>1. ControlOK /\ CallIsAt(c) /\ pc[c] # "idle" /\ pc'[c] = "idle"
    BY TypeParts DEF IInv, Settled
  <1>2. pc[c] # "confirming"
    <2>1. SUFFICES ASSUME pc[c] = "confirming" PROVE FALSE
      OBVIOUS
    <2>2. Confirm(c) \/ ConfirmFails(c)
      BY <2>1 DEF Steps, Opens, Tidies, Replaces, Settles, Reads, Start, MakeDirectory,
         SyncDirectory, SyncParent, UnlinkTemp, Tidied, Tidying, Flush, TidyFails,
         CreateTemp,
         WriteTemp, SealTemp, Rename, WriteFails, UnlinkOwnTemp, Abandoned, Read,
         UnlinkRecord,
         Look, LookFails, Fails
    <2>3. QED
      BY <2>2 DEF Confirm, ConfirmFails, Ends
  <1>3. ~Rename(c) /\ ~UnlinkRecord(c)
    BY <1>1 DEF Rename, UnlinkRecord, Goes, ControlOK
  <1>4. MayHold' \subseteq MayHold
    BY <1>3, StepKeeps DEF CellSettle
  <1>5. QED
    BY <1>1, <1>2, <1>4 DEF CallIsAt, BeforeHolds

\* A load changes the record only to relieve it of what has expired.
LEMMA LoadIsQuiet ==
    ASSUME IInv, [Next]_vars, NEW c \in Calls, call[c].goal = "load",
           pc'[c] # "idle" \/ outcome' # None
    PROVE  \/ Content(dir)' = Content(dir)
           \/ /\ Content(dir).pending \in expired
              /\ Content(dir)' = Unexpired(Content(dir))
  <1> SUFFICES ASSUME Content(dir)' # Content(dir)
               PROVE  /\ Content(dir).pending \in expired
                      /\ Content(dir)' = Unexpired(Content(dir))
    OBVIOUS
  <1>1. DiskOK /\ DiskIsWhole /\ ControlOK /\ CallIsAt(c)
    BY TypeParts DEF IInv
  <1>2. pc[c] # "idle"
    BY <1>1 DEF ControlOK
  <1>3. Rename(c) \/ UnlinkRecord(c)
    BY <1>2, ChangesItself
  <1>4. pc[c] \in {"renaming", "unlinking"} /\ call[c].does \in {"save", "remove"}
    BY <1>1, <1>3 DEF Rename, UnlinkRecord, CallIsAt, MethodIsAt
  <1>5. Content(dir)' = call[c].target
    BY <1>1, <1>3, UpdateSteps
  <1>6. QED
    BY <1>1, <1>4, <1>5 DEF CallIsAt, TargetIs

-----------------------------------------------------------------------------
(* The theorems.                                                            *)

\* The invariant of pro-store.js holds in every state.
THEOREM Invariance == Spec => []IInv
  <1>1. QED
    BY InitInv, NextKeeps, PTL DEF Spec

\* What a caller was told the store holds is what any crash leaves, until a later
\* call changes the record.
THEOREM ToldIsDurableHolds == Spec => []ToldIsDurable
  <1>1. IInv => ToldIsDurable
    BY DEF IInv, ToldHolds, ToldIsDurable
  <1>2. QED
    BY <1>1, Invariance, PTL

\* An answer means what it says: a success leaves no temporary file to come back, a
\* plain failure left the record as it was, and a load never costs the license key.
THEOREM AnswersHoldHolds == Spec => AnswersHold
  <1> DEFINE Tidy == \A c \in Calls : Settled(c) /\ outcome' = "done" =>
                       \A d \in possible' : d.temps = {}
             Plain == \A c \in Calls : Settled(c) /\ outcome' = "failed" =>
                        MayHold' \subseteq call[c].before
             Kept == \A c \in Calls : call[c].goal = "load" /\ (pc'[c] # "idle" \/ outcome' # None) =>
                       Content(dir)' = Content(dir)
                       \/ /\ Content(dir).pending \in expired
                          /\ Content(dir)' = [Content(dir) EXCEPT !.pending = None]
  <1>1. IInv /\ [Next]_vars => Tidy
    <2> SUFFICES ASSUME IInv, [Next]_vars, NEW c \in Calls, Settled(c), outcome' = "done"
                 PROVE  \A d \in possible' : d.temps = {}
      OBVIOUS
    <2>1. Steps(c)
      BY SettlesItself, NoneIsNoOutcome
    <2>2. QED
      BY <2>1, DoneIsTidy
  <1>2. IInv /\ [Next]_vars => Plain
    <2> SUFFICES ASSUME IInv, [Next]_vars, NEW c \in Calls, Settled(c), outcome' = "failed"
                 PROVE  MayHold' \subseteq call[c].before
      OBVIOUS
    <2>1. Steps(c)
      BY SettlesItself, NoneIsNoOutcome
    <2>2. QED
      BY <2>1, FailedIsPlain
  <1>3. IInv /\ [Next]_vars => Kept
    BY LoadIsQuiet DEF Unexpired
  <1> HIDE DEF Tidy, Plain, Kept
  <1>4. Spec => [][Tidy]_vars /\ [][Plain]_vars /\ [][Kept]_vars
    BY <1>1, <1>2, <1>3, Invariance, PTL DEF Spec
  <1>5. QED
    BY <1>4 DEF AnswersHold, AnswersAreTidy, PlainFailureKeeps, LoadKeepsKey, Tidy, Plain,
       Kept

\* An empty store is an empty cell.
LEMMA InitCell == Init => Cell!CellInit
  <1> SUFFICES ASSUME Init PROVE Cell!CellInit
    OBVIOUS
  <1>1. DiskIsWhole /\ possible = {dir} /\ dir = Empty /\ told = Unknown
    BY InitInv DEF Init, IInv
  <1>2. Content(dir) = Absent /\ MayHold = {Content(dir)}
    BY <1>1, MayHoldIs DEF Content, Empty
  <1>3. QED
    BY <1>1, <1>2, EmptyTyped DEF Cell!CellInit

\* pro-store.js is the cell that it promises: an update shows whole, a power loss may
\* bring back only what was not confirmed, and never undoes an answer.
THEOREM StoreImplementsCell == Spec => ImplementsCell
  <1>1. CellStep => Cell!CellNext
    BY DEF CellStep, CellSettle, CellUpdate, Cell!CellNext, Cell!Settle, Cell!Lose,
       Cell!Update
  <1>2. IInv /\ [Next]_vars => [Cell!CellNext]_(Cell!cellVars)
    BY <1>1, NextKeeps
  <1>3. QED
    BY <1>2, InitCell, Invariance, PTL DEF Spec, ImplementsCell, Cell!CellSpec
=================================================================================
