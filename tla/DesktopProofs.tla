--------------------------- MODULE DesktopProofs ---------------------------
(***************************************************************************)
(* Theorems about the main process of Desktop.tla, for any set of instances *)
(* and any bound on waiting requests.                                       *)
(***************************************************************************)
EXTENDS Desktop, TLAPS

USE DesktopConstants

-----------------------------------------------------------------------------
(* Types.  The variables change in groups, by the operators below.          *)

\* The turn and what its owner holds; the callers that it settles;
TurnOK ==
    /\ owner \in Ops \cup {Idle}
    /\ pc \in Places
    /\ pc = "idle" <=> owner = Idle
    /\ held \in Daemons \cup {None}
    /\ failed \in BOOLEAN
    /\ folder \in {"none", "picking", "pending"}
    /\ updater \in {"idle", "preparing", "installing", "recovering"}

\* the instances;
TreeOK ==
    /\ life \in [Daemons -> Lives]
    /\ daemon \in Daemons \cup {None}
    /\ origin \in Daemons \cup {None}

\* the flags and the gate;
FlagsOK ==
    /\ win \in BOOLEAN /\ quitting \in BOOLEAN /\ blocked \in BOOLEAN
    /\ stale \in BOOLEAN /\ stopError \in {"none", "unproved", "retirement"}
    /\ startup \in {"support", "asked"}
    /\ gate \in {"open", "cleaning", "cleaned", "exited"}

\* and the coordinator.
QueueOK ==
    /\ closing \in BOOLEAN
    /\ queue \in Seq(Ops)

\* TypeOK of Desktop in these groups.
LEMMA TypeGroups ==
    /\ TypeOK => TurnOK /\ TreeOK /\ FlagsOK /\ QueueOK
    /\ TurnOK' /\ TreeOK' /\ FlagsOK' /\ QueueOK' => TypeOK'
  BY DEF TypeOK, TurnOK, TreeOK, FlagsOK, QueueOK

\* Idle is no transition, and the kinds are what Op makes transitions of.
LEMMA OpsFacts ==
    /\ Idle \notin Ops
    /\ \A k \in Kinds : Op(k) \in Ops
    /\ \A op \in Ops : op.kind \in Kinds
  BY DEF Ops, Kinds, Idle, Op

\* Queues of transitions stay such.
LEMMA QueueTyped ==
    /\ \A q \in Seq(Ops), op \in Ops : Append(q, op) \in Seq(Ops)
    /\ \A q \in Seq(Ops) : q # <<>> => Head(q) \in Ops /\ Tail(q) \in Seq(Ops)
  OBVIOUS

\* What a queue holds once a transition is appended.
LEMMA AppendEntries ==
    ASSUME NEW q \in Seq(Ops), NEW op \in Ops
    PROVE  \A i \in DOMAIN Append(q, op) :
             \/ i \in DOMAIN q /\ Append(q, op)[i] = q[i]
             \/ i = Len(q) + 1 /\ Append(q, op)[i] = op
  OBVIOUS

\* The operation returns: the turn is free, its caller settled.
LEMMA ReturnTyped ==
    ASSUME TurnOK, NEW ok \in BOOLEAN, Return(ok)
    PROVE  TurnOK'
  BY DEF TurnOK, Return, SettleCaller, Places, Dialogs

\* The owner waits at another place.
LEMMA AwaitTyped ==
    ASSUME TurnOK, owner # Idle, NEW place \in Places \ {"idle"}, Await(place),
           held' \in Daemons \cup {None}, failed' \in BOOLEAN
    PROVE  TurnOK'
  BY DEF TurnOK, Await, Places, Dialogs

\* boot() returns, or shows a notice.
LEMMA BootReturnsTyped ==
    ASSUME TurnOK, owner # Idle, NEW ok \in BOOLEAN, BootReturns(ok)
    PROVE  TurnOK'
  <1>1. CASE Return(ok)
    BY <1>1, ReturnTyped
  <1>2. CASE Await("noticeDialog") /\ held' = None /\ failed' = FALSE
    BY <1>2, AwaitTyped DEF Places, Dialogs
  <1> QED BY <1>1, <1>2 DEF BootReturns

\* boot() begins.
LEMMA CallBootTyped ==
    ASSUME TurnOK, owner # Idle, CallBoot
    PROVE  TurnOK' /\ (stale' = stale \/ stale' = FALSE)
  <1>1. CASE BootReturns(FALSE) /\ UNCHANGED stale
    BY <1>1, BootReturnsTyped
  <1>2. CASE stale' = FALSE /\ held' = None /\ failed' = FALSE /\ Await("loading")
    BY <1>2, AwaitTyped DEF Places
  <1> QED BY <1>1, <1>2 DEF CallBoot

\* The user is asked about a failed cleanup.
LEMMA CleanupFailureTyped ==
    ASSUME TurnOK, owner # Idle, CleanupFailure
    PROVE  TurnOK'
  <1>1. CASE Return(FALSE)
    BY <1>1, ReturnTyped
  <1>2. CASE Await("cleanupDialog") /\ held' = None /\ failed' = FALSE
    BY <1>2, AwaitTyped DEF Places, Dialogs
  <1> QED BY <1>1, <1>2 DEF CleanupFailure

\* stop() moves one instance.
LEMMA StopTyped ==
    ASSUME TreeOK, NEW d \in Daemons, Stop(d)
    PROVE  life' \in [Daemons -> Lives]
  BY DEF TreeOK, Stop, Lives

\* retire() stops the instance that is held.
LEMMA RetireTyped ==
    ASSUME TurnOK, TreeOK, owner # Idle, held # None, NEW b \in BOOLEAN, Retire(b)
    PROVE  TurnOK' /\ life' \in [Daemons -> Lives]
  <1>1. held \in Daemons
    BY DEF TurnOK
  <1>2. life' \in [Daemons -> Lives]
    BY <1>1, StopTyped DEF Retire
  <1>3. TurnOK'
    BY AwaitTyped DEF Retire, TurnOK, Places
  <1> QED BY <1>2, <1>3

\* What follows once the daemon was stopped;
LEMMA AfterStopTyped ==
    ASSUME TurnOK, FlagsOK, owner # Idle, NEW clean \in BOOLEAN, AfterStop(clean)
    PROVE  /\ TurnOK'
           /\ quitting' \in BOOLEAN /\ stale' \in BOOLEAN /\ stopError' \in {"none", "unproved", "retirement"}
           /\ gate' \in {"open", "cleaning", "cleaned", "exited"}
  <1>1. quitting' \in BOOLEAN /\ stopError' \in {"none", "unproved", "retirement"}
        /\ gate' \in {"open", "cleaning", "cleaned", "exited"}
    BY DEF AfterStop, FlagsOK
  <1>2. CASE Return(clean) /\ UNCHANGED stale
    BY <1>1, <1>2, ReturnTyped DEF FlagsOK
  <1>3. CASE CleanupFailure /\ UNCHANGED stale
    BY <1>1, <1>3, CleanupFailureTyped DEF FlagsOK
  <1>4. CASE Return(FALSE) /\ UNCHANGED stale
    BY <1>1, <1>4, ReturnTyped DEF FlagsOK
  <1>5. CASE Await("store") /\ held' = None /\ UNCHANGED failed /\ UNCHANGED stale
    BY <1>1, <1>5, AwaitTyped DEF FlagsOK, Places, TurnOK
  <1>6. CASE CallBoot
    BY <1>1, <1>6, CallBootTyped DEF FlagsOK
  <1> QED BY <1>2, <1>3, <1>4, <1>5, <1>6 DEF AfterStop

\* and the stop itself.
LEMMA StopFirstTyped ==
    ASSUME TurnOK, TreeOK, FlagsOK, owner # Idle, StopFirst
    PROVE  /\ TurnOK' /\ TreeOK'
           /\ quitting' \in BOOLEAN /\ stale' \in BOOLEAN /\ stopError' \in {"none", "unproved", "retirement"}
           /\ gate' \in {"open", "cleaning", "cleaned", "exited"}
  <1>1. daemon' = None /\ origin' = None
    BY DEF StopFirst
  <1>2. CASE daemon = None
    BY <1>1, <1>2, AfterStopTyped DEF StopFirst, TreeOK
  <1>3. CASE daemon # None
    <2>1. life' \in [Daemons -> Lives]
      BY <1>3, StopTyped DEF StopFirst, TreeOK
    <2>2. TurnOK'
      BY <1>3, AwaitTyped DEF StopFirst, TurnOK, TreeOK, Places
    <2> QED BY <1>1, <1>3, <2>1, <2>2 DEF StopFirst, TreeOK, FlagsOK
  <1> QED BY <1>2, <1>3

\* An operation gives up.
LEMMA GiveUpTyped ==
    ASSUME TurnOK, TreeOK, FlagsOK, GiveUp, UNCHANGED startup
    PROVE  TurnOK' /\ TreeOK' /\ FlagsOK'
  BY ReturnTyped DEF GiveUp, TreeOK, FlagsOK, app

\* A removal reports that it is uncertain.
LEMMA UncertainRemovalTyped ==
    ASSUME TurnOK, TreeOK, FlagsOK, owner # Idle, UncertainRemoval, UNCHANGED startup
    PROVE  TurnOK' /\ TreeOK' /\ FlagsOK'
  <1>1. CASE Return(FALSE)
    BY <1>1, ReturnTyped DEF UncertainRemoval, TreeOK, FlagsOK, app
  <1>2. CASE Await("removalDialog") /\ held' = None /\ UNCHANGED failed
    <2>1. TurnOK'
      BY <1>2, AwaitTyped DEF TurnOK, Places, Dialogs
    <2> QED BY <2>1 DEF UncertainRemoval, TreeOK, FlagsOK, app
  <1> QED BY <1>1, <1>2 DEF UncertainRemoval

\* A quit event queues the cleanup.
LEMMA QuitEventTyped ==
    ASSUME QueueOK, FlagsOK, QuitEvent
    PROVE  /\ QueueOK'
           /\ quitting' \in BOOLEAN /\ stale' \in BOOLEAN /\ origin' = None
           /\ gate' \in {"open", "cleaning", "cleaned", "exited"}
  BY OpsFacts, QueueTyped DEF QueueOK, FlagsOK, QuitEvent, Kinds

\* lifecycle.run() queues a transition.
LEMMA RunTyped ==
    ASSUME QueueOK, NEW op \in Ops, Run(op)
    PROVE  queue' \in Seq(Ops)
  BY QueueTyped DEF QueueOK, Run

-----------------------------------------------------------------------------
\* Every step of boot() keeps the types.
LEMMA BootTyped ==
    ASSUME TypeOK,
           \/ LoadingPage \/ Started \/ StartFails \/ StartRejects
           \/ PageLoaded \/ PageFails \/ Retired,
           held # None <=> pc \in {"stopping", "starting", "startFailed", "page", "retiring"}
    PROVE  TypeOK'
  <1>1. TurnOK /\ TreeOK /\ FlagsOK /\ QueueOK
    BY TypeGroups
  <1>2. owner # Idle
    BY <1>1 DEF TurnOK, LoadingPage, Started, StartFails, StartRejects, PageLoaded,
                PageFails, Retired
  <1>3. CASE LoadingPage
    <2>1. QueueOK' /\ FlagsOK'
      BY <1>1, <1>3 DEF LoadingPage, QueueOK, FlagsOK
    <2>2. CASE BootReturns(FALSE) /\ UNCHANGED <<daemon, life>>
      BY <1>1, <1>2, <1>3, <2>1, <2>2, BootReturnsTyped, TypeGroups DEF LoadingPage, TreeOK
    <2>3. CASE Await("loadingDialog") /\ UNCHANGED <<daemon, life, held, failed>>
      <3>1. TurnOK'
        BY <1>1, <1>2, <2>3, AwaitTyped DEF TurnOK, Places, Dialogs
      <3> QED BY <1>1, <1>3, <2>1, <2>3, <3>1, TypeGroups DEF LoadingPage, TreeOK
    <2>4. ASSUME NEW d \in Daemons,
                 life' = [e \in Daemons |-> IF e = d THEN "starting"
                                           ELSE IF e = daemon THEN "lost" ELSE life[e]],
                 daemon' = d, held' = d, Await("starting"), UNCHANGED failed
          PROVE  TypeOK'
      <3>1. TurnOK'
        BY <1>1, <1>2, <2>4, AwaitTyped DEF TurnOK, Places
      <3>2. TreeOK'
        BY <1>1, <1>3, <2>4 DEF LoadingPage, TreeOK, Lives
      <3> QED BY <2>1, <3>1, <3>2, TypeGroups
    <2> QED BY <1>3, <2>2, <2>3, <2>4 DEF LoadingPage
  <1>4. CASE Started
    <2>1. QueueOK' /\ FlagsOK'
      BY <1>1, <1>4 DEF Started, QueueOK, FlagsOK
    <2>2. held \in Daemons /\ held # None
      BY <1>1, <1>4 DEF Started, TurnOK
    <2>3. ASSUME NEW b \in BOOLEAN, Retire(b), UNCHANGED origin
          PROVE  TypeOK'
      BY <1>1, <1>2, <1>4, <2>1, <2>2, <2>3, RetireTyped, TypeGroups DEF Started, TreeOK
    <2>4. CASE /\ life' = [life EXCEPT ![held] = "up"]
               /\ origin' = held
               /\ Await("page")
               /\ UNCHANGED <<held, failed>>
      <3>1. TurnOK'
        BY <1>1, <1>2, <2>4, AwaitTyped DEF TurnOK, Places
      <3>2. TreeOK'
        BY <1>1, <1>4, <2>2, <2>4 DEF Started, TreeOK, Lives
      <3> QED BY <2>1, <3>1, <3>2, TypeGroups
    <2> QED BY <1>4, <2>3, <2>4 DEF Started
  <1>5. CASE StartFails
    <2>1. QueueOK' /\ FlagsOK'
      BY <1>1, <1>5 DEF StartFails, QueueOK, FlagsOK, app
    <2>2. TurnOK'
      BY <1>1, <1>2, <1>5, AwaitTyped DEF StartFails, TurnOK, Places
    <2>3. TreeOK'
      BY <1>1, <1>5 DEF StartFails, TreeOK, Lives, app
    <2> QED BY <2>1, <2>2, <2>3, TypeGroups
  <1>6. CASE StartRejects
    <2>1. QueueOK' /\ FlagsOK'
      BY <1>1, <1>6 DEF StartRejects, QueueOK, FlagsOK, app
    <2> QED BY <1>1, <1>2, <1>6, <2>1, RetireTyped, TypeGroups DEF StartRejects, TreeOK, app
  <1>7. CASE PageLoaded \/ PageFails
    <2>1. QueueOK' /\ FlagsOK' /\ UNCHANGED <<daemon, origin>> /\ held # None
      BY <1>1, <1>7 DEF PageLoaded, PageFails, QueueOK, FlagsOK, app
    <2>2. ASSUME NEW ok \in BOOLEAN, BootReturns(ok), UNCHANGED life
          PROVE  TypeOK'
      BY <1>1, <1>2, <2>1, <2>2, BootReturnsTyped, TypeGroups DEF TreeOK
    <2>3. ASSUME NEW b \in BOOLEAN, Retire(b)
          PROVE  TypeOK'
      BY <1>1, <1>2, <2>1, <2>3, RetireTyped, TypeGroups DEF TreeOK
    <2> QED BY <1>7, <2>2, <2>3 DEF PageLoaded, PageFails
  <1>8. CASE Retired
    <2>1. QueueOK' /\ FlagsOK' /\ TreeOK'
      BY <1>1, <1>8 DEF Retired, QueueOK, FlagsOK, TreeOK
    <2>2. CASE CleanupFailure
      BY <1>1, <1>2, <2>1, <2>2, CleanupFailureTyped, TypeGroups
    <2>3. CASE Await("bootDialog") /\ held' = None /\ failed' = FALSE
      BY <1>1, <1>2, <2>1, <2>3, AwaitTyped, TypeGroups DEF Places, Dialogs
    <2>4. CASE BootReturns(FALSE)
      BY <1>1, <1>2, <2>1, <2>4, BootReturnsTyped, TypeGroups
    <2> QED BY <1>8, <2>2, <2>3, <2>4 DEF Retired
  <1> QED BY <1>3, <1>4, <1>5, <1>6, <1>7, <1>8

\* So does every transition that begins, and whatever it does when its stop, its
\* save or its store has settled.
LEMMA TransitionTyped ==
    ASSUME TypeOK,
           \/ StopSettles \/ RestartBegins \/ FolderBegins \/ ProBegins \/ ProSaved
           \/ RemovalBegins \/ RemovalStored \/ InstallBegins
           \/ RecoveryBegins \/ RecoveryReady \/ CrashBegins \/ QuitBegins
    PROVE  TypeOK'
  <1>1. TurnOK /\ TreeOK /\ FlagsOK /\ QueueOK
    BY TypeGroups
  <1>2. owner # Idle
    BY <1>1 DEF TurnOK, AtStart, StopSettles, RestartBegins, FolderBegins, ProBegins,
                ProSaved, RemovalBegins, RemovalStored, InstallBegins, RecoveryBegins,
                RecoveryReady, CrashBegins, QuitBegins
  <1>3. QueueOK'
    BY <1>1 DEF QueueOK, StopSettles, RestartBegins, FolderBegins, ProBegins,
                ProSaved, RemovalBegins, RemovalStored, InstallBegins, RecoveryBegins,
                RecoveryReady, CrashBegins, QuitBegins
  <1>0. startup' = startup
    BY DEF StopSettles, RestartBegins, FolderBegins, ProBegins, ProSaved, RemovalBegins,
           RemovalStored, InstallBegins, RecoveryBegins, RecoveryReady, CrashBegins,
           QuitBegins
  <1>4. CASE GiveUp
    BY <1>0, <1>1, <1>3, <1>4, GiveUpTyped, TypeGroups
  <1>5. CASE UncertainRemoval
    BY <1>0, <1>1, <1>2, <1>3, <1>5, UncertainRemovalTyped, TypeGroups
  <1>6. CASE StopFirst /\ UNCHANGED <<win, blocked>>
    <2>1. FlagsOK'
      BY <1>0, <1>1, <1>2, <1>6, StopFirstTyped DEF FlagsOK
    <2> QED BY <1>0, <1>1, <1>2, <1>3, <1>6, <2>1, StopFirstTyped, TypeGroups
  <1>7. CASE StopSettles
    <2>1. TreeOK'
      BY <1>0, <1>1, <1>7 DEF StopSettles, TreeOK
    <2>2. TurnOK' /\ FlagsOK'
      BY <1>0, <1>1, <1>2, <1>7, AfterStopTyped DEF StopSettles, FlagsOK
    <2> QED BY <1>3, <2>1, <2>2, TypeGroups
  <1>8. ASSUME CallBoot, origin' = None \/ origin' = origin,
               UNCHANGED <<win, quitting, blocked, daemon, life, gate, stopError>>
        PROVE  TypeOK'
    <2>1. TreeOK'
      BY <1>0, <1>1, <1>8 DEF TreeOK
    <2>2. TurnOK' /\ FlagsOK'
      BY <1>0, <1>1, <1>2, <1>8, CallBootTyped DEF FlagsOK
    <2> QED BY <1>3, <2>1, <2>2, TypeGroups
  <1>9. ASSUME CleanupFailure, origin' = None,
               UNCHANGED <<win, quitting, blocked, stale, daemon, life, gate, stopError>>
        PROVE  TypeOK'
    <2>1. TreeOK' /\ FlagsOK'
      BY <1>0, <1>1, <1>9 DEF TreeOK, FlagsOK
    <2> QED BY <1>0, <1>1, <1>2, <1>3, <1>9, <2>1, CleanupFailureTyped, TypeGroups
  <1>10. ASSUME NEW place \in {"saving", "support", "crashDialog"}, Await(place),
                quitting' = quitting \/ quitting' = FALSE,
                UNCHANGED <<win, blocked, stale, daemon, origin, life, held, failed,
                            gate, stopError>>
         PROVE  TypeOK'
    <2>1. TreeOK' /\ FlagsOK'
      BY <1>0, <1>1, <1>10 DEF TreeOK, FlagsOK
    <2>2. place \in Places \ {"idle"} /\ held' \in Daemons \cup {None} /\ failed' \in BOOLEAN
      BY <1>0, <1>1, <1>10 DEF TurnOK, Places, Dialogs
    <2> QED BY <1>0, <1>1, <1>2, <1>3, <1>10, <2>1, <2>2, AwaitTyped, TypeGroups
  <1>11. CASE RecoveryReady /\ BootReturns(TRUE) /\ UNCHANGED <<origin, stale>>
    <2>1. TreeOK' /\ FlagsOK'
      BY <1>0, <1>1, <1>11 DEF RecoveryReady, TreeOK, FlagsOK
    <2> QED BY <1>0, <1>1, <1>2, <1>3, <1>11, <2>1, BootReturnsTyped, TypeGroups
  <1>12. CASE /\ Return(FALSE)
              /\ gate' = "cleaned"
              /\ stopError' = "retirement"
              /\ UNCHANGED <<app, life>>
    <2>1. TreeOK' /\ FlagsOK'
      BY <1>0, <1>1, <1>12 DEF TreeOK, FlagsOK, app
    <2> QED BY <1>0, <1>1, <1>3, <1>12, <2>1, ReturnTyped, TypeGroups
  <1>13. CASE RestartBegins
    BY <1>8, <1>13 DEF RestartBegins
  <1>14. CASE FolderBegins
    BY <1>4, <1>6, <1>14 DEF FolderBegins
  <1>15. CASE ProBegins
    BY <1>4, <1>10, <1>15 DEF ProBegins, app
  <1>16. CASE ProSaved
    BY <1>4, <1>6, <1>16 DEF ProSaved
  <1>17. CASE RemovalBegins
    BY <1>4, <1>5, <1>6, <1>17 DEF RemovalBegins
  <1>18. CASE RemovalStored
    BY <1>4, <1>5, <1>8, <1>18 DEF RemovalStored
  <1>19. CASE InstallBegins
    BY <1>4, <1>6, <1>9, <1>19 DEF InstallBegins
  <1>20. CASE RecoveryBegins
    BY <1>4, <1>10, <1>20 DEF RecoveryBegins
  <1>21. CASE RecoveryReady
    BY <1>8, <1>11, <1>21 DEF RecoveryReady
  <1>22. CASE CrashBegins
    BY <1>4, <1>9, <1>10, <1>22 DEF CrashBegins, app
  <1>23. CASE QuitBegins
    BY <1>6, <1>12, <1>23 DEF QuitBegins
  <1> QED BY <1>7, <1>13, <1>14, <1>15, <1>16, <1>17, <1>18, <1>19, <1>20, <1>21, <1>22, <1>23

\* The coordinator's turns, quit, and the ends of dialogs.
LEMMA TurnTyped ==
    ASSUME TypeOK,
           \/ TakeTurn \/ SkipTurn \/ QuitAsked \/ WindowCloses \/ Exit
           \/ DialogReleased \/ DialogRetries \/ DialogQuits \/ NoticeAnswered
    PROVE  TypeOK'
  <1>1. TurnOK /\ TreeOK /\ FlagsOK /\ QueueOK
    BY TypeGroups
  <1>2. CASE TakeTurn
    <2>1. TurnOK'
      BY <1>1, <1>2, OpsFacts, QueueTyped DEF TakeTurn, TurnOK, QueueOK, Places, outside
    <2>2. QueueOK'
      BY <1>1, <1>2, QueueTyped DEF TakeTurn, QueueOK
    <2>3. TreeOK' /\ FlagsOK'
      BY <1>1, <1>2 DEF TakeTurn, TreeOK, FlagsOK, app, outside
    <2> QED BY <2>1, <2>2, <2>3, TypeGroups
  <1>3. CASE SkipTurn
    <2>1. TurnOK'
      BY <1>1, <1>3 DEF SkipTurn, SettleCaller, TurnOK, turn
    <2>2. QueueOK'
      BY <1>1, <1>3, QueueTyped DEF SkipTurn, QueueOK
    <2>3. TreeOK' /\ FlagsOK'
      BY <1>1, <1>3 DEF SkipTurn, TreeOK, FlagsOK, app
    <2> QED BY <2>1, <2>2, <2>3, TypeGroups
  <1>4. CASE QuitAsked \/ WindowCloses
    <2>1. TurnOK'
      BY <1>1, <1>4 DEF QuitAsked, WindowCloses, TurnOK, turn
    <2>2. QuitEvent /\ win' \in BOOLEAN /\ UNCHANGED <<blocked, daemon, life, stopError, startup>>
      BY <1>1, <1>4 DEF QuitAsked, WindowCloses, FlagsOK
    <2>3. QueueOK' /\ TreeOK' /\ FlagsOK'
      BY <1>1, <2>2, QuitEventTyped DEF TreeOK, FlagsOK
    <2> QED BY <2>1, <2>3, TypeGroups
  <1>5. CASE Exit
    BY <1>1, <1>5, TypeGroups DEF Exit, TurnOK, TreeOK, FlagsOK, QueueOK, app, turn
  <1>6. CASE DialogReleased \/ NoticeAnswered
    <2>1. GiveUp /\ QueueOK' /\ UNCHANGED startup
      BY <1>1, <1>6 DEF DialogReleased, NoticeAnswered, QueueOK
    <2> QED BY <1>1, <2>1, GiveUpTyped, TypeGroups
  <1>7. CASE DialogRetries
    <2>1. TreeOK' /\ QueueOK' /\ owner # Idle
      BY <1>1, <1>7 DEF DialogRetries, TreeOK, QueueOK, TurnOK
    <2>2. TurnOK' /\ FlagsOK'
      BY <1>1, <1>7, <2>1, CallBootTyped DEF DialogRetries, FlagsOK
    <2> QED BY <2>1, <2>2, TypeGroups
  <1>8. CASE DialogQuits
    <2>1. TurnOK'
      BY <1>1, <1>8, ReturnTyped DEF DialogQuits
    <2>2. QueueOK' /\ TreeOK' /\ FlagsOK'
      BY <1>1, <1>8, QuitEventTyped DEF DialogQuits, TreeOK, FlagsOK
    <2> QED BY <2>1, <2>2, TypeGroups
  <1> QED BY <1>2, <1>3, <1>4, <1>5, <1>6, <1>7, <1>8

\* The instances' own steps, and what is asked for from outside.
LEMMA RequestTyped ==
    ASSUME TypeOK,
           \/ \E d \in Daemons :
                CleanupSettles(d) \/ Dies(d) \/ LostEnds(d) \/ CrashCleaned(d)
           \/ FirstBoot \/ OpenFolder \/ FolderPicked \/ \E k \in Kinds : ProAsked(k)
           \/ InstallAsked \/ InstallerFails
    PROVE  TypeOK'
  <1>1. TurnOK /\ TreeOK /\ FlagsOK /\ QueueOK
    BY TypeGroups
  <1>2. ASSUME NEW d \in Daemons, CleanupSettles(d) \/ Dies(d) \/ LostEnds(d)
        PROVE  TypeOK'
    <2>1. TreeOK'
      BY <1>1, <1>2 DEF CleanupSettles, Dies, LostEnds, TreeOK, Lives, app
    <2>2. TurnOK' /\ FlagsOK' /\ QueueOK'
      BY <1>1, <1>2 DEF CleanupSettles, Dies, LostEnds, TurnOK, FlagsOK, QueueOK, app, turn, outside
    <2> QED BY <2>1, <2>2, TypeGroups
  <1>3. ASSUME NEW d \in Daemons, CrashCleaned(d)
        PROVE  TypeOK'
    <2>1. TurnOK'
      BY <1>1, <1>3 DEF CrashCleaned, TurnOK, turn, outside
    <2>2. FlagsOK'
      BY <1>1, <1>3 DEF CrashCleaned, FlagsOK, app, outside
    <2>3. TreeOK'
      BY <1>1, <1>3 DEF CrashCleaned, TreeOK, Lives, app
    <2>4. queue' \in Seq(Ops)
      <3>1. ASSUME NEW clean \in BOOLEAN, Run([kind |-> "crash", clean |-> clean])
            PROVE  queue' \in Seq(Ops)
        BY <1>1, <3>1, RunTyped DEF Ops, Kinds
      <3> QED BY <1>1, <1>3, <3>1 DEF CrashCleaned, QueueOK
    <2> QED BY <1>1, <1>3, <2>1, <2>2, <2>3, <2>4, TypeGroups DEF CrashCleaned, QueueOK
  <1>4. CASE OpenFolder
    BY <1>1, <1>4, TypeGroups
       DEF OpenFolder, TurnOK, TreeOK, FlagsOK, QueueOK, app, turn
  <1>5. ASSUME \/ UNCHANGED queue
               \/ \E k \in Kinds : Run(Op(k)),
               folder' \in {"none", "picking", "pending"},
               updater' \in {"idle", "preparing", "installing", "recovering"},
               startup' \in {"support", "asked"},
               UNCHANGED <<app, life, closing, turn, gate, stopError>>
        PROVE  TypeOK'
    <2>1. queue' \in Seq(Ops)
      BY <1>1, <1>5, OpsFacts, RunTyped DEF QueueOK
    <2>2. TurnOK'
      BY <1>1, <1>5 DEF TurnOK, turn
    <2>3. TreeOK' /\ FlagsOK'
      BY <1>1, <1>5 DEF TreeOK, FlagsOK, app
    <2> QED BY <1>1, <1>5, <2>1, <2>2, <2>3, TypeGroups DEF QueueOK
  <1>6. CASE FolderPicked \/ FirstBoot
    BY <1>1, <1>5, <1>6 DEF FolderPicked, FirstBoot, TurnOK, FlagsOK, Kinds
  <1>7. ASSUME NEW k \in Kinds, ProAsked(k)
        PROVE  TypeOK'
    BY <1>1, <1>5, <1>7 DEF ProAsked, TurnOK, FlagsOK, outside
  <1>8. CASE InstallAsked
    BY <1>1, <1>5, <1>8 DEF InstallAsked, TurnOK, FlagsOK, Kinds
  <1>9. CASE InstallerFails
    BY <1>1, <1>5, <1>9 DEF InstallerFails, TurnOK, FlagsOK, Kinds
  <1> QED BY <1>2, <1>3, <1>4, <1>6, <1>7, <1>8, <1>9

-----------------------------------------------------------------------------
(* Safety: Inv without TypeOK and the history of the first boot.             *)

\* A tree that main.js still knows of may be running.
Kept(d) == MayLive(d) /\ life[d] # "lost"

\* The conjuncts of Inv but for the types and the first boot.
Safe ==
    /\ OneTree /\ StartIsOwned /\ InstallerAlone /\ TreesAreHeld
    /\ HeldByPlace /\ QueueIsSound /\ InstallIsQuiet

\* Inv, in its two parts.
LEMMA InvParts ==
    /\ Inv => TypeOK /\ Safe /\ FirstBootIsSound
    /\ TypeOK' /\ Safe' /\ FirstBootIsSound' => Inv'
  BY DEF Inv, Safe

\* Giving up frees the turn and touches no instance.
LEMMA GiveUpSafe ==
    ASSUME TypeOK, Safe, owner # Idle, held = None, pc # "cleanupDialog" \/ closing,
           GiveUp, UNCHANGED <<closing, queue>>
    PROVE  Safe'
  BY SMTT(30)
     DEF TypeOK, Safe, OneTree, StartIsOwned, InstallerAlone, TreesAreHeld, HeldByPlace,
         QueueIsSound, InstallIsQuiet, Halted, IsStopped, MayLive, GiveUp, Return,
         SettleCaller, Idle, Ops, Kinds, app

\* So does a removal that reports that it is uncertain.
LEMMA UncertainRemovalSafe ==
    ASSUME TypeOK, Safe, owner # Idle, owner.kind # "install", pc \in {"begin", "store"},
           UncertainRemoval, UNCHANGED <<closing, queue>>
    PROVE  Safe'
  BY SMTT(30)
     DEF TypeOK, Safe, OneTree, StartIsOwned, InstallerAlone, TreesAreHeld, HeldByPlace,
         QueueIsSound, InstallIsQuiet, Halted, IsStopped, MayLive, UncertainRemoval, Return,
         Await,
         SettleCaller, Idle, Ops, Kinds, app

\* A boot is called when no daemon is current, and by its owner.
LEMMA CallBootSafe ==
    ASSUME TypeOK, Safe, owner # Idle, owner.kind # "install", CallBoot,
           daemon = None \/ (owner.kind = "restart" /\ pc = "begin" /\ origin' = None),
           pc \in {"begin", "saving", "stopping", "store", "support", "bootDialog", "crashDialog"},
           \A d \in Daemons : life[d] # "stopping",
           \A d \in Daemons : life[d] = "unproved" => d = daemon \/ blocked \/ closing,
           UNCHANGED <<win, quitting, blocked, daemon, life, closing, queue, gate>>
    PROVE  Safe'
  <1> USE DEF TypeOK, Safe, OneTree, StartIsOwned, InstallerAlone, TreesAreHeld, HeldByPlace,
              QueueIsSound, InstallIsQuiet, Halted, IsStopped, Kept, MayLive, Idle, Ops, Kinds
  <1>1. CASE Return(FALSE)
    BY <1>1, SMTT(30) DEF Return, SettleCaller
  <1>2. CASE Await("noticeDialog") /\ held' = None /\ ~quitting
    BY <1>2, SMTT(30) DEF Await
  <1>3. CASE Await("loading") /\ held' = None /\ ~quitting
    BY <1>3, SMTT(30) DEF Await
  <1> QED BY <1>1, <1>2, <1>3 DEF CallBoot, BootReturns

\* Where the answer of a stop is all that an operation waited for.
LEMMA AfterStopSafe ==
    ASSUME TypeOK, Safe, NEW clean \in BOOLEAN, AfterStop(clean), daemon = None,
           pc \in {"begin", "saving", "stopping"},
           quitting => closing,
           clean => \A d \in Daemons : Kept(d) => life[d] = "unproved" /\ (blocked \/ closing),
           ~clean => held # None /\ \A d \in Daemons : Kept(d) => d = held /\ life[d] = "unproved",
           clean /\ owner.kind = "install" => \A d \in Daemons : ~Kept(d),
           UNCHANGED <<win, blocked, daemon, life, closing, queue>>
    PROVE  Safe'
  <1>1. CASE CallBoot /\ owner.kind \in {"folder", "pro"} /\ clean
    BY <1>1, CallBootSafe DEF AfterStop, TypeOK, Idle, Kept, Kept, MayLive
  <1> USE DEF TypeOK, Safe, OneTree, StartIsOwned, InstallerAlone, TreesAreHeld, HeldByPlace,
              QueueIsSound, InstallIsQuiet, Halted, IsStopped, Kept, MayLive, Idle, Ops, Kinds
  <1>2. CASE owner.kind = "quit"
    BY <1>2, SMTT(30) DEF AfterStop, Return, SettleCaller
  <1>3. CASE owner.kind = "install" /\ clean
    BY <1>3, SMTT(30) DEF AfterStop, Return, SettleCaller
  <1>4. CASE owner.kind # "quit" /\ ~clean
    BY <1>4, SMTT(30) DEF AfterStop, CleanupFailure, Return, Await, SettleCaller
  <1>5. CASE owner.kind = "removal" /\ clean
    BY <1>5, SMTT(30) DEF AfterStop, Return, Await, SettleCaller
  <1> QED BY <1>1, <1>2, <1>3, <1>4, <1>5 DEF AfterStop

\* A transition that replaces the daemon lets go of it and stops it first.
LEMMA StopFirstSafe ==
    ASSUME TypeOK, Safe, StopFirst, pc \in {"begin", "saving"},
           owner.kind = "quit" \/ ~Unavailable,
           owner.kind = "install" => ~blocked,
           UNCHANGED <<win, blocked, closing, queue>>
    PROVE  Safe'
  <1>1. CASE daemon = None
    <2>1. held = None /\ (quitting => closing)
      BY DEF Safe, HeldByPlace, QueueIsSound, Unavailable
    <2>2. \A d \in Daemons : Kept(d) => life[d] = "unproved" /\ (blocked \/ closing)
      BY <1>1, <2>1 DEF Safe, TypeOK, Lives, Kept, MayLive, StartIsOwned, TreesAreHeld, Halted,
         IsStopped
    <2>3. owner.kind = "install" => \A d \in Daemons : ~Kept(d)
      BY <2>2 DEF Unavailable
    <2>4. AfterStop(TRUE) /\ UNCHANGED <<daemon, life>>
      BY <1>1 DEF StopFirst
    <2> QED BY <1>1, <2>1, <2>2, <2>3, <2>4, AfterStopSafe
  <1>2. CASE daemon # None
    BY <1>2, SMTT(30)
       DEF StopFirst, Stop, Await, Unavailable, TypeOK, Safe, OneTree, StartIsOwned,
           InstallerAlone, TreesAreHeld, HeldByPlace, QueueIsSound, InstallIsQuiet, Halted,
           IsStopped,
           Kept, MayLive, Lives, Idle, Ops, Kinds
  <1> QED BY <1>1, <1>2

\* The stop settles: the instance is gone, or its cleanup is not proved.
LEMMA StopSettlesSafe ==
    ASSUME TypeOK, Safe, StopSettles
    PROVE  Safe'
  <1>1. held \in Daemons /\ daemon = None
    BY DEF StopSettles, TypeOK, Safe, HeldByPlace
  <1>2. \A d \in Daemons :
          Kept(d) => life[d] = "unproved" /\ (d = held \/ blocked \/ closing)
    BY <1>1 DEF StopSettles, Settled, TypeOK, Lives, Safe, Kept, MayLive, StartIsOwned,
                TreesAreHeld, Halted, IsStopped
  <1>3. quitting => closing
    BY DEF StopSettles, Safe, InstallIsQuiet
  <1>4. held # None /\ Settled(held)
    BY DEF StopSettles, Safe, HeldByPlace
  <1>5. owner.kind = "install" => \A d \in Daemons : Kept(d) => d = held
    BY DEF StopSettles, Safe, InstallIsQuiet, Kept
  <1>6. CASE life[held] = "gone"
    BY <1>1, <1>2, <1>3, <1>5, <1>6, AfterStopSafe DEF StopSettles, Kept, MayLive
  <1>7. CASE life[held] = "unproved"
    <2>1. \A d \in Daemons : Kept(d) => d = held
      BY <1>1, <1>7 DEF Safe, OneTree, Kept, MayLive
    <2> QED BY <1>1, <1>3, <1>4, <1>7, <2>1, AfterStopSafe DEF StopSettles
  <1> QED BY <1>4, <1>6, <1>7 DEF Settled

\* retire() stops the instance that its boot holds.
LEMMA RetireSafe ==
    ASSUME TypeOK, Safe, NEW b \in BOOLEAN, Retire(b),
           pc \in {"starting", "startFailed", "page"},
           pc = "starting" => life[held] = "starting",
           pc = "startFailed" => Settled(held),
           UNCHANGED <<win, quitting, blocked, daemon, closing, queue, gate>>
    PROVE  Safe'
  BY SMTT(30)
     DEF Retire, Stop, Await, Settled, TypeOK, Safe, OneTree, StartIsOwned, InstallerAlone,
         TreesAreHeld, HeldByPlace, QueueIsSound, InstallIsQuiet, Halted, IsStopped,
         Kept, MayLive, Lives,
         Idle, Ops, Kinds

\* A boot that returns without a daemon of its own, or with the one it brought up.
LEMMA BootReturnsSafe ==
    ASSUME TypeOK, Safe, NEW ok \in BOOLEAN, BootReturns(ok),
           pc \in {"loading", "page", "support"},
           \A d \in Daemons : life[d] = "unproved" => d = daemon \/ blocked \/ closing,
           UNCHANGED <<win, quitting, blocked, daemon, life, closing, queue, gate>>
    PROVE  Safe'
  <1> USE DEF TypeOK, Safe, OneTree, StartIsOwned, InstallerAlone, TreesAreHeld, HeldByPlace,
              QueueIsSound, InstallIsQuiet, Halted, IsStopped, Kept, MayLive, Idle, Ops, Kinds
  <1>1. CASE Return(ok)
    BY <1>1, SMTT(30) DEF Return, SettleCaller
  <1>2. CASE Await("noticeDialog") /\ held' = None /\ ~quitting
    BY <1>2, SMTT(30) DEF Await
  <1> QED BY <1>1, <1>2 DEF BootReturns

-----------------------------------------------------------------------------
\* Every step of boot() is safe.
LEMMA BootSafe ==
    ASSUME TypeOK, Safe, FirstBootIsSound,
           \/ LoadingPage \/ Started \/ StartFails \/ StartRejects
           \/ PageLoaded \/ PageFails \/ Retired
    PROVE  Safe'
  <1>1. CASE LoadingPage
    <2>1. \A d \in Daemons : Kept(d) => d = daemon \/ (life[d] = "unproved" /\ (blocked \/ closing))
      BY <1>1 DEF LoadingPage, TypeOK, Lives, Safe, Kept, MayLive, StartIsOwned, TreesAreHeld,
                  HeldByPlace, Halted, IsStopped
    <2>2. CASE BootReturns(FALSE) /\ UNCHANGED <<daemon, life>>
      BY <1>1, <2>1, <2>2, BootReturnsSafe DEF LoadingPage, Kept, MayLive
    <2>3. CASE Await("loadingDialog") /\ UNCHANGED <<daemon, life, held, failed>> /\ Current
      BY <1>1, <2>1, <2>3, SMTT(30)
         DEF LoadingPage, Current, Await, TypeOK, Safe, OneTree, StartIsOwned,
             InstallerAlone,
             TreesAreHeld, HeldByPlace, QueueIsSound, InstallIsQuiet, Halted, IsStopped,
             Kept, MayLive
    <2>4. ASSUME NEW d \in Daemons, life' = [e \in Daemons |-> IF e = d THEN "starting"
                                               ELSE IF e = daemon THEN "lost" ELSE life[e]],
                 daemon' = d, held' = d, Await("starting"), Current
          PROVE  Safe'
      <3>1. \A e \in Daemons : Kept(e) => e = daemon
        BY <2>1, <2>4 DEF Current, Safe, QueueIsSound
      <3>2. daemon # None => \A e \in Daemons : life[e] # "lost"
        BY <1>1 DEF LoadingPage, FirstBootIsSound, Safe, HeldByPlace
      <3>3. \A e \in Daemons : life'[e] = "gone" \/ life'[e] = "lost" \/ e = d
        BY <2>4, <3>1 DEF Kept, MayLive
      <3>4. OneTree'
        <4>1. \A e, f \in Daemons : life'[e] = "lost" /\ life'[f] = "lost" => e = f
          BY <1>1, <2>4, <3>1, <3>2 DEF Kept, MayLive, Safe, OneTree, LoadingPage
        <4>2. life'[d] = "starting"
          BY <2>4
        <4> QED BY <3>3, <4>1, <4>2 DEF OneTree, MayLive
      <3>5. UNCHANGED <<win, quitting, blocked, origin, closing, queue, gate, owner, updater>>
            /\ pc' = "starting" /\ ~quitting /\ pc = "loading"
        BY <1>1, <2>4 DEF LoadingPage, Await, Current
      <3>6. d # None
        OBVIOUS
      <3>7. StartIsOwned' /\ TreesAreHeld'
        BY <2>4, <3>3, <3>5 DEF StartIsOwned, TreesAreHeld
      <3>8. InstallerAlone' /\ InstallIsQuiet'
        BY <2>4, <3>5 DEF Safe, InstallerAlone, InstallIsQuiet, QueueIsSound
      <3>9. HeldByPlace' /\ QueueIsSound'
        BY <2>4, <3>5, <3>6 DEF Safe, HeldByPlace, QueueIsSound
      <3> QED BY <3>4, <3>7, <3>8, <3>9 DEF Safe
    <2> QED BY <1>1, <2>2, <2>3, <2>4 DEF LoadingPage
  <1>2. CASE Started
    <2>1. ASSUME NEW b \in BOOLEAN, Retire(b)
          PROVE  Safe'
      BY <1>2, <2>1, RetireSafe DEF Started
    <2>2. CASE life' = [life EXCEPT ![held] = "up"] /\ Await("page") /\ held' = held
               /\ daemon = held /\ Current
      BY <1>2, <2>2, SMTT(30)
         DEF Started, Current, Await, TypeOK, Safe, OneTree, StartIsOwned, InstallerAlone,
             TreesAreHeld, HeldByPlace, QueueIsSound, InstallIsQuiet, Halted, IsStopped,
             MayLive
    <2> QED BY <1>2, <2>1, <2>2 DEF Started
  <1>3. CASE StartFails
    BY <1>3, SMTT(30)
       DEF StartFails, Await, TypeOK, Safe, OneTree, StartIsOwned, InstallerAlone,
           TreesAreHeld, HeldByPlace, QueueIsSound, InstallIsQuiet, Halted, IsStopped,
           MayLive, app
  <1>4. CASE StartRejects
    BY <1>4, RetireSafe DEF StartRejects, app
  <1>5. CASE PageLoaded \/ PageFails
    <2>1. \A d \in Daemons : life[d] = "unproved" => d = daemon \/ blocked \/ closing
      BY <1>5 DEF PageLoaded, PageFails, TypeOK, Safe, TreesAreHeld, HeldByPlace, Halted,
         IsStopped
    <2>2. ASSUME NEW b \in BOOLEAN, Retire(b)
          PROVE  Safe'
      BY <1>5, <2>2, RetireSafe DEF PageLoaded, PageFails, app
    <2>3. ASSUME NEW ok \in BOOLEAN, BootReturns(ok), UNCHANGED life
          PROVE  Safe'
      BY <1>5, <2>1, <2>3, BootReturnsSafe DEF PageLoaded, PageFails, app
    <2> QED BY <1>5, <2>2, <2>3 DEF PageLoaded, PageFails
  <1>6. CASE Retired
    BY <1>6, SMTT(30)
       DEF Retired, Settled, CleanupFailure, Current, BootReturns, Return, Await,
           SettleCaller,
           TypeOK, Safe, OneTree, StartIsOwned, InstallerAlone, TreesAreHeld, HeldByPlace,
           QueueIsSound, InstallIsQuiet, Halted, IsStopped, MayLive, Idle, Ops, Kinds
  <1> QED BY <1>1, <1>2, <1>3, <1>4, <1>5, <1>6

\* Every transition is safe from the turn it is given.
LEMMA TransitionSafe ==
    ASSUME TypeOK, Safe,
           \/ StopSettles \/ RestartBegins \/ FolderBegins \/ ProBegins \/ ProSaved
           \/ RemovalBegins \/ RemovalStored \/ InstallBegins
           \/ RecoveryBegins \/ RecoveryReady \/ CrashBegins \/ QuitBegins
    PROVE  Safe'
  <1>1. owner # Idle
    BY DEF TypeOK, AtStart, StopSettles, RestartBegins, FolderBegins, ProBegins,
           ProSaved, RemovalBegins, RemovalStored, InstallBegins, RecoveryBegins,
           RecoveryReady, CrashBegins, QuitBegins
  <1>2. pc \in {"begin", "saving", "store", "support"} =>
          /\ held = None
          /\ \A d \in Daemons :
               /\ life[d] # "stopping"
               /\ life[d] = "unproved" => d = daemon \/ blocked \/ closing
    BY DEF Safe, HeldByPlace, TreesAreHeld, IsStopped, Halted
  <1>3. ASSUME GiveUp, pc \in {"begin", "saving", "store"}, UNCHANGED <<closing, queue>>
        PROVE  Safe'
    BY <1>1, <1>2, <1>3, GiveUpSafe
  <1>4. ASSUME CleanupFailure, pc = "begin", owner.kind \in {"install", "crash"},
               UNCHANGED <<win, quitting, blocked, daemon, life, closing, queue, gate>>
        PROVE  Safe'
    BY <1>1, <1>2, <1>4, SMTT(30)
       DEF CleanupFailure, Return, Await, SettleCaller, TypeOK, Safe, OneTree, StartIsOwned,
           InstallerAlone, TreesAreHeld, HeldByPlace, QueueIsSound, InstallIsQuiet, Halted,
           IsStopped, MayLive, Idle, Ops, Kinds
  <1>5. ASSUME pc \in {"begin", "support"}, CallBoot, owner.kind # "install",
               daemon = None \/ (owner.kind = "restart" /\ pc = "begin" /\ origin' = None),
               UNCHANGED <<win, quitting, blocked, daemon, life, closing, queue, gate>>
        PROVE  Safe'
    BY <1>1, <1>2, <1>5, CallBootSafe DEF TypeOK
  <1>6. ASSUME Await("saving") \/ Await("crashDialog"), pc = "begin", ~quitting,
               owner.kind # "install",
               UNCHANGED <<app, life, held, failed, gate, stopError, closing, queue>>
        PROVE  Safe'
    BY <1>1, <1>2, <1>6, SMTT(30)
       DEF Await, TypeOK, Safe, OneTree, StartIsOwned, InstallerAlone, TreesAreHeld,
           HeldByPlace, QueueIsSound, InstallIsQuiet, Halted, IsStopped, MayLive, app
  <1>7. CASE StopSettles
    BY <1>7, StopSettlesSafe
  <1>8. CASE RestartBegins
    BY <1>5, <1>8 DEF RestartBegins, AtStart, Safe, QueueIsSound
  <1>9. CASE FolderBegins
    BY <1>3, <1>9, StopFirstSafe DEF FolderBegins, AtStart
  <1>10. CASE ProBegins
    BY <1>3, <1>6, <1>10 DEF ProBegins, AtStart, Unavailable
  <1>11. CASE ProSaved
    BY <1>3, <1>11, StopFirstSafe DEF ProSaved, Safe, InstallIsQuiet
  <1>12. CASE RemovalBegins
    BY <1>1, <1>3, <1>12, StopFirstSafe, UncertainRemovalSafe DEF RemovalBegins, AtStart
  <1>13. CASE RemovalStored
    <2>1. owner.kind # "install" /\ daemon = None
      BY <1>13 DEF RemovalStored, Safe, InstallIsQuiet, HeldByPlace
    <2>2. CASE GiveUp
      BY <1>3, <1>13, <2>2 DEF RemovalStored
    <2>3. CASE UncertainRemoval
      BY <1>1, <1>13, <2>1, <2>3, UncertainRemovalSafe DEF RemovalStored
    <2>4. CASE CallBoot /\ UNCHANGED <<win, quitting, blocked, daemon, life, gate>>
      BY <1>1, <1>2, <1>13, <2>1, <2>4, CallBootSafe DEF RemovalStored
    <2> QED BY <1>13, <2>2, <2>3, <2>4 DEF RemovalStored
  <1>14. CASE InstallBegins
    BY <1>3, <1>4, <1>14, StopFirstSafe DEF InstallBegins, AtStart
  <1>15. CASE RecoveryBegins
    <2>1. CASE GiveUp
      BY <1>3, <1>15, <2>1 DEF RecoveryBegins, AtStart
    <2>2. CASE /\ quitting' = FALSE
               /\ Await("support")
               /\ UNCHANGED <<win, blocked, stale, daemon, origin, life, held, failed, gate>>
               /\ ~closing /\ win
      BY <1>1, <1>2, <1>15, <2>2, SMTT(30)
         DEF RecoveryBegins, AtStart, Await, TypeOK, Safe, OneTree, StartIsOwned,
             InstallerAlone, TreesAreHeld, HeldByPlace, QueueIsSound, InstallIsQuiet,
             Halted,
             IsStopped, MayLive
    <2> QED BY <1>15, <2>1, <2>2 DEF RecoveryBegins
  <1>16. CASE RecoveryReady
    <2>1. CASE BootReturns(TRUE)
      BY <1>2, <1>16, <2>1, BootReturnsSafe DEF RecoveryReady
    <2>2. CASE CallBoot /\ daemon = None
      BY <1>5, <1>16, <2>2 DEF RecoveryReady, Safe, InstallIsQuiet
    <2> QED BY <1>16, <2>1, <2>2 DEF RecoveryReady
  <1>17. CASE CrashBegins
    BY <1>3, <1>4, <1>6, <1>17 DEF CrashBegins, AtStart, Unavailable
  <1>18. CASE QuitBegins
    <2>1. CASE StopFirst /\ UNCHANGED <<win, blocked>>
      BY <1>18, <2>1, StopFirstSafe DEF QuitBegins, AtStart
    <2>2. CASE Return(FALSE) /\ gate' = "cleaned" /\ UNCHANGED <<app, life>>
      BY <1>1, <1>2, <1>18, <2>2, SMTT(30)
         DEF QuitBegins, AtStart, Return, SettleCaller, TypeOK, Safe, OneTree, StartIsOwned,
             InstallerAlone, TreesAreHeld, HeldByPlace, QueueIsSound, InstallIsQuiet,
             Halted,
             IsStopped, MayLive, Idle, Ops, Kinds, app
    <2> QED BY <1>18, <2>1, <2>2 DEF QuitBegins
  <1> QED BY <1>7, <1>8, <1>9, <1>10, <1>11, <1>12, <1>13, <1>14, <1>15, <1>16, <1>17, <1>18

\* The coordinator's turns, quit, and the ends of dialogs are safe.
LEMMA TurnSafe ==
    ASSUME TypeOK, Safe,
           \/ TakeTurn \/ SkipTurn \/ QuitAsked \/ WindowCloses \/ Exit
           \/ DialogReleased \/ DialogRetries \/ DialogQuits \/ NoticeAnswered
    PROVE  Safe'
  <1>1. ASSUME QuitEvent, UNCHANGED <<blocked, daemon, life>>,
               win' = win \/ win' = FALSE,
               \/ UNCHANGED <<turn, updater>>
               \/ Return(FALSE) /\ held = None /\ owner # Idle
        PROVE  Safe'
    <2>1. closing' /\ quitting' /\ gate' # "open" /\ origin' = None
      BY <1>1 DEF QuitEvent, Safe, QueueIsSound
    <2>2. \A i \in DOMAIN queue' :
            \/ i \in DOMAIN queue /\ queue'[i] = queue[i]
            \/ i = Len(queue) + 1 /\ queue'[i].kind = "quit"
      <3>1. queue \in Seq(Ops) /\ (queue' = Append(queue, Op("quit")) \/ queue' = queue)
        BY <1>1 DEF QuitEvent, TypeOK
      <3>2. Op("quit") \in Ops /\ Op("quit").kind = "quit"
        BY DEF Op, Ops, Kinds
      <3> QED BY <3>1, <3>2, AppendEntries
    <2> USE DEF TypeOK, Safe, OneTree, StartIsOwned, InstallerAlone, TreesAreHeld, HeldByPlace,
                QueueIsSound, InstallIsQuiet, Halted, IsStopped, MayLive, Idle, Ops, Kinds,
                Op
    <2>3. CASE UNCHANGED <<turn, updater>>
      <3>1. QueueIsSound'
        BY <1>1, <2>1, <2>2, <2>3, SMTT(30) DEF turn
      <3> QED BY <1>1, <2>1, <2>3, <3>1, SMTT(30) DEF turn
    <2>4. CASE Return(FALSE) /\ held = None /\ owner # Idle
      <3>1. QueueIsSound'
        BY <1>1, <2>1, <2>2, <2>4, SMTT(30) DEF Return, SettleCaller
      <3> QED BY <1>1, <2>1, <2>4, <3>1, SMTT(30) DEF Return, SettleCaller
    <2> QED BY <1>1, <2>3, <2>4
  <1>2. pc \in Dialogs => held = None /\ owner # Idle
    BY DEF TypeOK, Safe, HeldByPlace, Dialogs
  <1>3. CASE TakeTurn
    <2>1. /\ owner = Idle /\ pc = "idle" /\ held = None /\ pc' = "begin"
          /\ UNCHANGED <<win, quitting, blocked, daemon, life, closing, held, updater, gate>>
      BY <1>3 DEF TakeTurn, TypeOK, Safe, HeldByPlace, app, outside
    <2>2. /\ queue \in Seq(Ops) /\ queue # <<>> /\ owner' = queue[1] /\ queue' = Tail(queue)
          /\ closing => queue[1].kind = "quit"
      BY <1>3 DEF TakeTurn, TypeOK
    <2>3. /\ 1 \in DOMAIN queue
          /\ \A i \in DOMAIN queue' : i + 1 \in DOMAIN queue /\ queue'[i] = queue[i + 1] /\ i \in Nat
          /\ \A i \in DOMAIN queue' : i + 1 # 1
      BY <2>2
    <2>4. QueueIsSound'
      BY <2>1, <2>2, <2>3, SMTT(30) DEF Safe, QueueIsSound, Idle
    <2>5. OneTree' /\ StartIsOwned' /\ InstallerAlone' /\ TreesAreHeld'
      BY <2>1 DEF Safe, OneTree, StartIsOwned, InstallerAlone, TreesAreHeld, Halted, IsStopped, MayLive
    <2>6. HeldByPlace' /\ InstallIsQuiet'
      BY <1>3, <2>1, SMTT(30) DEF TakeTurn, Safe, HeldByPlace, InstallIsQuiet, MayLive, app
    <2> QED BY <2>4, <2>5, <2>6 DEF Safe
  <1>4. CASE SkipTurn
    BY <1>4, SMTT(30)
       DEF SkipTurn, SettleCaller, TypeOK, Safe, OneTree, StartIsOwned, InstallerAlone,
           TreesAreHeld, HeldByPlace, QueueIsSound, InstallIsQuiet, Halted, IsStopped,
           MayLive, Idle, Ops, Kinds, app, turn
  <1>5. CASE QuitAsked
    BY <1>1, <1>5 DEF QuitAsked
  <1>6. CASE WindowCloses
    BY <1>1, <1>6 DEF WindowCloses
  <1>7. CASE Exit
    BY <1>7, SMTT(30)
       DEF Exit, TypeOK, Safe, OneTree, StartIsOwned, InstallerAlone, TreesAreHeld,
           HeldByPlace, QueueIsSound, InstallIsQuiet, Halted, IsStopped, MayLive, app, turn
  <1>8. CASE DialogReleased
    BY <1>2, <1>8, GiveUpSafe DEF DialogReleased
  <1>9. CASE DialogRetries
    <2>1. daemon = None /\ owner.kind # "install"
      BY <1>9 DEF DialogRetries, Safe, HeldByPlace, InstallIsQuiet
    <2>2. \A d \in Daemons :
            life[d] # "stopping" /\ (life[d] = "unproved" => blocked \/ closing)
      BY <1>9, <2>1 DEF DialogRetries, TypeOK, Safe, TreesAreHeld, IsStopped, Halted
    <2> QED BY <1>2, <1>9, <2>1, <2>2, CallBootSafe DEF DialogRetries, Dialogs
  <1>10. CASE DialogQuits
    BY <1>1, <1>2, <1>10 DEF DialogQuits
  <1>11. CASE NoticeAnswered
    BY <1>2, <1>11, GiveUpSafe DEF NoticeAnswered, Dialogs
  <1> QED BY <1>3, <1>4, <1>5, <1>6, <1>7, <1>8, <1>9, <1>10, <1>11

\* A crash of the current daemon leaves nothing but its unproved tree, blocked.
LEMMA CrashLeaves ==
    ASSUME TypeOK, OneTree, NEW d \in Daemons, CrashCleaned(d), daemon = d
    PROVE  \A e \in Daemons : life'[e] \notin {"gone", "lost"} => e = d /\ life'[e] = "unproved" /\ blocked'
  <1>1. life[d] = "dead" /\ \A e \in Daemons : e # d => life[e] \in {"gone", "lost"}
    BY SMTT(30) DEF TypeOK, OneTree, MayLive, CrashCleaned
  <1>2. PICK clean \in BOOLEAN :
          /\ life' = [life EXCEPT ![d] = IF clean THEN "gone" ELSE "unproved"]
          /\ blocked' = IF clean THEN blocked ELSE TRUE
    BY Zenon DEF CrashCleaned
  <1>3. life \in [Daemons -> Lives]
    BY DEF TypeOK
  <1> QED BY <1>1, <1>2, <1>3, SMTT(30)

\* The instances' own steps and the requests from outside are safe.
LEMMA RequestSafe ==
    ASSUME TypeOK, Safe,
           \/ \E d \in Daemons :
                CleanupSettles(d) \/ Dies(d) \/ LostEnds(d) \/ CrashCleaned(d)
           \/ FirstBoot \/ OpenFolder \/ FolderPicked \/ \E k \in Kinds : ProAsked(k)
           \/ InstallAsked \/ InstallerFails
    PROVE  Safe'
  <1> USE DEF TypeOK, Safe, OneTree, StartIsOwned, InstallerAlone, TreesAreHeld, HeldByPlace,
              QueueIsSound, InstallIsQuiet, Halted, IsStopped, MayLive
  <1>1. ASSUME NEW d \in Daemons, CleanupSettles(d) \/ Dies(d) \/ LostEnds(d)
        PROVE  Safe'
    BY <1>1, SMTT(30) DEF CleanupSettles, Dies, LostEnds, app, turn, outside
  <1>2. ASSUME NEW d \in Daemons, CrashCleaned(d)
        PROVE  Safe'
    <2>1. CASE daemon # d
      BY <1>2, <2>1, SMTT(30) DEF CrashCleaned, app, turn, outside
    <2>2. CASE daemon = d /\ closing
      BY <1>2, <2>2, SMTT(30) DEF CrashCleaned, Run, turn, outside
    <2>3. CASE daemon = d /\ ~closing
      <3>1. QueueIsSound'
        BY <1>2, <2>3, SMTT(30) DEF CrashCleaned, Run, Ops, Kinds, turn, outside
      <3>2. \A e \in Daemons : life'[e] \notin {"gone", "lost"} => e = d /\ life'[e] = "unproved" /\ blocked'
        BY <1>2, <2>3, CrashLeaves
      <3>3. TreesAreHeld'
        BY <3>2
      <3> QED BY <1>2, <2>3, <3>1, <3>3, SMTT(30) DEF CrashCleaned, turn, outside
    <2> QED BY <2>1, <2>2, <2>3
  <1>3. CASE OpenFolder
    BY <1>3, SMTT(30) DEF OpenFolder, app, turn
  <1>4. CASE FolderPicked
    BY <1>4, SMTT(30) DEF FolderPicked, Run, Op, Ops, Kinds, app, turn
  <1>8. CASE FirstBoot
    BY <1>8, SMTT(30) DEF FirstBoot, Run, Op, Ops, Kinds, app, turn
  <1>5. ASSUME NEW k \in Kinds, ProAsked(k)
        PROVE  Safe'
    BY <1>5, SMTT(30) DEF ProAsked, Run, Op, Ops, Kinds, app, turn, outside
  <1>6. CASE InstallAsked
    BY <1>6, SMTT(30) DEF InstallAsked, Run, Op, Ops, Kinds, app, turn
  <1>7. CASE InstallerFails
    BY <1>7, SMTT(30) DEF InstallerFails, Run, Op, Ops, Kinds, app, turn
  <1> QED BY <1>1, <1>2, <1>3, <1>4, <1>5, <1>6, <1>7, <1>8

-----------------------------------------------------------------------------
(* The first boot: it is asked for once, and nothing is lost before it.      *)

NoneLost == \A d \in Daemons : life[d] # "lost"

\* The owner goes on or returns, and reaches the loading page only with no daemon or
\* at the beginning of the first boot.
OwnerMoves ==
    /\ owner' \in {owner, Idle}
    /\ pc' # "begin"
    /\ pc' = "loading" /\ daemon' # None => owner.kind = "restart" /\ pc = "begin"

\* Where the operators leave the owner.
LEMMA WhereTo ==
    /\ \A b \in BOOLEAN : Return(b) => owner' = Idle /\ pc' = "idle"
    /\ \A b \in BOOLEAN : BootReturns(b) => owner' \in {owner, Idle} /\ pc' \in {"idle", "noticeDialog"}
    /\ CallBoot => owner' \in {owner, Idle} /\ pc' \in {"idle", "noticeDialog", "loading"}
    /\ CleanupFailure => owner' \in {owner, Idle} /\ pc' \in {"idle", "cleanupDialog"}
    /\ GiveUp => owner' = Idle /\ pc' = "idle" /\ life' = life
    /\ UncertainRemoval => owner' \in {owner, Idle} /\ pc' \in {"idle", "removalDialog"} /\ life' = life
    /\ \A b \in BOOLEAN : Retire(b) => owner' = owner /\ pc' = "retiring"
    /\ \A b \in BOOLEAN : AfterStop(b) => owner' \in {owner, Idle} /\ pc' # "begin"
  BY DEF Return, Await, BootReturns, CallBoot, CleanupFailure, GiveUp, UncertainRemoval,
     Retire, AfterStop

\* A stop loses nothing.
LEMMA StopLosesNone ==
    ASSUME TypeOK, NEW d \in Daemons \cup {None}, Stop(d), NoneLost
    PROVE  NoneLost'
  BY DEF TypeOK, Stop, NoneLost

\* Stopping first moves the owner on.
LEMMA StopFirstMoves ==
    ASSUME TypeOK, StopFirst
    PROVE  OwnerMoves /\ (NoneLost => NoneLost')
  <1>1. CASE AfterStop(TRUE) /\ UNCHANGED life
    BY <1>1, WhereTo DEF StopFirst, OwnerMoves, NoneLost
  <1>2. CASE Stop(daemon) /\ Await("stopping")
    BY <1>2, StopLosesNone DEF StopFirst, Await, OwnerMoves, TypeOK
  <1> QED BY <1>1, <1>2 DEF StopFirst

\* So do the steps of boot() behind the loading page
LEMMA BootMoves ==
    ASSUME TypeOK, Safe, Started \/ StartFails \/ StartRejects \/ PageLoaded \/ PageFails \/ Retired
    PROVE  OwnerMoves /\ (NoneLost => NoneLost') /\ UNCHANGED <<queue, startup>>
  <1>1. held \in Daemons
    BY DEF Started, StartFails, StartRejects, PageLoaded, PageFails, Retired, TypeOK, Safe,
           HeldByPlace
  <1>2. ASSUME NEW b \in BOOLEAN, Retire(b)
        PROVE  OwnerMoves /\ (NoneLost => NoneLost')
    BY <1>1, <1>2, WhereTo, StopLosesNone DEF Retire, OwnerMoves
  <1>3. CASE Started
    <2>1. CASE life' = [life EXCEPT ![held] = "up"] /\ Await("page")
      <3>1. NoneLost => NoneLost'
        BY <1>1, <2>1 DEF NoneLost, TypeOK
      <3>2. owner' = owner /\ pc' = "page"
        BY <2>1 DEF Await
      <3>3. OwnerMoves
        BY <3>2 DEF OwnerMoves
      <3> QED BY <1>3, <3>1, <3>3 DEF Started
    <2> QED BY <1>2, <1>3, <2>1 DEF Started
  <1>4. CASE StartFails
    BY <1>1, <1>4 DEF StartFails, Await, OwnerMoves, NoneLost, TypeOK
  <1>5. CASE StartRejects \/ PageLoaded \/ PageFails
    <2>1. ASSUME NEW b \in BOOLEAN, BootReturns(b), UNCHANGED life
          PROVE  OwnerMoves /\ (NoneLost => NoneLost')
      BY <2>1, WhereTo DEF OwnerMoves, NoneLost
    <2> QED BY <1>2, <1>5, <2>1 DEF StartRejects, PageLoaded, PageFails
  <1>6. CASE Retired
    <2>1. life' = life /\ (CleanupFailure \/ Await("bootDialog") \/ BootReturns(FALSE))
      BY <1>6 DEF Retired
    <2> QED BY <2>1, <1>6, WhereTo DEF Await, OwnerMoves, NoneLost, Retired
  <1> QED BY <1>3, <1>4, <1>5, <1>6 DEF Started, StartFails, StartRejects, PageLoaded,
                                      PageFails, Retired

\* and every transition from the turn it is given.
LEMMA TransitionMoves ==
    ASSUME TypeOK, Safe,
           \/ StopSettles \/ RestartBegins \/ FolderBegins \/ ProBegins \/ ProSaved
           \/ RemovalBegins \/ RemovalStored \/ InstallBegins
           \/ RecoveryBegins \/ RecoveryReady \/ CrashBegins \/ QuitBegins
    PROVE  OwnerMoves /\ (NoneLost => NoneLost') /\ UNCHANGED <<queue, startup>>
  <1> DEFINE Goal == OwnerMoves /\ (NoneLost => NoneLost')
  <1>1. GiveUp \/ UncertainRemoval => Goal
    BY WhereTo DEF OwnerMoves, NoneLost
  <1>2. StopFirst => Goal
    BY StopFirstMoves
  <1>3. ASSUME CallBoot, life' = life,
               daemon' = None \/ (owner.kind = "restart" /\ pc = "begin")
        PROVE  Goal
    BY <1>3, WhereTo DEF OwnerMoves, NoneLost
  <1>4. ASSUME life' = life,
               CleanupFailure \/ BootReturns(TRUE) \/ Return(FALSE)
               \/ \E place \in {"saving", "support", "crashDialog"} : Await(place)
        PROVE  Goal
    BY <1>4, WhereTo DEF Await, OwnerMoves, NoneLost
  <1>5. CASE StopSettles
    <2>1. AfterStop(TRUE) \/ AfterStop(FALSE)
      BY <1>5 DEF StopSettles
    <2> QED BY <1>5, <2>1, WhereTo DEF StopSettles, Safe, HeldByPlace, OwnerMoves, NoneLost
  <1>6. CASE RestartBegins
    BY <1>3, <1>6 DEF RestartBegins, AtStart
  <1>7. CASE FolderBegins \/ ProSaved
    BY <1>1, <1>2, <1>7 DEF FolderBegins, ProSaved
  <1>8. CASE ProBegins
    BY <1>1, <1>4, <1>8 DEF ProBegins
  <1>9. CASE RemovalBegins
    BY <1>1, <1>2, <1>9 DEF RemovalBegins
  <1>10. CASE RemovalStored
    BY <1>1, <1>3, <1>10 DEF RemovalStored, Safe, HeldByPlace
  <1>11. CASE InstallBegins
    BY <1>1, <1>2, <1>4, <1>11 DEF InstallBegins
  <1>12. CASE RecoveryBegins
    BY <1>1, <1>4, <1>12 DEF RecoveryBegins
  <1>13. CASE RecoveryReady
    BY <1>3, <1>4, <1>13 DEF RecoveryReady
  <1>14. CASE CrashBegins
    BY <1>1, <1>4, <1>14 DEF CrashBegins, app
  <1>15. CASE QuitBegins
    BY <1>2, <1>4, <1>15 DEF QuitBegins
  <1>16. UNCHANGED <<queue, startup>>
    BY DEF StopSettles, RestartBegins, FolderBegins, ProBegins, ProSaved, RemovalBegins,
           RemovalStored, InstallBegins, RecoveryBegins, RecoveryReady, CrashBegins,
           QuitBegins
  <1> QED BY <1>5, <1>6, <1>7, <1>8, <1>9, <1>10, <1>11, <1>12, <1>13, <1>14, <1>15, <1>16

\* A step that moves no turn to the first boot and queues none keeps its invariant.
LEMMA FirstBootStays ==
    ASSUME TypeOK, FirstBootIsSound, UNCHANGED startup, NoneLost => NoneLost',
           \/ UNCHANGED queue
           \/ \E op \in Ops : op.kind # "restart" /\ queue' = Append(queue, op),
           \/ OwnerMoves
           \/ UNCHANGED <<owner, pc>> /\ daemon' \in {daemon, None}
    PROVE  FirstBootIsSound'
  <1>1. \A i \in DOMAIN queue' :
          queue'[i].kind = "restart" => i \in DOMAIN queue /\ queue'[i] = queue[i]
    BY AppendEntries DEF TypeOK
  <1>2. owner'.kind = "restart" => owner' = owner
    BY DEF OwnerMoves, Idle
  <1>3. owner'.kind = "restart" /\ (pc' = "begin" \/ (pc' = "loading" /\ daemon' # None)) =>
          pc = "begin" \/ (pc = "loading" /\ daemon # None)
    BY DEF OwnerMoves
  <1> QED BY <1>1, <1>2, <1>3 DEF FirstBootIsSound, NoneLost

\* Every step keeps the invariant of the first boot.
LEMMA FirstBootStep ==
    ASSUME TypeOK, Safe, FirstBootIsSound, [Next]_vars
    PROVE  FirstBootIsSound'
  <1>1. CASE LoadingPage
    <2>1. UNCHANGED <<queue, startup>> /\ pc = "loading" /\ pc' \notin {"begin", "loading"}
          /\ owner' \in {owner, Idle}
      BY <1>1, WhereTo DEF LoadingPage, Await
    <2>2. CASE life' = life
      BY <2>1, <2>2, FirstBootStays DEF OwnerMoves, NoneLost
    <2>3. CASE daemon = None /\ (NoneLost => NoneLost')
      BY <2>1, <2>3, FirstBootStays DEF OwnerMoves
    <2>4. CASE daemon # None
      <3>1. owner.kind = "restart"
        BY <2>1, <2>4 DEF Safe, HeldByPlace
      <3>2. startup = "asked" /\ \A i \in DOMAIN queue : queue[i].kind # "restart"
        BY <3>1 DEF FirstBootIsSound
      <3> QED BY <2>1, <3>1, <3>2 DEF FirstBootIsSound, Idle
    <2>5. life' # life /\ daemon = None => (NoneLost => NoneLost')
      BY <1>1 DEF LoadingPage, NoneLost, TypeOK
    <2> QED BY <2>2, <2>3, <2>4, <2>5
  <1>2. CASE Started \/ StartFails \/ StartRejects \/ PageLoaded \/ PageFails \/ Retired
    BY <1>2, BootMoves, FirstBootStays
  <1>3. CASE \/ StopSettles \/ RestartBegins \/ FolderBegins \/ ProBegins \/ ProSaved
             \/ RemovalBegins \/ RemovalStored \/ InstallBegins
             \/ RecoveryBegins \/ RecoveryReady \/ CrashBegins \/ QuitBegins
    BY <1>3, TransitionMoves, FirstBootStays
  <1>4. CASE DialogReleased \/ NoticeAnswered
    BY <1>4, WhereTo, FirstBootStays DEF DialogReleased, NoticeAnswered, OwnerMoves, NoneLost
  <1>5. CASE DialogRetries
    <2>1. daemon' = None /\ UNCHANGED <<queue, startup, life>> /\ CallBoot
      BY <1>5 DEF DialogRetries, Safe, HeldByPlace
    <2> QED BY <2>1, WhereTo, FirstBootStays DEF OwnerMoves, NoneLost
  <1>6. CASE QuitAsked \/ WindowCloses \/ DialogQuits
    <2>1. \/ UNCHANGED queue
          \/ \E op \in Ops : op.kind # "restart" /\ queue' = Append(queue, op)
      BY <1>6, OpsFacts DEF QuitAsked, WindowCloses, DialogQuits, QuitEvent, Op, Kinds
    <2>2. UNCHANGED <<startup, life, daemon>> /\ (UNCHANGED <<owner, pc>> \/ OwnerMoves)
      BY <1>6, WhereTo DEF QuitAsked, WindowCloses, DialogQuits, turn, OwnerMoves
    <2> QED BY <2>1, <2>2, FirstBootStays DEF NoneLost
  <1>7. CASE TakeTurn
    <2>1. /\ queue \in Seq(Ops) /\ queue # <<>> /\ owner = Idle /\ owner' = queue[1]
          /\ pc' = "begin" /\ queue' = Tail(queue) /\ UNCHANGED <<life, startup>>
      BY <1>7 DEF TakeTurn, TypeOK, outside
    <2>2. /\ 1 \in DOMAIN queue
          /\ \A i \in DOMAIN queue' : i + 1 \in DOMAIN queue /\ queue'[i] = queue[i + 1]
                                      /\ i + 1 # 1 /\ i \in Nat
      BY <2>1
    <2>3. \A i, j \in Nat : i + 1 = j + 1 => i = j
      OBVIOUS
    <2> QED BY <2>1, <2>2, <2>3 DEF FirstBootIsSound
  <1>8. CASE SkipTurn
    <2>1. /\ queue \in Seq(Ops) /\ queue # <<>> /\ UNCHANGED <<owner, pc, daemon, life, startup>>
          /\ queue' = Tail(queue)
      BY <1>8 DEF SkipTurn, TypeOK, turn, app
    <2>2. \A i \in DOMAIN queue' : i + 1 \in DOMAIN queue /\ queue'[i] = queue[i + 1] /\ i \in Nat
      BY <2>1
    <2>3. \A i, j \in Nat : i + 1 = j + 1 => i = j
      OBVIOUS
    <2> QED BY <2>1, <2>2, <2>3 DEF FirstBootIsSound
  <1>9. CASE FirstBoot
    <2>1. /\ startup = "support" /\ startup' = "asked" /\ UNCHANGED <<owner, pc, daemon, life>>
          /\ queue \in Seq(Ops) /\ (queue' = queue \/ queue' = Append(queue, Op("restart")))
      BY <1>9 DEF FirstBoot, Run, TypeOK, turn, app
    <2>2. owner.kind # "restart" /\ NoneLost /\ \A i \in DOMAIN queue : queue[i].kind # "restart"
      BY <2>1 DEF FirstBootIsSound, NoneLost
    <2>3. \A i \in DOMAIN queue' : queue'[i].kind = "restart" => i = Len(queue) + 1
      BY <2>1, <2>2, AppendEntries, OpsFacts DEF Kinds
    <2> QED BY <2>1, <2>2, <2>3 DEF FirstBootIsSound, NoneLost
  <1>10. ASSUME NEW d \in Daemons, CleanupSettles(d) \/ Dies(d) \/ LostEnds(d) \/ CrashCleaned(d)
         PROVE  FirstBootIsSound'
    <2>1. UNCHANGED <<owner, pc, startup>> /\ daemon' \in {daemon, None} /\ (NoneLost => NoneLost')
      BY <1>10 DEF CleanupSettles, Dies, LostEnds, CrashCleaned, app, turn, outside, NoneLost,
                   TypeOK
    <2>2. \/ UNCHANGED queue
          \/ \E op \in Ops : op.kind # "restart" /\ queue' = Append(queue, op)
      BY <1>10 DEF CleanupSettles, Dies, LostEnds, CrashCleaned, Run, Ops, Kinds
    <2> QED BY <2>1, <2>2, FirstBootStays
  <1>11. CASE \/ Exit \/ OpenFolder \/ FolderPicked \/ (\E k \in Kinds : ProAsked(k))
              \/ InstallAsked \/ InstallerFails \/ UNCHANGED vars
    <2>1. UNCHANGED <<owner, pc, startup, daemon, life>>
      BY <1>11 DEF Exit, OpenFolder, FolderPicked, ProAsked, InstallAsked, InstallerFails,
                   vars, app, turn, outside
    <2>2. \/ UNCHANGED queue
          \/ \E op \in Ops : op.kind # "restart" /\ queue' = Append(queue, op)
      BY <1>11, OpsFacts DEF Exit, OpenFolder, FolderPicked, ProAsked, InstallAsked,
                   InstallerFails, vars, Run, Op, Kinds
    <2> QED BY <2>1, <2>2, FirstBootStays DEF NoneLost
  <1> QED BY <1>1, <1>2, <1>3, <1>4, <1>5, <1>6, <1>7, <1>8, <1>9, <1>10, <1>11
         DEF Next, OwnerSteps, DaemonSteps, Environment

-----------------------------------------------------------------------------
(* The theorems.                                                            *)

\* The first state satisfies the invariant,
LEMMA InitInv == Init => Inv
  <1> SUFFICES ASSUME Init PROVE Inv
    OBVIOUS
  <1>1. queue \in Seq(Ops) /\ Len(queue) = 0 /\ DOMAIN queue = {}
    BY DEF Init
  <1>2. TypeOK
    BY <1>1 DEF Init, TypeOK, Lives, Places
  <1>3. Safe
    BY <1>1, <1>2, SMTT(30)
       DEF Init, TypeOK, Safe, OneTree, StartIsOwned, InstallerAlone, TreesAreHeld,
           HeldByPlace, QueueIsSound, InstallIsQuiet, Halted, IsStopped, MayLive, Op, Idle
  <1>4. FirstBootIsSound
    BY <1>1 DEF Init, FirstBootIsSound, Idle
  <1> QED BY <1>2, <1>3, <1>4 DEF Inv, Safe

\* and every step keeps it.
LEMMA InvStep == Inv /\ [Next]_vars => Inv'
  <1> SUFFICES ASSUME Inv, [Next]_vars PROVE Inv'
    OBVIOUS
  <1>1. TypeOK /\ Safe /\ FirstBootIsSound
    BY InvParts
  <1>7. FirstBootIsSound'
    BY <1>1, FirstBootStep
  <1>2. CASE \/ LoadingPage \/ Started \/ StartFails \/ StartRejects
             \/ PageLoaded \/ PageFails \/ Retired
    BY <1>1, <1>2, BootTyped, BootSafe, <1>7, InvParts DEF Safe, HeldByPlace
  <1>3. CASE \/ StopSettles \/ RestartBegins \/ FolderBegins \/ ProBegins \/ ProSaved
             \/ RemovalBegins \/ RemovalStored \/ InstallBegins
             \/ RecoveryBegins \/ RecoveryReady \/ CrashBegins \/ QuitBegins
    BY <1>1, <1>3, TransitionTyped, TransitionSafe, <1>7, InvParts
  <1>4. CASE \/ TakeTurn \/ SkipTurn \/ QuitAsked \/ WindowCloses \/ Exit
             \/ DialogReleased \/ DialogRetries \/ DialogQuits \/ NoticeAnswered
    BY <1>1, <1>4, TurnTyped, TurnSafe, <1>7, InvParts
  <1>5. CASE \/ \E d \in Daemons :
                  CleanupSettles(d) \/ Dies(d) \/ LostEnds(d) \/ CrashCleaned(d)
             \/ FirstBoot \/ OpenFolder \/ FolderPicked \/ \E k \in Kinds : ProAsked(k)
             \/ InstallAsked \/ InstallerFails
    BY <1>1, <1>5, RequestTyped, RequestSafe, <1>7, InvParts
  <1>6. CASE UNCHANGED vars
    BY <1>6 DEF vars, app, turn, outside, Inv, TypeOK, OneTree, StartIsOwned,
       InstallerAlone,
                TreesAreHeld, HeldByPlace, FirstBootIsSound, QueueIsSound, InstallIsQuiet, Halted, IsStopped,
                MayLive
  <1> QED BY <1>2, <1>3, <1>4, <1>5, <1>6 DEF Next, OwnerSteps, DaemonSteps, Environment

\* The inductive invariant holds in every reachable state.
THEOREM Invariance == Spec => []Inv
  <1> QED BY InitInv, InvStep, PTL DEF Spec

\* Every variable of the main process keeps its type, and a free turn has no
\* place.
THEOREM TypeCorrect == Spec => []TypeOK
  <1>1. Inv => TypeOK
    BY DEF Inv
  <1> QED BY <1>1, Invariance, PTL

\* main.js starts a daemon only when every earlier one was proved stopped, but for
\* the first boot, which may put its daemon in the place of one that runs: at most
\* one tree that main.js knows of may be running, and at most one that it lost.
THEOREM OneTreeHolds == Spec => []OneTree
  <1>1. Inv => OneTree
    BY DEF Inv
  <1> QED BY <1>1, Invariance, PTL

\* Only the boot that started a daemon can stop it before start() settles,
\* which is what daemon.js needs of its caller.
THEOREM StartIsOwnedHolds == Spec => []StartIsOwned
  <1>1. Inv => StartIsOwned
    BY DEF Inv
  <1> QED BY <1>1, Invariance, PTL

\* No daemon tree but one that the first boot lost may be running while a platform
\* installer has the files.
THEOREM InstallerAloneHolds == Spec => []InstallerAlone
  <1>1. Inv => InstallerAlone
    BY DEF Inv
  <1> QED BY <1>1, Invariance, PTL

\* The only step that starts a daemon looks at quitting.
LEMMA OnlyLoadingStarts ==
    ASSUME TypeOK, [Next]_vars, NEW d \in Daemons, life'[d] = "starting", life[d] # "starting"
    PROVE  LoadingPage /\ Current
  <1>1. ASSUME NEW e \in Daemons \cup {None}, Stop(e)
        PROVE  FALSE
    BY <1>1 DEF Stop, TypeOK
  <1>2. ~UNCHANGED life
    OBVIOUS
  <1>3. ~StopFirst
    BY <1>1, <1>2 DEF StopFirst, TypeOK
  <1>4. ASSUME NEW b \in BOOLEAN, Retire(b)
        PROVE  FALSE
    BY <1>1, <1>4 DEF Retire, TypeOK
  <1>5. ~(\E e \in Daemons : CleanupSettles(e) \/ Dies(e) \/ LostEnds(e) \/ CrashCleaned(e))
    BY DEF CleanupSettles, Dies, LostEnds, CrashCleaned, TypeOK
  <1>6. ~(Started \/ StartFails \/ StartRejects \/ PageLoaded \/ PageFails \/ Retired)
    BY <1>2, <1>4 DEF Started, StartFails, StartRejects, PageLoaded, PageFails, Retired,
       TypeOK
  <1>7. ~(\/ StopSettles \/ RestartBegins \/ FolderBegins \/ ProBegins \/ ProSaved
          \/ RemovalBegins \/ RemovalStored \/ InstallBegins
          \/ RecoveryBegins \/ RecoveryReady \/ CrashBegins \/ QuitBegins)
    BY <1>2, <1>3 DEF StopSettles, RestartBegins, FolderBegins, ProBegins, ProSaved,
                      RemovalBegins, RemovalStored, InstallBegins, RecoveryBegins,
                      RecoveryReady, CrashBegins, QuitBegins, GiveUp, UncertainRemoval
  <1>8. ~(\/ TakeTurn \/ SkipTurn \/ QuitAsked \/ WindowCloses \/ Exit
          \/ DialogReleased \/ DialogRetries \/ DialogQuits \/ NoticeAnswered)
    BY <1>2 DEF TakeTurn, SkipTurn, QuitAsked, WindowCloses, Exit, DialogReleased,
                DialogRetries, DialogQuits, NoticeAnswered, GiveUp
  <1>9. ~(\/ FirstBoot \/ OpenFolder \/ FolderPicked \/ (\E k \in Kinds : ProAsked(k))
          \/ InstallAsked \/ InstallerFails \/ UNCHANGED vars)
    BY <1>2 DEF FirstBoot, OpenFolder, FolderPicked, ProAsked, InstallAsked, InstallerFails, vars
  <1>10. LoadingPage
    BY <1>5, <1>6, <1>7, <1>8, <1>9 DEF Next, OwnerSteps, DaemonSteps, Environment
  <1> QED BY <1>2, <1>10 DEF LoadingPage

\* Once quitting, for good or for an installer, no step starts a daemon.
THEOREM NoDaemonStartsWhileQuittingHolds == Spec => NoDaemonStartsWhileQuitting
  <1>1. TypeOK /\ [Next]_vars =>
          [quitting => \A d \in Daemons : life'[d] = "starting" => life[d] = "starting"]_vars
    BY OnlyLoadingStarts DEF Current
  <1> QED BY <1>1, TypeCorrect, PTL DEF Spec, NoDaemonStartsWhileQuitting

-----------------------------------------------------------------------------
(* Quit, and what the window may visit.                                     *)

\* close() queues the quit cleanup behind everything else, once: it waits for its
\* turn, or has it and stops what main.js holds, or is over, and nothing is left to do.
QuitIsLast ==
    closing =>
      \/ /\ gate = "cleaning" /\ owner.kind # "quit"
         /\ queue # <<>> /\ queue[Len(queue)].kind = "quit"
         /\ \A i \in 1..(Len(queue) - 1) : queue[i].kind # "quit"
      \/ /\ gate = "cleaning" /\ queue = <<>>
         /\ owner.kind = "quit" /\ pc \in {"begin", "stopping"}
      \/ /\ gate \in {"cleaned", "exited"} /\ queue = <<>>
         /\ owner = Idle

\* The quit cleanup answered for every instance before the gate opens.
QuitStopped ==
    gate \in {"cleaned", "exited"} =>
      \A d \in Daemons : Kept(d) =>
        life[d] = "unproved" \/ (stopError = "retirement" /\ d = daemon)

\* A step that leaves the daemon's place alone leaves the origin.
LEMMA OriginStays ==
    ASSUME OriginIsHeld, UNCHANGED <<origin, daemon, win, quitting>>,
           origin # None =>
             \/ life'[origin] \in {"up", "dead"}
             \/ life[origin] \notin {"up", "dead"} /\ pc # "retiring"
             \/ pc' = "retiring"
    PROVE  OriginIsHeld'
  BY DEF OriginIsHeld

\* Every step of boot() keeps the origin with its daemon.
LEMMA BootOrigin ==
    ASSUME TypeOK, Safe, OriginIsHeld,
           \/ LoadingPage \/ Started \/ StartFails \/ StartRejects
           \/ PageLoaded \/ PageFails \/ Retired
    PROVE  OriginIsHeld'
  <1>1. held # None <=> pc \in {"stopping", "starting", "startFailed", "page", "retiring"}
    BY DEF Safe, HeldByPlace
  <1>2. CASE LoadingPage
    <2>1. origin = None /\ origin' = None
      BY <1>2 DEF LoadingPage, Safe, HeldByPlace, OriginIsHeld
    <2> QED BY <2>1 DEF OriginIsHeld
  <1>3. CASE Started
    <2>1. held \in Daemons /\ life \in [Daemons -> Lives]
      BY <1>1, <1>3 DEF Started, TypeOK
    <2>2. CASE UNCHANGED origin /\ pc' = "retiring"
      BY <1>3, <2>2, OriginStays DEF Started
    <2>3. CASE Current /\ daemon = held /\ life' = [life EXCEPT ![held] = "up"] /\ origin' = held
      BY <1>3, <2>1, <2>3 DEF Started, Current, OriginIsHeld
    <2> QED BY <1>3, <2>2, <2>3 DEF Started, Retire, Await
  <1>4. CASE StartFails
    <2>1. held \in Daemons /\ daemon \in {held, None} /\ pc = "starting" /\ life[held] = "starting"
      BY <1>1, <1>4 DEF StartFails, TypeOK, Safe, HeldByPlace
    <2>2. origin = None
      BY <2>1 DEF OriginIsHeld
    <2> QED BY <1>4, <2>2 DEF StartFails, app, OriginIsHeld
  <1>5. CASE StartRejects \/ PageLoaded \/ PageFails
    <2>1. UNCHANGED <<origin, daemon, win, quitting>> /\ pc # "retiring"
      BY <1>5 DEF StartRejects, PageLoaded, PageFails, app
    <2>2. life' = life \/ pc' = "retiring"
      BY <1>5 DEF StartRejects, PageLoaded, PageFails, Retire, Await
    <2> QED BY <2>1, <2>2, OriginStays
  <1>6. CASE Retired
    <2>1. /\ UNCHANGED <<win, quitting, life>> /\ pc = "retiring" /\ daemon \in {held, None}
          /\ held \in Daemons /\ Settled(held)
          /\ daemon' = IF daemon = held /\ life[held] = "gone" THEN None ELSE daemon
      BY <1>1, <1>6 DEF Retired, Safe, HeldByPlace, TypeOK
    <2>2. origin' = None \/ origin' = IF daemon = held THEN None ELSE origin
      BY <1>6 DEF Retired
    <2> QED BY <2>1, <2>2 DEF OriginIsHeld
  <1> QED BY <1>2, <1>3, <1>4, <1>5, <1>6

\* So does every other step: it clears the origin before it lets go of the daemon.
LEMMA OriginStep == Inv /\ OriginIsHeld /\ [Next]_vars => OriginIsHeld'
  <1> SUFFICES ASSUME Inv, OriginIsHeld, [Next]_vars PROVE OriginIsHeld'
    OBVIOUS
  <1>1. TypeOK /\ Safe
    BY InvParts
  <1>2. ASSUME origin' = None PROVE OriginIsHeld'
    BY <1>2 DEF OriginIsHeld
  <1>3. ASSUME UNCHANGED <<origin, daemon, win, quitting, life>>, pc # "retiring"
        PROVE  OriginIsHeld'
    BY <1>3, OriginStays
  <1>4. CASE \/ LoadingPage \/ Started \/ StartFails \/ StartRejects
             \/ PageLoaded \/ PageFails \/ Retired
    BY <1>1, <1>4, BootOrigin
  <1>5. StopFirst => OriginIsHeld'
    BY <1>2 DEF StopFirst
  <1>6. ASSUME GiveUp, pc # "retiring" PROVE OriginIsHeld'
    BY <1>3, <1>6 DEF GiveUp, app
  <1>7. CASE StopSettles
    <2>1. daemon = None
      BY <1>1, <1>7 DEF StopSettles, Safe, HeldByPlace
    <2>2. origin' = None
      BY <1>7, <2>1 DEF StopSettles, OriginIsHeld
    <2> QED BY <1>2, <2>2
  <1>8. CASE RestartBegins \/ FolderBegins \/ ProBegins \/ ProSaved
    BY <1>2, <1>3, <1>5, <1>6, <1>8
       DEF RestartBegins, FolderBegins, ProBegins, ProSaved, AtStart, app
  <1>9. CASE RemovalBegins \/ RemovalStored
    <2>1. ASSUME UncertainRemoval, pc # "retiring" PROVE OriginIsHeld'
      BY <1>3, <2>1 DEF UncertainRemoval, app
    <2> QED BY <1>3, <1>5, <1>6, <1>9, <2>1 DEF RemovalBegins, RemovalStored, AtStart
  <1>10. CASE InstallBegins \/ CrashBegins \/ QuitBegins
    BY <1>2, <1>3, <1>5, <1>6, <1>10 DEF InstallBegins, CrashBegins, QuitBegins, AtStart,
       app
  <1>11. CASE RecoveryBegins
    <2>1. CASE GiveUp
      BY <1>6, <1>11, <2>1 DEF RecoveryBegins, AtStart
    <2>2. CASE quitting' = FALSE /\ UNCHANGED <<win, daemon, origin, life>>
      BY <1>11, <2>2 DEF OriginIsHeld, RecoveryBegins, AtStart
    <2> QED BY <1>11, <2>1, <2>2 DEF RecoveryBegins
  <1>12. CASE RecoveryReady
    BY <1>2, <1>3, <1>12 DEF RecoveryReady
  <1>13. CASE TakeTurn \/ SkipTurn
    <2>1. UNCHANGED app /\ UNCHANGED life /\ pc # "retiring"
      BY <1>1, <1>13 DEF TakeTurn, SkipTurn, TypeOK
    <2> QED BY <1>3, <2>1 DEF app
  <1>14. CASE QuitAsked \/ WindowCloses \/ DialogQuits
    BY <1>2, <1>14 DEF QuitAsked, WindowCloses, DialogQuits, QuitEvent
  <1>15. CASE DialogReleased \/ DialogRetries \/ NoticeAnswered
    BY <1>3, <1>6, <1>15 DEF DialogReleased, DialogRetries, NoticeAnswered, Dialogs
  <1>16. CASE \/ FirstBoot \/ Exit \/ OpenFolder \/ FolderPicked \/ (\E k \in Kinds : ProAsked(k))
              \/ InstallAsked \/ InstallerFails \/ UNCHANGED vars
    <2>1. UNCHANGED <<origin, daemon, win, quitting, life, pc>>
      BY <1>16 DEF FirstBoot, Exit, OpenFolder, FolderPicked, ProAsked, InstallAsked, InstallerFails,
         vars,
         app, turn
    <2> QED BY <2>1 DEF OriginIsHeld
  <1>17. ASSUME NEW d \in Daemons, CleanupSettles(d) \/ Dies(d) \/ LostEnds(d)
         PROVE  OriginIsHeld'
    <2>1. UNCHANGED <<app, pc>> /\ life \in [Daemons -> Lives] /\ origin \in Daemons \cup {None}
      BY <1>1, <1>17 DEF CleanupSettles, Dies, LostEnds, turn, TypeOK
    <2>2. ASSUME origin # None, life[origin] \in {"up", "dead"} PROVE life'[origin] \in {"up", "dead"}
      BY <1>17, <2>1, <2>2 DEF CleanupSettles, Dies, LostEnds
    <2> QED BY <2>1, <2>2 DEF OriginIsHeld, app
  <1>18. ASSUME NEW d \in Daemons, CrashCleaned(d)
         PROVE  OriginIsHeld'
    <2>1. CASE daemon = d
      BY <1>2, <1>18, <2>1 DEF CrashCleaned
    <2>2. CASE daemon # d
      <3>1. UNCHANGED <<app, pc>> /\ life \in [Daemons -> Lives]
        BY <1>1, <1>18, <2>2 DEF CrashCleaned, turn, TypeOK
      <3>2. origin # None => life'[origin] = life[origin]
        BY <1>18, <2>2, <3>1 DEF CrashCleaned, OriginIsHeld
      <3> QED BY <3>1, <3>2 DEF OriginIsHeld, app
    <2> QED BY <2>1, <2>2
  <1> QED BY <1>4, <1>7, <1>8, <1>9, <1>10, <1>11, <1>12, <1>13, <1>14, <1>15, <1>16, <1>17,
             <1>18 DEF Next, OwnerSteps, DaemonSteps, Environment

\* The window may only visit the origin of the daemon that main.js holds, and none once
\* it quits.
THEOREM OriginIsHeldHolds == Spec => []OriginIsHeld
  <1>1. Init => OriginIsHeld
    BY DEF Init, OriginIsHeld
  <1> QED BY <1>1, OriginStep, Invariance, PTL DEF Spec

\* What a transition other than the quit does with its turn: it keeps or frees it.
KeepsTurn ==
    /\ UNCHANGED <<closing, queue, gate>>
    /\ owner' \in {owner, Idle}

\* The ways in which an operation goes on.
LEMMA TurnMoves ==
    /\ \A b \in BOOLEAN : Return(b) => owner' = Idle
    /\ \A place : Await(place) => owner' = owner
    /\ \A b \in BOOLEAN : BootReturns(b) => owner' \in {owner, Idle}
    /\ CallBoot \/ CleanupFailure \/ GiveUp \/ UncertainRemoval => owner' \in {owner, Idle}
    /\ \A b \in BOOLEAN : Retire(b) => owner' = owner
  BY DEF Return, Await, BootReturns, CallBoot, CleanupFailure, GiveUp, UncertainRemoval,
     Retire

\* Stopping the daemon opens the gate for the quit alone.
LEMMA StopMoves ==
    ASSUME owner.kind # "quit"
    PROVE  /\ \A b \in BOOLEAN : AfterStop(b) => owner' \in {owner, Idle} /\ gate' = gate
           /\ StopFirst => owner' \in {owner, Idle} /\ gate' = gate
  <1>1. ASSUME NEW b \in BOOLEAN, AfterStop(b) PROVE owner' \in {owner, Idle} /\ gate' = gate
    <2>1. gate' = gate
      BY <1>1 DEF AfterStop
    <2>2. CASE Return(b) \/ Return(FALSE)
      BY <2>1, <2>2, TurnMoves
    <2>3. CASE CleanupFailure \/ CallBoot \/ Await("store")
      BY <2>1, <2>3, TurnMoves
    <2> QED BY <1>1, <2>2, <2>3 DEF AfterStop
  <1>2. ASSUME StopFirst PROVE owner' \in {owner, Idle} /\ gate' = gate
    <2>1. CASE AfterStop(TRUE)
      BY <1>1, <2>1
    <2>2. CASE Await("stopping") /\ UNCHANGED gate
      BY <2>2, TurnMoves
    <2> QED BY <1>2, <2>1, <2>2 DEF StopFirst
  <1> QED BY <1>1, <1>2

\* No transition but the quit opens the gate.
LEMMA OthersKeepTurn ==
    ASSUME OwnerSteps \/ DialogRetries \/ NoticeAnswered, owner.kind # "quit"
    PROVE  KeepsTurn
  <1>1. GiveUp => gate' = gate /\ owner' \in {owner, Idle}
    BY TurnMoves DEF GiveUp
  <1>2. UncertainRemoval => gate' = gate /\ owner' \in {owner, Idle}
    BY TurnMoves DEF UncertainRemoval
  <1>3. ASSUME LoadingPage \/ Started \/ StartFails PROVE KeepsTurn
    BY <1>3, TurnMoves DEF LoadingPage, Started, StartFails, KeepsTurn
  <1>4. ASSUME StartRejects \/ PageLoaded \/ PageFails PROVE KeepsTurn
    BY <1>4, TurnMoves DEF StartRejects, PageLoaded, PageFails, KeepsTurn
  <1>5. ASSUME Retired PROVE KeepsTurn
    BY <1>5, TurnMoves DEF Retired, KeepsTurn
  <1>6. ASSUME StopSettles PROVE KeepsTurn
    BY <1>6, StopMoves DEF StopSettles, KeepsTurn
  <1>7. ASSUME RestartBegins \/ FolderBegins \/ ProBegins \/ ProSaved PROVE KeepsTurn
    BY <1>1, <1>7, TurnMoves, StopMoves
       DEF RestartBegins, FolderBegins, ProBegins, ProSaved, KeepsTurn
  <1>8. ASSUME RemovalBegins \/ RemovalStored PROVE KeepsTurn
    BY <1>1, <1>2, <1>8, TurnMoves, StopMoves DEF RemovalBegins, RemovalStored, KeepsTurn
  <1>9. ASSUME InstallBegins \/ CrashBegins PROVE KeepsTurn
    BY <1>1, <1>9, TurnMoves, StopMoves DEF InstallBegins, CrashBegins, KeepsTurn
  <1>10. ASSUME RecoveryBegins \/ RecoveryReady PROVE KeepsTurn
    BY <1>1, <1>10, TurnMoves DEF RecoveryBegins, RecoveryReady, KeepsTurn
  <1>11. ~QuitBegins
    BY DEF QuitBegins, AtStart
  <1>12. ASSUME DialogReleased \/ DialogRetries \/ NoticeAnswered PROVE KeepsTurn
    BY <1>1, <1>12, TurnMoves DEF DialogReleased, DialogRetries, NoticeAnswered, KeepsTurn
  <1> QED BY <1>3, <1>4, <1>5, <1>6, <1>7, <1>8, <1>9, <1>10, <1>11, <1>12 DEF OwnerSteps

\* What every instance is once the stop that a quit waited for has settled.
LEMMA StopAnswersForAll ==
    ASSUME TypeOK, Safe, pc \in {"begin", "stopping"}, daemon = None,
           held # None => Settled(held)
    PROVE  \A d \in Daemons : Kept(d) => life[d] = "unproved"
  BY DEF TypeOK, Safe, Lives, Kept, MayLive, Settled, StartIsOwned, TreesAreHeld, IsStopped

\* The quit cleanup: it stops what main.js holds, and opens the gate.
LEMMA QuitSteps ==
    ASSUME TypeOK, Safe, QuitIsLast, QuitStopped, closing, owner.kind = "quit",
           OwnerSteps \/ DialogRetries \/ NoticeAnswered
    PROVE  QuitIsLast' /\ QuitStopped'
  <1>1. gate = "cleaning" /\ queue = <<>> /\ pc \in {"begin", "stopping"}
    BY DEF QuitIsLast, Idle
  <1>2. QuitBegins \/ StopSettles
    BY <1>1 DEF OwnerSteps, LoadingPage, Started, StartFails, StartRejects, PageLoaded,
       PageFails,
       Retired, RestartBegins, FolderBegins, ProBegins, ProSaved, RemovalBegins,
       RemovalStored,
       InstallBegins, RecoveryBegins, RecoveryReady, CrashBegins, DialogReleased,
       DialogRetries,
       NoticeAnswered, AtStart, Dialogs
  <1>3. closing' = closing /\ queue' = queue
    BY <1>2 DEF QuitBegins, StopSettles
  <1>4. ASSUME NEW clean \in BOOLEAN, AfterStop(clean), life' = life,
               \A d \in Daemons : Kept(d) => life[d] = "unproved"
        PROVE  QuitIsLast' /\ QuitStopped'
    <2>1. gate' = "cleaned" /\ owner' = Idle
      BY <1>4 DEF AfterStop, Return
    <2> QED BY <1>1, <1>3, <1>4, <2>1 DEF QuitIsLast, QuitStopped, Kept, MayLive
  <1>5. CASE StopSettles
    <2>1. daemon = None /\ Settled(held) /\ AfterStop(life[held] = "gone") /\ life' = life
      BY <1>5 DEF StopSettles, Safe, HeldByPlace
    <2>2. \A d \in Daemons : Kept(d) => life[d] = "unproved"
      BY <1>1, <2>1, StopAnswersForAll
    <2> QED BY <1>4, <2>1, <2>2
  <1>6. CASE QuitBegins
    <2>1. pc = "begin" /\ held = None
      BY <1>6 DEF QuitBegins, AtStart, Safe, HeldByPlace
    <2>2. CASE gate' = "cleaned" /\ stopError' = "retirement" /\ Return(FALSE)
               /\ UNCHANGED <<daemon, life>>
      <3>1. \A d \in Daemons : Kept(d) => life[d] = "unproved" \/ d = daemon
        BY <1>1, <2>1, <1>6 DEF QuitBegins, AtStart, TypeOK, Lives, Safe, Kept, MayLive,
           StartIsOwned, TreesAreHeld, IsStopped
      <3> QED BY <1>1, <1>3, <2>2, <3>1 DEF QuitIsLast, QuitStopped, Return, Kept, MayLive
    <2>3. CASE StopFirst /\ daemon = None
      <3>1. AfterStop(TRUE) /\ life' = life
        BY <2>3 DEF StopFirst
      <3>2. \A d \in Daemons : Kept(d) => life[d] = "unproved"
        BY <1>1, <2>1, <2>3, StopAnswersForAll
      <3> QED BY <1>4, <3>1, <3>2
    <2>4. CASE StopFirst /\ daemon # None
      <3>1. gate' = gate /\ pc' = "stopping" /\ owner' = owner
        BY <2>4 DEF StopFirst, Await
      <3> QED BY <1>1, <1>3, <3>1 DEF QuitIsLast, QuitStopped
    <2> QED BY <1>6, <2>2, <2>3, <2>4 DEF QuitBegins, app
  <1> QED BY <1>2, <1>5, <1>6

\* The quit is queued once, behind everything else.
LEMMA QuitQueued ==
    ASSUME TypeOK, Safe, QuitIsLast, QuitStopped, QuitEvent, owner' \in {owner, Idle},
           life' = life, stopError' = stopError, daemon' = daemon, owner' # owner \/ pc' # pc => ~closing
    PROVE  QuitIsLast' /\ QuitStopped'
  <1>1. CASE gate = "open"
    <2>1. ~closing /\ owner.kind # "quit" /\ \A i \in DOMAIN queue : queue[i].kind # "quit"
      BY <1>1 DEF Safe, QueueIsSound
    <2>2. /\ queue \in Seq(Ops) /\ queue' = Append(queue, Op("quit")) /\ gate' = "cleaning"
          /\ Op("quit") \in Ops /\ Op("quit").kind = "quit"
      BY <1>1, OpsFacts DEF QuitEvent, TypeOK, Kinds, Op
    <2>3. /\ Len(queue') = Len(queue) + 1 /\ queue'[Len(queue) + 1] = Op("quit") /\ queue' # <<>>
          /\ \A i \in 1..Len(queue) : queue'[i] = queue[i]
      BY <2>2
    <2>4. owner'.kind # "quit"
      BY <2>1 DEF Idle
    <2>5. Len(queue') - 1 = Len(queue) /\ DOMAIN queue = 1..Len(queue)
      BY <2>2, <2>3
    <2> QED BY <2>1, <2>2, <2>3, <2>4, <2>5 DEF QuitIsLast, QuitStopped
  <1>2. CASE gate # "open"
    <2>1. UNCHANGED <<gate, closing, queue, owner, pc>>
      BY <1>2 DEF QuitEvent, Safe, QueueIsSound
    <2> QED BY <1>2, <2>1 DEF QuitIsLast, QuitStopped, Kept, MayLive
  <1> QED BY <1>1, <1>2

\* A step of anything but the quit leaves it where it is.
LEMMA QuitWaits ==
    ASSUME Safe, QuitIsLast, QuitStopped, KeepsTurn, owner # Idle, owner.kind # "quit"
    PROVE  QuitIsLast' /\ QuitStopped'
  <1>1. gate \in {"cleaned", "exited"} => closing
    BY DEF Safe, QueueIsSound
  <1>2. gate \notin {"cleaned", "exited"}
    BY <1>1 DEF QuitIsLast
  <1>3. owner'.kind # "quit"
    BY DEF KeepsTurn, Idle
  <1> QED BY <1>2, <1>3 DEF QuitIsLast, QuitStopped, KeepsTurn

\* An instance that was answered for does not come back, and nothing is queued any more.
LEMMA QuitIgnores ==
    ASSUME Safe, QuitIsLast, QuitStopped, UNCHANGED <<closing, gate, owner, pc, stopError>>,
           closing => queue' = queue,
           \A d \in Daemons :
             \/ life'[d] \in {"gone", "unproved", "lost"}
             \/ Kept(d) /\ life[d] # "unproved" /\ (d = daemon => d = daemon')
    PROVE  QuitIsLast' /\ QuitStopped'
  <1>1. QuitIsLast'
    BY DEF QuitIsLast
  <1>2. QuitStopped'
    BY DEF QuitStopped, Kept, MayLive
  <1> QED BY <1>1, <1>2

\* Every step keeps the quit last, and its answer for every instance.
LEMMA QuitStep == Inv /\ QuitIsLast /\ QuitStopped /\ [Next]_vars => QuitIsLast' /\ QuitStopped'
  <1> SUFFICES ASSUME Inv, QuitIsLast, QuitStopped, [Next]_vars
               PROVE  QuitIsLast' /\ QuitStopped'
    OBVIOUS
  <1>1. TypeOK /\ Safe
    BY InvParts
  <1>2. CASE OwnerSteps \/ DialogRetries \/ NoticeAnswered
    <2>1. owner # Idle
      <3>1. pc # "idle"
        BY <1>2 DEF OwnerSteps, LoadingPage, Started, StartFails, StartRejects, PageLoaded,
           PageFails, Retired, StopSettles, RestartBegins, FolderBegins, ProBegins,
           ProSaved,
           RemovalBegins, RemovalStored, InstallBegins, RecoveryBegins, RecoveryReady,
           CrashBegins,
           QuitBegins, DialogReleased, DialogRetries, NoticeAnswered, AtStart, Dialogs
      <3> QED BY <1>1, <3>1 DEF TypeOK
    <2>2. CASE owner.kind = "quit"
      BY <1>1, <1>2, <2>2, QuitSteps DEF Safe, QueueIsSound
    <2>3. CASE owner.kind # "quit"
      BY <1>1, <1>2, <2>1, <2>3, OthersKeepTurn, QuitWaits
    <2> QED BY <2>2, <2>3
  <1>3. CASE TakeTurn
    <2>1. queue \in Seq(Ops) /\ queue # <<>> /\ owner = Idle /\ owner' = Head(queue)
          /\ queue' = Tail(queue) /\ pc' = "begin" /\ UNCHANGED <<closing, gate, life, daemon, stopError>>
          /\ (closing => Head(queue).kind = "quit")
      BY <1>1, <1>3 DEF TakeTurn, TypeOK, app, outside
    <2>2. gate \notin {"cleaned", "exited"}
      BY <1>1, <2>1 DEF QuitIsLast, Safe, QueueIsSound
    <2>3. closing => Len(queue) = 1
      <3>1. Len(queue) \in Nat /\ Len(queue) >= 1 /\ Head(queue) = queue[1]
        BY <2>1
      <3>2. owner.kind # "quit" /\ queue # <<>>
        BY <2>1 DEF Idle
      <3>3. closing => \A i \in 1..(Len(queue) - 1) : queue[i].kind # "quit"
        BY <2>2, <3>2 DEF QuitIsLast
      <3>4. closing => queue[1].kind = "quit"
        BY <2>1, <3>1
      <3>5. \A n \in Nat : n >= 1 /\ n # 1 => 1 \in 1..(n - 1)
        OBVIOUS
      <3> QED BY <3>1, <3>3, <3>4, <3>5
    <2>4. closing => queue' = <<>>
      BY <2>1, <2>3
    <2>5. closing => gate = "cleaning"
      BY <2>1 DEF QuitIsLast
    <2> QED BY <2>1, <2>2, <2>4, <2>5 DEF QuitIsLast, QuitStopped
  <1>4. CASE SkipTurn
    <2>1. queue \in Seq(Ops) /\ queue # <<>> /\ Head(queue).kind # "quit" /\ queue' = Tail(queue)
          /\ closing /\ UNCHANGED <<closing, gate, owner, pc, life, daemon, stopError>>
      BY <1>1, <1>4 DEF SkipTurn, TypeOK, turn, app
    <2>2. /\ gate = "cleaning" /\ owner.kind # "quit" /\ queue[Len(queue)].kind = "quit"
          /\ \A i \in 1..(Len(queue) - 1) : queue[i].kind # "quit"
      BY <2>1 DEF QuitIsLast
    <2>3. Len(queue) > 1
      <3>1. Len(queue) \in Nat /\ Len(queue) >= 1 /\ Head(queue) = queue[1]
        BY <2>1
      <3> QED BY <2>1, <2>2, <3>1
    <2>4. /\ Len(queue') = Len(queue) - 1 /\ queue' # <<>>
          /\ \A i \in 1..(Len(queue) - 1) : queue'[i] = queue[i + 1]
      <3>1. Len(queue) \in Nat /\ Len(queue') = Len(queue) - 1
        BY <2>1
      <3>2. \A i \in 1..(Len(queue) - 1) : queue'[i] = queue[i + 1]
        BY <2>1
      <3> QED BY <2>3, <3>1, <3>2
    <2>5. queue'[Len(queue')].kind = "quit"
      BY <2>1, <2>2, <2>3, <2>4
    <2>6. \A i \in 1..(Len(queue') - 1) : queue'[i].kind # "quit"
      BY <2>1, <2>2, <2>3, <2>4
    <2> QED BY <2>1, <2>2, <2>4, <2>5, <2>6 DEF QuitIsLast, QuitStopped
  <1>5. CASE QuitAsked \/ WindowCloses
    BY <1>1, <1>5, QuitQueued DEF QuitAsked, WindowCloses, turn
  <1>6. CASE DialogQuits
    BY <1>1, <1>6, QuitQueued DEF DialogQuits, Return
  <1>7. CASE Exit
    BY <1>7 DEF Exit, app, turn, QuitIsLast, QuitStopped, Kept, MayLive
  <1>8. ASSUME NEW d \in Daemons, CleanupSettles(d) \/ Dies(d) \/ LostEnds(d) \/ CrashCleaned(d)
        PROVE  QuitIsLast' /\ QuitStopped'
    <2>1. UNCHANGED <<closing, gate, owner, pc, stopError>> /\ life \in [Daemons -> Lives]
      BY <1>1, <1>8 DEF CleanupSettles, Dies, LostEnds, CrashCleaned, turn, outside, TypeOK
    <2>2. closing => queue' = queue
      BY <1>8 DEF CleanupSettles, Dies, LostEnds, CrashCleaned, Run
    <2>3. /\ \A e \in Daemons : e # d => life'[e] = life[e] /\ (e = daemon => daemon' = e)
          /\ \/ life'[d] \in {"gone", "unproved"}
             \/ life[d] = "up" /\ daemon' = daemon
      BY <1>8, <2>1 DEF CleanupSettles, Dies, LostEnds, CrashCleaned, app
    <2>4. \A e \in Daemons :
            \/ life'[e] \in {"gone", "unproved", "lost"}
            \/ Kept(e) /\ life[e] # "unproved" /\ (e = daemon => e = daemon')
      BY <2>3 DEF Kept, MayLive
    <2> QED BY <1>1, <2>1, <2>2, <2>4, QuitIgnores
  <1>9. CASE \/ FirstBoot \/ OpenFolder \/ FolderPicked \/ (\E k \in Kinds : ProAsked(k))
             \/ InstallAsked \/ InstallerFails \/ UNCHANGED vars
    <2>1. UNCHANGED <<closing, gate, owner, pc, stopError, life, daemon>>
          /\ (closing => queue' = queue)
      BY <1>9 DEF FirstBoot, OpenFolder, FolderPicked, ProAsked, InstallAsked, InstallerFails,
         vars, app, turn, outside, Run
    <2> QED BY <1>1, <2>1, QuitIgnores DEF Kept, MayLive
  <1> QED BY <1>2, <1>3, <1>4, <1>5, <1>6, <1>7, <1>8, <1>9 DEF Next, DaemonSteps, Environment

\* What may still run when the app exits is a tree whose stop was tried and not proved,
\* the one that the first boot lost, or the daemon main.js holds if the Pro retirement
\* before its stop was rejected.
THEOREM ExitLeavesNothingHolds == Spec => []ExitLeavesNothing
  <1>1. Init => QuitIsLast /\ QuitStopped
    BY DEF Init, QuitIsLast, QuitStopped
  <1>2. QuitStopped => ExitLeavesNothing
    BY DEF QuitStopped, ExitLeavesNothing, Kept
  <1> QED BY <1>1, <1>2, QuitStep, Invariance, PTL DEF Spec
============================================================================
