----------------------------- MODULE DaemonProofs -----------------------------
(***************************************************************************)
(* Proofs about Daemon.tla, DaemonStartup.tla with DaemonOutput.tla in it, *)
(* and ProcessTree.tla. On any platforms, a true answer of stop() is a     *)
(* proof, and an instance lives as DaemonLife.tla says, which is all that  *)
(* Desktop.tla knows of it. However its output is cut, each line is said   *)
(* as if it had come whole, and the startup URL is found. For any number   *)
(* of processes and of births among them, the termination behind a stop()  *)
(* signals nothing that is not the daemon's, says "gone" of nothing that   *)
(* is there, and gives up only after it tried everything.                  *)
(***************************************************************************)
EXTENDS DaemonStartup, ProcessTree, SequenceTheorems, FiniteSetTheorems,
        WellFoundedInduction, TLAPS

USE DaemonConstants DEF Causes, Results

\* No process of the daemon exists.
Gone == tree \in {"none", "gone"}

\* What start() has spawned and begun, by the place it is at.
StartIsAt ==
    /\ phase \in {"idle", "env"} => /\ tree = "none" /\ answer = "none" /\ child = "none"
                                   /\ url = "pending" /\ asked \subseteq {"none"} /\ ~told
    /\ phase = "idle" => asked = {}
    /\ phase = "waiting" => answer = "none" /\ child # "none" /\ asked = {} /\ ~stopping /\ ~told
    /\ phase = "failing" => answer = "failure"
    /\ phase = "started" => answer # "none" \/ (child = "running" /\ ~stopping)
    /\ phase = "started" => answer # "failure"
    /\ phase = "rejected" => answer \in {"none", "failure"}
    /\ phase = "rejected" /\ answer = "none" => tree = "none" /\ child = "none"

\* An end the code has noticed is one of the tree, or of none.
EndsAreReal ==
    /\ \A c \in Causes : cleanup[c] = "clean" => Gone
    /\ child = "nopid" => tree = "none" /\ url # "seen"
    /\ event # "none" => tree \in {"headless", "gone"}
    /\ Windows => tree # "headless"

\* stop() answered an immediate true only where nothing was or will be spawned.
ImmediateIsEmpty ==
    "none" \in asked => stopping /\ tree = "none" /\ phase \in {"env", "rejected"}

\* The crash of a started daemon is cleaned up once, and reported then.
CrashIsOnce ==
    /\ phase = "started" /\ ~stopping /\ event # "close" => answer = "none"
    /\ answer = "crash" => phase = "started"
    /\ told => cleanup["crash"] \in {"clean", "unproved"}

\* The inductive invariant.
IInv == TypeOK /\ StartIsAt /\ EndsAreReal /\ ImmediateIsEmpty /\ CrashIsOnce

-----------------------------------------------------------------------------
(* The invariant is inductive.                                              *)

\* A new Daemon object satisfies it.
LEMMA InitInv == Init => IInv
  BY DEF Init, IInv, TypeOK, StartIsAt, EndsAreReal, ImmediateIsEmpty, CrashIsOnce, Gone

\* start() is called on a new object.
LEMMA StartKeeps == IInv /\ Start => IInv'
  <1> SUFFICES ASSUME IInv, Start PROVE IInv'
    OBVIOUS
  <1> USE DEF IInv, Start
  <1>1. TypeOK'
    BY DEF TypeOK, StartIsAt
  <1>2. StartIsAt'
    BY DEF StartIsAt
  <1>3. EndsAreReal'
    BY DEF EndsAreReal, Gone, Windows
  <1>4. ImmediateIsEmpty'
    BY DEF ImmediateIsEmpty
  <1>5. CrashIsOnce'
    BY DEF CrashIsOnce
  <1>6. QED
    BY <1>1, <1>2, <1>3, <1>4, <1>5

\* The spawn comes after no stop(), or does not come.
LEMMA SpawnKeeps == IInv /\ Spawn => IInv'
  <1> SUFFICES ASSUME IInv, Spawn PROVE IInv'
    OBVIOUS
  <1> USE DEF IInv, Spawn
  <1>1. TypeOK'
    BY DEF TypeOK
  <1>2. StartIsAt'
    BY DEF StartIsAt, ImmediateIsEmpty
  <1>3. EndsAreReal'
    BY DEF EndsAreReal, Gone, Windows, TypeOK, StartIsAt
  <1>4. ImmediateIsEmpty'
    BY DEF ImmediateIsEmpty
  <1>5. CrashIsOnce'
    BY DEF CrashIsOnce
  <1>6. QED
    BY <1>1, <1>2, <1>3, <1>4, <1>5

\* The Windows wrapper says it is ready.
LEMMA WrapperReadyKeeps == IInv /\ WrapperReady => IInv'
  <1> SUFFICES ASSUME IInv, WrapperReady PROVE IInv'
    OBVIOUS
  <1> USE DEF IInv, WrapperReady
  <1>1. TypeOK'
    BY DEF TypeOK
  <1>2. StartIsAt'
    BY DEF StartIsAt
  <1>3. EndsAreReal'
    BY DEF EndsAreReal, Gone, Windows
  <1>4. ImmediateIsEmpty'
    BY DEF ImmediateIsEmpty
  <1>5. CrashIsOnce'
    BY DEF CrashIsOnce
  <1>6. QED
    BY <1>1, <1>2, <1>3, <1>4, <1>5

\* The URL is read from the pipe, which a spawn that failed does not have.
LEMMA UrlSeenKeeps == IInv /\ UrlSeen => IInv'
  <1> SUFFICES ASSUME IInv, UrlSeen PROVE IInv'
    OBVIOUS
  <1> USE DEF IInv, UrlSeen, Reacting, Ready, Broken
  <1>1. TypeOK'
    BY DEF TypeOK
  <1>2. StartIsAt'
    BY DEF StartIsAt
  <1>3. EndsAreReal'
    BY DEF EndsAreReal, Gone, Windows
  <1>4. ImmediateIsEmpty'
    BY DEF ImmediateIsEmpty
  <1>5. CrashIsOnce'
    BY DEF CrashIsOnce
  <1>6. QED
    BY <1>1, <1>2, <1>3, <1>4, <1>5

\* The deadline, or the "error" event.
LEMMA UrlFailsKeeps == IInv /\ UrlFails => IInv'
  <1> SUFFICES ASSUME IInv, UrlFails PROVE IInv'
    OBVIOUS
  <1> USE DEF IInv, UrlFails, Reacting, Ready, Broken
  <1>1. TypeOK'
    BY DEF TypeOK
  <1>2. StartIsAt'
    BY DEF StartIsAt
  <1>3. EndsAreReal'
    BY DEF EndsAreReal, Gone, Windows
  <1>4. ImmediateIsEmpty'
    BY DEF ImmediateIsEmpty
  <1>5. CrashIsOnce'
    BY DEF CrashIsOnce
  <1>6. QED
    BY <1>1, <1>2, <1>3, <1>4, <1>5

\* The credential was handed over, or was not.
LEMMA HandoffSettlesKeeps == IInv /\ HandoffSettles => IInv'
  <1> SUFFICES ASSUME IInv, HandoffSettles PROVE IInv'
    OBVIOUS
  <1> USE DEF IInv, HandoffSettles, Reacting, Ready, Broken
  <1>1. TypeOK'
    BY DEF TypeOK
  <1>2. StartIsAt'
    BY DEF StartIsAt
  <1>3. EndsAreReal'
    BY DEF EndsAreReal, Gone, Windows
  <1>4. ImmediateIsEmpty'
    BY DEF ImmediateIsEmpty
  <1>5. CrashIsOnce'
    BY DEF CrashIsOnce
  <1>6. QED
    BY <1>1, <1>2, <1>3, <1>4, <1>5

\* start() resolves with a child that nobody has stopped yet.
LEMMA StartResolvesKeeps == IInv /\ StartResolves => IInv'
  <1> SUFFICES ASSUME IInv, StartResolves PROVE IInv'
    OBVIOUS
  <1> USE DEF IInv, StartResolves, Ready
  <1>1. TypeOK'
    BY DEF TypeOK
  <1>2. StartIsAt'
    BY DEF StartIsAt, TypeOK, EndsAreReal, Gone, Windows
  <1>3. EndsAreReal'
    BY DEF EndsAreReal, Gone, Windows
  <1>4. ImmediateIsEmpty'
    BY DEF ImmediateIsEmpty
  <1>5. CrashIsOnce'
    BY DEF CrashIsOnce, StartIsAt
  <1>6. QED
    BY <1>1, <1>2, <1>3, <1>4, <1>5

\* The catch of start(): nothing is left only where nothing was spawned, or the
\* wrapper of Windows, and its Job with it, is known to be closed.
LEMMA StartFailsKeeps == IInv /\ StartFails => IInv'
  <1> SUFFICES ASSUME IInv, StartFails PROVE IInv'
    OBVIOUS
  <1> USE DEF IInv, StartFails, Broken
  <1>1. TypeOK'
    BY DEF TypeOK, StartIsAt
  <1>2. StartIsAt'
    BY DEF StartIsAt
  <1>3. EndsAreReal'
    BY DEF EndsAreReal, Gone, Windows, TypeOK, StartIsAt
  <1>4. ImmediateIsEmpty'
    BY DEF ImmediateIsEmpty
  <1>5. CrashIsOnce'
    BY DEF CrashIsOnce
  <1>6. QED
    BY <1>1, <1>2, <1>3, <1>4, <1>5

\* start() rejects once its cleanup has settled.
LEMMA StartRejectsKeeps == IInv /\ StartRejects => IInv'
  <1> SUFFICES ASSUME IInv, StartRejects PROVE IInv'
    OBVIOUS
  <1> USE DEF IInv, StartRejects
  <1>1. TypeOK'
    BY DEF TypeOK
  <1>2. StartIsAt'
    BY DEF StartIsAt
  <1>3. EndsAreReal'
    BY DEF EndsAreReal, Gone, Windows
  <1>4. ImmediateIsEmpty'
    BY DEF ImmediateIsEmpty
  <1>5. CrashIsOnce'
    BY DEF CrashIsOnce
  <1>6. QED
    BY <1>1, <1>2, <1>3, <1>4, <1>5

\* stop() never begins a second cleanup.
LEMMA StopKeeps == IInv /\ Stop => IInv'
  <1> SUFFICES ASSUME IInv, Stop PROVE IInv'
    OBVIOUS
  <1> USE DEF IInv, Stop
  <1>1. TypeOK'
    BY ZenonT(40) DEF TypeOK
  <1>2. StartIsAt'
    BY DEF StartIsAt
  <1>3. EndsAreReal'
    BY DEF EndsAreReal, Gone, Windows, TypeOK
  <1>4. ImmediateIsEmpty'
    BY DEF ImmediateIsEmpty, StartIsAt
  <1>5. CrashIsOnce'
    BY DEF CrashIsOnce, TypeOK
  <1>6. QED
    BY <1>1, <1>2, <1>3, <1>4, <1>5

\* The root of the tree dies.
LEMMA RootDiesKeeps == IInv /\ RootDies => IInv'
  <1> SUFFICES ASSUME IInv, RootDies PROVE IInv'
    OBVIOUS
  <1> USE DEF IInv, RootDies
  <1>1. TypeOK'
    BY DEF TypeOK
  <1>2. StartIsAt'
    BY DEF StartIsAt
  <1>3. EndsAreReal'
    BY DEF EndsAreReal, Gone, Windows
  <1>4. ImmediateIsEmpty'
    BY DEF ImmediateIsEmpty
  <1>5. CrashIsOnce'
    BY DEF CrashIsOnce
  <1>6. QED
    BY <1>1, <1>2, <1>3, <1>4, <1>5

\* The last descendant dies.
LEMMA OrphansDieKeeps == IInv /\ OrphansDie => IInv'
  <1> SUFFICES ASSUME IInv, OrphansDie PROVE IInv'
    OBVIOUS
  <1> USE DEF IInv, OrphansDie
  <1>1. TypeOK'
    BY DEF TypeOK
  <1>2. StartIsAt'
    BY DEF StartIsAt
  <1>3. EndsAreReal'
    BY DEF EndsAreReal, Gone, Windows
  <1>4. ImmediateIsEmpty'
    BY DEF ImmediateIsEmpty
  <1>5. CrashIsOnce'
    BY DEF CrashIsOnce
  <1>6. QED
    BY <1>1, <1>2, <1>3, <1>4, <1>5

\* "exit" comes only of a root that is dead.
LEMMA ExitEventKeeps == IInv /\ ExitEvent => IInv'
  <1> SUFFICES ASSUME IInv, ExitEvent PROVE IInv'
    OBVIOUS
  <1> USE DEF IInv, ExitEvent, Reacting, Ready, Broken
  <1>1. TypeOK'
    BY DEF TypeOK
  <1>2. StartIsAt'
    BY DEF StartIsAt
  <1>3. EndsAreReal'
    BY DEF EndsAreReal, Gone, Windows
  <1>4. ImmediateIsEmpty'
    BY DEF ImmediateIsEmpty
  <1>5. CrashIsOnce'
    BY DEF CrashIsOnce
  <1>6. QED
    BY <1>1, <1>2, <1>3, <1>4, <1>5

\* "close": a started daemon nobody stopped has begun no cleanup yet.
LEMMA CloseEventKeeps == IInv /\ CloseEvent => IInv'
  <1> SUFFICES ASSUME IInv, CloseEvent PROVE IInv'
    OBVIOUS
  <1> USE DEF IInv, CloseEvent, Reacting, Ready, Broken
  <1>1. TypeOK'
    BY DEF TypeOK, CrashIsOnce
  <1>2. StartIsAt'
    BY DEF StartIsAt
  <1>3. EndsAreReal'
    BY DEF EndsAreReal, Gone, Windows, TypeOK
  <1>4. ImmediateIsEmpty'
    BY DEF ImmediateIsEmpty
  <1>5. CrashIsOnce'
    BY DEF CrashIsOnce, TypeOK
  <1>6. QED
    BY <1>1, <1>2, <1>3, <1>4, <1>5

\* A cleanup reports what became of the tree; the crash is told with it.
LEMMA CleanupSettlesKeeps == ASSUME NEW c \in Causes, IInv, CleanupSettles(c) PROVE IInv'
  <1> USE DEF IInv, CleanupSettles
  <1>1. TypeOK'
    BY DEF TypeOK
  <1>2. StartIsAt'
    BY DEF StartIsAt, TypeOK
  <1>3. EndsAreReal'
    BY DEF EndsAreReal, Gone, Windows, TypeOK
  <1>4. ImmediateIsEmpty'
    BY DEF ImmediateIsEmpty
  <1>5. CrashIsOnce'
    BY DEF CrashIsOnce, TypeOK
  <1>6. QED
    BY <1>1, <1>2, <1>3, <1>4, <1>5

-----------------------------------------------------------------------------
(* What follows for every behaviour.                                        *)

\* Every step of a Daemon object keeps the invariant.
LEMMA InvStep == IInv /\ [Next]_vars => IInv'
  <1> SUFFICES ASSUME IInv, [Next]_vars PROVE IInv'
    OBVIOUS
  <1>1. CASE UNCHANGED vars
    BY <1>1 DEF vars, IInv, TypeOK, StartIsAt, EndsAreReal, ImmediateIsEmpty,
                CrashIsOnce, Gone, Windows
  <1>2. CASE Next
    BY <1>2, StartKeeps, SpawnKeeps, WrapperReadyKeeps, UrlSeenKeeps, UrlFailsKeeps,
       HandoffSettlesKeeps, StartResolvesKeeps, StartFailsKeeps, StartRejectsKeeps,
       StopKeeps, RootDiesKeeps, OrphansDieKeeps, ExitEventKeeps, CloseEventKeeps,
       CleanupSettlesKeeps DEF Next
  <1>3. QED
    BY <1>1, <1>2

\* The invariant holds in every state of every Daemon object, on any platform.
THEOREM Invariance == Spec => []IInv
  BY InitInv, InvStep, PTL DEF Spec

\* A true answer of stop() is a proof that no process of the daemon is left, and
\* stays one: neither a spawn that stop() came before nor a start that failed nor a
\* crash that is being cleaned up gives one early.
THEOREM TrueIsProof == Spec => []ProofHolds
  <1>1. IInv => ProofHolds
    BY DEF IInv, TypeOK, EndsAreReal, ImmediateIsEmpty, Gone, ProofHolds, SaidStopped
  <1>2. QED
    BY <1>1, Invariance, PTL

-----------------------------------------------------------------------------
(* Refinement.                                                              *)

\* A step of DaemonLife, or none.
LifeStep == Life!LifeNext \/ UNCHANGED Life!lifeVars

\* Each callback of the object is the step that DaemonLife names, or none.
LEMMA StartMaps == IInv /\ Start => Life!Begin
  BY DEF IInv, StartIsAt, Start, Life!Begin, LifeOf

\* A start that ends without a child fails, or had been stopped.
LEMMA SpawnMaps == IInv /\ Spawn => LifeStep
  <1> SUFFICES ASSUME IInv, Spawn PROVE LifeStep
    OBVIOUS
  <1> USE DEF IInv, StartIsAt, Spawn, LifeOf
  <1>1. CASE phase' = "waiting"
    BY <1>1 DEF LifeStep, Life!lifeVars
  <1>2. CASE phase' = "rejected" /\ stopping
    <2>1. Life!Ends
      BY <1>2 DEF Life!Ends, Life!Move
    <2>2. QED
      BY <2>1 DEF LifeStep, Life!LifeNext
  <1>3. CASE phase' = "rejected" /\ ~stopping
    <2>1. Life!Fails
      BY <1>3 DEF Life!Fails, Life!Move
    <2>2. QED
      BY <2>1 DEF LifeStep, Life!LifeNext
  <1>4. QED
    BY <1>1, <1>2, <1>3

\* Only a daemon that starts comes up.
LEMMA StartResolvesMaps == IInv /\ StartResolves => Life!Starts
  BY DEF IInv, StartIsAt, StartResolves, Ready, Life!Starts, Life!Move, LifeOf

\* A start that fails is being cleaned up, or has left nothing.
LEMMA StartFailsMaps == IInv /\ StartFails => Life!Fails
  BY DEF IInv, TypeOK, StartIsAt, StartFails, Broken, Life!Fails, Life!Move, LifeOf, Verdict

\* stop() stops, or repeats the answer that is being looked for.
LEMMA StopMaps == IInv /\ Stop => LifeStep
  <1> SUFFICES ASSUME IInv, Stop PROVE LifeStep
    OBVIOUS
  <1>1. stopping' /\ UNCHANGED <<phase, told>> /\ phase \in {"env", "started", "rejected"}
    BY DEF Stop
  <1>2. CASE phase = "env"
    <2>1. answer = "none" /\ child = "none"
      BY <1>2 DEF IInv, StartIsAt
    <2>2. QED
      BY <1>1, <1>2, <2>1 DEF LifeStep, Life!LifeNext, Life!Stops, Life!Move,
         Life!lifeVars, LifeOf, IInv, TypeOK
  <1>3. CASE phase # "env" /\ answer = "none" /\ child = "running"
    <2>1. answer' = "stop" /\ cleanup'["stop"] = "pending" /\ phase = "started"
      BY <1>1, <1>3 DEF Stop, IInv, TypeOK, StartIsAt
    <2>2. LifeOf = "up" /\ LifeOf' = "stopping"
      BY <1>1, <1>3, <2>1 DEF LifeOf, Verdict
    <2>3. QED
      BY <1>1, <2>2 DEF LifeStep, Life!LifeNext, Life!Stops, Life!Move
  <1>4. CASE phase # "env" /\ answer = "none" /\ child # "running"
    BY <1>1, <1>4 DEF Stop, LifeStep, Life!lifeVars, LifeOf, IInv, StartIsAt
  <1>5. CASE phase # "env" /\ answer # "none"
    <2>1. UNCHANGED <<answer, cleanup>>
      BY <1>5 DEF Stop
    <2>2. LifeOf = Verdict(answer) /\ LifeOf' = Verdict(answer)'
      BY <1>1, <1>5, <2>1 DEF LifeOf
    <2>3. CASE answer = "crash" /\ ~stopping /\ cleanup[answer] = "pending"
      <3>1. Verdict(answer) = "dead" /\ Verdict(answer)' = "stopping"
        BY <1>1, <2>1, <2>3 DEF Verdict
      <3>2. QED
        BY <1>1, <2>2, <3>1 DEF LifeStep, Life!LifeNext, Life!Stops, Life!Move
    <2>4. CASE ~(answer = "crash" /\ ~stopping /\ cleanup[answer] = "pending")
      <3>1. Verdict(answer)' = Verdict(answer)
        BY <1>1, <2>1, <2>4 DEF Verdict
      <3>2. QED
        BY <1>1, <2>2, <3>1 DEF LifeStep, Life!lifeVars
    <2>5. QED
      BY <2>3, <2>4
  <1>6. QED
    BY <1>2, <1>3, <1>4, <1>5

\* "close" is a death only of a started daemon nobody stopped.
LEMMA CloseEventMaps == IInv /\ CloseEvent => LifeStep
  <1> SUFFICES ASSUME IInv, CloseEvent PROVE LifeStep
    OBVIOUS
  <1> USE DEF IInv, TypeOK, StartIsAt, CrashIsOnce, CloseEvent, LifeOf, Verdict
  <1>1. CASE phase = "started" /\ ~stopping
    <2>1. Life!Dies
      BY <1>1 DEF Life!Dies, Life!Move
    <2>2. QED
      BY <2>1 DEF LifeStep, Life!LifeNext
  <1>2. CASE ~(phase = "started" /\ ~stopping)
    BY <1>2 DEF LifeStep, Life!lifeVars
  <1>3. QED
    BY <1>1, <1>2

\* A cleanup ends a daemon that was stopped, or reports one that died.
LEMMA CleanupSettlesMaps ==
    ASSUME NEW c \in Causes, IInv, CleanupSettles(c)
    PROVE  LifeStep
  <1>1. /\ answer = c /\ phase \in {"failing", "started", "rejected"}
        /\ UNCHANGED <<phase, answer, stopping>>
    BY DEF IInv, TypeOK, StartIsAt, CleanupSettles
  <1>2. cleanup[c] = "pending" /\ cleanup'[c] \in {"clean", "unproved"}
    BY DEF IInv, TypeOK, CleanupSettles
  <1>3. LifeOf = Verdict(c) /\ LifeOf' = Verdict(c)'
    BY <1>1 DEF LifeOf
  <1>4. LifeOf' \in {"gone", "unproved"}
    <2>1. CASE cleanup'[c] = "clean"
      <3>1. Verdict(c)' = "gone"
        BY <2>1 DEF Verdict
      <3>2. QED
        BY <1>3, <3>1
    <2>2. CASE cleanup'[c] = "unproved"
      <3>1. Verdict(c)' = "unproved"
        BY <2>2 DEF Verdict
      <3>2. QED
        BY <1>3, <3>1
    <2>3. QED
      BY <1>2, <2>1, <2>2
  <1>5. CASE c = "crash" /\ ~stopping
    <2>1. LifeOf = "dead"
      BY <1>2, <1>3, <1>5 DEF Verdict
    <2>2. ~told /\ told' = TRUE
      BY <1>2, <1>5 DEF CleanupSettles, IInv, CrashIsOnce
    <2>3. QED
      BY <1>1, <1>4, <2>1, <2>2 DEF LifeStep, Life!LifeNext, Life!Reports
  <1>6. CASE ~(c = "crash" /\ ~stopping)
    <2>1. LifeOf = "stopping"
      BY <1>2, <1>3, <1>6 DEF Verdict
    <2>2. told' = told
      BY <1>6 DEF CleanupSettles, IInv, TypeOK
    <2>3. QED
      BY <1>1, <1>4, <2>1, <2>2 DEF LifeStep, Life!LifeNext, Life!Ends, Life!Move
  <1>7. QED
    BY <1>5, <1>6

\* The other steps are no business of main.js.
Unseen == \/ WrapperReady \/ UrlSeen \/ UrlFails \/ HandoffSettles \/ StartRejects
          \/ RootDies \/ OrphansDie \/ ExitEvent

\* They do not move the life of the instance.
LEMMA UnseenStutters == IInv /\ (Unseen \/ UNCHANGED vars) => UNCHANGED Life!lifeVars
  <1> SUFFICES ASSUME IInv, Unseen \/ UNCHANGED vars PROVE UNCHANGED Life!lifeVars
    OBVIOUS
  <1> USE DEF IInv, TypeOK, StartIsAt, LifeOf, Verdict, Life!lifeVars
  <1>1. CASE UNCHANGED <<phase, stopping, answer, cleanup, told>>
    BY <1>1
  <1>2. CASE StartRejects
    BY <1>2 DEF StartRejects
  <1>3. QED
    BY <1>1, <1>2 DEF Unseen, vars, WrapperReady, UrlSeen, UrlFails, HandoffSettles,
       RootDies, OrphansDie, ExitEvent

\* A Daemon object lives as main.js relies on: DaemonLife, by whose steps the
\* instances of Desktop.tla move.
THEOREM DaemonImplementsLife == Spec => ImplementsLife
  <1>1. Init => Life!LifeInit
    BY DEF Init, Life!LifeInit, LifeOf
  <1>2. IInv /\ [Next]_vars => [Life!LifeNext]_(Life!lifeVars)
    <2> SUFFICES ASSUME IInv, [Next]_vars PROVE LifeStep
      BY DEF LifeStep
    <2>1. CASE Start \/ StartResolves \/ StartFails
      BY <2>1, StartMaps, StartResolvesMaps, StartFailsMaps DEF LifeStep, Life!LifeNext
    <2>2. CASE Spawn \/ Stop \/ CloseEvent
      BY <2>2, SpawnMaps, StopMaps, CloseEventMaps
    <2>3. ASSUME NEW c \in Causes, CleanupSettles(c) PROVE LifeStep
      BY <2>3, CleanupSettlesMaps
    <2>4. CASE Unseen \/ UNCHANGED vars
      BY <2>4, UnseenStutters DEF LifeStep
    <2>5. QED
      BY <2>1, <2>2, <2>3, <2>4 DEF Next, Unseen
  <1>3. QED
    BY <1>1, <1>2, Invariance, PTL DEF Spec, ImplementsLife, Life!LifeSpec

-----------------------------------------------------------------------------
(* With what the daemon prints.                                             *)

\* Whatever a daemon prints, and wherever its text is cut, it only takes the
\* steps of Daemon.tla: UrlSeen is the one that a piece of text can cause.
THEOREM StartupIsDaemon == StartupSpec => Spec
  <1>1. StartupInit => Init
    BY DEF StartupInit
  <1>2. [StartupNext]_<<vars, streamVars>> => [Next]_vars
    <2> SUFFICES ASSUME [StartupNext]_<<vars, streamVars>> PROVE Next \/ UNCHANGED vars
      OBVIOUS
    <2>1. ASSUME NEW text, Prints(text) PROVE Next \/ UNCHANGED vars
      BY <2>1 DEF Prints, Next
    <2>2. CASE PipeEnds
      BY <2>2 DEF PipeEnds
    <2>3. CASE Closes
      BY <2>3 DEF Closes, Next
    <2>4. CASE Settles
      BY <2>4 DEF Settles, Next
    <2>5. CASE Others
      BY <2>5 DEF Others, Next
    <2>6. CASE UNCHANGED <<vars, streamVars>>
      BY <2>6
    <2>7. QED
      BY <2>1, <2>2, <2>3, <2>4, <2>5, <2>6 DEF StartupNext
  <1>3. QED
    BY <1>1, <1>2, PTL DEF StartupSpec, Spec

\* So ProofHolds and the contract of DaemonLife hold of it too.
COROLLARY StartupKeepsTheContract == StartupSpec => []ProofHolds /\ ImplementsLife
  BY StartupIsDaemon, TrueIsProof, DaemonImplementsLife, PTL

-----------------------------------------------------------------------------
(* A set of numbers in order, and the parts into which a text is cut.        *)

HIDE DaemonConstants DEF Causes, Results

\* A function on 1..n is a sequence.
LEMMA FunctionIsSeq ==
  ASSUME NEW S, NEW n \in Nat, NEW f \in [1..n -> S]
  PROVE  f \in Seq(S) /\ Len(f) = n
  BY SeqDef

\* How many elements of S there are up to x.
Rank(S, x) == Cardinality({j \in S : j <= x})

\* Ranks are numbers from 1, and grow.
LEMMA RankIs ==
  ASSUME NEW S, S \subseteq Int, IsFiniteSet(S)
  PROVE  /\ Cardinality(S) \in Nat
         /\ \A x \in S : Rank(S, x) \in 1..Cardinality(S)
         /\ \A x, y \in S : x < y => Rank(S, x) < Rank(S, y)
  <1>1. Cardinality(S) \in Nat
    BY FS_CardinalityType
  <1>2. \A x \in S : /\ IsFiniteSet({j \in S : j <= x})
                     /\ Rank(S, x) \in Nat /\ Rank(S, x) <= Cardinality(S)
    <2> TAKE x \in S
    <2>1. {j \in S : j <= x} \in SUBSET S
      OBVIOUS
    <2> QED
      BY <2>1, FS_Subset, FS_CardinalityType DEF Rank
  <1>3. \A x \in S : Rank(S, x) # 0
    <2> TAKE x \in S
    <2>1. x \in {j \in S : j <= x}
      OBVIOUS
    <2> QED
      BY <2>1, <1>2, FS_EmptySet DEF Rank
  <1>4. ASSUME NEW x \in S, NEW y \in S, x < y PROVE Rank(S, x) < Rank(S, y)
    <2> DEFINE A == {j \in S : j <= x}
               B == {j \in S : j <= y}
    <2>1. A \in SUBSET B /\ y \in B /\ y \notin A
      <3>1. x \in Int /\ y \in Int
        OBVIOUS
      <3>2. \A j \in S : j \in Int /\ (j <= x => j <= y)
        BY <1>4, <3>1
      <3>3. y <= y /\ ~(y <= x)
        BY <1>4, <3>1
      <3> QED
        BY <3>2, <3>3
    <2>2. IsFiniteSet(B) /\ Cardinality(A) \in Nat /\ Cardinality(B) \in Nat
      BY <1>2 DEF Rank
    <2> HIDE DEF A, B
    <2>3. Cardinality(A) <= Cardinality(B) /\ (Cardinality(B) = Cardinality(A) => B = A)
      BY <2>1, <2>2, FS_Subset
    <2> QED
      BY <2>1, <2>2, <2>3 DEF Rank, A, B
  <1>5. ASSUME NEW x \in S PROVE Rank(S, x) \in 1..Cardinality(S)
    <2>1. /\ Rank(S, x) \in Nat /\ Rank(S, x) <= Cardinality(S) /\ Rank(S, x) # 0
          /\ Cardinality(S) \in Nat
      BY <1>1, <1>2, <1>3
    <2> QED
      BY <2>1
  <1> QED
    BY <1>1, <1>4, <1>5

\* Ascending() lists a set of numbers, each once, smallest first.
LEMMA AscendingIs ==
  ASSUME NEW S, S \subseteq Int, IsFiniteSet(S)
  PROVE  /\ Ascending(S) \in [1..Cardinality(S) -> S]
         /\ \A n \in 1..Cardinality(S) : Rank(S, Ascending(S)[n]) = n
         /\ \A x \in S : Ascending(S)[Rank(S, x)] = x
         /\ \A m, n \in 1..Cardinality(S) : m < n => Ascending(S)[m] < Ascending(S)[n]
  <1> DEFINE N == 1..Cardinality(S)
             r == [x \in S |-> Rank(S, x)]
  <1>1. /\ Cardinality(S) \in Nat /\ \A x \in S : Rank(S, x) \in N
        /\ \A x, y \in S : x < y => Rank(S, x) < Rank(S, y)
    BY RankIs
  <1>2. \A x, y \in S : Rank(S, x) = Rank(S, y) => x = y
    <2> TAKE x, y \in S
    <2>1. x < y \/ y < x \/ x = y
      OBVIOUS
    <2> QED
      BY <2>1, <1>1
  <1>3. r \in Injection(S, N)
    BY <1>1, <1>2 DEF Injection, IsInjective
  <1>4. IsFiniteSet(N) /\ Cardinality(N) = Cardinality(S)
    BY <1>1, FS_Interval
  <1>5. r \in Surjection(S, N)
    BY <1>3, <1>4, FS_Injection
  <1>6. \A n \in N : \E i \in S : Rank(S, i) = n
    BY <1>5 DEF Surjection
  <1>7. \A n \in N : /\ Ascending(S)[n] \in S /\ Rank(S, Ascending(S)[n]) = n
    <2> TAKE n \in N
    <2>1. Ascending(S)[n] = CHOOSE i \in S : Rank(S, i) = n
      BY DEF Ascending, Rank
    <2> QED
      BY <2>1, <1>6
  <1>8. DOMAIN Ascending(S) = N /\ Ascending(S) = [n \in N |-> Ascending(S)[n]]
    <2> DEFINE op(n) == CHOOSE i \in S : Cardinality({j \in S : j <= i}) = n
    <2>1. Ascending(S) = [n \in N |-> op(n)]
      BY DEF Ascending
    <2> HIDE DEF op
    <2> QED
      BY <2>1
  <1>9. \A m, n \in N : m < n => Ascending(S)[m] < Ascending(S)[n]
    <2> TAKE m, n \in N
    <2> DEFINE a == Ascending(S)[m]
               b == Ascending(S)[n]
    <2>1. a \in S /\ b \in S /\ Rank(S, a) = m /\ Rank(S, b) = n
      BY <1>7
    <2> HIDE DEF a, b
    <2>2. b < a \/ b = a \/ a < b
      BY <2>1
    <2>3. m < n => a < b
      BY <2>1, <2>2, <1>1
    <2> QED
      BY <2>3 DEF a, b
  <1> HIDE DEF N, r
  <1>10. Ascending(S) \in [N -> S]
    BY <1>7, <1>8
  <1>11. \A x \in S : Ascending(S)[Rank(S, x)] = x
    BY <1>1, <1>2, <1>7
  <1> QED
    BY <1>7, <1>9, <1>10, <1>11 DEF N

\* A list that is ascending and complete is the one.
LEMMA AscendingIsOne ==
  ASSUME NEW S, S \subseteq Int, NEW k \in Nat, NEW f \in [1..k -> S],
         \A m, n \in 1..k : m < n => f[m] < f[n],
         \A x \in S : \E n \in 1..k : f[n] = x
  PROVE  IsFiniteSet(S) /\ Cardinality(S) = k /\ Ascending(S) = f
  <1>1. \A m, n \in 1..k : f[m] = f[n] => m = n
    <2> TAKE m, n \in 1..k
    <2>1. m < n \/ n < m \/ m = n
      OBVIOUS
    <2>2. f[m] \in Int /\ f[n] \in Int
      OBVIOUS
    <2> QED
      BY <2>1, <2>2
  <1>2. f \in Bijection(1..k, S)
    BY <1>1 DEF Bijection, Injection, Surjection, IsInjective
  <1>3. IsFiniteSet(S) /\ Cardinality(S) = k
    BY <1>2, FS_NatBijection, FS_CountingElements DEF ExistsBijection
  <1>4. ASSUME NEW n \in 1..k PROVE Rank(S, f[n]) = n
    <2> DEFINE T == {j \in S : j <= f[n]}
               g == [m \in 1..n |-> f[m]]
    <2>1. \A m \in 1..k : f[m] <= f[n] <=> m \in 1..n
      <3> TAKE m \in 1..k
      <3>1. f[m] \in Int /\ f[n] \in Int
        OBVIOUS
      <3>2. m < n \/ n < m \/ m = n
        OBVIOUS
      <3>3. m < n => f[m] < f[n]
        OBVIOUS
      <3>4. n < m => f[n] < f[m]
        OBVIOUS
      <3> QED
        BY <3>1, <3>2, <3>3, <3>4
    <2>2. \A m \in 1..n : m \in 1..k /\ f[m] \in T
      <3> TAKE m \in 1..n
      <3>1. m \in 1..k
        OBVIOUS
      <3> QED
        BY <3>1, <2>1
    <2>3. \A x \in T : \E m \in 1..n : g[m] = x
      <3> TAKE x \in T
      <3>1. PICK m \in 1..k : f[m] = x
        OBVIOUS
      <3>2. m \in 1..n
        BY <3>1, <2>1
      <3> QED
        BY <3>1, <3>2
    <2> HIDE DEF T
    <2>4. g \in Bijection(1..n, T)
      BY <2>2, <2>3, <1>1 DEF Bijection, Injection, Surjection, IsInjective
    <2>5. Cardinality(T) = n
      BY <2>4, FS_CountingElements DEF ExistsBijection
    <2> QED
      BY <2>5 DEF Rank, T
  <1>5. \A n \in 1..k : Ascending(S)[n] = f[n]
    BY <1>3, <1>4, AscendingIs
  <1>6. Ascending(S) \in [1..k -> S]
    BY <1>3, AscendingIs
  <1> QED
    BY <1>3, <1>5, <1>6

\* The places at which Parts() cuts a text.
Marks(text) == Newlines(text) \cup {0, Len(text) + 1}
Cuts(text) == Ascending(Marks(text))

\* They are the newlines, the place before the text and the one behind it.
LEMMA MarksAre ==
  ASSUME NEW text \in Seq(Symbols)
  PROVE  \A x : x \in Marks(text) <=>
                  x \in 0..(Len(text) + 1) /\ (x = 0 \/ x = Len(text) + 1 \/ text[x] = "nl")
  <1>1. DOMAIN text = 1..Len(text) /\ Len(text) \in Nat
    BY LenProperties
  <1>2. ASSUME NEW x \in 0..(Len(text) + 1), x # 0, x # Len(text) + 1 PROVE x \in 1..Len(text)
    BY <1>1, <1>2
  <1>3. 0 \in 0..(Len(text) + 1) /\ Len(text) + 1 \in 0..(Len(text) + 1)
    BY <1>1
  <1>4. \A x \in 1..Len(text) : x \in 0..(Len(text) + 1)
    BY <1>1
  <1> QED
    BY <1>1, <1>2, <1>3, <1>4 DEF Marks, Newlines

\* They ascend from before the text to behind it, through its newlines.
LEMMA CutsAre ==
  ASSUME NEW text \in Seq(Symbols)
  PROVE  /\ Cuts(text) \in Seq(Int) /\ Len(Cuts(text)) \in Nat /\ Len(Cuts(text)) >= 2
         /\ Cuts(text)[1] = 0 /\ Cuts(text)[Len(Cuts(text))] = Len(text) + 1
         /\ \A n \in 1..Len(Cuts(text)) : Cuts(text)[n] \in Marks(text)
         /\ \A x \in Marks(text) : \E n \in 1..Len(Cuts(text)) : Cuts(text)[n] = x
         /\ \A m, n \in 1..Len(Cuts(text)) : m < n => Cuts(text)[m] < Cuts(text)[n]
  <1> DEFINE S == Marks(text)
             c == Cuts(text)
             k == Cardinality(S)
  <1>1. Len(text) \in Nat /\ S \subseteq 0..(Len(text) + 1) /\ 0 \in S /\ Len(text) + 1 \in S
    BY LenProperties DEF Newlines, Marks
  <1>2. S \subseteq Int /\ IsFiniteSet(S)
    <2>1. IsFiniteSet(0..(Len(text) + 1)) /\ S \in SUBSET (0..(Len(text) + 1))
      BY <1>1, FS_Interval
    <2> QED
      BY <1>1, <2>1, FS_Subset
  <1> HIDE DEF S
  <1>3. /\ k \in Nat /\ \A x \in S : Rank(S, x) \in 1..k
        /\ \A x, y \in S : x < y => Rank(S, x) < Rank(S, y)
    BY <1>2, RankIs
  <1>4. /\ c \in [1..k -> S]
        /\ \A x \in S : c[Rank(S, x)] = x
        /\ \A m, n \in 1..k : m < n => c[m] < c[n]
    BY <1>2, AscendingIs DEF Cuts, S
  <1>5. c \in Seq(S) /\ Len(c) = k
    BY <1>3, <1>4, FunctionIsSeq
  <1>6. c \in Seq(Int)
    BY <1>2, <1>5, SeqMonotonic
  <1> HIDE DEF c, k
  <1>7. \A x \in S : \E n \in 1..k : c[n] = x
    BY <1>3, <1>4
  <1>8. k >= 2
    <2>1. /\ Rank(S, 0) \in 1..k /\ Rank(S, Len(text) + 1) \in 1..k
          /\ Rank(S, 0) < Rank(S, Len(text) + 1)
      BY <1>1, <1>3
    <2> QED
      BY <1>3, <2>1
  <1>9. c[1] = 0
    <2>1. PICK n \in 1..k : c[n] = 0
      BY <1>1, <1>7
    <2>2. 1 < n => c[1] < 0
      BY <1>3, <1>4, <1>8, <2>1
    <2>3. c[1] \in 0..(Len(text) + 1)
      <3>1. 1 \in 1..k
        BY <1>3, <1>8
      <3>2. c[1] \in S
        BY <3>1, <1>4
      <3> QED
        BY <3>2, <1>1
    <2> QED
      BY <1>1, <1>3, <2>1, <2>2, <2>3
  <1>10. c[k] = Len(text) + 1
    <2>1. PICK n \in 1..k : c[n] = Len(text) + 1
      BY <1>1, <1>7
    <2>2. n < k => Len(text) + 1 < c[k]
      BY <1>3, <1>4, <1>8, <2>1
    <2>3. c[k] \in 0..(Len(text) + 1)
      <3>1. k \in 1..k
        BY <1>3, <1>8
      <3>2. c[k] \in S
        BY <3>1, <1>4
      <3> QED
        BY <3>2, <1>1
    <2> QED
      BY <1>1, <1>3, <2>1, <2>2, <2>3
  <1> QED
    BY <1>3, <1>4, <1>5, <1>6, <1>7, <1>8, <1>9, <1>10 DEF c, S

\* A piece of a text between two places.
LEMMA PieceIs ==
  ASSUME NEW S, NEW text \in Seq(S), NEW a \in Nat, NEW b \in Nat, a < b, b <= Len(text) + 1
  PROVE  /\ SubSeq(text, a + 1, b - 1) \in Seq(S)
         /\ Len(SubSeq(text, a + 1, b - 1)) = (b - a) - 1
         /\ \A i \in 1..((b - a) - 1) : SubSeq(text, a + 1, b - 1)[i] = text[a + i]
  <1> DEFINE m == a + 1
             n == b - 1
  <1>1. /\ m \in Int /\ n \in Int /\ Len(text) \in Nat /\ 1 <= m /\ n <= Len(text)
        /\ (n - m) + 1 = (b - a) - 1 /\ n - m + 1 = (n - m) + 1
        /\ \A i \in 1..((b - a) - 1) : (m + i) - 1 = a + i /\ m + i - 1 = (m + i) - 1
        /\ (IF m <= n THEN n - m + 1 ELSE 0) = (b - a) - 1
    BY LenProperties
  <1> HIDE DEF m, n
  <1>2. \A i \in m..n : text[i] \in S
    BY <1>1, ElementOfSeq
  <1>3. /\ SubSeq(text, m, n) \in Seq(S)
        /\ Len(SubSeq(text, m, n)) = IF m <= n THEN n - m + 1 ELSE 0
        /\ \A i \in 1..(n - m + 1) : SubSeq(text, m, n)[i] = text[m + i - 1]
    BY <1>1, <1>2, SubSeqProperties
  <1>4. SubSeq(text, m, n) \in Seq(S) /\ Len(SubSeq(text, m, n)) = (b - a) - 1
    BY <1>1, <1>3
  <1>5. \A i \in 1..((b - a) - 1) : SubSeq(text, m, n)[i] = text[a + i]
    BY <1>1, <1>3
  <1> QED
    BY <1>4, <1>5 DEF m, n

\* The parts of a text, one from each cut to the next; none has a newline.
LEMMA PartsAre ==
  ASSUME NEW text \in Seq(Symbols)
  PROVE  /\ Parts(text) \in Seq(Seq(Symbols \ {"nl"}))
         /\ Len(Parts(text)) = Len(Cuts(text)) - 1 /\ Len(Parts(text)) \in Nat \ {0}
         /\ \A n \in 1..Len(Parts(text)) :
               /\ Cuts(text)[n] \in Nat /\ Cuts(text)[n + 1] \in Nat
               /\ Cuts(text)[n] < Cuts(text)[n + 1] /\ Cuts(text)[n + 1] <= Len(text) + 1
               /\ Parts(text)[n] = SubSeq(text, Cuts(text)[n] + 1, Cuts(text)[n + 1] - 1)
  <1> DEFINE c == Cuts(text)
             k == Len(c) - 1
  <1>1. Len(text) \in Nat /\ Marks(text) \subseteq 0..(Len(text) + 1)
    BY LenProperties DEF Newlines, Marks
  <1>2. /\ Len(c) \in Nat /\ Len(c) >= 2
        /\ \A n \in 1..Len(c) : c[n] \in Marks(text)
        /\ \A x \in Marks(text) : \E n \in 1..Len(c) : c[n] = x
        /\ \A m, n \in 1..Len(c) : m < n => c[m] < c[n]
    BY CutsAre
  <1>3. Parts(text) = [n \in 1..k |-> SubSeq(text, c[n] + 1, c[n + 1] - 1)]
    BY DEF Parts, Cuts, Marks
  <1> HIDE DEF c
  <1>4. k \in Nat \ {0}
    BY <1>2
  <1>5. ASSUME NEW n \in 1..k
        PROVE  /\ c[n] \in Nat /\ c[n + 1] \in Nat /\ c[n] < c[n + 1] /\ c[n + 1] <= Len(text) + 1
               /\ SubSeq(text, c[n] + 1, c[n + 1] - 1) \in Seq(Symbols \ {"nl"})
    <2>1. n \in 1..Len(c) /\ n + 1 \in 1..Len(c) /\ n < n + 1
      BY <1>2
    <2>2. c[n] \in Nat /\ c[n + 1] \in Nat /\ c[n] < c[n + 1] /\ c[n + 1] <= Len(text) + 1
      BY <2>1, <1>1, <1>2
    <2> DEFINE p == SubSeq(text, c[n] + 1, c[n + 1] - 1)
    <2>3. /\ p \in Seq(Symbols) /\ Len(p) = (c[n + 1] - c[n]) - 1
          /\ \A i \in 1..((c[n + 1] - c[n]) - 1) : p[i] = text[c[n] + i]
      <3> DEFINE a == c[n]
                 b == c[n + 1]
      <3>1. a \in Nat /\ b \in Nat /\ a < b /\ b <= Len(text) + 1
        BY <2>2
      <3> HIDE DEF a, b
      <3>2. /\ SubSeq(text, a + 1, b - 1) \in Seq(Symbols)
            /\ Len(SubSeq(text, a + 1, b - 1)) = (b - a) - 1
            /\ \A i \in 1..((b - a) - 1) : SubSeq(text, a + 1, b - 1)[i] = text[a + i]
        BY <3>1, PieceIs
      <3> QED
        BY <3>2 DEF a, b
    <2>4. ASSUME NEW i \in 1..((c[n + 1] - c[n]) - 1) PROVE text[c[n] + i] # "nl"
      <3>1. /\ c[n] + i \in 1..Len(text) /\ c[n] < c[n] + i /\ c[n] + i < c[n + 1]
        BY <1>1, <2>2
      <3> SUFFICES ASSUME text[c[n] + i] = "nl" PROVE FALSE
        OBVIOUS
      <3>2. c[n] + i \in Marks(text)
        BY <3>1, LenProperties DEF Marks, Newlines
      <3>3. PICK m \in 1..Len(c) : c[m] = c[n] + i
        BY <3>2, <1>2
      <3>4. c[m] \in Int
        BY <1>1, <1>2
      <3>5. m \in Int /\ Len(c) \in Nat
        BY <1>2
      <3>6. m < n => c[m] < c[n]
        BY <1>2, <2>1
      <3>7. n + 1 < m => c[n + 1] < c[m]
        BY <1>2, <2>1
      <3>8. m < n \/ m = n \/ m = n + 1 \/ n + 1 < m
        BY <2>1, <3>5
      <3> QED
        BY <3>1, <3>3, <3>6, <3>7, <3>8, <2>2
    <2> HIDE DEF p
    <2>5. \A i \in 1..Len(p) : p[i] \in Symbols \ {"nl"}
      BY <2>3, <2>4, ElementOfSeq
    <2>6. p \in [1..Len(p) -> Symbols \ {"nl"}] /\ Len(p) \in Nat
      BY <2>3, <2>5, LenProperties
    <2>7. p \in Seq(Symbols \ {"nl"})
      BY <2>6, FunctionIsSeq
    <2> QED
      BY <2>2, <2>7 DEF p
  <1>6. Parts(text) \in [1..k -> Seq(Symbols \ {"nl"})]
    BY <1>3, <1>5
  <1>7. Parts(text) \in Seq(Seq(Symbols \ {"nl"})) /\ Len(Parts(text)) = k
    BY <1>4, <1>6, FunctionIsSeq
  <1> HIDE DEF k
  <1> QED
    BY <1>3, <1>4, <1>5, <1>7 DEF c, k

\* The cuts of two texts together: those of the first but its end, then those of
\* the second but its beginning.
JoinedCuts(h, t) ==
    [n \in 1..(Len(Parts(h)) + Len(Parts(t))) |->
        IF n <= Len(Parts(h)) THEN Cuts(h)[n]
        ELSE Cuts(t)[(n - Len(Parts(h))) + 1] + Len(h)]

\* Nothing else cuts the two together.
LEMMA CutsJoin ==
  ASSUME NEW h \in Seq(Symbols), NEW t \in Seq(Symbols)
  PROVE  Cuts(h \o t) = JoinedCuts(h, t)
  <1> DEFINE P == Len(Parts(h))
             Q == Len(Parts(t))
             L == Len(h)
             M == Len(t)
             g == h \o t
             S == Marks(g)
             f == JoinedCuts(h, t)
  <1>1. /\ P \in Nat \ {0} /\ Q \in Nat \ {0} /\ Len(Cuts(h)) = P + 1 /\ Len(Cuts(t)) = Q + 1
    BY PartsAre, CutsAre
  <1>2. /\ L \in Nat /\ M \in Nat /\ g \in Seq(Symbols) /\ Len(g) = L + M
        /\ \A i \in 1..(L + M) : g[i] = IF i <= L THEN h[i] ELSE t[i - L]
    BY ConcatProperties, LenProperties
  <1>0. ASSUME NEW s \in Seq(Symbols), NEW k, Len(Cuts(s)) = k
       PROVE  /\ Cuts(s)[1] = 0 /\ Cuts(s)[k] = Len(s) + 1
              /\ \A n \in 1..k : Cuts(s)[n] \in Marks(s)
              /\ \A x \in Marks(s) : \E n \in 1..k : Cuts(s)[n] = x
              /\ \A m, n \in 1..k : m < n => Cuts(s)[m] < Cuts(s)[n]
    <2> DEFINE c == Cuts(s)
    <2>1. /\ c[1] = 0 /\ c[Len(c)] = Len(s) + 1
          /\ \A n \in 1..Len(c) : c[n] \in Marks(s)
          /\ \A x \in Marks(s) : \E n \in 1..Len(c) : c[n] = x
          /\ \A m, n \in 1..Len(c) : m < n => c[m] < c[n]
      BY CutsAre
    <2>2. Len(c) = k
      BY <1>0
    <2> HIDE DEF c
    <2>3. /\ c[1] = 0 /\ c[k] = Len(s) + 1
          /\ \A n \in 1..k : c[n] \in Marks(s)
          /\ \A x \in Marks(s) : \E n \in 1..k : c[n] = x
          /\ \A m, n \in 1..k : m < n => c[m] < c[n]
      BY <2>1, <2>2
    <2> QED
      BY <2>3 DEF c
  <1>3. /\ Cuts(h)[1] = 0 /\ Cuts(h)[P + 1] = L + 1
        /\ \A n \in 1..(P + 1) : Cuts(h)[n] \in Marks(h)
        /\ \A x \in Marks(h) : \E n \in 1..(P + 1) : Cuts(h)[n] = x
        /\ \A m, n \in 1..(P + 1) : m < n => Cuts(h)[m] < Cuts(h)[n]
    BY <1>0, <1>1
  <1>4. /\ Cuts(t)[1] = 0 /\ Cuts(t)[Q + 1] = M + 1
        /\ \A n \in 1..(Q + 1) : Cuts(t)[n] \in Marks(t)
        /\ \A x \in Marks(t) : \E n \in 1..(Q + 1) : Cuts(t)[n] = x
        /\ \A m, n \in 1..(Q + 1) : m < n => Cuts(t)[m] < Cuts(t)[n]
    BY <1>0, <1>1
  <1>5. /\ \A x : x \in Marks(h) <=> x \in 0..(L + 1) /\ (x = 0 \/ x = L + 1 \/ h[x] = "nl")
        /\ \A x : x \in Marks(t) <=> x \in 0..(M + 1) /\ (x = 0 \/ x = M + 1 \/ t[x] = "nl")
    BY MarksAre
  <1>6. \A x : x \in S <=> x \in 0..(L + M + 1) /\ (x = 0 \/ x = L + M + 1 \/ g[x] = "nl")
    BY <1>2, MarksAre
  <1> HIDE DEF P, Q, L, M, g, S
  <1>7. \A n \in 1..(P + Q) :
           IF n <= P THEN f[n] = Cuts(h)[n] ELSE f[n] = Cuts(t)[(n - P) + 1] + L
    BY DEF JoinedCuts, P, Q, L
  <1>8. DOMAIN f = 1..(P + Q) /\ f = [n \in 1..(P + Q) |-> f[n]]
    BY DEF JoinedCuts, P, Q
  <1> HIDE DEF f
  <1>9. ASSUME NEW n \in 1..P
        PROVE  n \in 1..(P + Q) /\ f[n] \in 0..L /\ f[n] \in Marks(h) /\ f[n] = Cuts(h)[n]
    <2>1. n \in 1..(P + Q) /\ n <= P /\ n \in 1..(P + 1) /\ P + 1 \in 1..(P + 1) /\ n < P + 1
      BY <1>1
    <2>2. f[n] = Cuts(h)[n]
      BY <2>1, <1>7
    <2>3. Cuts(h)[n] < L + 1 /\ Cuts(h)[n] \in Marks(h)
      BY <2>1, <1>3
    <2>4. Cuts(h)[n] \in 0..(L + 1)
      BY <2>3, <1>5
    <2> QED
      BY <2>1, <2>2, <2>3, <2>4, <1>2
  <1>10. ASSUME NEW n \in (P + 1)..(P + Q)
         PROVE  /\ n \in 1..(P + Q) /\ (n - P) + 1 \in 2..(Q + 1)
                /\ f[n] = Cuts(t)[(n - P) + 1] + L
                /\ Cuts(t)[(n - P) + 1] \in 1..(M + 1) /\ Cuts(t)[(n - P) + 1] \in Marks(t)
    <2> DEFINE j == (n - P) + 1
    <2>1. n \in 1..(P + Q) /\ ~(n <= P) /\ j \in 2..(Q + 1) /\ j \in 1..(Q + 1) /\ 1 \in 1..(Q + 1) /\ 1 < j
      BY <1>1
    <2>2. f[n] = Cuts(t)[j] + L
      BY <2>1, <1>7
    <2> HIDE DEF j
    <2>3. 0 < Cuts(t)[j] /\ Cuts(t)[j] \in Marks(t)
      BY <2>1, <1>4
    <2>4. Cuts(t)[j] \in 0..(M + 1)
      BY <2>3, <1>5
    <2>5. Cuts(t)[j] \in 1..(M + 1)
      BY <2>3, <2>4, <1>2
    <2> QED
      BY <2>1, <2>2, <2>3, <2>5 DEF j
  <1>11. ASSUME NEW n \in 1..(P + Q) PROVE f[n] \in S
    <2>1. CASE n <= P
      <3>1. n \in 1..P
        BY <2>1, <1>1
      <3>2. /\ f[n] \in 0..L /\ (f[n] = 0 \/ h[f[n]] = "nl")
        BY <3>1, <1>9, <1>5, <1>2
      <3>3. f[n] # 0 => f[n] \in 1..(L + M) /\ f[n] <= L
        BY <3>2, <1>2
      <3>4. f[n] \in 0..(L + M + 1)
        BY <3>2, <1>2
      <3> QED
        BY <3>2, <3>3, <3>4, <1>2, <1>6
    <2>2. CASE ~(n <= P)
      <3> DEFINE x == Cuts(t)[(n - P) + 1]
      <3>1. n \in (P + 1)..(P + Q)
        BY <2>2, <1>1
      <3>2. f[n] = x + L /\ x \in 1..(M + 1) /\ (x = M + 1 \/ t[x] = "nl")
        BY <3>1, <1>10, <1>5
      <3> HIDE DEF x
      <3>3. /\ f[n] \in 0..(L + M + 1) /\ f[n] - L = x /\ ~(f[n] <= L)
            /\ x = M + 1 \/ f[n] \in 1..(L + M)
            /\ x = M + 1 => f[n] = L + M + 1
        BY <3>2, <1>2
      <3> QED
        BY <3>2, <3>3, <1>2, <1>6
    <2> QED
      BY <2>1, <2>2
  <1>12. f \in [1..(P + Q) -> S]
    BY <1>8, <1>11
  <1>13. ASSUME NEW m \in 1..(P + Q), NEW n \in 1..(P + Q), m < n PROVE f[m] < f[n]
    <2>1. CASE n <= P
      <3>1. m \in 1..P /\ n \in 1..P /\ m \in 1..(P + 1) /\ n \in 1..(P + 1)
        BY <2>1, <1>13, <1>1
      <3> QED
        BY <3>1, <1>3, <1>9, <1>13
    <2>2. CASE ~(n <= P) /\ m <= P
      <3>1. m \in 1..P /\ n \in (P + 1)..(P + Q)
        BY <2>2, <1>1
      <3>2. f[m] \in 0..L
        BY <3>1, <1>9
      <3>3. f[n] = Cuts(t)[(n - P) + 1] + L /\ Cuts(t)[(n - P) + 1] \in 1..(M + 1)
        BY <3>1, <1>10
      <3> QED
        BY <3>2, <3>3, <1>2
    <2>3. CASE ~(n <= P) /\ ~(m <= P)
      <3> DEFINE x == Cuts(t)[(m - P) + 1]
                 y == Cuts(t)[(n - P) + 1]
      <3>1. m \in (P + 1)..(P + Q) /\ n \in (P + 1)..(P + Q)
        BY <2>3, <1>1
      <3>2. /\ (m - P) + 1 \in 1..(Q + 1) /\ (n - P) + 1 \in 1..(Q + 1)
            /\ (m - P) + 1 < (n - P) + 1
        BY <3>1, <1>1, <1>13
      <3>3. x < y
        BY <3>2, <1>4
      <3>4. f[m] = x + L /\ f[n] = y + L /\ x \in 1..(M + 1) /\ y \in 1..(M + 1)
        BY <3>1, <1>10
      <3> HIDE DEF x, y
      <3> QED
        BY <3>3, <3>4, <1>2
    <2> QED
      BY <2>1, <2>2, <2>3
  <1>14. ASSUME NEW x \in S PROVE \E n \in 1..(P + Q) : f[n] = x
    <2>1. x \in 0..(L + M + 1) /\ (x = 0 \/ x = L + M + 1 \/ g[x] = "nl")
      BY <1>6
    <2>2. CASE x <= L
      <3>1. x # 0 => x \in 1..(L + M) /\ x <= L
        BY <2>1, <2>2, <1>2
      <3>2. x = 0 \/ h[x] = "nl"
        BY <2>1, <2>2, <3>1, <1>2
      <3>3. x \in Marks(h) /\ x # L + 1
        <4>1. x \in 0..(L + 1) /\ x # L + 1
          BY <2>1, <2>2, <1>2
        <4> QED
          BY <3>2, <4>1, <1>5
      <3>4. PICK n \in 1..(P + 1) : Cuts(h)[n] = x
        BY <3>3, <1>3
      <3>5. n \in 1..P
        BY <3>3, <3>4, <1>1, <1>3
      <3> QED
        BY <3>4, <3>5, <1>9
    <2>3. CASE ~(x <= L)
      <3> DEFINE y == x - L
      <3>1. /\ y \in 0..(M + 1) /\ y # 0 /\ x = y + L /\ ~(x <= L)
            /\ x = L + M + 1 => y = M + 1
            /\ x # L + M + 1 => x \in 1..(L + M)
        BY <2>1, <2>3, <1>2
      <3>2. y = M + 1 \/ t[y] = "nl"
        BY <2>1, <2>3, <3>1, <1>2
      <3>3. y \in Marks(t)
        BY <3>1, <3>2, <1>5
      <3> HIDE DEF y
      <3>4. PICK j \in 1..(Q + 1) : Cuts(t)[j] = y
        BY <3>3, <1>4
      <3>5. j # 1
        BY <3>1, <3>4, <1>4
      <3>6. (j - 1) + P \in (P + 1)..(P + Q) /\ (((j - 1) + P) - P) + 1 = j
        BY <3>5, <1>1
      <3>7. f[(j - 1) + P] = y + L
        BY <3>4, <3>6, <1>10
      <3> QED
        BY <3>1, <3>6, <3>7, <1>10
    <2> QED
      BY <2>2, <2>3
  <1>15. S \subseteq Int /\ P + Q \in Nat
    BY <1>1, <1>6
  <1>16. Ascending(S) = f
    BY <1>12, <1>13, <1>14, <1>15, AscendingIsOne
  <1> QED
    BY <1>16 DEF Cuts, S, g, f

\* The parts of two texts together: the last of the first and the first of the
\* second are one.
LEMMA PartsJoin ==
  ASSUME NEW h \in Seq(Symbols), NEW t \in Seq(Symbols)
  PROVE  LET P == Len(Parts(h))
             Q == Len(Parts(t))
             J == Parts(h \o t)
         IN /\ Len(J) = (P + Q) - 1
            /\ \A n \in 1..(P - 1) : J[n] = Parts(h)[n]
            /\ J[P] = Parts(h)[P] \o Parts(t)[1]
            /\ \A n \in (P + 1)..((P + Q) - 1) : J[n] = Parts(t)[(n - P) + 1]
  <1> DEFINE P == Len(Parts(h))
             Q == Len(Parts(t))
             L == Len(h)
             M == Len(t)
             g == h \o t
             J == Parts(g)
             c == Cuts(h)
             d == Cuts(t)
             e == Cuts(g)
  <1>1. /\ P \in Nat \ {0} /\ Q \in Nat \ {0} /\ c[1] = 0 /\ c[P + 1] = L + 1
        /\ d[1] = 0 /\ d[Q + 1] = M + 1
    <2>1. Len(c) = P + 1 /\ Len(d) = Q + 1 /\ P \in Nat \ {0} /\ Q \in Nat \ {0}
      BY PartsAre, CutsAre
    <2> HIDE DEF P, Q
    <2> QED
      BY <2>1, CutsAre
  <1>2. /\ L \in Nat /\ M \in Nat /\ g \in Seq(Symbols) /\ Len(g) = L + M
        /\ \A i \in 1..(L + M) : g[i] = IF i <= L THEN h[i] ELSE t[i - L]
    BY ConcatProperties, LenProperties
  <1>3. /\ DOMAIN e = 1..(P + Q)
        /\ \A n \in 1..(P + Q) : e[n] = IF n <= P THEN c[n] ELSE d[(n - P) + 1] + L
    BY CutsJoin DEF JoinedCuts
  <1>4. Len(e) = P + Q
    <2>1. e \in Seq(Int) /\ P + Q \in Nat
      <3>1. e \in Seq(Int)
        BY <1>2, CutsAre
      <3> QED
        BY <3>1, <1>1
    <2>2. Len(e) \in Nat /\ DOMAIN e = 1..Len(e)
      BY <2>1, LenProperties
    <2> HIDE DEF P, Q, e
    <2> QED
      BY <2>1, <2>2, <1>3
  <1>5. /\ Len(J) = (P + Q) - 1
        /\ \A n \in 1..Len(J) : J[n] = SubSeq(g, e[n] + 1, e[n + 1] - 1)
    BY <1>2, <1>4, PartsAre
  <1>6. /\ \A n \in 1..P : /\ c[n] \in Nat /\ c[n + 1] \in Nat /\ c[n] < c[n + 1] /\ c[n + 1] <= L + 1
                          /\ Parts(h)[n] = SubSeq(h, c[n] + 1, c[n + 1] - 1)
        /\ \A n \in 1..Q : /\ d[n] \in Nat /\ d[n + 1] \in Nat /\ d[n] < d[n + 1] /\ d[n + 1] <= M + 1
                          /\ Parts(t)[n] = SubSeq(t, d[n] + 1, d[n + 1] - 1)
    BY PartsAre
  <1> HIDE DEF P, Q, L, M, g, J, c, d, e
  \* A piece that lies in the first text, and one that lies in the second.
  <1>7. ASSUME NEW a \in Nat, NEW b \in Nat, a < b, b <= L + 1
        PROVE  SubSeq(g, a + 1, b - 1) = SubSeq(h, a + 1, b - 1)
    <2> DEFINE x == SubSeq(g, a + 1, b - 1)
               y == SubSeq(h, a + 1, b - 1)
    <2>1. /\ x \in Seq(Symbols) /\ Len(x) = (b - a) - 1
          /\ \A i \in 1..((b - a) - 1) : x[i] = g[a + i]
      <3>1. b <= Len(g) + 1
        BY <1>2, <1>7
      <3> QED
        BY <3>1, <1>2, <1>7, PieceIs
    <2>2. /\ y \in Seq(Symbols) /\ Len(y) = (b - a) - 1
          /\ \A i \in 1..((b - a) - 1) : y[i] = h[a + i]
      BY <1>7, PieceIs DEF L
    <2>3. \A i \in 1..((b - a) - 1) : a + i \in 1..(L + M) /\ a + i <= L
      BY <1>2, <1>7
    <2> HIDE DEF x, y
    <2>4. \A i \in 1..Len(x) : x[i] = y[i]
      BY <2>1, <2>2, <2>3, <1>2
    <2>5. x = y
      BY <2>1, <2>2, <2>4, SeqEqual
    <2> QED
      BY <2>5 DEF x, y
  <1>8. ASSUME NEW a \in Nat, NEW b \in Nat, a < b, b <= M + 1
        PROVE  SubSeq(g, (a + L) + 1, (b + L) - 1) = SubSeq(t, a + 1, b - 1)
    <2> DEFINE x == SubSeq(g, (a + L) + 1, (b + L) - 1)
               y == SubSeq(t, a + 1, b - 1)
    <2>1. /\ x \in Seq(Symbols) /\ Len(x) = ((b + L) - (a + L)) - 1
          /\ \A i \in 1..(((b + L) - (a + L)) - 1) : x[i] = g[(a + L) + i]
      <3>1. a + L \in Nat /\ b + L \in Nat /\ a + L < b + L /\ b + L <= Len(g) + 1
        BY <1>2, <1>8
      <3> QED
        BY <3>1, <1>2, PieceIs
    <2>2. /\ y \in Seq(Symbols) /\ Len(y) = (b - a) - 1
          /\ \A i \in 1..((b - a) - 1) : y[i] = t[a + i]
      BY <1>8, PieceIs DEF M
    <2>3. (b + L) - (a + L) = b - a
      BY <1>2
    <2>4. \A i \in 1..((b - a) - 1) : /\ (a + L) + i \in 1..(L + M) /\ ~((a + L) + i <= L)
                                      /\ ((a + L) + i) - L = a + i
      BY <1>2, <1>8
    <2> HIDE DEF x, y
    <2>5. \A i \in 1..Len(x) : x[i] = y[i]
      <3> TAKE i \in 1..Len(x)
      <3>1. i \in 1..((b - a) - 1) /\ i \in 1..(((b + L) - (a + L)) - 1)
        BY <2>1, <2>3
      <3>2. x[i] = g[(a + L) + i] /\ y[i] = t[a + i]
        BY <3>1, <2>1, <2>2
      <3> QED
        BY <3>1, <3>2, <2>4, <1>2
    <2>6. x = y
      BY <2>1, <2>2, <2>3, <2>5, SeqEqual
    <2> QED
      BY <2>6 DEF x, y
  <1>9. ASSUME NEW n \in 1..(P - 1) PROVE J[n] = Parts(h)[n]
    <2>1. /\ n \in 1..Len(J) /\ n \in 1..(P + Q) /\ n + 1 \in 1..(P + Q) /\ n \in 1..P
          /\ n <= P /\ n + 1 <= P
      BY <1>1, <1>5
    <2>2. e[n] = c[n] /\ e[n + 1] = c[n + 1]
      BY <2>1, <1>3
    <2> QED
      BY <2>1, <2>2, <1>5, <1>6, <1>7
  <1>10. ASSUME NEW n \in (P + 1)..((P + Q) - 1) PROVE J[n] = Parts(t)[(n - P) + 1]
    <2> DEFINE j == (n - P) + 1
    <2>1. /\ n \in 1..Len(J) /\ n \in 1..(P + Q) /\ n + 1 \in 1..(P + Q) /\ j \in 1..Q
          /\ ~(n <= P) /\ ~(n + 1 <= P) /\ ((n + 1) - P) + 1 = j + 1
      BY <1>1, <1>5
    <2>2. e[n] = d[j] + L /\ e[n + 1] = d[j + 1] + L
      BY <2>1, <1>3
    <2> HIDE DEF j
    <2>3. J[n] = Parts(t)[j]
      <3>1. /\ d[j] \in Nat /\ d[j + 1] \in Nat /\ d[j] < d[j + 1] /\ d[j + 1] <= M + 1
            /\ Parts(t)[j] = SubSeq(t, d[j] + 1, d[j + 1] - 1)
        BY <2>1, <1>6
      <3>2. J[n] = SubSeq(g, (d[j] + L) + 1, (d[j + 1] + L) - 1)
        BY <2>1, <2>2, <1>5
      <3> QED
        BY <3>1, <3>2, <1>8
    <2> QED
      BY <2>3 DEF j
  <1>11. J[P] = Parts(h)[P] \o Parts(t)[1]
    <2> DEFINE a == c[P]
               b == d[2]
               x == SubSeq(g, a + 1, (b + L) - 1)
               y == Parts(h)[P]
               z == Parts(t)[1]
    <2>1. /\ P \in 1..Len(J) /\ P \in 1..(P + Q) /\ P + 1 \in 1..(P + Q) /\ P \in 1..P
          /\ P <= P /\ ~(P + 1 <= P) /\ ((P + 1) - P) + 1 = 2 /\ 1 \in 1..Q /\ 1 + 1 = 2
      BY <1>1, <1>5
    <2>2. e[P] = a /\ e[P + 1] = b + L
      BY <2>1, <1>3
    <2>3. J[P] = x
      BY <2>1, <2>2, <1>5
    <2>4. /\ a \in Nat /\ b \in Nat /\ a < L + 1 /\ 0 < b /\ b <= M + 1
          /\ y = SubSeq(h, a + 1, (L + 1) - 1) /\ z = SubSeq(t, 0 + 1, b - 1)
      BY <2>1, <1>1, <1>6
    <2> HIDE DEF a, b, x, y, z
    <2>5. /\ x \in Seq(Symbols) /\ Len(x) = ((b + L) - a) - 1
          /\ \A i \in 1..(((b + L) - a) - 1) : x[i] = g[a + i]
      <3>1. b + L \in Nat /\ a < b + L /\ b + L <= Len(g) + 1
        BY <1>2, <2>4
      <3>2. a \in Nat /\ g \in Seq(Symbols)
        BY <2>4, <1>2
      <3> QED
        BY <3>1, <3>2, PieceIs DEF x
    <2>6. /\ y \in Seq(Symbols) /\ Len(y) = ((L + 1) - a) - 1
          /\ \A i \in 1..(((L + 1) - a) - 1) : y[i] = h[a + i]
      <3>1. L + 1 \in Nat /\ L + 1 <= Len(h) + 1 /\ a \in Nat /\ a < L + 1
        BY <2>4, <1>2 DEF L
      <3> DEFINE l == L + 1
      <3>2. l \in Nat /\ l <= Len(h) + 1 /\ a \in Nat /\ a < l
        BY <3>1
      <3> HIDE DEF l
      <3>3. /\ SubSeq(h, a + 1, l - 1) \in Seq(Symbols) /\ Len(SubSeq(h, a + 1, l - 1)) = (l - a) - 1
            /\ \A i \in 1..((l - a) - 1) : SubSeq(h, a + 1, l - 1)[i] = h[a + i]
        BY <3>2, PieceIs
      <3> QED
        BY <3>3, <2>4 DEF l
    <2>7. /\ z \in Seq(Symbols) /\ Len(z) = (b - 0) - 1
          /\ \A i \in 1..((b - 0) - 1) : z[i] = t[0 + i]
      <3>1. b <= Len(t) + 1 /\ b \in Nat /\ 0 \in Nat /\ 0 < b
        BY <2>4 DEF M
      <3> QED
        BY <3>1, <2>4, PieceIs
    <2>8. /\ y \o z \in Seq(Symbols) /\ Len(y \o z) = Len(y) + Len(z)
          /\ \A i \in 1..(Len(y) + Len(z)) : (y \o z)[i] = IF i <= Len(y) THEN y[i] ELSE z[i - Len(y)]
      BY <2>6, <2>7, ConcatProperties
    <2>9. Len(y) = L - a /\ Len(z) = b - 1 /\ Len(x) = Len(y) + Len(z)
      BY <2>4, <2>5, <2>6, <2>7, <1>2
    <2>10. ASSUME NEW i \in 1..Len(x) PROVE x[i] = (y \o z)[i]
      <3>1. a + i \in 1..(L + M) /\ x[i] = g[a + i]
        <4>1. Len(x) = ((b + L) - a) - 1 /\ a \in Nat /\ b \in Nat /\ b <= M + 1 /\ L \in Nat /\ M \in Nat
          BY <2>4, <2>5, <1>2
        <4>2. a + i \in 1..(L + M) /\ i \in 1..(((b + L) - a) - 1)
          BY <4>1
        <4> QED
          BY <4>2, <2>5
      <3>2. CASE i <= L - a
        <4>1. a + i <= L /\ i \in 1..(((L + 1) - a) - 1)
          BY <3>2, <2>4, <1>2
        <4>2. x[i] = h[a + i] /\ y[i] = h[a + i]
          BY <3>1, <4>1, <1>2, <2>6
        <4> QED
          BY <4>2, <3>2, <2>8, <2>9
      <3>3. CASE ~(i <= L - a)
        <4>1. ~(a + i <= L) /\ (a + i) - L = i - (L - a) /\ i - (L - a) \in 1..((b - 0) - 1)
              /\ 0 + (i - (L - a)) = i - (L - a)
          BY <3>3, <2>4, <2>9, <1>2
        <4>2. x[i] = t[i - (L - a)] /\ z[i - (L - a)] = t[i - (L - a)]
          BY <3>1, <4>1, <1>2, <2>7
        <4> QED
          BY <4>2, <3>3, <2>8, <2>9
      <3> QED
        BY <3>2, <3>3
    <2>11. x = y \o z
      BY <2>5, <2>8, <2>9, <2>10, SeqEqual
    <2> QED
      BY <2>3, <2>11 DEF y, z
  <1> QED
    BY <1>5, <1>9, <1>10, <1>11 DEF P, Q, J, g

\* The lengths of the buffers are numbers.
USE OutputConstants

-----------------------------------------------------------------------------
(* The search for the startup URL in a tail of what was heard.              *)

\* LastChars() keeps the end of a text.
LEMMA LastCharsIs ==
  ASSUME NEW text \in Seq(Symbols)
  PROVE  /\ LastChars(text) \in Seq(Symbols)
         /\ Len(LastChars(text)) = IF Len(text) > TailChars THEN TailChars ELSE Len(text)
         /\ \A i \in 1..Len(LastChars(text)) :
               LastChars(text)[i] = text[i + Len(text) - Len(LastChars(text))]
  <1> DEFINE m == IF Len(text) > TailChars THEN Len(text) - TailChars + 1 ELSE 1
  <1>1. Len(text) \in Nat /\ m \in Int /\ m \in 1..(Len(text) + 1)
    BY LenProperties
  <1>2. \A i \in m..Len(text) : text[i] \in Symbols
    BY <1>1, ElementOfSeq
  <1>3. LastChars(text) = SubSeq(text, m, Len(text))
    BY DEF LastChars
  <1> HIDE DEF m
  <1>4. /\ LastChars(text) \in Seq(Symbols)
        /\ Len(LastChars(text)) = IF m <= Len(text) THEN Len(text) - m + 1 ELSE 0
        /\ \A i \in 1..(Len(text) - m + 1) : LastChars(text)[i] = text[m + i - 1]
    BY <1>1, <1>2, <1>3, SubSeqProperties
  <1>5. Len(LastChars(text)) = Len(text) - m + 1
    BY <1>1, <1>4
  <1>6. Len(text) - m + 1 = IF Len(text) > TailChars THEN TailChars ELSE Len(text)
    BY <1>1 DEF m
  <1>7. \A i \in 1..(Len(text) - m + 1) : m + i - 1 = i + Len(text) - (Len(text) - m + 1)
    BY <1>1
  <1> QED
    BY <1>4, <1>5, <1>6, <1>7

\* The end of a text that grows is that of its end and what is new.
LEMMA TailSlides ==
  ASSUME NEW text \in Seq(Symbols), NEW more \in Seq(Symbols)
  PROVE  LastChars(LastChars(text) \o more) = LastChars(text \o more)
  <1> DEFINE old == LastChars(text)
             a == old \o more
             b == text \o more
             d == Len(text) - Len(old)
  <1>1. /\ old \in Seq(Symbols)
        /\ Len(old) = IF Len(text) > TailChars THEN TailChars ELSE Len(text)
        /\ \A i \in 1..Len(old) : old[i] = text[i + d]
    BY LastCharsIs
  <1>2. Len(text) \in Nat /\ Len(more) \in Nat /\ Len(old) \in Nat /\ d \in Nat
    BY <1>1, LenProperties
  <1> HIDE DEF old
  <1>3. /\ a \in Seq(Symbols) /\ Len(a) = Len(old) + Len(more)
        /\ \A i \in 1..(Len(old) + Len(more)) :
              a[i] = IF i <= Len(old) THEN old[i] ELSE more[i - Len(old)]
    BY <1>1, ConcatProperties
  <1>4. /\ b \in Seq(Symbols) /\ Len(b) = Len(text) + Len(more)
        /\ \A i \in 1..(Len(text) + Len(more)) :
              b[i] = IF i <= Len(text) THEN text[i] ELSE more[i - Len(text)]
    BY <1>1, ConcatProperties
  <1>5. \A i \in 1..Len(a) : a[i] = b[i + d]
    <2> TAKE i \in 1..Len(a)
    <2>1. i + d \in 1..(Len(text) + Len(more))
      BY <1>2, <1>3
    <2>2. CASE i <= Len(old)
      BY <2>1, <2>2, <1>1, <1>2, <1>3, <1>4
    <2>3. CASE i > Len(old)
      <3>1. ~(i + d <= Len(text)) /\ (i + d) - Len(text) = i - Len(old) /\ ~(i <= Len(old))
        BY <2>3, <1>2, <1>3
      <3> HIDE DEF d
      <3>2. b[i + d] = more[(i + d) - Len(text)]
        BY <3>1, <2>1, <1>4
      <3>3. a[i] = more[i - Len(old)]
        BY <3>1, <1>3
      <3> QED
        BY <3>1, <3>2, <3>3
    <2> QED
      BY <2>2, <2>3, <1>2, <1>3
  <1> HIDE DEF a, b
  <1>6. /\ LastChars(a) \in Seq(Symbols)
        /\ Len(LastChars(a)) = IF Len(a) > TailChars THEN TailChars ELSE Len(a)
        /\ \A i \in 1..Len(LastChars(a)) : LastChars(a)[i] = a[i + Len(a) - Len(LastChars(a))]
    BY <1>3, LastCharsIs
  <1>7. /\ LastChars(b) \in Seq(Symbols)
        /\ Len(LastChars(b)) = IF Len(b) > TailChars THEN TailChars ELSE Len(b)
        /\ \A i \in 1..Len(LastChars(b)) : LastChars(b)[i] = b[i + Len(b) - Len(LastChars(b))]
    BY <1>4, LastCharsIs
  <1>8. Len(LastChars(a)) = Len(LastChars(b))
    BY <1>1, <1>2, <1>3, <1>4, <1>6, <1>7
  <1>9. \A i \in 1..Len(LastChars(a)) : LastChars(a)[i] = LastChars(b)[i]
    <2> TAKE i \in 1..Len(LastChars(a))
    <2> DEFINE j == i + Len(a) - Len(LastChars(a))
    <2>1. j \in 1..Len(a)
      BY <1>2, <1>3, <1>6
    <2>2. j + d = i + Len(b) - Len(LastChars(b))
      BY <1>2, <1>3, <1>4, <1>8, <1>6, <1>7
    <2> QED
      BY <2>1, <2>2, <1>5, <1>6, <1>7, <1>8
  <1> QED
    BY <1>6, <1>7, <1>8, <1>9, SeqEqual DEF a, b, old

\* What it means to be a URL of a text, without pairs.
LEMMA UrlIs ==
  ASSUME NEW text \in Seq(Symbols), NEW i, NEW j
  PROVE  <<i, j>> \in Urls(text) <=>
           /\ i \in 1..Len(text) /\ j \in 1..Len(text) /\ text[j] \in Blank
           /\ i + 1 < j /\ text[i] = "u1" /\ text[i + 1] = "u2"
           /\ \A k \in i..(j - 1) : text[k] \notin Blank
  BY LenProperties DEF Urls, Blanks

\* Every URL of a text is a pair of positions.
LEMMA UrlIsPair ==
  ASSUME NEW text \in Seq(Symbols), NEW u \in Urls(text)
  PROVE  u = <<u[1], u[2]>> /\ u[1] \in 1..Len(text) /\ u[2] \in 1..Len(text)
  BY LenProperties DEF Urls, Blanks

\* Where one text lies within another, so do its URLs.
LEMMA UrlMoves ==
  ASSUME NEW short \in Seq(Symbols), NEW long \in Seq(Symbols), NEW d \in Nat,
         Len(short) + d <= Len(long),
         \A k \in 1..Len(short) : short[k] = long[k + d],
         NEW u \in Urls(short)
  PROVE  \E v \in Urls(long) : UrlOf(long, v) = UrlOf(short, u)
  <1> DEFINE i == u[1]
             j == u[2]
  <1>0. u = <<i, j>> /\ <<i, j>> \in Urls(short)
    BY UrlIsPair
  <1> HIDE DEF i, j
  <1>1. Len(short) \in Nat /\ Len(long) \in Nat
    BY LenProperties
  <1>2. /\ i \in 1..Len(short) /\ j \in 1..Len(short) /\ i + 1 < j
        /\ short[j] \in Blank /\ short[i] = "u1" /\ short[i + 1] = "u2"
    BY <1>0, UrlIs
  <1>3. \A k \in i..(j - 1) : short[k] \notin Blank
    BY <1>0, UrlIs
  <1>4. i \in Nat /\ j \in Nat /\ 1 <= i /\ j <= Len(short)
    BY <1>1, <1>2
  <1>5. i + d \in 1..Len(long) /\ j + d \in 1..Len(long)
    BY <1>1, <1>2, <1>4
  <1>6. (i + d) + 1 < j + d /\ (i + d) + 1 = (i + 1) + d /\ i + 1 \in 1..Len(short)
    BY <1>1, <1>2, <1>4
  <1>7. long[j + d] \in Blank /\ long[i + d] = "u1" /\ long[(i + d) + 1] = "u2"
    BY <1>2, <1>6
  <1>8. \A k \in (i + d)..((j + d) - 1) : long[k] \notin Blank
    <2> TAKE k \in (i + d)..((j + d) - 1)
    <2>1. k - d \in i..(j - 1) /\ k - d \in 1..Len(short) /\ (k - d) + d = k
      BY <1>1, <1>4
    <2> QED
      BY <2>1, <1>3
  <1>9. <<i + d, j + d>> \in Urls(long)
    BY <1>5, <1>6, <1>7, <1>8, UrlIs
  <1> DEFINE a == SubSeq(short, (i - 1) + 1, j - 1)
             b == SubSeq(long, ((i - 1) + d) + 1, (j + d) - 1)
  <1>10. i - 1 \in Nat /\ i - 1 < j /\ j <= Len(short) + 1
    <2>1. i < j
      BY <1>2, <1>4
    <2> QED
      BY <2>1, <1>1, <1>4
  <1>11. (i - 1) + d \in Nat /\ j + d \in Nat /\ (i - 1) + d < j + d /\ j + d <= Len(long) + 1
    BY <1>1, <1>4, <1>10
  <1>12. /\ a \in Seq(Symbols) /\ Len(a) = (j - (i - 1)) - 1
         /\ \A k \in 1..((j - (i - 1)) - 1) : a[k] = short[(i - 1) + k]
    <2> DEFINE x == i - 1
    <2>1. x \in Nat /\ x < j /\ j <= Len(short) + 1
      BY <1>10
    <2> HIDE DEF x
    <2>2. /\ SubSeq(short, x + 1, j - 1) \in Seq(Symbols)
          /\ Len(SubSeq(short, x + 1, j - 1)) = (j - x) - 1
          /\ \A k \in 1..((j - x) - 1) : SubSeq(short, x + 1, j - 1)[k] = short[x + k]
      BY <2>1, <1>4, PieceIs
    <2> QED
      BY <2>2 DEF x
  <1>13. /\ b \in Seq(Symbols) /\ Len(b) = ((j + d) - ((i - 1) + d)) - 1
         /\ \A k \in 1..(((j + d) - ((i - 1) + d)) - 1) : b[k] = long[((i - 1) + d) + k]
    <2> DEFINE x == (i - 1) + d
               y == j + d
    <2>1. x \in Nat /\ y \in Nat /\ x < y /\ y <= Len(long) + 1
      BY <1>11
    <2> HIDE DEF x, y
    <2>2. /\ SubSeq(long, x + 1, y - 1) \in Seq(Symbols)
          /\ Len(SubSeq(long, x + 1, y - 1)) = (y - x) - 1
          /\ \A k \in 1..((y - x) - 1) : SubSeq(long, x + 1, y - 1)[k] = long[x + k]
      BY <2>1, PieceIs
    <2> QED
      BY <2>2 DEF x, y
  <1>14. (i - 1) + 1 = i /\ ((i - 1) + d) + 1 = i + d
    BY <1>4
  <1>15. a = UrlOf(short, <<i, j>>) /\ b = UrlOf(long, <<i + d, j + d>>)
    BY <1>14 DEF UrlOf
  <1> HIDE DEF a, b
  <1>16. (j + d) - ((i - 1) + d) = j - (i - 1)
    BY <1>4
  <1>17. \A k \in 1..Len(a) : a[k] = b[k]
    <2> TAKE k \in 1..Len(a)
    <2>1. k \in 1..((j - (i - 1)) - 1)
      BY <1>12
    <2>2. a[k] = short[(i - 1) + k] /\ b[k] = long[((i - 1) + d) + k]
      BY <2>1, <1>12, <1>13, <1>16
    <2>3. (i - 1) + k \in 1..Len(short) /\ ((i - 1) + k) + d = ((i - 1) + d) + k
      BY <2>1, <1>1, <1>4
    <2> QED
      BY <2>2, <2>3
  <1>18. a = b
    BY <1>12, <1>13, <1>16, <1>17, SeqEqual
  <1> QED
    BY <1>0, <1>9, <1>15, <1>18

\* What the end of a text has of URLs, the text has.
LEMMA UrlOfTail ==
  ASSUME NEW text \in Seq(Symbols), NEW u \in Urls(LastChars(text))
  PROVE  \E v \in Urls(text) : UrlOf(text, v) = UrlOf(LastChars(text), u)
  <1> DEFINE last == LastChars(text)
             d == Len(text) - Len(last)
  <1>1. /\ last \in Seq(Symbols) /\ d \in Nat
        /\ Len(last) + d <= Len(text)
        /\ \A k \in 1..Len(last) : last[k] = text[k + d]
    BY LastCharsIs, LenProperties
  <1>2. u \in Urls(last)
    OBVIOUS
  <1> HIDE DEF last, d
  <1>3. \E v \in Urls(text) : UrlOf(text, v) = UrlOf(last, u)
    BY <1>1, <1>2, UrlMoves
  <1> QED
    BY <1>3 DEF last

\* What a text has of URLs, it has with more behind it.
LEMMA UrlStays ==
  ASSUME NEW text \in Seq(Symbols), NEW more \in Seq(Symbols), NEW u \in Urls(text)
  PROVE  \E v \in Urls(text \o more) : UrlOf(text \o more, v) = UrlOf(text, u)
  <1> DEFINE long == text \o more
             d == 0
  <1>1. /\ long \in Seq(Symbols) /\ d \in Nat /\ Len(text) + d <= Len(long)
        /\ \A k \in 1..Len(text) : text[k] = long[k + d]
    BY ConcatProperties, LenProperties
  <1> HIDE DEF long, d
  <1>2. \E v \in Urls(long) : UrlOf(long, v) = UrlOf(text, u)
    BY <1>1, UrlMoves
  <1> QED
    BY <1>2 DEF long

\* A URL that the end of a text lacks begins before it.
LEMMA UrlMissed ==
  ASSUME NEW text \in Seq(Symbols), Urls(LastChars(text)) = {}, NEW u \in Urls(text)
  PROVE  Len(text) - u[1] + 1 > TailChars
  <1> DEFINE last == LastChars(text)
             d == Len(text) - Len(last)
             i == u[1]
             j == u[2]
             ii == i - d
             jj == j - d
  <1>1. /\ last \in Seq(Symbols) /\ d \in Nat /\ Len(last) \in Nat /\ Len(text) \in Nat
        /\ Len(last) = IF Len(text) > TailChars THEN TailChars ELSE Len(text)
        /\ \A k \in 1..Len(last) : last[k] = text[k + d]
    BY LastCharsIs, LenProperties
  <1>2. <<i, j>> \in Urls(text) /\ Urls(last) = {} /\ Len(text) = Len(last) + d
    <2>1. <<i, j>> \in Urls(text) /\ Urls(last) = {}
      BY UrlIsPair
    <2> HIDE DEF last, i, j
    <2>2. Len(text) = Len(last) + d
      BY <1>1
    <2> QED
      BY <2>1, <2>2
  <1> SUFFICES ASSUME ~(Len(text) - i + 1 > TailChars) PROVE FALSE
    OBVIOUS
  <1> HIDE DEF last, d, i, j
  <1>3. /\ i \in 1..Len(text) /\ j \in 1..Len(text) /\ i + 1 < j
        /\ text[j] \in Blank /\ text[i] = "u1" /\ text[i + 1] = "u2"
    BY <1>2, UrlIs
  <1>4. \A k \in i..(j - 1) : text[k] \notin Blank
    BY <1>2, UrlIs
  <1>5. i \in Nat /\ j \in Nat /\ 1 <= i /\ j <= Len(text) /\ TailChars \in Nat
    BY <1>1, <1>3
  <1>6. i > d
    <2>1. CASE Len(text) > TailChars
      BY <2>1, <1>1, <1>2, <1>5
    <2>2. CASE ~(Len(text) > TailChars)
      BY <2>2, <1>1, <1>2, <1>5
    <2> QED
      BY <2>1, <2>2
  <1>7. ii \in Nat /\ jj \in Nat /\ 1 <= ii /\ ii + d = i /\ jj + d = j /\ (ii + 1) + d = i + 1
    BY <1>1, <1>3, <1>5, <1>6
  <1> HIDE DEF ii, jj
  <1>8. ii + 1 < jj /\ jj <= Len(last)
    BY <1>1, <1>2, <1>3, <1>5, <1>7
  <1>9. ii \in 1..Len(last) /\ jj \in 1..Len(last) /\ ii + 1 \in 1..Len(last)
    BY <1>1, <1>7, <1>8
  <1>10. last[jj] \in Blank /\ last[ii] = "u1" /\ last[ii + 1] = "u2"
    BY <1>1, <1>3, <1>7, <1>9
  <1>11. \A k \in ii..(jj - 1) : last[k] \notin Blank
    <2> TAKE k \in ii..(jj - 1)
    <2>1. k \in 1..Len(last)
      BY <1>1, <1>7, <1>8
    <2>2. k + d \in i..(j - 1)
      BY <1>1, <1>5, <1>7
    <2> QED
      BY <2>1, <2>2, <1>1, <1>4
  <1>12. <<ii, jj>> \in Urls(last)
    BY <1>1, <1>8, <1>9, <1>10, <1>11, UrlIs
  <1> QED
    BY <1>2, <1>12

\* A URL is a text.
LEMMA UrlIsText ==
  ASSUME NEW text \in Seq(Symbols), NEW u \in Urls(text)
  PROVE  UrlOf(text, u) \in Seq(Symbols)
  <1>1. \A k \in u[1]..(u[2] - 1) : text[k] \in Symbols
    BY UrlIsPair, LenProperties, ElementOfSeq
  <1>2. u[1] \in Int /\ u[2] - 1 \in Int
    BY UrlIsPair, LenProperties
  <1> QED
    BY <1>1, <1>2, SubSeqProperties DEF UrlOf

\* There is a first URL where there is one.
LEMMA FirstIs ==
  ASSUME NEW text \in Seq(Symbols), Urls(text) # {}
  PROVE  First(Urls(text)) \in Urls(text)
  <1> DEFINE T == {u[1] : u \in Urls(text)}
  <1>1. T \subseteq Nat /\ T # {}
    BY UrlIsPair, LenProperties
  <1>2. \E x \in T : \A y \in T : ~(<<y, x>> \in OpToRel(<, Nat))
    BY <1>1, WFMin, NatLessThanWellFounded
  <1>3. \E x \in T : \A y \in T : x <= y
    <2>1. \A x, y \in Nat : x < y => <<x, y>> \in OpToRel(<, Nat)
      BY DEF OpToRel
    <2>2. PICK x \in T : \A y \in T : ~(<<y, x>> \in OpToRel(<, Nat))
      BY <1>2
    <2>3. \A y \in T : x <= y
      <3> TAKE y \in T
      <3> HIDE DEF T
      <3>1. x \in Nat /\ y \in Nat /\ ~(y < x)
        BY <1>1, <2>1, <2>2
      <3> QED
        BY <3>1
    <2> QED
      BY <2>3
  <1>4. \E u \in Urls(text) : \A v \in Urls(text) : u[1] <= v[1]
    BY <1>3
  <1> QED
    BY <1>4 DEF First
-----------------------------------------------------------------------------
(* While start() waits, what was heard, the tail of it, and the URL.         *)

\* The tail is the end of what was heard, with no URL in it as long as none was
\* found; the URL that was found is one of the text.
Searched ==
    /\ heard \in Seq(Symbols) /\ Len(heard) <= MaxHeard
    /\ phase # "waiting" => heard = <<>> /\ tail = <<>> /\ found = None
    /\ phase = "waiting" => (url = "seen" <=> found # None)
    /\ found # None => \E u \in Urls(heard) : found = UrlOf(heard, u)
    /\ url = "pending" => tail = LastChars(heard) /\ Urls(tail) = {}

\* Nothing is the end of nothing.
LEMMA NothingHeard == LastChars(<<>>) = <<>> /\ Urls(<<>>) = {}
  <1> DEFINE none == <<>>
  <1>1. /\ none \in Seq(Symbols) /\ Len(none) = 0
        /\ \A seq \in Seq(Symbols) : seq # none => Len(seq) # 0
    BY EmptySeq
  <1> HIDE DEF none
  <1>2. LastChars(none) \in Seq(Symbols) /\ Len(LastChars(none)) = 0
    <2>1. /\ LastChars(none) \in Seq(Symbols)
          /\ Len(LastChars(none)) = IF Len(none) > TailChars THEN TailChars ELSE Len(none)
      BY <1>1, LastCharsIs
    <2>2. TailChars \in Nat
      OBVIOUS
    <2> QED
      BY <1>1, <2>1, <2>2
  <1>3. \A u \in Urls(none) : u[1] \in 1..0
    BY <1>1, UrlIsPair
  <1>4. LastChars(none) = none /\ Urls(none) = {}
    BY <1>1, <1>2, <1>3
  <1> QED
    BY <1>4 DEF none

\* A piece of text, whatever it holds.
LEMMA PrintsSearches ==
  ASSUME Searched, NEW n \in 1..(MaxHeard - Len(heard)), NEW text \in [1..n -> Symbols],
         Prints(text)
  PROVE  Searched'
  <1>1. /\ heard \in Seq(Symbols) /\ Len(heard) \in Nat /\ n \in Nat
        /\ n <= MaxHeard - Len(heard)
    BY LenProperties DEF Searched
  <1>2. text \in Seq(Symbols) /\ Len(text) = n
    BY <1>1, SeqDef
  <1>3. /\ phase = "waiting" /\ heard' = heard \o text
        /\ LooksForUrl(text, url # "pending")
        /\ IF found' # found THEN UrlSeen ELSE UNCHANGED vars
    BY DEF Prints, Data
  <1>4. phase' = "waiting"
    BY <1>3 DEF UrlSeen, vars
  <1>5. heard' \in Seq(Symbols) /\ Len(heard') <= MaxHeard
    BY <1>1, <1>2, <1>3, ConcatProperties
  <1>6. (\E u \in Urls(heard) : found = UrlOf(heard, u))
        => \E v \in Urls(heard') : found = UrlOf(heard', v)
    BY <1>1, <1>2, <1>3, UrlStays
  <1>7. CASE url # "pending"
    <2>1. UNCHANGED <<tail, found>>
      BY <1>3, <1>7 DEF LooksForUrl
    <2>2. UNCHANGED vars
      BY <1>3, <2>1
    <2> QED
      BY <1>3, <1>4, <1>5, <1>6, <1>7, <2>1, <2>2 DEF Searched, vars
  <1>8. CASE url = "pending"
    <2>1. tail = LastChars(heard) /\ found = None
      BY <1>3, <1>8 DEF Searched
    <2>2. TailWith(text) = LastChars(heard')
      BY <1>1, <1>2, <1>3, <2>1, TailSlides DEF TailWith
    <2>3. CASE Urls(LastChars(heard')) = {} /\ tail' = LastChars(heard') /\ UNCHANGED found
      <3>1. UNCHANGED vars
        BY <1>3, <2>3
      <3> QED
        BY <1>4, <1>5, <1>8, <2>1, <2>3, <3>1 DEF Searched, vars
    <2>4. CASE /\ Urls(LastChars(heard')) # {}
               /\ found' = UrlOf(LastChars(heard'), First(Urls(LastChars(heard'))))
      <3> DEFINE u == First(Urls(LastChars(heard')))
      <3>1. LastChars(heard') \in Seq(Symbols)
        BY <1>5, LastCharsIs
      <3>2. u \in Urls(LastChars(heard'))
        BY <3>1, <2>4, FirstIs
      <3>3. \E v \in Urls(heard') : found' = UrlOf(heard', v)
        BY <1>5, <2>4, <3>2, UrlOfTail
      <3>4. found' \in Seq(Symbols)
        BY <2>4, <3>1, <3>2, UrlIsText
      <3>5. UrlSeen
        BY <1>3, <2>1, <3>4
      <3>6. url' = "seen"
        BY <3>5 DEF UrlSeen
      <3> QED
        BY <1>4, <1>5, <3>3, <3>4, <3>6 DEF Searched
    <2> QED
      BY <1>3, <1>8, <2>2, <2>3, <2>4 DEF LooksForUrl
  <1> QED
    BY <1>7, <1>8

\* Every other step keeps what was heard and found, or forgets it when start() settles.
LEMMA SearchedNext == IInv /\ Searched /\ [StartupNext]_<<vars, streamVars>> => Searched'
  <1> SUFFICES ASSUME IInv, Searched, [StartupNext]_<<vars, streamVars>>
               PROVE  Searched'
    OBVIOUS
  <1>1. CASE \E n \in 1..(MaxHeard - Len(heard)) : \E text \in [1..n -> Symbols] : Prints(text)
    BY <1>1, PrintsSearches
  <1>2. CASE PipeEnds
    BY <1>2 DEF PipeEnds, End, Searched, vars
  <1>3. CASE Closes
    BY <1>3 DEF Closes, CloseEvent, End, Searched, streamVars
  <1>4. CASE Settles
    BY <1>4, NothingHeard, EmptySeq DEF Settles, StartResolves, StartFails, Ready, Searched
  <1>5. CASE Others /\ UNCHANGED streamVars
    <2> USE <1>5 DEF streamVars
    <2>1. CASE Start
      BY <2>1 DEF Start, Searched
    <2>2. CASE Spawn
      BY <2>2 DEF Spawn, Searched, IInv, StartIsAt
    <2>3. CASE WrapperReady \/ UrlFails \/ HandoffSettles \/ StartRejects
      BY <2>3 DEF WrapperReady, UrlFails, HandoffSettles, StartRejects, Searched
    <2>4. CASE Stop \/ RootDies \/ OrphansDie \/ ExitEvent
      BY <2>4 DEF Stop, RootDies, OrphansDie, ExitEvent, Searched
    <2>5. CASE \E c \in Causes : CleanupSettles(c)
      BY <2>5 DEF CleanupSettles, Searched
    <2> QED
      BY <2>1, <2>2, <2>3, <2>4, <2>5 DEF Others
  <1>6. CASE UNCHANGED <<vars, streamVars>>
    BY <1>6 DEF Searched, vars, streamVars
  <1> QED
    BY <1>1, <1>2, <1>3, <1>4, <1>5, <1>6 DEF StartupNext

\* Which is what is said of the URL.
LEMMA SearchedIsUrlFound == Searched => UrlIsFound
  BY UrlMissed DEF Searched, UrlIsFound

-----------------------------------------------------------------------------
(* What a line says.                                                        *)

\* What a safe line consists of.
Signs == Symbols \cup {"redacted", "elided"}

\* Redact() makes a text of a text, and leaves something of what is not empty.
LEMMA RedactIs ==
  ASSUME NEW text \in Seq(Symbols)
  PROVE  Redact(text) \in Seq(Signs) /\ (Redact(text) = <<>> <=> text = <<>>)
  <1> DEFINE W == {i \in DOMAIN text : ~(Secret(text, i) /\ Secret(text, i - 1))}
             k == Cardinality(W)
             left == Ascending(W)
  <1>1. DOMAIN text = 1..Len(text) /\ Len(text) \in Nat
    BY LenProperties
  <1>2. W \subseteq Int /\ IsFiniteSet(W)
    <2>1. IsFiniteSet(1..Len(text)) /\ W \in SUBSET (1..Len(text))
      BY <1>1, FS_Interval
    <2> QED
      BY <2>1, FS_Subset
  <1>3. W = {} <=> Len(text) = 0
    <2>1. ~Secret(text, 1)
      BY DEF Secret
    <2>2. Len(text) # 0 => 1 \in W
      BY <1>1, <2>1
    <2>3. Len(text) = 0 => 1..Len(text) = {}
      OBVIOUS
    <2> QED
      BY <1>1, <2>2, <2>3
  <1>4. Redact(text) = [n \in DOMAIN left |->
                          IF Secret(text, left[n]) THEN "redacted" ELSE text[left[n]]]
    BY DEF Redact
  <1>5. \A i \in W : text[i] \in Symbols
    BY <1>1, ElementOfSeq
  <1> HIDE DEF W
  <1>6. k \in Nat /\ left \in [1..k -> W] /\ (k = 0 <=> W = {})
    BY <1>2, FS_CardinalityType, FS_EmptySet, AscendingIs
  <1> HIDE DEF k, left
  <1>7. Redact(text) \in [1..k -> Signs]
    BY <1>4, <1>5, <1>6 DEF Signs
  <1>8. Redact(text) \in Seq(Signs) /\ Len(Redact(text)) = k
    BY <1>6, <1>7, FunctionIsSeq
  <1>9. (Redact(text) = <<>> <=> k = 0) /\ (text = <<>> <=> Len(text) = 0)
    BY <1>1, <1>8, EmptySeq
  <1> QED
    BY <1>3, <1>6, <1>8, <1>9

\* So does what is said of a line.
LEMMA SaysIs ==
  ASSUME NEW text \in Seq(Symbols)
  PROVE  Says(text) \in Seq(Signs) /\ (Says(text) = <<>> <=> text = <<>>)
  <1>1. Elided \in Seq(Signs) /\ Elided # <<>>
    <2>1. "elided" \in Signs
      BY DEF Signs
    <2> QED
      BY <2>1 DEF Elided
  <1>2. text = <<>> => ~(Len(text) > LineChars)
    <2>1. LineChars \in Nat
      OBVIOUS
    <2> QED
      BY <2>1, EmptySeq
  <1> QED
    BY <1>1, <1>2, RedactIs DEF Says

\* The line under way when its text so far is text.
LineOf(text) == IF Len(text) > LineChars THEN [pending |-> <<>>, dropping |-> TRUE]
                ELSE [pending |-> text, dropping |-> FALSE]

\* Add() makes of the line of one text that of a longer one.
LEMMA AddKeeps ==
  ASSUME NEW text \in Seq(Symbols), NEW part \in Seq(Symbols)
  PROVE  /\ Add(LineOf(text), part) = LineOf(text \o part)
         /\ Ended(LineOf(text)) = Says(text)
  <1>1. /\ Len(text) \in Nat /\ Len(part) \in Nat /\ Len(text \o part) = Len(text) + Len(part)
        /\ LineChars \in Nat
    BY ConcatProperties, LenProperties
  <1>2. CASE Len(text) > LineChars
    BY <1>1, <1>2 DEF LineOf, Add, Ended, Says
  <1>3. CASE ~(Len(text) > LineChars)
    <2> DEFINE line == [pending |-> text, dropping |-> FALSE]
    <2>1. LineOf(text) = line /\ line.pending = text /\ line.dropping = FALSE
      BY <1>3 DEF LineOf
    <2>2. Ended(line) = Says(text)
      BY <1>3, <2>1 DEF Ended, Says
    <2> HIDE DEF line
    <2>3. Add(line, part) = LineOf(text \o part)
      BY <1>1, <2>1 DEF Add, LineOf
    <2> QED
      BY <2>1, <2>2, <2>3
  <1> QED
    BY <1>2, <1>3

\* The line of a text that has just begun.
LEMMA FreshIs == ASSUME NEW part \in Seq(Symbols) PROVE Add(FreshLine, part) = LineOf(part)
  <1> DEFINE none == <<>>
  <1>1. none \in Seq(Symbols) /\ Len(none) = 0 /\ none \o part = part /\ LineChars \in Nat
    BY EmptySeq, ConcatEmptySeq
  <1>2. FreshLine = [pending |-> none, dropping |-> FALSE]
    BY DEF FreshLine
  <1> HIDE DEF none
  <1>3. LineOf(none) = FreshLine
    BY <1>1, <1>2 DEF LineOf
  <1> QED
    BY <1>1, <1>3, AddKeeps

\* What the lines of a text say that have ended.
Told(text) == [n \in 1..(Len(Parts(text)) - 1) |-> Says(Parts(text)[n])]

\* What the parts of a text are, and what is said of them.
LEMMA PartsType ==
  ASSUME NEW text \in Seq(Symbols)
  PROVE  /\ Len(Parts(text)) \in Nat \ {0} /\ DOMAIN Parts(text) = 1..Len(Parts(text))
         /\ \A n \in 1..Len(Parts(text)) :
               Parts(text)[n] \in Seq(Symbols) /\ Parts(text)[n] \in Seq(Symbols \ {"nl"})
         /\ Last(Parts(text)) = Parts(text)[Len(Parts(text))]
         /\ Told(text) \in Seq(Seq(Signs)) /\ Len(Told(text)) = Len(Parts(text)) - 1
  <1> DEFINE p == Parts(text)
             k == Len(p)
  <1>1. p \in Seq(Seq(Symbols \ {"nl"})) /\ k \in Nat \ {0}
    BY PartsAre
  <1>2. DOMAIN p = 1..k /\ \A n \in 1..k : p[n] \in Seq(Symbols \ {"nl"})
    BY <1>1, LenProperties, ElementOfSeq
  <1>3. \A n \in 1..k : p[n] \in Seq(Symbols)
    <2>1. Symbols \ {"nl"} \subseteq Symbols
      OBVIOUS
    <2> QED
      BY <1>2, <2>1, SeqMonotonic
  <1>4. Told(text) = [n \in 1..(k - 1) |-> Says(p[n])]
    BY DEF Told
  <1> HIDE DEF p, k
  <1>5. k - 1 \in Nat /\ \A n \in 1..(k - 1) : n \in 1..k
    BY <1>1
  <1>6. \A n \in 1..(k - 1) : Says(p[n]) \in Seq(Signs)
    BY <1>3, <1>5, SaysIs
  <1>7. Told(text) \in [1..(k - 1) -> Seq(Signs)]
    BY <1>4, <1>6
  <1>8. Told(text) \in Seq(Seq(Signs)) /\ Len(Told(text)) = k - 1
    BY <1>5, <1>7, FunctionIsSeq
  <1> QED
    BY <1>1, <1>2, <1>3, <1>8 DEF p, k, Last

\* The empty text is one empty part.
LEMMA PartsOfNothing == Last(Parts(<<>>)) = <<>> /\ Len(Parts(<<>>)) = 1
  <1> DEFINE none == <<>>
             c == Cuts(none)
  <1>1. /\ none \in Seq(Symbols) /\ Len(none) = 0
        /\ \A S : \A seq \in Seq(S) : Len(seq) = 0 => seq = none
    BY EmptySeq
  <1> HIDE DEF none
  <1>2. Marks(none) \subseteq {0, 1}
    BY <1>1, LenProperties DEF Marks, Newlines
  <1>3. /\ Len(c) \in Nat /\ Len(c) >= 2 /\ c[1] = 0
        /\ \A n \in 1..Len(c) : c[n] \in {0, 1}
        /\ \A m, n \in 1..Len(c) : m < n => c[m] < c[n]
    BY <1>1, <1>2, CutsAre
  <1> HIDE DEF c
  <1>4. Len(c) = 2 /\ c[2] = 1
    <2>1. 1 \in 1..Len(c) /\ 2 \in 1..Len(c) /\ 1 < 2 /\ 2 < 3
      BY <1>3
    <2>2. c[2] = 1
      BY <2>1, <1>3
    <2>3. 3 \notin 1..Len(c)
      BY <2>1, <2>2, <1>3
    <2> DEFINE k == Len(c)
    <2>4. k \in Nat /\ k >= 2 /\ 3 \notin 1..k
      BY <1>3, <2>3
    <2> HIDE DEF k
    <2>5. k = 2
      BY <2>4
    <2> QED
      BY <2>2, <2>5 DEF k
  <1>5. Len(Parts(none)) = 1 /\ Parts(none)[1] = SubSeq(none, 0 + 1, 1 - 1)
    <2>1. /\ Len(Parts(none)) = Len(c) - 1
          /\ \A n \in 1..Len(Parts(none)) : Parts(none)[n] = SubSeq(none, c[n] + 1, c[n + 1] - 1)
      BY <1>1, PartsAre DEF c
    <2>2. Len(Parts(none)) = 1 /\ 1 \in 1..1 /\ 1 + 1 = 2
      BY <2>1, <1>4
    <2> QED
      BY <2>1, <2>2, <1>3, <1>4
  <1>6. SubSeq(none, 0 + 1, 1 - 1) \in Seq(Symbols) /\ Len(SubSeq(none, 0 + 1, 1 - 1)) = (1 - 0) - 1
    BY <1>1, PieceIs
  <1>7. Parts(none)[1] = none
    BY <1>1, <1>5, <1>6
  <1> QED
    BY <1>5, <1>7 DEF none, Last

\* Push() goes on where the text has come to, and says what has ended of it.
LEMMA PushSays ==
  ASSUME NEW h \in Seq(Symbols), NEW t \in Seq(Symbols),
         [pending |-> pending, dropping |-> dropping] = LineOf(Last(Parts(h)))
  PROVE  /\ Push(t).pending = LineOf(Last(Parts(h \o t))).pending
         /\ Push(t).dropping = LineOf(Last(Parts(h \o t))).dropping
         /\ Push(t).safe \in Seq(Seq(Signs))
         /\ Told(h) \o Push(t).safe = Told(h \o t)
  <1> DEFINE P == Len(Parts(h))
             Q == Len(Parts(t))
             p == Parts(h)
             q == Parts(t)
             J == Parts(h \o t)
             lines == [n \in DOMAIN q |->
                         Add(IF n = 1 THEN [pending |-> pending, dropping |-> dropping] ELSE FreshLine, q[n])]
             safe == [n \in 1..(Len(lines) - 1) |-> Ended(lines[n])]
  <1>1. h \o t \in Seq(Symbols)
    BY ConcatProperties
  <1>2. /\ P \in Nat \ {0} /\ Q \in Nat \ {0} /\ DOMAIN q = 1..Q /\ Last(p) = p[P]
        /\ \A n \in 1..P : p[n] \in Seq(Symbols)
        /\ \A n \in 1..Q : q[n] \in Seq(Symbols)
    BY PartsType
  <1>3. /\ Len(J) = (P + Q) - 1
        /\ \A n \in 1..(P - 1) : J[n] = p[n]
        /\ J[P] = p[P] \o q[1]
        /\ \A n \in (P + 1)..((P + Q) - 1) : J[n] = q[(n - P) + 1]
    BY PartsJoin
  <1>4. /\ Last(J) = J[Len(J)] /\ \A n \in 1..Len(J) : J[n] \in Seq(Symbols)
    BY <1>1, PartsType
  <1>5. /\ Push(t).pending = Last(lines).pending
        /\ Push(t).dropping = Last(lines).dropping /\ Push(t).safe = safe
    BY DEF Push
  <1>6. /\ Told(h) = [n \in 1..(P - 1) |-> Says(p[n])] /\ Told(h) \in Seq(Seq(Signs))
        /\ Told(h \o t) = [n \in 1..(Len(J) - 1) |-> Says(J[n])]
        /\ Told(h \o t) \in Seq(Seq(Signs)) /\ Len(Told(h \o t)) = Len(J) - 1
        /\ Len(Told(h)) = P - 1
    BY <1>1, PartsType DEF Told
  <1>7. [pending |-> pending, dropping |-> dropping] = LineOf(p[P])
    BY <1>2
  <1> HIDE DEF P, Q, p, q, J
  <1>8. ASSUME NEW n \in 1..Q
        PROVE  /\ (n + P) - 1 \in P..((P + Q) - 1) /\ (n + P) - 1 \in 1..Len(J)
               /\ lines[n] = LineOf(J[(n + P) - 1])
    <2>1. (n + P) - 1 \in P..((P + Q) - 1) /\ (n + P) - 1 \in 1..Len(J)
      BY <1>2, <1>3
    <2>2. CASE n = 1
      <3>1. lines[n] = Add(LineOf(p[P]), q[1])
        BY <2>2, <1>2, <1>7
      <3>2. P \in 1..P /\ 1 \in 1..Q /\ (n + P) - 1 = P
        BY <2>2, <1>2
      <3>3. lines[n] = LineOf(p[P] \o q[1])
        BY <3>1, <3>2, <1>2, AddKeeps
      <3> QED
        BY <2>1, <3>2, <3>3, <1>3
    <2>3. CASE n # 1
      <3>1. lines[n] = Add(FreshLine, q[n])
        BY <2>3, <1>2
      <3>2. lines[n] = LineOf(q[n])
        BY <3>1, <1>2, FreshIs
      <3>3. (n + P) - 1 \in (P + 1)..((P + Q) - 1) /\ (((n + P) - 1) - P) + 1 = n
        BY <2>3, <1>2
      <3>4. J[(n + P) - 1] = q[n]
        BY <3>3, <1>3
      <3> QED
        BY <2>1, <3>2, <3>4
    <2> QED
      BY <2>2, <2>3
  <1>9. Len(lines) = Q
    <2> DEFINE op(n) == Add(IF n = 1 THEN [pending |-> pending, dropping |-> dropping] ELSE FreshLine, q[n])
    <2>1. lines \in [1..Q -> {op(n) : n \in 1..Q}]
      BY <1>2
    <2> QED
      BY <2>1, <1>2, FunctionIsSeq
  <1>10. Last(lines) = LineOf(Last(J))
    <2>1. Q \in 1..Q /\ (Q + P) - 1 = Len(J)
      BY <1>2, <1>3
    <2> HIDE DEF lines
    <2>2. Last(lines) = lines[Q]
      BY <1>9 DEF Last
    <2> QED
      BY <2>1, <2>2, <1>4, <1>8
  <1>11. safe = [n \in 1..(Q - 1) |-> Ended(lines[n])]
    BY <1>9
  <1> HIDE DEF lines, safe
  <1>12. ASSUME NEW n \in 1..(Q - 1)
         PROVE  /\ safe[n] = Says(J[(n + P) - 1]) /\ safe[n] \in Seq(Signs)
    <2>1. n \in 1..Q
      BY <1>2
    <2>2. lines[n] = LineOf(J[(n + P) - 1]) /\ J[(n + P) - 1] \in Seq(Symbols)
      BY <2>1, <1>4, <1>8
    <2>3. safe[n] = Ended(lines[n])
      BY <1>11
    <2> QED
      BY <2>2, <2>3, AddKeeps, SaysIs, EmptySeq
  <1>13. safe \in Seq(Seq(Signs)) /\ Len(safe) = Q - 1
    <2>1. safe \in [1..(Q - 1) -> Seq(Signs)] /\ Q - 1 \in Nat
      BY <1>2, <1>11, <1>12
    <2> QED
      BY <2>1, FunctionIsSeq
  <1>14. Told(h) \o safe = Told(h \o t)
    <2> DEFINE a == Told(h)
               b == Told(h \o t)
    <2>1. /\ a \o safe \in Seq(Seq(Signs)) /\ Len(a \o safe) = Len(a) + Len(safe)
          /\ \A i \in 1..(Len(a) + Len(safe)) :
                (a \o safe)[i] = IF i <= Len(a) THEN a[i] ELSE safe[i - Len(a)]
      <3>1. a \in Seq(Seq(Signs)) /\ safe \in Seq(Seq(Signs))
        BY <1>6, <1>13
      <3> HIDE DEF a
      <3> QED
        BY <3>1, ConcatProperties
    <2>2. /\ \A i \in 1..(P - 1) : a[i] = Says(p[i])
          /\ \A i \in 1..(Len(J) - 1) : b[i] = Says(J[i])
      BY <1>6
    <2>3. Len(a) = P - 1 /\ Len(safe) = Q - 1 /\ Len(b) = (P + Q) - 2 /\ Len(J) = (P + Q) - 1
      BY <1>2, <1>3, <1>6, <1>13
    <2>4. a \in Seq(Seq(Signs)) /\ b \in Seq(Seq(Signs))
      BY <1>6
    <2> HIDE DEF a, b
    <2>5. ASSUME NEW i \in 1..Len(b) PROVE (a \o safe)[i] = b[i]
      <3>1. i \in 1..(Len(a) + Len(safe)) /\ i \in 1..(Len(J) - 1)
        BY <2>3, <1>2
      <3>2. CASE i <= P - 1
        <4>1. i \in 1..(P - 1)
          BY <3>2, <2>3, <1>2
        <4> QED
          BY <4>1, <3>1, <3>2, <2>1, <2>2, <2>3, <1>3
      <3>3. CASE ~(i <= P - 1)
        <4>1. i - (P - 1) \in 1..(Q - 1) /\ ((i - (P - 1)) + P) - 1 = i
          BY <3>3, <3>1, <2>3, <1>2
        <4>2. safe[i - (P - 1)] = Says(J[i])
          BY <4>1, <1>12
        <4> QED
          BY <4>2, <3>1, <3>3, <2>1, <2>2, <2>3
      <3> QED
        BY <3>2, <3>3
    <2>6. Len(a \o safe) = Len(b)
      BY <2>1, <2>3, <1>2
    <2>7. a \o safe = b
      BY <2>1, <2>4, <2>5, <2>6, SeqEqual
    <2> QED
      BY <2>7 DEF a, b
  <1> QED
    BY <1>5, <1>10, <1>13, <1>14 DEF J

-----------------------------------------------------------------------------
(* The kept lines.                                                          *)

\* A line that appendStderr() keeps.
KeptLine == {line \in Seq(Signs) : Len(line) \in 1..KeptChars}

\* The end of a list, at most so long.
LEMMA EndIs ==
  ASSUME NEW S, NEW list \in Seq(S), NEW k \in Nat
  PROVE  LET last == SubSeq(list, IF Len(list) > k THEN Len(list) - k + 1 ELSE 1, Len(list))
         IN last \in Seq(S) /\ Len(last) <= k
  <1> DEFINE m == IF Len(list) > k THEN Len(list) - k + 1 ELSE 1
  <1>1. Len(list) \in Nat /\ m \in Int /\ m \in 1..(Len(list) + 1)
    BY LenProperties
  <1>2. (IF m <= Len(list) THEN Len(list) - m + 1 ELSE 0) <= k
    BY <1>1
  <1> HIDE DEF m
  <1>3. \A i \in m..Len(list) : list[i] \in S
    BY <1>1, ElementOfSeq
  <1>4. /\ SubSeq(list, m, Len(list)) \in Seq(S)
        /\ Len(SubSeq(list, m, Len(list))) = IF m <= Len(list) THEN Len(list) - m + 1 ELSE 0
    BY <1>1, <1>3, SubSeqProperties
  <1> QED
    BY <1>2, <1>4 DEF m

\* Keep() keeps so many lines of so many characters, and none that is empty.
LEMMA KeepIs ==
  ASSUME NEW lines \in Seq(KeptLine), NEW safe \in Seq(Seq(Signs))
  PROVE  Keep(lines, safe) \in Seq(KeptLine) /\ Len(Keep(lines, safe)) <= KeptLines
  <1> DEFINE W == {i \in DOMAIN safe : \E n \in DOMAIN safe[i] : safe[i][n] # "sp"}
             shown == Ascending(W)
             cut(line) == SubSeq(line, 1, IF Len(line) < KeptChars THEN Len(line) ELSE KeptChars)
             new == [n \in DOMAIN shown |-> cut(safe[shown[n]])]
             next == lines \o new
             k == Cardinality(W)
  <1>1. DOMAIN safe = 1..Len(safe) /\ Len(safe) \in Nat
    BY LenProperties
  <1>2. W \subseteq Int /\ IsFiniteSet(W)
    <2>1. IsFiniteSet(1..Len(safe)) /\ W \in SUBSET (1..Len(safe))
      BY <1>1, FS_Interval
    <2> QED
      BY <2>1, FS_Subset
  <1>3. ASSUME NEW i \in W PROVE cut(safe[i]) \in KeptLine
    <2>1. safe[i] \in Seq(Signs)
      BY <1>1, ElementOfSeq
    <2> DEFINE s == safe[i]
               b == IF Len(s) < KeptChars THEN Len(s) ELSE KeptChars
    <2>2. DOMAIN s = 1..Len(s) /\ Len(s) \in Nat /\ DOMAIN s # {}
      BY <2>1, LenProperties
    <2>3. Len(s) # 0
      <3>1. Len(s) = 0 => 1..Len(s) = {}
        OBVIOUS
      <3> QED
        BY <2>2, <3>1
    <2>4. KeptChars \in Nat \ {0}
      OBVIOUS
    <2>5. b \in Nat /\ b \in 1..KeptChars /\ b <= Len(s) /\ 1 <= b
      BY <2>2, <2>3, <2>4
    <2> HIDE DEF s, b
    <2>6. \A n \in 1..b : s[n] \in Signs
      <3>1. \A n \in 1..b : n \in 1..Len(s)
        BY <2>2, <2>5
      <3> QED
        BY <3>1, <2>1, ElementOfSeq DEF s
    <2>7. SubSeq(s, 1, b) \in Seq(Signs) /\ Len(SubSeq(s, 1, b)) = IF 1 <= b THEN b - 1 + 1 ELSE 0
      BY <2>5, <2>6, SubSeqProperties
    <2>8. SubSeq(s, 1, b) \in KeptLine
      BY <2>5, <2>7 DEF KeptLine
    <2> QED
      BY <2>8 DEF s, b
  <1>4. Keep(lines, safe) = SubSeq(next, IF Len(next) > KeptLines THEN Len(next) - KeptLines + 1 ELSE 1, Len(next))
    BY DEF Keep
  <1> HIDE DEF W, cut
  <1>5. k \in Nat /\ shown \in [1..k -> W]
    BY <1>2, FS_CardinalityType, AscendingIs
  <1> HIDE DEF k, shown
  <1>6. new \in [1..k -> KeptLine]
    BY <1>3, <1>5
  <1> HIDE DEF new
  <1>7. new \in Seq(KeptLine)
    BY <1>5, <1>6, FunctionIsSeq
  <1>8. next \in Seq(KeptLine)
    BY <1>7, ConcatProperties
  <1> HIDE DEF next
  <1>9. KeptLines \in Nat
    OBVIOUS
  <1> QED
    BY <1>4, <1>8, <1>9, EndIs

-----------------------------------------------------------------------------
(* The stream says each line of what was heard, once it has ended.          *)

\* What was heard since the last newline.
Rest == Last(Parts(heard))
\* The line that the stream keeps.
UnderWay == [pending |-> pending, dropping |-> dropping]

\* The line under way is that of the rest; what was said is what the lines before
\* it say; the kept lines and the tail are within their bounds.
Streamed ==
    /\ heard \in Seq(Symbols) /\ ended \in BOOLEAN
    /\ ~ended => UnderWay = LineOf(Rest)
    /\ ended => pending = <<>> /\ dropping = FALSE
    /\ said = IF ended /\ Rest # <<>> THEN Append(Told(heard), Says(Rest)) ELSE Told(heard)
    /\ kept \in Seq(KeptLine) /\ Len(kept) <= KeptLines
    /\ tail \in Seq(Symbols) /\ Len(tail) <= TailChars

\* An empty stream satisfies it, at the start and when start() has settled.
LEMMA StreamStarts ==
  /\ StreamInit => Streamed
  /\ StreamInit' => Streamed'
  <1> DEFINE none == <<>>
  <1>1. /\ none \in Seq(Symbols) /\ none \in Seq(KeptLine) /\ Len(none) = 0
        /\ KeptLines \in Nat /\ TailChars \in Nat /\ LineChars \in Nat
    BY EmptySeq
  <1>2. Last(Parts(none)) = none /\ Len(Parts(none)) = 1
    BY PartsOfNothing
  <1> HIDE DEF none
  <1>3. LineOf(none) = [pending |-> none, dropping |-> FALSE]
    BY <1>1 DEF LineOf
  <1>4. Told(none) = none
    <2>1. Told(none) \in Seq(Seq(Signs)) /\ Len(Told(none)) = Len(Parts(none)) - 1
      BY <1>1, PartsType
    <2>2. Len(Told(none)) = 0
      BY <2>1, <1>2
    <2>3. Told(none) = <<>>
      BY <2>1, <2>2, EmptySeq
    <2> QED
      BY <2>3 DEF none
  <1>5. ASSUME NEW h, NEW p, NEW s, NEW k, NEW l, NEW d, NEW e,
               h = none, p = none, s = none, k = none, l = none, d = FALSE, e = FALSE
        PROVE  /\ h \in Seq(Symbols) /\ e \in BOOLEAN
               /\ ~e => [pending |-> p, dropping |-> d] = LineOf(Last(Parts(h)))
               /\ e => p = <<>> /\ d = FALSE
               /\ s = IF e /\ Last(Parts(h)) # <<>> THEN Append(Told(h), Says(Last(Parts(h)))) ELSE Told(h)
               /\ k \in Seq(KeptLine) /\ Len(k) <= KeptLines
               /\ l \in Seq(Symbols) /\ Len(l) <= TailChars
    <2>1. Len(none) <= KeptLines /\ Len(none) <= TailChars
      BY <1>1
    <2>2. [pending |-> p, dropping |-> d] = LineOf(Last(Parts(h)))
      BY <1>2, <1>3, <1>5
    <2>3. s = Told(h)
      BY <1>4, <1>5
    <2> QED
      BY <2>1, <2>2, <2>3, <1>1, <1>5
  <1>6. ASSUME StreamInit PROVE Streamed
    <2>1. heard = none /\ pending = none /\ said = none /\ kept = none /\ tail = none
          /\ dropping = FALSE /\ ended = FALSE
      BY <1>6 DEF StreamInit, none
    <2> QED
      BY <2>1, <1>5 DEF Streamed, Rest, UnderWay
  <1>7. ASSUME StreamInit' PROVE Streamed'
    <2>1. heard' = none /\ pending' = none /\ said' = none /\ kept' = none /\ tail' = none
          /\ dropping' = FALSE /\ ended' = FALSE
      BY <1>7 DEF StreamInit, none
    <2> QED
      BY <2>1, <1>5 DEF Streamed, Rest, UnderWay
  <1> QED
    BY <1>6, <1>7

\* A piece of text, settled or not.
LEMMA DataStreams ==
  ASSUME Streamed, NEW n \in Nat, NEW text \in [1..n -> Symbols], NEW settled \in BOOLEAN,
         Data(text, settled)
  PROVE  Streamed'
  <1>1. text \in Seq(Symbols)
    BY FunctionIsSeq
  <1>2. /\ ended = FALSE /\ ended' = FALSE /\ heard' = heard \o text
        /\ pending' = Push(text).pending /\ dropping' = Push(text).dropping
        /\ said' = said \o Push(text).safe /\ kept' = Keep(kept, Push(text).safe)
        /\ LooksForUrl(text, settled)
    BY DEF Data, Streamed
  <1>3. /\ heard \in Seq(Symbols) /\ [pending |-> pending, dropping |-> dropping] = LineOf(Last(Parts(heard)))
        /\ said = Told(heard) /\ kept \in Seq(KeptLine) /\ tail \in Seq(Symbols)
        /\ Len(tail) <= TailChars
    BY <1>2 DEF Streamed, UnderWay, Rest
  <1>4. /\ Push(text).pending = LineOf(Last(Parts(heard'))).pending
        /\ Push(text).dropping = LineOf(Last(Parts(heard'))).dropping
        /\ Push(text).safe \in Seq(Seq(Signs))
        /\ Told(heard) \o Push(text).safe = Told(heard')
    BY <1>1, <1>2, <1>3, PushSays
  <1>5. heard' \in Seq(Symbols)
    BY <1>1, <1>2, <1>3, ConcatProperties
  <1>6. UnderWay' = LineOf(Rest')
    <2>1. pending' = LineOf(Rest').pending /\ dropping' = LineOf(Rest').dropping
      BY <1>2, <1>4 DEF Rest
    <2> QED
      BY <2>1 DEF UnderWay, LineOf
  <1>7. said' = Told(heard')
    BY <1>2, <1>3, <1>4
  <1>8. kept' \in Seq(KeptLine) /\ Len(kept') <= KeptLines
    BY <1>2, <1>3, <1>4, KeepIs
  <1>9. tail' \in Seq(Symbols) /\ Len(tail') <= TailChars
    <2>1. tail' = tail \/ tail' = TailWith(text) \/ tail' = <<>>
      BY <1>2 DEF LooksForUrl
    <2>2. TailWith(text) \in Seq(Symbols) /\ Len(TailWith(text)) <= TailChars
      <3>1. tail \o text \in Seq(Symbols)
        BY <1>1, <1>3, ConcatProperties
      <3>2. /\ LastChars(tail \o text) \in Seq(Symbols) /\ Len(tail \o text) \in Nat
            /\ Len(LastChars(tail \o text)) = IF Len(tail \o text) > TailChars THEN TailChars ELSE Len(tail \o text)
        BY <3>1, LastCharsIs, LenProperties
      <3>3. TailChars \in Nat
        OBVIOUS
      <3> QED
        BY <3>2, <3>3 DEF TailWith
    <2>3. <<>> \in Seq(Symbols) /\ Len(<<>>) <= TailChars
      <3>1. <<>> \in Seq(Symbols) /\ Len(<<>>) = 0 /\ TailChars \in Nat
        BY EmptySeq
      <3> QED
        BY <3>1
    <2> QED
      BY <2>1, <2>2, <2>3, <1>3
  <1> QED
    BY <1>2, <1>5, <1>6, <1>7, <1>8, <1>9 DEF Streamed

\* The end of the stream says the rest.
LEMMA EndStreams == ASSUME Streamed, End PROVE Streamed'
  <1> DEFINE rest == Ended(UnderWay)
             safe == IF rest = <<>> THEN <<>> ELSE <<rest>>
  <1>1. /\ ended = FALSE /\ ended' = TRUE /\ pending' = <<>> /\ dropping' = FALSE
        /\ said' = said \o safe /\ kept' = Keep(kept, safe)
        /\ UNCHANGED <<heard, tail>>
    BY DEF End, Streamed, UnderWay
  <1>2. /\ heard \in Seq(Symbols) /\ UnderWay = LineOf(Rest) /\ said = Told(heard)
        /\ kept \in Seq(KeptLine) /\ tail \in Seq(Symbols) /\ Len(tail) <= TailChars
    BY <1>1 DEF Streamed
  <1>3. Rest \in Seq(Symbols) /\ Told(heard) \in Seq(Seq(Signs))
    <2>1. /\ Len(Parts(heard)) \in Nat \ {0}
          /\ \A n \in 1..Len(Parts(heard)) : Parts(heard)[n] \in Seq(Symbols)
          /\ Rest = Parts(heard)[Len(Parts(heard))] /\ Told(heard) \in Seq(Seq(Signs))
      BY <1>2, PartsType DEF Rest
    <2> QED
      BY <2>1
  <1>4. rest = Says(Rest)
    BY <1>2, <1>3, AddKeeps, EmptySeq
  <1>5. rest \in Seq(Signs) /\ (rest = <<>> <=> Rest = <<>>)
    BY <1>3, <1>4, SaysIs
  <1> HIDE DEF rest
  <1>6. safe \in Seq(Seq(Signs))
    BY <1>5
  <1>7. said' = IF Rest # <<>> THEN Append(Told(heard), Says(Rest)) ELSE Told(heard)
    <2>1. CASE Rest = <<>>
      <3>1. Told(heard) \o <<>> = Told(heard)
        BY <1>3, ConcatEmptySeq
      <3> QED
        BY <2>1, <3>1, <1>1, <1>2, <1>5
    <2>2. CASE Rest # <<>>
      <3>1. Append(Told(heard), rest) = Told(heard) \o <<rest>>
        BY <1>3, <1>5, AppendIsConcat
      <3> QED
        BY <2>2, <3>1, <1>1, <1>2, <1>4, <1>5
    <2> QED
      BY <2>1, <2>2
  <1>8. kept' \in Seq(KeptLine) /\ Len(kept') <= KeptLines
    BY <1>1, <1>2, <1>6, KeepIs
  <1>9. Rest' = Rest /\ Told(heard') = Told(heard)
    BY <1>1 DEF Rest
  <1> QED
    BY <1>1, <1>2, <1>7, <1>8, <1>9 DEF Streamed

\* It speaks of the stream alone.
LEMMA StreamStays == ASSUME Streamed, UNCHANGED streamVars PROVE Streamed'
  BY DEF Streamed, streamVars, UnderWay, Rest

\* Every step of a daemon that starts keeps it.
LEMMA StreamedNext == Streamed /\ [StartupNext]_<<vars, streamVars>> => Streamed'
  <1> SUFFICES ASSUME Streamed, [StartupNext]_<<vars, streamVars>>
               PROVE  Streamed'
    OBVIOUS
  <1>1. CASE \E n \in 1..(MaxHeard - Len(heard)) : \E text \in [1..n -> Symbols] : Prints(text)
    <2>1. PICK n \in 1..(MaxHeard - Len(heard)) : \E text \in [1..n -> Symbols] : Prints(text)
      BY <1>1
    <2>2. PICK text \in [1..n -> Symbols] : Prints(text)
      BY <2>1
    <2>3. n \in Nat
      BY LenProperties DEF Streamed
    <2>4. Data(text, url # "pending")
      BY <2>2 DEF Prints
    <2> QED
      BY <2>3, <2>4, DataStreams
  <1>2. CASE PipeEnds
    BY <1>2, EndStreams DEF PipeEnds
  <1>3. CASE Closes
    BY <1>3, EndStreams, StreamStays DEF Closes
  <1>4. CASE Settles
    BY <1>4, StreamStarts DEF Settles, StreamInit
  <1>5. CASE (Others /\ UNCHANGED streamVars) \/ UNCHANGED <<vars, streamVars>>
    BY <1>5, StreamStays
  <1> QED
    BY <1>1, <1>2, <1>3, <1>4, <1>5 DEF StartupNext

\* Which is what is said of the lines.
LEMMA StreamedIsSafe == Streamed /\ Searched => SaysLines
  <1> SUFFICES ASSUME Streamed, Searched PROVE SaysLines
    OBVIOUS
  <1>1. StreamTypeOK
    <2>1. /\ heard \in Seq(Symbols) /\ Len(heard) <= MaxHeard /\ ended \in BOOLEAN
          /\ Len(kept) <= KeptLines /\ Len(tail) <= TailChars
      BY DEF Streamed, Searched
    <2>2. \A n \in DOMAIN kept : Len(kept[n]) \in 1..KeptChars
      <3>1. kept \in Seq(KeptLine)
        BY DEF Streamed
      <3>2. \A n \in DOMAIN kept : kept[n] \in KeptLine
        BY <3>1, LenProperties, ElementOfSeq
      <3> QED
        BY <3>2 DEF KeptLine
    <2>3. /\ pending \in Seq(Symbols \ {"nl"}) /\ Len(pending) <= LineChars
          /\ dropping \in BOOLEAN /\ (dropping => pending = <<>>)
      <3>1. LineChars \in Nat
        OBVIOUS
      <3>2. <<>> \in Seq(Symbols \ {"nl"}) /\ Len(<<>>) <= LineChars
        <4>1. <<>> \in Seq(Symbols \ {"nl"}) /\ Len(<<>>) = 0
          BY EmptySeq
        <4> QED
          BY <4>1, <3>1
      <3>3. Rest \in Seq(Symbols \ {"nl"}) /\ Len(Rest) \in Nat
        <4>1. /\ Len(Parts(heard)) \in Nat \ {0}
              /\ \A n \in 1..Len(Parts(heard)) : Parts(heard)[n] \in Seq(Symbols \ {"nl"})
              /\ Rest = Parts(heard)[Len(Parts(heard))]
          BY <2>1, PartsType DEF Rest
        <4>2. Rest \in Seq(Symbols \ {"nl"})
          BY <4>1
        <4> QED
          BY <4>2, LenProperties
      <3>4. CASE ended
        <4>1. pending = <<>> /\ dropping = FALSE
          BY <3>4 DEF Streamed
        <4> QED
          BY <4>1, <3>2
      <3>5. CASE ~ended
        <4>1. pending = LineOf(Rest).pending /\ dropping = LineOf(Rest).dropping
          <5>1. UnderWay = LineOf(Rest)
            BY <3>5 DEF Streamed
          <5>2. pending = UnderWay.pending /\ dropping = UnderWay.dropping
            BY DEF UnderWay
          <5> QED
            BY <5>1, <5>2
        <4>2. CASE Len(Rest) > LineChars
          <5>1. pending = <<>> /\ dropping = TRUE
            BY <4>1, <4>2 DEF LineOf
          <5> QED
            BY <5>1, <3>1, <3>2
        <4>3. CASE ~(Len(Rest) > LineChars)
          <5>1. pending = Rest /\ dropping = FALSE
            BY <4>1, <4>3 DEF LineOf
          <5>2. Len(Rest) <= LineChars
            BY <4>3, <3>1, <3>3
          <5> QED
            BY <5>1, <5>2, <3>3
        <4> QED
          BY <4>2, <4>3
      <3> QED
        BY <3>4, <3>5, <2>1
    <2> QED
      BY <2>1, <2>2, <2>3 DEF StreamTypeOK
  <1> QED
    BY <1>1 DEF SaysLines, Streamed, Rest, Told

\* What is heard, said and found goes together from the start.
LEMMA StreamInvariance == StartupSpec => [](Searched /\ Streamed)
  <1>1. StartupInit => Searched /\ Streamed
    <2> SUFFICES ASSUME StartupInit PROVE Searched /\ Streamed
      OBVIOUS
    <2>1. Streamed
      BY StreamStarts DEF StartupInit
    <2>2. /\ heard = <<>> /\ tail = <<>> /\ found = None /\ phase = "idle" /\ url = "pending"
      BY DEF StartupInit, StreamInit, Init
    <2>3. /\ <<>> \in Seq(Symbols) /\ Len(<<>>) = 0 /\ MaxHeard \in Nat
      BY EmptySeq
    <2> QED
      BY <2>1, <2>2, <2>3, NothingHeard DEF Searched
  <1>2. StartupSpec => []IInv
    BY StartupIsDaemon, Invariance, PTL
  <1> QED
    BY <1>1, <1>2, SearchedNext, StreamedNext, PTL DEF StartupSpec

\* On any platforms, for buffers of any length and any text cut anywhere: the URL
\* that ends the wait is one the daemon printed, and while none is found each URL
\* began further back than the tail reaches.
THEOREM UrlIsFoundHolds == StartupSpec => []UrlIsFound
  BY StreamInvariance, SearchedIsUrlFound, PTL

\* And what has left the process is each line that has ended, its credentials
\* struck out or the whole of it elided, and at the end of the stream the rest;
\* every buffer is within its bound.
THEOREM SaysLinesHolds == StartupSpec => []SaysLines
  BY StreamInvariance, StreamedIsSafe, PTL

HIDE OutputConstants
-----------------------------------------------------------------------------
(* The process tree: whom a signal may reach, and what can be traced to     *)
(* what is retained.                                                        *)

Retained == known \cup ledger \cup root \cup aim \cup todo

\* A process that is there has a start time of its own; what is retained or listed is a
\* process that was started.
Dated ==
    /\ \A p \in Pids : Exists(p) => proc[p].birth \in 1..births
    /\ \A p, q \in Pids : Exists(p) /\ Exists(q) /\ proc[p].birth = proc[q].birth => p = q
    /\ \A id \in Retained \cup listing : id.birth <= births
    /\ \A b \in misread : b <= births
    /\ sampled <= births

\* The parent of a process runs, and both are the daemon's or neither is.
Kin == \A c \in Pids : Exists(c) /\ proc[c].parent # 0 =>
         /\ proc[c].parent # c /\ Runs(proc[c].parent)
         /\ proc[proc[c].parent].owned = proc[c].owned

\* What is retained, recorded, listed or to be signalled, while it is that process, is
\* the daemon's or was misread; nothing of the daemon's was.
Adopted ==
    /\ \A id \in Retained \cup listing :
         Current(id) /\ ~proc[id.pid].owned => id.birth \in misread
    /\ \A p \in Pids : Exists(p) /\ proc[p].birth \in misread => ~proc[p].owned

\* Until its number is another's, no stranger has the daemon's number or is in its group.
Apart == proc[Root].birth = 1 =>
           \A p \in Pids : Exists(p) /\ ~proc[p].owned => p # Root /\ proc[p].group # Root

Ours == TreeTypeOK /\ Dated /\ Kin /\ Adopted /\ Apart /\ ~strayed

\* The root is a process ID, the first birth a birth; 0 is nobody's ID.
LEMMA TreeBounds ==
    /\ Root \in Pids /\ 1 \in Births /\ 0 \notin Pids
    /\ \A b \in Births : b \in 0..MaxBirths /\ b \in Nat
    /\ \A p \in Pids : p \in 0..MaxPid
    /\ \A p \in 0..MaxPid : p # 0 => p \in Pids
    /\ 0 \in 0..MaxPid /\ 0 \in 0..MaxBirths
  BY ProcessTreeConstants DEF Root, Pids, Births

\* The fields of a process.
LEMMA ProcessHas ==
  ASSUME TreeTypeOK, NEW p \in Pids
  PROVE  /\ proc[p] \in Process
         /\ proc[p].birth \in 0..MaxBirths /\ proc[p].parent \in 0..MaxPid
         /\ proc[p].group \in 0..MaxPid /\ proc[p].owned \in BOOLEAN
         /\ proc[p].state \in {"running", "zombie", "gone"}
         /\ proc[p].parent # 0 => proc[p].parent \in Pids
         /\ Exists(p) /\ Dated => IdentityOf(p) \in Identity /\ proc[p].birth \in Births
         /\ IdentityOf(p).pid = p /\ IdentityOf(p).birth = proc[p].birth
         /\ Exists(p) => Current(IdentityOf(p))
         /\ Runs(p) => Exists(p) /\ Running(IdentityOf(p))
  <1>1. proc[p] \in Process
    BY DEF TreeTypeOK
  <1>2. Exists(p) /\ Dated => proc[p].birth \in Births
    BY ProcessTreeConstants DEF Dated, TreeTypeOK, Births
  <1>3. IdentityOf(p).pid = p /\ IdentityOf(p).birth = proc[p].birth
    BY DEF IdentityOf
  <1>4. Exists(p) => Current(IdentityOf(p))
    BY <1>3 DEF Current
  <1>5. Runs(p) => Exists(p) /\ Running(IdentityOf(p))
    BY <1>3, <1>4 DEF Running, Runs, Exists
  <1> QED
    BY <1>1, <1>2, <1>3, <1>4, <1>5, TreeBounds DEF Process, Identity, IdentityOf

\* The fields of an identity.
LEMMA IdentityHas ==
  ASSUME NEW id \in Identity
  PROVE  /\ id.pid \in Pids /\ id.birth \in Births /\ id.birth \in Nat
         /\ Current(id) => id = IdentityOf(id.pid)
  BY TreeBounds DEF Identity, Current, IdentityOf

\* Where a process starts: at a number that is free, with the next start time, which
\* nothing retained has.
LEMMA BornIs ==
  ASSUME Ours, NEW c \in Pids, NEW process, Born(c, process), process.birth = births',
         births' \in 0..MaxBirths => process \in Process
  PROVE  /\ births \in Nat /\ births' \in Births /\ births' = births + 1
         /\ births' \in 1..births' /\ 1..births \subseteq 1..births' /\ births' # 1
         /\ proc' \in [Pids -> Process] /\ proc'[c] = process
         /\ \A q \in Pids : q # c => proc'[q] = proc[q]
         /\ ~Exists(c) /\ Group(c) = {}
  <1>1. births \in Nat /\ births \in Births /\ births' = births + 1 /\ births < MaxBirths
    BY TreeBounds DEF Ours, TreeTypeOK, Born
  <1>2. births' \in Births /\ births' \in 0..MaxBirths
    BY <1>1, ProcessTreeConstants DEF Births
  <1>3. births' \in 1..births' /\ 1..births \subseteq 1..births' /\ births' # 1
    BY <1>1 DEF Births
  <1>4. proc' = [proc EXCEPT ![c] = process] /\ proc \in [Pids -> Process]
        /\ process \in Process
    BY <1>2 DEF Born, Ours, TreeTypeOK
  <1>5. /\ proc' \in [Pids -> Process] /\ proc'[c] = process
        /\ \A q \in Pids : q # c => proc'[q] = proc[q]
    BY <1>4
  <1> QED
    BY <1>1, <1>2, <1>3, <1>5 DEF Born, Free

\* What a step of the environment does with the process that has a number: it stays,
\* or there was none and one starts.
Stays(q) ==
    /\ Exists(q)
    /\ proc'[q].birth = proc[q].birth /\ proc'[q].owned = proc[q].owned
    /\ proc'[q].parent \in {0, proc[q].parent}
    /\ Runs(q)' => Runs(q)
Starts(q) == ~Exists(q) /\ proc'[q].birth = births' /\ births' = births + 1
Moves(c) == \A q \in Pids : Exists(q)' => Stays(q) \/ (q = c /\ Starts(q))

\* What a step of the environment leaves alone, and its types.
EnvironmentKeeps ==
    /\ UNCHANGED <<search, stop, strayed>>
    /\ births \in Nat /\ births' \in Births /\ births \in 1..births' /\ births' \in {births, births + 1}
    /\ proc' \in [Pids -> Process]
    /\ misread \subseteq misread' /\ misread' \subseteq misread \cup {births'}
    /\ births' = births => misread' = misread

\* So every start time is still one process's.
LEMMA EnvironmentDated ==
  ASSUME Ours, EnvironmentKeeps, NEW c \in Pids, Moves(c),
         \A id \in ledger' : id \in ledger \/ id.birth <= births'
  PROVE  Dated'
  <1>1. /\ births \in Nat /\ births' \in Nat /\ births <= births'
        /\ \A b \in misread' : b \in misread \/ b = births'
    BY DEF EnvironmentKeeps
  <1>2. ASSUME NEW p \in Pids, Exists(p)'
        PROVE  proc'[p].birth \in 1..births'
    <2>1. CASE Stays(p)
      <3>1. proc'[p].birth \in 1..births
        BY <2>1 DEF Stays, Ours, Dated
      <3> QED
        BY <1>1, <3>1
    <2>2. CASE Starts(p)
      BY <1>1, <2>2 DEF Starts
    <2> QED
      BY <1>2, <2>1, <2>2 DEF Moves
  <1>3. ASSUME NEW p \in Pids, NEW q \in Pids, Exists(p)', Exists(q)',
               proc'[p].birth = proc'[q].birth
        PROVE  p = q
    <2>1. \A r \in Pids : Stays(r) => proc'[r].birth <= births
      BY <1>1 DEF Stays, Ours, Dated
    <2>2. \A r \in Pids : Starts(r) => proc'[r].birth = births + 1
      BY DEF Starts
    <2>3. CASE Stays(p) /\ Stays(q)
      BY <1>3, <2>3 DEF Stays, Ours, Dated
    <2>4. CASE ~(Stays(p) /\ Stays(q))
      BY <1>1, <1>3, <2>1, <2>2, <2>4 DEF Moves
    <2> QED
      BY <2>3, <2>4
  <1>4. \A id \in Retained' \cup listing' : id.birth <= births'
    <2> TAKE id \in Retained' \cup listing'
    <2>1. id \in Retained \cup listing \/ id.birth <= births'
      BY DEF EnvironmentKeeps, Retained, search, stop
    <2>2. CASE id \in Retained \cup listing
      <3>1. id.birth <= births
        BY <2>2 DEF Ours, Dated
      <3>2. id.birth \in Nat
        BY <2>2, ProcessTreeConstants DEF Ours, TreeTypeOK, Retained, Identity, Births
      <3> QED
        BY <1>1, <3>1, <3>2
    <2> QED
      BY <2>1, <2>2
  <1>5. \A b \in misread' : b <= births'
    <2> TAKE b \in misread'
    <2>1. CASE b \in misread
      <3>1. b <= births /\ b \in Nat
        BY <2>1, TreeBounds DEF Ours, Dated, TreeTypeOK
      <3> QED
        BY <1>1, <3>1
    <2> QED
      BY <1>1, <2>1
  <1>6. sampled' <= births'
    <2>1. sampled' = sampled /\ sampled \in Nat /\ sampled <= births
      BY TreeBounds DEF Ours, Dated, TreeTypeOK, EnvironmentKeeps, search
    <2> QED
      BY <1>1, <2>1
  <1> QED
    BY <1>2, <1>3, <1>4, <1>5, <1>6 DEF Dated

\* And what is retained is as it was.
LEMMA EnvironmentAdopted ==
  ASSUME Ours, EnvironmentKeeps, NEW c \in Pids, Moves(c),
         \A id \in ledger' : id \in ledger \/ (Current(id)' /\ ~proc'[id.pid].owned => id.birth \in misread'),
         Exists(c)' /\ Starts(c) /\ births' \in misread' => ~proc'[c].owned,
         births' = births \/ Starts(c)
  PROVE  Adopted'
  <1>1. \A b \in misread' : b \in misread \/ b = births'
    BY DEF EnvironmentKeeps
  <1>2. ASSUME NEW id \in Retained' \cup listing', Current(id)', ~proc'[id.pid].owned
        PROVE  id.birth \in misread'
    <2>1. CASE id \in Retained \cup listing
      <3>1. id.pid \in Pids /\ id.birth <= births /\ id.birth \in Nat
        BY <2>1, ProcessTreeConstants
           DEF Ours, Dated, TreeTypeOK, Retained, Identity, Births
      <3>2. ~Starts(id.pid)
        BY <1>2, <3>1 DEF Starts, Current, EnvironmentKeeps
      <3>3. Stays(id.pid)
        BY <1>2, <3>1, <3>2 DEF Moves, Current
      <3>4. Current(id) /\ ~proc[id.pid].owned
        BY <1>2, <3>3 DEF Stays, Current
      <3> QED
        BY <2>1, <3>4 DEF Ours, Adopted, EnvironmentKeeps
    <2>2. CASE id \notin Retained \cup listing
      <3>1. id \in ledger' /\ id \notin ledger
        BY <2>2 DEF EnvironmentKeeps, Retained, search, stop
      <3> QED
        BY <1>2, <3>1
    <2> QED
      BY <2>1, <2>2
  <1>3. ASSUME NEW p \in Pids, Exists(p)', proc'[p].birth \in misread'
        PROVE  ~proc'[p].owned
    <2>1. CASE Starts(p) /\ p = c
      BY <1>3, <2>1 DEF Starts
    <2>2. CASE Stays(p)
      <3>1. proc[p].birth \in misread' /\ proc[p].birth \in 1..births
        BY <1>3, <2>2 DEF Stays, Ours, Dated
      <3>2. proc[p].birth \in misread
        <4>1. CASE proc[p].birth = births'
          <5>1. births' = births
            BY <3>1, <4>1 DEF Starts, EnvironmentKeeps
          <5> QED
            BY <3>1, <5>1 DEF EnvironmentKeeps
        <4> QED
          BY <1>1, <3>1, <4>1
      <3> QED
        BY <2>2, <3>2 DEF Stays, Ours, Adopted
    <2> QED
      BY <1>3, <2>1, <2>2 DEF Moves
  <1> QED
    BY <1>2, <1>3 DEF Adopted

\* A step of the environment that starts no process.
LEMMA QuietOurs ==
  ASSUME Ours, EnvironmentKeeps, UNCHANGED <<births, misread>>,
         \A q \in Pids : Exists(q)' => Stays(q),
         ledger' \subseteq Identity, escaped' \subseteq Births,
         \A id \in ledger' : id \in ledger \/ (id.birth <= births /\ (Current(id)' => proc'[id.pid].owned)),
         Kin', Apart'
  PROVE  Ours'
  <1>1. Moves(Root)
    BY DEF Moves
  <1>2. \A id \in ledger' : id \in ledger \/ id.birth <= births'
    OBVIOUS
  <1>3. Root \in Pids /\ ~(Exists(Root)' /\ Starts(Root))
    BY TreeBounds DEF Starts, EnvironmentKeeps
  <1>4. Dated'
    BY <1>1, <1>2, <1>3, EnvironmentDated
  <1>5. Adopted'
    BY <1>1, <1>3, EnvironmentAdopted
  <1>6. TreeTypeOK'
    BY DEF Ours, TreeTypeOK, EnvironmentKeeps, search, stop
  <1> QED
    BY <1>4, <1>5, <1>6 DEF Ours, EnvironmentKeeps

\* An exit or a reaping starts nothing, and a process keeps whose it is.
LEMMA ProcessEndIs ==
  ASSUME Ours, NEW p \in Pids, Exits(p) \/ Reaped(p)
  PROVE  /\ EnvironmentKeeps /\ UNCHANGED <<births, ledger, misread>>
         /\ \A q \in Pids : Exists(q)' => Stays(q) /\ proc'[q].group = proc[q].group
         /\ \A q \in Pids : Runs(q)' <=> Runs(q) /\ q # p
         /\ \A q \in Pids : proc'[q].birth = proc[q].birth
         /\ Exits(p) => \A q \in Pids : proc'[q].parent = IF q # p /\ proc[q].parent = p
                                                         THEN 0 ELSE proc[q].parent
         /\ Reaped(p) => ~Runs(p) /\ \A q \in Pids : proc'[q].parent = proc[q].parent
  <1>1. /\ \A q \in Pids : proc[q] \in Process
        /\ births \in Nat /\ births \in Births /\ births \in 1..births
    BY TreeBounds DEF Ours, TreeTypeOK, Births
  <1>2. CASE Exits(p)
    <2>1. /\ proc' = [q \in Pids |->
                  IF q = p THEN [proc[q] EXCEPT !.state = "zombie"]
                  ELSE IF proc[q].parent = p THEN [proc[q] EXCEPT !.parent = 0] ELSE proc[q]]
          /\ UNCHANGED <<births, ledger, search, stop, misread, strayed>> /\ Runs(p)
      BY <1>2 DEF Exits
    <2>2. \A q \in Pids : proc'[q] \in Process
      BY <1>1, <2>1, TreeBounds DEF Process
    <2>3. proc' \in [Pids -> Process]
      BY <2>1, <2>2
    <2>4. ASSUME NEW q \in Pids
          PROVE  /\ proc'[q].birth = proc[q].birth /\ proc'[q].group = proc[q].group
                 /\ proc'[q].owned = proc[q].owned
                 /\ proc'[q].parent = IF q # p /\ proc[q].parent = p THEN 0 ELSE proc[q].parent
                 /\ proc'[q].state = IF q = p THEN "zombie" ELSE proc[q].state
      BY <1>1, <2>1 DEF Process
    <2>5. ~Reaped(p)
      BY <2>1 DEF Reaped, Runs
    <2> QED
      BY <1>1, <2>1, <2>3, <2>4, <2>5, <1>2 DEF EnvironmentKeeps, Stays, Runs, Exists
  <1>3. CASE Reaped(p)
    <2>1. /\ proc' = [proc EXCEPT ![p].state = "gone", ![p].group = 0]
          /\ proc[p].state = "zombie"
          /\ UNCHANGED <<births, ledger, search, stop, ghosts>>
      BY <1>3 DEF Reaped
    <2>2. proc \in [Pids -> Process]
      BY DEF Ours, TreeTypeOK
    <2>3. proc' \in [Pids -> Process]
      <3>1. [proc[p] EXCEPT !.state = "gone", !.group = 0] \in Process
        <4>1. PICK gone \in Process : gone = [proc[p] EXCEPT !.state = "gone"]
          BY <1>1 DEF Process
        <4>2. [gone EXCEPT !.group = 0] \in Process
          BY TreeBounds DEF Process
        <4> QED
          BY <1>1, <4>1, <4>2 DEF Process
      <3>2. proc' = [proc EXCEPT ![p] = [proc[p] EXCEPT !.state = "gone", !.group = 0]]
        BY <2>1, <2>2
      <3> QED
        BY <2>2, <3>1, <3>2
    <2>4. ASSUME NEW q \in Pids
          PROVE  /\ proc'[q].birth = proc[q].birth
                 /\ q # p => proc'[q] = proc[q]
                 /\ proc'[q].owned = proc[q].owned
                 /\ proc'[q].parent = proc[q].parent
                 /\ q = p => proc'[q].state = "gone"
      BY <1>1, <2>1, <2>2 DEF Process
    <2>5. ~Exits(p)
      BY <2>1 DEF Exits, Runs
    <2>6. Exists(p) /\ ~Runs(p)
      BY <2>1 DEF Exists, Runs
    <2> QED
      BY <1>1, <2>1, <2>3, <2>4, <2>5, <2>6, <1>3 DEF EnvironmentKeeps, Stays, Runs, Exists, ghosts
  <1> QED
    BY <1>2, <1>3

\* So an exit or a reaping takes no one's parent from the table unnoticed.
LEMMA EndOurs ==
  ASSUME Ours, NEW p \in Pids, Exits(p) \/ Reaped(p)
  PROVE  Ours'
  <1>1. /\ EnvironmentKeeps /\ UNCHANGED <<births, ledger, misread>>
        /\ \A q \in Pids : Exists(q)' => Stays(q) /\ proc'[q].group = proc[q].group
        /\ \A q \in Pids : Runs(q)' <=> Runs(q) /\ q # p
        /\ \A q \in Pids : proc'[q].birth = proc[q].birth
    BY ProcessEndIs
  <1>2. ledger' \subseteq Identity
    BY <1>1 DEF Ours, TreeTypeOK
  <1>3. Kin'
    <2> SUFFICES ASSUME NEW c \in Pids, Exists(c)', proc'[c].parent # 0
                 PROVE  /\ proc'[c].parent # c /\ Runs(proc[c].parent)'
                        /\ proc'[c].parent = proc[c].parent
                        /\ proc'[proc[c].parent].owned = proc'[c].owned
      BY DEF Kin, Runs, Exists
    <2>1. Exists(c) /\ proc'[c].parent = proc[c].parent /\ proc[c].parent # 0
          /\ proc'[c].owned = proc[c].owned
      BY <1>1 DEF Stays
    <2>2. Runs(proc[c].parent) /\ proc[proc[c].parent].owned = proc[c].owned
          /\ proc[c].parent \in Pids /\ proc[c].parent # c
      BY <2>1, ProcessHas DEF Ours, Kin
    <2>3. proc[c].parent # p
      <3>1. CASE Exits(p)
        BY <2>1, <2>2, <3>1, ProcessEndIs
      <3>2. CASE Reaped(p)
        BY <2>2, <3>2, ProcessEndIs
      <3> QED
        BY <3>1, <3>2
    <2>4. Runs(proc[c].parent)'
      BY <1>1, <2>1, <2>2, <2>3
    <2>5. Exists(proc[c].parent)'
      BY <2>4, <2>1 DEF Runs, Exists
    <2>6. Stays(proc[c].parent)
      BY <1>1, <2>1, <2>2, <2>5
    <2> QED
      BY <2>1, <2>2, <2>4, <2>6 DEF Stays
  <1>4. Apart'
    BY <1>1, TreeBounds DEF Stays, Ours, Apart
  <1>5. escaped' \subseteq Births
    <2>1. \A q \in Living : proc[q].birth \in Births
      BY ProcessHas DEF Living, Ours
    <2> QED
      BY <2>1 DEF Exits, Reaped, ghosts, Ours, TreeTypeOK
  <1> QED
    BY <1>1, <1>2, <1>3, <1>4, <1>5, QuietOurs

\* A change of group changes nothing else.
LEMMA RegroupIs ==
  ASSUME Ours, NEW p \in Pids, NEW g \in Pids, ChangesGroup(p, g)
  PROVE  /\ EnvironmentKeeps /\ UNCHANGED <<births, ledger, ghosts>>
         /\ \A q \in Pids : Exists(q)' => Stays(q)
         /\ \A q \in Pids : /\ q # p => proc'[q] = proc[q]
                            /\ proc'[q] = [proc[q] EXCEPT !.group = proc'[q].group]
                            /\ Runs(q)' <=> Runs(q)
         /\ proc'[p].group = g
         /\ proc[p].owned /\ p # Root
         /\ g = p \/ \E q \in Living : proc[q].group = g
  <1>1. /\ proc' = [proc EXCEPT ![p].group = g]
        /\ UNCHANGED <<births, ledger, search, stop, ghosts>>
        /\ p \in Living \ {Root}
        /\ g = p \/ \E q \in Living : proc[q].group = g
    BY DEF ChangesGroup
  <1>2. /\ proc \in [Pids -> Process] /\ proc[p] \in Process /\ g \in 0..MaxPid
        /\ births \in Nat /\ births \in Births /\ births \in 1..births
    BY TreeBounds DEF Ours, TreeTypeOK, Births
  <1>3. [proc[p] EXCEPT !.group = g] \in Process
    BY <1>2 DEF Process
  <1>4. proc' = [proc EXCEPT ![p] = [proc[p] EXCEPT !.group = g]]
    BY <1>1
  <1>5. proc' \in [Pids -> Process]
    BY <1>2, <1>3, <1>4
  <1>6. \A q \in Pids : /\ q # p => proc'[q] = proc[q]
                        /\ q = p => proc'[q] = [proc[q] EXCEPT !.group = g]
    BY <1>2, <1>4
  <1>7. ASSUME NEW q \in Pids
        PROVE  /\ proc'[q] = [proc[q] EXCEPT !.group = proc'[q].group]
               /\ q = p => proc'[q].group = g
               /\ Runs(q)' <=> Runs(q)
               /\ Exists(q)' => Stays(q)
    <2>1. proc[q] \in Process
      BY <1>2
    <2> QED
      BY <1>6, <2>1 DEF Process, Runs, Exists, Stays
  <1> QED
    BY <1>1, <1>2, <1>5, <1>6, <1>7 DEF EnvironmentKeeps, Living, ghosts

\* So it makes no stranger the daemon's.
LEMMA GroupOurs ==
  ASSUME Ours, NEW p \in Pids, NEW g \in Pids, ChangesGroup(p, g)
  PROVE  Ours'
  <1>1. /\ EnvironmentKeeps /\ UNCHANGED <<births, ledger, ghosts>>
        /\ \A q \in Pids : Exists(q)' => Stays(q)
        /\ \A q \in Pids : q # p => proc'[q] = proc[q]
        /\ \A q \in Pids : Runs(q)' <=> Runs(q)
        /\ proc[p].owned
    BY RegroupIs
  <1>2. ASSUME NEW q \in Pids
        PROVE  /\ proc'[q].birth = proc[q].birth /\ proc'[q].owned = proc[q].owned
               /\ proc'[q].parent = proc[q].parent
    <2>1. proc'[q] = [proc[q] EXCEPT !.group = proc'[q].group] /\ proc[q] \in Process
      BY RegroupIs, ProcessHas DEF Ours
    <2> QED
      BY <2>1 DEF Process
  <1>3. Kin'
    <2> SUFFICES ASSUME NEW c \in Pids, Exists(c)', proc[c].parent # 0
                 PROVE  /\ proc[c].parent # c /\ proc'[proc[c].parent].state = "running"
                        /\ proc'[proc[c].parent].owned = proc'[c].owned
      BY <1>2 DEF Kin, Runs
    <2>1. /\ proc[c].parent # c /\ Runs(proc[c].parent) /\ proc[c].parent \in Pids
          /\ proc[proc[c].parent].owned = proc[c].owned
      BY <1>1, ProcessHas DEF Stays, Ours, Kin
    <2> QED
      BY <1>1, <1>2, <2>1 DEF Runs
  <1>4. Apart'
    BY <1>1, <1>2, TreeBounds DEF Stays, Ours, Apart
  <1> QED
    BY <1>1, <1>3, <1>4, QuietOurs DEF ghosts, Ours, TreeTypeOK

\* A record is of a child of the daemon's, and so of one that is the daemon's.
LEMMA RecordsOurs ==
  ASSUME Ours, NEW c \in Pids, Records(c)
  PROVE  Ours'
  <1>1. /\ Current(RootIdentity) /\ Exists(c) /\ proc[c].parent = Root
        /\ ledger' = ledger \cup {IdentityOf(c)}
        /\ UNCHANGED <<proc, births, search, stop, ghosts>>
    BY DEF Records
  <1>2. EnvironmentKeeps
    BY <1>1, TreeBounds DEF Ours, TreeTypeOK, EnvironmentKeeps, Births, ghosts
  <1>3. \A q \in Pids : Exists(q)' => Stays(q)
    BY <1>1 DEF Exists, Stays, Runs
  <1>4. proc[Root].birth = 1 /\ Exists(Root)
    BY <1>1 DEF Current, RootIdentity
  <1>5. proc[Root].owned
    BY <1>4, TreeBounds DEF Ours, Apart
  <1>6. proc[c].owned
    BY <1>1, <1>5, TreeBounds, ProcessHas DEF Ours, Kin
  <1>7. /\ IdentityOf(c) \in Identity /\ IdentityOf(c).birth <= births
        /\ IdentityOf(c).pid = c
    <2>1. proc[c].birth \in 1..births /\ births \in Nat
      BY <1>1, TreeBounds DEF Ours, Dated, TreeTypeOK
    <2> QED
      BY <1>1, <2>1, ProcessHas DEF Ours
  <1>8. Kin' /\ Apart'
    BY <1>1 DEF Ours, Kin, Apart, Exists, Runs
  <1>9. ledger' \subseteq Identity /\ escaped' \subseteq Births
    BY <1>1, <1>7 DEF Ours, TreeTypeOK, ghosts
  <1>10. \A id \in ledger' : id \in ledger \/ (id.birth <= births /\ proc'[id.pid].owned)
    BY <1>1, <1>6, <1>7
  <1> QED
    BY <1>1, <1>2, <1>3, <1>8, <1>9, <1>10, QuietOurs DEF ghosts

\* A process that starts, of the daemon or not.
LEMMA BirthOurs ==
  ASSUME Ours, NEW c \in Pids, NEW process, Born(c, process), process.birth = births',
         births' \in 0..MaxBirths => process \in Process,
         process.parent # 0 => /\ process.parent \in Pids /\ Runs(process.parent)
                               /\ proc[process.parent].owned = process.owned,
         ~process.owned /\ proc[Root].birth = 1 => process.group # Root \/ c = Root,
         UNCHANGED <<search, stop, escaped, strayed>>,
         \/ UNCHANGED <<ledger, misread>>
         \/ /\ ledger' = ledger \cup {[pid |-> c, birth |-> births']}
            /\ misread' = misread \cup {births'} /\ ~process.owned
  PROVE  Ours'
  <1>1. /\ births \in Nat /\ births' \in Births /\ births' = births + 1
        /\ births' \in 1..births' /\ 1..births \subseteq 1..births' /\ births' # 1
        /\ proc' \in [Pids -> Process] /\ proc'[c] = process
        /\ \A q \in Pids : q # c => proc'[q] = proc[q]
        /\ ~Exists(c) /\ Group(c) = {}
    BY BornIs
  <1>2. EnvironmentKeeps
    <2>1. births \in 1..births'
      BY <1>1, TreeBounds DEF Ours, TreeTypeOK, Births
    <2> QED
      BY <1>1, <2>1 DEF EnvironmentKeeps
  <1>3. Starts(c)
    BY <1>1 DEF Starts
  <1>4. Moves(c)
    BY <1>1, <1>3 DEF Moves, Stays, Exists, Runs
  <1>5. \A id \in ledger' : id \in ledger \/ (id = [pid |-> c, birth |-> births']
                                             /\ births' \in misread')
    OBVIOUS
  <1>6. Dated'
    <2>1. \A id \in ledger' : id \in ledger \/ id.birth <= births'
      BY <1>1, <1>5
    <2> QED
      BY <1>2, <1>4, <2>1, EnvironmentDated
  <1>8. births' \in misread' => ~proc'[c].owned
    <2>1. births' \notin misread
      BY <1>1, TreeBounds DEF Ours, Dated
    <2> QED
      BY <1>1, <2>1
  <1>9. Adopted'
    <2>1. \A id \in ledger' : id \in ledger \/ id.birth \in misread'
      BY <1>5
    <2> QED
      BY <1>2, <1>3, <1>4, <1>8, <2>1, EnvironmentAdopted
  <1>10. Kin'
    <2> SUFFICES ASSUME NEW d \in Pids, proc'[d].state # "gone", proc'[d].parent # 0
                 PROVE  /\ proc'[d].parent # d /\ proc'[proc'[d].parent].state = "running"
                        /\ proc'[proc'[d].parent].owned = proc'[d].owned
      BY DEF Kin, Exists, Runs
    <2>1. CASE d = c
      <3>1. Exists(process.parent) /\ process.parent \in Pids /\ process.parent # c
        BY <1>1, <2>1 DEF Runs, Exists
      <3> QED
        BY <1>1, <2>1, <3>1 DEF Runs
    <2>2. CASE d # c
      <3>1. proc'[d] = proc[d] /\ Exists(d) /\ proc[d].parent # 0 /\ proc[d].parent \in Pids
        BY <1>1, <2>2, ProcessHas DEF Exists, Ours
      <3>2. /\ proc[d].parent # d /\ Runs(proc[d].parent)
            /\ proc[proc[d].parent].owned = proc[d].owned
        BY <3>1 DEF Ours, Kin
      <3>3. proc[d].parent # c
        BY <1>1, <3>2 DEF Runs, Exists
      <3> QED
        BY <1>1, <3>1, <3>2, <3>3 DEF Runs
    <2> QED
      BY <2>1, <2>2
  <1>11. Apart'
    <2> SUFFICES ASSUME proc'[Root].birth = 1, NEW p \in Pids, Exists(p)', ~proc'[p].owned
                 PROVE  p # Root /\ proc'[p].group # Root
      BY DEF Apart
    <2>1. c # Root /\ proc[Root].birth = 1
      BY <1>1, TreeBounds
    <2> QED
      BY <1>1, <2>1 DEF Ours, Apart, Exists
  <1>12. TreeTypeOK'
    <2>1. [pid |-> c, birth |-> births'] \in Identity
      BY <1>1 DEF Identity
    <2>2. ledger' \subseteq Identity /\ misread' \subseteq Births
      BY <1>1, <2>1 DEF Ours, TreeTypeOK
    <2> QED
      BY <1>1, <2>2 DEF Ours, TreeTypeOK, search, stop
  <1> QED
    BY <1>6, <1>9, <1>10, <1>11, <1>12 DEF Ours

\* What a fork starts.
LEMMA ForkIs ==
  ASSUME Ours, NEW p \in Pids
  PROVE  LET process == [proc[p] EXCEPT !.birth = births', !.parent = p]
         IN  /\ process.birth = births' /\ process.parent = p /\ process.owned = proc[p].owned
             /\ process.group = proc[p].group
             /\ births' \in 0..MaxBirths => process \in Process
  <1> DEFINE process == [proc[p] EXCEPT !.birth = births', !.parent = p]
  <1>1. proc[p] \in Process /\ p \in 0..MaxPid
    BY TreeBounds, ProcessHas DEF Ours
  <1>2. /\ process.birth = births' /\ process.parent = p /\ process.owned = proc[p].owned
        /\ process.group = proc[p].group
    BY <1>1 DEF Process
  <1>3. ASSUME births' \in 0..MaxBirths
        PROVE  process \in Process
    <2>1. PICK born \in Process : born = [proc[p] EXCEPT !.birth = births']
      BY <1>1, <1>3 DEF Process
    <2>2. [born EXCEPT !.parent = p] \in Process
      BY <1>1 DEF Process
    <2> QED
      BY <1>1, <2>1, <2>2 DEF Process
  <1> QED
    BY <1>2, <1>3

\* It is the daemon's if its parent is.
LEMMA ForkOurs ==
  ASSUME Ours, NEW p \in Pids, NEW c \in Pids, Fork(p, c)
  PROVE  Ours'
  <1> DEFINE process == [proc[p] EXCEPT !.birth = births', !.parent = p]
  <1>1. /\ Runs(p) /\ Born(c, process)
        /\ UNCHANGED <<ledger, search, stop, ghosts>>
    BY DEF Fork
  <1>2. /\ process.birth = births' /\ process.parent = p /\ process.owned = proc[p].owned
        /\ process.group = proc[p].group
        /\ births' \in 0..MaxBirths => process \in Process
    BY ForkIs
  <1>3. ~proc[p].owned /\ proc[Root].birth = 1 => proc[p].group # Root
    BY <1>1 DEF Ours, Apart, Runs, Exists
  <1> HIDE DEF process
  <1> QED
    BY <1>1, <1>2, <1>3, BirthOurs DEF ghosts

\* A stranger's start time is no retained identity's, or it was misread.
LEMMA StrangerOurs ==
  ASSUME Ours, NEW c \in Pids, Stranger(c)
  PROVE  Ours'
  <1> DEFINE process == [birth |-> births', parent |-> 0, group |-> c,
                         state |-> "running", owned |-> FALSE]
  <1>1. /\ Born(c, process) /\ UNCHANGED <<search, stop, escaped, strayed>>
        /\ \/ UNCHANGED <<ledger, misread>>
           \/ /\ ledger' = ledger \cup {[pid |-> c, birth |-> births']}
              /\ misread' = misread \cup {births'}
    BY DEF Stranger
  <1>2. /\ process.birth = births' /\ process.parent = 0 /\ ~process.owned
        /\ process.group # Root \/ c = Root
    OBVIOUS
  <1>3. births' \in 0..MaxBirths => process \in Process
    BY TreeBounds DEF Process
  <1> HIDE DEF process
  <1> QED
    BY <1>1, <1>2, <1>3, BirthOurs

\* A step of the code: what it newly retains or lists is a process there is, which is
\* the daemon's or was misread; and what it misreads is a stranger.
LEMMA CodeOurs ==
  ASSUME Ours, UNCHANGED world, TreeTypeOK', ~strayed', sampled' \in {sampled, births},
         \A id \in Retained' \cup listing' :
            \/ id \in Retained \cup listing
            \/ /\ id.birth <= births
               /\ Current(id) /\ ~proc[id.pid].owned => id.birth \in misread',
         misread \subseteq misread',
         \A b \in misread' : \/ b \in misread
                             \/ \E p \in Pids : Exists(p) /\ ~proc[p].owned /\ proc[p].birth = b
  PROVE  Ours'
  <1>1. proc' = proc /\ births' = births /\ births \in Nat
    BY TreeBounds DEF world, Ours, TreeTypeOK
  <1>2. Dated'
    <2>1. \A id \in Retained' \cup listing' : id.birth <= births
      BY DEF Ours, Dated
    <2>2. \A b \in misread' : b <= births
      <3> TAKE b \in misread'
      <3>1. CASE b \in misread
        BY <3>1 DEF Ours, Dated
      <3>2. CASE b \notin misread
        <4>1. PICK p \in Pids : Exists(p) /\ proc[p].birth = b
          BY <3>2
        <4> QED
          BY <1>1, <4>1 DEF Ours, Dated
      <3> QED
        BY <3>1, <3>2
    <2>3. sampled' <= births
      BY <1>1 DEF Ours, Dated
    <2> QED
      BY <1>1, <2>1, <2>2, <2>3 DEF Ours, Dated, Exists
  <1>3. Adopted'
    <2>1. ASSUME NEW id \in Retained' \cup listing', Current(id), ~proc[id.pid].owned
          PROVE  id.birth \in misread'
      BY <2>1 DEF Ours, Adopted
    <2>2. ASSUME NEW p \in Pids, Exists(p), proc[p].birth \in misread'
          PROVE  ~proc[p].owned
      <3>1. CASE proc[p].birth \in misread
        BY <2>2, <3>1 DEF Ours, Adopted
      <3>2. CASE proc[p].birth \notin misread
        BY <2>2, <3>2 DEF Ours, Dated
      <3> QED
        BY <3>1, <3>2
    <2> QED
      BY <1>1, <2>1, <2>2 DEF Adopted, Current, Exists
  <1>4. Kin' /\ Apart'
    BY <1>1 DEF Ours, Kin, Apart, Exists, Runs
  <1> QED
    BY <1>2, <1>3, <1>4 DEF Ours

\* Sampling.
LEMMA ReadLedgerOurs ==
  ASSUME Ours, ReadLedger
  PROVE  Ours'
  <1>1. /\ at' = "walk" /\ stage' = stage
        /\ known' = known \cup FromLedger /\ seen' = {} /\ listing' = {} /\ sampled' = births
        /\ escaped' \subseteq escaped
        /\ UNCHANGED <<world, aim, root, groupOwned, signalled, todo, misread, strayed>>
    BY DEF ReadLedger, Goes
  <1>2. FromLedger \subseteq ledger
    BY DEF FromLedger
  <1>3. TreeTypeOK'
    BY <1>1, <1>2 DEF Ours, TreeTypeOK, world
  <1>4. Retained' \cup listing' \subseteq Retained \cup listing
    BY <1>1, <1>2 DEF Retained, world
  <1> QED
    BY <1>1, <1>3, <1>4, CodeOurs DEF Ours

\* What is looked at is retained.
LEMMA LooksOurs ==
  ASSUME Ours, NEW id \in known, Looks(id)
  PROVE  Ours'
  <1>1. /\ at' \in {at, "list"} /\ stage' = stage /\ aim' \in {aim, {id}}
        /\ seen' = seen \cup {id}
        /\ UNCHANGED <<world, known, listing, sampled, root, groupOwned, signalled, todo, ghosts>>
    BY DEF Looks, Goes
  <1>2. TreeTypeOK'
    BY <1>1 DEF Ours, TreeTypeOK, world, ghosts
  <1>3. Retained' \cup listing' \subseteq Retained \cup listing
    BY <1>1 DEF Retained, world
  <1> QED
    BY <1>1, <1>2, <1>3, CodeOurs DEF Ours, ghosts

\* What is listed is a process with its own start time, or 0; in the first case a
\* child of a process that was not misread.
LEMMA ListsIs ==
  ASSUME Ours, Lists
  PROVE  /\ at = "list" /\ at' = "walk" /\ stage' = stage /\ aim' = {}
         /\ UNCHANGED <<world, known, seen, sampled, root, groupOwned, signalled, todo, ghosts>>
         /\ \E id \in aim :
              /\ \A entry \in listing' :
                   \E c \in Pids :
                     /\ Exists(c) /\ proc[c].parent = id.pid
                     /\ entry.pid = c /\ entry = [pid |-> c, birth |-> entry.birth]
                     /\ \/ entry.birth = 0
                        \/ /\ entry.birth = proc[c].birth
                           /\ Current(id) /\ id.birth \notin misread
              /\ \A c \in Pids : /\ Exists(c) /\ proc[c].parent = id.pid
                                 /\ Current(id) /\ id.birth \notin misread
                                 => IdentityOf(c) \in listing'
  <1>1. PICK id \in aim :
         listing' = {[IdentityOf(c) EXCEPT !.birth =
                        IF Current(id) /\ id.birth \notin misread THEN @ ELSE 0] :
                      c \in Children(id.pid)}
    BY DEF Lists
  <1>2. ASSUME NEW c
        PROVE  [IdentityOf(c) EXCEPT !.birth =
                  IF Current(id) /\ id.birth \notin misread THEN @ ELSE 0]
               = [pid |-> c, birth |-> IF Current(id) /\ id.birth \notin misread
                                       THEN proc[c].birth ELSE 0]
    BY DEF IdentityOf
  <1>3. ASSUME NEW entry \in listing'
        PROVE  \E c \in Pids :
                 /\ Exists(c) /\ proc[c].parent = id.pid
                 /\ entry.pid = c /\ entry = [pid |-> c, birth |-> entry.birth]
                 /\ \/ entry.birth = 0
                    \/ /\ entry.birth = proc[c].birth
                       /\ Current(id) /\ id.birth \notin misread
    <2>1. PICK c \in Children(id.pid) :
            entry = [pid |-> c, birth |-> IF Current(id) /\ id.birth \notin misread
                                          THEN proc[c].birth ELSE 0]
      BY <1>1, <1>2
    <2>2. c \in Pids /\ Exists(c) /\ proc[c].parent = id.pid
      BY DEF Children
    <2> QED
      BY <2>1, <2>2
  <1>4. ASSUME NEW c \in Pids, Exists(c), proc[c].parent = id.pid,
               Current(id), id.birth \notin misread
        PROVE  IdentityOf(c) \in listing'
    <2>1. c \in Children(id.pid)
      BY <1>4 DEF Children
    <2>2. IdentityOf(c) = [IdentityOf(c) EXCEPT !.birth =
                             IF Current(id) /\ id.birth \notin misread THEN @ ELSE 0]
      BY <1>2, <1>4 DEF IdentityOf
    <2> QED
      BY <1>1, <2>1, <2>2
  <1> QED
    BY <1>3, <1>4 DEF Lists, Goes

\* A child of a stranger is listed under no start time of its own.
LEMMA ListsOurs ==
  ASSUME Ours, Lists
  PROVE  Ours'
  <1>1. /\ at' = "walk" /\ stage' = stage /\ aim' = {}
        /\ UNCHANGED <<world, known, seen, sampled, root, groupOwned, signalled, todo, ghosts>>
    BY ListsIs
  <1>2. PICK id \in aim :
          \A entry \in listing' :
            \E c \in Pids :
              /\ Exists(c) /\ proc[c].parent = id.pid
              /\ entry.pid = c /\ entry = [pid |-> c, birth |-> entry.birth]
              /\ \/ entry.birth = 0
                 \/ /\ entry.birth = proc[c].birth
                    /\ Current(id) /\ id.birth \notin misread
    BY ListsIs
  <1>3. id.pid \in Pids
    BY IdentityHas DEF Ours, TreeTypeOK
  <1>4. ASSUME NEW entry \in listing'
        PROVE  /\ entry \in [pid : Pids, birth : 0..MaxBirths] /\ entry.birth <= births
               /\ ~(Current(entry) /\ ~proc[entry.pid].owned)
    <2>1. PICK c \in Pids :
            /\ Exists(c) /\ proc[c].parent = id.pid
            /\ entry.pid = c /\ entry = [pid |-> c, birth |-> entry.birth]
            /\ \/ entry.birth = 0
               \/ /\ entry.birth = proc[c].birth
                  /\ Current(id) /\ id.birth \notin misread
      BY <1>2
    <2>2. proc[c].birth \in 0..MaxBirths /\ proc[c].birth \in 1..births /\ births \in Nat
      BY <2>1, ProcessHas, TreeBounds DEF Ours, Dated, TreeTypeOK
    <2>3. entry.birth \in 0..MaxBirths /\ entry.birth <= births
      BY <2>1, <2>2, TreeBounds
    <2>4. ASSUME Current(entry), ~proc[entry.pid].owned
          PROVE  FALSE
      <3>1. entry.birth = proc[c].birth /\ ~proc[c].owned
        BY <2>1, <2>4 DEF Current
      <3>2. Current(id) /\ id.birth \notin misread
        BY <2>1, <2>2, <3>1
      <3>3. proc[id.pid].owned = proc[c].owned
        BY <1>3, <2>1, TreeBounds DEF Ours, Kin
      <3> QED
        BY <3>1, <3>2, <3>3 DEF Ours, Adopted, Retained
    <2> QED
      BY <2>1, <2>3, <2>4
  <1>5. TreeTypeOK'
    BY <1>1, <1>4 DEF Ours, TreeTypeOK, world, ghosts
  <1>6. \A any \in Retained' : any \in Retained
    BY <1>1 DEF Retained, world
  <1> QED
    BY <1>1, <1>4, <1>5, <1>6, CodeOurs DEF Ours, ghosts

\* Reading a number retains whoever has it.
LEMMA ReadsIs ==
  ASSUME Ours, NEW entry \in listing, Reads(entry)
  PROVE  /\ at = "walk" /\ listing' = listing \ {entry} /\ entry.pid \in Pids
         /\ UNCHANGED <<world, seen, sampled, stop, strayed>>
         /\ known' = known \cup {id \in {IdentityOf(entry.pid)} : Exists(entry.pid)}
         /\ escaped' = escaped \ {b \in {proc[entry.pid].birth} : Exists(entry.pid)}
         /\ misread' = misread \cup {b \in {proc[entry.pid].birth} :
                                       /\ Exists(entry.pid) /\ ~proc[entry.pid].owned
                                       /\ b # entry.birth}
  <1>1. entry.pid \in Pids
    BY DEF Ours, TreeTypeOK
  <1>2. CASE Exists(entry.pid)
    BY <1>1, <1>2 DEF Reads, IdentityOf
  <1>3. CASE ~Exists(entry.pid)
    BY <1>1, <1>3 DEF Reads, IdentityOf
  <1> QED
    BY <1>2, <1>3

\* A stranger that is read was listed under another start time: it is misread.
LEMMA ReadsOurs ==
  ASSUME Ours, NEW entry \in listing, Reads(entry)
  PROVE  Ours'
  <1> DEFINE p == entry.pid
  <1>1. /\ listing' = listing \ {entry} /\ p \in Pids
        /\ UNCHANGED <<world, seen, sampled, stop, strayed>>
        /\ known' = known \cup {id \in {IdentityOf(p)} : Exists(p)}
        /\ escaped' \subseteq escaped
        /\ misread' = misread \cup {b \in {proc[p].birth} :
                                      Exists(p) /\ ~proc[p].owned /\ b # entry.birth}
    BY ReadsIs
  <1>2. Exists(p) => /\ IdentityOf(p) \in Identity /\ proc[p].birth \in Births
                     /\ proc[p].birth \in 1..births /\ births \in Nat
                     /\ IdentityOf(p).pid = p /\ IdentityOf(p).birth = proc[p].birth
    BY <1>1, ProcessHas, TreeBounds DEF Ours, Dated, TreeTypeOK
  <1>3. TreeTypeOK'
    BY <1>1, <1>2 DEF Ours, TreeTypeOK, world, stop
  <1>4. ASSUME Exists(p), ~proc[p].owned
        PROVE  proc[p].birth \in misread'
    <2>1. CASE proc[p].birth # entry.birth
      BY <1>1, <1>4, <2>1
    <2>2. CASE proc[p].birth = entry.birth
      BY <1>1, <1>4, <2>2 DEF Ours, Adopted, Current
    <2> QED
      BY <2>1, <2>2
  <1>5. \A id \in Retained' \cup listing' :
          id \in Retained \cup listing \/ (id = IdentityOf(p) /\ Exists(p))
    BY <1>1 DEF Retained, world, stop
  <1>6. \A id \in Retained' \cup listing' :
            \/ id \in Retained \cup listing
            \/ /\ id.birth <= births
               /\ Current(id) /\ ~proc[id.pid].owned => id.birth \in misread'
    BY <1>2, <1>4, <1>5
  <1> QED
    BY <1>1, <1>3, <1>6, CodeOurs DEF Ours

\* The end of a sample drops identities.
LEMMA KeepsOurs ==
  ASSUME Ours, Captured \/ Begins \/ PassSignals
  PROVE  Ours'
  <1>1. /\ known' = Kept /\ seen' = {}
        /\ UNCHANGED <<world, listing, sampled, aim, escaped, strayed, misread>>
    BY DEF Captured, Begins, PassSignals, Keeps
  <1>2. Kept \subseteq known
    BY DEF Kept
  <1>3. /\ root' = root /\ signalled' = signalled /\ groupOwned' \in BOOLEAN
        /\ todo' \subseteq todo \cup Kept
        /\ stage' \in {stage, "term"} /\ at' \in {"idle", "group", "signal"}
    BY <1>1 DEF Captured, Begins, PassSignals, Goes, Ours, TreeTypeOK
  <1>4. TreeTypeOK'
    BY <1>1, <1>2, <1>3 DEF Ours, TreeTypeOK, world
  <1>5. Retained' \cup listing' \subseteq Retained \cup listing
    BY <1>1, <1>2, <1>3 DEF Retained, world
  <1> QED
    BY <1>1, <1>4, <1>5, CodeOurs DEF Ours

\* Where terminateProcessTree() takes the root from.
Reread == {id \in {IdentityOf(Root)} : Exists(Root) /\ \A i \in Kept : i.pid # Root}

\* What it takes.
LEMMA RetainsIs ==
  ASSUME Retains
  PROVE  /\ root' = {id \in Kept : id.pid = Root} \cup Reread
         /\ known' = Kept \cup Reread
         /\ misread' = misread \cup {id.birth : id \in {i \in Reread : ~proc[Root].owned}}
         /\ escaped' = escaped \ {id.birth : id \in Reread}
         /\ stage = "stopping" /\ Found /\ stage' = "begun" /\ at' = "ledger" /\ seen' = {}
         /\ UNCHANGED <<world, listing, sampled, aim, groupOwned, signalled, todo, strayed>>
  <1>1. Reread = IF {id \in Kept : id.pid = Root} = {} /\ Exists(Root)
                 THEN {IdentityOf(Root)} ELSE {}
    BY DEF Reread
  <1> QED
    BY <1>1 DEF Retains

\* A stranger that has the daemon's number is misread.
LEMMA RetainsOurs ==
  ASSUME Ours, Retains
  PROVE  Ours'
  <1>1. /\ root' = {id \in Kept : id.pid = Root} \cup Reread
        /\ known' = Kept \cup Reread
        /\ misread' = misread \cup {id.birth : id \in {i \in Reread : ~proc[Root].owned}}
        /\ escaped' \subseteq escaped
        /\ stage' = "begun" /\ at' = "ledger" /\ seen' = {}
        /\ UNCHANGED <<world, listing, sampled, aim, groupOwned, signalled, todo, strayed>>
    BY RetainsIs
  <1>2. Kept \subseteq known
    BY DEF Kept
  <1>3. \A id \in Reread : /\ id = IdentityOf(Root) /\ Exists(Root) /\ id.pid = Root
                           /\ id.birth = proc[Root].birth /\ id \in Identity
                           /\ id.birth \in Births /\ id.birth <= births
    BY TreeBounds, ProcessHas DEF Reread, Ours, Dated, TreeTypeOK
  <1>4. TreeTypeOK'
    <2>1. misread' \subseteq Births /\ root' \subseteq Identity /\ known' \subseteq Identity
      BY <1>1, <1>2, <1>3 DEF Ours, TreeTypeOK
    <2> QED
      BY <1>1, <2>1 DEF Ours, TreeTypeOK, world
  <1>5. ASSUME NEW id \in Retained' \cup listing'
        PROVE  \/ id \in Retained \cup listing
               \/ /\ id.birth <= births
                  /\ Current(id) /\ ~proc[id.pid].owned => id.birth \in misread'
    <2>1. id \in Retained \cup listing \/ id \in Reread
      BY <1>1, <1>2 DEF Retained, world
    <2>2. id \in Reread /\ ~proc[Root].owned => id.birth \in misread'
      BY <1>1
    <2> QED
      BY <1>3, <2>1, <2>2
  <1>6. ASSUME NEW b \in misread'
        PROVE  \/ b \in misread
               \/ \E p \in Pids : Exists(p) /\ ~proc[p].owned /\ proc[p].birth = b
    BY <1>1, <1>3, TreeBounds
  <1>7. ~strayed' /\ misread \subseteq misread'
    BY <1>1 DEF Ours
  <1> QED
    BY <1>1, <1>4, <1>5, <1>6, <1>7, CodeOurs

\* The daemon's group is the daemon's while its number is.
LEMMA SignalGroupOurs ==
  ASSUME Ours, SignalGroup
  PROVE  Ours'
  <1> DEFINE strangers ==
        {proc[p].birth : p \in {q \in Group(Root) : groupOwned /\ ~proc[q].owned}}
  <1>1. /\ at' = "ledger" /\ stage' = stage
        /\ UNCHANGED <<world, search, aim, root, groupOwned, signalled, todo, escaped>>
        /\ IF Current(RootIdentity)
           THEN strayed' = (strayed \/ ~(strangers \subseteq misread)) /\ UNCHANGED misread
           ELSE misread' = misread \cup strangers /\ UNCHANGED strayed
    BY DEF SignalGroup, Goes
  <1>2. Current(RootIdentity) => strangers = {}
    BY DEF Current, RootIdentity, Ours, Apart, Group
  <1>3. \A b \in strangers : \E p \in Pids : Exists(p) /\ ~proc[p].owned /\ proc[p].birth = b
    BY DEF Group
  <1>4. strangers \subseteq Births
    BY <1>3, ProcessHas DEF Ours
  <1> HIDE DEF strangers
  <1>5. /\ ~strayed' /\ misread \subseteq misread' /\ strayed' \in BOOLEAN
        /\ misread' \subseteq misread \cup strangers
    BY <1>1, <1>2 DEF Ours, TreeTypeOK
  <1>6. TreeTypeOK'
    BY <1>1, <1>4, <1>5 DEF Ours, TreeTypeOK, world, search
  <1>7. Retained' \cup listing' = Retained \cup listing
    BY <1>1 DEF Retained, world, search
  <1> QED
    BY <1>1, <1>3, <1>5, <1>6, <1>7, CodeOurs DEF search

\* What is aimed at is retained.
LEMMA ChecksOurs ==
  ASSUME Ours, NEW id \in todo, Checks(id)
  PROVE  Ours'
  <1>1. /\ todo' = todo \ {id}
        /\ UNCHANGED <<world, search, stage, at, root, groupOwned, ghosts>>
        /\ IF Running(id)
           THEN /\ signalled' = [signalled EXCEPT ![stage] = @ \cup {id}]
                /\ aim' = {IdentityOf(id.pid)}
           ELSE UNCHANGED <<signalled, aim>>
        /\ stage \in {"term", "kill"}
    BY DEF Checks, In
  <1>2. Running(id) => IdentityOf(id.pid) = id
    BY IdentityHas DEF Running, Ours, TreeTypeOK
  <1>3. signalled' \in [{"term", "kill"} -> SUBSET Identity]
    BY <1>1 DEF Ours, TreeTypeOK
  <1>4. TreeTypeOK'
    BY <1>1, <1>2, <1>3 DEF Ours, TreeTypeOK, world, search, ghosts
  <1>5. Retained' \cup listing' \subseteq Retained \cup listing
    BY <1>1, <1>2 DEF Retained, world, search
  <1> QED
    BY <1>1, <1>4, <1>5, CodeOurs DEF Ours, ghosts, search

\* A signal reaches who was aimed at, or whoever has its number since.
LEMMA KillOurs ==
  ASSUME Ours, Kill
  PROVE  Ours'
  <1> DEFINE strangers ==
        {proc[id.pid].birth : id \in {i \in aim : Exists(i.pid) /\ ~proc[i.pid].owned}}
  <1>1. /\ aim' = {}
        /\ UNCHANGED <<world, search, stage, at, root, groupOwned, signalled, todo, escaped>>
        /\ IF \A id \in aim : Current(id)
           THEN strayed' = (strayed \/ ~(strangers \subseteq misread)) /\ UNCHANGED misread
           ELSE misread' = misread \cup strangers /\ UNCHANGED strayed
    BY DEF Kill
  <1>2. (\A id \in aim : Current(id)) => strangers \subseteq misread
    BY DEF Current, Ours, Adopted, Retained
  <1>3. \A b \in strangers : \E p \in Pids : Exists(p) /\ ~proc[p].owned /\ proc[p].birth = b
    BY IdentityHas DEF Ours, TreeTypeOK
  <1>4. strangers \subseteq Births
    BY <1>3, ProcessHas DEF Ours
  <1> HIDE DEF strangers
  <1>5. /\ ~strayed' /\ misread \subseteq misread' /\ strayed' \in BOOLEAN
        /\ misread' \subseteq misread \cup strangers
    BY <1>1, <1>2 DEF Ours, TreeTypeOK
  <1>6. TreeTypeOK'
    BY <1>1, <1>4, <1>5 DEF Ours, TreeTypeOK, world, search
  <1>7. Retained' \cup listing' \subseteq Retained \cup listing
    BY <1>1 DEF Retained, world, search
  <1> QED
    BY <1>1, <1>3, <1>5, <1>6, <1>7, CodeOurs DEF search

\* The other steps change where the code is.
LEMMA GoesOurs ==
  ASSUME Ours,
         \/ Capture \/ Terminate \/ SignalledAll \/ LooksOn \/ LooksGone
         \/ Delays \/ PollsAgain \/ TimesOut
  PROVE  Ours'
  <1>1. UNCHANGED <<world, search, aim, root, groupOwned, signalled, todo, ghosts>>
    BY DEF Capture, Terminate, SignalledAll, LooksOn, LooksGone, Delays, PollsAgain, TimesOut
  <1>2. /\ stage' \in {stage, "stopping", "true", "kill", "false"}
        /\ at' \in {"ledger", "look", "last", "answered", "delay", "group"}
    BY DEF Capture, Terminate, SignalledAll, LooksOn, LooksGone, Delays, PollsAgain, TimesOut, Goes
  <1>3. TreeTypeOK'
    BY <1>1, <1>2 DEF Ours, TreeTypeOK, world, search, ghosts
  <1>4. Retained' \cup listing' = Retained \cup listing
    BY <1>1 DEF Retained, world, search
  <1> QED
    BY <1>1, <1>3, <1>4, CodeOurs DEF Ours, ghosts, search

\* At first there is one process, the daemon.
LEMMA RootStarts ==
  ASSUME TreeInit
  PROVE  /\ proc \in [Pids -> Process]
         /\ \A p \in Pids : Exists(p) => p = Root
         /\ Runs(Root) /\ proc[Root].birth = 1 /\ proc[Root].parent = 0
         /\ proc[Root].owned /\ IdentityOf(Root) = RootIdentity
  <1>1. NoProcess \in Process
    BY TreeBounds DEF NoProcess, Process
  <1> DEFINE daemon == [NoProcess EXCEPT !.birth = 1, !.group = Root, !.state = "running",
                                         !.owned = TRUE]
  <1>2. /\ daemon \in Process /\ daemon.birth = 1 /\ daemon.group = Root
        /\ daemon.parent = 0 /\ daemon.state = "running" /\ daemon.owned
    BY TreeBounds DEF NoProcess, Process
  <1>3. proc = [p \in Pids |-> IF p # Root THEN NoProcess ELSE daemon]
    BY DEF TreeInit
  <1> HIDE DEF daemon
  <1> QED
    BY <1>1, <1>2, <1>3, TreeBounds DEF Exists, Runs, NoProcess, IdentityOf, RootIdentity

\* Nothing else is retained.
LEMMA OursInit == TreeInit => Ours
  <1> SUFFICES ASSUME TreeInit
               PROVE  Ours
    OBVIOUS
  <1>1. /\ births = 1 /\ ledger = {} /\ stage = "tracking" /\ at = "idle"
        /\ known = {RootIdentity} /\ seen = {} /\ listing = {} /\ aim = {}
        /\ root = {} /\ groupOwned = FALSE /\ todo = {}
        /\ signalled = [wait \in {"term", "kill"} |-> {}]
        /\ sampled = 1 /\ escaped = {} /\ misread = {} /\ strayed = FALSE
    BY DEF TreeInit
  <1>2. RootIdentity \in Identity /\ RootIdentity.birth = 1 /\ RootIdentity.pid = Root
    BY TreeBounds DEF Identity, RootIdentity
  <1>3. TreeTypeOK
    BY <1>1, <1>2, RootStarts, TreeBounds DEF TreeTypeOK
  <1>4. Dated
    BY <1>1, <1>2, RootStarts DEF Dated, Retained
  <1>5. Kin /\ Adopted /\ Apart
    BY <1>1, <1>2, RootStarts DEF Kin, Adopted, Apart, Retained
  <1> QED
    BY <1>1, <1>3, <1>4, <1>5 DEF Ours

\* Every step keeps it.
LEMMA OursNext ==
  ASSUME Ours, [TreeNext]_treeVars
  PROVE  Ours'
  <1>1. CASE Environment
    BY <1>1, ForkOurs, GroupOurs, RecordsOurs, StrangerOurs, EndOurs DEF Environment
  <1>2. CASE Sampling
    BY <1>2, ReadLedgerOurs, ListsOurs, LooksOurs, ReadsOurs DEF Sampling
  <1>3. CASE Termination
    BY <1>3, KeepsOurs, RetainsOurs, SignalGroupOurs, ChecksOurs, KillOurs, GoesOurs
       DEF Termination
  <1>4. CASE UNCHANGED treeVars
    <2>1. UNCHANGED <<world, search, stop, ghosts>>
      BY <1>4 DEF treeVars
    <2>2. TreeTypeOK' /\ ~strayed' /\ Retained' \cup listing' = Retained \cup listing
      BY <2>1 DEF Ours, TreeTypeOK, world, search, stop, ghosts, Retained
    <2> QED
      BY <2>1, <2>2, CodeOurs DEF search, ghosts
  <1> QED
    BY <1>1, <1>2, <1>3, <1>4 DEF TreeNext

\* The inductive invariant of the signals: whatever is retained, recorded or about to be
\* signalled is, while it is that process, the daemon's or a stranger that was misread.
THEOREM TreeIsOurs == TreeSpec => []Ours
  BY OursInit, OursNext, PTL DEF TreeSpec

\* No signal reaches a stranger but one whose number was another's a step before, and
\* what such a stranger starts.
THEOREM SparesStrangersHolds == TreeSpec => []SparesStrangers
  <1>1. Ours => SparesStrangers
    BY DEF Ours, SparesStrangers
  <1> QED
    BY <1>1, TreeIsOurs, PTL

-----------------------------------------------------------------------------
(* What leads to a living process of the daemon.                            *)

\* Where the code is, and what is empty there.
Places ==
    /\ at # "walk" => listing = {}
    /\ stage = "begun" => at \in {"ledger", "walk", "list"}
    /\ stage \in {"true", "false"} => at = "answered"
    /\ at \in {"signal", "look", "last"} => stage \in {"term", "kill"}
    /\ \A i, j \in aim : i = j

\* A living process that has no parent is retained or listed, or has escaped.
Orphans == \A p \in Living : proc[p].parent = 0 => ~Unread(p) \/ proc[p].birth \in escaped

\* The search has been at this identity, and listed its children.
Visited(id) == CASE at = "walk" -> id \in seen
                 [] at = "list" -> id \in seen \ aim
                 [] OTHER       -> id \in known

\* A child of such a process, older than the search, is retained or listed too.
Walked ==
    at # "ledger" =>
      \A c \in Living : /\ proc[c].parent # 0 /\ proc[c].birth <= sampled
                        /\ Visited(IdentityOf(proc[c].parent))
                        => ~Unread(c)

\* What was taken for the root is still there when its group is judged by it, unless
\* the number is another's; and where its group is not judged the daemon's, it is.
RootIs ==
    /\ stage = "begun" => \A id \in root : id.pid = Root /\ (proc[Root].birth = 1 => Current(id))
    /\ stage \in {"term", "kill"} /\ root # {} /\ ~groupOwned => proc[Root].birth # 1

\* Once the group was found empty none of the daemon's is in it.
GroupIs == at = "last" => \A p \in Living : ~InDaemonsGroup(p)

\* What is retained and runs has been signalled, or is about to be.
WaitIs ==
    at \in {"signal", "look", "last"} =>
      /\ \A id \in known : Running(id) => id \in todo \/ id \in signalled[stage]
      /\ at # "signal" => todo = {}

Traceable == Places /\ Orphans /\ Walked /\ RootIs /\ GroupIs /\ WaitIs

\* A living process.
LEMMA LivingIs ==
  ASSUME Ours, NEW p \in Living
  PROVE  /\ p \in Pids /\ Exists(p) /\ Runs(p) /\ proc[p].owned
         /\ Current(IdentityOf(p)) /\ Running(IdentityOf(p)) /\ IdentityOf(p) \in Identity
         /\ IdentityOf(p).pid = p /\ IdentityOf(p).birth = proc[p].birth
         /\ proc[p].parent # 0 => /\ proc[p].parent \in Living /\ proc[p].parent # p
  <1>1. p \in Pids /\ Runs(p) /\ proc[p].owned
    BY DEF Living
  <1>2. proc[p].parent # 0 => proc[p].parent \in Pids
    BY <1>1, ProcessHas DEF Ours
  <1> QED
    BY <1>1, <1>2, ProcessHas DEF Ours, Kin, Living

\* A step of the environment leaves every living process with what leads to it, if
\* whoever loses its parent unread is counted as escaped.
LEMMA EnvironmentTraced ==
  ASSUME Ours, Ours', Traceable, EnvironmentKeeps, NEW c \in Pids, Moves(c),
         escaped \subseteq escaped',
         \A p \in Living' : proc'[p].parent = 0 =>
             p \in Living /\ (proc[p].parent = 0 \/ ~Unread(p) \/ proc[p].birth \in escaped'),
         proc'[Root].birth = 1 =>
             proc[Root].birth = 1 /\ (Exists(Root) => Exists(Root)' \/ at \in {"idle", "delay"}),
         \A p \in Living' : InDaemonsGroup(p)' => \E q \in Living : InDaemonsGroup(q)
  PROVE  Traceable'
  <1>1. /\ UNCHANGED <<known, seen, listing, sampled, stage, at, aim, root, groupOwned, signalled, todo>>
        /\ births \in Nat
    BY DEF EnvironmentKeeps, search, stop
  <1>2. \A p \in Pids : Exists(p) /\ Exists(p)' => Stays(p)
    BY DEF Moves, Starts
  <1>3. \A p \in Living' : p \in Pids /\ Exists(p)'
    BY DEF Living, Runs, Exists
  <1>4. ASSUME NEW p \in Pids, Exists(p), Exists(p)'
        PROVE  /\ IdentityOf(p)' = IdentityOf(p) /\ Unread(p)' = Unread(p)
    BY <1>1, <1>2, <1>4 DEF Stays, IdentityOf, Unread
  <1>5. Places'
    BY <1>1 DEF Traceable, Places
  <1>6. Orphans'
    <2> SUFFICES ASSUME NEW p \in Living', proc'[p].parent = 0
                 PROVE  ~Unread(p)' \/ proc'[p].birth \in escaped'
      BY DEF Orphans
    <2>1. p \in Living /\ (proc[p].parent = 0 \/ ~Unread(p) \/ proc[p].birth \in escaped')
      OBVIOUS
    <2>2. Exists(p) /\ Exists(p)' /\ p \in Pids
      BY <1>3, <2>1, LivingIs
    <2>3. ~Unread(p) \/ proc[p].birth \in escaped'
      BY <2>1 DEF Traceable, Orphans
    <2> QED
      BY <1>2, <1>4, <2>2, <2>3 DEF Stays
  <1>7. Walked'
    <2> SUFFICES ASSUME at # "ledger", NEW p \in Living', proc'[p].parent # 0,
                        proc'[p].birth <= sampled, Visited(IdentityOf(proc[p].parent))'
                 PROVE  ~Unread(p)'
      BY <1>1 DEF Walked
    <2>1. p \in Pids /\ Exists(p)'
      BY <1>3
    <2>2. Stays(p)
      <3>1. proc'[p].birth # births + 1
        BY <1>1, TreeBounds DEF Ours, Dated, TreeTypeOK
      <3> QED
        BY <2>1, <3>1 DEF Moves, Starts
    <2>3. /\ Exists(p) /\ p \in Living /\ proc'[p].parent = proc[p].parent
          /\ proc'[p].birth = proc[p].birth
      BY <2>1, <2>2 DEF Stays, Living, Runs
    <2> DEFINE q == proc[p].parent
    <2>4. q \in Living /\ q \in Pids /\ Exists(q)
      BY <2>3, LivingIs
    <2>5. proc'[q].state = "running"
      BY <2>1, <2>3 DEF Ours, Kin, Runs
    <2>6. Stays(q)
      BY <1>2, <2>4, <2>5 DEF Exists
    <2>7. [pid |-> q, birth |-> proc'[q].birth] = IdentityOf(q)
      BY <2>6 DEF Stays, IdentityOf
    <2>8. Visited(IdentityOf(q))
      BY <1>1, <2>3, <2>7 DEF Visited, IdentityOf
    <2>9. ~Unread(p)
      BY <2>3, <2>8 DEF Traceable, Walked
    <2> QED
      BY <1>4, <2>1, <2>3, <2>9
  <1>8. RootIs'
    <2>1. ASSUME stage = "begun", NEW id \in root, proc'[Root].birth = 1
          PROVE  id.pid = Root /\ Current(id)'
      <3>1. id.pid = Root /\ Current(id) /\ at \notin {"idle", "delay"}
        BY <2>1 DEF Traceable, RootIs, Places
      <3>2. Exists(Root) /\ proc[Root].birth = id.birth
        BY <3>1 DEF Current
      <3>3. Exists(Root)'
        BY <2>1, <3>1, <3>2
      <3>4. Stays(Root)
        BY <1>2, <3>2, <3>3, TreeBounds
      <3> QED
        BY <1>1, <3>1, <3>2, <3>3, <3>4 DEF Current, Exists, Stays
    <2>2. stage = "begun" => \A id \in root : id.pid = Root
      BY DEF Traceable, RootIs
    <2> QED
      BY <1>1, <2>1, <2>2 DEF Traceable, RootIs
  <1>9. GroupIs'
    BY <1>1 DEF Traceable, GroupIs
  <1>10. WaitIs'
    <2>1. ASSUME NEW id \in known, Running(id)'
          PROVE  Running(id)
      <3>1. id.pid \in Pids /\ id.birth <= births /\ id.birth \in Nat
        BY IdentityHas DEF Ours, TreeTypeOK, Dated, Retained
      <3>2. Stays(id.pid)
        <4>1. Exists(id.pid)' /\ proc'[id.pid].birth = id.birth
          BY <1>1, <2>1 DEF Running, Current, Exists
        <4> QED
          BY <1>1, <3>1, <4>1 DEF Moves, Starts
      <3> QED
        BY <1>1, <2>1, <3>2 DEF Running, Current, Stays, Runs
    <2> QED
      BY <1>1, <2>1 DEF Traceable, WaitIs
  <1> QED
    BY <1>5, <1>6, <1>7, <1>8, <1>9, <1>10 DEF Traceable

\* Where a process starts nobody loses a parent.
LEMMA BirthTraced ==
  ASSUME Ours, Ours', Traceable, NEW c \in Pids, NEW process, Born(c, process),
         process.birth = births', births' \in 0..MaxBirths => process \in Process,
         process.owned => /\ process.parent # 0
                          /\ process.group = Root /\ proc[Root].birth = 1 =>
                               \E q \in Living : InDaemonsGroup(q),
         UNCHANGED <<search, stop, escaped, strayed>>,
         misread' \in {misread, misread \cup {births'}}
  PROVE  Traceable'
  <1>1. /\ births \in Nat /\ births' \in Births /\ births' = births + 1
        /\ births' \in 1..births' /\ 1..births \subseteq 1..births' /\ births' # 1
        /\ proc' \in [Pids -> Process] /\ proc'[c] = process
        /\ \A q \in Pids : q # c => proc'[q] = proc[q]
        /\ ~Exists(c)
    BY BornIs
  <1>2. EnvironmentKeeps
    <2>1. births \in 1..births'
      BY <1>1, TreeBounds DEF Ours, TreeTypeOK, Births
    <2> QED
      BY <1>1, <2>1 DEF EnvironmentKeeps
  <1>3. Moves(c)
    BY <1>1 DEF Moves, Stays, Starts, Exists, Runs
  <1>4. \A p \in Living' : \/ p = c /\ process.owned
                           \/ p # c /\ p \in Living /\ proc'[p] = proc[p]
    BY <1>1 DEF Living, Runs
  <1>5. \A p \in Living' : proc'[p].parent = 0 => p \in Living /\ proc[p].parent = 0
    BY <1>1, <1>4
  <1>6. proc'[Root].birth = 1 => c # Root /\ proc'[Root] = proc[Root]
    BY <1>1, TreeBounds
  <1>7. \A p \in Living' : InDaemonsGroup(p)' => \E q \in Living : InDaemonsGroup(q)
    BY <1>1, <1>4, <1>6 DEF InDaemonsGroup
  <1> QED
    BY <1>2, <1>3, <1>5, <1>6, <1>7, EnvironmentTraced DEF Exists

\* A child has a parent, and is in its group.
LEMMA ForkTraced ==
  ASSUME Ours, Ours', Traceable, NEW p \in Pids, NEW c \in Pids, Fork(p, c)
  PROVE  Traceable'
  <1> DEFINE process == [proc[p] EXCEPT !.birth = births', !.parent = p]
  <1>1. /\ Runs(p) /\ Born(c, process)
        /\ UNCHANGED <<ledger, search, stop, ghosts>>
    BY DEF Fork
  <1>2. process.birth = births' /\ (births' \in 0..MaxBirths => process \in Process)
        /\ process.parent = p /\ process.owned = proc[p].owned /\ process.group = proc[p].group
    BY ForkIs
  <1>3. proc[p].owned /\ proc[p].group = Root /\ proc[Root].birth = 1
          => p \in Living /\ InDaemonsGroup(p)
    BY <1>1 DEF Living, InDaemonsGroup
  <1> HIDE DEF process
  <1> QED
    BY <1>1, <1>2, <1>3, BirthTraced, TreeBounds DEF ghosts

\* A stranger is not the daemon's.
LEMMA StrangerTraced ==
  ASSUME Ours, Ours', Traceable, NEW c \in Pids, Stranger(c)
  PROVE  Traceable'
  <1> DEFINE process == [birth |-> births', parent |-> 0, group |-> c,
                         state |-> "running", owned |-> FALSE]
  <1>1. /\ Born(c, process) /\ UNCHANGED <<search, stop, escaped, strayed>>
        /\ misread' \in {misread, misread \cup {births'}}
    BY DEF Stranger
  <1>2. process.birth = births' /\ ~process.owned
        /\ (births' \in 0..MaxBirths => process \in Process)
    BY TreeBounds DEF Process
  <1> HIDE DEF process
  <1> QED
    BY <1>1, <1>2, BirthTraced

\* Nobody joins a group that none of the daemon's processes is in.
LEMMA GroupTraced ==
  ASSUME Ours, Ours', Traceable, NEW p \in Pids, NEW g \in Pids, ChangesGroup(p, g)
  PROVE  Traceable'
  <1>1. /\ EnvironmentKeeps /\ UNCHANGED <<births, ledger, ghosts>>
        /\ \A q \in Pids : Exists(q)' => Stays(q)
        /\ \A q \in Pids : q # p => proc'[q] = proc[q]
        /\ \A q \in Pids : Runs(q)' <=> Runs(q)
        /\ proc'[p].group = g /\ p # Root
        /\ g = p \/ \E q \in Living : proc[q].group = g
    BY RegroupIs
  <1>2. ASSUME NEW q \in Pids
        PROVE  /\ proc'[q].birth = proc[q].birth /\ proc'[q].owned = proc[q].owned
               /\ proc'[q].parent = proc[q].parent
    <2>1. proc'[q] = [proc[q] EXCEPT !.group = proc'[q].group] /\ proc[q] \in Process
      BY RegroupIs, ProcessHas DEF Ours
    <2> QED
      BY <2>1 DEF Process
  <1>3. Living' = Living
    BY <1>1, <1>2 DEF Living
  <1>4. \A q \in Living : q \in Pids
    BY LivingIs
  <1>5. \A q \in Living : InDaemonsGroup(q)' => \E r \in Living : InDaemonsGroup(r)
    BY <1>1, <1>2, <1>4, TreeBounds DEF InDaemonsGroup
  <1>6. proc'[Root] = proc[Root] /\ Root \in Pids
    BY <1>1, TreeBounds
  <1>7. Moves(Root)
    BY <1>1 DEF Moves
  <1> QED
    BY <1>1, <1>2, <1>3, <1>4, <1>5, <1>6, <1>7, EnvironmentTraced DEF Exists, ghosts

\* A record takes nothing from anybody.
LEMMA RecordsTraced ==
  ASSUME Ours, Ours', Traceable, NEW c \in Pids, Records(c)
  PROVE  Traceable'
  <1>1. UNCHANGED <<proc, births, search, stop, ghosts>>
    BY DEF Records
  <1>2. EnvironmentKeeps
    BY <1>1, TreeBounds DEF Ours, TreeTypeOK, EnvironmentKeeps, Births, ghosts
  <1>3. Moves(Root) /\ Root \in Pids
    BY <1>1, TreeBounds DEF Moves, Stays, Exists, Runs
  <1>4. Living' = Living /\ \A q \in Pids : InDaemonsGroup(q)' = InDaemonsGroup(q)
    BY <1>1 DEF Living, Runs, InDaemonsGroup
  <1>5. \A q \in Living : q \in Pids
    BY LivingIs
  <1> QED
    BY <1>1, <1>2, <1>3, <1>4, <1>5, EnvironmentTraced DEF Exists, ghosts

\* A process that loses its parent unread is counted; the daemon is reaped only where
\* nothing is being read or judged.
LEMMA EndTraced ==
  ASSUME Ours, Ours', Traceable, NEW p \in Pids, Exits(p) \/ Reaped(p)
  PROVE  Traceable'
  <1>1. /\ EnvironmentKeeps /\ UNCHANGED <<births, ledger, misread>>
        /\ \A q \in Pids : Exists(q)' => Stays(q) /\ proc'[q].group = proc[q].group
        /\ \A q \in Pids : Runs(q)' <=> Runs(q) /\ q # p
        /\ \A q \in Pids : proc'[q].birth = proc[q].birth
        /\ Exits(p) => \A q \in Pids : proc'[q].parent = IF q # p /\ proc[q].parent = p
                                                         THEN 0 ELSE proc[q].parent
        /\ Reaped(p) => \A q \in Pids : proc'[q].parent = proc[q].parent
    BY ProcessEndIs
  <1>2. \A q \in Living' : q \in Pids /\ Exists(q)' /\ q \in Living
    BY <1>1 DEF Living, Runs, Exists, Stays
  <1>3. escaped \subseteq escaped'
    BY DEF Exits, Reaped, ghosts
  <1>4. ASSUME NEW q \in Living', proc'[q].parent = 0
        PROVE  proc[q].parent = 0 \/ ~Unread(q) \/ proc[q].birth \in escaped'
    <2>1. CASE Reaped(p)
      BY <1>1, <1>2, <1>4, <2>1
    <2>2. CASE Exits(p)
      <3>1. CASE proc[q].parent = p
        <4>1. q \in Children(p) \cap Living
          BY <1>2, <3>1, LivingIs DEF Children
        <4> QED
          BY <2>2, <4>1 DEF Exits
      <3>2. CASE proc[q].parent # p
        BY <1>1, <1>2, <1>4, <2>2, <3>2
      <3> QED
        BY <3>1, <3>2
    <2> QED
      BY <2>1, <2>2
  <1>5. \A q \in Living' : InDaemonsGroup(q)' => InDaemonsGroup(q)
    BY <1>1, <1>2, TreeBounds DEF InDaemonsGroup
  <1>6. proc'[Root].birth = 1 =>
             proc[Root].birth = 1 /\ (Exists(Root) => Exists(Root)' \/ at \in {"idle", "delay"})
    <2>1. proc'[Root].birth = proc[Root].birth
      BY <1>1, TreeBounds
    <2>2. CASE Exits(p)
      <3>1. Exists(Root) => Exists(Root)'
        <4>1. proc' = [q \in Pids |->
                  IF q = p THEN [proc[q] EXCEPT !.state = "zombie"]
                  ELSE IF proc[q].parent = p THEN [proc[q] EXCEPT !.parent = 0] ELSE proc[q]]
              /\ proc[Root] \in Process /\ Root \in Pids
          BY <2>2, TreeBounds DEF Exits, Ours, TreeTypeOK
        <4> QED
          BY <4>1 DEF Exists, Process
      <3> QED
        BY <2>1, <3>1
    <2>3. CASE Reaped(p)
      <3>1. proc' = [proc EXCEPT ![p].state = "gone", ![p].group = 0]
            /\ (IdentityOf(p) = RootIdentity => at \in {"idle", "delay"})
        BY <2>3 DEF Reaped
      <3>2. CASE p = Root
        BY <2>1, <3>1, <3>2 DEF IdentityOf, RootIdentity
      <3>3. CASE p # Root
        <4>1. proc'[Root] = proc[Root]
          BY <3>1, <3>3, TreeBounds DEF Ours, TreeTypeOK
        <4> QED
          BY <2>1, <4>1 DEF Exists
      <3> QED
        BY <3>2, <3>3
    <2> QED
      BY <2>2, <2>3
  <1>7. Moves(Root) /\ Root \in Pids
    BY <1>1, TreeBounds DEF Moves
  <1> QED
    BY <1>1, <1>2, <1>3, <1>4, <1>5, <1>6, <1>7, EnvironmentTraced

\* What a step of the code leaves alone.
LEMMA StillIs ==
  ASSUME Ours, UNCHANGED world
  PROVE  /\ proc' = proc /\ births' = births /\ Living' = Living
         /\ \A p \in Pids : IdentityOf(p)' = IdentityOf(p)
         /\ \A p \in Pids : InDaemonsGroup(p)' = InDaemonsGroup(p)
         /\ \A id : Current(id)' = Current(id) /\ Running(id)' = Running(id)
         /\ \A p \in Living : p \in Pids /\ (proc[p].parent # 0 => proc[p].parent \in Pids)
  <1>1. proc' = proc /\ births' = births
    BY DEF world
  <1>2. \A p \in Living : p \in Pids /\ (proc[p].parent # 0 => proc[p].parent \in Pids)
    BY ProcessHas DEF Living, Ours
  <1> QED
    BY <1>1, <1>2 DEF Living, IdentityOf, InDaemonsGroup, Current, Running, Exists, Runs

\* Reading the ledger begins a search, and finds whoever is recorded.
LEMMA LedgerTraced ==
  ASSUME Ours, Traceable, ReadLedger
  PROVE  Traceable'
  <1>1. /\ at = "ledger" /\ at' = "walk" /\ stage' = stage
        /\ known' = known \cup FromLedger /\ seen' = {} /\ listing' = {} /\ sampled' = births
        /\ escaped' = escaped \ {id.birth : id \in FromLedger}
        /\ UNCHANGED <<world, aim, root, groupOwned, signalled, todo, misread, strayed>>
    BY DEF ReadLedger, Goes
  <1>2. Places'
    BY <1>1 DEF Traceable, Places
  <1>3. Orphans'
    <2> SUFFICES ASSUME NEW p \in Living, proc[p].parent = 0, p \in Pids
                 PROVE  IdentityOf(p) \in known' \/ proc[p].birth \in escaped'
      BY <1>1, StillIs DEF Orphans, Unread
    <2>1. IdentityOf(p) \in known \/ proc[p].birth \in escaped
      BY <1>1 DEF Traceable, Orphans, Places, Unread
    <2>2. ASSUME NEW id \in FromLedger, proc[p].birth = id.birth
          PROVE  IdentityOf(p) \in known'
      <3>1. id \in Identity /\ Current(id)
        BY DEF FromLedger, Ours, TreeTypeOK
      <3>2. id = IdentityOf(id.pid) /\ id.pid = p
        BY <2>2, <3>1, IdentityHas, LivingIs DEF Current, Ours, Dated
      <3> QED
        BY <1>1, <3>2
    <2> QED
      BY <1>1, <2>1, <2>2
  <1>4. Walked' /\ GroupIs' /\ WaitIs'
    BY <1>1 DEF Walked, Visited, GroupIs, WaitIs
  <1>5. RootIs'
    BY <1>1, StillIs DEF Traceable, RootIs
  <1> QED
    BY <1>2, <1>3, <1>4, <1>5 DEF Traceable

\* An identity whose process is gone has no children to be listed.
LEMMA LooksTraced ==
  ASSUME Ours, Traceable, NEW id \in known, Looks(id)
  PROVE  Traceable'
  <1>1. /\ at = "walk" /\ listing = {} /\ stage' = stage /\ seen' = seen \cup {id}
        /\ IF Current(id) THEN aim' = {id} /\ at' = "list" ELSE UNCHANGED <<aim, at>>
        /\ UNCHANGED <<world, known, listing, sampled, root, groupOwned, signalled, todo, ghosts>>
    BY DEF Looks, Searching, Goes
  <1>2. Places'
    BY <1>1 DEF Traceable, Places
  <1>3. \A p \in Pids : Unread(p)' = Unread(p)
    BY <1>1, StillIs DEF Unread
  <1>4. Orphans'
    BY <1>1, <1>3, StillIs DEF Traceable, Orphans, ghosts
  <1>5. Walked'
    <2> SUFFICES ASSUME NEW c \in Living, proc[c].parent # 0, proc[c].birth <= sampled,
                        Visited(IdentityOf(proc[c].parent))'
                 PROVE  ~Unread(c)
      BY <1>1, <1>3, StillIs DEF Walked
    <2> DEFINE q == proc[c].parent
    <2>1. q \in Living /\ Current(IdentityOf(q)) /\ IdentityOf(q)' = IdentityOf(q)
      BY <1>1, LivingIs, StillIs
    <2>2. IdentityOf(q) \in seen
      <3>1. CASE Current(id)
        <4>1. IdentityOf(q) \in seen' \ {id}
          BY <1>1, <2>1, <3>1 DEF Visited, IdentityOf, world
        <4> QED
          BY <1>1, <4>1
      <3>2. CASE ~Current(id)
        <4>1. IdentityOf(q) \in seen'
          BY <1>1, <2>1, <3>2 DEF Visited, IdentityOf, world
        <4> QED
          BY <1>1, <2>1, <3>2, <4>1
      <3> QED
        BY <3>1, <3>2
    <2> QED
      BY <1>1, <2>2 DEF Traceable, Walked, Visited
  <1>6. GroupIs' /\ WaitIs'
    BY <1>1 DEF GroupIs, WaitIs
  <1>7. RootIs'
    BY <1>1, StillIs DEF Traceable, RootIs
  <1> QED
    BY <1>2, <1>4, <1>5, <1>6, <1>7 DEF Traceable

\* And the children of one that is there are.
LEMMA ListsTraced ==
  ASSUME Ours, Traceable, Lists
  PROVE  Traceable'
  <1>1. /\ at = "list" /\ at' = "walk" /\ stage' = stage /\ aim' = {} /\ listing = {}
        /\ UNCHANGED <<world, known, seen, sampled, root, groupOwned, signalled, todo, ghosts>>
    BY ListsIs DEF Traceable, Places
  <1>2. PICK id \in aim :
          \A c \in Pids : /\ Exists(c) /\ proc[c].parent = id.pid
                         /\ Current(id) /\ id.birth \notin misread
                         => IdentityOf(c) \in listing'
    BY ListsIs
  <1>3. Places'
    BY <1>1 DEF Traceable, Places
  <1>4. \A p \in Pids : Unread(p)' => Unread(p)
    BY <1>1, StillIs DEF Unread
  <1>5. Orphans'
    BY <1>1, <1>4, StillIs DEF Traceable, Orphans, ghosts
  <1>6. Walked'
    <2> SUFFICES ASSUME NEW c \in Living, proc[c].parent # 0, proc[c].birth <= sampled,
                        Visited(IdentityOf(proc[c].parent))'
                 PROVE  ~Unread(c)'
      BY <1>1, StillIs DEF Walked
    <2> DEFINE q == proc[c].parent
    <2>1. /\ q \in Living /\ q \in Pids /\ Current(IdentityOf(q)) /\ proc[q].owned
          /\ IdentityOf(q)' = IdentityOf(q) /\ c \in Pids /\ Exists(c)
      BY <1>1, LivingIs, StillIs
    <2>2. IdentityOf(q) \in seen
      BY <1>1, <2>1 DEF Visited, IdentityOf, world
    <2>3. CASE IdentityOf(q) \in aim
      <3>1. id = IdentityOf(q)
        BY <2>3 DEF Traceable, Places
      <3>2. id.pid = q /\ id.birth = proc[q].birth /\ Exists(q)
        BY <2>1, <3>1, LivingIs
      <3>3. id.birth \notin misread
        BY <2>1, <3>2 DEF Ours, Adopted
      <3>4. IdentityOf(c) \in listing'
        BY <1>2, <2>1, <3>1, <3>2, <3>3
      <3> QED
        BY <1>1, <2>1, <3>4, StillIs DEF Unread
    <2>4. CASE IdentityOf(q) \notin aim
      <3>1. ~Unread(c)
        BY <1>1, <2>2, <2>4 DEF Traceable, Walked, Visited
      <3> QED
        BY <1>4, <2>1, <3>1
    <2> QED
      BY <2>3, <2>4
  <1>7. GroupIs' /\ WaitIs'
    BY <1>1 DEF GroupIs, WaitIs
  <1>8. RootIs'
    BY <1>1, StillIs DEF Traceable, RootIs
  <1> QED
    BY <1>3, <1>5, <1>6, <1>7, <1>8 DEF Traceable

\* Whoever is listed and still there is retained.
LEMMA ReadsTraced ==
  ASSUME Ours, Traceable, NEW entry \in listing, Reads(entry)
  PROVE  Traceable'
  <1>1. /\ at = "walk" /\ listing' = listing \ {entry} /\ entry.pid \in Pids
        /\ UNCHANGED <<world, seen, sampled, stop, strayed>>
        /\ known' = known \cup {id \in {IdentityOf(entry.pid)} : Exists(entry.pid)}
        /\ escaped' = escaped \ {b \in {proc[entry.pid].birth} : Exists(entry.pid)}
    BY ReadsIs
  <1>2. UNCHANGED <<stage, at, aim, root, groupOwned, signalled, todo>>
    BY <1>1 DEF stop
  <1>3. Places'
    BY <1>1, <1>2 DEF Traceable, Places
  <1>4. \A p \in Living : Unread(p)' => Unread(p)
    <2> SUFFICES ASSUME NEW p \in Living, entry = IdentityOf(p)
                 PROVE  IdentityOf(p) \in known'
      BY <1>1, StillIs DEF Unread
    <2>1. entry.pid = p /\ Exists(p)
      BY LivingIs
    <2> QED
      BY <1>1, <2>1
  <1>5. Orphans'
    <2> SUFFICES ASSUME NEW p \in Living, proc[p].parent = 0, Unread(p)'
                 PROVE  proc[p].birth \in escaped'
      BY <1>1, StillIs DEF Orphans
    <2>1. proc[p].birth \in escaped
      BY <1>4 DEF Traceable, Orphans
    <2>2. Exists(entry.pid) => proc[p].birth # proc[entry.pid].birth
      <3> SUFFICES ASSUME Exists(entry.pid), proc[p].birth = proc[entry.pid].birth
                   PROVE  FALSE
        OBVIOUS
      <3>1. entry.pid = p
        BY <1>1, LivingIs DEF Ours, Dated
      <3>2. IdentityOf(p) \in known'
        BY <1>1, <3>1
      <3> QED
        BY <1>1, <3>2, StillIs DEF Unread
    <2> QED
      BY <1>1, <2>1, <2>2
  <1>6. Walked'
    <2> SUFFICES ASSUME NEW c \in Living, proc[c].parent # 0, proc[c].birth <= sampled,
                        Visited(IdentityOf(proc[c].parent))'
                 PROVE  ~Unread(c)'
      BY <1>1, StillIs DEF Walked
    <2>1. Visited(IdentityOf(proc[c].parent))
      BY <1>1, <1>2 DEF Visited, IdentityOf, world
    <2> QED
      BY <1>1, <1>4, <2>1 DEF Traceable, Walked
  <1>7. GroupIs' /\ WaitIs'
    BY <1>1, <1>2 DEF GroupIs, WaitIs
  <1>8. RootIs'
    BY <1>1, <1>2, StillIs DEF Traceable, RootIs
  <1> QED
    BY <1>3, <1>5, <1>6, <1>7, <1>8 DEF Traceable

\* The end of a search drops only what does not run.
LEMMA KeepsTraced ==
  ASSUME Ours, Traceable, Captured \/ Begins \/ PassSignals
  PROVE  Traceable'
  <1>1. /\ at = "walk" /\ listing = {} /\ known \subseteq seen
        /\ known' = Kept /\ seen' = {} /\ root' = root /\ signalled' = signalled
        /\ UNCHANGED <<world, listing, sampled, aim, escaped, strayed, misread>>
    BY DEF Captured, Begins, PassSignals, Keeps, Found, Searching
  <1>2. /\ at' \in {"idle", "group", "signal"}
        /\ at' = "signal" => stage \in {"term", "kill"} /\ PassSignals /\ stage' = stage
        /\ stage' \in {"tracking", "term", "kill"}
    BY DEF Captured, Begins, PassSignals, Goes, In
  <1>3. Kept \subseteq known
    BY DEF Kept
  <1>4. Places'
    BY <1>1, <1>2 DEF Traceable, Places
  <1>5. \A p \in Living : ~Unread(p) => IdentityOf(p) \in known'
    BY <1>1, LivingIs DEF Unread, Kept
  <1>6. Orphans'
    BY <1>1, <1>5, StillIs DEF Traceable, Orphans, Unread
  <1>7. Walked'
    <2> SUFFICES ASSUME NEW c \in Living, proc[c].parent # 0, proc[c].birth <= sampled,
                        Visited(IdentityOf(proc[c].parent))'
                 PROVE  IdentityOf(c) \in known'
      BY <1>1, StillIs DEF Walked, Unread
    <2>1. IdentityOf(proc[c].parent) \in known'
      BY <1>1, <1>2 DEF Visited, IdentityOf, world
    <2>2. Visited(IdentityOf(proc[c].parent))
      BY <1>1, <1>3, <2>1 DEF Visited
    <2>3. ~Unread(c)
      BY <1>1, <2>2 DEF Traceable, Walked
    <2> QED
      BY <1>5, <2>3
  <1>8. RootIs'
    <2>1. CASE Captured \/ PassSignals
      BY <1>1, <2>1, StillIs DEF Captured, PassSignals, Goes, In, Traceable, RootIs
    <2>2. CASE Begins
      <3>1. /\ stage = "begun" /\ stage' = "term"
            /\ groupOwned' = (\E id \in root : Current(id))
        BY <2>2 DEF Begins
      <3>2. root # {} /\ ~groupOwned' => proc[Root].birth # 1
        BY <3>1 DEF Traceable, RootIs
      <3> QED
        BY <1>1, <3>1, <3>2, StillIs DEF RootIs
    <2> QED
      BY <2>1, <2>2
  <1>9. GroupIs'
    BY <1>2 DEF GroupIs
  <1>10. WaitIs'
    <2> SUFFICES ASSUME at' = "signal"
                 PROVE  \A id \in known' : id \in todo' \/ id \in signalled[stage]
      BY <1>1, <1>2 DEF WaitIs
    <2>1. todo' = known' \ signalled[stage]
      BY <1>2 DEF PassSignals
    <2> QED
      BY <2>1
  <1> QED
    BY <1>4, <1>6, <1>7, <1>8, <1>9, <1>10 DEF Traceable

\* The root, as it was sampled or is read now, is there.
LEMMA RetainsTraced ==
  ASSUME Ours, Traceable, Retains
  PROVE  Traceable'
  <1>1. /\ root' = {id \in Kept : id.pid = Root} \cup Reread
        /\ known' = Kept \cup Reread
        /\ escaped' = escaped \ {id.birth : id \in Reread}
        /\ at = "walk" /\ listing = {} /\ stage' = "begun" /\ at' = "ledger" /\ seen' = {}
        /\ UNCHANGED <<world, listing, sampled, aim, groupOwned, signalled, todo, strayed>>
    BY RetainsIs DEF Found, Searching
  <1>2. Places'
    BY <1>1 DEF Traceable, Places
  <1>3. \A id \in Reread : id = IdentityOf(Root) /\ Exists(Root) /\ id.pid = Root
                          /\ Current(id) /\ id.birth = proc[Root].birth
    BY TreeBounds, ProcessHas DEF Reread, Ours
  <1>4. Orphans'
    <2> SUFFICES ASSUME NEW p \in Living, proc[p].parent = 0, p \in Pids
                 PROVE  IdentityOf(p) \in known' \/ proc[p].birth \in escaped'
      BY <1>1, StillIs DEF Orphans, Unread
    <2>1. IdentityOf(p) \in Kept \/ proc[p].birth \in escaped
      BY <1>1, LivingIs DEF Traceable, Orphans, Unread, Kept
    <2>2. ASSUME NEW id \in Reread, proc[p].birth = id.birth
          PROVE  id = IdentityOf(p)
      BY <1>3, <2>2, LivingIs, TreeBounds DEF Ours, Dated
    <2> QED
      BY <1>1, <2>1, <2>2
  <1>5. Walked' /\ GroupIs' /\ WaitIs'
    BY <1>1 DEF Walked, GroupIs, WaitIs
  <1>6. RootIs'
    <2>1. \A id \in root' : id.pid = Root /\ Current(id)
      BY <1>1, <1>3 DEF Kept, Running
    <2> QED
      BY <1>1, <2>1, StillIs DEF RootIs
  <1> QED
    BY <1>2, <1>4, <1>5, <1>6 DEF Traceable

\* Outside a search, what leads to a process is what is retained.
LEMMA SignalsTraced ==
  ASSUME Ours, Traceable, UNCHANGED <<world, search, root, groupOwned, escaped>>,
         at \notin {"walk", "list"}, at' \notin {"walk", "list"},
         at = "ledger" => at' = "ledger",
         Places', stage' = "begun" => stage = "begun",
         stage' \in {"term", "kill"} => stage \in {"term", "kill"},
         GroupIs', WaitIs'
  PROVE  Traceable'
  <1>1. /\ UNCHANGED <<world, known, listing, sampled, root, groupOwned, escaped>>
    BY DEF search
  <1>2. \A p \in Pids : Unread(p)' = Unread(p)
    BY <1>1, StillIs DEF Unread
  <1>3. Orphans'
    BY <1>1, <1>2, StillIs DEF Traceable, Orphans
  <1>4. Walked'
    <2> SUFFICES ASSUME at' # "ledger", NEW c \in Living, proc[c].parent # 0,
                        proc[c].birth <= sampled, Visited(IdentityOf(proc[c].parent))'
                 PROVE  ~Unread(c)
      BY <1>1, <1>2, StillIs DEF Walked
    <2>1. IdentityOf(proc[c].parent) \in known
      BY <1>1 DEF Visited, IdentityOf, world
    <2>2. Visited(IdentityOf(proc[c].parent))
      BY <2>1 DEF Visited
    <2> QED
      BY <2>2 DEF Traceable, Walked
  <1>5. RootIs'
    BY <1>1, StillIs DEF Traceable, RootIs
  <1> QED
    BY <1>3, <1>4, <1>5 DEF Traceable

\* Once its group was looked at, none of the daemon's is in it: it was empty, or the
\* number is another's.
LEMMA LooksOnTraced ==
  ASSUME Ours, Traceable, LooksOn
  PROVE  Traceable'
  <1>1. /\ at = "look" /\ at' = "last" /\ stage' = stage /\ stage \in {"term", "kill"} /\ ~TreeExists
        /\ UNCHANGED <<world, search, aim, root, groupOwned, signalled, todo, ghosts>>
    BY DEF LooksOn, In, Goes
  <1>2. Places'
    BY <1>1 DEF Traceable, Places, search
  <1>3. ASSUME NEW p \in Living
        PROVE  ~InDaemonsGroup(p)
    <2>1. CASE Group(Root) = {}
      BY <2>1, LivingIs DEF Group, InDaemonsGroup
    <2>2. CASE Group(Root) # {}
      <3>1. root # {} /\ ~groupOwned
        BY <1>1, <2>2 DEF TreeExists, UnidentifiedRoot
      <3> QED
        BY <1>1, <3>1 DEF Traceable, RootIs, InDaemonsGroup
    <2> QED
      BY <2>1, <2>2
  <1>4. GroupIs'
    BY <1>1, <1>3, StillIs DEF GroupIs
  <1>5. WaitIs'
    BY <1>1, StillIs DEF Traceable, WaitIs, search
  <1> QED
    BY <1>1, <1>2, <1>4, <1>5, SignalsTraced DEF ghosts

\* Whoever is aimed at has been noted as signalled.
LEMMA SignalTraced ==
  ASSUME Ours, Traceable, SignalGroup \/ Kill \/ \E id \in todo : Checks(id)
  PROVE  Traceable'
  <1>1. CASE SignalGroup
    <2>1. /\ at = "group" /\ at' = "ledger" /\ stage' = stage
          /\ UNCHANGED <<world, search, aim, root, groupOwned, signalled, todo, escaped>>
      BY <1>1 DEF SignalGroup, In, Goes
    <2>2. Places' /\ GroupIs' /\ WaitIs'
      BY <2>1 DEF Traceable, Places, GroupIs, WaitIs, search
    <2> QED
      BY <2>1, <2>2, SignalsTraced
  <1>2. CASE Kill
    <2>1. /\ at = "signal" /\ aim' = {}
          /\ UNCHANGED <<world, search, stage, at, root, groupOwned, signalled, todo, escaped>>
      BY <1>2 DEF Kill, In
    <2>2. Places' /\ GroupIs'
      BY <2>1 DEF Traceable, Places, GroupIs, search
    <2>3. WaitIs'
      BY <2>1, StillIs DEF Traceable, WaitIs, search
    <2> QED
      BY <2>1, <2>2, <2>3, SignalsTraced
  <1>3. ASSUME NEW id \in todo, Checks(id)
        PROVE  Traceable'
    <2>1. /\ at = "signal" /\ stage \in {"term", "kill"} /\ todo' = todo \ {id}
          /\ UNCHANGED <<world, search, stage, at, root, groupOwned, ghosts>>
          /\ IF Running(id)
             THEN /\ signalled' = [signalled EXCEPT ![stage] = @ \cup {id}]
                  /\ aim' = {IdentityOf(id.pid)}
             ELSE UNCHANGED <<signalled, aim>>
          /\ signalled \in [{"term", "kill"} -> SUBSET Identity]
      BY <1>3 DEF Checks, In, Ours, TreeTypeOK
    <2>2. Places' /\ GroupIs'
      BY <2>1 DEF Traceable, Places, GroupIs, search
    <2>3. WaitIs'
      <3>1. \A other \in known : Running(other) => other \in todo' \/ other \in signalled'[stage]
        BY <2>1 DEF Traceable, WaitIs
      <3> QED
        BY <2>1, <3>1, StillIs DEF WaitIs, search
    <2> QED
      BY <2>1, <2>2, <2>3, SignalsTraced DEF ghosts
  <1> QED
    BY <1>1, <1>2, <1>3

\* Where a wait begins, goes on or ends, what is retained stays.
LEMMA GoesTraced ==
  ASSUME Ours, Traceable,
         \/ Capture \/ Terminate \/ SignalledAll \/ LooksGone
         \/ Delays \/ PollsAgain \/ TimesOut
  PROVE  Traceable'
  <1>1. UNCHANGED <<world, search, aim, root, groupOwned, signalled, todo, ghosts>>
    BY DEF Capture, Terminate, SignalledAll, LooksGone, Delays, PollsAgain, TimesOut
  <1>2. /\ at \in {"idle", "signal", "look", "last", "delay"}
        /\ at' \in {"ledger", "look", "answered", "delay", "group"}
        /\ stage' \in {"stopping", "true", "false", stage, "kill"}
        /\ stage' = "kill" => stage \in {"term", "kill"}
        /\ stage' \in {"true", "false"} => at' = "answered" \/ stage' = stage
        /\ at' = "look" => SignalledAll /\ stage' = stage
    BY DEF Capture, Terminate, SignalledAll, LooksGone, Delays, PollsAgain, TimesOut, Goes, In,
           TreeExists
  <1>3. Places'
    <2>1. listing' = {} /\ (\A i, j \in aim' : i = j)
      BY <1>1, <1>2 DEF Traceable, Places, search
    <2>2. stage \notin {"begun", "true", "false"}
      BY <1>2 DEF Traceable, Places
    <2>3. at' = "look" => stage' \in {"term", "kill"}
      BY <1>2 DEF SignalledAll, In
    <2> QED
      BY <1>2, <2>1, <2>2, <2>3 DEF Places
  <1>4. GroupIs'
    BY <1>2 DEF GroupIs
  <1>5. WaitIs'
    <2>1. at' = "look" => at = "signal" /\ todo = {} /\ stage' = stage
      BY <1>2 DEF SignalledAll, In
    <2> QED
      BY <1>1, <1>2, <2>1, StillIs DEF Traceable, WaitIs, search
  <1> QED
    BY <1>1, <1>2, <1>3, <1>4, <1>5, SignalsTraced DEF ghosts, Traceable, Places

\* At first the root is retained.
LEMMA TracedInit == TreeInit => Traceable
  <1> SUFFICES ASSUME TreeInit
               PROVE  Traceable
    OBVIOUS
  <1>1. /\ stage = "tracking" /\ at = "idle" /\ listing = {} /\ aim = {}
        /\ known = {RootIdentity}
    BY DEF TreeInit
  <1>2. \A p \in Living : p = Root /\ IdentityOf(p) \in known /\ proc[p].parent = 0
    BY <1>1, RootStarts DEF Living, Runs, Exists
  <1> QED
    BY <1>1, <1>2 DEF Traceable, Places, Orphans, Walked, RootIs, GroupIs, WaitIs, Unread

\* No step loses what leads to a living process.
LEMMA TracedNext ==
  ASSUME Ours, Traceable, [TreeNext]_treeVars
  PROVE  Traceable'
  <1>1. Ours'
    BY OursNext
  <1>2. CASE Environment
    BY <1>1, <1>2, ForkTraced, GroupTraced, RecordsTraced, StrangerTraced, EndTraced
       DEF Environment
  <1>3. CASE Sampling
    BY <1>3, LedgerTraced, ListsTraced, LooksTraced, ReadsTraced DEF Sampling
  <1>4. CASE Termination
    BY <1>4, KeepsTraced, RetainsTraced, SignalTraced, LooksOnTraced, GoesTraced
       DEF Termination
  <1>5. CASE UNCHANGED treeVars
    <2>1. UNCHANGED <<world, known, seen, listing, sampled, stage, at, aim, root, groupOwned,
                      signalled, todo, escaped>>
      BY <1>5 DEF treeVars, search, stop, ghosts
    <2>2. Places' /\ GroupIs' /\ WaitIs'
      BY <2>1, StillIs DEF Traceable, Places, GroupIs, WaitIs
    <2>3. Orphans'
      BY <2>1, StillIs DEF Traceable, Orphans, Unread
    <2>4. Walked'
      BY <2>1, StillIs DEF Traceable, Walked, Visited, Unread
    <2>5. RootIs'
      BY <2>1, StillIs DEF Traceable, RootIs
    <2> QED
      BY <2>2, <2>3, <2>4, <2>5 DEF Traceable
  <1> QED
    BY <1>2, <1>3, <1>4, <1>5 DEF TreeNext

\* The inductive invariant of the answers: a living process of the daemon that has no
\* parent is retained or has escaped, and a child of a visited one, older than the
\* search, is retained or listed.
THEOREM TreeIsTraced == TreeSpec => [](Ours /\ Traceable)
  <1>1. Ours /\ Traceable /\ [TreeNext]_treeVars => Ours' /\ Traceable'
    BY OursNext, TracedNext
  <1> QED
    BY <1>1, OursInit, TracedInit, PTL DEF TreeSpec

\* true is a proof that the daemon's group is empty, and that nothing else of the
\* daemon's runs but what lost its parent before a sample had read it, and what comes of
\* that.
THEOREM ProofIsTrueHolds == TreeSpec => ProofIsTrue
  <1> DEFINE Proved == stage' = "true" =>
                \A p \in Living : /\ ~InDaemonsGroup(p)
                                  /\ proc[p].parent = 0 => proc[p].birth \in escaped
  <1>1. ASSUME Ours, Traceable, TreeNext, stage' = "true", NEW p \in Living
        PROVE  ~InDaemonsGroup(p) /\ (proc[p].parent = 0 => proc[p].birth \in escaped)
    <2>1. LooksGone
      <3>1. stage = "true" => at = "answered"
        BY <1>1 DEF Traceable, Places
      <3> QED
        BY <1>1, <3>1
           DEF TreeNext, Environment, Fork, ChangesGroup, Records, Stranger, Exits, Reaped, stop,
               Sampling, ReadLedger, Looks, Searching, Lists, Reads,
               Termination, Capture, Captured, Terminate, Retains, Begins, Found, SignalGroup,
               PassSignals, Checks, Kill, SignalledAll, LooksOn, Delays, PollsAgain, TimesOut,
               In, Goes
    <2>2. at = "last" /\ ~TreeExists
      BY <2>1 DEF LooksGone, In
    <2>3. IdentityOf(p) \notin known /\ listing = {}
      BY <1>1, <2>2, LivingIs DEF TreeExists, Traceable, Places
    <2> QED
      BY <1>1, <2>2, <2>3 DEF Traceable, Orphans, GroupIs, Unread
  <1>2. Ours /\ Traceable /\ [TreeNext]_treeVars => [Proved]_treeVars
    BY <1>1
  <1> QED
    BY <1>2, TreeIsTraced, PTL DEF TreeSpec, ProofIsTrue

\* false is answered when SIGKILL was sent to whatever is older than the last sample,
\* and neither is nor comes of such a process.
THEOREM RefusalTriedAllHolds == TreeSpec => RefusalTriedAll
  <1> DEFINE Tried == stage' = "false" /\ stage # "false" =>
                 \A p \in Living :
                    /\ proc[p].birth <= sampled
                    /\ IF proc[p].parent = 0 THEN proc[p].birth \notin escaped
                                             ELSE IdentityOf(proc[p].parent) \in known
                    => IdentityOf(p) \in signalled["kill"]
  <1>1. ASSUME Ours, Traceable, TreeNext, stage' = "false", stage # "false",
               NEW p \in Living, proc[p].birth <= sampled,
               IF proc[p].parent = 0 THEN proc[p].birth \notin escaped
                                     ELSE IdentityOf(proc[p].parent) \in known
        PROVE  IdentityOf(p) \in signalled["kill"]
    <2>1. TimesOut
      BY <1>1 DEF TreeNext, Environment, Fork, ChangesGroup, Records, Stranger, Exits, Reaped, stop,
               Sampling, ReadLedger, Looks, Searching, Lists, Reads,
               Termination, Capture, Captured, Terminate, Retains, Begins, Found, SignalGroup,
               PassSignals, Checks, Kill, SignalledAll, LooksOn, LooksGone, Delays, PollsAgain,
               In, Goes
    <2>2. at \in {"look", "last"} /\ stage = "kill"
      BY <1>1, <2>1 DEF TimesOut, TreeExists
    <2>3. IdentityOf(p) \in known
      <3>1. CASE proc[p].parent = 0
        BY <1>1, <2>2, <3>1 DEF Traceable, Orphans, Unread, Places
      <3>2. CASE proc[p].parent # 0
        BY <1>1, <2>2, <3>2 DEF Traceable, Walked, Visited, Unread, Places
      <3> QED
        BY <3>1, <3>2
    <2> QED
      BY <1>1, <2>2, <2>3, LivingIs DEF Traceable, WaitIs
  <1>2. Ours /\ Traceable /\ [TreeNext]_treeVars => [Tried]_treeVars
    BY <1>1
  <1> QED
    BY <1>2, TreeIsTraced, PTL DEF TreeSpec, RefusalTriedAll
===============================================================================
