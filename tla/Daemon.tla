------------------------------- MODULE Daemon -------------------------------
(***************************************************************************)
(* One Daemon object of src/src/daemon.js: start(), the startup URL and the  *)
(* credential handoff, the close listeners, stop(), and the process tree it  *)
(* spawns.  An action is one JavaScript callback, or one thing the operating *)
(* system does.  What terminateProcessTree (process-tree.js) answers is      *)
(* taken as its comment states it: true only when the tree is gone.          *)
(*                                                                           *)
(* stop() is called as main.js calls it: before the spawn, or once start()   *)
(* has settled (Desktop!StartIsOwned).                                       *)
(***************************************************************************)

CONSTANT Platforms      \* where the app runs: some of "unix" and "windows"

ASSUME DaemonConstants == Platforms \subseteq {"unix", "windows"}

Causes == {"stop", "failure", "crash"}
Results == {"none", "pending", "clean", "unproved"}

VARIABLES
    platform,   \* process.platform, which never changes
    phase,      \* where start() is
    child,      \* #child: none, running, or nopid for a spawn that failed
    stopping,   \* #stopping
    answer,     \* #stopPromise: the cleanup whose result stop() returns
    cleanup,    \* the cleanups this object ever began
    asked,      \* the answers stop() has given, "none" for an immediate true
    url,        \* startupUrl: pending, seen or failed
    handoff,    \* credentialHandoff: pending, done or failed
    wrapped,    \* windowsWrapperReady
    tree,       \* none, alive, headless (root dead, descendants not) or gone
    event,      \* the last of the root's events: none, exit or close
    told        \* onCrash was called

vars == <<platform, phase, child, stopping, answer, cleanup, asked, url, handoff,
          wrapped, tree, event, told>>

TypeOK ==
    /\ platform \in Platforms
    /\ phase \in {"idle", "env", "waiting", "failing", "started", "rejected"}
    /\ child \in {"none", "running", "nopid"}
    /\ {stopping, wrapped, told} \subseteq BOOLEAN
    /\ answer \in Causes \cup {"none"}
    /\ cleanup \in [Causes -> Results]
    /\ \A c \in Causes : cleanup[c] # "none" <=> answer = c
    /\ asked \subseteq Causes \cup {"none"}
    /\ url \in {"pending", "seen", "failed"}
    /\ handoff \in {"pending", "done", "failed"}
    /\ tree \in {"none", "alive", "headless", "gone"}
    /\ event \in {"none", "exit", "close"}

Init ==
    /\ platform \in Platforms
    /\ phase = "idle" /\ child = "none" /\ stopping = FALSE
    /\ answer = "none" /\ cleanup = [c \in Causes |-> "none"] /\ asked = {}
    /\ url = "pending" /\ handoff = "pending" /\ wrapped = FALSE
    /\ tree = "none" /\ event = "none" /\ told = FALSE

Windows == platform = "windows"

\* Both promises of Promise.all have settled, or one failed: start() goes on in
\* microtasks, before the next event of the child.
Ready == phase = "waiting" /\ url = "seen" /\ handoff = "done"
Broken == phase = "waiting" /\ (url = "failed" \/ handoff = "failed")
\* Mutant: start() goes on in a later task, events of the child come between.
ReactsLater == FALSE
Reacting == Ready \/ Broken

-----------------------------------------------------------------------------
(* start()                                                                  *)

Start ==
    /\ phase = "idle"
    /\ phase' = "env"
    /\ stopping' = FALSE
    /\ answer' = "none"
    /\ UNCHANGED <<platform, child, cleanup, asked, url, handoff, wrapped, tree, event, told>>

\* Mutant: a stop() that came first does not prevent the spawn.
SpawnRegardless ==
    /\ phase = "env"
    /\ phase' = "waiting"
    /\ child' = "running"
    /\ tree' = "alive"
    /\ handoff' = IF Windows THEN "done" ELSE "pending"
    /\ UNCHANGED <<platform, stopping, answer, cleanup, asked, url, wrapped, event, told>>

\* The login environment has arrived; a stop() meanwhile prevents the spawn.
\* The ledger or spawn() may throw, and a spawn may fail without a process.
Spawn ==
    /\ phase = "env"
    /\ \/ /\ phase' = "rejected"
          /\ UNCHANGED <<child, tree, handoff>>
       \/ /\ ~stopping
          /\ phase' = "waiting"
          /\ \/ child' = "running" /\ tree' = "alive"
             \/ child' = "nopid" /\ UNCHANGED tree
          /\ handoff' = IF Windows THEN "done" ELSE "pending"
    /\ UNCHANGED <<platform, stopping, answer, cleanup, asked, url, wrapped, event, told>>

\* The wrapper's ready line, then the URL: both are read from pipes that stay
\* readable after the process died, until "close".
WrapperReady ==
    /\ Windows /\ child = "running" /\ phase = "waiting"
    /\ url = "pending" /\ event # "close"
    /\ ~wrapped /\ wrapped' = TRUE
    /\ UNCHANGED <<platform, phase, child, stopping, answer, cleanup, asked, url, handoff, tree, event, told>>

UrlSeen ==
    /\ phase = "waiting" /\ child = "running" /\ ~Reacting
    /\ url = "pending" /\ event # "close"
    /\ Windows => wrapped
    /\ url' = "seen"
    /\ UNCHANGED <<platform, phase, child, stopping, answer, cleanup, asked, handoff, wrapped, tree, event, told>>

\* The startup deadline, or the child's "error" event.
UrlFails ==
    /\ phase = "waiting" /\ ~Reacting
    /\ url = "pending"
    /\ url' = "failed"
    /\ UNCHANGED <<platform, phase, child, stopping, answer, cleanup, asked, handoff, wrapped, tree, event, told>>

HandoffSettles ==
    /\ phase = "waiting" /\ ~Reacting
    /\ handoff = "pending"
    /\ \/ handoff' = "done" /\ child = "running"
       \/ handoff' = "failed"
    /\ UNCHANGED <<platform, phase, child, stopping, answer, cleanup, asked, url, wrapped, tree, event, told>>

StartResolves ==
    /\ Ready
    /\ phase' = "started"
    /\ UNCHANGED <<platform, child, stopping, answer, cleanup, asked, url, handoff, wrapped, tree, event, told>>

\* The catch: whatever was spawned is taken down, and the result of that stays
\* the answer of every later stop().
StartFails ==
    /\ Broken
    /\ phase' = "failing"
    /\ child' = "none"
    /\ answer' = "failure"
    /\ cleanup' = [cleanup EXCEPT !["failure"] =
                     IF child # "running" \/ (Windows /\ wrapped /\ event = "close")
                     THEN "clean" ELSE "pending"]
    /\ UNCHANGED <<platform, stopping, asked, url, handoff, wrapped, tree, event, told>>

StartRejects ==
    /\ phase = "failing"
    /\ cleanup["failure"] \in {"clean", "unproved"}
    /\ phase' = "rejected"
    /\ UNCHANGED <<platform, child, stopping, answer, cleanup, asked, url, handoff, wrapped, tree, event, told>>

-----------------------------------------------------------------------------
(* stop()                                                                   *)

Stop ==
    /\ phase \in {"env", "started", "rejected"}
    /\ stopping' = TRUE
    /\ \/ /\ answer # "none"
          /\ asked' = asked \cup {answer}
          /\ UNCHANGED <<child, answer, cleanup>>
       \/ /\ answer = "none" /\ child # "running"
          /\ asked' = asked \cup {"none"}
          /\ UNCHANGED <<child, answer, cleanup>>
       \/ /\ answer = "none" /\ child = "running"
          /\ child' = "none"
          /\ answer' = "stop"
          /\ cleanup' = [cleanup EXCEPT !["stop"] = "pending"]
          /\ asked' = asked \cup {"stop"}
    /\ UNCHANGED <<platform, phase, url, handoff, wrapped, tree, event, told>>

-----------------------------------------------------------------------------
(* The process tree and its events.                                         *)

\* The root dies, killed or not.  On Windows the wrapper's last Job handle takes
\* every descendant with it.
RootDies ==
    /\ tree = "alive"
    /\ tree' \in (IF Windows THEN {"gone"} ELSE {"headless", "gone"})
    /\ UNCHANGED <<platform, phase, child, stopping, answer, cleanup, asked, url, handoff, wrapped, event, told>>

OrphansDie ==
    /\ tree = "headless"
    /\ tree' = "gone"
    /\ UNCHANGED <<platform, phase, child, stopping, answer, cleanup, asked, url, handoff, wrapped, event, told>>

\* "exit" settles a handoff that is still in flight.
ExitEvent ==
    /\ tree \in {"headless", "gone"} /\ event = "none" /\ ~Reacting
    /\ event' = "exit"
    /\ handoff' = IF phase = "waiting" /\ handoff = "pending" THEN "failed" ELSE handoff
    /\ UNCHANGED <<platform, phase, child, stopping, answer, cleanup, asked, url, wrapped, tree, told>>

\* "close" fails a start that has no URL; once started it is a crash, unless
\* stop() asked for it.
CloseEvent ==
    /\ event = "exit" /\ ~Reacting
    /\ event' = "close"
    /\ url' = IF phase = "waiting" /\ url = "pending" THEN "failed" ELSE url
    /\ IF phase = "started"
       THEN /\ child' = "none"
            /\ IF stopping THEN UNCHANGED <<answer, cleanup>>
               ELSE /\ answer' = "crash"
                    /\ cleanup' = [cleanup EXCEPT !["crash"] = "pending"]
       ELSE UNCHANGED <<child, answer, cleanup>>
    /\ UNCHANGED <<platform, phase, stopping, asked, handoff, wrapped, tree, told>>

\* Mutant: the crash callback ignores that stop() was called.
CleanupSettlesLoudly(c) ==
    /\ cleanup[c] = "pending"
    /\ tree = "gone"
    /\ cleanup' = [cleanup EXCEPT ![c] = "clean"]
    /\ told' = (told \/ c = "crash")
    /\ UNCHANGED <<platform, phase, child, stopping, answer, asked, url, handoff, wrapped, tree, event>>

\* A cleanup settles.  The Job needs no further cleanup after a crash.  The
\* crash callback follows, unless stop() was called meanwhile.
CleanupSettles(c) ==
    /\ cleanup[c] = "pending"
    /\ \/ /\ tree = "gone"
          /\ cleanup' = [cleanup EXCEPT ![c] = "clean"]
       \/ /\ ~(Windows /\ c = "crash")
          /\ cleanup' = [cleanup EXCEPT ![c] = "unproved"]
    /\ told' = (told \/ (c = "crash" /\ ~stopping))
    /\ UNCHANGED <<platform, phase, child, stopping, answer, asked, url, handoff, wrapped, tree, event>>

-----------------------------------------------------------------------------

Next ==
    \/ Start \/ Spawn \/ WrapperReady \/ UrlSeen \/ UrlFails \/ HandoffSettles
    \/ StartResolves \/ StartFails \/ StartRejects
    \/ Stop
    \/ RootDies \/ OrphansDie \/ ExitEvent \/ CloseEvent
    \/ \E c \in Causes : CleanupSettles(c)

\* Microtasks run; the environment and the startup have deadlines, a termination
\* two bounded waits.  "close" is only sure to come once no descendant is left
\* to hold the root's pipes.  Nobody has to call start() or stop(), and neither
\* a daemon nor an orphan of it need ever die.
Fairness ==
    /\ WF_vars(Spawn)
    /\ WF_vars(UrlFails)
    /\ WF_vars(HandoffSettles)
    /\ WF_vars(StartResolves \/ StartFails \/ StartRejects)
    /\ WF_vars(ExitEvent)
    /\ WF_vars(tree = "gone" /\ CloseEvent)
    /\ \A c \in Causes : WF_vars(CleanupSettles(c))

Spec == Init /\ [][Next]_vars
FairSpec == Spec /\ Fairness

-----------------------------------------------------------------------------
(* Properties.                                                              *)

\* stop() told one of its callers that the daemon is stopped.
SaidStopped == "none" \in asked \/ \E c \in asked \cap Causes : cleanup[c] = "clean"

\* A true answer of stop() is a proof: no process of this daemon runs then, nor
\* ever after, be it a spawn that stop() came before, a start that failed, or a
\* crash that was already being cleaned up.
ProofHolds == TypeOK /\ (SaidStopped => tree \in {"none", "gone"})

\* No death falls between start()'s listeners and the crash listener: a started
\* daemon whose tree is gone is reported to onCrash, even if it died before
\* start() returned, unless stop() is called.
DeathIsTold == (phase = "started" /\ tree = "gone") ~> (told \/ stopping)

\* start() settles, and a rejected start has settled its own cleanup.
StartSettles == (phase = "env") ~> (phase \in {"started", "rejected"})

\* What main.js waits for comes: the end of a start, and the news of a death.
StartsAndDeathsAreTold == DeathIsTold /\ StartSettles

\* The contract of DaemonLife.
Verdict(c) ==
    CASE cleanup[c] = "clean" -> "gone"
      [] cleanup[c] = "unproved" -> "unproved"
      [] cleanup[c] = "pending" -> IF c = "crash" /\ ~stopping THEN "dead" ELSE "stopping"

LifeOf ==
    CASE phase = "idle" -> "gone"
      [] phase = "env" -> (IF stopping THEN "stopping" ELSE "starting")
      [] phase = "waiting" -> "starting"
      [] OTHER -> (IF answer # "none" THEN Verdict(answer)
                   ELSE IF phase = "started" THEN "up" ELSE "gone")

Life == INSTANCE DaemonLife WITH
            life <- LifeOf, begun <- phase # "idle", reported <- told

ImplementsLife == Life!LifeSpec
==============================================================================
