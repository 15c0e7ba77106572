----------------------------- MODULE DaemonLife -----------------------------
(***************************************************************************)
(* What main.js may rely on about one Daemon object (src/src/daemon.js):     *)
(* one start, one crash report at most and never of a daemon it asked to     *)
(* stop, and an answer that is "gone" only when the whole tree is.           *)
(* Desktop.tla moves its instances by exactly these steps.                   *)
(***************************************************************************)
VARIABLES life,     \* gone, starting, up, dead, stopping or unproved
          begun,    \* start() was called
          reported  \* onCrash was called

lifeVars == <<life, begun, reported>>

LifeInit == life = "gone" /\ begun = FALSE /\ reported = FALSE

Begin ==
    /\ ~begun
    /\ begun' = TRUE
    /\ life' = "starting"
    /\ UNCHANGED reported

Move(from, to) ==
    /\ life \in from
    /\ life' \in to
    /\ UNCHANGED <<begun, reported>>

Starts == Move({"starting"}, {"up"})
Fails  == Move({"starting"}, {"stopping", "gone"})
Dies   == Move({"up"}, {"dead"})
Stops  == Move({"starting", "up", "dead"}, {"stopping"})
Ends   == Move({"stopping"}, {"gone", "unproved"})

Reports ==
    /\ life = "dead"
    /\ ~reported
    /\ reported' = TRUE
    /\ life' \in {"gone", "unproved"}
    /\ UNCHANGED begun

LifeNext == Begin \/ Starts \/ Fails \/ Dies \/ Stops \/ Ends \/ Reports

LifeSpec == LifeInit /\ [][LifeNext]_lifeVars
==============================================================================
