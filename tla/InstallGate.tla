----------------------------- MODULE InstallGate -----------------------------
(***************************************************************************)
(* What src/src/main.js relies on of the updater controller: the installer  *)
(* is asked for once at a time, only after prepareInstall() said yes, and a *)
(* recovery is asked for only when an installer failed.  The variable       *)
(* `updater` of Desktop.tla moves as it does here.                          *)
(***************************************************************************)
VARIABLES
    updater,    \* idle, preparing, installing or recovering
    left        \* the app closes: nothing is asked of main.js any more

gateVars == <<updater, left>>

GateInit == updater = "idle" /\ left = FALSE

Moves(from, to) == updater = from /\ updater' = to /\ UNCHANGED left

Prepare == Moves("idle", "preparing")
Refuse == Moves("preparing", "idle")
Grant == Moves("preparing", "installing")
Fail == Moves("installing", "recovering")
Recovered == Moves("recovering", "idle")

\* The quit; what was under way ends unheard.
Leave == left' = TRUE

GateNext == Prepare \/ Refuse \/ Grant \/ Fail \/ Recovered \/ Leave

GateSpec == GateInit /\ [][GateNext]_gateVars
==============================================================================
