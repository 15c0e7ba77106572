----------------------------- MODULE MCProActions -----------------------------
(* Two requests queued at a time, behind the one that runs. *)
EXTENDS ProActions
==============================================================================
