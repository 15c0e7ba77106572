----------------------------- MODULE MCAppImage -----------------------------
(* Two file names and two attempts, across kills, power losses, restarts.   *)
EXTENDS AppImage
==============================================================================
