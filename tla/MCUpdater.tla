------------------------------ MODULE MCUpdater ------------------------------
(* The controller with either strategy and a user who clicks twice.         *)
EXTENDS Updater
==============================================================================
