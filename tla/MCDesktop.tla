------------------------------ MODULE MCDesktop ------------------------------
(* Three reachable Daemon objects: one in use, the one of the next boot, and *)
(* the one that the first boot may lose.                                     *)
EXTENDS Desktop
==============================================================================
