--------------------------- MODULE MCProActivation ---------------------------
(* Two flows, of one tick each, and a clock of three values. *)
EXTENDS ProActivation
==============================================================================
