----------------------------- MODULE MCProStore -----------------------------
(* One key, one activation, two calls and three files, across crashes.      *)
(* Neither files nor calls are told apart, and no liveness is checked.      *)
EXTENDS ProStore, TLC

Alike == Permutations(Files) \cup Permutations(Calls)
==============================================================================
