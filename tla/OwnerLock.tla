------------------------------ MODULE OwnerLock ------------------------------
(***************************************************************************)
(* What the lifecycle coordinator of src/src/app-lifecycle.js promises, in  *)
(* the words of its comment: "one asynchronous owner" at a time, and after  *)
(* the lock is sealed "exactly one final cleanup runs" and nothing else.    *)
(* How turns are queued, shared or refused is left to Lifecycle.tla.        *)
(***************************************************************************)

CONSTANTS Ops,      \* the operations that may ask for the lock
          Final,    \* the cleanup that runs once the lock is sealed
          Nobody    \* the holder of a free lock

VARIABLES holder,   \* the operation that owns the shared state, or Nobody
          served,   \* the operations that have ever owned it
          sealed    \* only Final may still acquire

lockVars == <<holder, served, sealed>>

LockInit ==
    /\ holder = Nobody
    /\ served = {}
    /\ sealed = FALSE

\* Each operation owns the lock at most once, Final after the seal and after
\* everyone else, the others only before the seal.
Acquire(op) ==
    /\ holder = Nobody
    /\ op \notin served
    /\ Final \notin served
    /\ sealed <=> (op = Final)
    /\ holder' = op
    /\ served' = served \cup {op}
    /\ UNCHANGED sealed

Release ==
    /\ holder # Nobody
    /\ holder' = Nobody
    /\ UNCHANGED <<served, sealed>>

Seal ==
    /\ ~sealed
    /\ sealed' = TRUE
    /\ UNCHANGED <<holder, served>>

LockNext == (\E op \in Ops : Acquire(op)) \/ Release \/ Seal

LockSpec == LockInit /\ [][LockNext]_lockVars
==============================================================================
