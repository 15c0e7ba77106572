----------------------------- MODULE DurableCell -----------------------------
(***************************************************************************)
(* What src/src/pro-store.js promises its callers: one cell that holds a    *)
(* whole envelope or nothing.  A power loss may bring back what it held     *)
(* before an update that was not confirmed, and never undoes an answer.     *)
(***************************************************************************)
CONSTANTS Contents, Unknown

VARIABLES
    now,    \* what a reader finds
    may,    \* what a reader may find after a power loss
    told    \* what the last answer said it holds, until the next update

cellVars == <<now, may, told>>

CellInit == now \in Contents /\ may = {now} /\ told = Unknown

\* An update begins to show.
Update(new) == now' = new /\ may' = may \cup {new} /\ told' = Unknown

\* What it replaced is gone for good; a caller may be told so.
Settle ==
    /\ now' = now
    /\ now \in may' /\ may' \subseteq may
    /\ told' = told \/ (may' = {now} /\ told' = now)

Lose == now' \in may /\ may' = {now'} /\ told' = told

CellNext == Settle \/ Lose \/ \E new \in Contents : Update(new)

CellSpec == CellInit /\ [][CellNext]_cellVars
==============================================================================
