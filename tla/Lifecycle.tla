------------------------------ MODULE Lifecycle ------------------------------
(***************************************************************************)
(* createLifecycleCoordinator of src/src/app-lifecycle.js: the FIFO chain   *)
(* of promises that gives every main-process transition one asynchronous    *)
(* owner.  Each element of Requests is one call of run(), Close is the one  *)
(* request that close() makes.                                              *)
(*                                                                          *)
(* A step is what JavaScript runs without yielding: a call of run() or      *)
(* close(), the microtask that begins a queued operation, the operation     *)
(* settling (its "finally" clears the owner), and the settlement of the     *)
(* promise the callers hold, which also drops its flight.  Callers can run  *)
(* between any two of these, also between the last two.                     *)
(***************************************************************************)
EXTENDS Naturals, Sequences

CONSTANTS Requests,     \* the calls of run()
          Close,        \* the request made by close()
          Keys, NoKey,  \* dedupe keys, and dedupeKey = null
          KeyOf,        \* the dedupeKey option of each call
          None          \* null

All == Requests \cup {Close}

ASSUME LifecycleConstants ==
    /\ Close \notin Requests
    /\ None \notin All
    /\ NoKey \notin Keys
    /\ KeyOf \in [Requests -> Keys \cup {NoKey}]

\* The request that is asked, from the call to the settled promise.  "shared"
\* got the promise of another call, "refused" got undefined at once.
Phases == {"idle", "shared", "refused", "queued", "running", "settling", "settled"}
Outcomes == {"none", "value", "rejected", "undefined"}

VARIABLES phase,    \* [All -> Phases]
          promise,  \* the request whose promise a caller holds, or None
          outcome,  \* how the request's own promise settles
          chain,    \* operationTail: every request chained so far, oldest first
          owner,    \* the request whose operation owns the shared state
          closing,
          flights   \* [Keys -> Requests \cup {None}], the named flights

vars == <<phase, promise, outcome, chain, owner, closing, flights>>

TypeOK ==
    /\ phase \in [All -> Phases]
    /\ promise \in [All -> All \cup {None}]
    /\ \A r \in All : promise[r] = None <=> phase[r] \in {"idle", "refused"}
    /\ outcome \in [All -> Outcomes]
    /\ chain \in Seq(All)
    /\ owner \in All \cup {None}
    /\ closing \in BOOLEAN
    /\ flights \in [Keys -> Requests \cup {None}]

Init ==
    /\ phase = [r \in All |-> "idle"]
    /\ promise = [r \in All |-> None]
    /\ outcome = [r \in All |-> "none"]
    /\ chain = <<>>
    /\ owner = None
    /\ closing = FALSE
    /\ flights = [k \in Keys |-> None]

-----------------------------------------------------------------------------
(* Calls.                                                                   *)

\* result = operationTail.then(...); operationTail = result.catch(...)
Enqueue(r) ==
    /\ phase' = [phase EXCEPT ![r] = "queued"]
    /\ promise' = [promise EXCEPT ![r] = r]
    /\ chain' = Append(chain, r)

InFlight(r) == KeyOf[r] # NoKey /\ flights[KeyOf[r]] # None

\* A named duplicate gets the first promise, also while closing.
RunShared(r) ==
    /\ phase[r] = "idle"
    /\ InFlight(r)
    /\ phase' = [phase EXCEPT ![r] = "shared"]
    /\ promise' = [promise EXCEPT ![r] = flights[KeyOf[r]]]
    /\ UNCHANGED <<outcome, chain, owner, closing, flights>>

RunRefused(r) ==
    /\ phase[r] = "idle"
    /\ ~InFlight(r)
    /\ closing
    /\ phase' = [phase EXCEPT ![r] = "refused"]
    /\ outcome' = [outcome EXCEPT ![r] = "undefined"]
    /\ UNCHANGED <<promise, chain, owner, closing, flights>>

\* Mutant: the flight is not registered.
RunUnregistered(r) ==
    /\ phase[r] = "idle"
    /\ ~InFlight(r)
    /\ ~closing
    /\ Enqueue(r)
    /\ UNCHANGED <<outcome, owner, closing, flights>>

RunQueued(r) ==
    /\ phase[r] = "idle"
    /\ ~InFlight(r)
    /\ ~closing
    /\ Enqueue(r)
    /\ flights' = [k \in Keys |-> IF k = KeyOf[r] THEN r ELSE flights[k]]
    /\ UNCHANGED <<outcome, owner, closing>>

\* Only the first close() does anything: later ones return its promise.
CloseCall ==
    /\ ~closing
    /\ closing' = TRUE
    /\ Enqueue(Close)
    /\ UNCHANGED <<outcome, owner, flights>>

-----------------------------------------------------------------------------
(* The chain.                                                               *)

\* Mutants: chained to the start of the operation instead of its end; and to a
\* rejected promise, which poisons what follows.
TurnOnStart(i) == i > 1 => phase[chain[i - 1]] # "queued"
TurnOnSuccess(i) ==
    i > 1 => phase[chain[i - 1]] = "settled" /\ outcome[chain[i - 1]] # "rejected"
\* The promise that entry i was chained to has settled.
TurnOf(i) == i > 1 => phase[chain[i - 1]] = "settled"

\* Mutant: closing is only looked at when the call is made.
BeginLate(i) ==
    /\ phase[chain[i]] = "queued"
    /\ TurnOf(i)
    /\ owner' = chain[i]
    /\ phase' = [phase EXCEPT ![chain[i]] = "running"]
    /\ UNCHANGED <<promise, outcome, chain, closing, flights>>

\* The entry's turn has come, and it may still own the shared state.
Begin(i) ==
    /\ phase[chain[i]] = "queued"
    /\ TurnOf(i)
    /\ ~closing \/ chain[i] = Close
    /\ owner' = chain[i]
    /\ phase' = [phase EXCEPT ![chain[i]] = "running"]
    /\ UNCHANGED <<promise, outcome, chain, closing, flights>>

\* The entry's turn has come after close(): it is retired without its operation.
Retire(i) ==
    /\ phase[chain[i]] = "queued"
    /\ TurnOf(i)
    /\ closing /\ chain[i] # Close
    /\ phase' = [phase EXCEPT ![chain[i]] = "settling"]
    /\ outcome' = [outcome EXCEPT ![chain[i]] = "undefined"]
    /\ UNCHANGED <<promise, chain, owner, closing, flights>>

\* Mutant: the owner is only cleared by an operation that returns.
FinishOnReturn(r) ==
    /\ phase[r] = "running"
    /\ \E result \in {"value", "rejected"} :
         /\ outcome' = [outcome EXCEPT ![r] = result]
         /\ owner' = IF result = "value" THEN None ELSE owner
    /\ phase' = [phase EXCEPT ![r] = "settling"]
    /\ UNCHANGED <<promise, chain, closing, flights>>

\* The owner's operation returns or throws; "finally" clears the owner.
Finish(r) ==
    /\ phase[r] = "running"
    /\ \E result \in {"value", "rejected"} : outcome' = [outcome EXCEPT ![r] = result]
    /\ phase' = [phase EXCEPT ![r] = "settling"]
    /\ owner' = IF owner = r THEN None ELSE owner
    /\ UNCHANGED <<promise, chain, closing, flights>>

\* The promise settles: the flight goes in the reaction next to the one that
\* settles operationTail, before any caller's continuation or the next turn.
Settle(r) ==
    /\ phase[r] = "settling"
    /\ phase' = [phase EXCEPT ![r] = "settled"]
    /\ flights' = [k \in Keys |-> IF flights[k] = r THEN None ELSE flights[k]]
    /\ UNCHANGED <<promise, outcome, chain, owner, closing>>

Turn(i) == Begin(i) \/ Retire(i)
Call(r) == RunShared(r) \/ RunRefused(r) \/ RunQueued(r)

Next ==
    \/ \E r \in Requests : Call(r)
    \/ CloseCall
    \/ \E i \in DOMAIN chain : Turn(i)
    \/ \E r \in All : Finish(r) \/ Settle(r)

\* Microtasks always run.  An owner's operation is only known to end once
\* closing: every wait of the operations in main.js is then bounded by a timer
\* or raced with whenClosing, while before that it may wait for the user.
Fairness ==
    /\ WF_vars(\E i \in DOMAIN chain : Turn(i))
    /\ WF_vars(\E r \in All : Settle(r))
    /\ WF_vars(closing /\ \E r \in All : Finish(r))

Spec == Init /\ [][Next]_vars
FairSpec == Spec /\ Fairness

-----------------------------------------------------------------------------
(* Properties.                                                              *)

Chained(r) == \E i \in DOMAIN chain : chain[i] = r

\* Operations own the shared state one at a time and in request order: an
\* entry of operationTail leaves the queue only when all before it have settled,
\* rejected and retired ones included.
RequestOrder ==
    \A i, j \in DOMAIN chain :
        i < j /\ phase[chain[j]] # "queued" => phase[chain[i]] = "settled"

\* Calls that share a key share one execution, and a flight never outlives
\* its promise: flights holds exactly the chained, unsettled request of a key.
OneFlightPerKey ==
    \A k \in Keys : \A r \in Requests :
        flights[k] = r
            <=> (KeyOf[r] = k /\ phase[r] \in {"queued", "running", "settling"})

\* The cleanup of close() runs last: nothing is chained behind it, and once it
\* has begun every other operation has settled.
FinalCleanupIsLast ==
    phase[Close] \in {"running", "settling", "settled"} =>
        \A r \in Requests : phase[r] \notin {"queued", "running", "settling"}

\* The inductive invariant of LifecycleProofs.  The chain holds every request
\* that was ever queued, once, and Close only at its end; `owner`, which main.js
\* reads, names exactly the operation that runs.
ChainIsWhatWasQueued ==
    /\ \A i, j \in DOMAIN chain : chain[i] = chain[j] => i = j
    /\ \A r \in All : Chained(r) <=> phase[r] \notin {"idle", "shared", "refused"}

CloseIsChainedLast ==
    /\ closing <=> Chained(Close)
    /\ \A i \in DOMAIN chain : chain[i] = Close => i = Len(chain)

OwnerIsRunning == \A r \in All : owner = r <=> phase[r] = "running"

Inv ==
    /\ TypeOK
    /\ ChainIsWhatWasQueued
    /\ CloseIsChainedLast
    /\ RequestOrder
    /\ OwnerIsRunning
    /\ OneFlightPerKey

\* close() retires queued work before it can touch state: after it, the only
\* operation that gains ownership is the cleanup.
NothingStartsAfterClose ==
    [][\A r \in Requests : closing /\ phase[r] # "running" => phase'[r] # "running"]_vars

\* A duplicate joins only a promise that has not settled, so that no caller is
\* ever handed the result of an operation that was over when it called.
NoStaleShare ==
    [][\A r \in Requests :
         phase[r] = "idle" /\ phase'[r] = "shared" =>
            /\ KeyOf[promise'[r]] = KeyOf[r]
            /\ phase[promise'[r]] # "settled"]_vars

\* The one-owner lock that the coordinator implements.
Served == {r \in All : phase[r] = "running"
                       \/ (phase[r] \in {"settling", "settled"} /\ outcome[r] # "undefined")}

Lock == INSTANCE OwnerLock WITH
            Ops <- All, Final <- Close, Nobody <- None,
            holder <- owner, served <- Served, sealed <- closing

ImplementsLock == Lock!LockSpec

\* After close() the cleanup itself runs and settles, and so does the promise
\* of every call ever made, whatever was rejected on the way.
CloseSettlesAll ==
    closing ~> /\ phase[Close] = "settled"
               /\ \A r \in All : promise[r] # None => phase[promise[r]] = "settled"
==============================================================================
