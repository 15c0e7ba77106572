--------------------------- MODULE LifecycleProofs ---------------------------
(***************************************************************************)
(* Proofs about Lifecycle.tla, for any number of calls and any dedupe keys: *)
(* its inductive invariant, what follows from it, and that the coordinator  *)
(* implements the one-owner lock.                                           *)
(***************************************************************************)
EXTENDS Lifecycle, TLAPS

USE LifecycleConstants

\* In the initial state of createLifecycleCoordinator the invariant holds.
LEMMA InitInv == Init => Inv
  <1> SUFFICES ASSUME Init PROVE Inv
    OBVIOUS
  <1> USE DEF Init, All
  <1>1. TypeOK
    <2>1. chain \in Seq(All)
      OBVIOUS
    <2>2. QED
      BY <2>1 DEF TypeOK, Phases, Outcomes
  <1>2. DOMAIN chain = {}
    OBVIOUS
  <1>3. ChainIsWhatWasQueued
    BY <1>2 DEF ChainIsWhatWasQueued, Chained
  <1>4. CloseIsChainedLast
    BY <1>2 DEF CloseIsChainedLast, Chained
  <1>5. RequestOrder /\ OwnerIsRunning
    BY <1>2 DEF RequestOrder, OwnerIsRunning
  <1>6. OneFlightPerKey
    BY DEF OneFlightPerKey
  <1>7. QED
    BY <1>1, <1>3, <1>4, <1>5, <1>6 DEF Inv

\* Every step of the coordinator keeps its variables within their types.
LEMMA TypeStep == TypeOK /\ [Next]_vars => TypeOK'
  <1> SUFFICES ASSUME TypeOK, [Next]_vars PROVE TypeOK'
    OBVIOUS
  <1> USE DEF TypeOK, All, Phases, Outcomes
  <1>1. ASSUME NEW r \in Requests, RunShared(r) PROVE TypeOK'
    BY <1>1 DEF RunShared, InFlight
  <1>2. ASSUME NEW r \in Requests, RunRefused(r) PROVE TypeOK'
    BY <1>2 DEF RunRefused
  <1>3. ASSUME NEW r \in Requests, RunQueued(r) PROVE TypeOK'
    BY <1>3 DEF RunQueued, Enqueue
  <1>4. CASE CloseCall
    BY <1>4 DEF CloseCall, Enqueue
  <1>5. ASSUME NEW i \in DOMAIN chain, Begin(i) PROVE TypeOK'
    BY <1>5 DEF Begin
  <1>6. ASSUME NEW i \in DOMAIN chain, Retire(i) PROVE TypeOK'
    BY <1>6 DEF Retire
  <1>7. ASSUME NEW r \in All, Finish(r) PROVE TypeOK'
    BY <1>7 DEF Finish
  <1>8. ASSUME NEW r \in All, Settle(r) PROVE TypeOK'
    BY <1>8 DEF Settle
  <1>9. CASE UNCHANGED vars
    BY <1>9 DEF vars
  <1>10. QED
    BY <1>1, <1>2, <1>3, <1>4, <1>5, <1>6, <1>7, <1>8, <1>9 DEF Next, Call, Turn

-----------------------------------------------------------------------------
(* What the queue is like when a turn comes, and when it grows.             *)

\* When an entry of operationTail gets its turn, everything before it has
\* settled and everything behind it still waits: nothing is under way.
LEMMA TurnIsQuiet ==
    ASSUME Inv, NEW i \in DOMAIN chain, phase[chain[i]] = "queued", TurnOf(i)
    PROVE  /\ \A j \in DOMAIN chain : j < i => phase[chain[j]] = "settled"
           /\ \A j \in DOMAIN chain : i < j => phase[chain[j]] = "queued"
           /\ \A r \in All : phase[r] \notin {"running", "settling"}
           /\ owner = None
  <1> USE DEF Inv, TypeOK
  <1>1. DOMAIN chain = 1 .. Len(chain) /\ Len(chain) \in Nat
    OBVIOUS
  <1>2. ASSUME NEW j \in DOMAIN chain, j < i PROVE phase[chain[j]] = "settled"
    <2>1. i > 1 /\ i - 1 \in DOMAIN chain
      BY <1>1, <1>2
    <2>2. phase[chain[i - 1]] = "settled"
      BY <2>1 DEF TurnOf
    <2>3. CASE j = i - 1
      BY <2>2, <2>3
    <2>4. CASE j < i - 1
      BY <2>1, <2>2, <2>4 DEF RequestOrder
    <2>5. QED
      BY <1>1, <1>2, <2>3, <2>4
  <1>3. ASSUME NEW j \in DOMAIN chain, i < j PROVE phase[chain[j]] = "queued"
    BY <1>3 DEF RequestOrder
  <1>4. ASSUME NEW r \in All PROVE phase[r] \notin {"running", "settling"}
    <2>1. CASE Chained(r)
      <3>1. PICK j \in DOMAIN chain : chain[j] = r
        BY <2>1 DEF Chained
      <3>2. j < i \/ j = i \/ i < j
        BY <1>1
      <3>3. QED
        BY <1>2, <1>3, <3>1, <3>2
    <2>2. CASE ~Chained(r)
      BY <2>2 DEF ChainIsWhatWasQueued
    <2>3. QED
      BY <2>1, <2>2
  <1>5. owner = None
    BY <1>4 DEF OwnerIsRunning
  <1>6. QED
    BY <1>2, <1>3, <1>4, <1>5

\* enqueue() chains a request that was not chained before, behind all others.
LEMMA EnqueueExtends ==
    ASSUME Inv, NEW r \in All, ~Chained(r), Enqueue(r)
    PROVE  /\ Len(chain) \in Nat
           /\ Len(chain') = Len(chain) + 1
           /\ DOMAIN chain = 1 .. Len(chain)
           /\ DOMAIN chain' = 1 .. Len(chain) + 1
           /\ chain'[Len(chain) + 1] = r
           /\ \A i \in DOMAIN chain : chain'[i] = chain[i] /\ chain[i] \in All \ {r}
           /\ \A s \in All : Chained(s)' <=> Chained(s) \/ s = r
           /\ \A s \in All : phase'[s] = IF s = r THEN "queued" ELSE phase[s]
  <1> USE DEF Inv, TypeOK, Enqueue
  <1>1. Len(chain) \in Nat /\ DOMAIN chain = 1 .. Len(chain)
    OBVIOUS
  <1>2. chain' = Append(chain, r)
    OBVIOUS
  <1>3. /\ Len(chain') = Len(chain) + 1
        /\ DOMAIN chain' = 1 .. Len(chain) + 1
        /\ chain'[Len(chain) + 1] = r
        /\ \A i \in DOMAIN chain : chain'[i] = chain[i]
    BY <1>1, <1>2
  <1>4. \A i \in DOMAIN chain : chain[i] \in All \ {r}
    BY <1>1 DEF Chained
  <1>5. \A s \in All : Chained(s)' <=> Chained(s) \/ s = r
    BY <1>1, <1>3 DEF Chained
  <1>6. \A s \in All : phase'[s] = IF s = r THEN "queued" ELSE phase[s]
    OBVIOUS
  <1>7. QED
    BY <1>1, <1>3, <1>4, <1>5, <1>6

\* So the queue keeps its shape, and the request order.
LEMMA EnqueueKeepsOrder ==
    ASSUME Inv, NEW r \in All, ~Chained(r), Enqueue(r)
    PROVE  ChainIsWhatWasQueued' /\ RequestOrder'
  <1>1. ChainIsWhatWasQueued'
    BY EnqueueExtends DEF Inv, ChainIsWhatWasQueued
  <1>2. RequestOrder'
    BY EnqueueExtends DEF Inv, RequestOrder
  <1>3. QED
    BY <1>1, <1>2

-----------------------------------------------------------------------------
(* The invariant is inductive: a call, a close, and each step of the chain. *)

\* A call of run() that gets a promise of another call, or undefined, leaves
\* the chain alone.
LEMMA UnqueuedCallStep ==
    ASSUME Inv, TypeOK', NEW r \in Requests, RunShared(r) \/ RunRefused(r)
    PROVE  Inv'
  <1> USE DEF Inv, TypeOK
  <1>1. /\ phase[r] = "idle" /\ phase'[r] \in {"shared", "refused"}
        /\ \A s \in All \ {r} : phase'[s] = phase[s]
        /\ UNCHANGED <<chain, owner, closing, flights>>
    BY DEF RunShared, RunRefused, All
  <1>2. r \in All /\ ~Chained(r)
    BY <1>1 DEF ChainIsWhatWasQueued, All
  <1>3. \A s \in All : Chained(s)' <=> Chained(s)
    BY <1>1 DEF Chained
  <1>4. ChainIsWhatWasQueued'
    BY <1>1, <1>2, <1>3 DEF ChainIsWhatWasQueued
  <1>5. CloseIsChainedLast'
    BY <1>1, <1>3 DEF CloseIsChainedLast, All
  <1>6. RequestOrder'
    <2>1. \A i \in DOMAIN chain : chain[i] \in All /\ chain[i] # r
      BY <1>2 DEF Chained
    <2>2. QED
      BY <1>1, <2>1 DEF RequestOrder
  <1>7. OwnerIsRunning'
    BY <1>1, <1>2 DEF OwnerIsRunning
  <1>8. OneFlightPerKey'
    BY <1>1 DEF OneFlightPerKey, All
  <1>9. QED
    BY <1>4, <1>5, <1>6, <1>7, <1>8

\* A call of run() that is queued starts the flight of its key: no other
\* request of that key is under way.
LEMMA RunQueuedStep ==
    ASSUME Inv, TypeOK', NEW r \in Requests, RunQueued(r)
    PROVE  Inv'
  <1> USE DEF Inv, TypeOK
  <1>1. /\ r \in All /\ r # Close /\ phase[r] = "idle" /\ Enqueue(r)
        /\ ~closing /\ UNCHANGED <<owner, closing>>
    BY DEF RunQueued, All
  <1>2. ~Chained(r)
    BY <1>1 DEF ChainIsWhatWasQueued
  <1>3. ChainIsWhatWasQueued' /\ RequestOrder'
    BY <1>1, <1>2, EnqueueKeepsOrder
  <1>4. CloseIsChainedLast'
    <2>1. ~Chained(Close)'
      BY <1>1, <1>2, EnqueueExtends DEF CloseIsChainedLast, All
    <2>2. QED
      BY <1>1, <2>1 DEF CloseIsChainedLast, Chained
  <1>5. \A s \in All : phase'[s] = IF s = r THEN "queued" ELSE phase[s]
    BY <1>1 DEF Enqueue
  <1>6. OwnerIsRunning'
    BY <1>1, <1>5 DEF OwnerIsRunning
  <1>7. OneFlightPerKey'
    <2> SUFFICES ASSUME NEW k \in Keys, NEW s \in Requests
                 PROVE flights'[k] = s
                         <=> (KeyOf[s] = k /\ phase'[s] \in {"queued", "running", "settling"})
      BY DEF OneFlightPerKey
    <2>1. s \in All /\ k # NoKey
      BY DEF All
    <2>2. flights'[k] = IF k = KeyOf[r] THEN r ELSE flights[k]
      BY DEF RunQueued
    <2>3. CASE k = KeyOf[r]
      <3>1. flights[k] = None
        BY <2>1, <2>3 DEF RunQueued, InFlight
      <3>2. s # r => ~(KeyOf[s] = k /\ phase[s] \in {"queued", "running", "settling"})
        BY <2>1, <3>1 DEF OneFlightPerKey
      <3>3. QED
        BY <1>5, <2>1, <2>2, <2>3, <3>2
    <2>4. CASE k # KeyOf[r]
      BY <1>1, <1>5, <2>1, <2>2, <2>4 DEF OneFlightPerKey
    <2>5. QED
      BY <2>3, <2>4
  <1>8. QED
    BY <1>3, <1>4, <1>6, <1>7

\* close() chains its cleanup behind everything, and nothing comes after it.
LEMMA CloseCallStep ==
    ASSUME Inv, TypeOK', CloseCall
    PROVE  Inv'
  <1> USE DEF Inv, TypeOK
  <1>1. Close \in All /\ Enqueue(Close) /\ UNCHANGED <<owner, flights>> /\ closing'
    BY DEF CloseCall, All
  <1>2. ~Chained(Close)
    BY DEF CloseCall, CloseIsChainedLast
  <1>3. ChainIsWhatWasQueued' /\ RequestOrder'
    BY <1>1, <1>2, EnqueueKeepsOrder
  <1>4. CloseIsChainedLast'
    BY <1>1, <1>2, EnqueueExtends DEF CloseIsChainedLast
  <1>5. \A s \in All : phase'[s] = IF s = Close THEN "queued" ELSE phase[s]
    BY <1>1 DEF Enqueue
  <1>6. phase[Close] # "running"
    BY <1>1, <1>2 DEF ChainIsWhatWasQueued
  <1>7. OwnerIsRunning'
    BY <1>1, <1>5, <1>6 DEF OwnerIsRunning
  <1>8. OneFlightPerKey'
    <2>1. \A s \in Requests : phase'[s] = phase[s]
      BY <1>5 DEF All
    <2>2. QED
      BY <1>1, <2>1 DEF OneFlightPerKey
  <1>9. QED
    BY <1>3, <1>4, <1>7, <1>8

\* A chained request that moves on, from the turn to the settled promise,
\* without the queue changing: enough to know the order and the flights.
LEMMA ChainedStep ==
    ASSUME Inv, NEW r \in All, Chained(r), UNCHANGED <<chain, closing>>,
           \A s \in All \ {r} : phase'[s] = phase[s],
           phase'[r] \in {"running", "settling", "settled"}
    PROVE  ChainIsWhatWasQueued' /\ CloseIsChainedLast'
  <1> USE DEF Inv, TypeOK
  <1>1. \A s \in All : Chained(s)' <=> Chained(s)
    BY DEF Chained
  <1>2. ChainIsWhatWasQueued'
    BY <1>1 DEF ChainIsWhatWasQueued
  <1>3. CloseIsChainedLast'
    BY <1>1 DEF CloseIsChainedLast, All
  <1>4. QED
    BY <1>2, <1>3

\* A turn is taken or given up: the request order holds because nothing is
\* under way then.
LEMMA TurnStep ==
    ASSUME Inv, TypeOK', NEW i \in DOMAIN chain, Begin(i) \/ Retire(i)
    PROVE  Inv'
  <1> USE DEF Inv, TypeOK
  <1> DEFINE r == chain[i]
  <1>1. r \in All /\ Chained(r)
    BY DEF Chained
  <1>2. /\ phase[r] = "queued" /\ TurnOf(i) /\ UNCHANGED <<chain, closing, flights>>
        /\ \A s \in All \ {r} : phase'[s] = phase[s]
        /\ phase'[r] \in {"running", "settling"}
        /\ \/ phase'[r] = "running" /\ owner' = r
           \/ phase'[r] = "settling" /\ owner' = owner
    BY <1>1 DEF Begin, Retire
  <1>3. /\ \A j \in DOMAIN chain : j < i => phase[chain[j]] = "settled"
        /\ \A j \in DOMAIN chain : i < j => phase[chain[j]] = "queued"
        /\ \A s \in All : phase[s] \notin {"running", "settling"}
        /\ owner = None
    BY <1>2, TurnIsQuiet
  <1>4. ChainIsWhatWasQueued' /\ CloseIsChainedLast'
    BY <1>1, <1>2, ChainedStep
  <1>5. RequestOrder'
    <2>1. ASSUME NEW j \in DOMAIN chain PROVE j # i => chain[j] \in All \ {r}
      BY DEF ChainIsWhatWasQueued
    <2>2. \A j \in DOMAIN chain : j < i => phase'[chain[j]] = "settled"
      BY <1>2, <1>3, <2>1
    <2>3. \A j \in DOMAIN chain : i < j => phase'[chain[j]] = "queued"
      BY <1>2, <1>3, <2>1
    <2>4. SUFFICES ASSUME NEW j \in DOMAIN chain, NEW l \in DOMAIN chain,
                          j < l, phase'[chain[l]] # "queued"
                   PROVE phase'[chain[j]] = "settled"
      BY <1>2 DEF RequestOrder
    <2>5. l <= i /\ j < i
      BY <2>3, <2>4
    <2>6. QED
      BY <2>2, <2>5
  <1>6. OwnerIsRunning'
    BY <1>1, <1>2, <1>3 DEF OwnerIsRunning
  <1>7. OneFlightPerKey'
    BY <1>2 DEF OneFlightPerKey, All
  <1>8. QED
    BY <1>4, <1>5, <1>6, <1>7

\* The owner's operation ends: it stays in flight until its promise settles.
LEMMA FinishStep ==
    ASSUME Inv, TypeOK', NEW r \in All, Finish(r)
    PROVE  Inv'
  <1> USE DEF Inv, TypeOK
  <1>1. /\ phase[r] = "running" /\ phase'[r] = "settling"
        /\ \A s \in All \ {r} : phase'[s] = phase[s]
        /\ UNCHANGED <<chain, closing, flights>>
        /\ owner = r /\ owner' = None
    BY DEF Finish, OwnerIsRunning
  <1>2. Chained(r)
    BY <1>1 DEF ChainIsWhatWasQueued
  <1>3. ChainIsWhatWasQueued' /\ CloseIsChainedLast'
    BY <1>1, <1>2, ChainedStep
  <1>4. RequestOrder'
    BY <1>1 DEF RequestOrder
  <1>5. OwnerIsRunning'
    BY <1>1 DEF OwnerIsRunning
  <1>6. OneFlightPerKey'
    BY <1>1 DEF OneFlightPerKey, All
  <1>7. QED
    BY <1>3, <1>4, <1>5, <1>6

\* The promise settles and takes its flight along.
LEMMA SettleStep ==
    ASSUME Inv, TypeOK', NEW r \in All, Settle(r)
    PROVE  Inv'
  <1> USE DEF Inv, TypeOK
  <1>1. /\ phase[r] = "settling" /\ phase'[r] = "settled"
        /\ \A s \in All \ {r} : phase'[s] = phase[s]
        /\ UNCHANGED <<chain, closing, owner>>
    BY DEF Settle
  <1>2. Chained(r)
    BY <1>1 DEF ChainIsWhatWasQueued
  <1>3. ChainIsWhatWasQueued' /\ CloseIsChainedLast'
    BY <1>1, <1>2, ChainedStep
  <1>4. RequestOrder'
    BY <1>1 DEF RequestOrder
  <1>5. OwnerIsRunning'
    BY <1>1 DEF OwnerIsRunning
  <1>6. OneFlightPerKey'
    <2>1. \A k \in Keys : flights'[k] = IF flights[k] = r THEN None ELSE flights[k]
      BY DEF Settle
    <2>2. QED
      BY <1>1, <2>1 DEF OneFlightPerKey, All
  <1>7. QED
    BY <1>3, <1>4, <1>5, <1>6

\* Every step of the coordinator preserves the invariant.
LEMMA InvStep == Inv /\ [Next]_vars => Inv'
  <1> SUFFICES ASSUME Inv, [Next]_vars PROVE Inv'
    OBVIOUS
  <1>1. TypeOK'
    BY TypeStep DEF Inv
  <1>2. ASSUME NEW r \in Requests, Call(r) PROVE Inv'
    BY <1>1, <1>2, UnqueuedCallStep, RunQueuedStep DEF Call
  <1>3. CASE CloseCall
    BY <1>1, <1>3, CloseCallStep
  <1>4. ASSUME NEW i \in DOMAIN chain, Turn(i) PROVE Inv'
    BY <1>1, <1>4, TurnStep DEF Turn
  <1>5. ASSUME NEW r \in All, Finish(r) PROVE Inv'
    BY <1>1, <1>5, FinishStep
  <1>6. ASSUME NEW r \in All, Settle(r) PROVE Inv'
    BY <1>1, <1>6, SettleStep
  <1>7. CASE UNCHANGED vars
    BY <1>7 DEF vars, Inv, TypeOK, ChainIsWhatWasQueued, Chained, CloseIsChainedLast,
                RequestOrder, OwnerIsRunning, OneFlightPerKey
  <1>8. QED
    BY <1>2, <1>3, <1>4, <1>5, <1>6, <1>7 DEF Next

-----------------------------------------------------------------------------
(* What every execution of the coordinator satisfies.                       *)

\* The inductive invariant of createLifecycleCoordinator holds throughout.
THEOREM Invariance == Spec => []Inv
  BY InitInv, InvStep, PTL DEF Spec

\* Its variables keep their types.
THEOREM TypeCorrect == Spec => []TypeOK
  <1>1. Inv => TypeOK
    BY DEF Inv
  <1>2. QED
    BY <1>1, Invariance, PTL

\* "Operations run in request order" (the comment of the coordinator), with one
\* owner at a time, whatever was rejected or retired on the way.
THEOREM RequestOrderHolds == Spec => []RequestOrder
  <1>1. Inv => RequestOrder
    BY DEF Inv
  <1>2. QED
    BY <1>1, Invariance, PTL

\* "A named duplicate shares the first Promise": one flight for each key, gone
\* exactly when its promise settles.
THEOREM OneFlightPerKeyHolds == Spec => []OneFlightPerKey
  <1>1. Inv => OneFlightPerKey
    BY DEF Inv
  <1>2. QED
    BY <1>1, Invariance, PTL

\* Once the cleanup of close() has begun, every request has settled for good.
LEMMA CleanupIsAlone == Inv => FinalCleanupIsLast
  <1> SUFFICES ASSUME Inv, phase[Close] \in {"running", "settling", "settled"},
                      NEW r \in Requests
               PROVE  phase[r] \notin {"queued", "running", "settling"}
    BY DEF FinalCleanupIsLast
  <1> USE DEF Inv, TypeOK
  <1>1. r \in All /\ Close \in All /\ r # Close
    BY DEF All
  <1>2. PICK j \in DOMAIN chain : chain[j] = Close
    BY <1>1 DEF ChainIsWhatWasQueued, Chained
  <1>3. CASE Chained(r)
    <2>1. PICK i \in DOMAIN chain : chain[i] = r
      BY <1>3 DEF Chained
    <2>2. i < j
      BY <1>1, <1>2, <2>1 DEF CloseIsChainedLast
    <2>3. phase[chain[i]] = "settled"
      BY <1>2, <2>2 DEF RequestOrder
    <2>4. QED
      BY <2>1, <2>3
  <1>4. CASE ~Chained(r)
    BY <1>1, <1>4 DEF ChainIsWhatWasQueued
  <1>5. QED
    BY <1>3, <1>4

\* "Exactly one final cleanup runs after that owner settles."
THEOREM FinalCleanupIsLastHolds == Spec => []FinalCleanupIsLast
  BY Invariance, CleanupIsAlone, PTL

\* After close() no operation but the cleanup ever gains ownership.
THEOREM NothingStartsAfterCloseHolds == Spec => NothingStartsAfterClose
  <1> DEFINE Quiet == \A r \in Requests :
                        closing /\ phase[r] # "running" => phase'[r] # "running"
  <1>1. Inv /\ [Next]_vars => [Quiet]_vars
    <2> SUFFICES ASSUME Inv, Next, NEW r \in Requests, closing, phase[r] # "running"
                 PROVE  phase'[r] # "running"
      OBVIOUS
    <2> USE DEF Inv, TypeOK
    <2>1. r \in All /\ r # Close
      BY DEF All
    <2>2. ASSUME NEW s \in Requests, Call(s) PROVE phase'[r] # "running"
      BY <2>1, <2>2 DEF Call, RunShared, RunRefused, RunQueued, Enqueue
    <2>3. CASE CloseCall
      BY <2>3 DEF CloseCall
    <2>4. ASSUME NEW i \in DOMAIN chain, Turn(i) PROVE phase'[r] # "running"
      BY <2>1, <2>4 DEF Turn, Begin, Retire
    <2>5. ASSUME NEW s \in All, Finish(s) \/ Settle(s) PROVE phase'[r] # "running"
      BY <2>1, <2>5 DEF Finish, Settle
    <2>6. QED
      BY <2>2, <2>3, <2>4, <2>5 DEF Next
  <1>2. QED
    BY <1>1, Invariance, PTL DEF Spec, NothingStartsAfterClose

\* A shared promise is of the caller's own key and has not settled.
THEOREM NoStaleShareHolds == Spec => NoStaleShare
  <1> DEFINE Fresh == \A r \in Requests :
                        phase[r] = "idle" /\ phase'[r] = "shared" =>
                          /\ KeyOf[promise'[r]] = KeyOf[r]
                          /\ phase[promise'[r]] # "settled"
  <1>1. Inv /\ [Next]_vars => [Fresh]_vars
    <2> SUFFICES ASSUME Inv, Next, NEW r \in Requests,
                        phase[r] = "idle", phase'[r] = "shared"
                 PROVE  /\ KeyOf[promise'[r]] = KeyOf[r]
                        /\ phase[promise'[r]] # "settled"
      OBVIOUS
    <2> USE DEF Inv, TypeOK
    <2>1. r \in All /\ r # Close
      BY DEF All
    <2>2. RunShared(r)
      <3>1. ASSUME NEW s \in Requests, Call(s), s # r \/ ~RunShared(r) PROVE FALSE
        BY <2>1, <3>1 DEF Call, RunShared, RunRefused, RunQueued, Enqueue
      <3>2. ~CloseCall
        BY <2>1 DEF CloseCall, Enqueue
      <3>3. ASSUME NEW i \in DOMAIN chain, Turn(i) PROVE FALSE
        BY <2>1, <3>3 DEF Turn, Begin, Retire
      <3>4. ASSUME NEW s \in All, Finish(s) \/ Settle(s) PROVE FALSE
        BY <2>1, <3>4 DEF Finish, Settle
      <3>5. QED
        BY <3>1, <3>2, <3>3, <3>4 DEF Next
    <2>3. /\ KeyOf[r] \in Keys /\ flights[KeyOf[r]] \in Requests
          /\ promise'[r] = flights[KeyOf[r]]
      BY <2>1, <2>2 DEF RunShared, InFlight
    <2>4. QED
      BY <2>3 DEF OneFlightPerKey
  <1>2. QED
    BY <1>1, Invariance, PTL DEF Spec, NoStaleShare

-----------------------------------------------------------------------------
(* The coordinator implements the one-owner lock of OwnerLock.tla: Begin    *)
(* acquires it, Finish releases it, close() seals it, and the rest stutters.*)

\* Taking a turn acquires a free lock, for the first and last time, and the
\* cleanup of close() does so after everyone else.
LEMMA BeginAcquires ==
    ASSUME Inv, NEW i \in DOMAIN chain, Begin(i)
    PROVE  Lock!Acquire(chain[i])
  <1> USE DEF Inv, TypeOK
  <1> DEFINE r == chain[i]
  <1>1. r \in All /\ Close \in All
    BY DEF All
  <1>2. /\ phase[r] = "queued" /\ TurnOf(i) /\ phase'[r] = "running"
        /\ \A s \in All \ {r} : phase'[s] = phase[s]
        /\ owner' = r /\ UNCHANGED <<outcome, closing>>
    BY <1>1 DEF Begin
  <1>3. owner = None
    BY <1>2, TurnIsQuiet
  <1>4. r \notin Served
    BY <1>2 DEF Served
  <1>5. Close \notin Served
    <2>1. CASE r = Close
      BY <1>4, <2>1
    <2>2. CASE r # Close
      BY <1>1, <1>2, <2>2, CleanupIsAlone DEF FinalCleanupIsLast, Served, All
    <2>3. QED
      BY <2>1, <2>2
  <1>6. closing <=> r = Close
    BY <1>1 DEF Begin, CloseIsChainedLast, Chained
  <1>7. Served' = Served \cup {r}
    BY <1>1, <1>2 DEF Served
  <1>8. QED
    BY <1>2, <1>3, <1>4, <1>5, <1>6, <1>7 DEF Lock!Acquire

\* An operation that ends releases the lock it holds.
LEMMA FinishReleases ==
    ASSUME Inv, NEW r \in All, Finish(r)
    PROVE  Lock!Release
  <1> USE DEF Inv, TypeOK
  <1>1. owner = r /\ owner' = None /\ r # None /\ UNCHANGED closing
    BY DEF Finish, OwnerIsRunning
  <1>2. Served' = Served
    BY DEF Finish, Served
  <1>3. QED
    BY <1>1, <1>2 DEF Lock!Release

\* Every other step leaves the lock alone, but for close(), which seals it.
LEMMA OthersStutter ==
    ASSUME Inv,
           \/ \E r \in Requests : Call(r)
           \/ \E i \in DOMAIN chain : Retire(i)
           \/ \E r \in All : Settle(r)
    PROVE  UNCHANGED Lock!lockVars
  <1> USE DEF Inv, TypeOK, Lock!lockVars
  <1>1. ASSUME NEW r \in Requests, Call(r) PROVE UNCHANGED Lock!lockVars
    BY <1>1 DEF Call, RunShared, RunRefused, RunQueued, Enqueue, Served, All
  <1>2. ASSUME NEW i \in DOMAIN chain, Retire(i) PROVE UNCHANGED Lock!lockVars
    BY <1>2 DEF Retire, Served
  <1>3. ASSUME NEW r \in All, Settle(r) PROVE UNCHANGED Lock!lockVars
    BY <1>3 DEF Settle, Served
  <1>4. QED
    BY <1>1, <1>2, <1>3

\* close() seals the lock without touching its holder.
LEMMA CloseSeals ==
    ASSUME Inv, CloseCall
    PROVE  Lock!Seal
  <1> USE DEF Inv, TypeOK
  <1>1. phase[Close] \notin {"running", "settling", "settled"}
    BY DEF CloseCall, CloseIsChainedLast, ChainIsWhatWasQueued, All
  <1>2. Served' = Served
    BY <1>1 DEF CloseCall, Enqueue, Served, All
  <1>3. QED
    BY <1>2 DEF CloseCall, Lock!Seal

\* The coordinator gives the daemon and the Pro state "one asynchronous owner"
\* and "exactly one final cleanup": it implements the abstract lock.
THEOREM LifecycleImplementsLock == Spec => ImplementsLock
  <1>1. Init => Lock!LockInit
    BY DEF Init, Lock!LockInit, Served, All
  <1>2. Inv /\ [Next]_vars => [Lock!LockNext]_(Lock!lockVars)
    <2> SUFFICES ASSUME Inv, [Next]_vars
                 PROVE  Lock!LockNext \/ UNCHANGED Lock!lockVars
      OBVIOUS
    <2>1. ASSUME NEW i \in DOMAIN chain, Begin(i) PROVE Lock!LockNext
      <3>1. chain[i] \in All
        BY DEF Inv, TypeOK
      <3>2. QED
        BY <2>1, <3>1, BeginAcquires DEF Lock!LockNext
    <2>2. ASSUME NEW r \in All, Finish(r) PROVE Lock!LockNext
      BY <2>2, FinishReleases DEF Lock!LockNext
    <2>3. CASE CloseCall
      BY <2>3, CloseSeals DEF Lock!LockNext
    <2>4. CASE UNCHANGED vars
      BY <2>4 DEF vars, Lock!lockVars, Served
    <2>5. QED
      BY <2>1, <2>2, <2>3, <2>4, OthersStutter DEF Next, Turn
  <1>3. QED
    BY <1>1, <1>2, Invariance, PTL DEF Spec, ImplementsLock, Lock!LockSpec
==============================================================================
