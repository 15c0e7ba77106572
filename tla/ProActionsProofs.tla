--------------------------- MODULE ProActionsProofs ---------------------------
(***************************************************************************)
(* What main.js keeps of Mirafold Pro, whatever waits for what: a session   *)
(* never runs on another key than the one the store has, and what retires   *)
(* the controller goes on only when nothing of it is under way.             *)
(*                                                                          *)
(* A retirement waits for the action of its time and not for a later one.   *)
(* That this is enough follows from the queue: an action that a retirement  *)
(* does not await was either not there, or has asked for its own turn       *)
(* behind it and begins without an owner (Handed).  The rest says who owns  *)
(* the turn, what is queued, and what the memory, the store and the daemon  *)
(* know of the key between two steps.                                       *)
(***************************************************************************)
EXTENDS ProActions, TLAPS

\* A request is in the queue.
Has(q, x) == \E i \in DOMAIN q : q[i] = x

\* It is there once.
Once(q, x) == \A i, j \in DOMAIN q : q[i] = x /\ q[j] = x => i = j

\* Every x in it has its turn before any y.
Ahead(q, x, y) == \A i, j \in DOMAIN q : q[i] = x /\ q[j] = y => i < j

\* The places of the action inside a turn of its own.
StartPlaces == {"begun", "preflight", "asking", "reopening", "dialog"}

\* And those of the turn that takes the key.
CompletePlaces == {"saving", "confirming", "storeDialog", "booting", "success"}

\* proActivation is null once it was retired, and the action asks it.
ControllerOK ==
    /\ retired = "done" => ~asked /\ flow # "open"
    /\ asked <=> action.pc = "asking"
    /\ current <=> retired = "no"

\* Who owns the turn.
ActionInTurn ==
    /\ action.pc \in StartPlaces => turn = "start"
    /\ action.pc \in CompletePlaces => turn = "complete"
    /\ place \in {"removing", "looking", "uncertain"} => turn = "removal"

\* What is queued is awaited, once, by who asked for it.
QueueIsOwed ==
    /\ Has(queue, "start") => action.pc = "starting"
    /\ Has(queue, "complete") => action.pc = "completing"
    /\ Has(queue, "install") \/ turn = "install" => updater = "preparing"
    /\ Has(queue, "recovery") \/ turn = "recovery" => updater = "recovering"
    /\ \A x \in {"start", "complete", "install", "recovery"} : Once(queue, x)
    /\ turn = "install" => ~Has(queue, "install")
    /\ turn = "recovery" => ~Has(queue, "recovery")
    /\ Has(queue, "quit") \/ turn = "quit" => gate # "open"

\* A retirement whose transition has not had its turn, or waits for it to settle.
Pending(by) == (turn = by /\ place = "retiring") \/ Has(queue, by)

\* It awaits the action of its time; another one begins only behind it.  And a
\* controller that is newer than it has not been asked for anything.
Handed(by) ==
    Pending(by) =>
      /\ \/ by \in awaited \/ action.pc = "none"
         \/ action.pc = "starting" /\ Ahead(queue, by, "start")
      /\ retired # "no" \/ (flow # "open" /\ ~asked)

\* An action that is awaited has lost its owner.
AwaitedIsOld == awaited # {} => ~action.mine /\ action.pc # "none"

\* Nothing is asked, and nobody listens.
Quiet == ~asked /\ flow # "open"

\* It stays so until who retired the controller is done.
QuietAfter ==
    /\ place \in {"removing", "looking"} => Quiet
    /\ updater = "installing" => Quiet /\ quitting /\ action.pc \in {"none", "starting", "begun"}
    /\ gate = "exited" => Quiet /\ turn = "idle" /\ action.pc \in {"none", "starting"}
    /\ gate # "open" => quitting

\* Who does what, and who waits for whom.
Control ==
    /\ ControllerOK /\ ActionInTurn /\ QueueIsOwed /\ AwaitedIsOld /\ QuietAfter
    /\ \A by \in Retirers : Handed(by)

\* A session that may boot knows the key that the store has.
KnowsKey ==
    memory.key # "none" => store.key = memory.key \/ (memory.retry = "new" /\ store = Activated)

\* SessionMatchesStore, without the types.
DaemonMatches ==
    daemon \notin {"down", "none"} =>
      store.key = daemon \/ (memory.retry = "new" /\ store = Activated)

\* While a removal is under way no daemon runs; and a new flow is not asked for
\* while a key waits to be stored.
Data ==
    /\ DaemonMatches
    /\ Open => KnowsKey \/ place \in {"looking", "uncertain"}
    /\ place \in {"removing", "looking", "uncertain"} => daemon = "down"
    /\ action.pc = "preflight" => ~action.auto /\ memory.retry = "none"
    /\ action.pc = "asking" => IF action.auto THEN action.resumes ELSE memory.retry = "none"

-----------------------------------------------------------------------------
(* The queue.                                                               *)

\* A request joins at the end.
LEMMA Joins ==
    ASSUME NEW q \in Seq(Turns), NEW z \in Turns
    PROVE  /\ Append(q, z) \in Seq(Turns)
           /\ \A x : Has(Append(q, z), x) <=> Has(q, x) \/ x = z
           /\ \A x : Once(q, x) /\ (x = z => ~Has(q, x)) => Once(Append(q, z), x)
           /\ \A x, y : Ahead(q, x, y) /\ (x = z => ~Has(q, y)) /\ x # y => Ahead(Append(q, z), x, y)
           /\ \A x : x # z /\ ~Has(q, z) => Ahead(Append(q, z), x, z)
  <1> DEFINE p == Append(q, z)
             n == Len(q) + 1
  <1>1. /\ DOMAIN q = 1..Len(q) /\ Len(q) \in Nat
        /\ p \in Seq(Turns) /\ DOMAIN p = 1..n /\ p[n] = z
        /\ \A i \in 1..Len(q) : p[i] = q[i]
    OBVIOUS
  <1>2. \A i \in 1..n : i = n \/ i \in 1..Len(q)
    BY <1>1
  <1>3. \A i \in 1..Len(q) : i \in 1..n /\ i < n /\ i # n
    BY <1>1
  <1>4. n \in 1..n
    BY <1>1
  <1> HIDE DEF p, n
  <1>5. \A x : Has(p, x) <=> Has(q, x) \/ x = z
    BY <1>1, <1>2, <1>3, <1>4 DEF Has
  <1>6. \A x : Once(q, x) /\ (x = z => ~Has(q, x)) => Once(p, x)
    BY <1>1, <1>2, <1>3, <1>4 DEF Has, Once
  <1>7. ASSUME NEW x, NEW y, Ahead(q, x, y), x = z => ~Has(q, y), x # y
        PROVE  Ahead(p, x, y)
    <2> SUFFICES ASSUME NEW i \in 1..n, NEW j \in 1..n, p[i] = x, p[j] = y PROVE i < j
      BY <1>1 DEF Ahead
    <2>1. CASE i = n
      BY <1>1, <1>2, <1>7, <2>1 DEF Has
    <2>2. CASE i \in 1..Len(q)
      BY <1>1, <1>2, <1>3, <1>7, <2>2 DEF Ahead
    <2> QED BY <1>2, <2>1, <2>2
  <1>8. ASSUME NEW x, x # z, ~Has(q, z)
        PROVE  Ahead(p, x, z)
    <2> SUFFICES ASSUME NEW i \in 1..n, NEW j \in 1..n, p[i] = x, p[j] = z PROVE i < j
      BY <1>1 DEF Ahead
    <2>1. j = n
      BY <1>1, <1>2, <1>8 DEF Has
    <2>2. i \in 1..Len(q)
      BY <1>1, <1>2, <1>8
    <2> QED BY <1>3, <2>1, <2>2
  <1> QED BY <1>1, <1>5, <1>6, <1>7, <1>8 DEF p

\* The first request has its turn.
LEMMA HasTurn ==
    ASSUME NEW q \in Seq(Turns), q # <<>>
    PROVE  /\ Tail(q) \in Seq(Turns) /\ Head(q) \in Turns
           /\ \A x : Has(q, x) <=> Has(Tail(q), x) \/ x = Head(q)
           /\ \A x : Once(q, x) => Once(Tail(q), x) /\ (x = Head(q) => ~Has(Tail(q), x))
           /\ \A x, y : Ahead(q, x, y) => Ahead(Tail(q), x, y)
           /\ \A x : Ahead(q, x, Head(q)) => ~Has(q, x)
  <1> DEFINE p == Tail(q)
             n == Len(q) - 1
  <1>1. /\ DOMAIN q = 1..Len(q) /\ Len(q) \in Nat /\ Len(q) >= 1
        /\ p \in Seq(Turns) /\ Head(q) \in Turns /\ Head(q) = q[1]
    OBVIOUS
  <1>2. /\ DOMAIN p = 1..n
        /\ \A i \in 1..n : p[i] = q[i + 1]
    OBVIOUS
  <1>3. \A i \in 1..n : i + 1 \in 1..Len(q) /\ i + 1 # 1 /\ i \in Nat
    BY <1>1
  <1>4. \A i \in 1..Len(q) : i = 1 \/ (i - 1 \in 1..n /\ (i - 1) + 1 = i)
    BY <1>1
  <1>5. 1 \in 1..Len(q)
    BY <1>1
  <1> HIDE DEF p, n
  <1>6. ASSUME NEW x PROVE Has(q, x) <=> Has(p, x) \/ x = Head(q)
    <2>1. Has(p, x) => Has(q, x)
      BY <1>1, <1>2, <1>3 DEF Has
    <2>2. x = Head(q) => Has(q, x)
      BY <1>1, <1>5 DEF Has
    <2>3. ASSUME NEW i \in 1..Len(q), q[i] = x PROVE Has(p, x) \/ x = Head(q)
      <3>1. CASE i = 1
        BY <1>1, <2>3, <3>1
      <3>2. CASE i - 1 \in 1..n /\ (i - 1) + 1 = i
        <4>1. p[i - 1] = q[(i - 1) + 1]
          BY <1>2, <3>2
        <4>2. p[i - 1] = x
          BY <2>3, <3>2, <4>1
        <4> QED BY <1>2, <3>2, <4>2 DEF Has
      <3> QED BY <1>4, <3>1, <3>2
    <2> QED BY <1>1, <2>1, <2>2, <2>3 DEF Has
  <1>7. ASSUME NEW x, Once(q, x) PROVE Once(p, x) /\ (x = Head(q) => ~Has(p, x))
    <2>1. ASSUME NEW i \in 1..n, NEW j \in 1..n, p[i] = x, p[j] = x PROVE i = j
      <3>1. q[i + 1] = x /\ q[j + 1] = x /\ i + 1 \in 1..Len(q) /\ j + 1 \in 1..Len(q)
        BY <1>2, <1>3, <2>1
      <3>2. i + 1 = j + 1
        BY <1>1, <1>7, <3>1 DEF Once
      <3> QED BY <1>3, <3>2
    <2>2. ASSUME NEW i \in 1..n, p[i] = x, x = Head(q) PROVE FALSE
      <3>1. q[i + 1] = x /\ q[1] = x /\ i + 1 \in 1..Len(q) /\ i + 1 # 1
        BY <1>1, <1>2, <1>3, <2>2
      <3> QED BY <1>1, <1>5, <1>7, <3>1 DEF Once
    <2> QED BY <1>2, <2>1, <2>2 DEF Once, Has
  <1>8. ASSUME NEW x, NEW y, Ahead(q, x, y) PROVE Ahead(p, x, y)
    <2> SUFFICES ASSUME NEW i \in 1..n, NEW j \in 1..n, p[i] = x, p[j] = y PROVE i < j
      BY <1>2 DEF Ahead
    <2>1. q[i + 1] = x /\ q[j + 1] = y /\ i + 1 \in 1..Len(q) /\ j + 1 \in 1..Len(q)
      BY <1>2, <1>3
    <2>2. i + 1 < j + 1
      BY <1>1, <1>8, <2>1 DEF Ahead
    <2> QED BY <1>3, <2>2
  <1>9. ASSUME NEW x, Ahead(q, x, Head(q)) PROVE ~Has(q, x)
    <2> SUFFICES ASSUME NEW i \in 1..Len(q), q[i] = x PROVE FALSE
      BY <1>1 DEF Has
    <2>1. i < 1
      BY <1>1, <1>5, <1>9 DEF Ahead
    <2> QED BY <2>1
  <1> QED BY <1>1, <1>6, <1>7, <1>8, <1>9 DEF p

\* An empty queue owes nothing.
LEMMA EmptyQueue ==
    /\ \A x : ~Has(<<>>, x) /\ Once(<<>>, x)
    /\ \A x, y : Ahead(<<>>, x, y)
  BY DEF Has, Once, Ahead

\* Request z joined the queue.
Joined(z) ==
    /\ queue' \in Seq(Turns)
    /\ \A x : Has(queue', x) <=> Has(queue, x) \/ x = z
    /\ \A x : Once(queue, x) /\ (x = z => ~Has(queue, x)) => Once(queue', x)
    /\ \A x, y : Ahead(queue, x, y) /\ (x = z => ~Has(queue, y)) /\ x # y => Ahead(queue', x, y)
    /\ \A x : x # z /\ ~Has(queue, z) => Ahead(queue', x, z)

\* It is Append that does it.
LEMMA QueueJoined ==
    ASSUME TypeOK, NEW z \in Turns, queue' = Append(queue, z)
    PROVE  Joined(z)
  <1>1. queue \in Seq(Turns)
    BY DEF TypeOK
  <1> QED BY <1>1, Joins DEF Joined

\* The first request left it.
Left ==
    /\ queue' \in Seq(Turns) /\ Head(queue) \in Turns
    /\ \A x : Has(queue, x) <=> Has(queue', x) \/ x = Head(queue)
    /\ \A x : Once(queue, x) => Once(queue', x) /\ (x = Head(queue) => ~Has(queue', x))
    /\ \A x, y : Ahead(queue, x, y) => Ahead(queue', x, y)
    /\ \A x : Ahead(queue, x, Head(queue)) => ~Has(queue, x)

\* It is Tail that does it.
LEMMA QueueLeft == ASSUME TypeOK, queue # <<>>, queue' = Tail(queue) PROVE Left
  <1>1. queue \in Seq(Turns)
    BY DEF TypeOK
  <1> QED BY <1>1, HasTurn DEF Left

-----------------------------------------------------------------------------
(* What the steps are made of.                                              *)

\* The action is at pc; the rest of it is as it was.
PlacedAt(pc) ==
    /\ action' \in Action /\ action'.pc = pc
    /\ action'.auto = action.auto /\ action'.resumes = action.resumes /\ action'.mine = action.mine

\* It is EXCEPT that does it.
LEMMA Placed ==
    ASSUME TypeOK, NEW pc \in ActionPlaces, action' = [action EXCEPT !.pc = pc]
    PROVE  PlacedAt(pc)
  <1>1. action \in Action
    BY DEF TypeOK
  <1> QED BY <1>1 DEF PlacedAt, Action

\* And Moves(pc).
LEMMA Moved ==
    ASSUME TypeOK
    PROVE  \A pc \in ActionPlaces : Moves(pc) => PlacedAt(pc) /\ awaited' = awaited
  BY Placed DEF Moves

\* The controller is asked, to resume or for a new flow.
AskedTo(resume) ==
    /\ action' \in Action /\ action'.pc = "asking" /\ action'.resumes = resume
    /\ action'.auto = action.auto /\ action'.mine = action.mine

\* Begins and Preflight do it.
LEMMA HasAsked ==
    ASSUME TypeOK, NEW r \in BOOLEAN, action' = [action EXCEPT !.pc = "asking", !.resumes = r]
    PROVE  AskedTo(r)
  <1>1. action \in Action /\ "asking" \in ActionPlaces
    BY DEF TypeOK, ActionPlaces
  <1> QED BY <1>1 DEF AskedTo, Action

\* It asks for a new flow now, at the place where it is.
AskedAnew ==
    /\ action' \in Action /\ action'.pc = action.pc /\ ~action'.resumes
    /\ action'.auto = action.auto /\ action'.mine = action.mine

\* GetsNothing does it.
LEMMA HasAskedAnew ==
    ASSUME TypeOK, action' = [action EXCEPT !.resumes = FALSE]
    PROVE  AskedAnew
  <1>1. action \in Action
    BY DEF TypeOK
  <1> QED BY <1>1 DEF AskedAnew, Action

\* There is no action any more.
Ended ==
    /\ action' \in Action /\ action'.pc = "none" /\ ~action'.auto /\ ~action'.resumes /\ ~action'.mine
    /\ awaited' = {}

\* NoAction is an action.
LEMMA NoActionTyped ==
    /\ NoAction \in Action
    /\ NoAction.pc = "none" /\ ~NoAction.auto /\ ~NoAction.resumes /\ ~NoAction.mine
  BY DEF NoAction, Action, ActionPlaces

\* ActionEnds does it.
LEMMA HasEnded == ActionEnds => Ended
  BY NoActionTyped DEF ActionEnds, Ended

\* A new action is queued.
Started(auto) ==
    /\ action' \in Action /\ action'.pc = "starting" /\ action'.auto = auto /\ ~action'.resumes
    /\ action'.mine = current
    /\ Joined("start")

\* Starts(auto) does it.
LEMMA HasStarted ==
    ASSUME TypeOK, NEW auto \in BOOLEAN, Starts(auto)
    PROVE  Started(auto)
  <1>1. /\ action' = [NoAction EXCEPT !.pc = "starting", !.auto = auto, !.mine = current]
        /\ queue' = Append(queue, "start") /\ current \in BOOLEAN
        /\ "start" \in Turns /\ "starting" \in ActionPlaces
    BY DEF TypeOK, Starts, Turns, ActionPlaces
  <1>2. Joined("start")
    BY <1>1, QueueJoined
  <1>3. action' = [pc |-> "starting", auto |-> auto, resumes |-> FALSE, mine |-> current]
    BY <1>1 DEF NoAction
  <1>4. [pc |-> "starting", auto |-> auto, resumes |-> FALSE, mine |-> current] \in Action
    BY <1>1 DEF Action
  <1>5. /\ action' \in Action /\ action'.pc = "starting" /\ action'.auto = auto
        /\ ~action'.resumes /\ action'.mine = current
    BY <1>3, <1>4
  <1> QED BY <1>2, <1>5 DEF Started

\* The action has lost its owner.
Disowned ==
    /\ action' \in Action /\ action'.pc = action.pc /\ action'.auto = action.auto
    /\ action'.resumes = action.resumes /\ ~action'.mine

\* It is EXCEPT that does it.
LEMMA IsDisowned ==
    ASSUME TypeOK, action' = [action EXCEPT !.mine = FALSE]
    PROVE  Disowned
  <1>1. action \in Action
    BY DEF TypeOK
  <1> QED BY <1>1 DEF Disowned, Action

\* The controller is being retired for somebody.
RetiredBy(by) ==
    /\ Disowned /\ Resting
    /\ current' = FALSE /\ asked' = asked /\ flow' = flow
    /\ retired' = IF current THEN "asked" ELSE retired
    /\ awaited' = IF action.pc = "none" THEN awaited ELSE awaited \cup {by}
    /\ awaited' \subseteq Retirers
    /\ retired' \in {"no", "asked", "done"}

\* Retire(by) does it.
LEMMA IsRetired ==
    ASSUME TypeOK, NEW by \in Retirers, Retire(by)
    PROVE  RetiredBy(by)
  <1>1. Disowned
    BY IsDisowned DEF Retire
  <1>2. awaited \subseteq Retirers /\ retired \in {"no", "asked", "done"} /\ current \in BOOLEAN
    BY DEF TypeOK, Flow!FlowTypeOK
  <1>3. awaited' = IF action.pc = "none" THEN awaited ELSE awaited \cup {by}
    BY DEF Retire
  <1>4. awaited' \subseteq Retirers
    BY <1>2, <1>3
  <1>5. /\ current' = FALSE /\ asked' = asked /\ flow' = flow /\ Resting
        /\ retired' = IF current THEN "asked" ELSE retired
    BY DEF Retire, Flow!Shutdown, controller
  <1> QED BY <1>1, <1>2, <1>3, <1>4, <1>5 DEF RetiredBy

\* There is a new one.
Renewed == Disowned /\ current' = TRUE /\ asked' = FALSE /\ flow' = "none" /\ retired' = "no"

\* NewController does it.
LEMMA IsRenewed == ASSUME TypeOK, NewController PROVE Renewed
  <1>1. Disowned
    BY IsDisowned DEF NewController
  <1> QED BY <1>1 DEF NewController, Renewed, Flow!Renew

\* The key has come.
GotKey ==
    \/ IsCurrent /\ PlacedAt("completing") /\ Joined("complete") /\ awaited' = awaited
    \/ ~IsCurrent /\ Ended /\ queue' = queue

\* GetsKey does it.
LEMMA HasGotKey == ASSUME TypeOK, GetsKey PROVE GotKey
  <1>1. "complete" \in Turns /\ "completing" \in ActionPlaces
    BY DEF Turns, ActionPlaces
  <1>2. CASE IsCurrent
    <2>1. /\ action' = [action EXCEPT !.pc = "completing"]
          /\ queue' = Append(queue, "complete") /\ UNCHANGED awaited
      BY <1>2 DEF GetsKey
    <2>2. PlacedAt("completing")
      BY <1>1, <2>1, Placed
    <2>3. Joined("complete")
      BY <1>1, <2>1, QueueJoined
    <2> QED BY <1>2, <2>1, <2>2, <2>3 DEF GotKey
  <1>3. CASE ~IsCurrent
    BY <1>3, HasEnded DEF GetsKey, GotKey
  <1> QED BY <1>2, <1>3

\* What is in memory, and in the store.
Memory == [key : Keys, retry : {"none", "new"}, pending : BOOLEAN]

\* The two contents that a save and a removal leave.
LEMMA StoreTyped ==
    /\ Nothing \in Envelope /\ Nothing.key = "none" /\ Nothing.pending = "none"
    /\ Activated \in Envelope /\ Activated.key = "new" /\ Activated.pending = "none"
    /\ \A s \in Envelope : s.key = "new" /\ s.pending = "none" => s = Activated
  <1>1. Nothing \in Envelope /\ Nothing.key = "none" /\ Nothing.pending = "none"
    BY DEF Nothing, Envelope, Keys
  <1>2. Activated \in Envelope /\ Activated.key = "new" /\ Activated.pending = "none"
    BY DEF Activated, Envelope, Keys
  <1>3. \A s \in Envelope : s.key = "new" /\ s.pending = "none" => s = Activated
    BY DEF Activated, Envelope
  <1> QED BY <1>1, <1>2, <1>3

\* The memory is this now.
MemoryIs(key, retry, pending) ==
    memory' \in Memory /\ memory'.key = key /\ memory'.retry = retry /\ memory'.pending = pending

\* And the store is this.
StoreIs(key, pending) ==
    store' \in Envelope /\ store'.key = key /\ store'.pending = pending

\* It is EXCEPT, or a record, that does it.
LEMMA DataKit ==
    ASSUME TypeOK
    PROVE  /\ \A b \in BOOLEAN :
                memory' = [memory EXCEPT !.pending = b] => MemoryIs(memory.key, memory.retry, b)
           /\ \A k \in Keys, b \in BOOLEAN :
                memory' = [memory EXCEPT !.key = k, !.pending = b] => MemoryIs(k, memory.retry, b)
           /\ memory' = [memory EXCEPT !.retry = "new"] => MemoryIs(memory.key, "new", memory.pending)
           /\ \A k \in Keys, r \in {"none", "new"}, b \in BOOLEAN :
                memory' = [key |-> k, retry |-> r, pending |-> b] => MemoryIs(k, r, b)
           /\ \A p \in {"none", "fresh", "spent"} :
                store' = [store EXCEPT !.pending = p] => StoreIs(store.key, p)
  <1> memory \in Memory /\ store \in Envelope
    BY DEF TypeOK, Memory
  <1>1. \A b \in BOOLEAN :
        memory' = [memory EXCEPT !.pending = b] => MemoryIs(memory.key, memory.retry, b)
    BY DEF Memory, MemoryIs
  <1>2. \A k \in Keys, b \in BOOLEAN :
        memory' = [memory EXCEPT !.key = k, !.pending = b] => MemoryIs(k, memory.retry, b)
    BY DEF Memory, MemoryIs
  <1>3. memory' = [memory EXCEPT !.retry = "new"] => MemoryIs(memory.key, "new", memory.pending)
    BY DEF Memory, MemoryIs
  <1>4. \A k \in Keys, r \in {"none", "new"}, b \in BOOLEAN :
        memory' = [key |-> k, retry |-> r, pending |-> b] => MemoryIs(k, r, b)
    BY DEF Memory, MemoryIs
  <1>5. \A p \in {"none", "fresh", "spent"} :
        store' = [store EXCEPT !.pending = p] => StoreIs(store.key, p)
    BY DEF Envelope, StoreIs
  <1> QED BY <1>1, <1>2, <1>3, <1>4, <1>5


\* All of that at once.
LEMMA Kit ==
    ASSUME TypeOK
    PROVE  /\ \A pc \in ActionPlaces : Moves(pc) => PlacedAt(pc) /\ awaited' = awaited
           /\ \A pc \in ActionPlaces : action' = [action EXCEPT !.pc = pc] => PlacedAt(pc)
           /\ \A r \in BOOLEAN : action' = [action EXCEPT !.pc = "asking", !.resumes = r] => AskedTo(r)
           /\ action' = [action EXCEPT !.resumes = FALSE] => AskedAnew
           /\ ActionEnds => Ended
           /\ \A auto \in BOOLEAN : Starts(auto) => Started(auto)
           /\ \A by \in Retirers : Retire(by) => RetiredBy(by)
           /\ NewController => Renewed
           /\ GetsKey => GotKey
           /\ \A z \in Turns : queue' = Append(queue, z) => Joined(z)
           /\ queue # <<>> /\ queue' = Tail(queue) => Left
  BY Moved, Placed, HasAsked, HasAskedAnew, HasEnded, HasStarted, IsRetired, IsRenewed,
     HasGotKey, QueueJoined, QueueLeft

\* The types, by what changes together: the controller's and the action's.
ActionTyped ==
    /\ asked \in BOOLEAN /\ flow \in {"none", "open", "key", "failed"}
    /\ retired \in {"no", "asked", "done"} /\ current \in BOOLEAN
    /\ action \in Action /\ awaited \subseteq Retirers

\* The queue's.
TurnTyped ==
    /\ queue \in Seq(Turns) /\ turn \in Turns \cup {"idle"}
    /\ place \in {"idle", "begin", "retiring", "removing", "looking", "loading", "booting",
                  "dialog", "uncertain"}

\* The data's.
DataTyped == store \in Envelope /\ memory \in Memory /\ daemon \in Keys \cup {"down"}

\* What is outside.
OutsideTyped ==
    /\ removal \in {"none", "asking", "queued"}
    /\ updater \in {"idle", "preparing", "installing", "recovering"}
    /\ quitting \in BOOLEAN /\ gate \in {"open", "closing", "exited"}

\* All of them.
Typed == ActionTyped /\ TurnTyped /\ DataTyped /\ OutsideTyped

\* That is the type invariant.
LEMMA TypeParts == TypeOK <=> Typed
  BY DEF TypeOK, Typed, ActionTyped, TurnTyped, DataTyped, OutsideTyped, Memory,
     Flow!FlowTypeOK

\* What the types say of the records.
LEMMA Records ==
    ASSUME Typed
    PROVE  /\ store \in Envelope /\ store.key \in Keys /\ store.pending \in {"none", "fresh", "spent"}
           /\ memory \in Memory /\ memory.key \in Keys /\ memory.retry \in {"none", "new"}
           /\ memory.pending \in BOOLEAN
           /\ action.pc \in ActionPlaces /\ action.auto \in BOOLEAN /\ action.resumes \in BOOLEAN
           /\ action.mine \in BOOLEAN
  <1>1. store \in Envelope /\ memory \in Memory /\ action \in Action
    BY DEF Typed, DataTyped, ActionTyped
  <1> QED BY <1>1 DEF Envelope, Memory, Action

\* The inductive invariant.
IInv == Typed /\ Control /\ Data

\* An action that is current asks the controller, in its turn: nobody retires it,
\* and nothing is there that wants quiet.
LEMMA CurrentAsks ==
    ASSUME Typed, Control, IsCurrent, action.pc \in {"begun", "preflight"},
           NEW r \in BOOLEAN, AskedTo(r), Flow!Ask,
           UNCHANGED <<current, awaited, turns, outside>>
    PROVE  Control'
  <1>1. /\ gate = "open" /\ ~quitting /\ updater # "installing" /\ place \notin {"removing", "looking"}
        /\ \A by \in Retirers : ~Pending(by)
        /\ awaited = {} /\ retired = "no" /\ turn = "start"
    BY DEF IsCurrent, Open, Control, AwaitedIsOld, ActionInTurn, QuietAfter, Handed,
       StartPlaces,
           Flow!Ask
  <1>2. /\ action'.pc = "asking" /\ asked' = TRUE /\ retired' = "no" /\ current' = current
        /\ awaited' = awaited /\ queue' = queue /\ turn' = turn /\ place' = place
        /\ updater' = updater /\ quitting' = quitting /\ gate' = gate
    BY <1>1 DEF AskedTo, Flow!Ask, turns, outside
  <1>3. ControllerOK'
    BY <1>1, <1>2 DEF Control, ControllerOK
  <1>4. ActionInTurn'
    BY <1>1, <1>2 DEF Control, ActionInTurn, StartPlaces, CompletePlaces
  <1>5. QueueIsOwed'
    BY <1>2 DEF Control, QueueIsOwed
  <1>6. AwaitedIsOld' /\ QuietAfter'
    BY <1>1, <1>2 DEF Control, AwaitedIsOld, QuietAfter
  <1>7. \A by \in Retirers : Handed(by)'
    BY <1>1, <1>2 DEF Handed, Pending
  <1> QED BY <1>3, <1>4, <1>5, <1>6, <1>7 DEF Control

-----------------------------------------------------------------------------
(* Every action keeps the invariant.  Each lemma has the effects its action  *)
(* is made of, then the types, the control and the data.                   *)

\* The flow opens, and its record is written only for a new one.
LEMMA FlowListensStep == IInv /\ FlowListens => IInv'
  <1> SUFFICES ASSUME Typed, Control, Data, FlowListens
               PROVE  Typed' /\ Control' /\ Data'
    BY DEF IInv
  <1>1. store' = store \/ (~action.resumes /\ StoreIs(store.key, "fresh"))
    BY TypeParts, DataKit, Records, StoreTyped DEF FlowListens, Flow!Listen, turns, outside,
       Keys, ActionPlaces
  <1>2. ActionTyped'
    BY DEF FlowListens, Flow!Listen, turns, outside, Typed, ActionTyped, ActionPlaces,
       Turns, Retirers
  <1>3. TurnTyped'
    BY DEF FlowListens, Flow!Listen, turns, outside, Typed, TurnTyped, ActionPlaces, Turns,
       Retirers
  <1>4. DataTyped'
    BY Records, <1>1, StoreTyped DEF FlowListens, Flow!Listen, turns, outside, StoreIs,
       Typed, DataTyped, Keys
  <1>5. OutsideTyped'
    BY DEF FlowListens, Flow!Listen, turns, outside, Typed, OutsideTyped
  <1>6. Control'
    BY Records DEF FlowListens, Flow!Listen, turns, outside, ActionPlaces, Control,
       ControllerOK, ActionInTurn, QueueIsOwed, AwaitedIsOld, QuietAfter, Quiet, Handed,
       Pending, StartPlaces, CompletePlaces, Retirers, Turns
  <1>7. Data'
    BY Records, <1>1, StoreTyped DEF FlowListens, Flow!Listen, turns, outside, StoreIs,
       ActionPlaces, Data, DaemonMatches, KnowsKey, Open, Control, ControllerOK,
       ActionInTurn, StartPlaces, CompletePlaces
  <1> QED BY <1>2, <1>3, <1>4, <1>5, <1>6, <1>7 DEF Typed

\* The flow fails.
LEMMA FlowFailsStep == IInv /\ FlowFails => IInv'
  <1> SUFFICES ASSUME Typed, Control, Data, FlowFails
               PROVE  Typed' /\ Control' /\ Data'
    BY DEF IInv
  <1>1. store' = store \/ StoreIs(store.key, "none")
    BY TypeParts, DataKit, Records, StoreTyped DEF FlowFails, Flow!Fail, turns, outside,
       Keys, ActionPlaces
  <1>2. store = Activated => store' = Activated
    BY <1>1, Records, StoreTyped DEF StoreIs
  <1>3. ActionTyped'
    BY DEF FlowFails, Flow!Fail, turns, outside, Typed, ActionTyped, ActionPlaces, Turns,
       Retirers
  <1>4. TurnTyped'
    BY DEF FlowFails, Flow!Fail, turns, outside, Typed, TurnTyped, ActionPlaces, Turns,
       Retirers
  <1>5. DataTyped'
    BY Records, <1>1, StoreTyped DEF FlowFails, Flow!Fail, turns, outside, StoreIs, Typed,
       DataTyped, Keys
  <1>6. OutsideTyped'
    BY DEF FlowFails, Flow!Fail, turns, outside, Typed, OutsideTyped
  <1>7. Control'
    BY Records DEF FlowFails, Flow!Fail, turns, outside, ActionPlaces, Control,
       ControllerOK, ActionInTurn, QueueIsOwed, AwaitedIsOld, QuietAfter, Quiet, Handed,
       Pending, StartPlaces, CompletePlaces, Retirers, Turns
  <1>8. Data'
    BY Records, <1>1, StoreTyped, <1>2 DEF FlowFails, Flow!Fail, turns, outside, StoreIs,
       ActionPlaces, Data, DaemonMatches, KnowsKey, Open, Control, ControllerOK,
       ActionInTurn, StartPlaces, CompletePlaces
  <1> QED BY <1>3, <1>4, <1>5, <1>6, <1>7, <1>8 DEF Typed

\* The controller answers its retirement.
LEMMA ControllerDownStep == IInv /\ ControllerDown => IInv'
  <1> SUFFICES ASSUME Typed, Control, Data, ControllerDown
               PROVE  Typed' /\ Control' /\ Data'
    BY DEF IInv
  <1>1. ActionTyped'
    BY DEF ControllerDown, Flow!Down, turns, data, outside, Typed, ActionTyped,
       ActionPlaces, Turns, Retirers
  <1>2. TurnTyped'
    BY DEF ControllerDown, Flow!Down, turns, data, outside, Typed, TurnTyped, ActionPlaces,
       Turns, Retirers
  <1>3. DataTyped'
    BY Records DEF ControllerDown, Flow!Down, turns, data, outside, Typed, DataTyped, Keys
  <1>4. OutsideTyped'
    BY DEF ControllerDown, Flow!Down, turns, data, outside, Typed, OutsideTyped
  <1>5. Control'
    BY Records DEF ControllerDown, Flow!Down, turns, data, outside, ActionPlaces, Control,
       ControllerOK, ActionInTurn, QueueIsOwed, AwaitedIsOld, QuietAfter, Quiet, Handed,
       Pending, StartPlaces, CompletePlaces, Retirers, Turns
  <1>6. Data'
    BY Records DEF ControllerDown, Flow!Down, turns, data, outside, ActionPlaces, Data,
       DaemonMatches, KnowsKey, Open, Control, ControllerOK, ActionInTurn, StartPlaces,
       CompletePlaces
  <1> QED BY <1>1, <1>2, <1>3, <1>4, <1>5, <1>6 DEF Typed

\* The key comes: to the action that waits for it, if it still has its owner.
LEMMA FlowDeliversStep == IInv /\ FlowDelivers => IInv'
  <1> SUFFICES ASSUME Typed, Control, Data, FlowDelivers
               PROVE  Typed' /\ Control' /\ Data'
    BY DEF IInv
  <1>1. GetsKey => GotKey
    BY Kit, TypeParts
  <1>2. \E p \in {"none", "fresh", "spent"} :
          StoreIs(store.key, p) /\ (p = "none" <=> store.pending = "none")
    BY <1>1, TypeParts, DataKit, Records, StoreTyped DEF FlowDelivers, Flow!Deliver,
       outside, GotKey, PlacedAt, Joined, Ended, IsCurrent, Open, Keys, ActionPlaces
  <1>3. store = Activated => store' = Activated
    BY <1>2, Records, StoreTyped DEF StoreIs
  <1>4. ActionTyped'
    BY <1>1 DEF FlowDelivers, Flow!Deliver, outside, GotKey, PlacedAt, Joined, Ended,
       IsCurrent, Open, Typed, ActionTyped, ActionPlaces, Turns, Retirers
  <1>5. TurnTyped'
    BY <1>1 DEF FlowDelivers, Flow!Deliver, outside, GotKey, PlacedAt, Joined, Ended,
       IsCurrent, Open, Typed, TurnTyped, ActionPlaces, Turns, Retirers
  <1>6. DataTyped'
    BY <1>1, Records, <1>2, StoreTyped DEF FlowDelivers, Flow!Deliver, outside, GotKey,
       PlacedAt, Joined, Ended, IsCurrent, Open, StoreIs, Typed, DataTyped, Keys
  <1>7. OutsideTyped'
    BY <1>1 DEF FlowDelivers, Flow!Deliver, outside, GotKey, PlacedAt, Joined, Ended,
       IsCurrent, Open, Typed, OutsideTyped
  <1>8. Control'
    BY <1>1, Records DEF FlowDelivers, Flow!Deliver, outside, GotKey, PlacedAt, Joined,
       Ended, IsCurrent, Open, ActionPlaces, Control, ControllerOK, ActionInTurn,
       QueueIsOwed, AwaitedIsOld, QuietAfter, Quiet, Handed, Pending, StartPlaces,
       CompletePlaces, Retirers, Turns
  <1>9. Data'
    BY <1>1, Records, <1>2, StoreTyped, <1>3 DEF FlowDelivers, Flow!Deliver, outside,
       GotKey, PlacedAt, Joined, Ended, IsCurrent, Open, StoreIs, ActionPlaces, Data,
       DaemonMatches, KnowsKey, Control, ControllerOK, ActionInTurn, StartPlaces,
       CompletePlaces
  <1> QED BY <1>4, <1>5, <1>6, <1>7, <1>8, <1>9 DEF Typed

\* The first request has its turn.
LEMMA TakeTurnStep == IInv /\ TakeTurn => IInv'
  <1> SUFFICES ASSUME Typed, Control, Data, TakeTurn
               PROVE  Typed' /\ Control' /\ Data'
    BY DEF IInv
  <1>1. /\ queue # <<>> /\ queue' = Tail(queue) => Left
        /\ \A pc \in ActionPlaces : action' = [action EXCEPT !.pc = pc] => PlacedAt(pc)
    BY Kit, TypeParts
  <1>2. ActionTyped'
    BY <1>1 DEF TakeTurn, Alive, Retirers, controller, data, outside, Left, PlacedAt, Typed,
       ActionTyped, ActionPlaces, Turns
  <1>3. TurnTyped'
    BY <1>1 DEF TakeTurn, Alive, Retirers, controller, data, outside, Left, PlacedAt, Typed,
       TurnTyped, ActionPlaces, Turns
  <1>4. DataTyped'
    BY <1>1, Records DEF TakeTurn, Alive, Retirers, controller, data, outside, Left,
       PlacedAt, Typed, DataTyped, Keys
  <1>5. OutsideTyped'
    BY <1>1 DEF TakeTurn, Alive, Retirers, controller, data, outside, Left, PlacedAt, Typed,
       OutsideTyped
  <1>6. Control'
    BY <1>1, Records DEF TakeTurn, Alive, Retirers, controller, data, outside, Left,
       PlacedAt, ActionPlaces, Control, ControllerOK, ActionInTurn, QueueIsOwed,
       AwaitedIsOld, QuietAfter, Quiet, Handed, Pending, StartPlaces, CompletePlaces, Turns
  <1>7. Data'
    BY <1>1, Records DEF TakeTurn, Alive, Retirers, controller, data, outside, Left,
       PlacedAt, ActionPlaces, Data, DaemonMatches, KnowsKey, Open, Control, ControllerOK,
       ActionInTurn, StartPlaces, CompletePlaces
  <1> QED BY <1>2, <1>3, <1>4, <1>5, <1>6, <1>7 DEF Typed

\* A request that is skipped leaves nothing owed.
LEMMA SkipTurnStep == IInv /\ SkipTurn => IInv'
  <1> SUFFICES ASSUME Typed, Control, Data, SkipTurn
               PROVE  Typed' /\ Control' /\ Data'
    BY DEF IInv
  <1>1. /\ ActionEnds => Ended
        /\ queue # <<>> /\ queue' = Tail(queue) => Left
    BY Kit, TypeParts
  <1>2. ActionTyped'
    BY <1>1 DEF SkipTurn, Alive, controller, data, Ended, Left, Typed, ActionTyped,
       ActionPlaces, Turns, Retirers
  <1>3. TurnTyped'
    BY <1>1 DEF SkipTurn, Alive, controller, data, Ended, Left, Typed, TurnTyped,
       ActionPlaces, Turns, Retirers
  <1>4. DataTyped'
    BY <1>1, Records DEF SkipTurn, Alive, controller, data, Ended, Left, Typed, DataTyped,
       Keys
  <1>5. OutsideTyped'
    BY <1>1 DEF SkipTurn, Alive, controller, data, Ended, Left, Typed, OutsideTyped
  <1>6. Control'
    BY <1>1, Records DEF SkipTurn, Alive, controller, data, Ended, Left, ActionPlaces,
       Control, ControllerOK, ActionInTurn, QueueIsOwed, AwaitedIsOld, QuietAfter, Quiet,
       Handed, Pending, StartPlaces, CompletePlaces, Retirers, Turns
  <1>7. Data'
    BY <1>1, Records DEF SkipTurn, Alive, controller, data, Ended, Left, ActionPlaces, Data,
       DaemonMatches, KnowsKey, Open, Control, ControllerOK, ActionInTurn, StartPlaces,
       CompletePlaces
  <1> QED BY <1>2, <1>3, <1>4, <1>5, <1>6, <1>7 DEF Typed

\* A transition is queued.
LEMMA FolderAskedStep == IInv /\ FolderAsked => IInv'
  <1> SUFFICES ASSUME Typed, Control, Data, FolderAsked
               PROVE  Typed' /\ Control' /\ Data'
    BY DEF IInv
  <1>1. \A z \in Turns : queue' = Append(queue, z) => Joined(z)
    BY Kit, TypeParts
  <1>2. ActionTyped'
    BY <1>1 DEF FolderAsked, Open, Room, pro, controller, data, outside, Joined, Typed,
       ActionTyped, ActionPlaces, Turns, Retirers
  <1>3. TurnTyped'
    BY <1>1 DEF FolderAsked, Room, pro, controller, data, outside, Joined, Typed, TurnTyped,
       ActionPlaces, Turns, Retirers
  <1>4. DataTyped'
    BY <1>1, Records DEF FolderAsked, Open, Room, pro, controller, data, outside, Joined,
       Typed, DataTyped, Keys
  <1>5. OutsideTyped'
    BY <1>1 DEF FolderAsked, Open, Room, pro, controller, data, outside, Joined, Typed,
       OutsideTyped
  <1>6. Control'
    BY <1>1, Records DEF FolderAsked, Open, Room, pro, controller, data, outside, Joined,
       ActionPlaces, Control, ControllerOK, ActionInTurn, QueueIsOwed, AwaitedIsOld,
       QuietAfter, Quiet, Handed, Pending, StartPlaces, CompletePlaces, Retirers, Turns
  <1>7. Data'
    BY <1>1, Records DEF FolderAsked, Open, Room, pro, controller, data, outside, Joined,
       ActionPlaces, Data, DaemonMatches, KnowsKey, Control, ControllerOK, ActionInTurn,
       StartPlaces, CompletePlaces
  <1> QED BY <1>2, <1>3, <1>4, <1>5, <1>6, <1>7 DEF Typed

\* It stops the daemon.
LEMMA FolderStopsStep == IInv /\ FolderStops => IInv'
  <1> SUFFICES ASSUME Typed, Control, Data, FolderStops
               PROVE  Typed' /\ Control' /\ Data'
    BY DEF IInv
  <1>1. ActionTyped'
    BY DEF FolderStops, Open, TurnEnds, pro, controller, outside, Typed, ActionTyped,
       ActionPlaces, Turns, Retirers
  <1>2. TurnTyped'
    BY DEF FolderStops, Open, TurnEnds, pro, controller, outside, Typed, TurnTyped,
       ActionPlaces, Turns, Retirers
  <1>3. DataTyped'
    BY Records DEF FolderStops, Open, TurnEnds, pro, controller, outside, Typed, DataTyped,
       Keys
  <1>4. OutsideTyped'
    BY DEF FolderStops, Open, TurnEnds, pro, controller, outside, Typed, OutsideTyped
  <1>5. Control'
    BY Records DEF FolderStops, Open, TurnEnds, pro, controller, outside, ActionPlaces,
       Control, ControllerOK, ActionInTurn, QueueIsOwed, AwaitedIsOld, QuietAfter, Quiet,
       Handed, Pending, StartPlaces, CompletePlaces, Retirers, Turns
  <1>6. Data'
    BY Records DEF FolderStops, Open, TurnEnds, pro, controller, outside, ActionPlaces,
       Data, DaemonMatches, KnowsKey, Control, ControllerOK, ActionInTurn, StartPlaces,
       CompletePlaces
  <1> QED BY <1>1, <1>2, <1>3, <1>4, <1>5, <1>6 DEF Typed

\* It boots the next one, with the key that the session knows.
LEMMA FolderBootsStep == IInv /\ FolderBoots => IInv'
  <1> SUFFICES ASSUME Typed, Control, Data, FolderBoots
               PROVE  Typed' /\ Control' /\ Data'
    BY DEF IInv
  <1>1. ActionTyped'
    BY DEF FolderBoots, Open, Boot, TurnEnds, pro, controller, outside, Typed, ActionTyped,
       ActionPlaces, Turns, Retirers
  <1>2. TurnTyped'
    BY DEF FolderBoots, Open, Boot, TurnEnds, pro, controller, outside, Typed, TurnTyped,
       ActionPlaces, Turns, Retirers
  <1>3. DataTyped'
    BY Records DEF FolderBoots, Open, Boot, TurnEnds, pro, controller, outside, Typed,
       DataTyped, Keys
  <1>4. OutsideTyped'
    BY DEF FolderBoots, Open, Boot, TurnEnds, pro, controller, outside, Typed, OutsideTyped
  <1>5. Control'
    BY Records DEF FolderBoots, Open, Boot, TurnEnds, pro, controller, outside,
       ActionPlaces, Control, ControllerOK, ActionInTurn, QueueIsOwed, AwaitedIsOld,
       QuietAfter, Quiet, Handed, Pending, StartPlaces, CompletePlaces, Retirers, Turns
  <1>6. Data'
    BY Records DEF FolderBoots, Open, Boot, TurnEnds, pro, controller, outside,
       ActionPlaces, Data, DaemonMatches, KnowsKey, Control, ControllerOK, ActionInTurn,
       StartPlaces, CompletePlaces
  <1> QED BY <1>1, <1>2, <1>3, <1>4, <1>5, <1>6 DEF Typed

\* An action is queued, behind every retirement that is.
LEMMA ActivationAskedStep == IInv /\ ActivationAsked => IInv'
  <1> SUFFICES ASSUME Typed, Control, Data, ActivationAsked
               PROVE  Typed' /\ Control' /\ Data'
    BY DEF IInv
  <1>1. \A auto \in BOOLEAN : Starts(auto) => Started(auto)
    BY Kit, TypeParts
  <1>2. ActionTyped'
    BY <1>1 DEF ActivationAsked, Room, controller, data, outside, Started, Joined, Typed,
       ActionTyped, ActionPlaces, Turns, Retirers
  <1>3. TurnTyped'
    BY <1>1 DEF ActivationAsked, Room, controller, data, outside, Started, Joined, Typed,
       TurnTyped, ActionPlaces, Turns, Retirers
  <1>4. DataTyped'
    BY <1>1, Records DEF ActivationAsked, Room, controller, data, outside, Started, Joined,
       Typed, DataTyped, Keys
  <1>5. OutsideTyped'
    BY <1>1 DEF ActivationAsked, Room, controller, data, outside, Started, Joined, Typed,
       OutsideTyped
  <1>6. Control'
    BY <1>1, Records DEF ActivationAsked, Room, controller, data, outside, Started, Joined,
       ActionPlaces, Control, ControllerOK, ActionInTurn, QueueIsOwed, AwaitedIsOld,
       QuietAfter, Quiet, Handed, Pending, StartPlaces, CompletePlaces, Retirers, Turns
  <1>7. Data'
    BY <1>1, Records DEF ActivationAsked, Room, controller, data, outside, Started, Joined,
       ActionPlaces, Data, DaemonMatches, KnowsKey, Open, Control, ControllerOK,
       ActionInTurn, StartPlaces, CompletePlaces
  <1> QED BY <1>2, <1>3, <1>4, <1>5, <1>6, <1>7 DEF Typed

\* The page is asked for again.
LEMMA ReopenAskedStep == IInv /\ ReopenAsked => IInv'
  <1> SUFFICES ASSUME Typed, Control, Data, ReopenAsked
               PROVE  Typed' /\ Control' /\ Data'
    BY DEF IInv
  <1>1. \A z \in Turns : queue' = Append(queue, z) => Joined(z)
    BY Kit, TypeParts
  <1>2. ActionTyped'
    BY <1>1 DEF ReopenAsked, Room, pro, controller, data, outside, Joined, Typed,
       ActionTyped, ActionPlaces, Turns, Retirers
  <1>3. TurnTyped'
    BY <1>1 DEF ReopenAsked, Room, pro, controller, data, outside, Joined, Typed, TurnTyped,
       ActionPlaces, Turns, Retirers
  <1>4. DataTyped'
    BY <1>1, Records DEF ReopenAsked, Room, pro, controller, data, outside, Joined, Typed,
       DataTyped, Keys
  <1>5. OutsideTyped'
    BY <1>1 DEF ReopenAsked, Room, pro, controller, data, outside, Joined, Typed,
       OutsideTyped
  <1>6. Control'
    BY <1>1, Records DEF ReopenAsked, Room, pro, controller, data, outside, Joined,
       ActionPlaces, Control, ControllerOK, ActionInTurn, QueueIsOwed, AwaitedIsOld,
       QuietAfter, Quiet, Handed, Pending, StartPlaces, CompletePlaces, Retirers, Turns
  <1>7. Data'
    BY <1>1, Records DEF ReopenAsked, Room, pro, controller, data, outside, Joined,
       ActionPlaces, Data, DaemonMatches, KnowsKey, Open, Control, ControllerOK,
       ActionInTurn, StartPlaces, CompletePlaces
  <1> QED BY <1>2, <1>3, <1>4, <1>5, <1>6, <1>7 DEF Typed

\* It is opened again.
LEMMA ReopensStep == IInv /\ Reopens => IInv'
  <1> SUFFICES ASSUME Typed, Control, Data, Reopens
               PROVE  Typed' /\ Control' /\ Data'
    BY DEF IInv
  <1>1. ActionTyped'
    BY DEF Reopens, TurnEnds, pro, controller, data, outside, Typed, ActionTyped,
       ActionPlaces, Turns, Retirers
  <1>2. TurnTyped'
    BY DEF Reopens, TurnEnds, pro, controller, data, outside, Typed, TurnTyped,
       ActionPlaces, Turns, Retirers
  <1>3. DataTyped'
    BY Records DEF Reopens, TurnEnds, pro, controller, data, outside, Typed, DataTyped, Keys
  <1>4. OutsideTyped'
    BY DEF Reopens, TurnEnds, pro, controller, data, outside, Typed, OutsideTyped
  <1>5. Control'
    BY Records DEF Reopens, TurnEnds, pro, controller, data, outside, ActionPlaces, Control,
       ControllerOK, ActionInTurn, QueueIsOwed, AwaitedIsOld, QuietAfter, Quiet, Handed,
       Pending, StartPlaces, CompletePlaces, Retirers, Turns
  <1>6. Data'
    BY Records DEF Reopens, TurnEnds, pro, controller, data, outside, ActionPlaces, Data,
       DaemonMatches, KnowsKey, Open, Control, ControllerOK, ActionInTurn, StartPlaces,
       CompletePlaces
  <1> QED BY <1>1, <1>2, <1>3, <1>4, <1>5, <1>6 DEF Typed

\* The action begins too late.
LEMMA BeginsLateStep == IInv /\ BeginsLate => IInv'
  <1> SUFFICES ASSUME Typed, Control, Data, BeginsLate
               PROVE  Typed' /\ Control' /\ Data'
    BY DEF IInv
  <1>1. /\ ActionEnds => Ended
        /\ \A pc \in ActionPlaces : Moves(pc) => PlacedAt(pc) /\ awaited' = awaited
    BY Kit, TypeParts
  <1>2. ActionTyped'
    BY <1>1 DEF BeginsLate, At, Alive, IsCurrent, Open, Leaves, TurnEnds, Stays, controller,
       data, outside, Ended, PlacedAt, Typed, ActionTyped, ActionPlaces, Turns, Retirers
  <1>3. TurnTyped'
    BY <1>1 DEF BeginsLate, At, Alive, Leaves, TurnEnds, Stays, controller, data, outside,
       Ended, PlacedAt, Typed, TurnTyped, ActionPlaces, Turns, Retirers
  <1>4. DataTyped'
    BY <1>1, Records DEF BeginsLate, At, Alive, IsCurrent, Open, Leaves, TurnEnds, Stays,
       controller, data, outside, Ended, PlacedAt, Typed, DataTyped, Keys
  <1>5. OutsideTyped'
    BY <1>1 DEF BeginsLate, At, Alive, IsCurrent, Open, Leaves, TurnEnds, Stays, controller,
       data, outside, Ended, PlacedAt, Typed, OutsideTyped
  <1>6. Control'
    BY <1>1, Records DEF BeginsLate, At, Alive, IsCurrent, Open, Leaves, TurnEnds, Stays,
       controller, data, outside, Ended, PlacedAt, ActionPlaces, Control, ControllerOK,
       ActionInTurn, QueueIsOwed, AwaitedIsOld, QuietAfter, Quiet, Handed, Pending,
       StartPlaces, CompletePlaces, Retirers, Turns
  <1>7. Data'
    BY <1>1, Records DEF BeginsLate, At, Alive, IsCurrent, Open, Leaves, TurnEnds, Stays,
       controller, data, outside, Ended, PlacedAt, ActionPlaces, Data, DaemonMatches,
       KnowsKey, Control, ControllerOK, ActionInTurn, StartPlaces, CompletePlaces
  <1> QED BY <1>2, <1>3, <1>4, <1>5, <1>6, <1>7 DEF Typed

\* The key that could not be saved is tried again.
LEMMA BeginsRetryStep == IInv /\ BeginsRetry => IInv'
  <1> SUFFICES ASSUME Typed, Control, Data, BeginsRetry
               PROVE  Typed' /\ Control' /\ Data'
    BY DEF IInv
  <1>1. /\ \A pc \in ActionPlaces : Moves(pc) => PlacedAt(pc) /\ awaited' = awaited
        /\ \A z \in Turns : queue' = Append(queue, z) => Joined(z)
    BY Kit, TypeParts
  <1>2. ActionTyped'
    BY <1>1 DEF BeginsRetry, At, Alive, IsCurrent, Open, TurnEnds, controller, data,
       outside, PlacedAt, Joined, Typed, ActionTyped, ActionPlaces, Turns, Retirers
  <1>3. TurnTyped'
    BY <1>1 DEF BeginsRetry, At, Alive, TurnEnds, controller, data, outside, PlacedAt,
       Joined, Typed, TurnTyped, ActionPlaces, Turns, Retirers
  <1>4. DataTyped'
    BY <1>1, Records DEF BeginsRetry, At, Alive, IsCurrent, Open, TurnEnds, controller,
       data, outside, PlacedAt, Joined, Typed, DataTyped, Keys
  <1>5. OutsideTyped'
    BY <1>1 DEF BeginsRetry, At, Alive, IsCurrent, Open, TurnEnds, controller, data,
       outside, PlacedAt, Joined, Typed, OutsideTyped
  <1>6. Control'
    BY <1>1, Records DEF BeginsRetry, At, Alive, IsCurrent, Open, TurnEnds, controller,
       data, outside, PlacedAt, Joined, ActionPlaces, Control, ControllerOK, ActionInTurn,
       QueueIsOwed, AwaitedIsOld, QuietAfter, Quiet, Handed, Pending, StartPlaces,
       CompletePlaces, Retirers, Turns
  <1>7. Data'
    BY <1>1, Records DEF BeginsRetry, At, Alive, IsCurrent, Open, TurnEnds, controller,
       data, outside, PlacedAt, Joined, ActionPlaces, Data, DaemonMatches, KnowsKey,
       Control, ControllerOK, ActionInTurn, StartPlaces, CompletePlaces
  <1> QED BY <1>2, <1>3, <1>4, <1>5, <1>6, <1>7 DEF Typed

\* The action begins: it resumes, or looks first whether there is a key.
LEMMA BeginsStep == IInv /\ Begins => IInv'
  <1> SUFFICES ASSUME Typed, Control, Data, Begins
               PROVE  Typed' /\ Control' /\ Data'
    BY DEF IInv
  <1>1. /\ \A pc \in ActionPlaces : action' = [action EXCEPT !.pc = pc] => PlacedAt(pc)
        /\ \A r \in BOOLEAN : action' = [action EXCEPT !.pc = "asking", !.resumes = r] => AskedTo(r)
    BY Kit, TypeParts
  <1>2. ActionTyped'
    BY <1>1 DEF Begins, Flow!Ask, At, Alive, IsCurrent, Open, controller, Stays, data,
       outside, PlacedAt, AskedTo, Typed, ActionTyped, ActionPlaces, Turns, Retirers
  <1>3. TurnTyped'
    BY <1>1 DEF Begins, Flow!Ask, At, Alive, controller, Stays, data, outside, PlacedAt,
       AskedTo, Typed, TurnTyped, ActionPlaces, Turns, Retirers
  <1>4. DataTyped'
    BY <1>1, Records DEF Begins, Flow!Ask, At, Alive, IsCurrent, Open, controller, Stays,
       data, outside, PlacedAt, AskedTo, Typed, DataTyped, Keys
  <1>5. OutsideTyped'
    BY <1>1 DEF Begins, Flow!Ask, At, Alive, IsCurrent, Open, controller, Stays, data,
       outside, PlacedAt, AskedTo, Typed, OutsideTyped
  <1>6. Control'
    <2>1. CASE UNCHANGED controller
      BY <1>1, Records, <2>1 DEF Begins, Flow!Ask, At, Alive, IsCurrent, Open, controller,
         Stays, data, outside, PlacedAt, AskedTo, ActionPlaces, Control, ControllerOK,
         ActionInTurn, QueueIsOwed, AwaitedIsOld, QuietAfter, Quiet, Handed, Pending,
         StartPlaces, CompletePlaces, Retirers, Turns
    <2>2. CASE IsCurrent /\ AskedTo(TRUE) /\ Flow!Ask /\ UNCHANGED awaited /\ Stays
      <3>1. action.pc \in {"begun", "preflight"} /\ TRUE \in BOOLEAN
        BY Records DEF Begins, At
      <3>2. UNCHANGED <<current, awaited, turns, outside>>
        BY <2>2 DEF Begins, Stays, turns
      <3> QED BY <2>2, <3>1, <3>2, CurrentAsks
    <2> QED BY <1>1, <2>1, <2>2, Records DEF Begins
  <1>7. Data'
    BY <1>1, Records DEF Begins, Flow!Ask, At, Alive, IsCurrent, Open, controller, Stays,
       data, outside, PlacedAt, AskedTo, ActionPlaces, Data, DaemonMatches, KnowsKey,
       Control, ControllerOK, ActionInTurn, StartPlaces, CompletePlaces
  <1> QED BY <1>2, <1>3, <1>4, <1>5, <1>6, <1>7 DEF Typed

\* It asks for a flow only where no key waits to be stored.
LEMMA PreflightStep == IInv /\ Preflight => IInv'
  <1> SUFFICES ASSUME Typed, Control, Data, Preflight
               PROVE  Typed' /\ Control' /\ Data'
    BY DEF IInv
  <1>1. /\ ActionEnds => Ended
        /\ \A pc \in ActionPlaces : Moves(pc) => PlacedAt(pc) /\ awaited' = awaited
        /\ \A r \in BOOLEAN : action' = [action EXCEPT !.pc = "asking", !.resumes = r] => AskedTo(r)
    BY Kit, TypeParts
  <1>2. ActionTyped'
    BY <1>1, Records DEF Preflight, Flow!Ask, At, Alive, IsCurrent, Open, Leaves, TurnEnds,
       controller, Stays, data, outside, Ended, PlacedAt, AskedTo, Typed, ActionTyped,
       ActionPlaces, Turns, Retirers
  <1>3. TurnTyped'
    BY <1>1 DEF Preflight, Flow!Ask, At, Alive, Leaves, TurnEnds, controller, Stays, data,
       outside, Ended, PlacedAt, AskedTo, Typed, TurnTyped, ActionPlaces, Turns, Retirers
  <1>4. DataTyped'
    BY <1>1, Records DEF Preflight, Flow!Ask, At, Alive, IsCurrent, Open, Leaves, TurnEnds,
       controller, Stays, data, outside, Ended, PlacedAt, AskedTo, Typed, DataTyped, Keys
  <1>5. OutsideTyped'
    BY <1>1 DEF Preflight, Flow!Ask, At, Alive, IsCurrent, Open, Leaves, TurnEnds,
       controller, Stays, data, outside, Ended, PlacedAt, AskedTo, Typed, OutsideTyped
  <1>6. Control'
    <2>1. CASE UNCHANGED controller
      BY <1>1, Records, <2>1 DEF Preflight, Flow!Ask, At, Alive, IsCurrent, Open, Leaves,
         TurnEnds, controller, Stays, data, outside, Ended, PlacedAt, AskedTo, ActionPlaces,
         Control, ControllerOK, ActionInTurn, QueueIsOwed, AwaitedIsOld, QuietAfter, Quiet,
         Handed, Pending, StartPlaces, CompletePlaces, Retirers, Turns
    <2>2. CASE IsCurrent /\ AskedTo(memory.pending) /\ Flow!Ask /\ UNCHANGED awaited /\ Stays
      <3>1. action.pc \in {"begun", "preflight"} /\ memory.pending \in BOOLEAN
        BY Records DEF Preflight, At
      <3>2. UNCHANGED <<current, awaited, turns, outside>>
        BY <2>2 DEF Preflight, Stays, turns
      <3> QED BY <2>2, <3>1, <3>2, CurrentAsks
    <2> QED BY <1>1, <2>1, <2>2, Records DEF Preflight
  <1>7. Data'
    BY <1>1, Records DEF Preflight, Flow!Ask, At, Alive, IsCurrent, Open, Leaves, TurnEnds,
       controller, Stays, data, outside, Ended, PlacedAt, AskedTo, ActionPlaces, Data,
       DaemonMatches, KnowsKey, Control, ControllerOK, ActionInTurn, StartPlaces,
       CompletePlaces
  <1> QED BY <1>2, <1>3, <1>4, <1>5, <1>6, <1>7 DEF Typed

\* The controller answers with a handle.
LEMMA GetsHandleStep == IInv /\ GetsHandle => IInv'
  <1> SUFFICES ASSUME Typed, Control, Data, GetsHandle
               PROVE  Typed' /\ Control' /\ Data'
    BY DEF IInv
  <1>1. /\ ActionEnds => Ended
        /\ \A pc \in ActionPlaces : Moves(pc) => PlacedAt(pc) /\ awaited' = awaited
    BY Kit, TypeParts
  <1>2. memory' = memory \/ MemoryIs(memory.key, memory.retry, TRUE)
    BY <1>1, TypeParts, DataKit, Records, StoreTyped DEF GetsHandle, Flow!Answer, At, Alive,
       IsCurrent, Open, Leaves, TurnEnds, Stays, outside, Ended, PlacedAt, Keys,
       ActionPlaces
  <1>3. ActionTyped'
    BY <1>1 DEF GetsHandle, Flow!Answer, At, Alive, IsCurrent, Open, Leaves, TurnEnds,
       Stays, outside, Ended, PlacedAt, Typed, ActionTyped, ActionPlaces, Turns, Retirers
  <1>4. TurnTyped'
    BY <1>1 DEF GetsHandle, Flow!Answer, At, Alive, Leaves, TurnEnds, Stays, outside, Ended,
       PlacedAt, Typed, TurnTyped, ActionPlaces, Turns, Retirers
  <1>5. DataTyped'
    BY <1>1, Records, <1>2, StoreTyped DEF GetsHandle, Flow!Answer, At, Alive, IsCurrent,
       Open, Leaves, TurnEnds, Stays, outside, Ended, PlacedAt, MemoryIs, Typed, DataTyped,
       Keys
  <1>6. OutsideTyped'
    BY <1>1 DEF GetsHandle, Flow!Answer, At, Alive, IsCurrent, Open, Leaves, TurnEnds,
       Stays, outside, Ended, PlacedAt, Typed, OutsideTyped
  <1>7. Control'
    BY <1>1, Records DEF GetsHandle, Flow!Answer, At, Alive, IsCurrent, Open, Leaves,
       TurnEnds, Stays, outside, Ended, PlacedAt, ActionPlaces, Control, ControllerOK,
       ActionInTurn, QueueIsOwed, AwaitedIsOld, QuietAfter, Quiet, Handed, Pending,
       StartPlaces, CompletePlaces, Retirers, Turns
  <1>8. Data'
    BY <1>1, Records, <1>2, StoreTyped DEF GetsHandle, Flow!Answer, At, Alive, IsCurrent,
       Open, Leaves, TurnEnds, Stays, outside, Ended, PlacedAt, MemoryIs, ActionPlaces,
       Data, DaemonMatches, KnowsKey, Control, ControllerOK, ActionInTurn, StartPlaces,
       CompletePlaces
  <1> QED BY <1>3, <1>4, <1>5, <1>6, <1>7, <1>8 DEF Typed

\* There is nothing to resume.
LEMMA GetsNothingStep == IInv /\ GetsNothing => IInv'
  <1> SUFFICES ASSUME Typed, Control, Data, GetsNothing
               PROVE  Typed' /\ Control' /\ Data'
    BY DEF IInv
  <1>1. /\ ActionEnds => Ended
        /\ action' = [action EXCEPT !.resumes = FALSE] => AskedAnew
    BY Kit, TypeParts
  <1>2. /\ StoreIs(store.key, "none")
        /\ memory' = memory \/ MemoryIs(memory.key, memory.retry, FALSE)
    BY <1>1, TypeParts, DataKit, Records, StoreTyped DEF GetsNothing, Flow!Answer, At,
       Alive, IsCurrent, Open, Stays, controller, Leaves, TurnEnds, outside, Ended,
       AskedAnew, Keys, ActionPlaces
  <1>3. store = Activated => store' = Activated
    BY <1>2, Records, StoreTyped DEF StoreIs
  <1>4. ActionTyped'
    BY <1>1 DEF GetsNothing, Flow!Answer, At, Alive, IsCurrent, Open, Stays, controller,
       Leaves, TurnEnds, outside, Ended, AskedAnew, Typed, ActionTyped, ActionPlaces, Turns,
       Retirers
  <1>5. TurnTyped'
    BY <1>1 DEF GetsNothing, Flow!Answer, At, Alive, Stays, controller, Leaves, TurnEnds,
       outside, Ended, AskedAnew, Typed, TurnTyped, ActionPlaces, Turns, Retirers
  <1>6. DataTyped'
    BY <1>1, Records, <1>2, StoreTyped DEF GetsNothing, Flow!Answer, At, Alive, IsCurrent,
       Open, Stays, controller, Leaves, TurnEnds, outside, Ended, AskedAnew, StoreIs,
       MemoryIs, Typed, DataTyped, Keys
  <1>7. OutsideTyped'
    BY <1>1 DEF GetsNothing, Flow!Answer, At, Alive, IsCurrent, Open, Stays, controller,
       Leaves, TurnEnds, outside, Ended, AskedAnew, Typed, OutsideTyped
  <1>8. Control'
    BY <1>1, Records DEF GetsNothing, Flow!Answer, At, Alive, IsCurrent, Open, Stays,
       controller, Leaves, TurnEnds, outside, Ended, AskedAnew, ActionPlaces, Control,
       ControllerOK, ActionInTurn, QueueIsOwed, AwaitedIsOld, QuietAfter, Quiet, Handed,
       Pending, StartPlaces, CompletePlaces, Retirers, Turns
  <1>9. Data'
    <2>1. /\ daemon' = daemon /\ quitting' = quitting /\ gate' = gate
          /\ memory'.key = memory.key /\ memory'.retry = memory.retry /\ store'.key = store.key
      BY <1>2, Records DEF GetsNothing, outside, MemoryIs, StoreIs
    <2>2. place \notin {"removing", "looking", "uncertain"}
      BY DEF GetsNothing, At, Control, ActionInTurn, StartPlaces
    <2>3. /\ place' \in {place, "idle"}
          /\ action'.pc # "preflight"
          /\ action'.pc = "asking" => ~action'.auto /\ memory.retry = "none"
      BY <1>1 DEF GetsNothing, At, Stays, Leaves, TurnEnds, AskedAnew, Ended, Data
    <2>4. DaemonMatches'
      BY <1>3, <2>1 DEF Data, DaemonMatches
    <2>5. Open => KnowsKey'
      BY <1>3, <2>1, <2>2 DEF Data, KnowsKey
    <2>6. Open' <=> Open
      BY <2>1 DEF Open
    <2> QED BY <2>1, <2>2, <2>3, <2>4, <2>5, <2>6 DEF Data
  <1> QED BY <1>4, <1>5, <1>6, <1>7, <1>8, <1>9 DEF Typed

\* The controller answers with an error.
LEMMA GetsErrorStep == IInv /\ GetsError => IInv'
  <1> SUFFICES ASSUME Typed, Control, Data, GetsError
               PROVE  Typed' /\ Control' /\ Data'
    BY DEF IInv
  <1>1. /\ \A pc \in ActionPlaces : Moves(pc) => PlacedAt(pc) /\ awaited' = awaited
        /\ ActionEnds => Ended
    BY Kit, TypeParts
  <1>2. /\ store' = store \/ StoreIs(store.key, "none")
        /\ memory' = memory \/ \E b \in BOOLEAN : MemoryIs(memory.key, memory.retry, b)
    BY <1>1, TypeParts, DataKit, Records, StoreTyped DEF GetsError, Flow!Answer, At, Alive,
       IsCurrent, Open, Stays, Leaves, TurnEnds, Refresh, outside, PlacedAt, Ended, Keys,
       ActionPlaces
  <1>3. store = Activated => store' = Activated
    BY <1>2, Records, StoreTyped DEF StoreIs
  <1>4. ActionTyped'
    BY <1>1 DEF GetsError, Flow!Answer, At, Alive, IsCurrent, Open, Stays, Leaves, TurnEnds,
       Refresh, outside, PlacedAt, Ended, Typed, ActionTyped, ActionPlaces, Turns, Retirers
  <1>5. TurnTyped'
    BY <1>1 DEF GetsError, Flow!Answer, At, Alive, Stays, Leaves, TurnEnds, outside,
       PlacedAt, Ended, Typed, TurnTyped, ActionPlaces, Turns, Retirers
  <1>6. DataTyped'
    BY <1>1, Records, <1>2, StoreTyped DEF GetsError, Flow!Answer, At, Alive, IsCurrent,
       Open, Stays, Leaves, TurnEnds, Refresh, outside, PlacedAt, Ended, StoreIs, MemoryIs,
       Typed, DataTyped, Keys
  <1>7. OutsideTyped'
    BY <1>1 DEF GetsError, Flow!Answer, At, Alive, IsCurrent, Open, Stays, Leaves, TurnEnds,
       Refresh, outside, PlacedAt, Ended, Typed, OutsideTyped
  <1>8. Control'
    BY <1>1, Records DEF GetsError, Flow!Answer, At, Alive, IsCurrent, Open, Stays, Leaves,
       TurnEnds, Refresh, outside, PlacedAt, Ended, ActionPlaces, Control, ControllerOK,
       ActionInTurn, QueueIsOwed, AwaitedIsOld, QuietAfter, Quiet, Handed, Pending,
       StartPlaces, CompletePlaces, Retirers, Turns
  <1>9. Data'
    BY <1>1, Records, <1>2, StoreTyped, <1>3 DEF GetsError, Flow!Answer, At, Alive,
       IsCurrent, Open, Stays, Leaves, TurnEnds, Refresh, outside, PlacedAt, Ended, StoreIs,
       MemoryIs, ActionPlaces, Data, DaemonMatches, KnowsKey, Control, ControllerOK,
       ActionInTurn, StartPlaces, CompletePlaces
  <1> QED BY <1>4, <1>5, <1>6, <1>7, <1>8, <1>9 DEF Typed

\* The page is open again.
LEMMA PageReopenedStep == IInv /\ PageReopened => IInv'
  <1> SUFFICES ASSUME Typed, Control, Data, PageReopened
               PROVE  Typed' /\ Control' /\ Data'
    BY DEF IInv
  <1>1. /\ \A pc \in ActionPlaces : Moves(pc) => PlacedAt(pc) /\ awaited' = awaited
        /\ ActionEnds => Ended
    BY Kit, TypeParts
  <1>2. ActionTyped'
    BY <1>1 DEF PageReopened, At, Alive, TurnEnds, IsCurrent, Open, controller, data,
       outside, PlacedAt, Ended, Typed, ActionTyped, ActionPlaces, Turns, Retirers
  <1>3. TurnTyped'
    BY <1>1 DEF PageReopened, At, Alive, TurnEnds, controller, data, outside, PlacedAt,
       Ended, Typed, TurnTyped, ActionPlaces, Turns, Retirers
  <1>4. DataTyped'
    BY <1>1, Records DEF PageReopened, At, Alive, TurnEnds, IsCurrent, Open, controller,
       data, outside, PlacedAt, Ended, Typed, DataTyped, Keys
  <1>5. OutsideTyped'
    BY <1>1 DEF PageReopened, At, Alive, TurnEnds, IsCurrent, Open, controller, data,
       outside, PlacedAt, Ended, Typed, OutsideTyped
  <1>6. Control'
    BY <1>1, Records DEF PageReopened, At, Alive, TurnEnds, IsCurrent, Open, controller,
       data, outside, PlacedAt, Ended, ActionPlaces, Control, ControllerOK, ActionInTurn,
       QueueIsOwed, AwaitedIsOld, QuietAfter, Quiet, Handed, Pending, StartPlaces,
       CompletePlaces, Retirers, Turns
  <1>7. Data'
    BY <1>1, Records DEF PageReopened, At, Alive, TurnEnds, IsCurrent, Open, controller,
       data, outside, PlacedAt, Ended, ActionPlaces, Data, DaemonMatches, KnowsKey, Control,
       ControllerOK, ActionInTurn, StartPlaces, CompletePlaces
  <1> QED BY <1>2, <1>3, <1>4, <1>5, <1>6, <1>7 DEF Typed

\* The key was there already.
LEMMA KeyWasThereStep == IInv /\ KeyWasThere => IInv'
  <1> SUFFICES ASSUME Typed, Control, Data, KeyWasThere
               PROVE  Typed' /\ Control' /\ Data'
    BY DEF IInv
  <1>1. GetsKey => GotKey
    BY Kit, TypeParts
  <1>2. ActionTyped'
    BY <1>1 DEF KeyWasThere, At, Alive, controller, data, outside, GotKey, PlacedAt, Joined,
       Ended, IsCurrent, Open, Typed, ActionTyped, ActionPlaces, Turns, Retirers
  <1>3. TurnTyped'
    BY <1>1 DEF KeyWasThere, At, Alive, controller, data, outside, GotKey, PlacedAt, Joined,
       Ended, IsCurrent, Open, Typed, TurnTyped, ActionPlaces, Turns, Retirers
  <1>4. DataTyped'
    BY <1>1, Records DEF KeyWasThere, At, Alive, controller, data, outside, GotKey,
       PlacedAt, Joined, Ended, IsCurrent, Open, Typed, DataTyped, Keys
  <1>5. OutsideTyped'
    BY <1>1 DEF KeyWasThere, At, Alive, controller, data, outside, GotKey, PlacedAt, Joined,
       Ended, IsCurrent, Open, Typed, OutsideTyped
  <1>6. Control'
    BY <1>1, Records DEF KeyWasThere, At, Alive, controller, data, outside, GotKey,
       PlacedAt, Joined, Ended, IsCurrent, Open, ActionPlaces, Control, ControllerOK,
       ActionInTurn, QueueIsOwed, AwaitedIsOld, QuietAfter, Quiet, Handed, Pending,
       StartPlaces, CompletePlaces, Retirers, Turns
  <1>7. Data'
    BY <1>1, Records DEF KeyWasThere, At, Alive, controller, data, outside, GotKey,
       PlacedAt, Joined, Ended, IsCurrent, Open, ActionPlaces, Data, DaemonMatches,
       KnowsKey, Control, ControllerOK, ActionInTurn, StartPlaces, CompletePlaces
  <1> QED BY <1>2, <1>3, <1>4, <1>5, <1>6, <1>7 DEF Typed

\* The flow has failed.
LEMMA ResultRejectedStep == IInv /\ ResultRejected => IInv'
  <1> SUFFICES ASSUME Typed, Control, Data, ResultRejected
               PROVE  Typed' /\ Control' /\ Data'
    BY DEF IInv
  <1>1. /\ \A pc \in ActionPlaces : Moves(pc) => PlacedAt(pc) /\ awaited' = awaited
        /\ ActionEnds => Ended
    BY Kit, TypeParts
  <1>2. memory' = memory \/ \E b \in BOOLEAN : MemoryIs(memory.key, memory.retry, b)
    BY <1>1, TypeParts, DataKit, Records, StoreTyped DEF ResultRejected, At, Alive,
       IsCurrent, Open, Refresh, controller, outside, PlacedAt, Ended, Keys, ActionPlaces
  <1>3. ActionTyped'
    BY <1>1 DEF ResultRejected, At, Alive, IsCurrent, Open, Refresh, controller, outside,
       PlacedAt, Ended, Typed, ActionTyped, ActionPlaces, Turns, Retirers
  <1>4. TurnTyped'
    BY <1>1 DEF ResultRejected, At, Alive, controller, outside, PlacedAt, Ended, Typed,
       TurnTyped, ActionPlaces, Turns, Retirers
  <1>5. DataTyped'
    BY <1>1, Records, <1>2, StoreTyped DEF ResultRejected, At, Alive, IsCurrent, Open,
       Refresh, controller, outside, PlacedAt, Ended, MemoryIs, Typed, DataTyped, Keys
  <1>6. OutsideTyped'
    BY <1>1 DEF ResultRejected, At, Alive, IsCurrent, Open, Refresh, controller, outside,
       PlacedAt, Ended, Typed, OutsideTyped
  <1>7. Control'
    BY <1>1, Records DEF ResultRejected, At, Alive, IsCurrent, Open, Refresh, controller,
       outside, PlacedAt, Ended, ActionPlaces, Control, ControllerOK, ActionInTurn,
       QueueIsOwed, AwaitedIsOld, QuietAfter, Quiet, Handed, Pending, StartPlaces,
       CompletePlaces, Retirers, Turns
  <1>8. Data'
    BY <1>1, Records, <1>2, StoreTyped DEF ResultRejected, At, Alive, IsCurrent, Open,
       Refresh, controller, outside, PlacedAt, Ended, MemoryIs, ActionPlaces, Data,
       DaemonMatches, KnowsKey, Control, ControllerOK, ActionInTurn, StartPlaces,
       CompletePlaces
  <1> QED BY <1>3, <1>4, <1>5, <1>6, <1>7, <1>8 DEF Typed

\* The dialog is answered.
LEMMA DialogSeenStep == IInv /\ DialogSeen => IInv'
  <1> SUFFICES ASSUME Typed, Control, Data, DialogSeen
               PROVE  Typed' /\ Control' /\ Data'
    BY DEF IInv
  <1>1. ActionEnds => Ended
    BY Kit, TypeParts
  <1>2. ActionTyped'
    BY <1>1 DEF DialogSeen, At, Alive, Stays, Leaves, TurnEnds, controller, data, outside,
       Ended, Typed, ActionTyped, ActionPlaces, Turns, Retirers
  <1>3. TurnTyped'
    BY <1>1 DEF DialogSeen, At, Alive, Stays, Leaves, TurnEnds, controller, data, outside,
       Ended, Typed, TurnTyped, ActionPlaces, Turns, Retirers
  <1>4. DataTyped'
    BY <1>1, Records DEF DialogSeen, At, Alive, Stays, Leaves, TurnEnds, controller, data,
       outside, Ended, Typed, DataTyped, Keys
  <1>5. OutsideTyped'
    BY <1>1 DEF DialogSeen, At, Alive, Stays, Leaves, TurnEnds, controller, data, outside,
       Ended, Typed, OutsideTyped
  <1>6. Control'
    BY <1>1, Records DEF DialogSeen, At, Alive, Stays, Leaves, TurnEnds, controller, data,
       outside, Ended, ActionPlaces, Control, ControllerOK, ActionInTurn, QueueIsOwed,
       AwaitedIsOld, QuietAfter, Quiet, Handed, Pending, StartPlaces, CompletePlaces,
       Retirers, Turns
  <1>7. Data'
    BY <1>1, Records DEF DialogSeen, At, Alive, Stays, Leaves, TurnEnds, controller, data,
       outside, Ended, ActionPlaces, Data, DaemonMatches, KnowsKey, Open, Control,
       ControllerOK, ActionInTurn, StartPlaces, CompletePlaces
  <1> QED BY <1>2, <1>3, <1>4, <1>5, <1>6, <1>7 DEF Typed

\* The key is saved, or it is not known whether it is.
LEMMA SavesStep == IInv /\ Saves => IInv'
  <1> SUFFICES ASSUME Typed, Control, Data, Saves
               PROVE  Typed' /\ Control' /\ Data'
    BY DEF IInv
  <1>1. /\ \A pc \in ActionPlaces : Moves(pc) => PlacedAt(pc) /\ awaited' = awaited
        /\ ActionEnds => Ended
    BY Kit, TypeParts
  <1>2. (memory' = memory /\ store' = store) \/ MemoryIs(memory.key, "new", memory.pending)
    BY <1>1, TypeParts, DataKit, Records, StoreTyped DEF Saves, At, Alive, IsCurrent, Open,
       Stays, Leaves, TurnEnds, controller, outside, PlacedAt, Ended, Keys, ActionPlaces
  <1>3. ActionTyped'
    BY <1>1 DEF Saves, At, Alive, IsCurrent, Open, Stays, Leaves, TurnEnds, controller,
       outside, PlacedAt, Ended, Typed, ActionTyped, ActionPlaces, Turns, Retirers
  <1>4. TurnTyped'
    BY <1>1 DEF Saves, At, Alive, Stays, Leaves, TurnEnds, controller, outside, PlacedAt,
       Ended, Typed, TurnTyped, ActionPlaces, Turns, Retirers
  <1>5. DataTyped'
    BY <1>1, Records, <1>2, StoreTyped DEF Saves, At, Alive, IsCurrent, Open, Stays, Leaves,
       TurnEnds, controller, outside, PlacedAt, Ended, MemoryIs, Typed, DataTyped, Keys
  <1>6. OutsideTyped'
    BY <1>1 DEF Saves, At, Alive, IsCurrent, Open, Stays, Leaves, TurnEnds, controller,
       outside, PlacedAt, Ended, Typed, OutsideTyped
  <1>7. Control'
    BY <1>1, Records DEF Saves, At, Alive, IsCurrent, Open, Stays, Leaves, TurnEnds,
       controller, outside, PlacedAt, Ended, ActionPlaces, Control, ControllerOK,
       ActionInTurn, QueueIsOwed, AwaitedIsOld, QuietAfter, Quiet, Handed, Pending,
       StartPlaces, CompletePlaces, Retirers, Turns
  <1>8. Data'
    BY <1>1, Records, <1>2, StoreTyped DEF Saves, At, Alive, IsCurrent, Open, Stays, Leaves,
       TurnEnds, controller, outside, PlacedAt, Ended, MemoryIs, ActionPlaces, Data,
       DaemonMatches, KnowsKey, Control, ControllerOK, ActionInTurn, StartPlaces,
       CompletePlaces
  <1> QED BY <1>3, <1>4, <1>5, <1>6, <1>7, <1>8 DEF Typed

\* What is read back decides.
LEMMA ConfirmsStep == IInv /\ Confirms => IInv'
  <1> SUFFICES ASSUME Typed, Control, Data, Confirms
               PROVE  Typed' /\ Control' /\ Data'
    BY DEF IInv
  <1>1. /\ ActionEnds => Ended
        /\ \A pc \in ActionPlaces : Moves(pc) => PlacedAt(pc) /\ awaited' = awaited
    BY Kit, TypeParts
  <1>2. memory' = memory \/ (store = Activated /\ MemoryIs("new", "none", FALSE))
    BY <1>1, TypeParts, DataKit, Records, StoreTyped DEF Confirms, At, Alive, IsCurrent,
       Open, Leaves, TurnEnds, Stays, controller, outside, Ended, PlacedAt, Keys,
       ActionPlaces
  <1>3. ActionTyped'
    BY <1>1 DEF Confirms, At, Alive, IsCurrent, Open, Leaves, TurnEnds, Stays, controller,
       outside, Ended, PlacedAt, Typed, ActionTyped, ActionPlaces, Turns, Retirers
  <1>4. TurnTyped'
    BY <1>1 DEF Confirms, At, Alive, Leaves, TurnEnds, Stays, controller, outside, Ended,
       PlacedAt, Typed, TurnTyped, ActionPlaces, Turns, Retirers
  <1>5. DataTyped'
    BY <1>1, Records, <1>2, StoreTyped DEF Confirms, At, Alive, IsCurrent, Open, Leaves,
       TurnEnds, Stays, controller, outside, Ended, PlacedAt, MemoryIs, Typed, DataTyped,
       Keys
  <1>6. OutsideTyped'
    BY <1>1 DEF Confirms, At, Alive, IsCurrent, Open, Leaves, TurnEnds, Stays, controller,
       outside, Ended, PlacedAt, Typed, OutsideTyped
  <1>7. Control'
    BY <1>1, Records DEF Confirms, At, Alive, IsCurrent, Open, Leaves, TurnEnds, Stays,
       controller, outside, Ended, PlacedAt, ActionPlaces, Control, ControllerOK,
       ActionInTurn, QueueIsOwed, AwaitedIsOld, QuietAfter, Quiet, Handed, Pending,
       StartPlaces, CompletePlaces, Retirers, Turns
  <1>8. Data'
    BY <1>1, Records, <1>2, StoreTyped DEF Confirms, At, Alive, IsCurrent, Open, Leaves,
       TurnEnds, Stays, controller, outside, Ended, PlacedAt, MemoryIs, ActionPlaces, Data,
       DaemonMatches, KnowsKey, Control, ControllerOK, ActionInTurn, StartPlaces,
       CompletePlaces
  <1> QED BY <1>3, <1>4, <1>5, <1>6, <1>7, <1>8 DEF Typed

\* The store's dialog is answered.
LEMMA StoreDialogSeenStep == IInv /\ StoreDialogSeen => IInv'
  <1> SUFFICES ASSUME Typed, Control, Data, StoreDialogSeen
               PROVE  Typed' /\ Control' /\ Data'
    BY DEF IInv
  <1>1. /\ \A pc \in ActionPlaces : Moves(pc) => PlacedAt(pc) /\ awaited' = awaited
        /\ ActionEnds => Ended
    BY Kit, TypeParts
  <1>2. ActionTyped'
    BY <1>1 DEF StoreDialogSeen, At, Alive, IsCurrent, Open, Stays, Leaves, TurnEnds,
       controller, data, outside, PlacedAt, Ended, Typed, ActionTyped, ActionPlaces, Turns,
       Retirers
  <1>3. TurnTyped'
    BY <1>1 DEF StoreDialogSeen, At, Alive, Stays, Leaves, TurnEnds, controller, data,
       outside, PlacedAt, Ended, Typed, TurnTyped, ActionPlaces, Turns, Retirers
  <1>4. DataTyped'
    BY <1>1, Records DEF StoreDialogSeen, At, Alive, IsCurrent, Open, Stays, Leaves,
       TurnEnds, controller, data, outside, PlacedAt, Ended, Typed, DataTyped, Keys
  <1>5. OutsideTyped'
    BY <1>1 DEF StoreDialogSeen, At, Alive, IsCurrent, Open, Stays, Leaves, TurnEnds,
       controller, data, outside, PlacedAt, Ended, Typed, OutsideTyped
  <1>6. Control'
    BY <1>1, Records DEF StoreDialogSeen, At, Alive, IsCurrent, Open, Stays, Leaves,
       TurnEnds, controller, data, outside, PlacedAt, Ended, ActionPlaces, Control,
       ControllerOK, ActionInTurn, QueueIsOwed, AwaitedIsOld, QuietAfter, Quiet, Handed,
       Pending, StartPlaces, CompletePlaces, Retirers, Turns
  <1>7. Data'
    BY <1>1, Records DEF StoreDialogSeen, At, Alive, IsCurrent, Open, Stays, Leaves,
       TurnEnds, controller, data, outside, PlacedAt, Ended, ActionPlaces, Data,
       DaemonMatches, KnowsKey, Control, ControllerOK, ActionInTurn, StartPlaces,
       CompletePlaces
  <1> QED BY <1>2, <1>3, <1>4, <1>5, <1>6, <1>7 DEF Typed

\* The daemon boots with the key that was read back.
LEMMA BootsWithKeyStep == IInv /\ BootsWithKey => IInv'
  <1> SUFFICES ASSUME Typed, Control, Data, BootsWithKey
               PROVE  Typed' /\ Control' /\ Data'
    BY DEF IInv
  <1>1. /\ \A pc \in ActionPlaces : Moves(pc) => PlacedAt(pc) /\ awaited' = awaited
        /\ ActionEnds => Ended
    BY Kit, TypeParts
  <1>2. ActionTyped'
    BY <1>1 DEF BootsWithKey, At, Alive, Open, Boot, IsCurrent, Stays, Leaves, TurnEnds,
       controller, outside, PlacedAt, Ended, Typed, ActionTyped, ActionPlaces, Turns,
       Retirers
  <1>3. TurnTyped'
    BY <1>1 DEF BootsWithKey, At, Alive, Stays, Leaves, TurnEnds, controller, outside,
       PlacedAt, Ended, Typed, TurnTyped, ActionPlaces, Turns, Retirers
  <1>4. DataTyped'
    BY <1>1, Records DEF BootsWithKey, At, Alive, Open, Boot, IsCurrent, Stays, Leaves,
       TurnEnds, controller, outside, PlacedAt, Ended, Typed, DataTyped, Keys
  <1>5. OutsideTyped'
    BY <1>1 DEF BootsWithKey, At, Alive, Open, Boot, IsCurrent, Stays, Leaves, TurnEnds,
       controller, outside, PlacedAt, Ended, Typed, OutsideTyped
  <1>6. Control'
    BY <1>1, Records DEF BootsWithKey, At, Alive, Open, Boot, IsCurrent, Stays, Leaves,
       TurnEnds, controller, outside, PlacedAt, Ended, ActionPlaces, Control, ControllerOK,
       ActionInTurn, QueueIsOwed, AwaitedIsOld, QuietAfter, Quiet, Handed, Pending,
       StartPlaces, CompletePlaces, Retirers, Turns
  <1>7. Data'
    BY <1>1, Records DEF BootsWithKey, At, Alive, Open, Boot, IsCurrent, Stays, Leaves,
       TurnEnds, controller, outside, PlacedAt, Ended, ActionPlaces, Data, DaemonMatches,
       KnowsKey, Control, ControllerOK, ActionInTurn, StartPlaces, CompletePlaces
  <1> QED BY <1>2, <1>3, <1>4, <1>5, <1>6, <1>7 DEF Typed

\* A removal is asked for.
LEMMA RemovalAskedStep == IInv /\ RemovalAsked => IInv'
  <1> SUFFICES ASSUME Typed, Control, Data, RemovalAsked
               PROVE  Typed' /\ Control' /\ Data'
    BY DEF IInv
  <1>1. ActionTyped'
    BY DEF RemovalAsked, Open, pro, controller, turns, data, Typed, ActionTyped,
       ActionPlaces, Turns, Retirers
  <1>2. TurnTyped'
    BY DEF RemovalAsked, pro, controller, turns, data, Typed, TurnTyped, ActionPlaces,
       Turns, Retirers
  <1>3. DataTyped'
    BY Records DEF RemovalAsked, Open, pro, controller, turns, data, Typed, DataTyped, Keys
  <1>4. OutsideTyped'
    BY DEF RemovalAsked, Open, pro, controller, turns, data, Typed, OutsideTyped
  <1>5. Control'
    BY Records DEF RemovalAsked, Open, pro, controller, turns, data, ActionPlaces, Control,
       ControllerOK, ActionInTurn, QueueIsOwed, AwaitedIsOld, QuietAfter, Quiet, Handed,
       Pending, StartPlaces, CompletePlaces, Retirers, Turns
  <1>6. Data'
    BY Records DEF RemovalAsked, Open, pro, controller, turns, data, ActionPlaces, Data,
       DaemonMatches, KnowsKey, Control, ControllerOK, ActionInTurn, StartPlaces,
       CompletePlaces
  <1> QED BY <1>1, <1>2, <1>3, <1>4, <1>5, <1>6 DEF Typed

\* It is confirmed, and retires the controller.
LEMMA RemovalAnsweredStep == IInv /\ RemovalAnswered => IInv'
  <1> SUFFICES ASSUME Typed, Control, Data, RemovalAnswered
               PROVE  Typed' /\ Control' /\ Data'
    BY DEF IInv
  <1>1. /\ \A by \in Retirers : Retire(by) => RetiredBy(by)
        /\ \A z \in Turns : queue' = Append(queue, z) => Joined(z)
    BY Kit, TypeParts
  <1>2. action'.pc = action.pc /\ action'.auto = action.auto /\ action'.resumes = action.resumes
    BY <1>1 DEF RemovalAnswered, RetiredBy, Disowned, pro, Retirers
  <1>3. ActionTyped'
    BY <1>1 DEF RemovalAnswered, Alive, pro, controller, Open, Room, data, RetiredBy,
       Disowned, Resting, Joined, Typed, ActionTyped, ActionPlaces, Turns, Retirers
  <1>4. TurnTyped'
    BY <1>1 DEF RemovalAnswered, Alive, pro, controller, Room, data, RetiredBy, Disowned,
       Resting, Joined, Typed, TurnTyped, ActionPlaces, Turns, Retirers
  <1>5. DataTyped'
    BY <1>1, Records DEF RemovalAnswered, Alive, pro, controller, Open, Room, data,
       RetiredBy, Disowned, Resting, Joined, Typed, DataTyped, Keys
  <1>6. OutsideTyped'
    BY <1>1 DEF RemovalAnswered, Alive, pro, controller, Open, Room, data, RetiredBy,
       Disowned, Resting, Joined, Typed, OutsideTyped
  <1>7. Control'
    BY <1>1, Records DEF RemovalAnswered, Alive, pro, controller, Open, Room, data,
       RetiredBy, Disowned, Resting, Joined, ActionPlaces, Control, ControllerOK,
       ActionInTurn, QueueIsOwed, AwaitedIsOld, QuietAfter, Quiet, Handed, Pending,
       StartPlaces, CompletePlaces, Retirers, Turns
  <1>8. Data'
    BY <1>2, Records DEF RemovalAnswered, Alive, pro, controller, Open, Room, data,
       ActionPlaces, Data, DaemonMatches, KnowsKey, Control, ControllerOK, ActionInTurn,
       StartPlaces, CompletePlaces
  <1> QED BY <1>3, <1>4, <1>5, <1>6, <1>7, <1>8 DEF Typed

\* Its retirement has settled: the controller is quiet.
LEMMA RemovalRetiredStep == IInv /\ RemovalRetired => IInv'
  <1> SUFFICES ASSUME Typed, Control, Data, RemovalRetired
               PROVE  Typed' /\ Control' /\ Data'
    BY DEF IInv
  <1>1. Handed("removal")
    BY DEF Control, Retirers
  <1>2. ActionTyped'
    BY DEF RemovalRetired, Removing, Settled, Open, RemovalEnds, TurnEnds, pro, controller,
       Typed, ActionTyped, ActionPlaces, Turns, Retirers
  <1>3. TurnTyped'
    BY DEF RemovalRetired, Removing, Settled, RemovalEnds, TurnEnds, pro, controller, Typed,
       TurnTyped, ActionPlaces, Turns, Retirers
  <1>4. DataTyped'
    BY Records DEF RemovalRetired, Removing, Settled, Open, RemovalEnds, TurnEnds, pro,
       controller, Typed, DataTyped, Keys
  <1>5. OutsideTyped'
    BY DEF RemovalRetired, Removing, Settled, Open, RemovalEnds, TurnEnds, pro, controller,
       Typed, OutsideTyped
  <1>6. Control'
    BY <1>1, Records DEF RemovalRetired, Removing, Settled, Open, RemovalEnds, TurnEnds,
       pro, controller, ActionPlaces, Control, ControllerOK, ActionInTurn, QueueIsOwed,
       AwaitedIsOld, QuietAfter, Quiet, Handed, Pending, StartPlaces, CompletePlaces,
       Retirers, Turns, Typed, ActionTyped
  <1>7. Data'
    BY Records DEF RemovalRetired, Removing, Settled, Open, RemovalEnds, TurnEnds, pro,
       controller, ActionPlaces, Data, DaemonMatches, KnowsKey, Control, ControllerOK,
       ActionInTurn, StartPlaces, CompletePlaces
  <1> QED BY <1>2, <1>3, <1>4, <1>5, <1>6, <1>7 DEF Typed

\* The store is emptied, or it is not known whether it is.
LEMMA RemovesStep == IInv /\ Removes => IInv'
  <1> SUFFICES ASSUME Typed, Control, Data, Removes
               PROVE  Typed' /\ Control' /\ Data'
    BY DEF IInv
  <1>1. ActionTyped'
    BY DEF Removes, Removing, Open, RemovalEnds, TurnEnds, pro, controller, Typed,
       ActionTyped, ActionPlaces, Turns, Retirers
  <1>2. TurnTyped'
    BY DEF Removes, Removing, RemovalEnds, TurnEnds, pro, controller, Typed, TurnTyped,
       ActionPlaces, Turns, Retirers
  <1>3. DataTyped'
    BY Records, StoreTyped DEF Removes, Removing, Open, RemovalEnds, TurnEnds, pro,
       controller, Typed, DataTyped, Keys
  <1>4. OutsideTyped'
    BY DEF Removes, Removing, Open, RemovalEnds, TurnEnds, pro, controller, Typed,
       OutsideTyped
  <1>5. Control'
    BY Records DEF Removes, Removing, Open, RemovalEnds, TurnEnds, pro, controller,
       ActionPlaces, Control, ControllerOK, ActionInTurn, QueueIsOwed, AwaitedIsOld,
       QuietAfter, Quiet, Handed, Pending, StartPlaces, CompletePlaces, Retirers, Turns
  <1>6. Data'
    BY Records, StoreTyped DEF Removes, Removing, Open, RemovalEnds, TurnEnds, pro,
       controller, ActionPlaces, Data, DaemonMatches, KnowsKey, Control, ControllerOK,
       ActionInTurn, StartPlaces, CompletePlaces
  <1> QED BY <1>1, <1>2, <1>3, <1>4, <1>5, <1>6 DEF Typed

\* What survived is the session's; or nothing is known.
LEMMA LooksStep == IInv /\ Looks => IInv'
  <1> SUFFICES ASSUME Typed, Control, Data, Looks
               PROVE  Typed' /\ Control' /\ Data'
    BY DEF IInv
  <1>1. NewController => Renewed
    BY Kit, TypeParts
  <1>2. \/ memory' = memory /\ place' = "uncertain"
        \/ MemoryIs(store.key, IF store = Nothing THEN "none" ELSE memory.retry,
                    store.pending # "none")
    <2>1. CASE memory' = [key |-> store.key, pending |-> store.pending # "none",
                          retry |-> IF store = Nothing THEN "none" ELSE memory.retry]
      BY <2>1, Records DEF Memory, MemoryIs, Keys
    <2> QED BY <2>1 DEF Looks
  <1>3. ActionTyped'
    BY <1>1 DEF Looks, Removing, controller, Open, RemovalEnds, TurnEnds, Renewed, Disowned,
       Typed, ActionTyped, ActionPlaces, Turns, Retirers
  <1>4. TurnTyped'
    BY <1>1 DEF Looks, Removing, controller, RemovalEnds, TurnEnds, Renewed, Disowned,
       Typed, TurnTyped, ActionPlaces, Turns, Retirers
  <1>5. DataTyped'
    BY <1>1, Records, <1>2, StoreTyped DEF Looks, Removing, controller, Open, RemovalEnds,
       TurnEnds, Renewed, Disowned, MemoryIs, Typed, DataTyped, Keys
  <1>6. OutsideTyped'
    BY <1>1 DEF Looks, Removing, controller, Open, RemovalEnds, TurnEnds, Renewed, Disowned,
       Typed, OutsideTyped
  <1>7. Control'
    BY <1>1, Records DEF Looks, Removing, controller, Open, RemovalEnds, TurnEnds, Renewed,
       Disowned, ActionPlaces, Control, ControllerOK, ActionInTurn, QueueIsOwed,
       AwaitedIsOld, QuietAfter, Quiet, Handed, Pending, StartPlaces, CompletePlaces,
       Retirers, Turns
  <1>8. Data'
    BY <1>1, Records, <1>2, StoreTyped DEF Looks, Removing, controller, Open, RemovalEnds,
       TurnEnds, Renewed, Disowned, MemoryIs, ActionPlaces, Data, DaemonMatches, KnowsKey,
       Control, ControllerOK, ActionInTurn, StartPlaces, CompletePlaces
  <1> QED BY <1>3, <1>4, <1>5, <1>6, <1>7, <1>8 DEF Typed

\* The daemon boots with what survived.
LEMMA RemovalBootsStep == IInv /\ RemovalBoots => IInv'
  <1> SUFFICES ASSUME Typed, Control, Data, RemovalBoots
               PROVE  Typed' /\ Control' /\ Data'
    BY DEF IInv
  <1>1. ActionTyped'
    BY DEF RemovalBoots, Removing, Open, Boot, RemovalEnds, TurnEnds, pro, controller,
       Typed, ActionTyped, ActionPlaces, Turns, Retirers
  <1>2. TurnTyped'
    BY DEF RemovalBoots, Removing, RemovalEnds, TurnEnds, pro, controller, Typed, TurnTyped,
       ActionPlaces, Turns, Retirers
  <1>3. DataTyped'
    BY Records, StoreTyped DEF RemovalBoots, Removing, Open, Boot, RemovalEnds, TurnEnds,
       pro, controller, Typed, DataTyped, Keys
  <1>4. OutsideTyped'
    BY DEF RemovalBoots, Removing, Open, Boot, RemovalEnds, TurnEnds, pro, controller,
       Typed, OutsideTyped
  <1>5. Control'
    BY Records DEF RemovalBoots, Removing, Open, Boot, RemovalEnds, TurnEnds, pro,
       controller, ActionPlaces, Control, ControllerOK, ActionInTurn, QueueIsOwed,
       AwaitedIsOld, QuietAfter, Quiet, Handed, Pending, StartPlaces, CompletePlaces,
       Retirers, Turns
  <1>6. Data'
    BY Records, StoreTyped DEF RemovalBoots, Removing, Open, Boot, RemovalEnds, TurnEnds,
       pro, controller, ActionPlaces, Data, DaemonMatches, KnowsKey, Control, ControllerOK,
       ActionInTurn, StartPlaces, CompletePlaces
  <1> QED BY <1>1, <1>2, <1>3, <1>4, <1>5, <1>6 DEF Typed

\* The failed removal is reported.
LEMMA RemovalFailureSeenStep == IInv /\ RemovalFailureSeen => IInv'
  <1> SUFFICES ASSUME Typed, Control, Data, RemovalFailureSeen
               PROVE  Typed' /\ Control' /\ Data'
    BY DEF IInv
  <1>1. \A auto \in BOOLEAN : Starts(auto) => Started(auto)
    BY Kit, TypeParts
  <1>2. ActionTyped'
    BY <1>1 DEF RemovalFailureSeen, Removing, Alive, RemovalEnds, TurnEnds, ResumesPending,
       Open, controller, data, Started, Joined, Typed, ActionTyped, ActionPlaces, Turns,
       Retirers
  <1>3. TurnTyped'
    BY <1>1 DEF RemovalFailureSeen, Removing, Alive, RemovalEnds, TurnEnds, ResumesPending,
       controller, data, Started, Joined, Typed, TurnTyped, ActionPlaces, Turns, Retirers
  <1>4. DataTyped'
    BY <1>1, Records DEF RemovalFailureSeen, Removing, Alive, RemovalEnds, TurnEnds,
       ResumesPending, Open, controller, data, Started, Joined, Typed, DataTyped, Keys
  <1>5. OutsideTyped'
    BY <1>1 DEF RemovalFailureSeen, Removing, Alive, RemovalEnds, TurnEnds, ResumesPending,
       Open, controller, data, Started, Joined, Typed, OutsideTyped
  <1>6. Control'
    <2>1. CASE UNCHANGED <<action, queue>>
      BY <2>1 DEF RemovalFailureSeen, Removing, Alive, RemovalEnds, TurnEnds, Open,
         controller, data, ActionPlaces, Control, ControllerOK, ActionInTurn, QueueIsOwed,
         AwaitedIsOld, QuietAfter, Quiet, Handed, Pending, StartPlaces, CompletePlaces,
         Retirers, Turns
    <2>2. CASE Started(TRUE) /\ Open /\ current /\ action.pc = "none"
      BY <2>2 DEF RemovalFailureSeen, Removing, Alive, RemovalEnds, TurnEnds, Open,
         controller, data, Started, Joined, ActionPlaces, Control, ControllerOK,
         ActionInTurn, QueueIsOwed, AwaitedIsOld, QuietAfter, Quiet, Handed, Pending,
         StartPlaces, CompletePlaces, Retirers, Turns
    <2> QED BY <1>1, <2>1, <2>2 DEF RemovalFailureSeen, ResumesPending
  <1>7. Data'
    BY <1>1, Records DEF RemovalFailureSeen, Removing, Alive, RemovalEnds, TurnEnds,
       ResumesPending, Open, controller, data, Started, Joined, ActionPlaces, Data,
       DaemonMatches, KnowsKey, Control, ControllerOK, ActionInTurn, StartPlaces,
       CompletePlaces
  <1> QED BY <1>2, <1>3, <1>4, <1>5, <1>6, <1>7 DEF Typed

\* An update retires the controller.
LEMMA InstallAskedStep == IInv /\ InstallAsked => IInv'
  <1> SUFFICES ASSUME Typed, Control, Data, InstallAsked
               PROVE  Typed' /\ Control' /\ Data'
    BY DEF IInv
  <1>1. /\ \A by \in Retirers : Retire(by) => RetiredBy(by)
        /\ \A z \in Turns : queue' = Append(queue, z) => Joined(z)
    BY Kit, TypeParts
  <1>2. action'.pc = action.pc /\ action'.auto = action.auto /\ action'.resumes = action.resumes
    BY <1>1 DEF InstallAsked, RetiredBy, Disowned, pro, Retirers
  <1>3. ActionTyped'
    BY <1>1 DEF InstallAsked, Open, Room, data, RetiredBy, Disowned, Resting, Joined, Typed,
       ActionTyped, ActionPlaces, Turns, Retirers
  <1>4. TurnTyped'
    BY <1>1 DEF InstallAsked, Room, data, RetiredBy, Disowned, Resting, Joined, Typed,
       TurnTyped, ActionPlaces, Turns, Retirers
  <1>5. DataTyped'
    BY <1>1, Records DEF InstallAsked, Open, Room, data, RetiredBy, Disowned, Resting,
       Joined, Typed, DataTyped, Keys
  <1>6. OutsideTyped'
    BY <1>1 DEF InstallAsked, Open, Room, data, RetiredBy, Disowned, Resting, Joined, Typed,
       OutsideTyped
  <1>7. Control'
    BY <1>1, Records DEF InstallAsked, Open, Room, data, RetiredBy, Disowned, Resting,
       Joined, ActionPlaces, Control, ControllerOK, ActionInTurn, QueueIsOwed, AwaitedIsOld,
       QuietAfter, Quiet, Handed, Pending, StartPlaces, CompletePlaces, Retirers, Turns
  <1>8. Data'
    BY <1>2, Records DEF InstallAsked, Open, Room, data, ActionPlaces, Data, DaemonMatches,
       KnowsKey, Control, ControllerOK, ActionInTurn, StartPlaces, CompletePlaces
  <1> QED BY <1>3, <1>4, <1>5, <1>6, <1>7, <1>8 DEF Typed

\* Its retirement has settled: the installer may run.
LEMMA InstallRetiredStep == IInv /\ InstallRetired => IInv'
  <1> SUFFICES ASSUME Typed, Control, Data, InstallRetired
               PROVE  Typed' /\ Control' /\ Data'
    BY DEF IInv
  <1>1. Handed("install")
    BY DEF Control, Retirers
  <1>2. ActionTyped'
    BY DEF InstallRetired, Settled, TurnEnds, Open, pro, controller, Typed, ActionTyped,
       ActionPlaces, Turns, Retirers
  <1>3. TurnTyped'
    BY DEF InstallRetired, Settled, TurnEnds, pro, controller, Typed, TurnTyped,
       ActionPlaces, Turns, Retirers
  <1>4. DataTyped'
    BY Records DEF InstallRetired, Settled, TurnEnds, Open, pro, controller, Typed,
       DataTyped, Keys
  <1>5. OutsideTyped'
    BY DEF InstallRetired, Settled, TurnEnds, Open, pro, controller, Typed, OutsideTyped
  <1>6. Control'
    BY <1>1, Records DEF InstallRetired, Settled, TurnEnds, Open, pro, controller,
       ActionPlaces, Control, ControllerOK, ActionInTurn, QueueIsOwed, AwaitedIsOld,
       QuietAfter, Quiet, Handed, Pending, StartPlaces, CompletePlaces, Retirers, Turns,
       Typed, ActionTyped
  <1>7. Data'
    BY Records DEF InstallRetired, Settled, TurnEnds, Open, pro, controller, ActionPlaces,
       Data, DaemonMatches, KnowsKey, Control, ControllerOK, ActionInTurn, StartPlaces,
       CompletePlaces
  <1> QED BY <1>2, <1>3, <1>4, <1>5, <1>6, <1>7 DEF Typed

\* The installer fails.
LEMMA InstallerFailsStep == IInv /\ InstallerFails => IInv'
  <1> SUFFICES ASSUME Typed, Control, Data, InstallerFails
               PROVE  Typed' /\ Control' /\ Data'
    BY DEF IInv
  <1>1. \A z \in Turns : queue' = Append(queue, z) => Joined(z)
    BY Kit, TypeParts
  <1>2. ActionTyped'
    BY <1>1 DEF InstallerFails, pro, controller, data, Joined, Typed, ActionTyped,
       ActionPlaces, Turns, Retirers
  <1>3. TurnTyped'
    BY <1>1 DEF InstallerFails, pro, controller, data, Joined, Typed, TurnTyped,
       ActionPlaces, Turns, Retirers
  <1>4. DataTyped'
    BY <1>1, Records DEF InstallerFails, pro, controller, data, Joined, Typed, DataTyped,
       Keys
  <1>5. OutsideTyped'
    BY <1>1 DEF InstallerFails, pro, controller, data, Joined, Typed, OutsideTyped
  <1>6. Control'
    BY <1>1, Records DEF InstallerFails, pro, controller, data, Joined, ActionPlaces,
       Control, ControllerOK, ActionInTurn, QueueIsOwed, AwaitedIsOld, QuietAfter, Quiet,
       Handed, Pending, StartPlaces, CompletePlaces, Retirers, Turns
  <1>7. Data'
    BY <1>1, Records DEF InstallerFails, pro, controller, data, Joined, ActionPlaces, Data,
       DaemonMatches, KnowsKey, Open, Control, ControllerOK, ActionInTurn, StartPlaces,
       CompletePlaces
  <1> QED BY <1>2, <1>3, <1>4, <1>5, <1>6, <1>7 DEF Typed

\* The session recovers: it forgets what it knew of Pro.
LEMMA RecoversStep == IInv /\ Recovers => IInv'
  <1> SUFFICES ASSUME Typed, Control, Data, Recovers
               PROVE  Typed' /\ Control' /\ Data'
    BY DEF IInv
  <1>1. NewController => Renewed
    BY Kit, TypeParts
  <1>2. (gate # "open" /\ memory' = memory) \/ MemoryIs("none", memory.retry, FALSE)
    BY <1>1, TypeParts, DataKit, Records, StoreTyped DEF Recovers, Recovering, RecoveryEnds,
       TurnEnds, controller, Renewed, Disowned, Keys, ActionPlaces
  <1>3. ActionTyped'
    BY <1>1 DEF Recovers, Recovering, RecoveryEnds, TurnEnds, controller, Renewed, Disowned,
       Typed, ActionTyped, ActionPlaces, Turns, Retirers
  <1>4. TurnTyped'
    BY <1>1 DEF Recovers, Recovering, RecoveryEnds, TurnEnds, controller, Renewed, Disowned,
       Typed, TurnTyped, ActionPlaces, Turns, Retirers
  <1>5. DataTyped'
    BY <1>1, Records, <1>2, StoreTyped DEF Recovers, Recovering, RecoveryEnds, TurnEnds,
       controller, Renewed, Disowned, MemoryIs, Typed, DataTyped, Keys
  <1>6. OutsideTyped'
    BY <1>1 DEF Recovers, Recovering, RecoveryEnds, TurnEnds, controller, Renewed, Disowned,
       Typed, OutsideTyped
  <1>7. Control'
    BY <1>1, Records DEF Recovers, Recovering, RecoveryEnds, TurnEnds, controller, Renewed,
       Disowned, ActionPlaces, Control, ControllerOK, ActionInTurn, QueueIsOwed,
       AwaitedIsOld, QuietAfter, Quiet, Handed, Pending, StartPlaces, CompletePlaces,
       Retirers, Turns
  <1>8. Data'
    BY <1>1, Records, <1>2, StoreTyped DEF Recovers, Recovering, RecoveryEnds, TurnEnds,
       controller, Renewed, Disowned, MemoryIs, ActionPlaces, Data, DaemonMatches, KnowsKey,
       Open, Control, ControllerOK, ActionInTurn, StartPlaces, CompletePlaces
  <1> QED BY <1>3, <1>4, <1>5, <1>6, <1>7, <1>8 DEF Typed

\* It loads what the store has.
LEMMA RecoveryLoadsStep == IInv /\ RecoveryLoads => IInv'
  <1> SUFFICES ASSUME Typed, Control, Data, RecoveryLoads
               PROVE  Typed' /\ Control' /\ Data'
    BY DEF IInv
  <1>1. memory' = memory \/ MemoryIs(store.key, memory.retry, store.pending # "none")
    BY TypeParts, DataKit, Records, StoreTyped DEF RecoveryLoads, Recovering, pro,
       controller, outside, Keys, ActionPlaces
  <1>2. ActionTyped'
    BY DEF RecoveryLoads, Recovering, pro, controller, outside, Typed, ActionTyped,
       ActionPlaces, Turns, Retirers
  <1>3. TurnTyped'
    BY DEF RecoveryLoads, Recovering, pro, controller, outside, Typed, TurnTyped,
       ActionPlaces, Turns, Retirers
  <1>4. DataTyped'
    BY Records, <1>1, StoreTyped DEF RecoveryLoads, Recovering, pro, controller, outside,
       MemoryIs, Typed, DataTyped, Keys
  <1>5. OutsideTyped'
    BY DEF RecoveryLoads, Recovering, pro, controller, outside, Typed, OutsideTyped
  <1>6. Control'
    BY Records DEF RecoveryLoads, Recovering, pro, controller, outside, ActionPlaces,
       Control, ControllerOK, ActionInTurn, QueueIsOwed, AwaitedIsOld, QuietAfter, Quiet,
       Handed, Pending, StartPlaces, CompletePlaces, Retirers, Turns
  <1>7. Data'
    BY Records, <1>1, StoreTyped DEF RecoveryLoads, Recovering, pro, controller, outside,
       MemoryIs, ActionPlaces, Data, DaemonMatches, KnowsKey, Open, Control, ControllerOK,
       ActionInTurn, StartPlaces, CompletePlaces
  <1> QED BY <1>2, <1>3, <1>4, <1>5, <1>6, <1>7 DEF Typed

\* It boots with that.
LEMMA RecoveryBootsStep == IInv /\ RecoveryBoots => IInv'
  <1> SUFFICES ASSUME Typed, Control, Data, RecoveryBoots
               PROVE  Typed' /\ Control' /\ Data'
    BY DEF IInv
  <1>1. \A auto \in BOOLEAN : Starts(auto) => Started(auto)
    BY Kit, TypeParts
  <1>2. ActionTyped'
    BY <1>1 DEF RecoveryBoots, Recovering, Open, Boot, RecoveryEnds, TurnEnds,
       ResumesPending, controller, Started, Joined, Typed, ActionTyped, ActionPlaces, Turns,
       Retirers
  <1>3. TurnTyped'
    BY <1>1 DEF RecoveryBoots, Recovering, RecoveryEnds, TurnEnds, ResumesPending,
       controller, Started, Joined, Typed, TurnTyped, ActionPlaces, Turns, Retirers
  <1>4. DataTyped'
    BY <1>1, Records DEF RecoveryBoots, Recovering, Open, Boot, RecoveryEnds, TurnEnds,
       ResumesPending, controller, Started, Joined, Typed, DataTyped, Keys
  <1>5. OutsideTyped'
    BY <1>1 DEF RecoveryBoots, Recovering, Open, Boot, RecoveryEnds, TurnEnds,
       ResumesPending, controller, Started, Joined, Typed, OutsideTyped
  <1>6. Control'
    BY <1>1, Records DEF RecoveryBoots, Recovering, Open, Boot, RecoveryEnds, TurnEnds,
       ResumesPending, controller, Started, Joined, ActionPlaces, Control, ControllerOK,
       ActionInTurn, QueueIsOwed, AwaitedIsOld, QuietAfter, Quiet, Handed, Pending,
       StartPlaces, CompletePlaces, Retirers, Turns
  <1>7. Data'
    BY <1>1, Records DEF RecoveryBoots, Recovering, Open, Boot, RecoveryEnds, TurnEnds,
       ResumesPending, controller, Started, Joined, ActionPlaces, Data, DaemonMatches,
       KnowsKey, Control, ControllerOK, ActionInTurn, StartPlaces, CompletePlaces
  <1> QED BY <1>2, <1>3, <1>4, <1>5, <1>6, <1>7 DEF Typed

\* Quit closes the gate and retires the controller.
LEMMA QuitAskedStep == IInv /\ QuitAsked => IInv'
  <1> SUFFICES ASSUME Typed, Control, Data, QuitAsked
               PROVE  Typed' /\ Control' /\ Data'
    BY DEF IInv
  <1>1. /\ \A by \in Retirers : Retire(by) => RetiredBy(by)
        /\ \A z \in Turns : queue' = Append(queue, z) => Joined(z)
    BY Kit, TypeParts
  <1>2. action'.pc = action.pc /\ action'.auto = action.auto /\ action'.resumes = action.resumes
    BY <1>1 DEF QuitAsked, RetiredBy, Disowned, pro, Retirers
  <1>3. ActionTyped'
    BY <1>1 DEF QuitAsked, data, RetiredBy, Disowned, Resting, Joined, Typed, ActionTyped,
       ActionPlaces, Turns, Retirers
  <1>4. TurnTyped'
    BY <1>1 DEF QuitAsked, data, RetiredBy, Disowned, Resting, Joined, Typed, TurnTyped,
       ActionPlaces, Turns, Retirers
  <1>5. DataTyped'
    BY <1>1, Records DEF QuitAsked, data, RetiredBy, Disowned, Resting, Joined, Typed,
       DataTyped, Keys
  <1>6. OutsideTyped'
    BY <1>1 DEF QuitAsked, data, RetiredBy, Disowned, Resting, Joined, Typed, OutsideTyped
  <1>7. Control'
    BY <1>1, Records DEF QuitAsked, data, RetiredBy, Disowned, Resting, Joined,
       ActionPlaces, Control, ControllerOK, ActionInTurn, QueueIsOwed, AwaitedIsOld,
       QuietAfter, Quiet, Handed, Pending, StartPlaces, CompletePlaces, Retirers, Turns
  <1>8. Data'
    BY <1>2, Records DEF QuitAsked, data, ActionPlaces, Data, DaemonMatches, KnowsKey, Open,
       Control, ControllerOK, ActionInTurn, StartPlaces, CompletePlaces
  <1> QED BY <1>3, <1>4, <1>5, <1>6, <1>7, <1>8 DEF Typed

\* An uncertain removal quits.
LEMMA UncertainSeenStep == IInv /\ UncertainSeen => IInv'
  <1> SUFFICES ASSUME Typed, Control, Data, UncertainSeen
               PROVE  Typed' /\ Control' /\ Data'
    BY DEF IInv
  <1>1. /\ \A by \in Retirers : Retire(by) => RetiredBy(by)
        /\ \A z \in Turns : queue' = Append(queue, z) => Joined(z)
    BY Kit, TypeParts
  <1>2. action'.pc = action.pc /\ action'.auto = action.auto /\ action'.resumes = action.resumes
    BY <1>1 DEF UncertainSeen, RetiredBy, Disowned, pro, Retirers
  <1>3. ActionTyped'
    BY <1>1 DEF UncertainSeen, Removing, Alive, RemovalEnds, TurnEnds, pro, controller,
       data, RetiredBy, Disowned, Resting, Joined, Typed, ActionTyped, ActionPlaces, Turns,
       Retirers
  <1>4. TurnTyped'
    BY <1>1 DEF UncertainSeen, Removing, Alive, RemovalEnds, TurnEnds, pro, controller,
       data, RetiredBy, Disowned, Resting, Joined, Typed, TurnTyped, ActionPlaces, Turns,
       Retirers
  <1>5. DataTyped'
    BY <1>1, Records DEF UncertainSeen, Removing, Alive, RemovalEnds, TurnEnds, pro,
       controller, data, RetiredBy, Disowned, Resting, Joined, Typed, DataTyped, Keys
  <1>6. OutsideTyped'
    BY <1>1 DEF UncertainSeen, Removing, Alive, RemovalEnds, TurnEnds, pro, controller,
       data, RetiredBy, Disowned, Resting, Joined, Typed, OutsideTyped
  <1>7. Control'
    BY <1>1, Records DEF UncertainSeen, Removing, Alive, RemovalEnds, TurnEnds, pro,
       controller, data, RetiredBy, Disowned, Resting, Joined, ActionPlaces, Control,
       ControllerOK, ActionInTurn, QueueIsOwed, AwaitedIsOld, QuietAfter, Quiet, Handed,
       Pending, StartPlaces, CompletePlaces, Retirers, Turns
  <1>8. Data'
    BY <1>2, Records DEF UncertainSeen, Removing, Alive, RemovalEnds, TurnEnds, pro,
       controller, data, ActionPlaces, Data, DaemonMatches, KnowsKey, Open, Control,
       ControllerOK, ActionInTurn, StartPlaces, CompletePlaces
  <1> QED BY <1>3, <1>4, <1>5, <1>6, <1>7, <1>8 DEF Typed

\* The retirement of quit has settled: the app exits.
LEMMA QuitRetiredStep == IInv /\ QuitRetired => IInv'
  <1> SUFFICES ASSUME Typed, Control, Data, QuitRetired
               PROVE  Typed' /\ Control' /\ Data'
    BY DEF IInv
  <1>1. Handed("quit")
    BY DEF Control, Retirers
  <1>2. ActionTyped'
    BY DEF QuitRetired, Settled, TurnEnds, pro, controller, Typed, ActionTyped,
       ActionPlaces, Turns, Retirers
  <1>3. TurnTyped'
    BY DEF QuitRetired, Settled, TurnEnds, pro, controller, Typed, TurnTyped, ActionPlaces,
       Turns, Retirers
  <1>4. DataTyped'
    BY Records DEF QuitRetired, Settled, TurnEnds, pro, controller, Typed, DataTyped, Keys
  <1>5. OutsideTyped'
    BY DEF QuitRetired, Settled, TurnEnds, pro, controller, Typed, OutsideTyped
  <1>6. Control'
    BY <1>1, Records DEF QuitRetired, Settled, TurnEnds, pro, controller, ActionPlaces,
       Control, ControllerOK, ActionInTurn, QueueIsOwed, AwaitedIsOld, QuietAfter, Quiet,
       Handed, Pending, StartPlaces, CompletePlaces, Retirers, Turns, Typed, ActionTyped
  <1>7. Data'
    BY Records DEF QuitRetired, Settled, TurnEnds, pro, controller, ActionPlaces, Data,
       DaemonMatches, KnowsKey, Open, Control, ControllerOK, ActionInTurn, StartPlaces,
       CompletePlaces
  <1> QED BY <1>2, <1>3, <1>4, <1>5, <1>6, <1>7 DEF Typed

-----------------------------------------------------------------------------
(* The invariant, and what it means.                                        *)

\* A session starts with no retirement, and with the key that the store has.
LEMMA InitHolds == Init => IInv
  <1> SUFFICES ASSUME Init PROVE Typed /\ Control /\ Data
    BY DEF IInv
  <1>1. /\ store \in Envelope /\ store.key \in {"none", "old"} /\ store.pending \in {"none", "fresh"}
        /\ store.key \in Keys
    BY DEF Init, Envelope, Keys
  <1>2. memory \in Memory /\ memory.key = store.key /\ memory.retry = "none"
    BY <1>1 DEF Init, Memory
  <1>3. /\ action \in Action /\ action.pc \in {"none", "starting"}
        /\ action.pc = "none" => ~memory.pending
        /\ memory.pending <=> action.pc = "starting"
    <2>1. CASE memory.pending
      <3>1. action = [pc |-> "starting", auto |-> TRUE, resumes |-> FALSE, mine |-> TRUE]
        BY <2>1 DEF Init, NoAction
      <3> QED BY <2>1, <3>1 DEF Action, ActionPlaces
    <2>2. CASE ~memory.pending
      BY <2>2, NoActionTyped DEF Init
    <2> QED BY <2>1, <2>2
  <1>4. /\ queue \in Seq(Turns)
        /\ \A x : Has(queue, x) => x = "start" /\ action.pc = "starting"
        /\ \A x : Once(queue, x)
    <2>1. CASE memory.pending
      <3>1. queue = <<"start">> /\ "start" \in Turns
        BY <2>1 DEF Init, Turns
      <3> QED BY <1>3, <2>1, <3>1 DEF Has, Once
    <2>2. CASE ~memory.pending
      BY <2>2, EmptyQueue DEF Init
    <2> QED BY <2>1, <2>2
  <1>5. ActionTyped /\ TurnTyped
    BY <1>3, <1>4 DEF Init, Flow!FlowInit, ActionTyped, TurnTyped
  <1>6. DataTyped /\ OutsideTyped
    BY <1>1, <1>2 DEF Init, DataTyped, OutsideTyped
  <1>7. ControllerOK /\ ActionInTurn /\ QueueIsOwed
    BY <1>3, <1>4 DEF Init, Flow!FlowInit, ControllerOK, ActionInTurn, StartPlaces,
       CompletePlaces,
                     QueueIsOwed
  <1>8. AwaitedIsOld /\ QuietAfter
    BY DEF Init, Flow!FlowInit, AwaitedIsOld, QuietAfter
  <1>9. \A by \in Retirers : Handed(by)
    BY <1>4 DEF Init, Handed, Pending, Retirers
  <1>10. Data
    BY <1>1, <1>2, <1>3 DEF Init, Data, DaemonMatches, KnowsKey
  <1> QED BY <1>5, <1>6, <1>7, <1>8, <1>9, <1>10 DEF Typed, Control

\* Every step keeps it.
LEMMA NextHolds == IInv /\ [Next]_vars => IInv'
  <1> SUFFICES ASSUME IInv, [Next]_vars PROVE IInv'
    OBVIOUS
  <1>1. CASE FlowWork \/ FlowDelivers
    BY <1>1, FlowListensStep, FlowFailsStep, ControllerDownStep, FlowDeliversStep DEF
       FlowWork
  <1>2. CASE ActionWork
    BY <1>2, BeginsLateStep, BeginsRetryStep, BeginsStep, PreflightStep, GetsHandleStep,
       GetsNothingStep, GetsErrorStep, PageReopenedStep, KeyWasThereStep,
       ResultRejectedStep,
       DialogSeenStep, SavesStep, ConfirmsStep, StoreDialogSeenStep, BootsWithKeyStep
    DEF ActionWork
  <1>3. CASE TurnWork
    BY <1>3, TakeTurnStep, SkipTurnStep, ReopensStep, FolderStopsStep, FolderBootsStep,
       RemovalRetiredStep, RemovesStep, LooksStep, RemovalBootsStep, RemovalFailureSeenStep,
       UncertainSeenStep, InstallRetiredStep, RecoversStep, RecoveryLoadsStep,
       RecoveryBootsStep,
       QuitRetiredStep
    DEF TurnWork
  <1>4. CASE FolderAsked \/ ActivationAsked \/ ReopenAsked \/ RemovalAsked \/ RemovalAnswered
             \/ InstallAsked \/ InstallerFails \/ QuitAsked
    BY <1>4, FolderAskedStep, ActivationAskedStep, ReopenAskedStep, RemovalAskedStep,
       RemovalAnsweredStep, InstallAskedStep, InstallerFailsStep, QuitAskedStep
  <1>5. CASE UNCHANGED vars
    <2>1. UNCHANGED <<asked, flow, retired, current, action, awaited, queue, turn, place>>
      BY <1>5 DEF vars, pro, controller, turns
    <2>2. UNCHANGED <<store, memory, daemon, removal, updater, quitting, gate>>
      BY <1>5 DEF vars, data, outside
    <2>3. Typed'
      BY <2>1, <2>2 DEF IInv, Typed, ActionTyped, TurnTyped, DataTyped, OutsideTyped
    <2>4. Control'
      BY <2>1, <2>2 DEF IInv, Control, ControllerOK, ActionInTurn, QueueIsOwed,
         AwaitedIsOld,
                        QuietAfter, Quiet, Handed, Pending
    <2>5. Data'
      BY <2>1, <2>2 DEF IInv, Data, DaemonMatches, KnowsKey, Open
    <2> QED BY <2>3, <2>4, <2>5 DEF IInv
  <1> QED BY <1>1, <1>2, <1>3, <1>4, <1>5 DEF Next

\* The invariant holds in every reachable state.
THEOREM Invariance == Spec => []IInv
  BY InitHolds, NextHolds, PTL DEF Spec

\* A running session never has another license key than the one the store has,
\* but while a save whose outcome is unknown waits to be retried.
THEOREM SessionMatchesStoreHolds == Spec => []SessionMatchesStore
  <1>1. IInv => SessionMatchesStore
    BY TypeParts DEF IInv, Data, DaemonMatches, SessionMatchesStore
  <1> QED BY <1>1, Invariance, PTL

\* What retires the controller goes on in quiet: nothing of the controller is
\* under way, and the action touches neither the store nor the daemon.
THEOREM HandoverIsQuietHolds == Spec => []HandoverIsQuiet
  <1>1. IInv => HandoverIsQuiet
    <2> SUFFICES ASSUME IInv, gate = "exited" \/ updater = "installing" \/ place = "looking"
                 PROVE  Quiet /\ action.pc \notin {"saving", "confirming", "booting", "asking"}
      BY DEF HandoverIsQuiet, Quiet
    <2>1. Quiet
      BY DEF IInv, Control, QuietAfter
    <2>2. action.pc # "asking"
      BY <2>1 DEF IInv, Control, ControllerOK, Quiet
    <2>3. CASE gate = "exited" \/ updater = "installing"
      BY <2>1, <2>2, <2>3 DEF IInv, Control, QuietAfter
    <2>4. CASE place = "looking"
      BY <2>1, <2>2, <2>4 DEF IInv, Control, ActionInTurn, CompletePlaces
    <2> QED BY <2>1, <2>2, <2>3, <2>4
  <1> QED BY <1>1, Invariance, PTL
===============================================================================
