---------------------------- MODULE UpdaterProofs ----------------------------
(***************************************************************************)
(* Proofs about Updater.tla, for any set of versions, any number of clicks  *)
(* and either kind of library: one question and one call at a time, and no  *)
(* session beside an installer.  Then proofs about AppImage.tla, for any    *)
(* set of file names and any number of attempts: whatever fails and         *)
(* whenever the machine stops, an AppImage is left to start.                *)
(*                                                                          *)
(* The invariant of the updater counts.  Each thing that the controller     *)
(* awaits is in one queue once: the prompt, or what became of it, while one *)
(* is in flight; the turn of main.js it called for; the refusal or the      *)
(* failure that it tells of.  So the dialog that is closed, or the turn     *)
(* that is taken, is the one that somebody awaits.                          *)
(***************************************************************************)
EXTENDS Updater, AppImage, FiniteSetTheorems, TLAPS

\* The number that a condition adds to a count.
One(b) == IF b THEN 1 ELSE 0

\* A refusal is in the queue, or on the screen, while the installation awaits it.
RefusalIsHeard == CountOf(dialogs, "refused") = One(install = "told")

\* So is the report of a recovery.
FailureIsHeard == CountOf(dialogs, "installFailed") = One(recovery = "reporting")

\* Where the library's error tells of installers only, the installation, the
\* recovery and what main.js holds move together.
InstallerIsOne ==
    ~stray =>
      /\ install \in {"preparing", "launching", "left"} => installing /\ recovery = "none"
      /\ install = "waiting" <=> recovery # "none"
      /\ install = "left" => closing
      /\ InstallerAlone

\* The inductive invariant.
IInv == OneAtATime /\ RefusalIsHeard /\ FailureIsHeard /\ InstallerIsOne

-----------------------------------------------------------------------------
(* Counting in a queue.                                                     *)

\* A queue has finitely many members of a kind.
LEMMA CountFinite ==
    ASSUME NEW S, NEW s \in Seq(S), NEW x
    PROVE  /\ IsFiniteSet({i \in DOMAIN s : s[i] = x})
           /\ CountOf(s, x) \in Nat
  <1>1. DOMAIN s = 1..Len(s) /\ Len(s) \in Nat
    OBVIOUS
  <1>2. IsFiniteSet(1..Len(s))
    BY <1>1, FS_Interval
  <1>3. IsFiniteSet({i \in DOMAIN s : s[i] = x})
    <2>1. {i \in DOMAIN s : s[i] = x} \in SUBSET (1..Len(s))
      BY <1>1
    <2> QED BY <1>2, <2>1, FS_Subset
  <1> QED BY <1>3, FS_CardinalityType DEF CountOf

\* An empty queue has none.
LEMMA CountEmpty == \A x : CountOf(<<>>, x) = 0
  <1> SUFFICES ASSUME NEW x PROVE CountOf(<<>>, x) = 0
    OBVIOUS
  <1>1. DOMAIN <<>> = {}
    OBVIOUS
  <1>2. {i \in DOMAIN <<>> : <<>>[i] = x} = {}
    BY <1>1
  <1> QED BY <1>2, FS_EmptySet DEF CountOf

\* The end of a queue.
LEMMA CountAppend ==
    ASSUME NEW S, NEW s \in Seq(S), NEW y \in S, NEW x
    PROVE  CountOf(Append(s, y), x) = CountOf(s, x) + One(y = x)
  <1> DEFINE U == {i \in DOMAIN s : s[i] = x}
             T == {i \in DOMAIN Append(s, y) : Append(s, y)[i] = x}
             n == Len(s) + 1
  <1>1. /\ DOMAIN s = 1..Len(s) /\ Len(s) \in Nat
        /\ DOMAIN Append(s, y) = 1..n
        /\ Append(s, y)[n] = y
        /\ \A i \in 1..Len(s) : Append(s, y)[i] = s[i]
    OBVIOUS
  <1>2. n \notin U /\ 1..n = (1..Len(s)) \cup {n} /\ n \notin 1..Len(s)
    BY <1>1
  <1>3. IsFiniteSet(U) /\ CountOf(s, x) \in Nat
    BY CountFinite
  <1>4. T = IF y = x THEN U \cup {n} ELSE U
    BY <1>1, <1>2
  <1>5. CountOf(s, x) = Cardinality(U) /\ CountOf(Append(s, y), x) = Cardinality(T)
    BY DEF CountOf
  <1> HIDE DEF U, T, n
  <1>6. Cardinality(U \cup {n}) = Cardinality(U) + 1
    BY <1>2, <1>3, FS_AddElement
  <1> QED BY <1>3, <1>4, <1>5, <1>6 DEF One

\* Its front.
LEMMA CountTail ==
    ASSUME NEW S, NEW s \in Seq(S), s # <<>>, NEW x
    PROVE  CountOf(s, x) = CountOf(Tail(s), x) + One(Head(s) = x)
  <1> DEFINE U == {i \in DOMAIN s : s[i] = x}
             T == {i \in DOMAIN Tail(s) : Tail(s)[i] = x}
             V == U \ {1}
             f == [i \in T |-> i + 1]
  <1>1. /\ DOMAIN s = 1..Len(s) /\ Len(s) \in Nat /\ Len(s) >= 1
        /\ Tail(s) \in Seq(S) /\ Head(s) = s[1]
    OBVIOUS
  <1>2. /\ DOMAIN Tail(s) = 1..(Len(s) - 1)
        /\ \A i \in 1..(Len(s) - 1) : Tail(s)[i] = s[i + 1]
    OBVIOUS
  <1>3. T = {i \in 1..(Len(s) - 1) : s[i + 1] = x}
    BY <1>2
  <1>4. V = {i \in 2..Len(s) : s[i] = x}
    BY <1>1
  <1>5. f \in Bijection(T, V)
    <2>1. \A i \in T : f[i] = i + 1 /\ i \in 1..(Len(s) - 1) /\ s[i + 1] = x /\ i \in Int
      BY <1>3
    <2>2. \A i \in 1..(Len(s) - 1) : i + 1 \in 2..Len(s)
      BY <1>1
    <2>3. f \in [T -> V]
      BY <1>4, <2>1, <2>2
    <2>4. \A i, j \in T : f[i] = f[j] => i = j
      BY <2>1
    <2>5. ASSUME NEW j \in V PROVE \E i \in T : f[i] = j
      <3>1. j - 1 \in 1..(Len(s) - 1) /\ (j - 1) + 1 = j /\ s[j] = x
        BY <1>1, <1>4
      <3>2. j - 1 \in T
        BY <1>3, <3>1
      <3> QED BY <2>1, <3>1, <3>2
    <2> HIDE DEF f, T, V
    <2> QED BY <2>3, <2>4, <2>5 DEF Bijection, Injection, Surjection, IsInjective
  <1>6. IsFiniteSet(T) /\ CountOf(Tail(s), x) \in Nat
    BY <1>1, CountFinite
  <1>7. IsFiniteSet(U) /\ CountOf(s, x) \in Nat
    BY CountFinite
  <1>8. CountOf(s, x) = Cardinality(U) /\ CountOf(Tail(s), x) = Cardinality(T)
    BY DEF CountOf
  <1>9. 1 \in U <=> Head(s) = x
    BY <1>1
  <1>10. f \in Bijection(T, V) => ExistsBijection(T, V)
    BY DEF ExistsBijection
  <1> HIDE DEF U, T, f
  <1>11. Cardinality(V) = Cardinality(T)
    BY <1>5, <1>6, <1>10, FS_Bijection
  <1>12. Cardinality(V) = IF 1 \in U THEN Cardinality(U) - 1 ELSE Cardinality(U)
    BY <1>7, FS_RemoveElement
  <1> QED BY <1>6, <1>7, <1>8, <1>9, <1>11, <1>12 DEF One

\* A member that is at the front is counted.
LEMMA HeadCounts ==
    ASSUME NEW S, NEW s \in Seq(S), s # <<>>
    PROVE  /\ Tail(s) \in Seq(S) /\ Head(s) \in S
           /\ CountOf(s, Head(s)) >= 1
           /\ \A x : /\ CountOf(s, x) \in Nat /\ CountOf(Tail(s), x) \in Nat
                     /\ CountOf(s, x) = CountOf(Tail(s), x) + One(Head(s) = x)
  <1>1. Tail(s) \in Seq(S) /\ Head(s) \in S
    OBVIOUS
  <1>2. \A x : CountOf(s, x) \in Nat /\ CountOf(Tail(s), x) \in Nat
    BY <1>1, CountFinite
  <1>3. \A x : CountOf(s, x) = CountOf(Tail(s), x) + One(Head(s) = x)
    BY CountTail
  <1>4. CountOf(s, Head(s)) = CountOf(Tail(s), Head(s)) + 1
    BY <1>3 DEF One
  <1> QED BY <1>1, <1>2, <1>3, <1>4

\* Something is said: it waits behind the rest, and nothing else does.
LEMMA SaidCounts ==
    ASSUME NEW S, NEW s \in Seq(S), NEW y \in S
    PROVE  /\ s \o <<y>> \in Seq(S) /\ s \o <<y>> # <<>>
           /\ s \o <<y>> = Append(s, y)
           /\ \A x : /\ CountOf(s, x) \in Nat
                     /\ CountOf(s \o <<y>>, x) = CountOf(s, x) + One(y = x)
  <1>1. /\ s \o <<y>> = Append(s, y)
        /\ Append(s, y) \in Seq(S) /\ Append(s, y) # <<>>
    OBVIOUS
  <1>2. \A x : CountOf(s, x) \in Nat
    BY CountFinite
  <1>3. \A x : CountOf(Append(s, y), x) = CountOf(s, x) + One(y = x)
    BY CountAppend
  <1> QED BY <1>1, <1>2, <1>3

-----------------------------------------------------------------------------
(* What the controller says, and what that leaves as it was.                 *)

\* The questions in the queue.
Asked(s) == CountOf(s, "prompt") + CountOf(s, "pageFailed")

\* A queue that asks no more, and tells of no more refusals and failures.
AsMany(s, t) ==
    /\ Asked(t) = Asked(s)
    /\ CountOf(t, "refused") = CountOf(s, "refused")
    /\ CountOf(t, "installFailed") = CountOf(s, "installFailed")

\* The queues are counted in natural numbers.
LEMMA Numbers ==
    ASSUME TypeOK
    PROVE  /\ \A x : CountOf(dialogs, x) \in Nat /\ CountOf(turns, x) \in Nat
           /\ Asked(dialogs) \in Nat
  <1>1. dialogs \in Seq(Dialogs) /\ turns \in Seq({"prepare", "recover"})
    BY DEF TypeOK
  <1>2. \A x : CountOf(dialogs, x) \in Nat /\ CountOf(turns, x) \in Nat
    BY <1>1, CountFinite
  <1> QED BY <1>2 DEF Asked

\* So are the questions.
LEMMA AskedNat == ASSUME NEW s \in Seq(Dialogs) PROVE Asked(s) \in Nat
  <1>1. \A x : CountOf(s, x) \in Nat
    BY CountFinite
  <1> QED BY <1>1 DEF Asked

\* The dialogs of a check are none of the counted ones.
LEMMA NoticeCounts ==
    ASSUME NEW s \in Seq(Dialogs), NEW d \in {"outcome", "checkFailed", "notice"}, NEW v
    PROVE  /\ s \o Failure(d, v) \in Seq(Dialogs)
           /\ s # <<>> => s \o Failure(d, v) # <<>>
           /\ AsMany(s, s \o Failure(d, v))
  <1>1. CASE v
    <2>1. Failure(d, v) = <<d>> /\ d \in Dialogs
      BY <1>1 DEF Failure, Dialogs
    <2>2. /\ s \o <<d>> \in Seq(Dialogs) /\ s \o <<d>> # <<>>
          /\ \A x : /\ CountOf(s, x) \in Nat
                    /\ CountOf(s \o <<d>>, x) = CountOf(s, x) + One(d = x)
      BY <2>1, SaidCounts
    <2>3. /\ CountOf(s \o <<d>>, "prompt") = CountOf(s, "prompt")
          /\ CountOf(s \o <<d>>, "pageFailed") = CountOf(s, "pageFailed")
          /\ CountOf(s \o <<d>>, "refused") = CountOf(s, "refused")
          /\ CountOf(s \o <<d>>, "installFailed") = CountOf(s, "installFailed")
      BY <2>2 DEF One
    <2> QED BY <2>1, <2>2, <2>3 DEF AsMany, Asked
  <1>2. CASE ~v
    <2>1. Failure(d, v) = <<>> /\ s \o <<>> = s
      BY <1>2 DEF Failure
    <2> QED BY <2>1 DEF AsMany
  <1> QED BY <1>1, <1>2

\* A question is asked only when none is, and it is in flight from then on.
LEMMA PromptEffect ==
    ASSUME TypeOK, NEW version \in Versions, NEW repeat \in BOOLEAN,
           PromptNow(version, repeat), Say(PromptDialog(version, repeat))
    PROVE  /\ prompt' \in [info : Versions \cup {None}, inFlight : BOOLEAN,
                           prompted : Versions \cup {None}]
           /\ dialogs' \in Seq(Dialogs)
           /\ dialogs # <<>> => dialogs' # <<>>
           /\ Asked(dialogs') + One(prompt.inFlight) = Asked(dialogs) + One(prompt'.inFlight)
           /\ CountOf(dialogs', "refused") = CountOf(dialogs, "refused")
           /\ CountOf(dialogs', "installFailed") = CountOf(dialogs, "installFailed")
  <1>1. /\ dialogs \in Seq(Dialogs) /\ "prompt" \in Dialogs
        /\ prompt \in [info : Versions \cup {None}, inFlight : BOOLEAN,
                       prompted : Versions \cup {None}]
    BY DEF TypeOK, Dialogs
  <1>2. CASE Shows(version, repeat)
    <2>1. ~prompt.inFlight /\ prompt' = [info |-> version, inFlight |-> TRUE, prompted |-> version]
      BY <1>2 DEF PromptNow, Shows
    <2>2. dialogs' = dialogs \o <<"prompt">>
      BY <1>2 DEF Say, PromptDialog
    <2>3. /\ dialogs' \in Seq(Dialogs) /\ dialogs' # <<>>
          /\ \A x : /\ CountOf(dialogs, x) \in Nat
                    /\ CountOf(dialogs', x) = CountOf(dialogs, x) + One("prompt" = x)
      BY <1>1, <2>2, SaidCounts
    <2>4. /\ CountOf(dialogs', "prompt") = CountOf(dialogs, "prompt") + 1
          /\ CountOf(dialogs', "pageFailed") = CountOf(dialogs, "pageFailed")
          /\ CountOf(dialogs', "refused") = CountOf(dialogs, "refused")
          /\ CountOf(dialogs', "installFailed") = CountOf(dialogs, "installFailed")
          /\ CountOf(dialogs, "prompt") \in Nat /\ CountOf(dialogs, "pageFailed") \in Nat
      BY <2>3 DEF One
    <2>5. Asked(dialogs') = Asked(dialogs) + 1 /\ Asked(dialogs) \in Nat
      BY <2>4 DEF Asked
    <2>6. One(prompt.inFlight) = 0 /\ One(prompt'.inFlight) = 1
      BY <2>1 DEF One
    <2>7. prompt' \in [info : Versions \cup {None}, inFlight : BOOLEAN,
                       prompted : Versions \cup {None}]
      BY <2>1
    <2> QED BY <2>3, <2>4, <2>5, <2>6, <2>7
  <1>3. CASE ~Shows(version, repeat)
    <2>1. prompt' = [prompt EXCEPT !.info = version]
      BY <1>3 DEF PromptNow
    <2>2. dialogs' = dialogs
      BY <1>1, <1>3 DEF Say, PromptDialog
    <2>3. /\ prompt'.inFlight = prompt.inFlight
          /\ prompt' \in [info : Versions \cup {None}, inFlight : BOOLEAN,
                          prompted : Versions \cup {None}]
      BY <1>1, <2>1
    <2> QED BY <1>1, <2>2, <2>3
  <1> QED BY <1>2, <1>3

\* A recovery is asked for once, or reported at once when the app closes.
LEMMA RecoverEffect ==
    ASSUME TypeOK, FailureIsHeard, TurnsAreAwaited, Recover
    PROVE  /\ installing' \in BOOLEAN
           /\ recovery' \in {"none", "recovering", "reporting"}
           /\ turns' \in Seq({"prepare", "recover"})
           /\ CountOf(turns', "prepare") = CountOf(turns, "prepare")
           /\ CountOf(turns', "recover") = One(recovery' = "recovering")
           /\ dialogs \o RecoveryDialog \in Seq(Dialogs)
           /\ dialogs # <<>> => dialogs \o RecoveryDialog # <<>>
           /\ Asked(dialogs \o RecoveryDialog) = Asked(dialogs)
           /\ CountOf(dialogs \o RecoveryDialog, "refused") = CountOf(dialogs, "refused")
           /\ CountOf(dialogs \o RecoveryDialog, "installFailed") = One(recovery' = "reporting")
  <1>1. /\ dialogs \in Seq(Dialogs) /\ "installFailed" \in Dialogs
        /\ turns \in Seq({"prepare", "recover"}) /\ installing \in BOOLEAN
        /\ recovery \in {"none", "recovering", "reporting"} /\ closing \in BOOLEAN
        /\ dialogs \o <<>> = dialogs
    BY DEF TypeOK, Dialogs
  <1>2. /\ CountOf(turns, "recover") = One(recovery = "recovering")
        /\ CountOf(dialogs, "installFailed") = One(recovery = "reporting")
    BY DEF TurnsAreAwaited, FailureIsHeard, One
  <1>3. CASE ~Recovers
    <2>1. UNCHANGED <<installing, recovery, turns>> /\ RecoveryDialog = <<>>
      BY <1>3 DEF Recover, RecoveryDialog
    <2> QED BY <1>1, <1>2, <2>1
  <1>4. CASE Recovers /\ closing
    <2>1. /\ recovery = "none" /\ installing' = FALSE /\ recovery' = "reporting"
          /\ turns' = turns /\ RecoveryDialog = <<"installFailed">>
      BY <1>4 DEF Recover, RecoveryDialog, Recovers
    <2> DEFINE ds == dialogs \o <<"installFailed">>
    <2>2. /\ ds \in Seq(Dialogs) /\ ds # <<>>
          /\ \A x : /\ CountOf(dialogs, x) \in Nat
                    /\ CountOf(ds, x) = CountOf(dialogs, x) + One("installFailed" = x)
      BY <1>1, SaidCounts
    <2>3. dialogs \o RecoveryDialog = ds
      BY <2>1
    <2> HIDE DEF ds
    <2>4. /\ CountOf(ds, "prompt") = CountOf(dialogs, "prompt")
          /\ CountOf(ds, "pageFailed") = CountOf(dialogs, "pageFailed")
          /\ CountOf(ds, "refused") = CountOf(dialogs, "refused")
          /\ CountOf(ds, "installFailed") = CountOf(dialogs, "installFailed") + 1
      BY <2>2 DEF One
    <2>5. Asked(ds) = Asked(dialogs)
      BY <2>4 DEF Asked
    <2>6. CountOf(turns, "recover") = 0 /\ CountOf(dialogs, "installFailed") = 0
      BY <1>2, <2>1 DEF One
    <2>7. /\ CountOf(turns', "recover") = One(recovery' = "recovering")
          /\ CountOf(ds, "installFailed") = One(recovery' = "reporting")
      BY <2>1, <2>4, <2>6 DEF One
    <2> QED BY <1>1, <2>1, <2>2, <2>3, <2>4, <2>5, <2>7
  <1>5. CASE Recovers /\ ~closing
    <2>1. /\ recovery = "none" /\ installing' = FALSE /\ recovery' = "recovering"
          /\ turns' = Append(turns, "recover") /\ RecoveryDialog = <<>>
      BY <1>5 DEF Recover, RecoveryDialog, Recovers
    <2>2. /\ turns \o <<"recover">> = Append(turns, "recover")
          /\ turns \o <<"recover">> \in Seq({"prepare", "recover"})
          /\ \A x : /\ CountOf(turns, x) \in Nat
                    /\ CountOf(turns \o <<"recover">>, x) = CountOf(turns, x) + One("recover" = x)
      BY <1>1, SaidCounts
    <2> DEFINE ts == turns \o <<"recover">>
    <2> HIDE DEF ts
    <2>a. turns' = ts
      BY <2>1, <2>2 DEF ts
    <2>b. /\ ts \in Seq({"prepare", "recover"})
          /\ \A x : /\ CountOf(turns, x) \in Nat
                    /\ CountOf(ts, x) = CountOf(turns, x) + One("recover" = x)
      BY <2>2 DEF ts
    <2>c. /\ CountOf(ts, "prepare") = CountOf(turns, "prepare")
          /\ CountOf(ts, "recover") = CountOf(turns, "recover") + 1
      BY <2>b DEF One
    <2>3. /\ turns' \in Seq({"prepare", "recover"})
          /\ CountOf(turns', "prepare") = CountOf(turns, "prepare")
          /\ CountOf(turns', "recover") = CountOf(turns, "recover") + 1
      BY <2>a, <2>b, <2>c
    <2>4. CountOf(turns, "recover") = 0 /\ CountOf(dialogs, "installFailed") = 0
      BY <1>2, <2>1 DEF One
    <2>5. /\ CountOf(turns', "recover") = One(recovery' = "recovering")
          /\ CountOf(dialogs, "installFailed") = One(recovery' = "reporting")
      BY <2>1, <2>3, <2>4 DEF One
    <2> QED BY <1>1, <2>1, <2>3, <2>5
  <1> QED BY <1>1, <1>3, <1>4, <1>5

\* The same of an error that the library may tell of something else.
LEMMA StrayEffect ==
    ASSUME TypeOK, FailureIsHeard, TurnsAreAwaited, StrayError
    PROVE  /\ installing' \in BOOLEAN
           /\ recovery' \in {"none", "recovering", "reporting"}
           /\ turns' \in Seq({"prepare", "recover"})
           /\ CountOf(turns', "prepare") = CountOf(turns, "prepare")
           /\ CountOf(turns', "recover") = One(recovery' = "recovering")
           /\ dialogs \o StrayDialog \in Seq(Dialogs)
           /\ dialogs # <<>> => dialogs \o StrayDialog # <<>>
           /\ Asked(dialogs \o StrayDialog) = Asked(dialogs)
           /\ CountOf(dialogs \o StrayDialog, "refused") = CountOf(dialogs, "refused")
           /\ CountOf(dialogs \o StrayDialog, "installFailed") = One(recovery' = "reporting")
  <1>1. CASE stray
    <2>1. Recover /\ StrayDialog = RecoveryDialog
      BY <1>1 DEF StrayError, StrayDialog
    <2> QED BY <2>1, RecoverEffect
  <1>2. CASE ~stray
    <2>1. UNCHANGED <<installing, recovery, turns>> /\ StrayDialog = <<>>
      BY <1>2 DEF StrayError, StrayDialog
    <2>2. /\ dialogs \in Seq(Dialogs) /\ dialogs \o <<>> = dialogs
          /\ turns \in Seq({"prepare", "recover"}) /\ installing \in BOOLEAN
          /\ recovery \in {"none", "recovering", "reporting"}
      BY DEF TypeOK
    <2>3. /\ CountOf(turns, "recover") = One(recovery = "recovering")
          /\ CountOf(dialogs, "installFailed") = One(recovery = "reporting")
      BY DEF TurnsAreAwaited, FailureIsHeard, One
    <2> QED BY <2>1, <2>2, <2>3
  <1> QED BY <1>1, <1>2

\* A failure is told behind the report of a recovery.
LEMMA ToldBehind ==
    ASSUME TypeOK, NEW d \in Dialogs, NEW v
    PROVE  dialogs \o (StrayDialog \o Failure(d, v)) = (dialogs \o StrayDialog) \o Failure(d, v)
  <1>1. dialogs \in Seq(Dialogs) /\ "installFailed" \in Dialogs
    BY DEF TypeOK, Dialogs
  <1>2. <<>> \in Seq(Dialogs) /\ <<"installFailed">> \in Seq(Dialogs) /\ <<d>> \in Seq(Dialogs)
    BY <1>1
  <1>3. Failure(d, v) \in Seq(Dialogs)
    BY <1>2 DEF Failure
  <1>4. RecoveryDialog \in Seq(Dialogs)
    BY <1>2 DEF RecoveryDialog
  <1>5. StrayDialog \in Seq(Dialogs)
    BY <1>2, <1>4 DEF StrayDialog
  <1> QED BY <1>1, <1>3, <1>5

-----------------------------------------------------------------------------
(* One question and one call at a time.                                     *)

\* What the counts are, in one place.
Counted ==
    /\ Asked(dialogs) + One(install \notin {"idle", "left"}) = One(prompt.inFlight)
    /\ CountOf(turns, "prepare") = One(install = "preparing")
    /\ CountOf(turns, "recover") = One(recovery = "recovering")
    /\ CountOf(dialogs, "refused") = One(install = "told")
    /\ CountOf(dialogs, "installFailed") = One(recovery = "reporting")

\* They are the conjuncts of the invariant.
LEMMA CountedIsHeard == Counted <=> OnePrompt /\ TurnsAreAwaited /\ RefusalIsHeard /\ FailureIsHeard
  BY DEF Counted, OnePrompt, TurnsAreAwaited, RefusalIsHeard, FailureIsHeard, Asked, One

\* Nothing is asked, answered or queued.
LEMMA QuietCounts ==
    ASSUME Counted, UNCHANGED <<prompt, dialogs, turns, install, recovery>>
    PROVE  Counted'
  BY DEF Counted

\* start(), and a click on the menu.
LEMMA CheckEffect ==
    ASSUME TypeOK, Counted, NEW manual \in BOOLEAN, Check(manual),
           UNCHANGED <<turns, install, recovery>>
    PROVE  /\ Counted'
           /\ check' \in Checks \cup {None}
           /\ prompt' \in [info : Versions \cup {None}, inFlight : BOOLEAN,
                           prompted : Versions \cup {None}]
           /\ dialogs' \in Seq(Dialogs)
           /\ dialogs # <<>> => dialogs' # <<>>
  <1>1. /\ dialogs \in Seq(Dialogs) /\ check \in Checks \cup {None}
        /\ prompt \in [info : Versions \cup {None}, inFlight : BOOLEAN,
                       prompted : Versions \cup {None}]
    BY DEF TypeOK
  <1>2. CASE manual /\ prompt.info # None
    <2>1. /\ prompt.info \in Versions /\ TRUE \in BOOLEAN /\ UNCHANGED check
          /\ PromptNow(prompt.info, TRUE) /\ Say(PromptDialog(prompt.info, TRUE))
      BY <1>1, <1>2 DEF Check
    <2>2. /\ prompt' \in [info : Versions \cup {None}, inFlight : BOOLEAN,
                          prompted : Versions \cup {None}]
          /\ dialogs' \in Seq(Dialogs)
          /\ dialogs # <<>> => dialogs' # <<>>
          /\ Asked(dialogs') + One(prompt.inFlight) = Asked(dialogs) + One(prompt'.inFlight)
          /\ CountOf(dialogs', "refused") = CountOf(dialogs, "refused")
          /\ CountOf(dialogs', "installFailed") = CountOf(dialogs, "installFailed")
      BY <2>1, PromptEffect
    <2>a. \A x : CountOf(dialogs, x) \in Nat /\ CountOf(dialogs', x) \in Nat
      BY <1>1, <2>2, CountFinite
    <2>3. Asked(dialogs) \in Nat /\ Asked(dialogs') \in Nat
      BY <2>a DEF Asked
    <2>4. Counted'
      BY <2>2, <2>3 DEF Counted, One
    <2> QED BY <1>1, <2>1, <2>2, <2>4
  <1>3. CASE ~(manual /\ prompt.info # None) /\ check # None
    <2>1. UNCHANGED <<check, prompt>> /\ dialogs' = dialogs \o Failure("notice", manual)
      BY <1>3 DEF Check, Say
    <2>2. /\ dialogs' \in Seq(Dialogs)
          /\ dialogs # <<>> => dialogs' # <<>>
          /\ AsMany(dialogs, dialogs')
      BY <1>1, <2>1, NoticeCounts
    <2>3. Counted'
      BY <2>1, <2>2 DEF Counted, AsMany
    <2> QED BY <1>1, <2>1, <2>2, <2>3
  <1>4. CASE ~(manual /\ prompt.info # None) /\ check = None
    <2>1. /\ UNCHANGED <<prompt, dialogs>>
          /\ check' = [manual |-> manual, stage |-> IF loaded THEN "asking" ELSE "loading"]
      BY <1>4 DEF Check
    <2>2. check' \in Checks
      BY <2>1 DEF Checks, Stages
    <2>3. Counted'
      BY <2>1, QuietCounts
    <2> QED BY <1>1, <2>1, <2>2, <2>3
  <1> QED BY <1>2, <1>3, <1>4

\* The check goes on, or ends.
LEMMA CheckStages ==
    ASSUME TypeOK, check # None
    PROVE  /\ check \in Checks /\ check.manual \in BOOLEAN
           /\ \A stage \in Stages : CheckAwaits(stage) => check' \in Checks \cup {None}
           /\ CheckEnds => check' \in Checks \cup {None}
  <1>1. check \in Checks /\ check.manual \in BOOLEAN
    BY DEF TypeOK, Checks
  <1>2. ASSUME NEW stage \in Stages, CheckAwaits(stage) PROVE check' \in Checks \cup {None}
    BY <1>1, <1>2 DEF CheckAwaits, Checks
  <1>3. CheckEnds => check' \in Checks \cup {None}
    BY <1>2 DEF CheckEnds, Stages
  <1> QED BY <1>1, <1>2, <1>3

\* What an initial state or a step keeps, but for installing.
Sound == TypeOK /\ Counted

\* The controller starts with nothing asked and nothing queued.
LEMMA Initially == Init => Sound
  <1> SUFFICES ASSUME Init PROVE TypeOK /\ Counted
    BY DEF Sound
  <1>1. TypeOK
    <2>1. /\ <<>> \in Seq(Dialogs) /\ <<>> \in Seq({"prepare", "recover"})
          /\ 0 \in 0..MaxManual
      BY UpdaterConstants DEF UpdaterConstants
    <2>2. NoPrompt \in [info : Versions \cup {None}, inFlight : BOOLEAN,
                        prompted : Versions \cup {None}]
      BY DEF NoPrompt
    <2> QED BY <2>1, <2>2 DEF Init, TypeOK
  <1>2. \A x : CountOf(dialogs, x) = 0 /\ CountOf(turns, x) = 0
    BY CountEmpty DEF Init
  <1>3. ~prompt.inFlight
    BY DEF Init, NoPrompt
  <1> QED BY <1>1, <1>2, <1>3 DEF Init, Counted, Asked, One

\* The first check, once the session is up.
LEMMA StartStep == Sound /\ Start => Sound'
  <1> SUFFICES ASSUME TypeOK, Counted, Start PROVE TypeOK' /\ Counted'
    BY DEF Sound
  <1>1. Check(FALSE) /\ UNCHANGED <<turns, install, recovery>>
    BY DEF Start, installer, main
  <1>2. /\ Counted'
        /\ check' \in Checks \cup {None}
        /\ prompt' \in [info : Versions \cup {None}, inFlight : BOOLEAN,
                        prompted : Versions \cup {None}]
        /\ dialogs' \in Seq(Dialogs)
        /\ dialogs # <<>> => dialogs' # <<>>
    BY <1>1, CheckEffect
  <1>3. TypeOK'
    BY <1>2 DEF TypeOK, Start, installer, main
  <1> QED BY <1>2, <1>3

\* A click.
LEMMA CheckManuallyStep == Sound /\ CheckManually => Sound'
  <1> SUFFICES ASSUME TypeOK, Counted, CheckManually PROVE TypeOK' /\ Counted'
    BY DEF Sound
  <1>1. Check(TRUE) /\ UNCHANGED <<turns, install, recovery>>
    BY DEF CheckManually, installer, main
  <1>2. /\ Counted'
        /\ check' \in Checks \cup {None}
        /\ prompt' \in [info : Versions \cup {None}, inFlight : BOOLEAN,
                        prompted : Versions \cup {None}]
        /\ dialogs' \in Seq(Dialogs)
        /\ dialogs # <<>> => dialogs' # <<>>
    BY <1>1, CheckEffect
  <1>3. clicks' \in 0..MaxManual
    BY UpdaterConstants DEF UpdaterConstants, TypeOK, CheckManually
  <1>4. TypeOK'
    BY <1>2, <1>3 DEF TypeOK, CheckManually, installer, main
  <1> QED BY <1>2, <1>4

\* The library is there.
LEMMA LibraryLoadsStep == Sound /\ LibraryLoads => Sound'
  <1> SUFFICES ASSUME TypeOK, Counted, LibraryLoads PROVE TypeOK' /\ Counted'
    BY DEF Sound
  <1>1. check # None /\ CheckAwaits("asking") /\ "asking" \in Stages
    BY DEF LibraryLoads, At, Stages
  <1>2. check' \in Checks \cup {None}
    BY <1>1, CheckStages
  <1>3. TypeOK'
    BY <1>2 DEF TypeOK, LibraryLoads, asking, installer, main
  <1>4. Counted'
    BY QuietCounts DEF LibraryLoads, asking, installer, main
  <1> QED BY <1>3, <1>4

\* It cannot be loaded.
LEMMA LibraryFailsStep == Sound /\ LibraryFails => Sound'
  <1> SUFFICES ASSUME TypeOK, Counted, LibraryFails PROVE TypeOK' /\ Counted'
    BY DEF Sound
  <1>1. /\ check # None /\ CheckEnds
        /\ dialogs' = dialogs \o Failure("checkFailed", check.manual)
        /\ dialogs \in Seq(Dialogs)
    BY DEF LibraryFails, At, Say, TypeOK
  <1>2. check' \in Checks \cup {None}
    BY <1>1, CheckStages
  <1>3. /\ dialogs' \in Seq(Dialogs)
        /\ dialogs # <<>> => dialogs' # <<>>
        /\ AsMany(dialogs, dialogs')
    BY <1>1, NoticeCounts
  <1>4. TypeOK'
    BY <1>2, <1>3 DEF TypeOK, LibraryFails, installer, main
  <1>5. Counted'
    BY <1>3 DEF Counted, AsMany, LibraryFails, installer, main
  <1> QED BY <1>4, <1>5

\* An update that downloads by itself.
LEMMA UpdateAvailableStep == Sound /\ UpdateAvailable => Sound'
  <1> SUFFICES ASSUME TypeOK, Counted, UpdateAvailable PROVE TypeOK' /\ Counted'
    BY DEF Sound
  <1>1. /\ check # None
        /\ CheckAwaits("outcome") \/ check' = None
        /\ dialogs' = dialogs \o Failure("outcome", check.manual)
        /\ dialogs \in Seq(Dialogs) /\ "outcome" \in Stages
    BY DEF UpdateAvailable, At, Say, TypeOK, Stages
  <1>2. check' \in Checks \cup {None}
    BY <1>1, CheckStages
  <1>3. /\ dialogs' \in Seq(Dialogs)
        /\ dialogs # <<>> => dialogs' # <<>>
        /\ AsMany(dialogs, dialogs')
    BY <1>1, NoticeCounts
  <1>4. download' \in {None, "silent", "told"}
    BY DEF UpdateAvailable, TypeOK
  <1>5. TypeOK'
    BY <1>2, <1>3, <1>4 DEF TypeOK, UpdateAvailable, installer, main
  <1>6. Counted'
    BY <1>3 DEF Counted, AsMany, UpdateAvailable, installer, main
  <1> QED BY <1>5, <1>6

\* An update that the user downloads.
LEMMA ExternalUpdateStep == Sound /\ ExternalUpdate => Sound'
  <1> SUFFICES ASSUME TypeOK, Counted, ExternalUpdate PROVE TypeOK' /\ Counted'
    BY DEF Sound
  <1>1. PICK version \in Versions :
          /\ PromptNow(version, FALSE)
          /\ Say(PromptDialog(version, FALSE))
          /\ CheckAwaits("prompt") \/ check' = None
    BY DEF ExternalUpdate
  <1>2. check # None /\ "prompt" \in Stages
    BY DEF ExternalUpdate, At, Stages
  <1>3. check' \in Checks \cup {None}
    BY <1>1, <1>2, CheckStages
  <1>4. /\ prompt' \in [info : Versions \cup {None}, inFlight : BOOLEAN,
                        prompted : Versions \cup {None}]
        /\ dialogs' \in Seq(Dialogs)
        /\ dialogs # <<>> => dialogs' # <<>>
        /\ Asked(dialogs') + One(prompt.inFlight) = Asked(dialogs) + One(prompt'.inFlight)
        /\ CountOf(dialogs', "refused") = CountOf(dialogs, "refused")
        /\ CountOf(dialogs', "installFailed") = CountOf(dialogs, "installFailed")
    BY <1>1, PromptEffect
  <1>5. TypeOK'
    BY <1>3, <1>4 DEF TypeOK, ExternalUpdate, installer, main
  <1>6. Asked(dialogs) \in Nat /\ Asked(dialogs') \in Nat
    BY <1>5, AskedNat DEF TypeOK
  <1>7. Counted'
    BY <1>4, <1>6 DEF Counted, ExternalUpdate, installer, main, One
  <1> QED BY <1>5, <1>7

\* No update.
LEMMA NoUpdateStep == Sound /\ NoUpdate => Sound'
  <1> SUFFICES ASSUME TypeOK, Counted, NoUpdate PROVE TypeOK' /\ Counted'
    BY DEF Sound
  <1>1. /\ check # None
        /\ CheckAwaits("outcome") \/ check' = None
        /\ dialogs' = dialogs \o Failure("outcome", check.manual)
        /\ dialogs \in Seq(Dialogs) /\ "outcome" \in Stages
    BY DEF NoUpdate, At, Say, TypeOK, Stages
  <1>2. check' \in Checks \cup {None}
    BY <1>1, CheckStages
  <1>3. /\ dialogs' \in Seq(Dialogs)
        /\ dialogs # <<>> => dialogs' # <<>>
        /\ AsMany(dialogs, dialogs')
    BY <1>1, NoticeCounts
  <1>4. TypeOK'
    BY <1>2, <1>3 DEF TypeOK, NoUpdate, installer, main
  <1>5. Counted'
    BY <1>3 DEF Counted, AsMany, NoUpdate, installer, main
  <1> QED BY <1>4, <1>5

\* A failure of a check, which the library may take for one of an installer.
LEMMA CheckFailsStep == Sound /\ CheckFails => Sound'
  <1> SUFFICES ASSUME TypeOK, Counted, CheckFails PROVE TypeOK' /\ Counted'
    BY DEF Sound
  <1> DEFINE mid == dialogs \o StrayDialog
             end == dialogs \o (StrayDialog \o Failure("checkFailed", check.manual))
  <1>1. check # None /\ CheckEnds /\ StrayError /\ dialogs' = end
    BY DEF CheckFails, At, Say
  <1>2. check' \in Checks \cup {None}
    BY <1>1, CheckStages
  <1>3. FailureIsHeard /\ TurnsAreAwaited
    BY CountedIsHeard
  <1>4. /\ installing' \in BOOLEAN
        /\ recovery' \in {"none", "recovering", "reporting"}
        /\ turns' \in Seq({"prepare", "recover"})
        /\ CountOf(turns', "prepare") = CountOf(turns, "prepare")
        /\ CountOf(turns', "recover") = One(recovery' = "recovering")
        /\ mid \in Seq(Dialogs)
        /\ dialogs # <<>> => mid # <<>>
        /\ Asked(mid) = Asked(dialogs)
        /\ CountOf(mid, "refused") = CountOf(dialogs, "refused")
        /\ CountOf(mid, "installFailed") = One(recovery' = "reporting")
    BY <1>1, <1>3, StrayEffect
  <1>5. end = mid \o Failure("checkFailed", check.manual)
    <2>1. "checkFailed" \in Dialogs
      BY DEF Dialogs
    <2> QED BY <2>1, ToldBehind
  <1> HIDE DEF mid, end
  <1>6. /\ dialogs' \in Seq(Dialogs)
        /\ mid # <<>> => dialogs' # <<>>
        /\ AsMany(mid, dialogs')
    BY <1>1, <1>4, <1>5, NoticeCounts
  <1>7. TypeOK'
    BY <1>2, <1>4, <1>6 DEF TypeOK, CheckFails
  <1>8. Counted'
    BY <1>4, <1>6 DEF Counted, AsMany, CheckFails
  <1> QED BY <1>7, <1>8

\* Downloads.
LEMMA DownloadedStep == Sound /\ Downloaded => Sound'
  <1> SUFFICES ASSUME TypeOK, Counted, Downloaded PROVE TypeOK' /\ Counted'
    BY DEF Sound
  <1>1. PICK version \in Versions :
          PromptNow(version, FALSE) /\ Say(PromptDialog(version, FALSE))
    BY DEF Downloaded
  <1>2. /\ prompt' \in [info : Versions \cup {None}, inFlight : BOOLEAN,
                        prompted : Versions \cup {None}]
        /\ dialogs' \in Seq(Dialogs)
        /\ dialogs # <<>> => dialogs' # <<>>
        /\ Asked(dialogs') + One(prompt.inFlight) = Asked(dialogs) + One(prompt'.inFlight)
        /\ CountOf(dialogs', "refused") = CountOf(dialogs, "refused")
        /\ CountOf(dialogs', "installFailed") = CountOf(dialogs, "installFailed")
    BY <1>1, PromptEffect
  <1>3. TypeOK'
    BY <1>2 DEF TypeOK, Downloaded, installer, main
  <1>4. Asked(dialogs) \in Nat /\ Asked(dialogs') \in Nat
    BY <1>3, AskedNat DEF TypeOK
  <1>5. Counted'
    BY <1>2, <1>4 DEF Counted, Downloaded, installer, main, One
  <1> QED BY <1>3, <1>5

\* A download that fails, which the library may take for an installer that does.
LEMMA DownloadFailsStep == Sound /\ DownloadFails => Sound'
  <1> SUFFICES ASSUME TypeOK, Counted, DownloadFails PROVE TypeOK' /\ Counted'
    BY DEF Sound
  <1> DEFINE told == download = "told"
             mid == dialogs \o StrayDialog
             end == dialogs \o (StrayDialog \o Failure("notice", told))
  <1>1. StrayError /\ dialogs' = end
    BY DEF DownloadFails, Say
  <1>2. FailureIsHeard /\ TurnsAreAwaited
    BY CountedIsHeard
  <1>3. /\ installing' \in BOOLEAN
        /\ recovery' \in {"none", "recovering", "reporting"}
        /\ turns' \in Seq({"prepare", "recover"})
        /\ CountOf(turns', "prepare") = CountOf(turns, "prepare")
        /\ CountOf(turns', "recover") = One(recovery' = "recovering")
        /\ mid \in Seq(Dialogs)
        /\ dialogs # <<>> => mid # <<>>
        /\ Asked(mid) = Asked(dialogs)
        /\ CountOf(mid, "refused") = CountOf(dialogs, "refused")
        /\ CountOf(mid, "installFailed") = One(recovery' = "reporting")
    BY <1>1, <1>2, StrayEffect
  <1>4. end = mid \o Failure("notice", told)
    <2>1. "notice" \in Dialogs
      BY DEF Dialogs
    <2> QED BY <2>1, ToldBehind
  <1> HIDE DEF mid, end, told
  <1>5. /\ dialogs' \in Seq(Dialogs)
        /\ mid # <<>> => dialogs' # <<>>
        /\ AsMany(mid, dialogs')
    BY <1>1, <1>3, <1>4, NoticeCounts
  <1>6. TypeOK'
    BY <1>3, <1>5 DEF TypeOK, DownloadFails
  <1>7. Counted'
    BY <1>3, <1>5 DEF Counted, AsMany, DownloadFails
  <1> QED BY <1>6, <1>7

\* The turns of main.js.
LEMMA TurnTaken ==
    ASSUME TypeOK, Counted, turns # <<>>, turns' = Tail(turns)
    PROVE  /\ turns' \in Seq({"prepare", "recover"})
           /\ Head(turns) = "prepare" =>
                /\ install = "preparing" /\ CountOf(turns', "prepare") = 0
                /\ CountOf(turns', "recover") = One(recovery = "recovering")
           /\ Head(turns) = "recover" =>
                /\ recovery = "recovering" /\ CountOf(turns', "recover") = 0
                /\ CountOf(turns', "prepare") = One(install = "preparing")
  <1>1. turns \in Seq({"prepare", "recover"})
    BY DEF TypeOK
  <1>2. /\ turns' \in Seq({"prepare", "recover"})
        /\ \A x : /\ CountOf(turns, x) \in Nat /\ CountOf(turns', x) \in Nat
                  /\ CountOf(turns, x) = CountOf(turns', x) + One(Head(turns) = x)
    BY <1>1, HeadCounts
  <1>3. /\ CountOf(turns', "prepare") \in Nat /\ CountOf(turns', "recover") \in Nat
        /\ CountOf(turns, "prepare") = CountOf(turns', "prepare") + One(Head(turns) = "prepare")
        /\ CountOf(turns, "recover") = CountOf(turns', "recover") + One(Head(turns) = "recover")
    BY <1>2
  <1> QED BY <1>2, <1>3 DEF Counted, One

\* prepareInstall() says yes.
LEMMA PrepareProvesStep == Sound /\ PrepareProves => Sound'
  <1> SUFFICES ASSUME TypeOK, Counted, PrepareProves PROVE TypeOK' /\ Counted'
    BY DEF Sound
  <1>1. turns # <<>> /\ turns' = Tail(turns) /\ Head(turns) = "prepare"
    BY DEF PrepareProves
  <1>2. /\ turns' \in Seq({"prepare", "recover"})
        /\ install = "preparing" /\ CountOf(turns', "prepare") = 0
        /\ CountOf(turns', "recover") = One(recovery = "recovering")
    BY <1>1, TurnTaken
  <1>3. TypeOK'
    BY <1>2 DEF TypeOK, PrepareProves, checking, asking
  <1>4. Counted'
    BY <1>2 DEF Counted, PrepareProves, checking, asking, One
  <1> QED BY <1>3, <1>4

\* It says no, which the user is told.
LEMMA PrepareRefusesStep == Sound /\ PrepareRefuses => Sound'
  <1> SUFFICES ASSUME TypeOK, Counted, PrepareRefuses PROVE TypeOK' /\ Counted'
    BY DEF Sound
  <1>1. /\ turns # <<>> /\ turns' = Tail(turns) /\ Head(turns) = "prepare"
        /\ UNCHANGED <<checking, prompt, shown, recovery>>
        /\ installing' = FALSE /\ install' = "told"
    BY DEF PrepareRefuses, RefusedWith
  <1>2. /\ turns' \in Seq({"prepare", "recover"})
        /\ install = "preparing" /\ CountOf(turns', "prepare") = 0
        /\ CountOf(turns', "recover") = One(recovery = "recovering")
    BY <1>1, TurnTaken
  <1>3. /\ dialogs \in Seq(Dialogs) /\ "refused" \in Dialogs
        /\ <<>> \o <<"refused">> = <<"refused">>
    BY DEF TypeOK, Dialogs
  <1>4. dialogs' = dialogs \o <<"refused">>
    BY <1>3 DEF PrepareRefuses, RefusedWith, Say
  <1>5. /\ dialogs' \in Seq(Dialogs) /\ dialogs' # <<>>
        /\ \A x : /\ CountOf(dialogs, x) \in Nat
                  /\ CountOf(dialogs', x) = CountOf(dialogs, x) + One("refused" = x)
    BY <1>3, <1>4, SaidCounts
  <1>6. /\ CountOf(dialogs', "prompt") = CountOf(dialogs, "prompt")
        /\ CountOf(dialogs', "pageFailed") = CountOf(dialogs, "pageFailed")
        /\ CountOf(dialogs', "refused") = CountOf(dialogs, "refused") + 1
        /\ CountOf(dialogs', "installFailed") = CountOf(dialogs, "installFailed")
    BY <1>5 DEF One
  <1>7. Asked(dialogs') = Asked(dialogs)
    BY <1>6 DEF Asked
  <1>8. TypeOK'
    <2>1. /\ session' \in {"up", "stopped", "unproved"}
          /\ quitting' \in BOOLEAN /\ closing' \in BOOLEAN
      BY DEF TypeOK, PrepareRefuses
    <2> QED BY <1>1, <1>2, <1>5, <2>1, ZenonT(40) DEF TypeOK, checking
  <1>9. Counted'
    BY <1>1, <1>2, <1>6, <1>7 DEF Counted, One
  <1> QED BY <1>8, <1>9

\* The recovery had its turn, which the user is told.
LEMMA RecoverTurnStep == Sound /\ RecoverTurn => Sound'
  <1> SUFFICES ASSUME TypeOK, Counted, RecoverTurn PROVE TypeOK' /\ Counted'
    BY DEF Sound
  <1>1. /\ turns # <<>> /\ turns' = Tail(turns) /\ Head(turns) = "recover"
        /\ UNCHANGED <<checking, prompt, shown, installing, install, closing>>
        /\ recovery' = "reporting" /\ dialogs' = dialogs \o <<"installFailed">>
    BY DEF RecoverTurn, Say
  <1>2. /\ turns' \in Seq({"prepare", "recover"})
        /\ recovery = "recovering" /\ CountOf(turns', "recover") = 0
        /\ CountOf(turns', "prepare") = One(install = "preparing")
    BY <1>1, TurnTaken
  <1>3. dialogs \in Seq(Dialogs) /\ "installFailed" \in Dialogs
    BY DEF TypeOK, Dialogs
  <1>4. /\ dialogs' \in Seq(Dialogs) /\ dialogs' # <<>>
        /\ \A x : /\ CountOf(dialogs, x) \in Nat
                  /\ CountOf(dialogs', x) = CountOf(dialogs, x) + One("installFailed" = x)
    BY <1>1, <1>3, SaidCounts
  <1>5. /\ CountOf(dialogs', "prompt") = CountOf(dialogs, "prompt")
        /\ CountOf(dialogs', "pageFailed") = CountOf(dialogs, "pageFailed")
        /\ CountOf(dialogs', "refused") = CountOf(dialogs, "refused")
        /\ CountOf(dialogs', "installFailed") = CountOf(dialogs, "installFailed") + 1
    BY <1>4 DEF One
  <1>6. Asked(dialogs') = Asked(dialogs)
    BY <1>5 DEF Asked
  <1>7. TypeOK'
    <2>1. session' \in {"up", "stopped", "unproved"} /\ quitting' \in BOOLEAN
      BY DEF TypeOK, RecoverTurn
    <2> QED BY <1>1, <1>2, <1>4, <2>1 DEF TypeOK, checking
  <1>8. Counted'
    BY <1>1, <1>2, <1>5, <1>6 DEF Counted, One
  <1> QED BY <1>7, <1>8

\* The end of a prompt: it is in flight no more, and no check awaits it.
LEMMA EndPromptEffect ==
    ASSUME TypeOK, EndPrompt
    PROVE  /\ prompt' \in [info : Versions \cup {None}, inFlight : BOOLEAN,
                           prompted : Versions \cup {None}]
           /\ prompt'.inFlight = FALSE
           /\ check' \in Checks \cup {None}
  <1>1. /\ prompt \in [info : Versions \cup {None}, inFlight : BOOLEAN,
                       prompted : Versions \cup {None}]
        /\ check \in Checks \cup {None}
        /\ prompt' = [prompt EXCEPT !.inFlight = FALSE]
        /\ check' = None \/ check' = check
    BY DEF TypeOK, EndPrompt
  <1> QED BY <1>1

\* The installer runs.
LEMMA LaunchSucceedsStep == Sound /\ LaunchSucceeds => Sound'
  <1> SUFFICES ASSUME TypeOK, Counted, LaunchSucceeds PROVE TypeOK' /\ Counted'
    BY DEF Sound
  <1>1. /\ install = "launching" /\ quitting' = TRUE /\ closing' = TRUE
        /\ UNCHANGED <<strategy, stray, started, clicks, loaded, download, dialogs, shown,
                       installing, recovery, turns, session>>
    BY DEF LaunchSucceeds
  <1>2. Asked(dialogs) = 0 /\ prompt.inFlight
    <2>1. Asked(dialogs) \in Nat
      BY Numbers
    <2> QED BY <1>1, <2>1 DEF Counted, One
  <1>3. CASE install' \in {"left", "idle"} /\ EndPrompt
    <2>1. /\ prompt' \in [info : Versions \cup {None}, inFlight : BOOLEAN,
                          prompted : Versions \cup {None}]
          /\ prompt'.inFlight = FALSE
          /\ check' \in Checks \cup {None}
      BY <1>3, EndPromptEffect
    <2>2. TypeOK'
      BY <1>1, <1>3, <2>1 DEF TypeOK
    <2>3. Counted'
      BY <1>1, <1>2, <1>3, <2>1 DEF Counted, One
    <2> QED BY <2>2, <2>3
  <1>4. CASE install' = "waiting" /\ UNCHANGED <<prompt, check>>
    <2>1. TypeOK'
      BY <1>1, <1>4 DEF TypeOK
    <2>2. Counted'
      BY <1>1, <1>4 DEF Counted, One
    <2> QED BY <2>1, <2>2
  <1> QED BY <1>3, <1>4 DEF LaunchSucceeds, InstallEnds

\* It fails.
LEMMA LaunchFailsStep == Sound /\ LaunchFails => Sound'
  <1> SUFFICES ASSUME TypeOK, Counted, LaunchFails PROVE TypeOK' /\ Counted'
    BY DEF Sound
  <1>1. /\ install = "launching" /\ Recover /\ dialogs' = dialogs \o RecoveryDialog
        /\ UNCHANGED <<strategy, stray, started, clicks, loaded, download, shown, session,
                       quitting, closing>>
    BY DEF LaunchFails, Say
  <1>2. FailureIsHeard /\ TurnsAreAwaited
    BY CountedIsHeard
  <1>3. /\ installing' \in BOOLEAN
        /\ recovery' \in {"none", "recovering", "reporting"}
        /\ turns' \in Seq({"prepare", "recover"})
        /\ CountOf(turns', "prepare") = CountOf(turns, "prepare")
        /\ CountOf(turns', "recover") = One(recovery' = "recovering")
        /\ dialogs' \in Seq(Dialogs)
        /\ dialogs # <<>> => dialogs' # <<>>
        /\ Asked(dialogs') = Asked(dialogs)
        /\ CountOf(dialogs', "refused") = CountOf(dialogs, "refused")
        /\ CountOf(dialogs', "installFailed") = One(recovery' = "reporting")
    BY <1>1, <1>2, RecoverEffect
  <1>4. Asked(dialogs) = 0 /\ prompt.inFlight
    <2>1. Asked(dialogs) \in Nat
      BY Numbers
    <2> QED BY <1>1, <2>1 DEF Counted, One
  <1>5. CASE install' = "idle" /\ EndPrompt
    <2>1. /\ prompt' \in [info : Versions \cup {None}, inFlight : BOOLEAN,
                          prompted : Versions \cup {None}]
          /\ prompt'.inFlight = FALSE
          /\ check' \in Checks \cup {None}
      BY <1>5, EndPromptEffect
    <2>2. TypeOK'
      BY <1>1, <1>3, <1>5, <2>1 DEF TypeOK
    <2>3. Counted'
      BY <1>1, <1>3, <1>4, <1>5, <2>1 DEF Counted, One
    <2> QED BY <2>2, <2>3
  <1>6. CASE install' = "waiting" /\ UNCHANGED <<prompt, check>>
    <2>1. TypeOK'
      BY <1>1, <1>3, <1>6 DEF TypeOK
    <2>2. Counted'
      BY <1>1, <1>3, <1>6 DEF Counted, One
    <2> QED BY <2>1, <2>2
  <1> QED BY <1>5, <1>6 DEF LaunchFails, InstallEnds

\* The app closes.
LEMMA QuitStep == Sound /\ Quit => Sound'
  <1> SUFFICES ASSUME TypeOK, Counted, Quit PROVE TypeOK' /\ Counted'
    BY DEF Sound
  <1>1. TypeOK'
    BY DEF TypeOK, Quit, checking, asking, installer
  <1>2. Counted'
    BY QuietCounts DEF Quit, checking, asking, installer
  <1> QED BY <1>1, <1>2

\* A dialog comes up.
LEMMA DialogShownStep == Sound /\ DialogShown => Sound'
  <1> SUFFICES ASSUME TypeOK, Counted, DialogShown PROVE TypeOK' /\ Counted'
    BY DEF Sound
  <1>1. TypeOK'
    BY DEF TypeOK, DialogShown, checking, installer, main
  <1>2. Counted'
    BY QuietCounts DEF DialogShown, checking, installer, main
  <1> QED BY <1>1, <1>2

\* The first dialog is answered: what was said of it has its turn.
LEMMA DialogTaken ==
    ASSUME TypeOK, Counted, dialogs # <<>>
    PROVE  LET rest == Tail(dialogs) IN
           /\ rest \in Seq(Dialogs) /\ Asked(rest) \in Nat /\ Head(dialogs) \in Dialogs
           /\ Asked(dialogs) = Asked(rest) + One(Head(dialogs) \in {"prompt", "pageFailed"})
           /\ CountOf(rest, "refused") \in Nat /\ CountOf(rest, "installFailed") \in Nat
           /\ CountOf(dialogs, "refused") = CountOf(rest, "refused") + One(Head(dialogs) = "refused")
           /\ CountOf(dialogs, "installFailed")
                = CountOf(rest, "installFailed") + One(Head(dialogs) = "installFailed")
  <1> DEFINE rest == Tail(dialogs)
  <1>1. dialogs \in Seq(Dialogs)
    BY DEF TypeOK
  <1>2. /\ rest \in Seq(Dialogs) /\ Head(dialogs) \in Dialogs
        /\ \A x : /\ CountOf(dialogs, x) \in Nat /\ CountOf(rest, x) \in Nat
                  /\ CountOf(dialogs, x) = CountOf(rest, x) + One(Head(dialogs) = x)
    BY <1>1, HeadCounts
  <1> HIDE DEF rest
  <1>3. /\ CountOf(dialogs, "prompt") = CountOf(rest, "prompt") + One(Head(dialogs) = "prompt")
        /\ CountOf(dialogs, "pageFailed")
             = CountOf(rest, "pageFailed") + One(Head(dialogs) = "pageFailed")
        /\ CountOf(rest, "prompt") \in Nat /\ CountOf(rest, "pageFailed") \in Nat
    BY <1>2
  <1>4. /\ Asked(rest) \in Nat
        /\ Asked(dialogs) = Asked(rest) + One(Head(dialogs) \in {"prompt", "pageFailed"})
    BY <1>3 DEF Asked, One
  <1> QED BY <1>2, <1>4 DEF rest

\* The prompt is accepted: it is the only question, so nothing is installing.
LEMMA PromptAcceptedStep == Sound /\ PromptAccepted => Sound'
  <1> SUFFICES ASSUME TypeOK, Counted, PromptAccepted PROVE TypeOK' /\ Counted'
    BY DEF Sound
  <1> DEFINE rest == Tail(dialogs)
  <1>1. /\ dialogs # <<>> /\ Head(dialogs) = "prompt"
        /\ shown' \in BOOLEAN /\ ~shown'
        /\ UNCHANGED <<strategy, stray, started, clicks, loaded, download, recovery, session,
                       quitting, closing>>
    BY DEF PromptAccepted, Settles
  <1>2. /\ rest \in Seq(Dialogs) /\ Asked(rest) \in Nat
        /\ Asked(dialogs) = Asked(rest) + One(Head(dialogs) \in {"prompt", "pageFailed"})
        /\ CountOf(rest, "refused") \in Nat /\ CountOf(rest, "installFailed") \in Nat
        /\ CountOf(dialogs, "refused") = CountOf(rest, "refused") + One(Head(dialogs) = "refused")
        /\ CountOf(dialogs, "installFailed")
             = CountOf(rest, "installFailed") + One(Head(dialogs) = "installFailed")
    BY <1>1, DialogTaken
  <1>3. /\ Asked(dialogs) = Asked(rest) + 1
        /\ CountOf(rest, "refused") = CountOf(dialogs, "refused")
        /\ CountOf(rest, "installFailed") = CountOf(dialogs, "installFailed")
    BY <1>1, <1>2 DEF One
  <1>4. Asked(rest) = 0 /\ prompt.inFlight /\ install \in {"idle", "left"}
    BY <1>2, <1>3 DEF Counted, One
  <1>5. rest \o <<"refused">> \in Seq(Dialogs) /\ rest \o <<"pageFailed">> \in Seq(Dialogs)
    BY <1>2 DEF Dialogs
  <1> HIDE DEF rest
  <1>6. CASE dialogs' = rest /\ EndPrompt /\ UNCHANGED <<installing, install, turns>>
    <2>1. /\ prompt' \in [info : Versions \cup {None}, inFlight : BOOLEAN,
                          prompted : Versions \cup {None}]
          /\ prompt'.inFlight = FALSE
          /\ check' \in Checks \cup {None}
      BY <1>6, EndPromptEffect
    <2>2. TypeOK'
      BY <1>1, <1>2, <1>6, <2>1 DEF TypeOK
    <2>3. Counted'
      BY <1>1, <1>3, <1>4, <1>6, <2>1 DEF Counted, One
    <2> QED BY <2>2, <2>3
  <1>7. CASE dialogs' = rest \o <<"pageFailed">> /\ UNCHANGED <<prompt, check, installing, install, turns>>
    <2>1. /\ "pageFailed" \in Dialogs
          /\ \A x : CountOf(dialogs', x) = CountOf(rest, x) + One("pageFailed" = x)
      BY <1>2, <1>7, SaidCounts DEF Dialogs
    <2>2. /\ CountOf(dialogs', "prompt") = CountOf(rest, "prompt") + 0
          /\ CountOf(dialogs', "pageFailed") = CountOf(rest, "pageFailed") + 1
          /\ CountOf(dialogs', "refused") = CountOf(rest, "refused") + 0
          /\ CountOf(dialogs', "installFailed") = CountOf(rest, "installFailed") + 0
      BY <2>1 DEF One
    <2>3. /\ CountOf(rest, "prompt") \in Nat /\ CountOf(rest, "pageFailed") \in Nat
      BY <1>2, CountFinite
    <2>4. Asked(dialogs') = Asked(rest) + 1
      BY <2>2, <2>3 DEF Asked
    <2>5. TypeOK'
      BY <1>1, <1>5, <1>7 DEF TypeOK
    <2>6. Counted'
      BY <1>1, <1>2, <1>3, <1>4, <1>7, <2>2, <2>4 DEF Counted, One
    <2> QED BY <2>5, <2>6
  <1>8. CASE Install(rest)
    <2>1. CASE installing /\ InstallEnds(install) /\ dialogs' = rest /\ UNCHANGED <<installing, turns>>
      BY <1>6, <2>1 DEF InstallEnds
    <2>2. CASE /\ ~installing /\ MayPrepare /\ installing' = TRUE /\ install' = "preparing"
               /\ turns' = Append(turns, "prepare") /\ dialogs' = rest /\ UNCHANGED <<prompt, check>>
      <3>1. turns \in Seq({"prepare", "recover"})
        BY DEF TypeOK
      <3>a. \A x : CountOf(Append(turns, "prepare"), x) = CountOf(turns, x) + One("prepare" = x)
        BY <3>1, CountAppend
      <3>b. \A x : CountOf(turns, x) \in Nat
        BY <3>1, CountFinite
      <3>c. turns' \in Seq({"prepare", "recover"})
        BY <2>2, <3>1
      <3>2. /\ turns' \in Seq({"prepare", "recover"})
            /\ \A x : CountOf(turns', x) = CountOf(turns, x) + One("prepare" = x)
            /\ \A x : CountOf(turns, x) \in Nat
        BY <2>2, <3>a, <3>b, <3>c
      <3>3. /\ CountOf(turns', "prepare") = CountOf(turns, "prepare") + 1
            /\ CountOf(turns', "recover") = CountOf(turns, "recover")
        BY <3>2 DEF One
      <3>4. TypeOK'
        BY <1>1, <1>2, <2>2, <3>2 DEF TypeOK
      <3>5. Counted'
        BY <1>1, <1>3, <1>4, <2>2, <3>3 DEF Counted, One
      <3> QED BY <3>4, <3>5
    <2>3. CASE /\ ~installing /\ ~MayPrepare /\ installing' = FALSE /\ install' = "told"
               /\ dialogs' = rest \o <<"refused">> /\ UNCHANGED <<prompt, check, turns>>
      <3>1. /\ "refused" \in Dialogs
            /\ \A x : CountOf(dialogs', x) = CountOf(rest, x) + One("refused" = x)
        BY <1>2, <2>3, SaidCounts DEF Dialogs
      <3>2. /\ CountOf(rest, "prompt") \in Nat /\ CountOf(rest, "pageFailed") \in Nat
        BY <1>2, CountFinite
      <3>3. /\ CountOf(dialogs', "prompt") = CountOf(rest, "prompt")
            /\ CountOf(dialogs', "pageFailed") = CountOf(rest, "pageFailed")
            /\ CountOf(dialogs', "refused") = CountOf(rest, "refused") + 1
            /\ CountOf(dialogs', "installFailed") = CountOf(rest, "installFailed")
        BY <1>2, <3>1, <3>2 DEF One
      <3>4. Asked(dialogs') = Asked(rest)
        BY <3>3 DEF Asked
      <3>b. installing' \in BOOLEAN /\ install' = "told" /\ dialogs' \in Seq(Dialogs)
        BY <1>5, <2>3
      <3>5. TypeOK'
        BY <1>1, <2>3, <3>b DEF TypeOK
      <3>6. Counted'
        BY <1>1, <1>2, <1>3, <1>4, <2>3, <3>3, <3>4 DEF Counted, One
      <3> QED BY <3>5, <3>6
    <2> QED BY <1>8, <2>1, <2>2, <2>3 DEF Install
  <1> QED BY <1>6, <1>7, <1>8 DEF PromptAccepted, rest

\* A dialog is closed: it is the one that something awaits.
LEMMA DialogClosedStep == Sound /\ DialogClosed => Sound'
  <1> SUFFICES ASSUME TypeOK, Counted, DialogClosed PROVE TypeOK' /\ Counted'
    BY DEF Sound
  <1> DEFINE rest == Tail(dialogs)
             d == Head(dialogs)
  <1>1. /\ dialogs # <<>> /\ dialogs' = rest
        /\ shown' \in BOOLEAN /\ ~shown'
        /\ UNCHANGED <<strategy, stray, started, clicks, loaded, download, installing, main>>
    BY DEF DialogClosed, Settles
  <1>2. /\ rest \in Seq(Dialogs) /\ Asked(rest) \in Nat /\ d \in Dialogs
        /\ Asked(dialogs) = Asked(rest) + One(d \in {"prompt", "pageFailed"})
        /\ CountOf(rest, "refused") \in Nat /\ CountOf(rest, "installFailed") \in Nat
        /\ CountOf(dialogs, "refused") = CountOf(rest, "refused") + One(d = "refused")
        /\ CountOf(dialogs, "installFailed") = CountOf(rest, "installFailed") + One(d = "installFailed")
    BY <1>1, DialogTaken
  <1>3. /\ d \in {"prompt", "pageFailed"} => EndPrompt /\ UNCHANGED <<install, recovery>>
        /\ d \in {"outcome", "checkFailed"} => check' = None /\ UNCHANGED <<prompt, install, recovery>>
        /\ d = "refused" => InstallEnds("idle") /\ UNCHANGED recovery
        /\ d = "installFailed" => /\ recovery' = "none"
                                  /\ IF install = "waiting" THEN InstallEnds("idle")
                                     ELSE UNCHANGED <<prompt, check, install>>
        /\ d = "notice" => UNCHANGED <<prompt, check, install, recovery>>
    BY DEF DialogClosed, Settles
  <1> HIDE DEF rest, d
  <1>4. UNCHANGED turns
    BY <1>1 DEF main
  <1>5. ASSUME /\ prompt' \in [info : Versions \cup {None}, inFlight : BOOLEAN,
                               prompted : Versions \cup {None}]
               /\ check' \in Checks \cup {None}
               /\ install' \in {"idle", install} /\ recovery' \in {"none", recovery}
        PROVE  TypeOK'
    BY <1>1, <1>2, <1>5 DEF TypeOK, main
  <1>6. EndPrompt => /\ prompt' \in [info : Versions \cup {None}, inFlight : BOOLEAN,
                                     prompted : Versions \cup {None}]
                     /\ prompt'.inFlight = FALSE
                     /\ check' \in Checks \cup {None}
    BY EndPromptEffect
  <1>7. /\ check \in Checks \cup {None}
        /\ prompt \in [info : Versions \cup {None}, inFlight : BOOLEAN,
                       prompted : Versions \cup {None}]
    BY DEF TypeOK
  <1>8. CASE d \in {"prompt", "pageFailed"}
    <2>1. Asked(dialogs) = Asked(rest) + 1 /\ CountOf(rest, "refused") = CountOf(dialogs, "refused")
          /\ CountOf(rest, "installFailed") = CountOf(dialogs, "installFailed")
      BY <1>2, <1>8 DEF One
    <2>2. TypeOK'
      BY <1>3, <1>5, <1>6, <1>8
    <2>3. Counted'
      BY <1>1, <1>2, <1>3, <1>4, <1>6, <1>8, <2>1 DEF Counted, One
    <2> QED BY <2>2, <2>3
  <1>9. CASE d \in {"outcome", "checkFailed", "notice"}
    <2>1. Asked(dialogs) = Asked(rest) /\ CountOf(rest, "refused") = CountOf(dialogs, "refused")
          /\ CountOf(rest, "installFailed") = CountOf(dialogs, "installFailed")
      BY <1>2, <1>9 DEF One
    <2>2. TypeOK'
      BY <1>3, <1>5, <1>7, <1>9
    <2>3. Counted'
      BY <1>1, <1>3, <1>4, <1>9, <2>1 DEF Counted, One
    <2> QED BY <2>2, <2>3
  <1>10. CASE d = "refused"
    <2>1. Asked(dialogs) = Asked(rest) /\ CountOf(dialogs, "refused") = CountOf(rest, "refused") + 1
          /\ CountOf(rest, "installFailed") = CountOf(dialogs, "installFailed")
      BY <1>2, <1>10 DEF One
    <2>2. install = "told" /\ CountOf(rest, "refused") = 0
      BY <1>2, <2>1 DEF Counted, One
    <2>3. install' = "idle" /\ EndPrompt /\ UNCHANGED recovery
      BY <1>3, <1>10 DEF InstallEnds
    <2>4. TypeOK'
      BY <1>5, <1>6, <2>3
    <2>5. Counted'
      BY <1>1, <1>2, <1>4, <1>6, <2>1, <2>2, <2>3 DEF Counted, One
    <2> QED BY <2>4, <2>5
  <1>11. CASE d = "installFailed"
    <2>1. Asked(dialogs) = Asked(rest) /\ CountOf(rest, "refused") = CountOf(dialogs, "refused")
          /\ CountOf(dialogs, "installFailed") = CountOf(rest, "installFailed") + 1
      BY <1>2, <1>11 DEF One
    <2>2. recovery = "reporting" /\ CountOf(rest, "installFailed") = 0 /\ recovery' = "none"
      BY <1>2, <1>3, <1>11, <2>1 DEF Counted, One
    <2>3. CASE install = "waiting"
      <3>1. install' = "idle" /\ EndPrompt
        BY <1>3, <1>11, <2>3 DEF InstallEnds
      <3>2. TypeOK'
        BY <1>5, <1>6, <2>2, <3>1
      <3>3. Counted'
        BY <1>1, <1>2, <1>4, <1>6, <2>1, <2>2, <2>3, <3>1 DEF Counted, One
      <3> QED BY <3>2, <3>3
    <2>4. CASE install # "waiting"
      <3>1. UNCHANGED <<prompt, check, install>>
        BY <1>3, <1>11, <2>4
      <3>2. TypeOK'
        BY <1>5, <1>7, <2>2, <3>1
      <3>3. Counted'
        BY <1>1, <1>4, <2>1, <2>2, <3>1 DEF Counted, One
      <3> QED BY <3>2, <3>3
    <2> QED BY <2>3, <2>4
  <1> QED BY <1>2, <1>8, <1>9, <1>10, <1>11 DEF Dialogs

\* Every step.
LEMMA SoundStep == Sound /\ [Next]_vars => Sound'
  <1> SUFFICES ASSUME Sound, [Next]_vars PROVE Sound'
    OBVIOUS
  <1>1. CASE Library
    BY <1>1, LibraryLoadsStep, LibraryFailsStep, UpdateAvailableStep, ExternalUpdateStep,
       NoUpdateStep, CheckFailsStep DEF Library
  <1>2. CASE Transfers
    BY <1>2, DownloadedStep, DownloadFailsStep DEF Transfers
  <1>3. CASE Launches
    BY <1>3, LaunchSucceedsStep, LaunchFailsStep DEF Launches
  <1>4. CASE Turns
    BY <1>4, PrepareProvesStep, PrepareRefusesStep, RecoverTurnStep DEF Turns
  <1>5. CASE Answers
    BY <1>5, DialogShownStep, PromptAcceptedStep, DialogClosedStep DEF Answers
  <1>6. CASE Start \/ CheckManually \/ Quit
    BY <1>6, StartStep, CheckManuallyStep, QuitStep
  <1>7. CASE UNCHANGED vars
    <2>1. TypeOK'
      BY <1>7 DEF Sound, TypeOK, vars, checking, asking, installer, main
    <2>2. Counted'
      BY <1>7, QuietCounts DEF Sound, vars, asking, installer, main
    <2> QED BY <2>1, <2>2 DEF Sound
  <1> QED BY <1>1, <1>2, <1>3, <1>4, <1>5, <1>6, <1>7 DEF Next


-----------------------------------------------------------------------------
(* The installer, where the error event tells of installers only.           *)

\* What a step may do to the installation, and to what main.js holds for it.

\* Nothing of it moves.
Rests ==
    /\ UNCHANGED <<stray, installing, install, recovery, session>>
    /\ closing => closing'
\* A prompt is accepted: prepareInstall() is asked.
Asks ==
    /\ ~installing /\ install \in {"idle", "left"} /\ ~closing
    /\ installing' = TRUE /\ install' = "preparing"
    /\ UNCHANGED <<stray, recovery, session, closing>>
\* It may not be asked any more.
Declines ==
    /\ ~installing /\ install \in {"idle", "left"}
    /\ installing' = FALSE /\ install' = "told"
    /\ UNCHANGED <<stray, recovery, session, closing>>
\* prepareInstall() says yes, and quitAndInstall() is called.
Grants ==
    /\ install = "preparing"
    /\ install' = "launching" /\ session' = "stopped"
    /\ UNCHANGED <<stray, installing, recovery, closing>>
\* It says no.
Refuses ==
    /\ install = "preparing"
    /\ installing' = FALSE /\ install' = "told"
    /\ UNCHANGED <<stray, recovery>>
    /\ closing => closing'
\* The installer runs.
Leaves ==
    /\ install = "launching" /\ installing
    /\ install' = "left" /\ closing' = TRUE
    /\ UNCHANGED <<stray, installing, recovery, session>>
\* It fails, and recoverInstall() is asked.
Breaks ==
    /\ install = "launching" /\ installing /\ recovery = "none"
    /\ installing' = FALSE /\ install' = "waiting"
    /\ recovery' = IF closing THEN "reporting" ELSE "recovering"
    /\ UNCHANGED <<stray, session, closing>>
\* The recovery had its turn.
Reports ==
    /\ recovery = "recovering"
    /\ recovery' = "reporting"
    /\ UNCHANGED <<stray, installing, install, closing>>
\* The user has been told of the failure.
Acknowledges ==
    /\ recovery = "reporting" /\ install = "waiting"
    /\ recovery' = "none" /\ install' = "idle"
    /\ UNCHANGED <<stray, installing, session, closing>>
\* The user has been told of the refusal.
Hears ==
    /\ install = "told" /\ install' = "idle"
    /\ UNCHANGED <<stray, installing, recovery, session, closing>>

\* One of these.
InstallerMoves ==
    Rests \/ Asks \/ Declines \/ Grants \/ Refuses \/ Leaves \/ Breaks \/ Reports
      \/ Acknowledges \/ Hears

\* Only a controller that awaits a recovery has one.
LEMMA NotWaiting ==
    ASSUME Sound, InstallerIsOne, ~stray, install # "waiting"
    PROVE  recovery = "none"
  BY DEF InstallerIsOne

\* With no stray error, an error that is told of a check changes nothing.
LEMMA NoStray == ~stray /\ StrayError => UNCHANGED <<installing, recovery, turns>>
  BY DEF StrayError

\* An accepted prompt asks for an installation only from where none is.
LEMMA PromptAcceptedMoves ==
    ASSUME Sound, InstallerIsOne, ~stray, PromptAccepted
    PROVE  InstallerMoves
  <1>1. /\ dialogs # <<>> /\ Head(dialogs) = "prompt"
        /\ UNCHANGED <<stray, recovery, session, closing>>
    BY DEF PromptAccepted, Settles
  <1>2. install \in {"idle", "left"}
    <2> DEFINE rest == Tail(dialogs)
    <2>1. /\ Asked(rest) \in Nat
          /\ Asked(dialogs) = Asked(rest) + One(Head(dialogs) \in {"prompt", "pageFailed"})
      BY <1>1, DialogTaken DEF Sound
    <2> HIDE DEF rest
    <2>2. install \in {"idle", "preparing", "launching", "waiting", "told", "left"}
      BY DEF Sound, TypeOK
    <2> QED BY <1>1, <2>1, <2>2 DEF Sound, Counted, One
  <1>3. CASE UNCHANGED <<installing, install, turns>>
    BY <1>1, <1>3 DEF InstallerMoves, Rests
  <1>4. CASE Install(Tail(dialogs))
    <2>1. CASE installing /\ InstallEnds(install) /\ UNCHANGED <<installing, turns>>
      BY <1>1, <2>1 DEF InstallEnds, InstallerMoves, Rests
    <2>2. CASE ~installing /\ MayPrepare /\ installing' = TRUE /\ install' = "preparing"
      BY <1>1, <1>2, <2>2 DEF MayPrepare, InstallerMoves, Asks
    <2>3. CASE ~installing /\ ~MayPrepare /\ installing' = FALSE /\ install' = "told"
      BY <1>1, <1>2, <2>3 DEF InstallerMoves, Declines
    <2> QED BY <1>4, <2>1, <2>2, <2>3 DEF Install
  <1> QED BY <1>3, <1>4 DEF PromptAccepted

\* A dialog that is closed ends what awaited it.
LEMMA DialogClosedMoves ==
    ASSUME Sound, InstallerIsOne, ~stray, DialogClosed
    PROVE  InstallerMoves
  <1> DEFINE d == Head(dialogs)
             rest == Tail(dialogs)
  <1>1. /\ dialogs # <<>>
        /\ UNCHANGED <<stray, installing, session, closing>>
    BY DEF DialogClosed, Settles, main
  <1>2. /\ d \in Dialogs
        /\ CountOf(rest, "refused") \in Nat /\ CountOf(rest, "installFailed") \in Nat
        /\ CountOf(dialogs, "refused") = CountOf(rest, "refused") + One(d = "refused")
        /\ CountOf(dialogs, "installFailed") = CountOf(rest, "installFailed") + One(d = "installFailed")
    BY <1>1, DialogTaken DEF Sound
  <1>3. /\ d \in {"prompt", "pageFailed", "outcome", "checkFailed", "notice"}
             => UNCHANGED <<install, recovery>>
        /\ d = "refused" => install' = "idle" /\ UNCHANGED recovery
        /\ d = "installFailed" => /\ recovery' = "none"
                                  /\ install = "waiting" => install' = "idle"
    BY DEF DialogClosed, Settles, InstallEnds
  <1> HIDE DEF d, rest
  <1>4. CASE d \in {"prompt", "pageFailed", "outcome", "checkFailed", "notice"}
    BY <1>1, <1>3, <1>4 DEF InstallerMoves, Rests
  <1>5. CASE d = "refused"
    <2>1. CountOf(dialogs, "refused") = CountOf(rest, "refused") + 1
      BY <1>2, <1>5 DEF One
    <2>2. install = "told"
      BY <1>2, <2>1 DEF Sound, Counted, One
    <2> QED BY <1>1, <1>3, <1>5, <2>2 DEF InstallerMoves, Hears
  <1>6. CASE d = "installFailed"
    <2>1. CountOf(dialogs, "installFailed") = CountOf(rest, "installFailed") + 1
      BY <1>2, <1>6 DEF One
    <2>2. recovery = "reporting"
      BY <1>2, <2>1 DEF Sound, Counted, One
    <2>3. install = "waiting"
      BY <2>2 DEF InstallerIsOne
    <2> QED BY <1>1, <1>3, <1>6, <2>2, <2>3 DEF InstallerMoves, Acknowledges
  <1> QED BY <1>2, <1>4, <1>5, <1>6 DEF Dialogs

\* Every step is one of those moves.
LEMMA StepMoves ==
    ASSUME Sound, InstallerIsOne, ~stray, [Next]_vars
    PROVE  InstallerMoves
  <1>1. CASE Start \/ CheckManually \/ Quit \/ DialogShown
    BY <1>1 DEF Start, CheckManually, Quit, DialogShown, checking, installer, main,
       InstallerMoves, Rests
  <1>2. CASE LibraryLoads \/ LibraryFails \/ UpdateAvailable \/ ExternalUpdate \/ NoUpdate \/ Downloaded
    BY <1>2 DEF LibraryLoads, LibraryFails, UpdateAvailable, ExternalUpdate, NoUpdate,
       Downloaded,
       installer, main, InstallerMoves, Rests
  <1>3. CASE CheckFails \/ DownloadFails
    BY <1>3, NoStray DEF CheckFails, DownloadFails, InstallerMoves, Rests
  <1>4. CASE PrepareProves
    <2>1. install = "preparing"
      BY <1>4, TurnTaken DEF PrepareProves, Sound
    <2> QED BY <1>4, <2>1 DEF PrepareProves, checking, InstallerMoves, Grants
  <1>5. CASE PrepareRefuses
    <2>1. install = "preparing"
      BY <1>5, TurnTaken DEF PrepareRefuses, Sound
    <2>2. closing => closing'
      BY <1>5 DEF PrepareRefuses
    <2> QED BY <1>5, <2>1, <2>2 DEF PrepareRefuses, RefusedWith, checking, InstallerMoves, Refuses
  <1>6. CASE RecoverTurn
    <2>1. recovery = "recovering"
      BY <1>6, TurnTaken DEF RecoverTurn, Sound
    <2> QED BY <1>6, <2>1 DEF RecoverTurn, checking, InstallerMoves, Reports
  <1>7. CASE LaunchSucceeds
    <2>1. install = "launching" /\ installing
      BY <1>7 DEF LaunchSucceeds, InstallerIsOne
    <2> QED BY <1>7, <2>1 DEF LaunchSucceeds, InstallEnds, InstallerMoves, Leaves
  <1>8. CASE LaunchFails
    <2>1. install = "launching" /\ installing /\ recovery = "none"
      BY <1>8 DEF LaunchFails, InstallerIsOne
    <2>2. /\ installing' = FALSE
          /\ recovery' = IF closing THEN "reporting" ELSE "recovering"
      BY <1>8, <2>1 DEF LaunchFails, Recover, Recovers
    <2> QED BY <1>8, <2>1, <2>2 DEF LaunchFails, InstallerMoves, Breaks
  <1>9. CASE PromptAccepted
    BY <1>9, PromptAcceptedMoves
  <1>10. CASE DialogClosed
    BY <1>10, DialogClosedMoves
  <1>11. CASE UNCHANGED vars
    BY <1>11 DEF vars, checking, installer, main, InstallerMoves, Rests
  <1> QED BY <1>1, <1>2, <1>3, <1>4, <1>5, <1>6, <1>7, <1>8, <1>9, <1>10, <1>11
          DEF Next, Library, Transfers, Launches, Turns, Answers

\* The library stays what it is.
LEMMA StrayStays == [Next]_vars => UNCHANGED stray
  BY DEF Next, Library, Transfers, Launches, Turns, Answers, vars, checking, Start,
     CheckManually,
     LibraryLoads, LibraryFails, UpdateAvailable, ExternalUpdate, NoUpdate, CheckFails,
     Downloaded,
     DownloadFails, LaunchSucceeds, LaunchFails, PrepareProves, PrepareRefuses, RecoverTurn,
     Quit,
     DialogShown, PromptAccepted, DialogClosed

\* The installation and the session keep together.
LEMMA InstallerStep ==
    ASSUME Sound, InstallerIsOne, [Next]_vars
    PROVE  InstallerIsOne'
  <1>1. UNCHANGED stray
    BY StrayStays
  <1> SUFFICES ASSUME ~stray, ~stray' PROVE InstallerIsOne'
    BY <1>1 DEF InstallerIsOne
  <1>2. InstallerMoves
    BY StepMoves
  <1>3. install \in {"idle", "preparing", "launching", "waiting", "told", "left"}
    BY DEF Sound, TypeOK
  <1>4. /\ install \in {"preparing", "launching", "left"} => installing /\ recovery = "none"
        /\ install = "waiting" <=> recovery # "none"
        /\ install = "left" => closing
        /\ install \in {"launching", "left"} => session = "stopped"
    BY DEF InstallerIsOne, InstallerAlone
  <1> SUFFICES /\ install' \in {"preparing", "launching", "left"} => installing' /\ recovery' = "none"
               /\ install' = "waiting" <=> recovery' # "none"
               /\ install' = "left" => closing'
               /\ install' \in {"launching", "left"} => session' = "stopped"
    BY DEF InstallerIsOne, InstallerAlone
  <1>5. CASE Rests
    BY <1>4, <1>5 DEF Rests
  <1>6. CASE Asks
    BY <1>4, <1>6 DEF Asks
  <1>7. CASE Declines
    BY <1>4, <1>7 DEF Declines
  <1>8. CASE Grants
    BY <1>4, <1>8 DEF Grants
  <1>9. CASE Refuses
    BY <1>4, <1>9 DEF Refuses
  <1>10. CASE Leaves
    BY <1>4, <1>10 DEF Leaves
  <1>11. CASE Breaks
    BY <1>4, <1>11 DEF Breaks
  <1>12. CASE Reports
    BY <1>4, <1>12 DEF Reports
  <1>13. CASE Acknowledges
    BY <1>4, <1>13 DEF Acknowledges
  <1>14. CASE Hears
    BY <1>4, <1>14 DEF Hears
  <1> QED BY <1>2, <1>5, <1>6, <1>7, <1>8, <1>9, <1>10, <1>11, <1>12, <1>13, <1>14
          DEF InstallerMoves

\* Where the installation is, as main.js sees it.
Stage ==
    IF recovery = "recovering" THEN "recovering"
    ELSE IF install = "preparing" THEN "preparing"
    ELSE IF install \in {"launching", "left"} THEN "installing" ELSE "idle"

\* While the app stays, a move of the installation is one of the gate.
LEMMA StageMoves ==
    ASSUME InstallerIsOne, ~stray, ~closing', InstallerMoves
    PROVE  /\ ~closing
           /\ \/ Stage' = Stage
              \/ Stage = "idle" /\ Stage' = "preparing"
              \/ Stage = "preparing" /\ Stage' = "idle"
              \/ Stage = "preparing" /\ Stage' = "installing"
              \/ Stage = "installing" /\ Stage' = "recovering"
              \/ Stage = "recovering" /\ Stage' = "idle"
  <1>1. /\ install \in {"preparing", "launching", "left"} => installing /\ recovery = "none"
        /\ install = "waiting" <=> recovery # "none"
        /\ install = "left" => closing
    BY DEF InstallerIsOne
  <1>2. CASE Rests
    BY <1>1, <1>2 DEF Rests, Stage
  <1>3. CASE Asks
    BY <1>1, <1>3 DEF Asks, Stage
  <1>4. CASE Declines
    BY <1>1, <1>4 DEF Declines, Stage
  <1>5. CASE Grants
    BY <1>1, <1>5 DEF Grants, Stage
  <1>6. CASE Refuses
    BY <1>1, <1>6 DEF Refuses, Stage
  <1>7. CASE Leaves
    BY <1>7 DEF Leaves
  <1>8. CASE Breaks
    BY <1>1, <1>8 DEF Breaks, Stage
  <1>9. CASE Reports
    BY <1>1, <1>9 DEF Reports, Stage
  <1>10. CASE Acknowledges
    BY <1>1, <1>10 DEF Acknowledges, Stage
  <1>11. CASE Hears
    BY <1>1, <1>11 DEF Hears, Stage
  <1> QED BY <1>2, <1>3, <1>4, <1>5, <1>6, <1>7, <1>8, <1>9, <1>10, <1>11 DEF InstallerMoves

\* Every step is one of the gate, or leaves it alone.
LEMMA GateStep ==
    ASSUME Sound, InstallerIsOne, [Next]_vars
    PROVE  [Gate!GateNext]_(Gate!gateVars)
  <1>1. UNCHANGED stray
    BY StrayStays
  <1>2. CASE stray
    <2>1. Gate!gateVars = <<"idle", FALSE>> /\ (Gate!gateVars)' = <<"idle", FALSE>>
      BY <1>1, <1>2 DEF Gate!gateVars
    <2> QED BY <2>1
  <1>3. CASE ~stray /\ closing'
    BY <1>1, <1>3 DEF Gate!GateNext, Gate!Leave
  <1>4. CASE ~stray /\ ~closing'
    <2>1. InstallerMoves
      BY <1>4, StepMoves
    <2>2. ~stray' /\ ~closing
      BY <1>1, <1>4, <2>1, StageMoves
    <2>3. /\ (~stray /\ closing) = FALSE
          /\ (~stray /\ closing)' = FALSE
      BY <1>4, <2>2
    <2>4. /\ (IF stray THEN "idle" ELSE Stage) = Stage
          /\ (IF stray THEN "idle" ELSE Stage)' = Stage'
      BY <1>4, <2>2
    <2>5. Stage' = Stage => UNCHANGED Gate!gateVars
      BY <2>3, <2>4 DEF Gate!gateVars, Stage
    <2>6. ASSUME NEW from, NEW to, Stage = from, Stage' = to
          PROVE  Gate!Moves(from, to)
      BY <2>3, <2>4, <2>6 DEF Gate!Moves, Stage
    <2>7. Stage = "idle" /\ Stage' = "preparing" => Gate!Prepare
      BY <2>6 DEF Gate!Prepare
    <2>8. Stage = "preparing" /\ Stage' = "idle" => Gate!Refuse
      BY <2>6 DEF Gate!Refuse
    <2>9. Stage = "preparing" /\ Stage' = "installing" => Gate!Grant
      BY <2>6 DEF Gate!Grant
    <2>10. Stage = "installing" /\ Stage' = "recovering" => Gate!Fail
      BY <2>6 DEF Gate!Fail
    <2>11. Stage = "recovering" /\ Stage' = "idle" => Gate!Recovered
      BY <2>6 DEF Gate!Recovered
    <2> QED BY <1>4, <2>1, <2>5, <2>7, <2>8, <2>9, <2>10, <2>11, StageMoves DEF Gate!GateNext
  <1> QED BY <1>2, <1>3, <1>4

-----------------------------------------------------------------------------
(* The theorems.                                                            *)

\* The inductive invariant holds of every behaviour of the controller.
THEOREM Invariance == Spec => []IInv
  <1>1. Init => Sound /\ InstallerIsOne
    <2>1. Init => InstallerIsOne
      BY DEF Init, InstallerIsOne, InstallerAlone
    <2> QED BY <2>1, Initially
  <1>2. Sound /\ InstallerIsOne /\ [Next]_vars => (Sound /\ InstallerIsOne)'
    BY SoundStep, InstallerStep
  <1>3. Sound /\ InstallerIsOne <=> IInv
    BY CountedIsHeard DEF Sound, IInv, OneAtATime
  <1> QED BY <1>1, <1>2, <1>3, PTL DEF Spec

\* The controller asks one question at a time, and each of its calls into main.js
\* is under way once and awaited: a download that ends, a click on the menu and a
\* check that answers never lead to two prompts or two installations.
THEOREM OneAtATimeHolds == Spec => []OneAtATime
  <1>1. IInv => OneAtATime
    BY DEF IInv
  <1> QED BY <1>1, Invariance, PTL

\* Where the event tells of installers only: from quitAndInstall() until it failed
\* or the app is gone no session runs, and main.js is asked as InstallGate.tla has
\* it, which is what Desktop.tla relies on.
THEOREM InstallIsGatedHolds == Spec => InstallIsGated
  <1>1. IInv => stray \/ InstallerAlone
    BY DEF IInv, InstallerIsOne
  <1>2. Init => Gate!GateInit
    BY DEF Init, Gate!GateInit
  <1>3. IInv /\ [Next]_vars => [Gate!GateNext]_(Gate!gateVars)
    BY GateStep, CountedIsHeard DEF IInv, Sound, OneAtATime
  <1> QED BY <1>1, <1>2, <1>3, Invariance, PTL DEF Spec, InstallIsGated, ImplementsGate, Gate!GateSpec

-----------------------------------------------------------------------------
(* The AppImage updater.  The inductive invariant adds, to what the theorems *)
(* say, that one attempt is under way at a time, and what is on the disk at  *)
(* each of its places: nothing but synced files under the names, the         *)
(* directory as it was until the rename, and after it the copy that would    *)
(* undo it.                                                                  *)

\* Where an attempt may be; under way; and before it replaced anything.
Places == {"new"} \cup InSync \cup Awaiting \cup Ended
Active == InSync \cup Awaiting
Untouched == {"copying", "copied", "backing", "backed", "ready"}
\* A file that a power loss leaves.
Durable(file) == file # Absent /\ file.data = "durable"

\* AppImageTypeOK without its clause about the staging directory.
Typed ==
    /\ files \in [Names -> File]
    /\ current \in Names
    /\ alive \in BOOLEAN /\ called \in BOOLEAN
    /\ pc \in [Attempts -> Places]
    /\ dest \in [Attempts -> Names]
    /\ staged \in [Attempts -> File]
    /\ backup \in [Attempts -> File]
    /\ before \in [Attempts -> [Names -> File]]
    /\ launched \subseteq Attempts

\* A staged image belongs to an attempt that has not replaced anything yet.
StagedOK ==
    \A a \in Attempts : staged[a] # Absent => pc[a] \in Untouched \cup {"killed"}

\* One attempt is under way, and while it is a second call is refused.
OneAttempt ==
    /\ \A a, b \in Attempts : pc[a] \in Active /\ pc[b] \in Active => a = b
    /\ \A a \in Attempts : pc[a] \in Active => alive /\ called
    /\ called => \E a \in Attempts : pc[a] \in Active \cup {"quit", "killed"}

\* What has a name is synced.
NamesDurable == \A n \in Names : files[n] # Absent => files[n].data = "durable"

\* What is on the disk while attempt a is under way.
DiskOK(a) ==
    /\ pc[a] \in Untouched => files = before[a]
    /\ pc[a] = "launching" => files = [before[a] EXCEPT ![dest[a]] = Written("new", "durable")]
    /\ pc[a] \in Untouched \cup {"launching"} =>
         /\ \E n \in Names : Durable(before[a][n])
         /\ \A n \in Names : before[a][n] # Absent => before[a][n].data = "durable"
    /\ pc[a] = "committing" => Durable(files[dest[a]])
    /\ pc[a] \in {"backing", "backed", "ready"} => staged[a] = Written("new", "durable")
    /\ pc[a] \in {"backing", "backed"} =>
         Existed(a) /\ backup[a] # Absent /\ backup[a].image = before[a][dest[a]].image
    /\ pc[a] \in {"ready", "launching"} /\ Existed(a) => backup[a] = before[a][dest[a]]

\* The inductive invariant.
DiskInv ==
    /\ Typed /\ StagedOK /\ OneAttempt /\ NamesDurable /\ Bootable
    /\ \A a \in Attempts : DiskOK(a)

-----------------------------------------------------------------------------
(* The files.                                                               *)

\* A file is its image and the state of its data.
LEMMA ImageEqual ==
    ASSUME NEW x \in Image, NEW y \in Image, x.image = y.image, x.data = y.data
    PROVE  x = y
  BY DEF Image

\* Writing makes a file, and a file that is written in full is no partial one.
LEMMA WrittenFacts ==
    ASSUME NEW image \in {"old", "new"}, NEW data \in {"partial", "cached", "durable"}
    PROVE  /\ Written(image, data) \in Image
           /\ Written(image, data) \in File
           /\ Written(image, data).image = image
           /\ Written(image, data).data = data
  BY DEF Written, Image, File

\* A crash leaves a durable file as it is, and makes a file of every file.
LEMMA LeftFacts ==
    ASSUME NEW file \in File, NEW power \in BOOLEAN
    PROVE  /\ Left(file, power) \in File
           /\ Left(file, power) = Absent <=> file = Absent
           /\ file # Absent /\ file.data = "durable" => Left(file, power) = file
  <1>1. CASE power /\ file # Absent /\ file.data = "cached"
    <2>1. Left(file, power) \in Image /\ Left(file, power) # Absent
      BY <1>1, AppImageConstants DEF Left, File, Image
    <2> QED BY <1>1, <2>1 DEF File
  <1>2. CASE ~(power /\ file # Absent /\ file.data = "cached")
    BY <1>2 DEF Left
  <1> QED BY <1>1, <1>2

-----------------------------------------------------------------------------
(* Types.                                                                   *)

\* Every step keeps the types;
LEMMA TypedStep ==
    ASSUME Typed, [AppImageNext]_appImageVars, \A a \in Attempts : DiskOK(a)
    PROVE  Typed'
  <1> USE DEF Typed
  <1>1. ASSUME NEW a \in Attempts, Begin(a)
        PROVE  Typed'
    <2>1. Written("new", "partial") \in File
      BY WrittenFacts
    <2> QED BY <1>1, <2>1 DEF Begin, Goes, process, Places, InSync
  <1>2. ASSUME NEW a \in Attempts, BeginFails(a)
        PROVE  Typed'
    BY <1>2 DEF BeginFails, Goes, process, Places, Ended
  <1>3. ASSUME NEW a \in Attempts, CopyStaged(a)
        PROVE  Typed'
    <2>1. Written("new", "cached") \in File
      BY WrittenFacts
    <2> QED BY <1>3, <2>1 DEF CopyStaged, Goes, process, Places, InSync
  <1>4. ASSUME NEW a \in Attempts, SyncStaged(a)
        PROVE  Typed'
    <2>1. Written("new", "durable") \in File
      BY WrittenFacts
    <2>2. CASE Existed(a)
      <3>1. files[dest[a]].image \in {"old", "new"}
        BY <1>4, <2>2 DEF File, Image, SyncStaged, DiskOK, Reaches, Existed, Untouched
      <3>2. Written(files[dest[a]].image, "partial") \in File
        BY <3>1, WrittenFacts
      <3> QED BY <1>4, <2>1, <2>2, <3>2 DEF SyncStaged, Goes, process, Places, InSync
    <2>3. CASE ~Existed(a)
      BY <1>4, <2>1, <2>3 DEF SyncStaged, Goes, process, Places, InSync
    <2> QED BY <2>2, <2>3
  <1>5. ASSUME NEW a \in Attempts, CopyBackup(a) \/ SyncBackup(a)
        PROVE  Typed'
    <2>1. backup[a] \in Image
      BY <1>5 DEF CopyBackup, SyncBackup, DiskOK, Reaches, File
    <2>2. \A data \in {"cached", "durable"} : [backup EXCEPT ![a].data = data] \in [Attempts -> File]
      BY <2>1 DEF File, Image
    <2> QED BY <1>5, <2>2 DEF CopyBackup, SyncBackup, Goes, process, Places, InSync
  <1>6. ASSUME NEW a \in Attempts, Replace(a)
        PROVE  Typed'
    BY <1>6 DEF Replace, Goes, process, Places, Awaiting, File
  <1>7. ASSUME NEW a \in Attempts, PrepareFails(a)
        PROVE  Typed'
    BY <1>7 DEF PrepareFails, Goes, process, Places, Ended, File
  <1>8. ASSUME NEW a \in Attempts, NewLaunchFails(a)
        PROVE  Typed'
    <2>1. CASE RolledBack(a)
      BY <1>8, <2>1 DEF NewLaunchFails, RolledBack, Goes, process, Places, Ended, File
    <2>2. CASE RollbackFails(a)
      BY <1>8, <2>2 DEF NewLaunchFails, RollbackFails, Goes, process, Places, Ended
    <2> QED BY <1>8, <2>1, <2>2 DEF NewLaunchFails
  <1>9. ASSUME NEW a \in Attempts, Launch(a) \/ Commit(a) \/ CleanUp(a) \/ QuitApp(a)
        PROVE  Typed'
    BY <1>9 DEF Launch, Commit, CleanUp, QuitApp, Goes, process, Places, InSync, Awaiting,
       Ended, File
  <1>10. ASSUME NEW power \in BOOLEAN, Dies(power)
         PROVE  Typed'
    BY <1>10, LeftFacts DEF Dies, Places, Ended
  <1>11. CASE Restart
    BY <1>11 DEF Restart
  <1>12. CASE UNCHANGED appImageVars
    BY <1>12 DEF appImageVars, process
  <1> QED BY <1>1, <1>2, <1>3, <1>4, <1>5, <1>6, <1>7, <1>8, <1>9, <1>10, <1>11, <1>12
          DEF AppImageNext, Steps, Prepare, Settle

-----------------------------------------------------------------------------
(* One attempt at a time.                                                   *)

\* What an action of attempt a means for the places of all attempts.
LEMMA Moves ==
    ASSUME Typed, NEW a \in Attempts, NEW place \in Places, Goes(a, place)
    PROVE  /\ pc'[a] = place
           /\ \A b \in Attempts : b # a => pc'[b] = pc[b]
  BY DEF Typed, Goes

\* An attempt under way keeps the others from being so.
LEMMA Alone ==
    ASSUME OneAttempt, NEW a \in Attempts, pc[a] \in Active, NEW b \in Attempts, b # a
    PROVE  pc[b] \notin Active
  BY DEF OneAttempt

\* The steps of an attempt under way that leave it so, or end it.
LEMMA StepsMove ==
    ASSUME DiskInv, NEW a \in Attempts, Steps(a)
    PROVE  /\ pc[a] \in Active /\ alive
           /\ \E place \in (InSync \cup Awaiting \cup Ended) \ {"killed"} :
                /\ Goes(a, place)
                /\ \/ place \in Active /\ UNCHANGED <<alive, called>>
                   \/ place \in {"failed", "dirty"} /\ ~called' /\ UNCHANGED alive
                   \/ place = "quit" /\ UNCHANGED called
  <1> USE DEF Reaches, InSync, Awaiting, Ended, Active, process
  <1>1. CASE CopyStaged(a)
    BY <1>1, Zenon DEF CopyStaged
  <1>2. CASE SyncStaged(a)
    BY <1>2 DEF SyncStaged
  <1>3. CASE CopyBackup(a)
    BY <1>3 DEF CopyBackup
  <1>4. CASE SyncBackup(a)
    BY <1>4 DEF SyncBackup
  <1>5. CASE Replace(a)
    BY <1>5 DEF Replace
  <1>6. CASE PrepareFails(a)
    BY <1>6 DEF PrepareFails
  <1>7. CASE Launch(a)
    BY <1>7 DEF Launch
  <1>8. CASE NewLaunchFails(a)
    BY <1>8 DEF NewLaunchFails, RolledBack, RollbackFails
  <1>9. CASE Commit(a)
    BY <1>9 DEF Commit
  <1>10. CASE CleanUp(a)
    BY <1>10 DEF CleanUp
  <1>11. CASE QuitApp(a)
    BY <1>11 DEF QuitApp
  <1> QED BY <1>1, <1>2, <1>3, <1>4, <1>5, <1>6, <1>7, <1>8, <1>9, <1>10, <1>11
          DEF Steps, Prepare, Settle

\* Every step keeps it to one attempt at a time.
LEMMA OneStep ==
    ASSUME DiskInv, [AppImageNext]_appImageVars
    PROVE  OneAttempt'
  <1>1. Typed /\ OneAttempt
    BY DEF DiskInv
  <1>2. ASSUME NEW a \in Attempts, Begin(a)
        PROVE  OneAttempt'
    <2>1. \A b \in Attempts : pc[b] \notin Active
      BY <1>1, <1>2 DEF OneAttempt, Begin, MayBegin
    <2>2. pc'[a] = "copying" /\ \A b \in Attempts : b # a => pc'[b] = pc[b]
      BY <1>1, <1>2 DEF Typed, Begin, Goes
    <2>3. alive' /\ called'
      BY <1>1, <1>2 DEF Begin, Idle, process
    <2> QED BY <2>1, <2>2, <2>3 DEF OneAttempt, Active, InSync
  <1>3. ASSUME NEW a \in Attempts, BeginFails(a)
        PROVE  OneAttempt'
    <2>1. pc'[a] = "failed" /\ \A b \in Attempts : b # a => pc'[b] = pc[b]
      BY <1>1, <1>3 DEF Typed, BeginFails, Goes
    <2>2. ~called /\ ~called'
      BY <1>3 DEF BeginFails, MayBegin
    <2> QED BY <1>1, <2>1, <2>2 DEF OneAttempt, Active, InSync, Awaiting
  <1>4. ASSUME NEW a \in Attempts, Steps(a)
        PROVE  OneAttempt'
    <2>1. PICK place \in (InSync \cup Awaiting \cup Ended) \ {"killed"} :
            /\ Goes(a, place)
            /\ \/ place \in Active /\ UNCHANGED <<alive, called>>
               \/ place \in {"failed", "dirty"} /\ ~called' /\ UNCHANGED alive
               \/ place = "quit" /\ UNCHANGED called
      BY <1>4, StepsMove
    <2>2. pc'[a] = place /\ \A b \in Attempts : b # a => pc'[b] = pc[b]
      BY <1>1, <2>1 DEF Typed, Goes
    <2>3. \A b \in Attempts : b # a => pc'[b] \notin Active
      BY <1>1, <1>4, <2>2, StepsMove, Alone
    <2>4. pc[a] \in Active /\ alive /\ called
      BY <1>1, <1>4, StepsMove DEF OneAttempt
    <2>5. CASE place \in Active /\ UNCHANGED <<alive, called>>
      BY <2>2, <2>3, <2>4, <2>5 DEF OneAttempt
    <2>6. CASE place \in {"failed", "dirty"} /\ ~called'
      BY <2>2, <2>3, <2>6 DEF OneAttempt, Active, InSync, Awaiting
    <2>7. CASE place = "quit"
      BY <2>2, <2>3, <2>7 DEF OneAttempt, Active, InSync, Awaiting
    <2> QED BY <2>1, <2>5, <2>6, <2>7
  <1>5. ASSUME NEW power \in BOOLEAN, Dies(power)
        PROVE  OneAttempt'
    <2>1. \A b \in Attempts : pc'[b] = IF pc[b] \in Active THEN "killed" ELSE pc[b]
      BY <1>5 DEF Dies, Active
    <2>2. \A b \in Attempts : pc'[b] \notin Active
      BY <2>1 DEF Active, InSync, Awaiting
    <2>3. called' => called
      BY <1>5 DEF Dies
    <2> QED BY <1>1, <2>1, <2>2, <2>3 DEF OneAttempt
  <1>6. CASE Restart
    BY <1>1, <1>6 DEF OneAttempt, Restart
  <1>7. CASE UNCHANGED appImageVars
    BY <1>1, <1>7 DEF OneAttempt, appImageVars, process
  <1> QED BY <1>2, <1>3, <1>4, <1>5, <1>6, <1>7 DEF AppImageNext

-----------------------------------------------------------------------------
(* What is on the disk.                                                     *)

\* Only an attempt under way has anything to say about the disk.
LEMMA DiskVacuous ==
    ASSUME NEW a \in Attempts, pc[a] \notin Active
    PROVE  DiskOK(a)
  BY DEF DiskOK, Active, InSync, Awaiting, Untouched

\* Every step keeps the staged images where they belong.
LEMMA StagedStep ==
    ASSUME DiskInv, [AppImageNext]_appImageVars
    PROVE  StagedOK'
  <1> USE DEF StagedOK, Untouched
  <1>1. Typed /\ StagedOK
    BY DEF DiskInv
  <1>2. ASSUME NEW a \in Attempts, Begin(a) \/ CopyStaged(a)
        PROVE  StagedOK'
    BY <1>1, <1>2 DEF Begin, CopyStaged, Goes, Reaches, Typed
  <1>3. ASSUME NEW a \in Attempts, SyncStaged(a)
        PROVE  StagedOK'
    BY <1>1, <1>3 DEF SyncStaged, Goes, Reaches, Typed
  <1>4. ASSUME NEW a \in Attempts, Replace(a) \/ PrepareFails(a)
        PROVE  StagedOK'
    BY <1>1, <1>4 DEF Replace, PrepareFails, Goes, Typed
  <1>5. ASSUME NEW a \in Attempts, BeginFails(a) \/ CopyBackup(a) \/ SyncBackup(a) \/ Launch(a)
        PROVE  StagedOK'
    BY <1>1, <1>5 DEF BeginFails, CopyBackup, SyncBackup, Launch, Goes, Reaches, Typed
  <1>6. ASSUME NEW a \in Attempts, NewLaunchFails(a) \/ Commit(a) \/ CleanUp(a) \/ QuitApp(a)
        PROVE  StagedOK'
    BY <1>1, <1>6
       DEF NewLaunchFails, RolledBack, RollbackFails, Commit, CleanUp, QuitApp, Goes, Reaches, Typed
  <1>7. ASSUME NEW power \in BOOLEAN, Dies(power)
        PROVE  StagedOK'
    <2>1. \A a \in Attempts : staged[a] \in File
      BY <1>1 DEF Typed
    <2>2. \A a \in Attempts : staged'[a] # Absent => staged[a] # Absent
      BY <1>7, <2>1, LeftFacts DEF Dies
    <2>3. \A a \in Attempts : pc'[a] = IF pc[a] \in InSync \cup Awaiting THEN "killed" ELSE pc[a]
      BY <1>7 DEF Dies
    <2> QED BY <1>1, <2>2, <2>3 DEF InSync
  <1>8. CASE Restart \/ UNCHANGED appImageVars
    BY <1>1, <1>8 DEF Restart, appImageVars, process
  <1> QED BY <1>2, <1>3, <1>4, <1>5, <1>6, <1>7, <1>8 DEF AppImageNext, Steps, Prepare, Settle

\* A step that leaves the files alone leaves them sound.
LEMMA SameFiles ==
    ASSUME NamesDurable, Bootable, UNCHANGED files
    PROVE  NamesDurable' /\ Bootable'
  BY DEF NamesDurable, Bootable

\* Every step keeps what has a name synced, and something to start.
LEMMA FilesStep ==
    ASSUME DiskInv, [AppImageNext]_appImageVars
    PROVE  NamesDurable' /\ Bootable'
  <1>1. Typed /\ NamesDurable /\ Bootable /\ \A a \in Attempts : DiskOK(a)
    BY DEF DiskInv
  <1>2. ASSUME NEW a \in Attempts, Replace(a)
        PROVE  NamesDurable' /\ Bootable'
    <2>1. staged[a] = Written("new", "durable")
      BY <1>1, <1>2 DEF DiskOK, Replace, Reaches
    <2>2. files' = [files EXCEPT ![dest[a]] = Written("new", "durable")] /\ dest[a] \in Names
      BY <1>1, <1>2, <2>1 DEF Replace, Typed
    <2>3. Written("new", "durable").data = "durable" /\ Written("new", "durable") # Absent
      BY WrittenFacts, AppImageConstants
    <2>4. NamesDurable'
      BY <1>1, <2>2, <2>3 DEF NamesDurable, Typed
    <2>5. Complete(files'[dest[a]])
      BY <1>1, <2>2, <2>3 DEF Complete, Typed
    <2> QED BY <2>2, <2>4, <2>5 DEF Bootable
  <1>3. ASSUME NEW a \in Attempts, NewLaunchFails(a)
        PROVE  NamesDurable' /\ Bootable'
    <2>1. CASE RolledBack(a)
      <3>1. files' = before[a]
        BY <1>1, <1>3, <2>1 DEF RolledBack, NewLaunchFails, DiskOK, Reaches, Existed, Typed
      <3>2. /\ \E n \in Names : Durable(before[a][n])
            /\ \A n \in Names : before[a][n] # Absent => before[a][n].data = "durable"
        BY <1>1, <1>3 DEF DiskOK, NewLaunchFails, Reaches
      <3> QED BY <3>1, <3>2 DEF NamesDurable, Bootable, Complete, Durable
    <2>2. CASE RollbackFails(a)
      BY <1>1, <2>2, SameFiles DEF RollbackFails
    <2> QED BY <1>3, <2>1, <2>2 DEF NewLaunchFails
  <1>4. ASSUME NEW a \in Attempts, Commit(a)
        PROVE  NamesDurable' /\ Bootable'
    <2>1. Durable(files[dest[a]]) /\ dest[a] \in Names
      BY <1>1, <1>4 DEF DiskOK, Commit, Reaches, Typed
    <2>2. CASE dest[a] # current /\ files' = [files EXCEPT ![current] = Absent]
      <3>1. NamesDurable'
        BY <1>1, <2>2 DEF NamesDurable, Typed
      <3>2. Complete(files'[dest[a]])
        BY <1>1, <2>1, <2>2 DEF Complete, Durable, Typed
      <3> QED BY <2>1, <3>1, <3>2 DEF Bootable
    <2>3. CASE UNCHANGED files
      BY <1>1, <2>3, SameFiles
    <2> QED BY <1>4, <2>2, <2>3 DEF Commit
  <1>5. ASSUME NEW power \in BOOLEAN, Dies(power)
        PROVE  NamesDurable' /\ Bootable'
    <2>1. \A n \in Names : Left(files[n], power) = files[n]
      BY <1>1 DEF NamesDurable, Left
    <2>2. UNCHANGED files
      BY <1>1, <1>5, <2>1 DEF Dies, Typed
    <2> QED BY <1>1, <2>2, SameFiles
  <1>6. ASSUME NEW a \in Attempts,
               \/ Begin(a) \/ BeginFails(a) \/ CopyStaged(a) \/ SyncStaged(a) \/ CopyBackup(a)
               \/ SyncBackup(a) \/ PrepareFails(a) \/ Launch(a) \/ CleanUp(a) \/ QuitApp(a)
        PROVE  NamesDurable' /\ Bootable'
    <2>1. UNCHANGED files
      BY <1>6 DEF Begin, BeginFails, CopyStaged, SyncStaged, CopyBackup, SyncBackup,
         PrepareFails,
                  Launch, CleanUp, QuitApp
    <2> QED BY <1>1, <2>1, SameFiles
  <1>7. CASE Restart \/ UNCHANGED appImageVars
    <2>1. UNCHANGED files
      BY <1>7 DEF Restart, appImageVars
    <2> QED BY <1>1, <2>1, SameFiles
  <1> QED BY <1>2, <1>3, <1>4, <1>5, <1>6, <1>7 DEF AppImageNext, Steps, Prepare, Settle

\* A step of an attempt keeps what is said of the disk at its new place.
LEMMA OwnDisk ==
    ASSUME DiskInv, NEW a \in Attempts, Steps(a)
    PROVE  DiskOK(a)'
  <1> USE DEF Reaches, Untouched
  <1>1. Typed /\ NamesDurable /\ DiskOK(a)
    BY DEF DiskInv
  <1>2. CASE CopyStaged(a)
    BY <1>1, <1>2 DEF CopyStaged, Goes, DiskOK, Typed, Existed
  <1>3. CASE SyncStaged(a)
    <2>1. pc'[a] = IF Existed(a) THEN "backing" ELSE "ready"
      BY <1>1, <1>3 DEF SyncStaged, Goes, Typed
    <2>2. /\ UNCHANGED <<files, before, dest>> /\ Existed(a)' = Existed(a)
          /\ staged'[a] = Written("new", "durable")
      BY <1>1, <1>3 DEF SyncStaged, Typed, Existed
    <2>3. Existed(a) => backup'[a] = Written(files[dest[a]].image, "partial")
      BY <1>1, <1>3 DEF SyncStaged, Typed
    <2>4. Existed(a) => /\ files[dest[a]].image = before[a][dest[a]].image
                        /\ files[dest[a]].image \in {"old", "new"}
      BY <1>1, <1>3 DEF SyncStaged, Existed, DiskOK, Typed, File, Image
    <2>5. Existed(a) => backup'[a] # Absent /\ backup'[a].image = before[a][dest[a]].image
      BY <2>3, <2>4, WrittenFacts, AppImageConstants
    <2>6. pc[a] \in Untouched /\ DiskOK(a)
      BY <1>1, <1>3 DEF SyncStaged
    <2> QED BY <2>1, <2>2, <2>5, <2>6 DEF DiskOK
  <1>4. CASE CopyBackup(a)
    <2>1. backup[a] \in Image /\ backup[a].image = before[a][dest[a]].image
      BY <1>1, <1>4 DEF CopyBackup, DiskOK, Typed, File
    <2>2. backup'[a] \in Image /\ backup'[a].image = backup[a].image
      BY <1>1, <1>4, <2>1 DEF CopyBackup, Image, Typed
    <2>3. pc'[a] = "backed" /\ UNCHANGED <<files, before, dest, staged>> /\ pc[a] = "backing"
      BY <1>1, <1>4 DEF CopyBackup, Goes, Typed
    <2> QED BY <1>1, <2>1, <2>2, <2>3, AppImageConstants DEF DiskOK, Existed
  <1>5. CASE SyncBackup(a)
    <2>1. backup[a] \in Image /\ backup[a].image = before[a][dest[a]].image /\ Existed(a)
      BY <1>1, <1>5 DEF SyncBackup, DiskOK, Typed, File
    <2>2. backup'[a] \in Image /\ backup'[a].image = backup[a].image /\ backup'[a].data = "durable"
      BY <1>1, <1>5, <2>1 DEF SyncBackup, Image, Typed
    <2>3. pc'[a] = "ready" /\ UNCHANGED <<files, before, dest, staged>> /\ pc[a] = "backed"
      BY <1>1, <1>5 DEF SyncBackup, Goes, Typed
    <2>4. before[a][dest[a]] \in Image /\ before[a][dest[a]].data = "durable"
      BY <1>1, <2>1, <2>3 DEF DiskOK, Existed, Typed, File
    <2>5. backup'[a] = before[a][dest[a]]
      BY <2>1, <2>2, <2>4, ImageEqual
    <2> QED BY <1>1, <2>3, <2>5 DEF DiskOK, Existed
  <1>6. CASE Replace(a)
    <2>1. pc'[a] = "launching" /\ UNCHANGED <<before, dest, backup>> /\ pc[a] = "ready"
      BY <1>1, <1>6 DEF Replace, Goes, Typed
    <2>2. files' = [before[a] EXCEPT ![dest[a]] = Written("new", "durable")]
      BY <1>1, <1>6, <2>1 DEF Replace, DiskOK
    <2> QED BY <1>1, <2>1, <2>2 DEF DiskOK, Existed
  <1>7. CASE Launch(a)
    <2>1. pc'[a] = "committing" /\ UNCHANGED <<files, dest>> /\ pc[a] = "launching"
      BY <1>1, <1>7 DEF Launch, Goes, Typed
    <2>2. files[dest[a]] = Written("new", "durable")
      BY <1>1, <2>1 DEF DiskOK, Typed
    <2>3. Durable(files[dest[a]])
      BY <2>2, WrittenFacts, AppImageConstants DEF Durable
    <2> QED BY <2>1, <2>3 DEF DiskOK
  <1>8. CASE PrepareFails(a) \/ NewLaunchFails(a) \/ Commit(a) \/ CleanUp(a) \/ QuitApp(a)
    <2>1. pc'[a] \in {"failed", "dirty", "cleaning", "clearing", "quit"}
      BY <1>1, <1>8
         DEF PrepareFails, NewLaunchFails, RolledBack, RollbackFails, Commit, CleanUp, QuitApp,
             Goes, Typed
    <2> QED BY <2>1 DEF DiskOK
  <1> QED BY <1>2, <1>3, <1>4, <1>5, <1>6, <1>7, <1>8 DEF Steps, Prepare, Settle

\* What is said of the disk is kept by every step: of the attempt under way by
\* its own steps, and there is no other.
LEMMA DiskStep ==
    ASSUME DiskInv, [AppImageNext]_appImageVars, NEW b \in Attempts
    PROVE  DiskOK(b)'
  <1>1. Typed /\ OneAttempt /\ NamesDurable /\ Bootable /\ DiskOK(b)
    BY DEF DiskInv
  <1>2. CASE pc'[b] \notin Active
    BY <1>2 DEF DiskOK, Active, InSync, Awaiting, Untouched
  <1>3. CASE pc'[b] \in Active
    <2>1. ASSUME NEW a \in Attempts, Begin(a)
          PROVE  DiskOK(b)'
      <3>1. \A c \in Attempts : c # a => pc'[c] = pc[c]
        BY <1>1, <2>1 DEF Typed, Begin, Goes
      <3>2. pc[b] \notin Active
        BY <1>1, <2>1 DEF OneAttempt, Begin, MayBegin
      <3>3. b = a
        BY <1>3, <3>1, <3>2
      <3>4. pc'[b] = "copying" /\ before'[b] = files /\ UNCHANGED files
        BY <1>1, <2>1, <3>3 DEF Typed, Begin, Goes
      <3>5. /\ \E n \in Names : Durable(files[n])
            /\ \A n \in Names : files[n] # Absent => files[n].data = "durable"
        BY <1>1 DEF NamesDurable, Bootable, Complete, Durable
      <3> QED BY <3>4, <3>5 DEF DiskOK
    <2>2. ASSUME NEW a \in Attempts, BeginFails(a)
          PROVE  DiskOK(b)'
      <3>1. pc'[a] = "failed" /\ \A c \in Attempts : c # a => pc'[c] = pc[c]
        BY <1>1, <2>2 DEF Typed, BeginFails, Goes
      <3>2. pc[b] \notin Active
        BY <1>1, <2>2 DEF OneAttempt, BeginFails, MayBegin
      <3> QED BY <1>3, <3>1, <3>2 DEF Active, InSync, Awaiting
    <2>3. ASSUME NEW a \in Attempts, Steps(a)
          PROVE  DiskOK(b)'
      <3>1. PICK place \in (InSync \cup Awaiting \cup Ended) \ {"killed"} : Goes(a, place)
        BY <2>3, StepsMove
      <3>2. b # a => pc'[b] = pc[b] /\ pc[b] \notin Active
        BY <1>1, <2>3, <3>1, StepsMove, Alone DEF Typed, Goes
      <3>3. b = a
        BY <1>3, <3>2
      <3> QED BY <2>3, <3>3, OwnDisk
    <2>4. ASSUME NEW power \in BOOLEAN, Dies(power)
          PROVE  DiskOK(b)'
      <3>1. pc'[b] \notin Active
        BY <2>4 DEF Dies, Active, InSync, Awaiting
      <3> QED BY <1>3, <3>1
    <2>5. CASE Restart
      <3>1. pc[b] \in Active /\ ~alive
        BY <1>3, <2>5 DEF Restart
      <3> QED BY <1>1, <3>1 DEF OneAttempt
    <2>6. CASE UNCHANGED appImageVars
      BY <1>1, <2>6 DEF DiskOK, Existed, appImageVars, process
    <2> QED BY <2>1, <2>2, <2>3, <2>4, <2>5, <2>6 DEF AppImageNext
  <1> QED BY <1>2, <1>3

-----------------------------------------------------------------------------
(* The inductive invariant.                                                 *)

\* The first state satisfies the invariant,
LEMMA InitIInv == AppImageInit => DiskInv
  <1> SUFFICES ASSUME AppImageInit PROVE DiskInv
    OBVIOUS
  <1>1. Written("old", "durable") \in File /\ Written("old", "durable").data = "durable"
    BY WrittenFacts
  <1>2. Absent \in File
    BY DEF File
  <1>3. Typed
    BY <1>1, <1>2 DEF AppImageInit, Typed, Places
  <1>4. StagedOK /\ OneAttempt
    BY DEF AppImageInit, StagedOK, OneAttempt, Active, InSync, Awaiting
  <1>5. NamesDurable
    BY <1>1 DEF AppImageInit, NamesDurable
  <1>6. Bootable
    BY <1>1 DEF AppImageInit, Bootable, Complete
  <1>7. \A a \in Attempts : DiskOK(a)
    BY DEF AppImageInit, DiskOK, Untouched
  <1> QED BY <1>3, <1>4, <1>5, <1>6, <1>7 DEF DiskInv

\* and every step keeps it.
LEMMA StepIInv == DiskInv /\ [AppImageNext]_appImageVars => DiskInv'
  <1> SUFFICES ASSUME DiskInv, [AppImageNext]_appImageVars PROVE DiskInv'
    OBVIOUS
  <1>1. Typed'
    BY TypedStep DEF DiskInv
  <1>2. StagedOK' /\ OneAttempt'
    BY StagedStep, OneStep
  <1>3. NamesDurable' /\ Bootable'
    BY FilesStep
  <1>4. (\A b \in Attempts : DiskOK(b))'
    BY DiskStep
  <1> QED BY <1>1, <1>2, <1>3, <1>4 DEF DiskInv

\* The inductive invariant holds: one attempt at a time, only synced files under
\* the names, and the disk at every place of an attempt as the code assumes it.
THEOREM DiskInvariance == AppImageSpec => []DiskInv
  BY InitIInv, StepIInv, PTL DEF AppImageSpec

\* The types, and a staging directory that no ended attempt leaves behind.
THEOREM TypeCorrect == AppImageSpec => []AppImageTypeOK
  <1>1. DiskInv => AppImageTypeOK
    BY DEF DiskInv, Typed, StagedOK, AppImageTypeOK, Places, Untouched
  <1> QED BY <1>1, DiskInvariance, PTL

\* Whatever call fails, whenever the process is killed or power is lost, and
\* whatever names are involved, a whole AppImage is there to be started.
THEOREM BootableHolds == AppImageSpec => []Bootable
  <1>1. DiskInv => Bootable
    BY DEF DiskInv
  <1> QED BY <1>1, DiskInvariance, PTL

\* The call is refused only while an attempt is under way or after one that
\* ended the process: a failed one can be retried.
THEOREM RetryAllowedHolds == AppImageSpec => []RetryAllowed
  <1>1. DiskInv => RetryAllowed
    BY DEF DiskInv, OneAttempt, RetryAllowed, Active, InSync, Awaiting
  <1> QED BY <1>1, DiskInvariance, PTL

\* What an attempt does when it fails: the directory is as it was.
LEMMA StepRestores ==
    ASSUME DiskInv, [AppImageNext]_appImageVars, NEW b \in Attempts, pc[b] # "failed", pc'[b] = "failed"
    PROVE  files' = before'[b]
  <1>1. Typed /\ DiskOK(b)
    BY DEF DiskInv
  <1>2. ASSUME NEW a \in Attempts, NEW place \in Places, Goes(a, place)
        PROVE  a = b /\ place = "failed"
    BY <1>1, <1>2, Moves
  <1>3. ASSUME NEW a \in Attempts, BeginFails(a)
        PROVE  files' = before'[b]
    BY <1>1, <1>2, <1>3 DEF BeginFails, Typed, Places, Ended
  <1>4. ASSUME NEW a \in Attempts, PrepareFails(a)
        PROVE  files' = before'[b]
    <2>1. a = b
      BY <1>2, <1>4 DEF PrepareFails, Places, Ended
    <2> QED BY <1>1, <1>4, <2>1 DEF PrepareFails, DiskOK, Reaches, Untouched
  <1>5. ASSUME NEW a \in Attempts, NewLaunchFails(a)
        PROVE  files' = before'[b]
    <2>1. a = b
      BY <1>2, <1>5 DEF NewLaunchFails, RolledBack, RollbackFails, Places, Ended
    <2>2. RolledBack(a)
      BY <1>2, <1>5 DEF NewLaunchFails, RollbackFails, Places, Ended
    <2>3. files' = before[a] /\ UNCHANGED before
      BY <1>1, <1>5, <2>1, <2>2 DEF RolledBack, NewLaunchFails, DiskOK, Reaches, Existed, Typed
    <2> QED BY <2>1, <2>3
  <1>6. ASSUME NEW a \in Attempts,
               \/ Begin(a) \/ CopyStaged(a) \/ SyncStaged(a) \/ CopyBackup(a) \/ SyncBackup(a)
               \/ Replace(a) \/ Launch(a) \/ Commit(a) \/ CleanUp(a) \/ QuitApp(a)
        PROVE  FALSE
    <2>1. \E place \in Places \ {"failed"} : Goes(a, place)
      BY <1>6 DEF Begin, CopyStaged, SyncStaged, CopyBackup, SyncBackup, Replace, Launch,
         Commit,
                  CleanUp, QuitApp, Places, InSync, Awaiting, Ended
    <2> QED BY <1>2, <2>1
  <1>7. ASSUME NEW power \in BOOLEAN, Dies(power)
        PROVE  FALSE
    BY <1>7 DEF Dies
  <1>8. CASE Restart \/ UNCHANGED appImageVars
    BY <1>8 DEF Restart, appImageVars
  <1> QED BY <1>3, <1>4, <1>5, <1>6, <1>7, <1>8 DEF AppImageNext, Steps, Prepare, Settle

\* An attempt that fails and rolls back leaves the directory as it found it.
THEOREM FailureRestoresHolds == AppImageSpec => FailureRestores
  <1>1. DiskInv /\ [AppImageNext]_appImageVars =>
          [\A a \in Attempts : pc[a] # "failed" /\ pc'[a] = "failed" => files' = before'[a]]_appImageVars
    BY StepRestores
  <1> QED BY <1>1, DiskInvariance, PTL DEF AppImageSpec, FailureRestores

-----------------------------------------------------------------------------
(* The prior version.                                                       *)

\* An image in full, and synced.
Holds(file, image) == Durable(file) /\ file.image = image

\* The old version is there under a name, or as the copy of an attempt that has
\* replaced it: one that waits for the launch, was cut off, or could not roll back.
OldThere ==
    \/ \E n \in Names : Holds(files[n], "old")
    \/ \E a \in Attempts : pc[a] \in {"launching", "dirty", "killed"} /\ Holds(backup[a], "old")

\* The new version is there under a name.
NewThere == \E n \in Names : Holds(files[n], "new")

\* A copy exists only of what was there; and what an attempt began with, and installs,
\* keeps the new version once one was launched.
PriorIs(a) ==
    /\ pc[a] = "new" => backup[a] = Absent
    /\ pc[a] \in Untouched \cup {"launching"} =>
         /\ ~Existed(a) => backup[a] = Absent
         /\ launched # {} => \E n \in Names : Holds(before[a][n], "new")
    /\ pc[a] = "committing" => Holds(files[dest[a]], "new")
    /\ pc[a] \in {"committing", "cleaning"} => launched # {}

\* The old version, until a new one was launched; then the new one.
Kept ==
    /\ launched = {} => OldThere
    /\ launched # {} => NewThere

\* A step of an attempt leaves the copies of the others.
LEMMA OthersCopies ==
    ASSUME Typed, NEW a \in Attempts, NEW b \in Attempts, b # a,
           Begin(a) \/ BeginFails(a) \/ Steps(a)
    PROVE  backup'[b] = backup[b]
  <1> USE DEF Typed
  <1>1. CASE Begin(a) \/ BeginFails(a) \/ CopyStaged(a) \/ Replace(a) \/ Launch(a) \/ Commit(a)
    BY <1>1 DEF Begin, BeginFails, CopyStaged, Replace, Launch, Commit
  <1>2. CASE SyncStaged(a) \/ CopyBackup(a) \/ SyncBackup(a) \/ PrepareFails(a) \/ CleanUp(a)
    BY <1>2 DEF SyncStaged, CopyBackup, SyncBackup, PrepareFails, CleanUp
  <1>3. CASE NewLaunchFails(a) \/ QuitApp(a)
    BY <1>3 DEF NewLaunchFails, RolledBack, RollbackFails, QuitApp
  <1> QED BY <1>1, <1>2, <1>3 DEF Steps, Prepare, Settle

\* A step of an attempt keeps what is said of its copy and of what it began with.
LEMMA OwnPrior ==
    ASSUME DiskInv, NEW a \in Attempts, Steps(a), PriorIs(a)
    PROVE  PriorIs(a)'
  <1> USE DEF Reaches, Untouched
  <1>1. Typed /\ DiskOK(a)
    BY DEF DiskInv
  <1>2. CASE CopyStaged(a) \/ SyncStaged(a) \/ CopyBackup(a) \/ SyncBackup(a)
    <2>1. /\ pc[a] \in {"copying", "copied", "backing", "backed"}
          /\ pc'[a] \in {"copied", "backing", "backed", "ready"}
          /\ UNCHANGED <<before, dest, launched>>
      BY <1>1, <1>2 DEF CopyStaged, SyncStaged, CopyBackup, SyncBackup, Goes, Typed
    <2>2. ~Existed(a) => backup'[a] = Absent
      BY <1>1, <1>2, <2>1
         DEF CopyStaged, SyncStaged, CopyBackup, SyncBackup, PriorIs, DiskOK, Typed
    <2> QED BY <2>1, <2>2 DEF PriorIs, Existed
  <1>3. CASE Replace(a)
    <2>1. pc[a] = "ready" /\ pc'[a] = "launching" /\ UNCHANGED <<before, dest, launched, backup>>
      BY <1>1, <1>3 DEF Replace, Goes, Typed
    <2> QED BY <2>1 DEF PriorIs, Existed
  <1>4. CASE Launch(a)
    <2>1. pc[a] = "launching" /\ pc'[a] = "committing" /\ launched' # {} /\ UNCHANGED <<files, dest>>
      BY <1>1, <1>4 DEF Launch, Goes, Typed
    <2>2. files[dest[a]] = Written("new", "durable")
      BY <1>1, <2>1 DEF DiskOK, Typed
    <2>3. Holds(files[dest[a]], "new")
      BY <2>2, WrittenFacts, AppImageConstants DEF Holds, Durable
    <2> QED BY <2>1, <2>3 DEF PriorIs
  <1>5. CASE Commit(a)
    <2>1. pc[a] = "committing" /\ pc'[a] = "cleaning" /\ UNCHANGED launched
      BY <1>1, <1>5 DEF Commit, Goes, Typed
    <2> QED BY <2>1 DEF PriorIs
  <1>6. CASE PrepareFails(a) \/ NewLaunchFails(a) \/ CleanUp(a) \/ QuitApp(a)
    <2>1. pc'[a] \in {"failed", "dirty", "clearing", "quit"}
      BY <1>1, <1>6
         DEF PrepareFails, NewLaunchFails, RolledBack, RollbackFails, CleanUp, QuitApp, Goes,
             Typed
    <2> QED BY <2>1 DEF PriorIs
  <1> QED BY <1>2, <1>3, <1>4, <1>5, <1>6 DEF Steps, Prepare, Settle

\* Every step keeps it of every attempt.
LEMMA PriorStep ==
    ASSUME DiskInv, Kept, [AppImageNext]_appImageVars, NEW b \in Attempts, PriorIs(b)
    PROVE  PriorIs(b)'
  <1>1. Typed /\ OneAttempt /\ NamesDurable
    BY DEF DiskInv
  <1>2. ASSUME NEW a \in Attempts, Begin(a)
        PROVE  PriorIs(b)'
    <2>1. CASE b = a
      <3>1. /\ pc[b] = "new" /\ pc'[b] = "copying" /\ before'[b] = files
            /\ UNCHANGED <<files, backup, launched>>
        BY <1>1, <1>2, <2>1 DEF Begin, Goes, Typed
      <3> QED BY <3>1 DEF PriorIs, Kept, NewThere
    <2>2. CASE b # a
      <3>1. pc'[b] = pc[b] /\ UNCHANGED <<backup, launched, files>> /\ pc[b] \notin Active
        BY <1>1, <1>2, <2>2 DEF Begin, Goes, Typed, OneAttempt, MayBegin
      <3> QED BY <3>1 DEF PriorIs, Active, InSync, Awaiting, Untouched
    <2> QED BY <2>1, <2>2
  <1>3. ASSUME NEW a \in Attempts, BeginFails(a)
        PROVE  PriorIs(b)'
    <2>1. /\ pc'[b] = pc[b] \/ pc'[b] = "failed"
          /\ pc[b] \notin Active /\ UNCHANGED backup
      BY <1>1, <1>3 DEF BeginFails, Goes, Typed, OneAttempt, MayBegin
    <2> QED BY <2>1 DEF PriorIs, Active, InSync, Awaiting, Untouched
  <1>4. ASSUME NEW a \in Attempts, Steps(a)
        PROVE  PriorIs(b)'
    <2>1. CASE b = a
      BY <1>4, <2>1, OwnPrior
    <2>2. CASE b # a
      <3>1. PICK place \in (InSync \cup Awaiting \cup Ended) \ {"killed"} : Goes(a, place)
        BY <1>4, StepsMove
      <3>2. pc'[b] = pc[b] /\ pc[b] \notin Active
        BY <1>1, <1>4, <2>2, <3>1, StepsMove, Alone DEF Typed, Goes
      <3>3. backup'[b] = backup[b]
        BY <1>1, <1>4, <2>2, OthersCopies
      <3> QED BY <3>2, <3>3 DEF PriorIs, Active, InSync, Awaiting, Untouched
    <2> QED BY <2>1, <2>2
  <1>5. ASSUME NEW power \in BOOLEAN, Dies(power)
        PROVE  PriorIs(b)'
    <2>1. /\ pc'[b] = IF pc[b] \in Active THEN "killed" ELSE pc[b]
          /\ backup'[b] = Left(backup[b], power) /\ backup[b] \in File
      BY <1>1, <1>5 DEF Dies, Active, Typed
    <2>2. backup[b] = Absent => backup'[b] = Absent
      BY <2>1, LeftFacts
    <2> QED BY <2>1, <2>2 DEF PriorIs, Active, InSync, Awaiting, Untouched
  <1>6. CASE Restart \/ UNCHANGED appImageVars
    BY <1>6 DEF Restart, appImageVars, PriorIs, Existed
  <1> QED BY <1>2, <1>3, <1>4, <1>5, <1>6 DEF AppImageNext

\* A step that leaves the files and the copies that count leaves the versions.
LEMMA SameVersions ==
    ASSUME Kept, UNCHANGED <<files, launched>>,
           \A a \in Attempts : pc[a] \in {"launching", "dirty", "killed"} =>
             pc'[a] \in {"launching", "dirty", "killed"}
             /\ (Holds(backup[a], "old") => Holds(backup'[a], "old"))
    PROVE  Kept'
  <1>1. NewThere => NewThere'
    BY DEF NewThere
  <1>2. OldThere => OldThere'
    <2>1. CASE \E n \in Names : Holds(files[n], "old")
      BY <2>1 DEF OldThere
    <2>2. ASSUME NEW a \in Attempts, pc[a] \in {"launching", "dirty", "killed"},
                 Holds(backup[a], "old")
          PROVE  OldThere'
      BY <2>2 DEF OldThere, Holds, Durable
    <2> QED BY <2>1, <2>2 DEF OldThere
  <1> QED BY <1>1, <1>2 DEF Kept

\* The new version takes the place of the old one, which the copy keeps.
LEMMA ReplaceKeeps ==
    ASSUME DiskInv, Kept, NEW a \in Attempts, PriorIs(a), Replace(a)
    PROVE  Kept'
  <1>1. Typed /\ DiskOK(a) /\ pc[a] = "ready" /\ dest[a] \in Names
    BY DEF DiskInv, Replace, Reaches, Typed
  <1>2. /\ files' = [files EXCEPT ![dest[a]] = Written("new", "durable")]
        /\ pc' = [pc EXCEPT ![a] = "launching"] /\ UNCHANGED <<launched, backup>>
    BY <1>1 DEF Replace, DiskOK, Goes
  <1>3. Holds(Written("new", "durable"), "new")
    BY WrittenFacts, AppImageConstants DEF Holds, Durable
  <1>4. NewThere'
    BY <1>1, <1>2, <1>3 DEF NewThere, Holds, Durable, Typed
  <1>5. ASSUME OldThere PROVE OldThere'
    <2>1. ASSUME NEW n \in Names, Holds(files[n], "old"), n # dest[a]
          PROVE  OldThere'
      <3>1. files'[n] = files[n]
        BY <1>1, <1>2, <2>1 DEF Typed
      <3> QED BY <2>1, <3>1 DEF OldThere, Holds, Durable
    <2>2. ASSUME Holds(files[dest[a]], "old")
          PROVE  OldThere'
      <3>1. backup[a] = files[dest[a]]
        BY <1>1, <2>2 DEF DiskOK, Existed, Untouched, Holds, Durable
      <3>2. Holds(backup'[a], "old") /\ pc'[a] = "launching"
        BY <1>1, <1>2, <2>2, <3>1 DEF Typed, Holds, Durable
      <3> QED BY <3>2 DEF OldThere, Holds, Durable
    <2>3. ASSUME NEW b \in Attempts, pc[b] \in {"launching", "dirty", "killed"},
                 Holds(backup[b], "old")
          PROVE  OldThere'
      <3>1. b # a
        BY <1>1, <2>3
      <3>2. pc'[b] = pc[b] /\ Holds(backup'[b], "old")
        BY <1>1, <1>2, <2>3, <3>1 DEF Typed, Holds, Durable
      <3> QED BY <2>3, <3>2 DEF OldThere, Holds, Durable
    <2> QED BY <1>5, <2>1, <2>2, <2>3 DEF OldThere
  <1> QED BY <1>2, <1>4, <1>5 DEF Kept

\* A rollback brings back what was there.
LEMMA RollbackKeeps ==
    ASSUME DiskInv, Kept, NEW a \in Attempts, PriorIs(a), NewLaunchFails(a), RolledBack(a)
    PROVE  Kept'
  <1>1. Typed /\ DiskOK(a) /\ pc[a] = "launching" /\ dest[a] \in Names
    BY DEF DiskInv, NewLaunchFails, Reaches, Typed
  <1>2. /\ files = [before[a] EXCEPT ![dest[a]] = Written("new", "durable")]
        /\ before[a] \in [Names -> File]
    BY <1>1 DEF DiskOK, Typed
  <1>3. /\ files' = before[a] /\ pc' = [pc EXCEPT ![a] = "failed"]
        /\ backup' = [backup EXCEPT ![a] = Absent] /\ launched' = launched
    BY <1>1, <1>2 DEF RolledBack, NewLaunchFails, DiskOK, Existed, Typed, Goes
  <1>4. launched # {} => NewThere'
    BY <1>1, <1>3 DEF PriorIs, NewThere, Untouched, Holds, Durable
  <1>5. ASSUME OldThere PROVE OldThere'
    <2>1. ASSUME NEW n \in Names, Holds(files[n], "old")
          PROVE  OldThere'
      <3>1. n # dest[a]
        BY <1>1, <1>2, <2>1, WrittenFacts DEF Holds
      <3>2. files'[n] = files[n]
        BY <1>2, <1>3, <3>1
      <3> QED BY <2>1, <3>2 DEF OldThere, Holds, Durable
    <2>2. ASSUME Holds(backup[a], "old")
          PROVE  OldThere'
      <3>1. backup[a] = before[a][dest[a]]
        BY <1>1, <2>2 DEF DiskOK, PriorIs, Untouched, Holds, Durable
      <3>2. Holds(files'[dest[a]], "old")
        BY <1>3, <2>2, <3>1 DEF Holds, Durable
      <3> QED BY <1>1, <3>2 DEF OldThere, Holds, Durable
    <2>3. ASSUME NEW b \in Attempts, b # a, pc[b] \in {"launching", "dirty", "killed"},
                 Holds(backup[b], "old")
          PROVE  OldThere'
      <3>1. pc'[b] = pc[b] /\ Holds(backup'[b], "old")
        BY <1>1, <1>3, <2>3 DEF Typed, Holds, Durable
      <3> QED BY <2>3, <3>1 DEF OldThere, Holds, Durable
    <2> QED BY <1>5, <2>1, <2>2, <2>3 DEF OldThere
  <1> QED BY <1>3, <1>4, <1>5 DEF Kept

\* Every step keeps the old version until the new one was launched, and then that.
LEMMA KeptStep ==
    ASSUME DiskInv, Kept, \A a \in Attempts : PriorIs(a), [AppImageNext]_appImageVars
    PROVE  Kept'
  <1>1. Typed /\ NamesDurable /\ \A a \in Attempts : DiskOK(a)
    BY DEF DiskInv
  <1>2. ASSUME NEW a \in Attempts,
               \/ Begin(a) \/ BeginFails(a) \/ CopyStaged(a) \/ SyncStaged(a) \/ CopyBackup(a)
               \/ SyncBackup(a) \/ PrepareFails(a)
        PROVE  Kept'
    <2>1. UNCHANGED <<files, launched>> /\ pc[a] \notin {"launching", "dirty", "killed"}
      BY <1>2 DEF Begin, BeginFails, CopyStaged, SyncStaged, CopyBackup, SyncBackup,
         PrepareFails, Reaches
    <2>2. \E place \in Places : Goes(a, place)
      BY <1>2 DEF Begin, BeginFails, CopyStaged, SyncStaged, CopyBackup, SyncBackup,
         PrepareFails,
         Places, InSync, Ended
    <2>3. \A b \in Attempts : b # a => pc'[b] = pc[b]
      BY <1>1, <2>2, Moves
    <2>4. \A b \in Attempts : b # a => backup'[b] = backup[b]
      BY <1>1, <1>2, OthersCopies DEF Steps, Prepare
    <2> QED BY <2>1, <2>3, <2>4, SameVersions
  <1>3. ASSUME NEW a \in Attempts, Replace(a)
        PROVE  Kept'
    BY <1>3, ReplaceKeeps
  <1>4. ASSUME NEW a \in Attempts, NewLaunchFails(a)
        PROVE  Kept'
    <2>1. CASE RolledBack(a)
      BY <1>4, <2>1, RollbackKeeps
    <2>2. CASE RollbackFails(a)
      <3>1. UNCHANGED <<files, launched, backup>> /\ pc' = [pc EXCEPT ![a] = "dirty"]
        BY <1>4, <2>2 DEF NewLaunchFails, RollbackFails, Goes
      <3> QED BY <1>1, <3>1, SameVersions DEF Typed
    <2> QED BY <1>4, <2>1, <2>2 DEF NewLaunchFails
  <1>5. ASSUME NEW a \in Attempts, Launch(a)
        PROVE  Kept'
    <2>1. PriorIs(a)' /\ pc'[a] = "committing" /\ launched' # {} /\ dest'[a] \in Names
      BY <1>1, <1>5, OwnPrior DEF Steps, Settle, Launch, Goes, Typed
    <2>2. NewThere'
      BY <2>1 DEF PriorIs, NewThere
    <2> QED BY <2>1, <2>2 DEF Kept
  <1>6. ASSUME NEW a \in Attempts, Commit(a)
        PROVE  Kept'
    <2>1. /\ pc[a] = "committing" /\ Holds(files[dest[a]], "new") /\ launched # {}
          /\ UNCHANGED launched /\ dest[a] \in Names
      BY <1>1, <1>6 DEF Commit, Reaches, PriorIs, Typed
    <2>2. files'[dest[a]] = files[dest[a]]
      BY <1>1, <1>6 DEF Commit, Typed
    <2> QED BY <2>1, <2>2 DEF Kept, NewThere, Holds, Durable
  <1>7. ASSUME NEW a \in Attempts, CleanUp(a) \/ QuitApp(a)
        PROVE  Kept'
    <2>1. UNCHANGED <<files, launched>> /\ pc[a] \in {"cleaning", "clearing"}
      BY <1>7 DEF CleanUp, QuitApp, Reaches
    <2>2. \E place \in Places : Goes(a, place)
      BY <1>7 DEF CleanUp, QuitApp, Places, Awaiting, Ended
    <2>3. \A b \in Attempts : b # a => pc'[b] = pc[b]
      BY <1>1, <2>2, Moves
    <2>4. \A b \in Attempts : b # a => backup'[b] = backup[b]
      BY <1>1, <1>7, OthersCopies DEF Steps, Settle
    <2> QED BY <2>1, <2>3, <2>4, SameVersions
  <1>8. ASSUME NEW power \in BOOLEAN, Dies(power)
        PROVE  Kept'
    <2>1. \A n \in Names : Left(files[n], power) = files[n]
      BY <1>1 DEF NamesDurable, Left
    <2>2. UNCHANGED <<files, launched>>
      BY <1>1, <1>8, <2>1 DEF Dies, Typed
    <2>3. \A b \in Attempts : /\ backup[b] \in File /\ backup'[b] = Left(backup[b], power)
                              /\ pc'[b] = IF pc[b] \in InSync \cup Awaiting THEN "killed" ELSE pc[b]
      BY <1>1, <1>8 DEF Dies, Typed
    <2>4. \A b \in Attempts : Holds(backup[b], "old") => backup'[b] = backup[b]
      BY <2>3, LeftFacts DEF Holds, Durable
    <2> QED BY <2>2, <2>3, <2>4, SameVersions
  <1>9. CASE Restart \/ UNCHANGED appImageVars
    <2>1. UNCHANGED <<files, launched, pc, backup>>
      BY <1>9 DEF Restart, appImageVars
    <2> QED BY <2>1, SameVersions
  <1> QED BY <1>2, <1>3, <1>4, <1>5, <1>6, <1>7, <1>8, <1>9 DEF AppImageNext, Steps, Prepare, Settle

\* Until a new version has been launched the old one is not lost, not even where the
\* rollback fails or the machine stops; afterwards the new one is there.
THEOREM PriorKeptHolds == AppImageSpec => []PriorKept
  <1> DEFINE Prior == Kept /\ \A a \in Attempts : PriorIs(a)
  <1>1. AppImageInit => Prior
    <2> SUFFICES ASSUME AppImageInit PROVE Prior
      OBVIOUS
    <2>1. launched = {} /\ \A a \in Attempts : pc[a] = "new" /\ backup[a] = Absent
      BY DEF AppImageInit
    <2>2. PICK n \in Names : files[n] # Absent
      BY DEF AppImageInit
    <2>3. files[n] = Written("old", "durable")
      BY <2>2 DEF AppImageInit
    <2>4. Holds(files[n], "old")
      BY <2>2, <2>3, WrittenFacts DEF Holds, Durable
    <2> QED BY <2>1, <2>4 DEF Kept, OldThere, PriorIs, Untouched
  <1>2. DiskInv /\ Prior /\ [AppImageNext]_appImageVars => Prior'
    BY PriorStep, KeptStep
  <1>3. Prior => PriorKept
    BY DEF Kept, OldThere, NewThere, Holds, Durable, PriorKept, Present, NewInstalled,
       Complete
  <1> HIDE DEF Prior
  <1> QED BY <1>1, <1>2, <1>3, DiskInvariance, PTL DEF AppImageSpec
==============================================================================
