---------------------------- MODULE DaemonStartup ----------------------------
(***************************************************************************)
(* A daemon that starts, with what it prints: Daemon.tla and DaemonOutput   *)
(* together.  The "data" listener of Daemon.start() finds the startup URL   *)
(* in the text it also redacts, while the deadline, the handoff, the exit   *)
(* and the "close" of the child race with it.                               *)
(*                                                                          *)
(* The text is followed until start() settles; of what is printed later the *)
(* model knows nothing.                                                     *)
(***************************************************************************)
EXTENDS Daemon, DaemonOutput

StartupInit == Init /\ StreamInit

\* Text comes while the child lives and after, until its pipes end; from the
\* Windows wrapper comes its ready line first.
Prints(text) ==
    /\ phase = "waiting" /\ child = "running" /\ event # "close" /\ ~Reacting
    /\ Windows => wrapped
    /\ Data(text, url # "pending")
    /\ IF found' # found THEN UrlSeen ELSE UNCHANGED vars

\* "end": nobody holds the pipe any more.
PipeEnds ==
    /\ phase = "waiting" /\ tree = "gone" /\ ~Reacting
    /\ End
    /\ UNCHANGED vars

\* "close" flushes what the streams still hold.
Closes ==
    /\ CloseEvent
    /\ IF phase = "waiting" /\ ~ended THEN End ELSE UNCHANGED streamVars

\* start() has settled: the text is not followed any further.
Settles ==
    /\ StartResolves \/ StartFails
    /\ heard' = <<>> /\ pending' = <<>> /\ dropping' = FALSE /\ ended' = FALSE
    /\ said' = <<>> /\ kept' = <<>> /\ tail' = <<>> /\ found' = None

\* What has nothing to do with the text.
Others ==
    \/ Start \/ Spawn \/ WrapperReady \/ UrlFails \/ HandoffSettles \/ StartRejects
    \/ Stop \/ RootDies \/ OrphansDie \/ ExitEvent
    \/ \E c \in Causes : CleanupSettles(c)

StartupNext ==
    \/ \E n \in 1..(MaxHeard - Len(heard)) : \E text \in [1..n -> Symbols] : Prints(text)
    \/ PipeEnds \/ Closes \/ Settles
    \/ Others /\ UNCHANGED streamVars

StartupSpec ==
    StartupInit /\ [][StartupNext]_<<vars, streamVars>> /\ Fairness

-----------------------------------------------------------------------------
\* The startup URL that ends the wait is one the daemon printed, whole, however
\* it was cut; and one is missed, until the deadline or the end of the child
\* settles the matter, only when more text than the tail holds came with it (the
\* "data" listener of stdout, findStartupUrl()).
UrlIsFound ==
    phase = "waiting" =>
        /\ url = "seen" <=> found # None
        /\ found # None => \E u \in Urls(heard) : found = UrlOf(heard, u)
        /\ url = "pending" => \A u \in Urls(heard) : Len(heard) - u[1] + 1 > TailChars
==============================================================================
