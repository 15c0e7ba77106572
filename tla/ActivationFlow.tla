---------------------------- MODULE ActivationFlow ----------------------------
(***************************************************************************)
(* What main.js may rely on about one activation controller                 *)
(* (src/src/pro-activation.js): one operation and one flow at a time, one    *)
(* settlement per flow, and after shutdown() was asked for nothing but the   *)
(* end of what is under way; once it answered, nothing at all.              *)
(* ProActivation.tla implements these steps and ProActions.tla uses them.    *)
(***************************************************************************)
VARIABLES asked,    \* start() or resume() has not answered
          flow,     \* none, open, key or failed: the result of the last flow
          retired   \* shutdown(): no, asked or done

flowVars == <<asked, flow, retired>>

FlowTypeOK ==
    /\ asked \in BOOLEAN
    /\ flow \in {"none", "open", "key", "failed"}
    /\ retired \in {"no", "asked", "done"}

FlowInit == asked = FALSE /\ flow = "none" /\ retired = "no"

Ask ==
    /\ ~asked /\ retired = "no"
    /\ asked' = TRUE
    /\ flow' = IF flow = "open" THEN flow ELSE "none"
    /\ UNCHANGED retired

\* A listener is there before the operation answers.
Listen ==
    /\ asked /\ flow # "open" /\ retired = "no"
    /\ flow' = "open"
    /\ UNCHANGED <<asked, retired>>

Answer ==
    /\ asked
    /\ asked' = FALSE
    /\ UNCHANGED <<flow, retired>>

\* The result resolves to the license key.
Deliver ==
    /\ flow = "open" /\ retired = "no"
    /\ flow' = "key"
    /\ UNCHANGED <<asked, retired>>

Fail ==
    /\ flow = "open"
    /\ flow' = "failed"
    /\ UNCHANGED <<asked, retired>>

Shutdown ==
    /\ retired = "no"
    /\ retired' = "asked"
    /\ UNCHANGED <<asked, flow>>

Down ==
    /\ retired = "asked" /\ ~asked /\ flow # "open"
    /\ retired' = "done"
    /\ UNCHANGED <<asked, flow>>

\* A new process, with a new controller.
Renew == asked' = FALSE /\ flow' = "none" /\ retired' = "no"

FlowNext == Renew \/ Ask \/ Listen \/ Answer \/ Deliver \/ Fail \/ Shutdown \/ Down

FlowSpec == FlowInit /\ [][FlowNext]_flowVars
==============================================================================
