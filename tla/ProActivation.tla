----------------------------- MODULE ProActivation -----------------------------
(***************************************************************************)
(* src/src/pro-activation.js: the activation controller.  start() binds a   *)
(* loopback listener, stores the flow and opens the browser; resume() binds  *)
(* the stored flow's port again; the callback exchanges its code for a key;  *)
(* a timer, a listener error, expiry or shutdown() ends the flow instead.    *)
(*                                                                          *)
(* One action runs from one await to the next; a call of the store takes     *)
(* effect when it settles.  A session that is over is inert, so only the     *)
(* last one is kept.  The process may be killed at any time.                *)
(***************************************************************************)
EXTENDS Naturals

CONSTANTS MaxFlows,   \* bound: flows created
          Lifetime,   \* MAX_PENDING_LIFETIME_MS, in ticks
          MaxClock    \* bound: the wall clock

ASSUME ProActivationConstants ==
    Lifetime \in Nat \ {0} /\ MaxFlows \in Nat /\ MaxClock \in Nat

Times == 0..MaxClock
NoFlow == [id |-> 0, created |-> 0]
Flow == [id : 1..MaxFlows, created : Times] \cup {NoFlow}
Keys == {"none", "old", "new"}
Envelope == [key : Keys, pending : Flow]
Nothing == [key |-> "none", pending |-> NoFlow]

Codes == {"store", "listener", "browser", "timeout", "expired", "shutdown"}

VARIABLES
    clock,
    store,      \* what the encrypted store holds
    flows,      \* flows created
    closed,
    op,         \* the serialized start() or resume(), and what it loaded
    clearing,   \* clearExactPending(): its place, its flow, what it loaded
    session,
    shut        \* shutdown(): no, asked or done

vars == <<clock, store, flows, closed, op, clearing, session, shut>>

OpPlaces == {"idle", "called", "load", "clear", "bind", "unbind", "save", "readback",
             "opening", "ending"}
Op == [pc : OpPlaces, kind : {"start", "resume"}, current : Envelope]
NoOp == [pc |-> "idle", kind |-> "start", current |-> Nothing]

Clearing == [pc : {"idle", "load", "write", "verify", "done", "failed"},
             flow : Flow, seen : Envelope]
NotClearing == [pc |-> "idle", flow |-> NoFlow, seen |-> Nothing]

\* listen: the server's socket.  exchange: the authorized request, then what it
\* returned to handleCallback.  end: how far terminate() has come.
Session == [active : BOOLEAN, binding : BOOLEAN, ended : BOOLEAN, pending : Flow,
            listen : {"none", "waiting", "open", "failed", "closing", "closed"},
            timer : {"off", "armed"},
            exchange : {"none", "running", "key", "nothing"},
            end : {"none", "closing", "clearing", "done"},
            code : Codes \cup {"none"}, clears : BOOLEAN,
            result : Codes \cup {"none", "open", "key"}]
NoSession == [active |-> FALSE, binding |-> FALSE, ended |-> FALSE, pending |-> NoFlow,
              listen |-> "none", timer |-> "off", exchange |-> "none", end |-> "none",
              code |-> "none", clears |-> FALSE, result |-> "none"]

Expired(flow) == flow.created + Lifetime <= clock
Live == session.active /\ ~session.ended

Init ==
    /\ clock \in Times
    /\ store \in [key : {"none", "old"}, pending : {NoFlow}]
    /\ flows = 0
    /\ closed = FALSE
    /\ op = NoOp
    /\ clearing = NotClearing
    /\ session = NoSession
    /\ shut = "no"

-----------------------------------------------------------------------------
(* The end of a session.                                                    *)

\* stopAccepting() and server.close(): a server that listens closes later.
CloseListener(listen) ==
    CASE listen = "open" -> "closing" [] listen = "waiting" -> "closed" [] OTHER -> listen

\* terminate(), called for the active session.  A second call waits for the first.
Terminate(code, clears) ==
    session' = IF session.end # "none" THEN session
               ELSE [session EXCEPT !.ended = TRUE, !.end = "closing", !.code = code,
                                    !.clears = clears, !.timer = "off",
                                    !.listen = CloseListener(@)]

ServerCloses ==
    /\ session.listen = "closing"
    /\ session' = [session EXCEPT !.listen = "closed"]
    /\ UNCHANGED <<clock, store, flows, closed, op, clearing, shut>>

Finish(code) ==
    session' = [session EXCEPT !.end = "done", !.active = FALSE, !.code = code, !.result = code]

\* Mutant: terminate() does not wait for the exchange it cancelled.
ClosedWithoutExchange ==
    /\ session.end = "closing" /\ session.listen \notin {"open", "closing", "waiting"}
    /\ Finish(session.code) /\ UNCHANGED clearing
    /\ UNCHANGED <<clock, store, flows, closed, op, shut>>

\* forceClose() settled: the server is closed and the exchange has ended.
ForceClosed ==
    /\ session.end = "closing"
    /\ session.listen \in {"closed", "failed"}
    /\ session.exchange # "running"
    /\ IF session.clears /\ session.pending # NoFlow
       THEN /\ session' = [session EXCEPT !.end = "clearing"]
            /\ clearing' = [NotClearing EXCEPT !.pc = "load", !.flow = session.pending]
       ELSE Finish(session.code) /\ UNCHANGED clearing
    /\ UNCHANGED <<clock, store, flows, closed, op, shut>>

ExpiredCleared ==
    /\ session.end = "clearing"
    /\ clearing.pc \in {"done", "failed"}
    /\ Finish(IF clearing.pc = "done" THEN session.code ELSE "store")
    /\ clearing' = NotClearing
    /\ UNCHANGED <<clock, store, flows, closed, op, shut>>

-----------------------------------------------------------------------------
(* clearExactPending().  Any call of the store may fail, with or without      *)
(* having had its effect, and one that returns may not have had it.          *)

ClearLoads ==
    /\ clearing.pc = "load"
    /\ \/ clearing' = [clearing EXCEPT !.pc = "failed"]
       \/ clearing' = [clearing EXCEPT !.seen = store,
                         !.pc = IF store.pending = clearing.flow THEN "write" ELSE "done"]
    /\ UNCHANGED <<clock, store, flows, closed, op, session, shut>>

\* store.save() without the flow, or store.remove().
ClearWrites ==
    /\ clearing.pc = "write"
    /\ store' \in {store, [clearing.seen EXCEPT !.pending = NoFlow]}
    /\ \E pc \in {"verify", "failed"} : clearing' = [clearing EXCEPT !.pc = pc]
    /\ UNCHANGED <<clock, flows, closed, op, session, shut>>

ClearVerifies ==
    /\ clearing.pc = "verify"
    /\ \/ clearing' = [clearing EXCEPT !.pc = "failed"]
       \/ clearing' = [clearing EXCEPT !.seen = store,
                         !.pc = IF store.pending = clearing.flow THEN "failed" ELSE "done"]
    /\ UNCHANGED <<clock, store, flows, closed, op, session, shut>>

-----------------------------------------------------------------------------
(* start() and resume().                                                    *)

At(pc) == op.pc = pc
Goes(pc) == op' = [op EXCEPT !.pc = pc]
Answers == op' = NoOp

\* serialize(): one operation at a time; a closed controller refuses.
Call(kind) ==
    /\ ~closed /\ At("idle")
    /\ kind = "start" => flows < MaxFlows
    /\ op' = [NoOp EXCEPT !.pc = "called", !.kind = kind]
    /\ session' = IF session.active THEN session ELSE NoSession
    /\ UNCHANGED <<clock, store, flows, closed, clearing, shut>>

Begin ==
    /\ At("called")
    /\ IF closed \/ session.active THEN Answers ELSE Goes("load")
    /\ UNCHANGED <<clock, store, flows, closed, clearing, session, shut>>

\* currentEnvelope() returned: start() wants no flow in it, resume() one.
Uses(current) ==
    IF closed \/ (op.kind = "resume") = (current.pending = NoFlow)
    THEN Answers /\ UNCHANGED session
    ELSE /\ op' = [op EXCEPT !.pc = "bind", !.current = current]
         /\ session' = [NoSession EXCEPT !.active = TRUE, !.binding = TRUE,
                                         !.listen = "waiting", !.result = "open"]

\* A flow created after now fails the operation, and so does the store.
Loads ==
    /\ At("load")
    /\ LET flow == store.pending IN
       \/ Answers /\ UNCHANGED <<session, clearing>>
       \/ /\ flow = NoFlow \/ (flow.created <= clock /\ ~Expired(flow))
          /\ Uses(store)
          /\ UNCHANGED clearing
       \/ /\ flow # NoFlow /\ flow.created <= clock /\ Expired(flow)
          /\ Goes("clear")
          /\ clearing' = [NotClearing EXCEPT !.pc = "load", !.flow = flow]
          /\ UNCHANGED session
    /\ UNCHANGED <<clock, store, flows, closed, shut>>

Cleared ==
    /\ At("clear")
    /\ clearing.pc \in {"done", "failed"}
    /\ IF clearing.pc = "done" THEN Uses(clearing.seen) ELSE Answers /\ UNCHANGED session
    /\ clearing' = NotClearing
    /\ UNCHANGED <<clock, store, flows, closed, shut>>

\* The server listens, or reports an error.
ServerListens ==
    /\ session.listen = "waiting"
    /\ \E listen \in {"open", "failed"} : session' = [session EXCEPT !.listen = listen]
    /\ UNCHANGED <<clock, store, flows, closed, op, clearing, shut>>

\* bind() threw: it has closed the server, unless terminate() does.
BindFails ==
    /\ At("bind")
    /\ session.listen # "waiting"
    /\ session.end = "none"
    /\ session' = [session EXCEPT !.binding = FALSE, !.active = FALSE, !.result = "listener",
                                  !.listen = CloseListener(@)]
    /\ Goes("unbind")
    /\ UNCHANGED <<clock, store, flows, closed, clearing, shut>>

Unbound ==
    /\ At("unbind")
    /\ session.listen \in {"closed", "failed"}
    /\ Answers
    /\ UNCHANGED <<clock, store, flows, closed, clearing, session, shut>>

\* The operation throws: its session is terminated, if it is still active.
Throws(code, clears) ==
    IF session.active THEN Goes("ending") /\ Terminate(code, clears)
                      ELSE Answers /\ UNCHANGED session

BoundTooLate ==
    /\ At("bind")
    /\ session.end # "none"
    /\ session' = [session EXCEPT !.binding = FALSE]
    /\ Goes("ending")
    /\ UNCHANGED <<clock, store, flows, closed, clearing, shut>>

\* createActivationRequest(), scheduleSessionDeadline(), and the pending save.
StartBound ==
    /\ At("bind") /\ op.kind = "start"
    /\ session.listen = "open" /\ session.end = "none"
    /\ flows' = flows + 1
    /\ session' = [session EXCEPT !.binding = FALSE, !.timer = "armed",
                                  !.pending = [id |-> flows', created |-> clock]]
    /\ Goes("save")
    /\ UNCHANGED <<clock, store, closed, clearing, shut>>

ResumeBound ==
    /\ At("bind") /\ op.kind = "resume"
    /\ session.listen = "open" /\ session.end = "none"
    /\ LET flow == op.current.pending
           bound == [session EXCEPT !.binding = FALSE, !.pending = flow] IN
         IF Expired(flow)
         THEN /\ Goes("ending")
              /\ session' = [bound EXCEPT !.ended = TRUE, !.end = "closing", !.code = "expired",
                                          !.clears = TRUE, !.listen = CloseListener(@)]
         ELSE /\ Answers
              /\ session' = [bound EXCEPT !.timer = "armed"]
    /\ UNCHANGED <<clock, store, flows, closed, clearing, shut>>

\* persistPending(): the save settles.
Saved ==
    /\ At("save")
    /\ store' \in {store, [op.current EXCEPT !.pending = session.pending]}
    /\ \/ Goes("readback") /\ UNCHANGED session
       \/ Throws("store", FALSE)
    /\ UNCHANGED <<clock, flows, closed, clearing, shut>>

\* Mutant: a save that returned is believed.
BelievesSave ==
    /\ At("readback")
    /\ IF ~Live THEN Throws(session.code, FALSE) ELSE Goes("opening") /\ UNCHANGED session
    /\ UNCHANGED <<clock, store, flows, closed, clearing, shut>>

\* The store holds exactly that: the browser opens.
ReadBack ==
    /\ At("readback")
    /\ \/ Throws("store", FALSE)
       \/ /\ store = [op.current EXCEPT !.pending = session.pending]
          /\ IF ~Live THEN Throws(session.code, FALSE) ELSE Goes("opening") /\ UNCHANGED session
    /\ UNCHANGED <<clock, store, flows, closed, clearing, shut>>

\* The race of openBrowser() and the result: the browser opened or did not, or
\* the result settled first.  Nothing bounds the browser.
OpenerSettles ==
    /\ At("opening")
    /\ \/ Live /\ Answers /\ UNCHANGED session
       \/ Live /\ Throws("browser", FALSE)
       \/ /\ session.active /\ session.ended
          /\ Throws(session.code, FALSE)
    /\ UNCHANGED <<clock, store, flows, closed, clearing, shut>>

\* Mutant: only the browser is awaited.
OpenerAlone == FALSE /\ UNCHANGED vars

ResultSettlesFirst ==
    /\ At("opening")
    /\ session.result # "open"
    /\ Answers
    /\ UNCHANGED <<clock, store, flows, closed, clearing, session, shut>>

Ended ==
    /\ At("ending")
    /\ ~session.active
    /\ Answers
    /\ UNCHANGED <<clock, store, flows, closed, clearing, session, shut>>

-----------------------------------------------------------------------------
(* What ends a flow.                                                        *)

ListenerFails ==
    /\ session.listen = "open" /\ session.active /\ ~session.binding
    /\ Terminate("listener", FALSE)
    /\ UNCHANGED <<clock, store, flows, closed, op, clearing, shut>>

\* Fires after the 15 minutes, or at the expiry if that is sooner.
TimerFires ==
    /\ session.timer = "armed"
    /\ IF Expired(session.pending) THEN Terminate("expired", TRUE) ELSE Terminate("timeout", FALSE)
    /\ UNCHANGED <<clock, store, flows, closed, op, clearing, shut>>

Serves == session.listen = "open" /\ Live /\ session.pending # NoFlow

\* Any request after the expiry.
LateRequest ==
    /\ Serves
    /\ Expired(session.pending)
    /\ Terminate("expired", TRUE)
    /\ UNCHANGED <<clock, store, flows, closed, op, clearing, shut>>

\* The exact callback, while no other is being exchanged.
Callback ==
    /\ Serves
    /\ ~Expired(session.pending)
    /\ session.exchange = "none"
    /\ session' = [session EXCEPT !.exchange = "running"]
    /\ UNCHANGED <<clock, store, flows, closed, op, clearing, shut>>

\* The answer, its deadline or its cancellation comes first.
ExchangeEnds ==
    /\ session.exchange = "running"
    /\ \E answer \in {"key", "nothing"} : session' = [session EXCEPT !.exchange = answer]
    /\ UNCHANGED <<clock, store, flows, closed, op, clearing, shut>>

Completed ==
    [session EXCEPT !.exchange = "none", !.ended = TRUE, !.active = FALSE, !.timer = "off",
                    !.listen = CloseListener(@), !.result = "key"]

\* Mutant: handleCallback does not look again after the exchange.
KeyReturnsBlindly ==
    /\ session.exchange \in {"key", "nothing"}
    /\ session' = IF session.exchange = "nothing" THEN [session EXCEPT !.exchange = "none"]
                                                 ELSE Completed
    /\ UNCHANGED <<clock, store, flows, closed, op, clearing, shut>>

\* handleCallback goes on: a session that ended meanwhile gets no key.
KeyReturns ==
    /\ session.exchange \in {"key", "nothing"}
    /\ session' = IF session.exchange = "nothing" \/ ~Live
                  THEN [session EXCEPT !.exchange = "none"] ELSE Completed
    /\ UNCHANGED <<clock, store, flows, closed, op, clearing, shut>>

ShutdownCalled ==
    /\ shut = "no"
    /\ closed' = TRUE
    /\ shut' = "asked"
    /\ IF session.active THEN Terminate("shutdown", FALSE) ELSE UNCHANGED session
    /\ UNCHANGED <<clock, store, flows, op, clearing>>

ShutdownSettles ==
    /\ shut = "asked"
    /\ ~session.active /\ At("idle")
    /\ shut' = "done"
    /\ UNCHANGED <<clock, store, flows, closed, op, clearing, session>>

-----------------------------------------------------------------------------
(* The world.                                                               *)

\* main.js persistActivatedKey(): the key replaces the flow.
KeySaved ==
    /\ session.result = "key" /\ At("idle")
    /\ store.pending = session.pending
    /\ store' = [key |-> "new", pending |-> NoFlow]
    /\ UNCHANGED <<clock, flows, closed, op, clearing, session, shut>>

Tick ==
    /\ clock < MaxClock
    /\ clock' = clock + 1
    /\ UNCHANGED <<store, flows, closed, op, clearing, session, shut>>

\* The process is killed; the next one has a new controller, and perhaps a clock
\* that was set.
Restart ==
    /\ clock' \in Times
    /\ closed' = FALSE /\ op' = NoOp /\ clearing' = NotClearing
    /\ session' = NoSession /\ shut' = "no"
    /\ UNCHANGED <<store, flows>>

\* The end of a session, the operation, and the exchange, with what they wait for:
\* the server, the store, the 15 seconds an exchange may take.
EndWork == ServerCloses \/ ForceClosed \/ ExpiredCleared \/ ClearLoads \/ ClearWrites \/ ClearVerifies

OpWork ==
    \/ Begin \/ Loads \/ Cleared \/ ServerListens \/ BindFails \/ Unbound \/ BoundTooLate
    \/ StartBound \/ ResumeBound \/ Saved \/ ReadBack \/ ResultSettlesFirst \/ Ended

ExchangeWork == ExchangeEnds \/ KeyReturns

Controller ==
    \/ EndWork \/ OpWork \/ ExchangeWork \/ ShutdownSettles
    \/ OpenerSettles \/ TimerFires \/ LateRequest \/ Callback \/ ListenerFails
    \/ (\E kind \in {"start", "resume"} : Call(kind))
    \/ ShutdownCalled

Next == Controller \/ KeySaved \/ Tick \/ Restart

Fairness ==
    /\ WF_vars(EndWork) /\ WF_vars(OpWork) /\ WF_vars(ExchangeWork)
    /\ WF_vars(TimerFires) /\ WF_vars(ShutdownSettles)

Spec == Init /\ [][Next]_vars /\ Fairness

-----------------------------------------------------------------------------
(* Properties.                                                              *)

\* Every variable has its type; and what a session holds open has an owner that
\* will close it: a socket and an exchange belong to the active session, a flow in
\* progress has its timer and its socket, and a session that is over has no timer.
TypeOK ==
    /\ clock \in Times /\ store \in Envelope /\ flows \in 0..MaxFlows
    /\ closed \in BOOLEAN /\ op \in Op /\ clearing \in Clearing /\ session \in Session
    /\ shut \in {"no", "asked", "done"}

LiveIsOwned ==
    /\ TypeOK
    /\ session.listen = "open" => session.active
    /\ Live /\ ~session.binding => session.timer = "armed" /\ session.listen = "open"
    /\ session.exchange = "running" => session.active
    /\ ~session.active => session.timer = "off"

\* The browser is opened for no flow but the one the store holds, and while its
\* listener and its deadline stand: a save that returned, or failed after its
\* effect, is not believed, and what ended during the save is noticed (start(),
\* persistPending()).
OpensStoredFlow ==
    [][op'.pc = "opening" /\ ~At("opening") =>
         /\ store'.pending = session'.pending /\ session'.pending # NoFlow
         /\ session'.listen = "open" /\ session'.timer = "armed"]_vars

\* Whatever fails or is repeated, the controller never changes the license key in
\* the store; it adds its flow where there was none, and takes a flow away only
\* once that flow has expired (clearExactPending(), persistPending()).
StoreIsKept ==
    [][Controller =>
         /\ store'.key = store.key
         /\ store'.pending # store.pending =>
              \/ store.pending = NoFlow /\ store'.pending = session.pending
              \/ store'.pending = NoFlow /\ Expired(store.pending)]_vars

\* The store, and not an answer of it, says what may be opened, kept or cleared.
StoreIsAuthority == OpensStoredFlow /\ StoreIsKept

Promised == INSTANCE ActivationFlow WITH
    asked <- op.pc # "idle",
    flow <- IF session.result \in Codes THEN "failed" ELSE session.result,
    retired <- shut

\* The controller is what main.js relies on: one settlement per flow, no key after
\* shutdown() was asked for, and no answer to shutdown() before the operation and
\* the flow have ended.
ImplementsFlow == Promised!FlowSpec

\* Every operation answers, every result settles and shutdown() ends, though the
\* browser never answers and nobody calls back.
Settles ==
    /\ op.pc # "idle" ~> op.pc = "idle"
    /\ session.result = "open" ~> session.result # "open"
    /\ shut = "asked" ~> shut # "asked"
==============================================================================
