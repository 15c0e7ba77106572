-------------------------- MODULE ProActivationProofs --------------------------
(***************************************************************************)
(* Proofs about ProActivation.tla, for any number of flows, any lifetime    *)
(* and any clock: what a session holds open has an owner, and main.js may   *)
(* rely on ActivationFlow.                                                  *)
(***************************************************************************)
EXTENDS ProActivation, TLAPS

\* What a session is at each stage of it: its promise is open just while it is
\* active, ending it stops its timer and its listener first, and nothing is
\* exchanged before its flow is known or after it was closed.
SessionIsWhole ==
    /\ session.active <=> session.result = "open"
    /\ session.end # "none" => session.ended /\ session.code \in Codes
    /\ session.active /\ session.ended <=> session.end \in {"closing", "clearing"}
    /\ session.ended \/ ~session.active =>
         session.listen \notin {"open", "waiting"} /\ session.timer = "off"
    /\ session.end = "done" => ~session.active
    /\ session.end = "clearing" => session.exchange # "running" /\ session.pending # NoFlow
    /\ session.exchange = "running" => session.active
    /\ Live /\ ~session.binding => session.timer = "armed" /\ session.listen = "open"
    /\ session.binding => session.active \/ session.end = "done"
    /\ session.binding => /\ session.timer = "off" /\ session.exchange = "none"
                          /\ session.pending = NoFlow

\* The operation binds the session it made, beside no other; a closed controller
\* has no live session.
OpIsAt ==
    /\ op.pc = "bind" <=> session.binding
    /\ op.pc \in {"load", "clear"} => ~session.active
    /\ closed <=> shut # "no"
    /\ Live => ~closed
    /\ op.pc \in {"called", "load", "clear", "bind"} /\ op.kind = "start" => flows < MaxFlows

\* What is known of the store: the flow that is being cleared has expired, and is
\* the one the store holds when it is about to be overwritten; a start() that has
\* not saved yet knows the store, which holds no flow.
StoreIsKnown ==
    /\ clearing.pc # "idle" <=> op.pc = "clear" \/ session.end = "clearing"
    /\ clearing.pc # "idle" => Expired(clearing.flow) /\ clearing.flow # NoFlow
    /\ clearing.pc = "write" => clearing.seen = store /\ store.pending = clearing.flow
    /\ op.pc = "clear" /\ clearing.pc = "done" => clearing.seen = store
    /\ op.pc \in {"bind", "save"} /\ op.kind = "start" =>
         op.current = store /\ store.pending = NoFlow
    /\ op.pc = "save" => op.kind = "start"
    /\ op.pc \in {"save", "readback"} => session.pending # NoFlow
    /\ session.end = "none" => ~session.clears
    /\ session.clears => Expired(session.pending)

\* The inductive invariant.
IInv == TypeOK /\ SessionIsWhole /\ OpIsAt /\ StoreIsKnown

-----------------------------------------------------------------------------
(* Types, and what the helpers do to a session.                             *)

\* The empty values have their types.
LEMMA NoFlowTyped == NoFlow \in Flow
  BY DEF NoFlow, Flow

\* So has an empty store,
LEMMA NothingTyped == Nothing \in Envelope
  BY NoFlowTyped DEF Nothing, Envelope, Keys

\* no operation,
LEMMA NoOpTyped == NoOp \in Op
  BY NothingTyped DEF NoOp, Op, OpPlaces

\* nothing to clear,
LEMMA NotClearingTyped == NotClearing \in Clearing
  BY NoFlowTyped, NothingTyped DEF NotClearing, Clearing

\* and no session.
LEMMA NoSessionTyped == NoSession \in Session
  BY NoFlowTyped DEF NoSession, Session

\* A new process has its types.
LEMMA InitTyped == Init => TypeOK
  <1> SUFFICES ASSUME Init PROVE TypeOK
    OBVIOUS
  <1>1. store \in Envelope
    BY NoFlowTyped DEF Init, Envelope, Keys
  <1>2. /\ clock \in Times /\ flows \in 0..MaxFlows /\ closed \in BOOLEAN
        /\ shut \in {"no", "asked", "done"}
    <2>1. 0 \in 0..MaxFlows
      BY ProActivationConstants DEF ProActivationConstants
    <2>2. QED
      BY <2>1 DEF Init
  <1>3. op \in Op /\ clearing \in Clearing /\ session \in Session
    BY NoOpTyped, NotClearingTyped, NoSessionTyped DEF Init
  <1>4. QED
    BY <1>1, <1>2, <1>3 DEF TypeOK

\* The code a session ended with.
LEMMA CodeTyped == session \in Session => session.code \in Codes \cup {"none"}
  BY DEF Session

\* A listener that is closed is closing or closed, or never opened.
LEMMA ListenerCloses ==
    ASSUME session \in Session
    PROVE  /\ CloseListener(session.listen) \in
                {"none", "waiting", "open", "failed", "closing", "closed"}
           /\ CloseListener(session.listen) \notin {"open", "waiting"}
  BY DEF Session, CloseListener

\* terminate() ends a session that has not ended, and leaves the rest of it alone.
LEMMA TerminateEffect ==
    ASSUME session \in Session, NEW code \in Codes \cup {"none"}, NEW clears \in BOOLEAN,
           Terminate(code, clears)
    PROVE  /\ session' \in Session
           /\ session.end # "none" => session' = session
           /\ session.end = "none" =>
                /\ session'.end = "closing" /\ session'.ended = TRUE /\ session'.code = code
                /\ session'.clears = clears
                /\ session'.timer = "off" /\ session'.listen \notin {"open", "waiting"}
           /\ session'.active = session.active /\ session'.binding = session.binding
           /\ session'.pending = session.pending /\ session'.exchange = session.exchange
           /\ session'.result = session.result
  <1>1. CASE session.end # "none"
    BY <1>1 DEF Terminate
  <1>2. CASE session.end = "none"
    <2>1. session' = [session EXCEPT !.ended = TRUE, !.end = "closing", !.code = code,
                                     !.clears = clears, !.timer = "off",
                                     !.listen = CloseListener(@)]
      BY <1>2 DEF Terminate
    <2>2. QED
      BY <1>2, <2>1, ListenerCloses DEF Session
  <1>3. QED
    BY <1>1, <1>2

\* The end of terminate().
LEMMA FinishEffect ==
    ASSUME session \in Session, NEW code \in Codes \cup {"none"}, Finish(code)
    PROVE  /\ session' \in Session
           /\ session'.end = "done" /\ session'.active = FALSE
           /\ session'.code = code /\ session'.result = code
           /\ session'.clears = session.clears
           /\ session'.ended = session.ended /\ session'.binding = session.binding
           /\ session'.listen = session.listen /\ session'.timer = session.timer
           /\ session'.exchange = session.exchange /\ session'.pending = session.pending
  BY ZenonT(40) DEF Finish, Session, Codes

\* What was loaded is used for a new session, or for none.
LEMMA UsesEffect ==
    ASSUME session \in Session, NEW current, Uses(current)
    PROVE  /\ session' \in Session
           /\ \/ op' = NoOp /\ session' = session
              \/ /\ ~closed
                 /\ op.kind = "start" => current.pending = NoFlow
                 /\ session'.clears = FALSE
                 /\ op' = [op EXCEPT !.pc = "bind", !.current = current]
                 /\ session'.active = TRUE /\ session'.binding = TRUE /\ session'.ended = FALSE
                 /\ session'.listen = "waiting" /\ session'.result = "open"
                 /\ session'.timer = "off" /\ session'.exchange = "none"
                 /\ session'.end = "none" /\ session'.pending = NoFlow
  <1>1. CASE closed \/ (op.kind = "resume") = (current.pending = NoFlow)
    BY <1>1 DEF Uses, Answers
  <1>2. CASE ~(closed \/ (op.kind = "resume") = (current.pending = NoFlow))
    <2>1. /\ op' = [op EXCEPT !.pc = "bind", !.current = current]
          /\ session' = [NoSession EXCEPT !.active = TRUE, !.binding = TRUE,
                                          !.listen = "waiting", !.result = "open"]
      BY <1>2 DEF Uses
    <2>2. session' \in Session
      BY <2>1, NoSessionTyped DEF Session
    <2>3. QED
      BY <1>2, <2>1, <2>2 DEF NoSession
  <1>3. QED
    BY <1>1, <1>2

\* The operation keeps its type.
LEMMA OpUses ==
    ASSUME op \in Op, NEW current \in Envelope, Uses(current)
    PROVE  op' \in Op
  <1>1. CASE closed \/ (op.kind = "resume") = (current.pending = NoFlow)
    BY <1>1, NoOpTyped DEF Uses, Answers
  <1>2. CASE ~(closed \/ (op.kind = "resume") = (current.pending = NoFlow))
    <2>1. op' = [op EXCEPT !.pc = "bind", !.current = current]
      BY <1>2 DEF Uses
    <2>2. QED
      BY <2>1 DEF Op, OpPlaces
  <1>3. QED
    BY <1>1, <1>2

\* An operation that throws ends its session, if that is still active.
LEMMA ThrowsEffect ==
    ASSUME session \in Session, NEW code \in Codes \cup {"none"}, Throws(code, FALSE)
    PROVE  /\ session' \in Session
           /\ \/ ~session.active /\ session' = session /\ op' = NoOp
              \/ /\ session.active /\ Terminate(code, FALSE)
                 /\ op' = [op EXCEPT !.pc = "ending"]
  BY TerminateEffect DEF Throws, Goes, Answers

\* What is written to the store is an envelope.
LEMMA StoreTyped == TypeOK /\ [Next]_vars => store' \in Envelope
  <1> SUFFICES ASSUME TypeOK, [Next]_vars PROVE store' \in Envelope
    OBVIOUS
  <1> USE DEF TypeOK
  <1>1. CASE ClearWrites
    BY <1>1, NoFlowTyped DEF ClearWrites, Clearing, Envelope
  <1>2. CASE Saved
    BY <1>2 DEF Saved, Op, Session, Envelope
  <1>3. CASE KeySaved
    BY <1>3, NoFlowTyped DEF KeySaved, Keys, Envelope
  <1>4. CASE UNCHANGED store
    BY <1>4
  <1>5. QED
    BY <1>1, <1>2, <1>3, <1>4
       DEF Next, Controller, EndWork, OpWork, ExchangeWork, vars,
       ServerCloses, ForceClosed, ExpiredCleared, ClearLoads, ClearVerifies, Begin, Loads,
       Cleared, ServerListens, BindFails, Unbound, BoundTooLate, StartBound, ResumeBound,
       ReadBack, ResultSettlesFirst, Ended, ExchangeEnds, KeyReturns, ShutdownSettles,
       OpenerSettles, TimerFires, LateRequest, Callback, ListenerFails, ShutdownCalled,
       Tick, Restart, Call

\* clearExactPending() keeps to its places.
LEMMA ClearingTyped == TypeOK /\ [Next]_vars => clearing' \in Clearing
  <1> SUFFICES ASSUME TypeOK, [Next]_vars PROVE clearing' \in Clearing
    OBVIOUS
  <1> USE DEF TypeOK
  <1>1. CASE ForceClosed
    BY <1>1, NotClearingTyped DEF ForceClosed, Session, Finish, Clearing
  <1>2. CASE ExpiredCleared
    BY <1>2, NotClearingTyped DEF ExpiredCleared, Clearing
  <1>3. CASE ClearLoads
    BY <1>3 DEF ClearLoads, Clearing
  <1>4. CASE ClearWrites
    BY <1>4 DEF ClearWrites, Clearing
  <1>5. CASE ClearVerifies
    BY <1>5 DEF ClearVerifies, Clearing
  <1>6. CASE Loads
    BY <1>6, NotClearingTyped DEF Loads, Envelope, Uses, Clearing
  <1>7. CASE Cleared
    BY <1>7, NotClearingTyped DEF Cleared, Clearing
  <1>8. CASE Restart
    BY <1>8, NotClearingTyped DEF Restart, Clearing
  <1>9. CASE UNCHANGED clearing
    BY <1>9
  <1>10. QED
    BY <1>1, <1>2, <1>3, <1>4, <1>5, <1>6, <1>7, <1>8, <1>9
       DEF Next, Controller, EndWork, OpWork, ExchangeWork, vars,
       ServerCloses, Begin, ServerListens, BindFails, Unbound, BoundTooLate, StartBound,
       ResumeBound, Saved, ReadBack, ResultSettlesFirst, Ended, ExchangeEnds, KeyReturns,
       ShutdownSettles, OpenerSettles, TimerFires, LateRequest, Callback, ListenerFails,
       ShutdownCalled, KeySaved, Tick, Call

\* The operation keeps to its places.
LEMMA OpTyped == TypeOK /\ [Next]_vars => op' \in Op
  <1> SUFFICES ASSUME TypeOK, [Next]_vars PROVE op' \in Op
    OBVIOUS
  <1> USE DEF TypeOK
  <1>1. CASE Begin
    BY <1>1, NoOpTyped DEF Begin, At, Goes, Answers, Op, OpPlaces
  <1>2. CASE Loads
    <2>1. CASE Answers
      BY <2>1, NoOpTyped DEF Answers
    <2>2. CASE Uses(store)
      BY <2>2, OpUses
    <2>3. CASE Goes("clear")
      BY <2>3 DEF Goes, Op, OpPlaces
    <2>4. QED
      BY <1>2, <2>1, <2>2, <2>3 DEF Loads
  <1>3. CASE Cleared
    <2>1. CASE Answers
      BY <2>1, NoOpTyped DEF Answers
    <2>2. CASE Uses(clearing.seen)
      <3>1. clearing.seen \in Envelope
        BY DEF Clearing
      <3>2. QED
        BY <2>2, <3>1, OpUses
    <2>3. QED
      BY <1>3, <2>1, <2>2 DEF Cleared
  <1>4. CASE BindFails
    BY <1>4 DEF BindFails, Goes, Op, OpPlaces
  <1>5. CASE Unbound
    BY <1>5, NoOpTyped DEF Unbound, Answers, Op, OpPlaces
  <1>6. CASE BoundTooLate
    BY <1>6 DEF BoundTooLate, Goes, Op, OpPlaces
  <1>7. CASE StartBound
    BY <1>7 DEF StartBound, Goes, Op, OpPlaces
  <1>8. CASE ResumeBound
    BY <1>8, NoOpTyped DEF ResumeBound, Goes, Answers, Op, OpPlaces
  <1>9. CASE Saved
    BY <1>9, NoOpTyped, ThrowsEffect DEF Saved, Goes, Codes, Op, OpPlaces
  <1>10. CASE ReadBack
    BY <1>10, NoOpTyped, ThrowsEffect, CodeTyped DEF ReadBack, Goes, Codes, Op, OpPlaces
  <1>11. CASE ResultSettlesFirst
    BY <1>11, NoOpTyped DEF ResultSettlesFirst, Answers, Op, OpPlaces
  <1>12. CASE Ended
    BY <1>12, NoOpTyped DEF Ended, Answers, Op, OpPlaces
  <1>13. CASE OpenerSettles
    BY <1>13, NoOpTyped, ThrowsEffect, CodeTyped DEF OpenerSettles, Codes, Answers, Op,
       OpPlaces
  <1>14. ASSUME NEW kind \in {"start", "resume"}, Call(kind) PROVE op' \in Op
    BY <1>14, NoOpTyped DEF Call, Op, OpPlaces
  <1>15. CASE Restart
    BY <1>15, NoOpTyped DEF Restart, Op, OpPlaces
  <1>16. CASE UNCHANGED op
    BY <1>16
  <1>17. QED
    BY <1>1, <1>2, <1>3, <1>4, <1>5, <1>6, <1>7, <1>8, <1>9, <1>10, <1>11, <1>12, <1>13,
       <1>14, <1>15, <1>16
       DEF Next, Controller, EndWork, OpWork, ExchangeWork, vars,
       ServerCloses, ForceClosed, ExpiredCleared, ClearLoads, ClearWrites, ClearVerifies,
       ServerListens, ExchangeEnds, KeyReturns, ShutdownSettles, TimerFires, LateRequest,
       Callback, ListenerFails, ShutdownCalled, KeySaved, Tick

\* A session keeps to its stages.
LEMMA SessionTyped == IInv /\ [Next]_vars => session' \in Session
  <1> SUFFICES ASSUME IInv, [Next]_vars PROVE session' \in Session
    OBVIOUS
  <1> USE DEF IInv, TypeOK
  <1>1. CASE ServerCloses
    BY <1>1 DEF ServerCloses, Session
  <1>2. CASE ForceClosed
    <2>1. CASE session' = [session EXCEPT !.end = "clearing"]
      BY <2>1 DEF Session
    <2>2. CASE Finish(session.code)
      BY <2>2, CodeTyped, FinishEffect
    <2>3. QED
      BY <1>2, <2>1, <2>2 DEF ForceClosed
  <1>3. CASE ExpiredCleared
    <2>1. (IF clearing.pc = "done" THEN session.code ELSE "store") \in Codes \cup {"none"}
      BY CodeTyped DEF Codes
    <2>2. QED
      BY <1>3, <2>1, FinishEffect DEF ExpiredCleared
  <1>4. CASE Loads
    BY <1>4, UsesEffect DEF Loads
  <1>5. CASE Cleared
    BY <1>5, UsesEffect DEF Cleared
  <1>6. CASE ServerListens
    BY <1>6 DEF ServerListens, Session
  <1>7. CASE BindFails
    BY <1>7, ListenerCloses DEF BindFails, Session, Codes
  <1>8. CASE BoundTooLate
    BY <1>8 DEF BoundTooLate, Session
  <1>9. CASE StartBound
    <2>1. flows < MaxFlows
      BY <1>9 DEF StartBound, At, OpIsAt
    <2>2. [id |-> flows', created |-> clock] \in Flow
      BY <1>9, <2>1, ProActivationConstants DEF ProActivationConstants, StartBound, Flow
    <2>3. QED
      BY <1>9, <2>2 DEF StartBound, Session
  <1>10. CASE ResumeBound
    <2>1. op.current.pending \in Flow
      BY DEF Op, Envelope
    <2> DEFINE bound == [session EXCEPT !.binding = FALSE, !.pending = op.current.pending]
    <2>2. [bound EXCEPT !.timer = "armed"] \in Session
      BY <2>1 DEF Session
    <2>3. [bound EXCEPT !.ended = TRUE, !.end = "closing", !.code = "expired", !.clears = TRUE,
                        !.listen = CloseListener(@)] \in Session
      BY <2>1, ListenerCloses, ZenonT(40) DEF Session, Codes
    <2>4. QED
      BY <1>10, <2>2, <2>3 DEF ResumeBound
  <1>11. CASE Saved
    BY <1>11, ThrowsEffect DEF Saved, Codes
  <1>12. CASE ReadBack
    BY <1>12, ThrowsEffect, CodeTyped DEF ReadBack, Codes
  <1>13. CASE ExchangeEnds
    BY <1>13 DEF ExchangeEnds, Session
  <1>14. CASE KeyReturns
    <2>1. Completed \in Session
      BY ListenerCloses DEF Completed, Session
    <2>2. QED
      BY <1>14, <2>1 DEF KeyReturns, Session
  <1>15. CASE OpenerSettles
    BY <1>15, ThrowsEffect, CodeTyped DEF OpenerSettles, Codes
  <1>16. CASE TimerFires
    BY <1>16, TerminateEffect DEF TimerFires, Codes
  <1>17. CASE LateRequest
    BY <1>17, TerminateEffect DEF LateRequest, Codes
  <1>18. CASE Callback
    BY <1>18 DEF Callback, Session
  <1>19. CASE ListenerFails
    BY <1>19, TerminateEffect DEF ListenerFails, Codes
  <1>20. CASE ShutdownCalled
    BY <1>20, TerminateEffect DEF ShutdownCalled, Codes
  <1>21. CASE Restart
    BY <1>21, NoSessionTyped DEF Restart
  <1>22. ASSUME NEW kind \in {"start", "resume"}, Call(kind) PROVE session' \in Session
    BY <1>22, NoSessionTyped DEF Call
  <1>23. CASE UNCHANGED session
    BY <1>23
  <1>24. QED
    BY <1>1, <1>2, <1>3, <1>4, <1>5, <1>6, <1>7, <1>8, <1>9, <1>10, <1>11, <1>12, <1>13,
       <1>14, <1>15, <1>16, <1>17, <1>18, <1>19, <1>20, <1>21, <1>22, <1>23
       DEF Next, Controller, EndWork, OpWork, ExchangeWork, vars,
       ClearLoads, ClearWrites, ClearVerifies, Begin, Unbound, ResultSettlesFirst, Ended,
       ShutdownSettles, KeySaved, Tick

\* So do the clock and the flags.
LEMMA RestTyped ==
    ASSUME IInv, [Next]_vars
    PROVE  /\ clock' \in Times /\ flows' \in 0..MaxFlows
           /\ closed' \in BOOLEAN /\ shut' \in {"no", "asked", "done"}
  <1> USE DEF IInv, TypeOK
  <1>1. CASE Tick
    BY <1>1, ProActivationConstants DEF ProActivationConstants, Tick, Times
  <1>2. CASE Restart
    BY <1>2 DEF Restart
  <1>3. CASE StartBound
    BY <1>3, ProActivationConstants DEF ProActivationConstants, StartBound, At, OpIsAt
  <1>4. CASE ShutdownCalled
    BY <1>4 DEF ShutdownCalled
  <1>5. CASE ShutdownSettles
    BY <1>5 DEF ShutdownSettles
  <1>6. CASE UNCHANGED <<clock, flows, closed, shut>>
    BY <1>6
  <1>7. QED
    BY <1>1, <1>2, <1>3, <1>4, <1>5, <1>6
       DEF Next, Controller, EndWork, OpWork, ExchangeWork, vars,
       ServerCloses, ForceClosed, ExpiredCleared, ClearLoads, ClearWrites, ClearVerifies,
       Begin, Loads, Cleared, ServerListens, BindFails, Unbound, BoundTooLate, ResumeBound,
       Saved, ReadBack, ResultSettlesFirst, Ended, ExchangeEnds, KeyReturns, OpenerSettles,
       TimerFires, LateRequest, Callback, ListenerFails, KeySaved, Call

\* Every step keeps the types.
LEMMA TypeStep == IInv /\ [Next]_vars => TypeOK'
  BY StoreTyped, ClearingTyped, OpTyped, SessionTyped, RestTyped DEF IInv, TypeOK

-----------------------------------------------------------------------------
(* A session is whole.                                                      *)

\* terminate() keeps an active session whole, whoever calls it.
LEMMA TerminateWhole ==
    ASSUME session \in Session, SessionIsWhole, session.active,
           NEW code \in Codes, NEW clears \in BOOLEAN, Terminate(code, clears)
    PROVE  SessionIsWhole'
  <1>1. CASE session.end # "none"
    BY <1>1, TerminateEffect DEF SessionIsWhole, Live
  <1>2. CASE session.end = "none"
    BY <1>2, TerminateEffect DEF SessionIsWhole, Live
  <1>3. QED
    BY <1>1, <1>2

\* So does an operation that throws; a session that ended has its code.
LEMMA ThrowsWhole ==
    ASSUME session \in Session, SessionIsWhole, NEW code \in Codes \cup {"none"},
           code \in Codes \/ ~Live, Throws(code, FALSE)
    PROVE  SessionIsWhole'
  <1>1. CASE ~session.active
    BY <1>1, ThrowsEffect DEF SessionIsWhole, Live
  <1>2. CASE session.active /\ session.end # "none"
    BY <1>2, TerminateEffect, ThrowsEffect DEF SessionIsWhole, Live
  <1>3. CASE session.active /\ session.end = "none"
    <2>1. code \in Codes
      BY <1>3 DEF SessionIsWhole, Live
    <2>2. QED
      BY <1>3, <2>1, TerminateWhole, ThrowsEffect
  <1>4. QED
    BY <1>1, <1>2, <1>3

\* Every step keeps the session whole.
LEMMA SessionStep == IInv /\ [Next]_vars => SessionIsWhole'
  <1> SUFFICES ASSUME IInv, [Next]_vars PROVE SessionIsWhole'
    OBVIOUS
  <1>1. session \in Session /\ SessionIsWhole /\ OpIsAt
    BY DEF IInv, TypeOK
  <1> USE DEF SessionIsWhole, Live
  <1>2. CASE ServerCloses
    BY <1>1, <1>2 DEF ServerCloses, Session
  <1>3. CASE ForceClosed
    <2>1. CASE session.pending # NoFlow /\ session' = [session EXCEPT !.end = "clearing"]
      BY <1>1, <1>3, <2>1 DEF ForceClosed, Session
    <2>2. CASE Finish(session.code)
      BY <1>1, <1>3, <2>2, CodeTyped, FinishEffect DEF ForceClosed, Codes
    <2>3. QED
      BY <1>3, <2>1, <2>2 DEF ForceClosed
  <1>4. CASE ExpiredCleared
    <2> DEFINE code == IF clearing.pc = "done" THEN session.code ELSE "store"
    <2>1. code \in Codes
      BY <1>1, <1>4 DEF ExpiredCleared, Codes
    <2>2. QED
      BY <1>1, <1>4, <2>1, FinishEffect DEF ExpiredCleared, Codes
  <1>5. CASE Loads
    <2>1. CASE UNCHANGED session
      BY <1>1, <2>1
    <2>2. CASE Uses(store)
      BY <1>1, <2>2, UsesEffect
    <2>3. QED
      BY <1>5, <2>1, <2>2 DEF Loads
  <1>6. CASE Cleared
    <2>1. CASE UNCHANGED session
      BY <1>1, <2>1
    <2>2. CASE Uses(clearing.seen)
      BY <1>1, <2>2, UsesEffect
    <2>3. QED
      BY <1>6, <2>1, <2>2 DEF Cleared
  <1>7. CASE ServerListens
    BY <1>1, <1>7 DEF ServerListens, Session
  <1>8. CASE BindFails
    <2>1. session.binding /\ session.end = "none"
      BY <1>1, <1>8 DEF BindFails, At, OpIsAt
    <2>2. session' = [session EXCEPT !.binding = FALSE, !.active = FALSE,
                        !.result = "listener", !.listen = CloseListener(@)]
      BY <1>8 DEF BindFails
    <2>3. QED
      BY <1>1, <2>1, <2>2, ListenerCloses DEF Session
  <1>9. CASE BoundTooLate
    BY <1>1, <1>9 DEF BoundTooLate, Session
  <1>10. CASE StartBound
    BY <1>1, <1>10 DEF StartBound, Session
  <1>11. CASE ResumeBound
    <2>1. CASE Expired(op.current.pending)
      <3>1. session' = [session EXCEPT !.binding = FALSE, !.pending = op.current.pending,
                          !.ended = TRUE, !.end = "closing", !.code = "expired",
                          !.clears = TRUE, !.listen = CloseListener(@)]
        BY <1>1, <1>11, <2>1 DEF ResumeBound, Session
      <3>2. session.active /\ session.binding
        BY <1>1, <1>11 DEF ResumeBound, At, OpIsAt
      <3>3. QED
        BY <1>1, <3>1, <3>2, ListenerCloses DEF Session, Codes
    <2>2. CASE ~Expired(op.current.pending)
      BY <1>1, <1>11, <2>2, ZenonT(40) DEF ResumeBound, Session
    <2>3. QED
      BY <2>1, <2>2
  <1>12. CASE Saved
    <2>1. CASE UNCHANGED session
      BY <1>1, <2>1
    <2>2. CASE Throws("store", FALSE)
      BY <1>1, <2>2, ThrowsWhole DEF Codes
    <2>3. QED
      BY <1>12, <2>1, <2>2 DEF Saved
  <1>13. CASE ReadBack
    <2>1. CASE UNCHANGED session
      BY <1>1, <2>1
    <2>2. CASE Throws("store", FALSE)
      BY <1>1, <2>2, ThrowsWhole DEF Codes
    <2>3. CASE ~Live /\ Throws(session.code, FALSE)
      BY <1>1, <2>3, ThrowsWhole, CodeTyped
    <2>4. QED
      BY <1>13, <2>1, <2>2, <2>3 DEF ReadBack
  <1>14. CASE ExchangeEnds
    BY <1>1, <1>14 DEF ExchangeEnds, Session
  <1>15. CASE KeyReturns
    <2>1. CASE session' = [session EXCEPT !.exchange = "none"]
      BY <1>1, <1>15, <2>1 DEF Session
    <2>2. CASE Live /\ session' = Completed
      <3>1. ~session.binding
        BY <1>1, <1>15 DEF KeyReturns
      <3>2. QED
        BY <1>1, <2>2, <3>1, ListenerCloses DEF Completed, Session
    <2>3. QED
      BY <1>15, <2>1, <2>2 DEF KeyReturns
  <1>16. CASE OpenerSettles
    <2>1. CASE UNCHANGED session
      BY <1>1, <2>1
    <2>2. CASE Throws("browser", FALSE)
      BY <1>1, <2>2, ThrowsWhole DEF Codes
    <2>3. CASE session.active /\ session.ended /\ Throws(session.code, FALSE)
      BY <1>1, <2>3, ThrowsWhole, CodeTyped
    <2>4. QED
      BY <1>16, <2>1, <2>2, <2>3 DEF OpenerSettles
  <1>17. CASE TimerFires
    <2>1. session.active
      BY <1>1, <1>17 DEF TimerFires
    <2>2. CASE Terminate("expired", TRUE)
      BY <1>1, <2>1, <2>2, TerminateWhole DEF Codes
    <2>3. CASE Terminate("timeout", FALSE)
      BY <1>1, <2>1, <2>3, TerminateWhole DEF Codes
    <2>4. QED
      BY <1>17, <2>2, <2>3 DEF TimerFires
  <1>18. CASE LateRequest
    BY <1>1, <1>18, TerminateWhole DEF LateRequest, Codes, Serves
  <1>19. CASE Callback
    BY <1>1, <1>19 DEF Callback, Session, Serves
  <1>20. CASE ListenerFails
    BY <1>1, <1>20, TerminateWhole DEF ListenerFails, Codes
  <1>21. CASE ShutdownCalled
    <2>1. CASE session.active /\ Terminate("shutdown", FALSE)
      BY <1>1, <2>1, TerminateWhole DEF Codes
    <2>2. QED
      BY <1>1, <1>21, <2>1 DEF ShutdownCalled
  <1>22. CASE Restart
    BY <1>1, <1>22 DEF Restart, NoSession
  <1>23. ASSUME NEW kind \in {"start", "resume"}, Call(kind) PROVE SessionIsWhole'
    BY <1>1, <1>23 DEF Call, NoSession
  <1>24. CASE UNCHANGED session
    BY <1>1, <1>24
  <1>25. QED
    BY <1>2, <1>3, <1>4, <1>5, <1>6, <1>7, <1>8, <1>9, <1>10, <1>11, <1>12, <1>13, <1>14,
       <1>15, <1>16, <1>17, <1>18, <1>19, <1>20, <1>21, <1>22, <1>23, <1>24
       DEF Next, Controller, EndWork, OpWork, ExchangeWork, vars,
       ClearLoads, ClearWrites, ClearVerifies, Begin, Unbound, ResultSettlesFirst, Ended,
       ShutdownSettles, KeySaved, Tick

-----------------------------------------------------------------------------
(* The operation and its session.                                           *)

\* terminate() leaves an ended session at its place,
LEMMA TerminatePlace ==
    ASSUME session \in Session, SessionIsWhole,
           NEW code \in Codes, NEW clears \in BOOLEAN, Terminate(code, clears)
    PROVE  /\ session'.active = session.active /\ session'.binding = session.binding
           /\ session'.ended /\ ~Live'
  BY TerminateEffect DEF SessionIsWhole, Live

\* so does an operation that throws, which then waits for its end or answers;
LEMMA ThrowsPlace ==
    ASSUME session \in Session, SessionIsWhole,
           NEW code \in Codes \cup {"none"}, Throws(code, FALSE), op \in Op
    PROVE  /\ session'.active = session.active /\ session'.binding = session.binding
           /\ ~Live' /\ op'.pc \in {"ending", "idle"}
  <1>1. CASE ~session.active /\ session' = session /\ op' = NoOp
    BY <1>1 DEF Live, NoOp
  <1>2. CASE Terminate(code, FALSE) /\ op' = [op EXCEPT !.pc = "ending"]
    <2>1. /\ session'.active = session.active /\ session'.binding = session.binding
          /\ ~Live'
      BY <1>2, TerminateEffect DEF SessionIsWhole, Live
    <2>2. op'.pc = "ending"
      BY <1>2 DEF Op
    <2>3. QED
      BY <2>1, <2>2
  <1>3. QED
    BY <1>1, <1>2, ThrowsEffect

\* and an operation that goes on binds the session it made.
LEMMA UsesPlace ==
    ASSUME session \in Session, op \in Op, NEW current, Uses(current)
    PROVE  \/ op'.pc = "idle" /\ session' = session
           \/ /\ op'.pc = "bind" /\ op'.kind = op.kind /\ session'.binding
              /\ ~closed
  <1>1. CASE op' = NoOp /\ session' = session
    BY <1>1 DEF NoOp
  <1>2. CASE /\ ~closed /\ session'.binding = TRUE
             /\ op' = [op EXCEPT !.pc = "bind", !.current = current]
    BY <1>2 DEF Op
  <1>3. QED
    BY <1>1, <1>2, UsesEffect

\* Every step keeps the operation beside its session.
LEMMA OpStep == IInv /\ [Next]_vars => OpIsAt'
  <1> SUFFICES ASSUME IInv, [Next]_vars PROVE OpIsAt'
    OBVIOUS
  <1>1. session \in Session /\ op \in Op /\ SessionIsWhole /\ OpIsAt
    BY DEF IInv, TypeOK
  <1> USE DEF OpIsAt, Live
  <1>2. CASE ServerCloses
    BY <1>1, <1>2 DEF ServerCloses, Session
  <1>3. CASE ForceClosed
    <2>1. CASE session' = [session EXCEPT !.end = "clearing"]
      BY <1>1, <1>3, <2>1 DEF ForceClosed, Session
    <2>2. CASE Finish(session.code)
      BY <1>1, <1>3, <2>2, CodeTyped, FinishEffect DEF ForceClosed
    <2>3. QED
      BY <1>3, <2>1, <2>2 DEF ForceClosed
  <1>4. CASE ExpiredCleared
    <2> DEFINE code == IF clearing.pc = "done" THEN session.code ELSE "store"
    <2>1. code \in Codes \cup {"none"}
      BY <1>1, CodeTyped DEF Codes
    <2>2. QED
      BY <1>1, <1>4, <2>1, FinishEffect DEF ExpiredCleared
  <1>5. CASE Begin
    BY <1>1, <1>5 DEF Begin, Goes, Answers, At, NoOp, Op
  <1>6. CASE Loads
    <2>1. CASE Answers /\ UNCHANGED session
      BY <1>1, <1>6, <2>1 DEF Loads, Answers, NoOp, At
    <2>2. CASE Uses(store)
      BY <1>1, <1>6, <2>2, UsesPlace DEF Loads, At
    <2>3. CASE Goes("clear") /\ UNCHANGED session
      BY <1>1, <1>6, <2>3 DEF Loads, Goes, At, Op
    <2>4. QED
      BY <1>6, <2>1, <2>2, <2>3 DEF Loads
  <1>7. CASE Cleared
    <2>1. CASE Answers /\ UNCHANGED session
      BY <1>1, <1>7, <2>1 DEF Cleared, Answers, NoOp, At
    <2>2. CASE Uses(clearing.seen)
      BY <1>1, <1>7, <2>2, UsesPlace DEF Cleared, At
    <2>3. QED
      BY <1>7, <2>1, <2>2 DEF Cleared
  <1>8. CASE ServerListens
    BY <1>1, <1>8 DEF ServerListens, Session
  <1>9. CASE BindFails
    BY <1>1, <1>9 DEF BindFails, Goes, Session, Op
  <1>10. CASE Unbound
    BY <1>1, <1>10 DEF Unbound, Answers, NoOp, At
  <1>11. CASE BoundTooLate
    BY <1>1, <1>11 DEF BoundTooLate, Goes, Session, Op
  <1>12. CASE StartBound
    BY <1>1, <1>12 DEF StartBound, Goes, Session, Op, At
  <1>13. CASE ResumeBound
    <2>1. session'.binding = FALSE /\ session'.active = session.active
      BY <1>1, <1>13 DEF ResumeBound, Session
    <2>2. Live' => Live
      BY <1>1, <1>13 DEF ResumeBound, Session
    <2>3. op'.pc \in {"ending", "idle"}
      BY <1>1, <1>13 DEF ResumeBound, Goes, Answers, NoOp, Op
    <2>4. QED
      BY <1>1, <1>13, <2>1, <2>2, <2>3 DEF ResumeBound
  <1>14. CASE Saved
    <2>1. At("save")
      BY <1>14 DEF Saved
    <2>2. CASE Goes("readback") /\ UNCHANGED session
      BY <1>1, <1>14, <2>1, <2>2 DEF Saved, At, Goes, Op
    <2>3. CASE Throws("store", FALSE)
      BY <1>1, <1>14, <2>1, <2>3, ThrowsPlace DEF Saved, At, Codes
    <2>4. QED
      BY <1>14, <2>2, <2>3 DEF Saved
  <1>15. CASE ReadBack
    <2>1. At("readback")
      BY <1>15 DEF ReadBack
    <2>2. CASE Goes("opening") /\ UNCHANGED session
      BY <1>1, <1>15, <2>1, <2>2 DEF ReadBack, At, Goes, Op
    <2>3. CASE Throws("store", FALSE)
      BY <1>1, <1>15, <2>1, <2>3, ThrowsPlace DEF ReadBack, At, Codes
    <2>4. CASE Throws(session.code, FALSE)
      BY <1>1, <1>15, <2>1, <2>4, ThrowsPlace, CodeTyped DEF ReadBack, At
    <2>5. QED
      BY <1>15, <2>2, <2>3, <2>4 DEF ReadBack
  <1>16. CASE ResultSettlesFirst
    BY <1>1, <1>16 DEF ResultSettlesFirst, Answers, NoOp, At
  <1>17. CASE Ended
    BY <1>1, <1>17 DEF Ended, Answers, NoOp, At
  <1>18. CASE ExchangeEnds
    BY <1>1, <1>18 DEF ExchangeEnds, Session
  <1>19. CASE KeyReturns
    <2>1. CASE session' = [session EXCEPT !.exchange = "none"]
      BY <1>1, <1>19, <2>1 DEF KeyReturns, Session
    <2>2. CASE session' = Completed
      BY <1>1, <1>19, <2>2 DEF KeyReturns, Completed, Session
    <2>3. QED
      BY <1>19, <2>1, <2>2 DEF KeyReturns
  <1>20. CASE ShutdownSettles
    BY <1>1, <1>20 DEF ShutdownSettles
  <1>21. CASE OpenerSettles
    <2>1. At("opening")
      BY <1>21 DEF OpenerSettles
    <2>2. CASE Answers /\ UNCHANGED session
      BY <1>1, <1>21, <2>1, <2>2 DEF OpenerSettles, At, Answers, NoOp
    <2>3. CASE Throws("browser", FALSE)
      BY <1>1, <1>21, <2>1, <2>3, ThrowsPlace DEF OpenerSettles, At, Codes
    <2>4. CASE Throws(session.code, FALSE)
      BY <1>1, <1>21, <2>1, <2>4, ThrowsPlace, CodeTyped DEF OpenerSettles, At
    <2>5. QED
      BY <1>21, <2>2, <2>3, <2>4 DEF OpenerSettles
  <1>22. CASE TimerFires
    <2>1. CASE Terminate("expired", TRUE)
      BY <1>1, <1>22, <2>1, TerminatePlace DEF TimerFires, Codes
    <2>2. CASE Terminate("timeout", FALSE)
      BY <1>1, <1>22, <2>2, TerminatePlace DEF TimerFires, Codes
    <2>3. QED
      BY <1>22, <2>1, <2>2 DEF TimerFires
  <1>23. CASE LateRequest
    BY <1>1, <1>23, TerminatePlace DEF LateRequest, Codes
  <1>24. CASE Callback
    BY <1>1, <1>24 DEF Callback, Session
  <1>25. CASE ListenerFails
    BY <1>1, <1>25, TerminatePlace DEF ListenerFails, Codes
  <1>26. CASE ShutdownCalled
    <2>1. CASE session.active /\ Terminate("shutdown", FALSE)
      BY <1>1, <1>26, <2>1, TerminatePlace DEF ShutdownCalled, Codes
    <2>2. CASE ~session.active /\ UNCHANGED session
      BY <1>1, <1>26, <2>2 DEF ShutdownCalled
    <2>3. QED
      BY <1>26, <2>1, <2>2 DEF ShutdownCalled
  <1>27. CASE Restart
    BY <1>1, <1>27 DEF Restart, NoOp, NoSession
  <1>28. ASSUME NEW kind \in {"start", "resume"}, Call(kind) PROVE OpIsAt'
    BY <1>1, <1>28 DEF Call, NoOp, NoSession, At
  <1>29. CASE UNCHANGED <<op, session, closed, shut, flows>>
    BY <1>1, <1>29
  <1>30. QED
    BY <1>2, <1>3, <1>4, <1>5, <1>6, <1>7, <1>8, <1>9, <1>10, <1>11, <1>12, <1>13, <1>14,
       <1>15, <1>16, <1>17, <1>18, <1>19, <1>20, <1>21, <1>22, <1>23, <1>24, <1>25, <1>26,
       <1>27, <1>28, <1>29
       DEF Next, Controller, EndWork, OpWork, ExchangeWork, vars,
       ClearLoads, ClearWrites, ClearVerifies, KeySaved, Tick

-----------------------------------------------------------------------------
(* The store and what is known of it.                                       *)

\* A flow that has expired stays expired.
LEMMA ExpiredStays ==
    ASSUME NEW flow \in Flow, clock \in Times, clock' = clock + 1
    PROVE  Expired(flow) => Expired(flow)'
  <1>1. flow.created \in Nat
    BY ProActivationConstants DEF ProActivationConstants, Flow, NoFlow, Times
  <1>2. QED
    BY <1>1, ProActivationConstants DEF ProActivationConstants, Expired, Times

\* A session that ends keeps its flow, and clears it only if that has expired;
LEMMA TerminateKnown ==
    ASSUME session \in Session, SessionIsWhole, StoreIsKnown, clock' = clock,
           NEW code \in Codes, NEW clears \in BOOLEAN, Terminate(code, clears),
           clears => Expired(session.pending)
    PROVE  /\ session'.pending = session.pending /\ session'.end # "none"
           /\ session'.end = "clearing" <=> session.end = "clearing"
           /\ session'.clears => Expired(session.pending)
  BY TerminateEffect DEF StoreIsKnown

\* so does that of an operation that throws;
LEMMA ThrowsKnown ==
    ASSUME session \in Session, SessionIsWhole, StoreIsKnown, clock' = clock,
           NEW code \in Codes \cup {"none"}, Throws(code, FALSE)
    PROVE  /\ session'.pending = session.pending
           /\ session'.end = "none" => ~session'.clears
           /\ session'.end = "clearing" <=> session.end = "clearing"
           /\ session'.clears => Expired(session.pending)
  BY ThrowsEffect, TerminateEffect DEF StoreIsKnown

\* and start() goes on with a store that holds no flow.
LEMMA UsesKnown ==
    ASSUME session \in Session, op \in Op, StoreIsKnown, session.end # "clearing", clock' = clock,
           NEW current, Uses(current)
    PROVE  /\ session'.end # "clearing"
           /\ session'.end = "none" => ~session'.clears
           /\ session'.clears => Expired(session'.pending)
           /\ \/ op'.pc = "idle"
              \/ /\ op'.pc = "bind" /\ op'.current = current
                 /\ op'.kind = "start" => current.pending = NoFlow
  <1>1. CASE op' = NoOp /\ session' = session
    BY <1>1 DEF NoOp, StoreIsKnown
  <1>2. CASE /\ session'.end = "none" /\ session'.clears = FALSE
             /\ op.kind = "start" => current.pending = NoFlow
             /\ op' = [op EXCEPT !.pc = "bind", !.current = current]
    BY <1>2 DEF Op
  <1>3. QED
    BY <1>1, <1>2, UsesEffect

\* Every step keeps what is known of the store.
LEMMA StoreStep == IInv /\ [Next]_vars => StoreIsKnown'
  <1> SUFFICES ASSUME IInv, [Next]_vars PROVE StoreIsKnown'
    OBVIOUS
  <1>1. /\ session \in Session /\ op \in Op /\ clearing \in Clearing /\ clock \in Times
        /\ flows \in 0..MaxFlows /\ SessionIsWhole /\ OpIsAt /\ StoreIsKnown
    BY DEF IInv, TypeOK
  <1> USE DEF StoreIsKnown, Expired
  <1>2. CASE ServerCloses
    BY <1>1, <1>2 DEF ServerCloses, Session
  <1>3. CASE ForceClosed
    <2>1. session.active /\ op.pc # "clear" /\ session.end = "closing"
      BY <1>1, <1>3 DEF ForceClosed, SessionIsWhole, OpIsAt
    <2>2. CASE /\ session.clears /\ session.pending # NoFlow
               /\ session' = [session EXCEPT !.end = "clearing"]
               /\ clearing' = [NotClearing EXCEPT !.pc = "load", !.flow = session.pending]
      BY <1>1, <1>3, <2>1, <2>2 DEF ForceClosed, Session, NotClearing
    <2>3. CASE Finish(session.code) /\ UNCHANGED clearing
      BY <1>1, <1>3, <2>1, <2>3, CodeTyped, FinishEffect DEF ForceClosed
    <2>4. QED
      BY <1>3, <2>2, <2>3 DEF ForceClosed
  <1>4. CASE ExpiredCleared
    <2> DEFINE code == IF clearing.pc = "done" THEN session.code ELSE "store"
    <2>1. code \in Codes \cup {"none"}
      BY <1>1, CodeTyped DEF Codes
    <2>2. session.active /\ op.pc # "clear"
      BY <1>1, <1>4 DEF ExpiredCleared, SessionIsWhole, OpIsAt
    <2>3. clearing'.pc = "idle"
      BY <1>4 DEF ExpiredCleared, NotClearing
    <2>4. QED
      BY <1>1, <1>4, <2>1, <2>2, <2>3, FinishEffect DEF ExpiredCleared
  <1>5. CASE ClearLoads
    <2>1. CASE clearing' = [clearing EXCEPT !.pc = "failed"]
      BY <1>1, <1>5, <2>1 DEF ClearLoads, Clearing
    <2>2. CASE /\ store.pending = clearing.flow
               /\ clearing' = [clearing EXCEPT !.seen = store, !.pc = "write"]
      BY <1>1, <1>5, <2>2 DEF ClearLoads, Clearing
    <2>3. CASE clearing' = [clearing EXCEPT !.seen = store, !.pc = "done"]
      BY <1>1, <1>5, <2>3 DEF ClearLoads, Clearing
    <2>4. QED
      BY <1>5, <2>1, <2>2, <2>3 DEF ClearLoads
  <1>6. CASE ClearWrites
    <2>1. ~(op.pc \in {"bind", "save"} /\ op.kind = "start")
      BY <1>1, <1>6 DEF ClearWrites, SessionIsWhole, OpIsAt
    <2>2. clearing'.pc \in {"verify", "failed"} /\ clearing'.flow = clearing.flow
      BY <1>1, <1>6 DEF ClearWrites, Clearing
    <2>3. QED
      BY <1>1, <1>6, <2>1, <2>2 DEF ClearWrites
  <1>7. CASE ClearVerifies
    <2>1. CASE clearing' = [clearing EXCEPT !.pc = "failed"]
      BY <1>1, <1>7, <2>1 DEF ClearVerifies, Clearing
    <2>2. CASE clearing' = [clearing EXCEPT !.seen = store, !.pc = "failed"]
      BY <1>1, <1>7, <2>2 DEF ClearVerifies, Clearing
    <2>3. CASE clearing' = [clearing EXCEPT !.seen = store, !.pc = "done"]
      BY <1>1, <1>7, <2>3 DEF ClearVerifies, Clearing
    <2>4. QED
      BY <1>7, <2>1, <2>2, <2>3 DEF ClearVerifies
  <1>8. CASE Begin
    BY <1>1, <1>8 DEF Begin, At, Goes, Answers, NoOp, Op
  <1>9. CASE Loads
    <2>1. op.pc = "load" /\ ~session.active /\ session.end # "clearing" /\ clearing.pc = "idle"
      BY <1>1, <1>9 DEF Loads, At, OpIsAt, SessionIsWhole
    <2>2. CASE Answers /\ UNCHANGED <<session, clearing>>
      BY <1>1, <1>9, <2>1, <2>2 DEF Loads, Answers, NoOp
    <2>3. CASE Uses(store) /\ UNCHANGED clearing
      BY <1>1, <1>9, <2>1, <2>3, UsesKnown DEF Loads
    <2>4. CASE /\ store.pending # NoFlow /\ Expired(store.pending) /\ Goes("clear")
               /\ clearing' = [NotClearing EXCEPT !.pc = "load", !.flow = store.pending]
               /\ UNCHANGED session
      BY <1>1, <1>9, <2>1, <2>4 DEF Loads, Goes, Op, NotClearing
    <2>5. QED
      BY <1>9, <2>2, <2>3, <2>4 DEF Loads
  <1>10. CASE Cleared
    <2>1. op.pc = "clear" /\ ~session.active /\ session.end # "clearing"
      BY <1>1, <1>10 DEF Cleared, At, OpIsAt, SessionIsWhole
    <2>2. clearing'.pc = "idle"
      BY <1>10 DEF Cleared, NotClearing
    <2>3. CASE Answers /\ UNCHANGED session
      BY <1>1, <1>10, <2>1, <2>2, <2>3 DEF Cleared, Answers, NoOp
    <2>4. CASE clearing.pc = "done" /\ Uses(store)
      BY <1>1, <1>10, <2>1, <2>2, <2>4, UsesKnown DEF Cleared
    <2>5. clearing.pc = "done" => clearing.seen = store
      BY <1>1, <2>1
    <2>6. QED
      BY <1>10, <2>3, <2>4, <2>5 DEF Cleared
  <1>11. CASE ServerListens
    BY <1>1, <1>11 DEF ServerListens, Session
  <1>12. CASE BindFails
    BY <1>1, <1>12 DEF BindFails, Goes, Session, Op, At
  <1>13. CASE Unbound
    BY <1>1, <1>13 DEF Unbound, Answers, NoOp, At
  <1>14. CASE BoundTooLate
    BY <1>1, <1>14 DEF BoundTooLate, At, Goes, Session, Op
  <1>15. CASE StartBound
    <2>1. op'.pc = "save" /\ op'.kind = "start" /\ op'.current = op.current /\ op.pc = "bind"
      BY <1>1, <1>15 DEF StartBound, Goes, At, Op
    <2>2. [id |-> flows', created |-> clock] # NoFlow
      BY <1>1, <1>15, ProActivationConstants DEF StartBound, NoFlow, ProActivationConstants
    <2>3. /\ session'.pending # NoFlow /\ session'.end = "none" /\ session'.clears = session.clears
          /\ session.end = "none"
      BY <1>1, <1>15, <2>2 DEF StartBound, Session
    <2>4. QED
      BY <1>1, <1>15, <2>1, <2>3 DEF StartBound, At
  <1>16. CASE ResumeBound
    <2>1. op'.pc \in {"ending", "idle"} /\ op.pc = "bind" /\ session.end = "none"
      BY <1>1, <1>16 DEF ResumeBound, Goes, Answers, NoOp, At, Op
    <2>2. session'.end \in {"none", "closing"}
      BY <1>1, <1>16 DEF ResumeBound, Session
    <2>3. session'.end = "none" => ~session'.clears
      BY <1>1, <1>16 DEF ResumeBound, Session
    <2>4. session'.clears => Expired(session'.pending)
      BY <1>1, <1>16 DEF ResumeBound, Session
    <2>5. QED
      BY <1>1, <1>16, <2>1, <2>2, <2>3, <2>4 DEF ResumeBound
  <1>17. CASE Saved
    <2>1. op.pc = "save" /\ clearing.pc # "write" /\ UNCHANGED <<clock, clearing>>
      BY <1>1, <1>17 DEF Saved, At
    <2>2. CASE Goes("readback") /\ UNCHANGED session
      BY <1>1, <2>1, <2>2 DEF Goes, Op
    <2>3. CASE Throws("store", FALSE)
      BY <1>1, <2>1, <2>3, ThrowsKnown, ThrowsPlace DEF Codes
    <2>4. QED
      BY <1>17, <2>2, <2>3 DEF Saved
  <1>18. CASE ReadBack
    <2>1. op.pc = "readback" /\ UNCHANGED <<clock, clearing, store>>
      BY <1>18 DEF ReadBack, At
    <2>2. CASE Goes("opening") /\ UNCHANGED session
      BY <1>1, <2>1, <2>2 DEF Goes, Op
    <2>3. CASE Throws("store", FALSE)
      BY <1>1, <2>1, <2>3, ThrowsKnown, ThrowsPlace DEF Codes
    <2>4. CASE Throws(session.code, FALSE)
      BY <1>1, <2>1, <2>4, ThrowsKnown, ThrowsPlace, CodeTyped
    <2>5. QED
      BY <1>18, <2>2, <2>3, <2>4 DEF ReadBack
  <1>19. CASE ResultSettlesFirst
    BY <1>1, <1>19 DEF ResultSettlesFirst, Answers, NoOp, At
  <1>20. CASE Ended
    BY <1>1, <1>20 DEF Ended, Answers, NoOp, At
  <1>21. CASE ExchangeEnds
    BY <1>1, <1>21 DEF ExchangeEnds, Session
  <1>22. CASE KeyReturns
    <2>1. CASE session' = [session EXCEPT !.exchange = "none"]
      BY <1>1, <1>22, <2>1 DEF KeyReturns, Session
    <2>2. CASE session' = Completed
      BY <1>1, <1>22, <2>2 DEF KeyReturns, Completed, Session
    <2>3. QED
      BY <1>22, <2>1, <2>2 DEF KeyReturns
  <1>23. CASE OpenerSettles
    <2>1. op.pc = "opening" /\ UNCHANGED <<clock, clearing, store>>
      BY <1>23 DEF OpenerSettles, At
    <2>2. CASE Answers /\ UNCHANGED session
      BY <1>1, <2>1, <2>2 DEF Answers, NoOp
    <2>3. CASE Throws("browser", FALSE)
      BY <1>1, <2>1, <2>3, ThrowsKnown, ThrowsPlace DEF Codes
    <2>4. CASE Throws(session.code, FALSE)
      BY <1>1, <2>1, <2>4, ThrowsKnown, ThrowsPlace, CodeTyped
    <2>5. QED
      BY <1>23, <2>2, <2>3, <2>4 DEF OpenerSettles
  <1>24. CASE TimerFires
    <2>1. CASE Expired(session.pending) /\ Terminate("expired", TRUE)
      BY <1>1, <1>24, <2>1, TerminateKnown DEF TimerFires, Codes
    <2>2. CASE Terminate("timeout", FALSE)
      BY <1>1, <1>24, <2>2, TerminateKnown DEF TimerFires, Codes
    <2>3. QED
      BY <1>24, <2>1, <2>2 DEF TimerFires
  <1>25. CASE LateRequest
    BY <1>1, <1>25, TerminateKnown DEF LateRequest, Codes
  <1>26. CASE Callback
    BY <1>1, <1>26 DEF Callback, Session
  <1>27. CASE ListenerFails
    BY <1>1, <1>27, TerminateKnown DEF ListenerFails, Codes
  <1>28. CASE ShutdownCalled
    <2>1. CASE Terminate("shutdown", FALSE)
      BY <1>1, <1>28, <2>1, TerminateKnown DEF ShutdownCalled, Codes
    <2>2. CASE UNCHANGED session
      BY <1>1, <1>28, <2>2 DEF ShutdownCalled
    <2>3. QED
      BY <1>28, <2>1, <2>2 DEF ShutdownCalled
  <1>29. CASE KeySaved
    <2>1. op.pc = "idle" /\ clearing.pc = "idle"
      BY <1>1, <1>29 DEF KeySaved, At, SessionIsWhole
    <2>2. QED
      BY <1>1, <1>29, <2>1 DEF KeySaved
  <1>30. CASE Tick
    BY <1>1, <1>30, ExpiredStays DEF Tick, Clearing, Session
  <1>31. CASE Restart
    BY <1>1, <1>31 DEF Restart, NoOp, NoSession, NotClearing
  <1>32. ASSUME NEW kind \in {"start", "resume"}, Call(kind) PROVE StoreIsKnown'
    <2>1. op'.pc = "called" /\ op.pc = "idle"
      BY <1>32 DEF Call, NoOp, At
    <2>2. CASE session.active /\ UNCHANGED session
      BY <1>1, <1>32, <2>1, <2>2 DEF Call
    <2>3. CASE ~session.active /\ session' = NoSession
      BY <1>1, <1>32, <2>1, <2>3 DEF Call, NoSession, SessionIsWhole
    <2>4. QED
      BY <1>32, <2>2, <2>3 DEF Call
  <1>33. CASE UNCHANGED <<clock, store, op, clearing, session>>
    BY <1>1, <1>33
  <1>34. QED
    BY <1>2, <1>3, <1>4, <1>5, <1>6, <1>7, <1>8, <1>9, <1>10, <1>11, <1>12, <1>13, <1>14,
       <1>15, <1>16, <1>17, <1>18, <1>19, <1>20, <1>21, <1>22, <1>23, <1>24, <1>25, <1>26,
       <1>27, <1>28, <1>29, <1>30, <1>31, <1>32, <1>33
       DEF Next, Controller, EndWork, OpWork, ExchangeWork, vars,
       ShutdownSettles

-----------------------------------------------------------------------------
(* The invariant and what follows from it.                                  *)

\* A new process: no session, no operation, and a store without a flow.
LEMMA InitInv == Init => IInv
  <1> SUFFICES ASSUME Init PROVE IInv
    OBVIOUS
  <1>1. TypeOK
    BY InitTyped
  <1>2. SessionIsWhole
    BY DEF Init, NoSession, SessionIsWhole, Live
  <1>3. OpIsAt
    BY DEF Init, NoSession, NoOp, OpIsAt, Live
  <1>4. StoreIsKnown
    BY DEF Init, NoSession, NoOp, NotClearing, StoreIsKnown
  <1>5. QED
    BY <1>1, <1>2, <1>3, <1>4 DEF IInv

\* Every step keeps the invariant.
LEMMA NextInv == IInv /\ [Next]_vars => IInv'
  BY TypeStep, SessionStep, OpStep, StoreStep DEF IInv

\* The inductive invariant holds.
THEOREM Invariance == Spec => []IInv
  <1>1. QED
    BY InitInv, NextInv, PTL DEF Spec

\* What a session holds open has an owner that will close it: its socket and its
\* exchange belong to the active session, a flow in progress has its timer and its
\* socket, and a session that is over has no timer.
THEOREM LiveIsOwnedHolds == Spec => []LiveIsOwned
  <1>1. IInv => LiveIsOwned
    BY DEF IInv, SessionIsWhole, LiveIsOwned
  <1>2. QED
    BY <1>1, Invariance, PTL

-----------------------------------------------------------------------------
(* The store is the authority.                                              *)

\* No step but ReadBack takes the operation to the browser.
LEMMA OpenedByReadBack == IInv /\ [Next]_vars => ReadBack \/ op' = op \/ op'.pc # "opening"
  <1> SUFFICES ASSUME IInv, [Next]_vars PROVE ReadBack \/ op' = op \/ op'.pc # "opening"
    OBVIOUS
  <1>1. op \in Op /\ session \in Session /\ SessionIsWhole
    BY DEF IInv, TypeOK
  <1>2. CASE Begin
    BY <1>1, <1>2 DEF Begin, Goes, Answers, NoOp, Op
  <1>3. CASE Loads
    <2>1. CASE Uses(store)
      BY <1>1, <2>1, UsesPlace
    <2>2. CASE Answers \/ Goes("clear")
      BY <1>1, <2>2 DEF Answers, Goes, NoOp, Op
    <2>3. QED
      BY <1>3, <2>1, <2>2 DEF Loads
  <1>4. CASE Cleared
    <2>1. CASE Uses(clearing.seen)
      BY <1>1, <2>1, UsesPlace
    <2>2. CASE Answers
      BY <2>2 DEF Answers, NoOp
    <2>3. QED
      BY <1>4, <2>1, <2>2 DEF Cleared
  <1>5. CASE BindFails
    BY <1>1, <1>5 DEF BindFails, Goes, Op
  <1>6. CASE Unbound
    BY <1>1, <1>6 DEF Unbound, Answers, NoOp
  <1>7. CASE BoundTooLate
    BY <1>1, <1>7 DEF BoundTooLate, Goes, Op
  <1>8. CASE StartBound
    BY <1>1, <1>8 DEF StartBound, Goes, Op
  <1>9. CASE ResumeBound
    BY <1>1, <1>9 DEF ResumeBound, Goes, Answers, NoOp, Op
  <1>10. CASE Saved
    <2>1. CASE Goes("readback")
      BY <1>1, <2>1 DEF Goes, Op
    <2>2. CASE Throws("store", FALSE)
      BY <1>1, <2>2, ThrowsPlace DEF Codes
    <2>3. QED
      BY <1>10, <2>1, <2>2 DEF Saved
  <1>11. CASE ResultSettlesFirst
    BY <1>1, <1>11 DEF ResultSettlesFirst, Answers, NoOp
  <1>12. CASE Ended
    BY <1>1, <1>12 DEF Ended, Answers, NoOp
  <1>13. CASE OpenerSettles
    <2>1. CASE Answers
      BY <2>1 DEF Answers, NoOp
    <2>2. CASE Throws("browser", FALSE)
      BY <1>1, <2>2, ThrowsPlace DEF Codes
    <2>3. CASE Throws(session.code, FALSE)
      BY <1>1, <2>3, ThrowsPlace, CodeTyped
    <2>4. QED
      BY <1>13, <2>1, <2>2, <2>3 DEF OpenerSettles
  <1>14. CASE Restart
    BY <1>1, <1>14 DEF Restart, NoOp
  <1>15. ASSUME NEW kind \in {"start", "resume"}, Call(kind)
         PROVE  ReadBack \/ op' = op \/ op'.pc # "opening"
    BY <1>1, <1>15 DEF Call, NoOp
  <1>16. CASE UNCHANGED op
    BY <1>1, <1>16
  <1>17. QED
    BY <1>2, <1>3, <1>4, <1>5, <1>6, <1>7, <1>8, <1>9, <1>10, <1>11, <1>12, <1>13, <1>14,
       <1>15, <1>16
       DEF Next, Controller, EndWork, OpWork, ExchangeWork, vars,
       ServerCloses, ForceClosed, ExpiredCleared, ClearLoads, ClearWrites, ClearVerifies,
       ServerListens, ExchangeEnds, KeyReturns, ShutdownSettles, TimerFires, LateRequest,
       Callback, ListenerFails, ShutdownCalled, KeySaved, Tick

\* The one step that opens the browser found the flow in the store.
LEMMA OpensStored ==
    IInv /\ [Next]_vars =>
      (op'.pc = "opening" /\ ~At("opening") =>
         /\ store'.pending = session'.pending /\ session'.pending # NoFlow
         /\ session'.listen = "open" /\ session'.timer = "armed")
  <1> SUFFICES ASSUME IInv, [Next]_vars, op'.pc = "opening", ~At("opening")
               PROVE  /\ store'.pending = session'.pending /\ session'.pending # NoFlow
                      /\ session'.listen = "open" /\ session'.timer = "armed"
    OBVIOUS
  <1>1. op \in Op /\ session \in Session /\ SessionIsWhole
    BY DEF IInv, TypeOK
  <1>2. CASE ReadBack
    <2>1. ~(op'.pc \in {"ending", "idle"})
      OBVIOUS
    <2>2. ~Throws("store", FALSE) /\ ~Throws(session.code, FALSE)
      BY <1>1, <2>1, ThrowsPlace, CodeTyped DEF Codes
    <2>3. /\ store = [op.current EXCEPT !.pending = session.pending]
          /\ Live /\ UNCHANGED <<session, store>>
      BY <1>2, <2>2 DEF ReadBack
    <2>4. session.pending # NoFlow /\ ~session.binding
      BY <1>2 DEF ReadBack, At, IInv, StoreIsKnown, OpIsAt
    <2>5. store.pending = session.pending
      BY <1>1, <2>3 DEF Op, Envelope
    <2>6. QED
      BY <1>1, <2>3, <2>4, <2>5 DEF SessionIsWhole
  <1>3. CASE ~ReadBack
    BY <1>3, OpenedByReadBack DEF At
  <1>4. QED
    BY <1>2, <1>3

\* The controller writes to the store only what it knows of it.
LEMMA WritesKnown ==
    IInv /\ [Next]_vars =>
      (Controller =>
         /\ store'.key = store.key
         /\ store'.pending # store.pending =>
              \/ store.pending = NoFlow /\ store'.pending = session.pending
              \/ store'.pending = NoFlow /\ Expired(store.pending))
  <1> DEFINE Kept == /\ store'.key = store.key
                     /\ store'.pending # store.pending =>
                          \/ store.pending = NoFlow /\ store'.pending = session.pending
                          \/ store'.pending = NoFlow /\ Expired(store.pending)
  <1> SUFFICES ASSUME IInv, Controller PROVE Kept
    OBVIOUS
  <1>1. store \in Envelope /\ StoreIsKnown
    BY DEF IInv, TypeOK
  <1>2. CASE ClearWrites
    <2>1. clearing.seen = store /\ Expired(store.pending)
      BY <1>1, <1>2 DEF ClearWrites, StoreIsKnown
    <2>2. CASE store' = store
      BY <2>2
    <2>3. CASE store' = [store EXCEPT !.pending = NoFlow]
      BY <1>1, <2>1, <2>3 DEF Envelope
    <2>4. QED
      BY <1>2, <2>1, <2>2, <2>3 DEF ClearWrites
  <1>3. CASE Saved
    <2>1. op.current = store /\ store.pending = NoFlow
      BY <1>1, <1>3 DEF Saved, At, StoreIsKnown
    <2>2. CASE store' = store
      BY <2>2
    <2>3. CASE store' = [store EXCEPT !.pending = session.pending]
      BY <1>1, <2>1, <2>3 DEF Envelope
    <2>4. QED
      BY <1>3, <2>1, <2>2, <2>3 DEF Saved
  <1>4. CASE UNCHANGED store
    BY <1>4
  <1>5. QED
    BY <1>2, <1>3, <1>4
       DEF Controller, EndWork, OpWork, ExchangeWork,
       ServerCloses, ForceClosed, ExpiredCleared, ClearLoads, ClearVerifies, Begin, Loads,
       Cleared, ServerListens, BindFails, Unbound, BoundTooLate, StartBound, ResumeBound,
       ReadBack, ResultSettlesFirst, Ended, ExchangeEnds, KeyReturns, ShutdownSettles,
       OpenerSettles, TimerFires, LateRequest, Callback, ListenerFails, ShutdownCalled, Call

\* The store, and not an answer of it, says what may be opened, kept or cleared: the
\* browser is opened only for the flow it holds, its license key is never changed,
\* and a flow leaves it only when it has expired.
THEOREM StoreIsAuthorityHolds == Spec => StoreIsAuthority
  <1>1. Spec => OpensStoredFlow
    BY OpensStored, Invariance, PTL DEF Spec, OpensStoredFlow
  <1>2. Spec => StoreIsKept
    BY WritesKnown, Invariance, PTL DEF Spec, StoreIsKept
  <1>3. QED
    BY <1>1, <1>2 DEF StoreIsAuthority

-----------------------------------------------------------------------------
(* What main.js relies on: ActivationFlow.                                  *)

\* A step of the flow, or one that does not show.
FlowStep == [Promised!FlowNext]_(Promised!flowVars)

\* A step that neither answers nor settles the result does not show;
LEMMA Stays ==
    ASSUME session'.result = session.result, op'.pc = "idle" <=> op.pc = "idle", shut' = shut
    PROVE  FlowStep
  BY DEF FlowStep, Promised!flowVars

\* one that leaves the result alone may be the answer of the operation;
LEMMA AnswersOrStays ==
    ASSUME session'.result = session.result, op.pc # "idle", shut' = shut
    PROVE  FlowStep
  <1>1. CASE op'.pc = "idle"
    <2>1. Promised!Answer
      BY <1>1 DEF Promised!Answer
    <2>2. QED
      BY <2>1 DEF FlowStep, Promised!FlowNext
  <1>2. CASE op'.pc # "idle"
    BY <1>2, Stays
  <1>3. QED
    BY <1>1, <1>2

\* and one that settles an open result with a code is its failure.
LEMMA Fails ==
    ASSUME session.result = "open", session'.result \in Codes,
           op'.pc = "idle" <=> op.pc = "idle", shut' = shut
    PROVE  FlowStep
  <1>1. "open" \notin Codes
    BY DEF Codes
  <1>2. Promised!Fail
    BY <1>1 DEF Promised!Fail
  <1>3. QED
    BY <1>2 DEF FlowStep, Promised!FlowNext

\* An operation that throws has answered, or has its session to end first.
LEMMA ThrowsMaps ==
    ASSUME session \in Session, op \in Op, op.pc # "idle", shut' = shut,
           NEW code \in Codes \cup {"none"}, Throws(code, FALSE)
    PROVE  FlowStep
  <1>1. session'.result = session.result
    BY ThrowsEffect, TerminateEffect
  <1>2. QED
    BY <1>1, AnswersOrStays

\* One that uses what was loaded listens, or has answered.
LEMMA UsesMaps ==
    ASSUME session \in Session, op \in Op, OpIsAt, op.pc # "idle", session.result # "open",
           shut' = shut, NEW current, Uses(current)
    PROVE  FlowStep
  <1>1. CASE session' = session
    BY <1>1, AnswersOrStays
  <1>2. CASE ~closed /\ op'.pc = "bind" /\ session'.result = "open"
    <2>1. Promised!Listen
      BY <1>2 DEF Promised!Listen, OpIsAt, Codes
    <2>2. QED
      BY <2>1 DEF FlowStep, Promised!FlowNext
  <1>3. QED
    <2>1. session' = session \/ session'.result = "open"
      BY UsesEffect
    <2>2. session' = session \/ (~closed /\ op'.pc = "bind")
      BY UsesEffect, UsesPlace
    <2>3. QED
      BY <1>1, <1>2, <2>1, <2>2

\* Every step is a step of the flow, or does not show.
LEMMA FlowStepMaps == IInv /\ [Next]_vars => FlowStep
  <1> SUFFICES ASSUME IInv, [Next]_vars PROVE FlowStep
    OBVIOUS
  <1>1. /\ session \in Session /\ op \in Op /\ SessionIsWhole /\ OpIsAt
    BY DEF IInv, TypeOK
  <1>2. CASE ServerCloses
    BY <1>1, <1>2, Stays DEF ServerCloses, Session
  <1>3. CASE ForceClosed
    <2>1. CASE session' = [session EXCEPT !.end = "clearing"]
      BY <1>1, <1>3, <2>1, Stays DEF ForceClosed, Session
    <2>2. CASE Finish(session.code)
      BY <1>1, <1>3, <2>2, FinishEffect, Fails DEF ForceClosed, SessionIsWhole
    <2>3. QED
      BY <1>3, <2>1, <2>2 DEF ForceClosed
  <1>4. CASE ExpiredCleared
    <2> DEFINE code == IF clearing.pc = "done" THEN session.code ELSE "store"
    <2>1. code \in Codes /\ session.result = "open"
      BY <1>1, <1>4 DEF ExpiredCleared, SessionIsWhole, Codes
    <2>2. QED
      BY <1>1, <1>4, <2>1, FinishEffect, Fails DEF ExpiredCleared
  <1>5. CASE Begin
    BY <1>1, <1>5, AnswersOrStays DEF Begin, At, Goes, Answers, NoOp, Op
  <1>6. CASE Loads
    <2>1. op.pc = "load" /\ session.result # "open" /\ shut' = shut
      BY <1>1, <1>6 DEF Loads, At, OpIsAt, SessionIsWhole
    <2>2. CASE Answers /\ UNCHANGED session
      BY <1>1, <2>1, <2>2, AnswersOrStays DEF Answers, NoOp
    <2>3. CASE Goes("clear") /\ UNCHANGED session
      BY <1>1, <2>1, <2>3, Stays DEF Goes, Op
    <2>4. CASE Uses(store)
      BY <1>1, <2>1, <2>4, UsesMaps
    <2>5. QED
      BY <1>6, <2>2, <2>3, <2>4 DEF Loads
  <1>7. CASE Cleared
    <2>1. op.pc = "clear" /\ session.result # "open" /\ shut' = shut
      BY <1>1, <1>7 DEF Cleared, At, OpIsAt, SessionIsWhole
    <2>2. CASE Answers /\ UNCHANGED session
      BY <1>1, <2>1, <2>2, AnswersOrStays DEF Answers, NoOp
    <2>3. CASE Uses(clearing.seen)
      BY <1>1, <2>1, <2>3, UsesMaps
    <2>4. QED
      BY <1>7, <2>2, <2>3 DEF Cleared
  <1>8. CASE ServerListens
    BY <1>1, <1>8, Stays DEF ServerListens, Session
  <1>9. CASE BindFails
    <2>1. op.pc = "bind" /\ op'.pc = "unbind" /\ shut' = shut
      BY <1>1, <1>9 DEF BindFails, At, Goes, Op
    <2>2. session.result = "open" /\ session'.result = "listener"
      BY <1>1, <1>9, <2>1 DEF BindFails, OpIsAt, SessionIsWhole, Session
    <2>3. QED
      BY <2>1, <2>2, Fails DEF Codes
  <1>10. CASE Unbound
    BY <1>1, <1>10, AnswersOrStays DEF Unbound, Answers, NoOp, At
  <1>11. CASE BoundTooLate
    BY <1>1, <1>11, Stays DEF BoundTooLate, At, Goes, Op, Session
  <1>12. CASE StartBound
    BY <1>1, <1>12, Stays DEF StartBound, At, Goes, Op, Session
  <1>13. CASE ResumeBound
    <2>1. session'.result = session.result /\ op.pc = "bind" /\ shut' = shut
      BY <1>1, <1>13 DEF ResumeBound, Session, At
    <2>2. op'.pc \in {"ending", "idle"}
      BY <1>1, <1>13 DEF ResumeBound, Goes, Answers, NoOp, Op
    <2>3. QED
      BY <2>1, <2>2, AnswersOrStays
  <1>14. CASE Saved
    <2>1. op.pc = "save" /\ shut' = shut
      BY <1>14 DEF Saved, At
    <2>2. CASE Goes("readback") /\ UNCHANGED session
      BY <1>1, <2>1, <2>2, Stays DEF Goes, Op
    <2>3. CASE Throws("store", FALSE)
      BY <1>1, <2>1, <2>3, ThrowsMaps DEF Codes
    <2>4. QED
      BY <1>14, <2>2, <2>3 DEF Saved
  <1>15. CASE ReadBack
    <2>1. op.pc = "readback" /\ shut' = shut
      BY <1>15 DEF ReadBack, At
    <2>2. CASE Goes("opening") /\ UNCHANGED session
      BY <1>1, <2>1, <2>2, Stays DEF Goes, Op
    <2>3. CASE Throws("store", FALSE)
      BY <1>1, <2>1, <2>3, ThrowsMaps DEF Codes
    <2>4. CASE Throws(session.code, FALSE)
      BY <1>1, <2>1, <2>4, ThrowsMaps, CodeTyped
    <2>5. QED
      BY <1>15, <2>2, <2>3, <2>4 DEF ReadBack
  <1>16. CASE ResultSettlesFirst
    BY <1>1, <1>16, AnswersOrStays DEF ResultSettlesFirst, Answers, NoOp, At
  <1>17. CASE Ended
    BY <1>1, <1>17, AnswersOrStays DEF Ended, Answers, NoOp, At
  <1>18. CASE ExchangeEnds
    BY <1>1, <1>18, Stays DEF ExchangeEnds, Session
  <1>19. CASE KeyReturns
    <2>1. CASE session' = [session EXCEPT !.exchange = "none"]
      BY <1>1, <1>19, <2>1, Stays DEF KeyReturns, Session
    <2>2. CASE Live /\ session' = Completed
      <3>1. session.result = "open" /\ shut = "no" /\ session'.result = "key"
        BY <1>1, <2>2 DEF Completed, Session, SessionIsWhole, OpIsAt, Live
      <3>2. Promised!Deliver
        BY <1>19, <3>1 DEF KeyReturns, Promised!Deliver, Codes
      <3>3. QED
        BY <3>2 DEF FlowStep, Promised!FlowNext
    <2>3. QED
      BY <1>19, <2>1, <2>2 DEF KeyReturns
  <1>20. CASE ShutdownSettles
    <2>1. session.result # "open" /\ op.pc = "idle"
      BY <1>1, <1>20 DEF ShutdownSettles, At, SessionIsWhole
    <2>2. Promised!Down
      BY <1>20, <2>1 DEF ShutdownSettles, Promised!Down, Codes
    <2>3. QED
      BY <2>2 DEF FlowStep, Promised!FlowNext
  <1>21. CASE OpenerSettles
    <2>1. op.pc = "opening" /\ shut' = shut
      BY <1>21 DEF OpenerSettles, At
    <2>2. CASE Answers /\ UNCHANGED session
      BY <1>1, <2>1, <2>2, AnswersOrStays DEF Answers, NoOp
    <2>3. CASE Throws("browser", FALSE)
      BY <1>1, <2>1, <2>3, ThrowsMaps DEF Codes
    <2>4. CASE Throws(session.code, FALSE)
      BY <1>1, <2>1, <2>4, ThrowsMaps, CodeTyped
    <2>5. QED
      BY <1>21, <2>2, <2>3, <2>4 DEF OpenerSettles
  <1>22. CASE TimerFires
    <2>1. CASE Terminate("expired", TRUE)
      BY <1>1, <1>22, <2>1, TerminateEffect, Stays DEF TimerFires, Codes
    <2>2. CASE Terminate("timeout", FALSE)
      BY <1>1, <1>22, <2>2, TerminateEffect, Stays DEF TimerFires, Codes
    <2>3. QED
      BY <1>22, <2>1, <2>2 DEF TimerFires
  <1>23. CASE LateRequest
    BY <1>1, <1>23, TerminateEffect, Stays DEF LateRequest, Codes
  <1>24. CASE Callback
    BY <1>1, <1>24, Stays DEF Callback, Session
  <1>25. CASE ListenerFails
    BY <1>1, <1>25, TerminateEffect, Stays DEF ListenerFails, Codes
  <1>26. CASE ShutdownCalled
    <2>1. session'.result = session.result
      BY <1>1, <1>26, TerminateEffect DEF ShutdownCalled, Codes
    <2>2. Promised!Shutdown
      BY <1>26, <2>1 DEF ShutdownCalled, Promised!Shutdown
    <2>3. QED
      BY <2>2 DEF FlowStep, Promised!FlowNext
  <1>27. CASE Restart
    <2>1. Promised!Renew
      BY <1>27 DEF Restart, NoOp, NoSession, Promised!Renew, Codes
    <2>2. QED
      BY <2>1 DEF FlowStep, Promised!FlowNext
  <1>28. ASSUME NEW kind \in {"start", "resume"}, Call(kind) PROVE FlowStep
    <2>1. /\ op.pc = "idle" /\ op'.pc = "called" /\ shut = "no" /\ shut' = shut
          /\ session.result = "open" => session'.result = "open"
          /\ session.result # "open" => session'.result = "none"
      BY <1>1, <1>28 DEF Call, At, NoOp, NoSession, OpIsAt, SessionIsWhole
    <2>2. Promised!Ask
      BY <2>1 DEF Promised!Ask, Codes
    <2>3. QED
      BY <2>2 DEF FlowStep, Promised!FlowNext
  <1>29. CASE UNCHANGED <<op, session, shut>>
    BY Stays, <1>29
  <1>30. QED
    BY <1>2, <1>3, <1>4, <1>5, <1>6, <1>7, <1>8, <1>9, <1>10, <1>11, <1>12, <1>13, <1>14,
       <1>15, <1>16, <1>17, <1>18, <1>19, <1>20, <1>21, <1>22, <1>23, <1>24, <1>25, <1>26,
       <1>27, <1>28, <1>29
       DEF Next, Controller, EndWork, OpWork, ExchangeWork, vars,
       ClearLoads, ClearWrites, ClearVerifies, KeySaved, Tick

\* The controller is what main.js relies on: one settlement per flow, no key after
\* shutdown() was asked for, and no answer to shutdown() before the operation and
\* the flow have ended.
THEOREM ActivationImplementsFlow == Spec => ImplementsFlow
  <1>1. Init => Promised!FlowInit
    BY DEF Init, NoOp, NoSession, Codes, Promised!FlowInit
  <1>2. IInv /\ [Next]_vars => [Promised!FlowNext]_(Promised!flowVars)
    BY FlowStepMaps DEF FlowStep
  <1>3. QED
    BY <1>1, <1>2, Invariance, PTL DEF Spec, ImplementsFlow, Promised!FlowSpec

================================================================================
