------------------------- MODULE SessionTurnProofs -------------------------
(***************************************************************************)
(* Proofs about the turn lifecycle, for any number of requests.            *)
(***************************************************************************)
EXTENDS SessionTurn, SequenceTheorems, TLAPS

\* Tasks of different kinds, or of different clients, are different tasks.
LEMMA ProcFacts ==
    /\ \A k \in Client : Req(k) \in Requests /\ Req(k) \in Proc
    /\ \A k \in Client : Spawned(k) \in Drainers /\ Spawned(k) \in Proc
    /\ \A t \in Input : Post(t) \in Drainers /\ Post(t) \in Proc
    /\ \A p \in Drainers : p \in Proc /\ p \notin Requests
    /\ \A p \in Requests : p \in Proc /\ p \notin Drainers
    /\ \A i, j \in Client : Req(i) = Req(j) => i = j
    /\ NoProc \notin Proc
    /\ Input \subseteq Client /\ Interrupters \subseteq Client
BY DEF Req, Spawned, Post, Requests, Drainers, Proc, NoProc, Client

-----------------------------------------------------------------------------
(***************************************************************************)
(* Type correctness.  The steps of requests, launches, turn tasks, drains  *)
(* and interrupts are proved apart.                                        *)
(***************************************************************************)

\* A request's own admission step keeps the types (handlers/turn.rs:191-626).
LEMMA RequestStepType ==
    ASSUME TypeOK, NEW i \in Input, RequestStep(i)
    PROVE  TypeOK'
<1> USE ProcFacts DEF TypeOK, Turn, Goto, ReqPcs, DrainPcs
<1>1. CASE StartRequest(i)
  <2> USE <1>1 DEF StartRequest, CancelSavedTurn, actorVars, turnVars, statusVars
  <2>1. CASE SavedTurn
    <3>1. latest.turn \in Turn
      OBVIOUS
    <3>2. held' = [held EXCEPT ![Req(i)] = latest.turn] /\ recoveryGate' = Req(i)
          /\ pc' = [pc EXCEPT ![Req(i)] = "savedCommit"]
      BY <2>1
    <3> QED BY <2>1, <3>1, <3>2
  <2>2. CASE ~SavedTurn
    BY <2>2 DEF AfterNoSavedTurn
  <2> QED BY <2>1, <2>2
<1>2. CASE PushRequest(i)
  BY <1>2 DEF PushRequest, actorVars, turnVars, statusVars, lockVars
<1>3. CASE CheckRegistry(i)
  BY <1>3 DEF CheckRegistry, actorVars, turnVars, statusVars, lockVars
<1>4. CASE ReservationSnapshot(i)
  BY <1>4 DEF ReservationSnapshot, BusyPc, actorVars, turnVars, statusVars, lockVars
<1>5. CASE AdmitUnderGate(i)
  BY <1>5 DEF AdmitUnderGate, AdmitPc, BusyPc, actorVars, turnVars, statusVars
<1>6. CASE Enqueue(i)
  <2> USE <1>6 DEF Enqueue, Enqueued, AfterEnqueue
  <2>1. pc' \in [Proc -> ReqPcs \cup DrainPcs]
    OBVIOUS
  <2>2. queue' \in Seq(Input) /\ gate' \in Proc \cup {NoProc}
    OBVIOUS
  <2>3. mode' \in [Drainers -> {"none", "chain", "next", "kick"}]
    OBVIOUS
  <2> QED BY <2>1, <2>2, <2>3 DEF actorVars, turnVars, statusVars
<1>7. CASE Begin(i)
  BY <1>7 DEF Begin, turnVars, statusVars
<1>8. CASE PersistStart(i)
  <2> USE <1>8 DEF PersistStart, TakenBack, turnVars, statusVars, lockVars
  <2>1. CASE pc' = [pc EXCEPT ![Req(i)] = "token"] /\ UNCHANGED <<active, held>>
    BY <2>1
  <2>2. CASE /\ pc' = [pc EXCEPT ![Req(i)] = "failed"]
             /\ active' = TakenBack(i)
             /\ held' = [held EXCEPT ![Req(i)] = NoTurn]
    BY <2>2
  <2> QED BY <2>1, <2>2
<1>9. CASE PushAnswer(i)
  BY <1>9 DEF PushAnswer, actorVars, turnVars, statusVars, lockVars
<1>10. CASE RefuseInput(i)
  BY <1>10 DEF RefuseInput, actorVars, turnVars, statusVars
<1> QED BY <1>1, <1>2, <1>3, <1>4, <1>5, <1>6, <1>7, <1>8, <1>9, <1>10 DEF RequestStep

\* Canceling a saved turn keeps the types (turn_exec/recovery.rs:142-195).
LEMMA SavedTurnStepType ==
    ASSUME TypeOK, NEW k \in Client, SavedTurnStep(k)
    PROVE  TypeOK'
<1> USE ProcFacts DEF TypeOK, Turn, Goto, ReqPcs, DrainPcs
<1>1. CASE SavedTurnCommit(k)
  BY <1>1 DEF SavedTurnCommit, actorVars, turnVars, lockVars
<1>2. CASE SavedTurnIdle(k)
  BY <1>2 DEF SavedTurnIdle, Statuses, turnVars, statusVars, lockVars
<1>3. CASE SavedTurnRecord(k)
  BY <1>3 DEF SavedTurnRecord, Statuses, actorVars, turnVars
<1> QED BY <1>1, <1>2, <1>3 DEF SavedTurnStep

\* Launching a turn keeps the types (active_turn.rs:140-197).
LEMMA LaunchStepType ==
    ASSUME TypeOK, NEW p \in Proc, LaunchStep(p)
    PROVE  TypeOK'
<1> USE ProcFacts DEF TypeOK, Turn, Goto, ReqPcs, DrainPcs
<1>1. CASE InsertCancelToken(p)
  BY <1>1 DEF InsertCancelToken, actorVars, turnVars, statusVars, lockVars
<1>2. CASE RegisterTurn(p)
  BY <1>2 DEF RegisterTurn, actorVars, turnVars, statusVars
<1>3. CASE SpawnTask(p)
  BY <1>3 DEF SpawnTask, actorVars, statusVars, lockVars
<1>4. CASE SetAbortHandle(p)
  BY <1>4 DEF SetAbortHandle, actorVars, turnVars, statusVars, lockVars
<1> QED BY <1>1, <1>2, <1>3, <1>4 DEF LaunchStep

\* The turn task keeps the types (session_actor/turn.rs:18-166).
LEMMA TaskStepType ==
    ASSUME TypeOK, NEW t \in Input, TaskStep(t)
    PROVE  TypeOK'
<1> USE ProcFacts DEF TypeOK, Turn, Goto, ReqPcs, DrainPcs
<1>1. CASE Checkout(t)
  BY <1>1 DEF Checkout, actorVars, statusVars, lockVars, procVars
<1>2. CASE StartQuery(t)
  BY <1>2 DEF StartQuery, actorVars, statusVars, lockVars, procVars
<1>3. CASE EndQuery(t)
  <2>1. PICK o \in Statuses : outcome' = [outcome EXCEPT ![t] = o]
    BY <1>3, ClientAssumption DEF EndQuery, Statuses
  <2> QED BY <1>3, <2>1 DEF EndQuery, actorVars, statusVars, lockVars, procVars
<1>4. CASE SaveDisposition(t)
  BY <1>4 DEF SaveDisposition, SavedAs, actorVars, lockVars, procVars
<1>5. CASE RecordTerminal(t)
  BY <1>5 DEF RecordTerminal, actorVars, lockVars, procVars
<1>6. CASE Merge(t)
  BY <1>6 DEF Merge, statusVars, lockVars, procVars
<1>7. CASE ClearHandles(t)
  BY <1>7 DEF ClearHandles, EmptyEntry, actorVars, statusVars, lockVars, procVars
<1>8. CASE SchedulePostTurn(t)
  BY <1>8 DEF SchedulePostTurn, actorVars, statusVars, lockVars
<1>9. CASE TaskStops(t)
  BY <1>9 DEF TaskStops, actorVars, statusVars, lockVars, procVars
<1> QED BY <1>1, <1>2, <1>3, <1>4, <1>5, <1>6, <1>7, <1>8, <1>9 DEF TaskStep

\* The drains keep the types (turn_exec/followup.rs:37-336).
LEMMA DrainStepType ==
    ASSUME TypeOK, NEW p \in Drainers, DrainStep(p)
    PROVE  TypeOK'
<1> USE ProcFacts DEF TypeOK, Turn, Goto, ReqPcs, DrainPcs
<1>1. CASE PostTurnCheck(p)
  BY <1>1 DEF PostTurnCheck, actorVars, turnVars, statusVars, lockVars
<1>2. CASE KickCheck(p)
  BY <1>2 DEF KickCheck, actorVars, turnVars, statusVars, lockVars
<1>3. CASE TakeGate(p)
  BY <1>3 DEF TakeGate, actorVars, turnVars, statusVars
<1>4. CASE PopNothing(p)
  BY <1>4 DEF PopNothing, actorVars, turnVars, statusVars
<1>5. CASE PopInput(p)
  <2>1. Head(queue) \in Input /\ Tail(queue) \in Seq(Input)
    BY <1>5, HeadTailProperties DEF PopInput, MayPop
  <2> QED BY <1>5, <2>1 DEF PopInput, NextInput, QueuePopped, actorVars, turnVars, statusVars,
                            lockVars
<1>6. CASE Activate(p)
  BY <1>6 DEF Activate, turnVars, statusVars, lockVars
<1> QED BY <1>1, <1>2, <1>3, <1>4, <1>5, <1>6 DEF DrainStep

\* An interrupt keeps the types (handlers/turn_interrupt.rs:108-473).
LEMMA InterruptStepType ==
    ASSUME TypeOK, NEW i \in Interrupters, InterruptStep(i) \/ InterruptTimeout(i)
    PROVE  TypeOK'
<1> USE ProcFacts DEF TypeOK, Turn, Goto, ReqPcs, DrainPcs
<1>1. CASE InterruptLookup(i)
  <2> USE <1>1 DEF InterruptLookup, actorVars, turnVars, statusVars
  <2>1. CASE UNCHANGED <<recoveryGate, held>>
    <3>1. PICK l \in ReqPcs : pc' = [pc EXCEPT ![Req(i)] = l]
      BY <2>1 DEF CancelSavedTurn, AfterNoSavedTurn
    <3> QED BY <2>1, <3>1
  <2>2. CASE CancelSavedTurn(i) /\ SavedTurn
    <3>1. latest.turn \in Turn
      OBVIOUS
    <3>2. /\ held' = [held EXCEPT ![Req(i)] = latest.turn]
          /\ recoveryGate' = Req(i)
          /\ pc' = [pc EXCEPT ![Req(i)] = "savedCommit"]
      BY <2>2 DEF CancelSavedTurn
    <3> QED BY <3>1, <3>2
  <2> QED BY <2>1, <2>2 DEF CancelSavedTurn
<1>2. CASE InterruptSubscribe(i)
  BY <1>2 DEF InterruptSubscribe, actorVars, turnVars, statusVars, lockVars
<1>3. CASE InterruptDispose(i)
  BY <1>3 DEF InterruptDispose, actorVars, turnVars, lockVars
<1>4. CASE InterruptSignal(i)
  BY <1>4 DEF InterruptSignal, actorVars, turnVars, lockVars
<1>5. CASE InterruptAnswered(i)
  BY <1>5 DEF InterruptAnswered, actorVars, turnVars, statusVars, lockVars
<1>6. CASE InterruptAbort(i)
  BY <1>6 DEF InterruptAbort, actorVars, turnVars, lockVars
<1>7. CASE InterruptRecheck(i)
  BY <1>7 DEF InterruptRecheck, actorVars, turnVars, statusVars, lockVars
<1>8. CASE InterruptClaim(i)
  BY <1>8 DEF InterruptClaim, Statuses, turnVars, statusVars, lockVars
<1>9. CASE InterruptClear(i)
  BY <1>9 DEF InterruptClear, EmptyEntry, actorVars, turnVars, statusVars, lockVars
<1>10. CASE InterruptRecord(i)
  BY <1>10 DEF InterruptRecord, Statuses, actorVars, turnVars, lockVars
<1>11. CASE InterruptTimeout(i)
  BY <1>11 DEF InterruptTimeout, actorVars, turnVars, statusVars, lockVars
<1> QED BY <1>1, <1>2, <1>3, <1>4, <1>5, <1>6, <1>7, <1>8, <1>9, <1>10, <1>11 DEF InterruptStep

\* No step of the runtime breaks the types.
LEMMA StepType == TypeOK /\ [Next]_vars => TypeOK'
<1> SUFFICES ASSUME TypeOK, [Next]_vars PROVE TypeOK'
  OBVIOUS
<1>1. CASE \E i \in Input : RequestStep(i)
  BY <1>1, RequestStepType
<1>2. CASE \E k \in Client : SavedTurnStep(k)
  BY <1>2, SavedTurnStepType
<1>3. CASE \E p \in Proc : LaunchStep(p)
  BY <1>3, LaunchStepType
<1>4. CASE \E t \in Input : TaskStep(t)
  BY <1>4, TaskStepType
<1>5. CASE \E p \in Drainers : DrainStep(p)
  BY <1>5, DrainStepType
<1>6. CASE \E i \in Interrupters : InterruptStep(i) \/ InterruptTimeout(i)
  BY <1>6, InterruptStepType
<1>7. CASE \E i \in Interrupters, t \in Input : InterruptRequest(i, t)
  BY <1>7, ProcFacts DEF InterruptRequest, TypeOK, Turn, Goto, ReqPcs, actorVars, turnVars,
                         statusVars, lockVars
<1>8. CASE UNCHANGED vars
  BY <1>8 DEF vars, TypeOK
<1> QED BY <1>1, <1>2, <1>3, <1>4, <1>5, <1>6, <1>7, <1>8 DEF Next, Rest

LEMMA InitType == Init => TypeOK
BY ProcFacts DEF Init, TypeOK, Turn, EmptyEntry, ReqPcs, DrainPcs, Statuses

\* The variables always have their types.
THEOREM TypeCorrect == Spec => []TypeOK
BY InitType, StepType, PTL DEF Spec

-----------------------------------------------------------------------------
(***************************************************************************)
(* Admission.  IdleAdmission is not inductive: that the session is still   *)
(* idle when the turn begins rests on the gate, because only a holder of   *)
(* the gate makes a turn active.                                           *)
(***************************************************************************)
AdmissionInv == TypeOK /\ GateDiscipline /\ IdleAdmission

\* A request's own admission step keeps the gate discipline and admits to an
\* idle session (handlers/turn.rs:271-626).
LEMMA RequestStepAdmission ==
    ASSUME AdmissionInv, NEW i \in Input, RequestStep(i)
    PROVE  GateDiscipline' /\ IdleAdmission'
<1> USE ProcFacts DEF Goto, GateDiscipline, IdleAdmission
<1>0. /\ pc \in [Proc -> ReqPcs \cup DrainPcs]
      /\ mode \in [Drainers -> {"none", "chain", "next", "kick"}]
      /\ GateDiscipline /\ IdleAdmission
  BY DEF AdmissionInv, TypeOK
<1>1. CASE StartRequest(i)
  <2>1. AfterNoSavedTurn(i) \in {"answered", "rejected", "checkRegistry"}
    BY DEF AfterNoSavedTurn
  <2> QED BY <1>0, <1>1, <2>1 DEF StartRequest, CancelSavedTurn, actorVars
<1>2. CASE PushRequest(i)
  BY <1>0, <1>2 DEF PushRequest, actorVars, lockVars
<1>3. CASE CheckRegistry(i)
  BY <1>0, <1>3 DEF CheckRegistry, actorVars, lockVars
<1>4. CASE ReservationSnapshot(i)
  BY <1>0, <1>4 DEF ReservationSnapshot, BusyPc, actorVars, lockVars
<1>5. CASE AdmitUnderGate(i)
  BY <1>0, <1>5 DEF AdmitUnderGate, AdmitPc, BusyPc, actorVars
<1>6. CASE Enqueue(i)
  BY <1>0, <1>6 DEF Enqueue, AfterEnqueue, actorVars
<1>7. CASE Begin(i)
  BY <1>0, <1>7 DEF Begin
<1>8. CASE PersistStart(i)
  BY <1>0, <1>8 DEF PersistStart, TakenBack, lockVars
<1>9. CASE PushAnswer(i)
  BY <1>0, <1>9 DEF PushAnswer, actorVars, turnVars, statusVars, lockVars
<1>10. CASE RefuseInput(i)
  BY <1>0, <1>10 DEF RefuseInput, actorVars
<1> QED BY <1>1, <1>2, <1>3, <1>4, <1>5, <1>6, <1>7, <1>8, <1>9, <1>10 DEF RequestStep

\* Canceling a saved turn keeps them (turn_exec/recovery.rs:142-195).
LEMMA SavedTurnStepAdmission ==
    ASSUME AdmissionInv, NEW k \in Client, SavedTurnStep(k)
    PROVE  GateDiscipline' /\ IdleAdmission'
<1> USE ProcFacts DEF Goto, GateDiscipline, IdleAdmission
<1>0. /\ pc \in [Proc -> ReqPcs \cup DrainPcs]
      /\ mode \in [Drainers -> {"none", "chain", "next", "kick"}]
      /\ GateDiscipline /\ IdleAdmission
  BY DEF AdmissionInv, TypeOK
<1>1. CASE SavedTurnCommit(k)
  BY <1>0, <1>1 DEF SavedTurnCommit, actorVars, lockVars
<1>2. CASE SavedTurnIdle(k)
  BY <1>0, <1>2 DEF SavedTurnIdle, lockVars
<1>3. CASE SavedTurnRecord(k)
  BY <1>0, <1>3 DEF SavedTurnRecord, actorVars
<1> QED BY <1>1, <1>2, <1>3 DEF SavedTurnStep

\* Launching a turn keeps them: the gate is released only by its holder
\* (turn_lifecycle.rs:13-97, turn_exec/followup.rs:84-89).
LEMMA LaunchStepAdmission ==
    ASSUME AdmissionInv, NEW p \in Proc, LaunchStep(p)
    PROVE  GateDiscipline' /\ IdleAdmission'
<1> USE ProcFacts DEF Goto, GateDiscipline, IdleAdmission
<1>0. /\ pc \in [Proc -> ReqPcs \cup DrainPcs]
      /\ mode \in [Drainers -> {"none", "chain", "next", "kick"}]
      /\ GateDiscipline /\ IdleAdmission
  BY DEF AdmissionInv, TypeOK
<1>1. CASE InsertCancelToken(p)
  BY <1>0, <1>1 DEF InsertCancelToken, actorVars, lockVars
<1>2. CASE RegisterTurn(p)
  BY <1>0, <1>2 DEF RegisterTurn, actorVars
<1>3. CASE SpawnTask(p)
  BY <1>0, <1>3 DEF SpawnTask, actorVars, lockVars
<1>4. CASE SetAbortHandle(p)
  BY <1>0, <1>4 DEF SetAbortHandle, DrainPcs, actorVars, lockVars
<1> QED BY <1>1, <1>2, <1>3, <1>4 DEF LaunchStep

\* The turn task keeps them: a merge makes the session idle, never busy
\* (session_actor/turn_working.rs:65-135).
LEMMA TaskStepAdmission ==
    ASSUME AdmissionInv, NEW t \in Input, TaskStep(t)
    PROVE  GateDiscipline' /\ IdleAdmission'
<1> USE ProcFacts DEF Goto, GateDiscipline, IdleAdmission
<1>0. /\ pc \in [Proc -> ReqPcs \cup DrainPcs]
      /\ mode \in [Drainers -> {"none", "chain", "next", "kick"}]
      /\ GateDiscipline /\ IdleAdmission
  BY DEF AdmissionInv, TypeOK
<1>1. CASE Merge(t)
  BY <1>0, <1>1 DEF Merge, lockVars, procVars
<1>2. CASE SchedulePostTurn(t)
  BY <1>0, <1>2 DEF SchedulePostTurn, actorVars, lockVars
<1>3. CASE UNCHANGED <<actorVars, lockVars, procVars>>
  BY <1>0, <1>3 DEF actorVars, lockVars, procVars
<1>4. CASE Checkout(t) \/ StartQuery(t) \/ EndQuery(t) \/ SaveDisposition(t)
           \/ RecordTerminal(t) \/ ClearHandles(t) \/ TaskStops(t)
  BY <1>0, <1>3, <1>4 DEF Checkout, StartQuery, EndQuery, SaveDisposition, RecordTerminal,
                    ClearHandles, TaskStops, actorVars, lockVars, procVars
<1> QED BY <1>1, <1>2, <1>4 DEF TaskStep

\* The drains keep them: what pops and activates holds the gate, and a kick
\* pops from an idle session only (turn_exec/followup.rs:62-89).
LEMMA DrainStepAdmission ==
    ASSUME AdmissionInv, NEW p \in Drainers, DrainStep(p)
    PROVE  GateDiscipline' /\ IdleAdmission'
<1> USE ProcFacts DEF Goto, GateDiscipline, IdleAdmission
<1>0. /\ pc \in [Proc -> ReqPcs \cup DrainPcs]
      /\ mode \in [Drainers -> {"none", "chain", "next", "kick"}]
      /\ GateDiscipline /\ IdleAdmission
  BY DEF AdmissionInv, TypeOK
<1>1. CASE PostTurnCheck(p)
  BY <1>0, <1>1 DEF PostTurnCheck, actorVars, lockVars
<1>2. CASE KickCheck(p)
  BY <1>0, <1>2 DEF KickCheck, actorVars, lockVars
<1>3. CASE TakeGate(p)
  BY <1>0, <1>3 DEF TakeGate, actorVars
<1>4. CASE PopNothing(p)
  BY <1>0, <1>4 DEF PopNothing, actorVars
<1>5. CASE PopInput(p)
  BY <1>0, <1>5 DEF PopInput, MayPop, actorVars, lockVars
<1>6. CASE Activate(p)
  BY <1>0, <1>6 DEF Activate, lockVars
<1> QED BY <1>1, <1>2, <1>3, <1>4, <1>5, <1>6 DEF DrainStep

\* An interrupt keeps them: it takes the active turn, and never the gate
\* (handlers/turn_interrupt.rs:108-473).
LEMMA InterruptStepAdmission ==
    ASSUME AdmissionInv, NEW i \in Interrupters, InterruptStep(i) \/ InterruptTimeout(i)
    PROVE  GateDiscipline' /\ IdleAdmission'
<1> USE ProcFacts DEF Goto, GateDiscipline, IdleAdmission
<1>0. /\ pc \in [Proc -> ReqPcs \cup DrainPcs]
      /\ mode \in [Drainers -> {"none", "chain", "next", "kick"}]
      /\ GateDiscipline /\ IdleAdmission
  BY DEF AdmissionInv, TypeOK
<1>1. CASE InterruptRecord(i)
  BY <1>0, <1>1 DEF InterruptRecord, actorVars, lockVars
<1>2. CASE InterruptLookup(i)
  <2>1. AfterNoSavedTurn(i) \in {"answered", "rejected", "checkRegistry"}
    BY DEF AfterNoSavedTurn
  <2>2. PICK l \in {"subscribe", "savedCommit", "answered", "rejected", "checkRegistry"} :
            pc' = [pc EXCEPT ![Req(i)] = l]
    BY <1>0, <1>2, <2>1 DEF InterruptLookup, CancelSavedTurn
  <2> QED BY <1>0, <1>2, <2>2 DEF InterruptLookup, actorVars
<1>3. CASE InterruptClaim(i)
  BY <1>0, <1>3 DEF InterruptClaim, lockVars
<1>4. CASE InterruptSubscribe(i) \/ InterruptDispose(i) \/ InterruptSignal(i)
           \/ InterruptAnswered(i) \/ InterruptAbort(i)
  BY <1>0, <1>4 DEF InterruptSubscribe, InterruptDispose, InterruptSignal,
                          InterruptAnswered, InterruptAbort, actorVars, lockVars
<1>5. CASE InterruptRecheck(i) \/ InterruptClear(i) \/ InterruptTimeout(i)
  BY <1>0, <1>5 DEF InterruptRecheck, InterruptClear, InterruptTimeout, actorVars, lockVars
<1> QED BY <1>1, <1>2, <1>3, <1>4, <1>5 DEF InterruptStep

\* AdmissionInv is inductive.
LEMMA StepAdmission == AdmissionInv /\ [Next]_vars => AdmissionInv'
<1> SUFFICES ASSUME AdmissionInv, [Next]_vars PROVE GateDiscipline' /\ IdleAdmission'
  BY StepType DEF AdmissionInv
<1>1. CASE \E i \in Input : RequestStep(i)
  BY <1>1, RequestStepAdmission
<1>2. CASE \E k \in Client : SavedTurnStep(k)
  BY <1>2, SavedTurnStepAdmission
<1>3. CASE \E p \in Proc : LaunchStep(p)
  BY <1>3, LaunchStepAdmission
<1>4. CASE \E t \in Input : TaskStep(t)
  BY <1>4, TaskStepAdmission
<1>5. CASE \E p \in Drainers : DrainStep(p)
  BY <1>5, DrainStepAdmission
<1>6. CASE \E i \in Interrupters : InterruptStep(i) \/ InterruptTimeout(i)
  BY <1>6, InterruptStepAdmission
<1>7. CASE \E i \in Interrupters, t \in Input : InterruptRequest(i, t)
  BY <1>7, ProcFacts DEF InterruptRequest, Goto, actorVars, lockVars,
       AdmissionInv, TypeOK, GateDiscipline, IdleAdmission
<1>8. CASE UNCHANGED vars
  BY <1>8 DEF vars, AdmissionInv, GateDiscipline, IdleAdmission
<1> QED BY <1>1, <1>2, <1>3, <1>4, <1>5, <1>6, <1>7, <1>8 DEF Next, Rest

LEMMA InitAdmission == Init => AdmissionInv
BY InitType, ProcFacts DEF Init, AdmissionInv, Requests, GateDiscipline, IdleAdmission

\* Whatever the requests, an admission under the gate and an idle drain never
\* admit a turn over an active one (handlers/turn.rs:283-303,
\* turn_exec/followup.rs:15-17).
THEOREM AdmissionIsIdle == Spec => [](IdleAdmission /\ GateDiscipline)
<1>1. AdmissionInv => IdleAdmission /\ GateDiscipline
  BY DEF AdmissionInv
<1> QED BY <1>1, InitAdmission, StepAdmission, PTL DEF Spec

-----------------------------------------------------------------------------
(***************************************************************************)
(* Where inputs are.  That nothing is lost is not inductive: it rests on   *)
(* which of the program counters a request or a drainer can have at all,   *)
(* and on where the request of an input is while the input is somewhere.   *)
(***************************************************************************)
CarryPcs == {"activate", "persist", "token", "register", "spawn"}
DirectPcs == {"persist", "token", "register", "spawn"}
LaunchedPcs == {"abortHandle", "started", "answered", "panicked"}
RefusedPcs == {"rejected", "failed"}
SavedPcs == {"savedCommit", "savedIdle", "savedRecord"}
OfferedPcs == SavedPcs \cup {"new", "checkRegistry", "snapshot", "admit", "enqueue", "begin"}
InputPcs == OfferedPcs \cup RefusedPcs \cup DirectPcs \cup LaunchedPcs \cup {"queued"}
InterruptPcs == SavedPcs \cup {"new", "checkRegistry", "subscribe", "dispose", "signal", "wait",
                                "abort", "recheck", "claim", "clear", "record", "answered",
                                "rejected"}

\* A drainer is neither a request nor another drainer.
LEMMA DrainerFacts ==
    /\ \A i, j \in Client : Spawned(i) = Spawned(j) => i = j
    /\ \A s, t \in Input : Post(s) = Post(t) => s = t
    /\ \A i \in Client : \A t \in Input : Spawned(i) # Post(t)
    /\ \A i, j \in Client : Spawned(i) # Req(j)
    /\ \A i \in Client : \A t \in Input : Post(t) # Req(i)
BY DEF Req, Spawned, Post

\* What each kind of task is ever at.
PcKinds ==
    /\ \A i \in Starters : pc[Req(i)] \in InputPcs \ {"enqueue", "queued"}
    /\ \A i \in Pushers : pc[Req(i)] \in InputPcs \ (SavedPcs \cup {"checkRegistry"})
    /\ \A i \in Interrupters : pc[Req(i)] \in InterruptPcs
    /\ \A p \in Drainers : pc[p] \in DrainPcs

\* A drainer is spawned once: until then it is off, so no step that spawns it
\* stops a drain that is under way.
SpawnedOnce ==
    /\ \A i \in Starters : pc[Req(i)] \in SavedPcs \cup {"new"} => pc[Spawned(i)] = "off"
    /\ \A i \in Pushers : pc[Req(i)] \in {"new", "snapshot", "admit", "enqueue"} =>
           pc[Spawned(i)] = "off"
    /\ \A i \in Interrupters : pc[Req(i)] \notin {"answered", "rejected"} =>
           pc[Spawned(i)] = "off"

ProgramInv == TypeOK /\ PcKinds /\ SpawnedOnce

\* A request's own admission step keeps the program counters in their kinds
\* (handlers/turn.rs:191-626).
LEMMA RequestStepProgram ==
    ASSUME ProgramInv, NEW i \in Input, RequestStep(i)
    PROVE  PcKinds' /\ SpawnedOnce'
<1> USE ProcFacts, DrainerFacts, ClientAssumption DEF Goto, PcKinds, SpawnedOnce, DirectPcs,
        LaunchedPcs, RefusedPcs, SavedPcs,
        OfferedPcs, InputPcs, InterruptPcs, DrainPcs, Input
<1>0. /\ pc \in [Proc -> ReqPcs \cup DrainPcs]
      /\ PcKinds /\ SpawnedOnce
  BY DEF ProgramInv, TypeOK
<1>1. CASE StartRequest(i)
  <2>1. PICK l \in {"savedCommit", "checkRegistry"} : pc' = [pc EXCEPT ![Req(i)] = l]
    BY <1>1 DEF StartRequest, CancelSavedTurn, AfterNoSavedTurn
  <2> QED BY <1>0, <1>1, <2>1 DEF StartRequest, turnVars
<1>2. CASE PushRequest(i)
  BY <1>0, <1>2 DEF PushRequest, turnVars
<1>3. CASE CheckRegistry(i)
  BY <1>0, <1>3 DEF CheckRegistry, turnVars
<1>4. CASE ReservationSnapshot(i)
  BY <1>0, <1>4 DEF ReservationSnapshot, BusyPc, turnVars
<1>5. CASE AdmitUnderGate(i)
  BY <1>0, <1>5 DEF AdmitUnderGate, AdmitPc, BusyPc, turnVars
<1>6. CASE Enqueue(i)
  BY <1>0, <1>6 DEF Enqueue, AfterEnqueue, turnVars
<1>7. CASE Begin(i)
  BY <1>0, <1>7 DEF Begin, turnVars
<1>8. CASE PersistStart(i)
  BY <1>0, <1>8 DEF PersistStart, turnVars
<1>9. CASE PushAnswer(i)
  BY <1>0, <1>9 DEF PushAnswer, turnVars
<1>10. CASE RefuseInput(i)
  BY <1>0, <1>10 DEF RefuseInput, turnVars
<1> QED BY <1>1, <1>2, <1>3, <1>4, <1>5, <1>6, <1>7, <1>8, <1>9, <1>10 DEF RequestStep

\* Canceling a saved turn keeps them (turn_exec/recovery.rs:142-195).
LEMMA SavedTurnStepProgram ==
    ASSUME ProgramInv, NEW k \in Client, SavedTurnStep(k)
    PROVE  PcKinds' /\ SpawnedOnce'
<1> USE ProcFacts, DrainerFacts, ClientAssumption DEF Goto, PcKinds, SpawnedOnce, DirectPcs,
        LaunchedPcs, RefusedPcs, SavedPcs,
        OfferedPcs, InputPcs, InterruptPcs, DrainPcs, Input
<1>0. /\ pc \in [Proc -> ReqPcs \cup DrainPcs]
      /\ PcKinds /\ SpawnedOnce
  BY DEF ProgramInv, TypeOK
<1>1. CASE SavedTurnCommit(k)
  BY <1>0, <1>1 DEF SavedTurnCommit, turnVars
<1>2. CASE SavedTurnIdle(k)
  BY <1>0, <1>2 DEF SavedTurnIdle, turnVars
<1>3. CASE SavedTurnRecord(k)
  BY <1>0, <1>3 DEF SavedTurnRecord, turnVars
<1> QED BY <1>1, <1>2, <1>3 DEF SavedTurnStep

\* Launching a turn keeps them (active_turn.rs:140-197).
LEMMA LaunchStepProgram ==
    ASSUME ProgramInv, NEW p \in Proc, LaunchStep(p)
    PROVE  PcKinds' /\ SpawnedOnce'
<1> USE ProcFacts, DrainerFacts, ClientAssumption DEF Goto, PcKinds, SpawnedOnce, DirectPcs,
        LaunchedPcs, RefusedPcs, SavedPcs,
        OfferedPcs, InputPcs, InterruptPcs, DrainPcs, Input
<1>0. /\ pc \in [Proc -> ReqPcs \cup DrainPcs]
      /\ PcKinds /\ SpawnedOnce
  BY DEF ProgramInv, TypeOK
<1>1. CASE InsertCancelToken(p)
  BY <1>0, <1>1 DEF InsertCancelToken, turnVars
<1>2. CASE RegisterTurn(p)
  BY <1>0, <1>2 DEF RegisterTurn, turnVars
<1>3. CASE SpawnTask(p)
  BY <1>0, <1>3 DEF SpawnTask, turnVars
<1>4. CASE SetAbortHandle(p)
  BY <1>0, <1>4 DEF SetAbortHandle, turnVars
<1> QED BY <1>1, <1>2, <1>3, <1>4 DEF LaunchStep

\* The turn task keeps them (session_actor/turn.rs:18-166).
LEMMA TaskStepProgram ==
    ASSUME ProgramInv, NEW t \in Input, TaskStep(t)
    PROVE  PcKinds' /\ SpawnedOnce'
<1> USE ProcFacts, DrainerFacts, ClientAssumption DEF Goto, PcKinds, SpawnedOnce, DirectPcs,
        LaunchedPcs, RefusedPcs, SavedPcs,
        OfferedPcs, InputPcs, InterruptPcs, DrainPcs, Input
<1>0. /\ pc \in [Proc -> ReqPcs \cup DrainPcs]
      /\ PcKinds /\ SpawnedOnce
  BY DEF ProgramInv, TypeOK
<1>1. CASE Checkout(t)
  BY <1>0, <1>1 DEF Checkout, procVars
<1>2. CASE StartQuery(t)
  BY <1>0, <1>2 DEF StartQuery, procVars
<1>3. CASE EndQuery(t)
  BY <1>0, <1>3 DEF EndQuery, procVars
<1>4. CASE SaveDisposition(t)
  BY <1>0, <1>4 DEF SaveDisposition, procVars
<1>5. CASE RecordTerminal(t)
  BY <1>0, <1>5 DEF RecordTerminal, procVars
<1>6. CASE Merge(t)
  BY <1>0, <1>6 DEF Merge, procVars
<1>7. CASE ClearHandles(t)
  BY <1>0, <1>7 DEF ClearHandles, procVars
<1>8. CASE SchedulePostTurn(t)
  BY <1>0, <1>8 DEF SchedulePostTurn
<1>9. CASE TaskStops(t)
  BY <1>0, <1>9 DEF TaskStops, procVars
<1> QED BY <1>1, <1>2, <1>3, <1>4, <1>5, <1>6, <1>7, <1>8, <1>9 DEF TaskStep

\* The drains keep them (turn_exec/followup.rs:37-336).
LEMMA DrainStepProgram ==
    ASSUME ProgramInv, NEW p \in Drainers, DrainStep(p)
    PROVE  PcKinds' /\ SpawnedOnce'
<1> USE ProcFacts, DrainerFacts, ClientAssumption DEF Goto, PcKinds, SpawnedOnce, DirectPcs,
        LaunchedPcs, RefusedPcs, SavedPcs,
        OfferedPcs, InputPcs, InterruptPcs, DrainPcs, Input
<1>0. /\ pc \in [Proc -> ReqPcs \cup DrainPcs]
      /\ PcKinds /\ SpawnedOnce
  BY DEF ProgramInv, TypeOK
<1>1. CASE PostTurnCheck(p)
  BY <1>0, <1>1 DEF PostTurnCheck, turnVars
<1>2. CASE KickCheck(p)
  BY <1>0, <1>2 DEF KickCheck, turnVars
<1>3. CASE TakeGate(p)
  BY <1>0, <1>3 DEF TakeGate, turnVars
<1>4. CASE PopNothing(p)
  BY <1>0, <1>4 DEF PopNothing, turnVars
<1>5. CASE PopInput(p)
  BY <1>0, <1>5 DEF PopInput, turnVars
<1>6. CASE Activate(p)
  BY <1>0, <1>6 DEF Activate, turnVars
<1> QED BY <1>1, <1>2, <1>3, <1>4, <1>5, <1>6 DEF DrainStep

\* An interrupt keeps them (handlers/turn_interrupt.rs:108-473).
LEMMA InterruptStepProgram ==
    ASSUME ProgramInv, NEW i \in Interrupters, InterruptStep(i) \/ InterruptTimeout(i)
    PROVE  PcKinds' /\ SpawnedOnce'
<1> USE ProcFacts, DrainerFacts, ClientAssumption DEF Goto, PcKinds, SpawnedOnce, DirectPcs,
        LaunchedPcs, RefusedPcs, SavedPcs,
        OfferedPcs, InputPcs, InterruptPcs, DrainPcs, Input
<1>0. /\ pc \in [Proc -> ReqPcs \cup DrainPcs]
      /\ PcKinds /\ SpawnedOnce
  BY DEF ProgramInv, TypeOK
<1>1. CASE InterruptLookup(i)
  BY <1>0, <1>1 DEF InterruptLookup, CancelSavedTurn, AfterNoSavedTurn, turnVars
<1>2. CASE InterruptSubscribe(i)
  BY <1>0, <1>2 DEF InterruptSubscribe, turnVars
<1>3. CASE InterruptDispose(i)
  BY <1>0, <1>3 DEF InterruptDispose, turnVars
<1>4. CASE InterruptSignal(i)
  BY <1>0, <1>4 DEF InterruptSignal, turnVars
<1>5. CASE InterruptAnswered(i)
  BY <1>0, <1>5 DEF InterruptAnswered, turnVars
<1>6. CASE InterruptAbort(i)
  BY <1>0, <1>6 DEF InterruptAbort, turnVars
<1>7. CASE InterruptRecheck(i)
  BY <1>0, <1>7 DEF InterruptRecheck, turnVars
<1>8. CASE InterruptClaim(i)
  BY <1>0, <1>8 DEF InterruptClaim, turnVars
<1>9. CASE InterruptClear(i)
  BY <1>0, <1>9 DEF InterruptClear, turnVars
<1>10. CASE InterruptRecord(i)
  BY <1>0, <1>10 DEF InterruptRecord, turnVars
<1>11. CASE InterruptTimeout(i)
  BY <1>0, <1>11 DEF InterruptTimeout, turnVars
<1> QED BY <1>1, <1>2, <1>3, <1>4, <1>5, <1>6, <1>7, <1>8, <1>9, <1>10, <1>11 DEF InterruptStep

\* ProgramInv is inductive.
LEMMA StepProgram == ProgramInv /\ [Next]_vars => ProgramInv'
<1> SUFFICES ASSUME ProgramInv, [Next]_vars PROVE PcKinds' /\ SpawnedOnce'
  BY StepType DEF ProgramInv
<1>1. CASE \E i \in Input : RequestStep(i)
  BY <1>1, RequestStepProgram
<1>2. CASE \E k \in Client : SavedTurnStep(k)
  BY <1>2, SavedTurnStepProgram
<1>3. CASE \E p \in Proc : LaunchStep(p)
  BY <1>3, LaunchStepProgram
<1>4. CASE \E t \in Input : TaskStep(t)
  BY <1>4, TaskStepProgram
<1>5. CASE \E p \in Drainers : DrainStep(p)
  BY <1>5, DrainStepProgram
<1>6. CASE \E i \in Interrupters : InterruptStep(i) \/ InterruptTimeout(i)
  BY <1>6, InterruptStepProgram
<1>7. CASE \E i \in Interrupters, t \in Input : InterruptRequest(i, t)
  BY <1>7, ProcFacts, DrainerFacts, ClientAssumption DEF InterruptRequest, Goto, turnVars,
       ProgramInv, TypeOK, PcKinds, SpawnedOnce, InterruptPcs, Input
<1>8. CASE UNCHANGED vars
  BY <1>8 DEF vars, ProgramInv, PcKinds, SpawnedOnce
<1> QED BY <1>1, <1>2, <1>3, <1>4, <1>5, <1>6, <1>7, <1>8 DEF Next, Rest

LEMMA InitProgram == Init => ProgramInv
<1> SUFFICES ASSUME Init PROVE PcKinds /\ SpawnedOnce
  BY InitType DEF ProgramInv
<1>1. \A k \in Client : pc[Req(k)] = "new" /\ pc[Spawned(k)] = "off"
  BY ProcFacts DEF Init
<1>2. \A p \in Drainers : pc[p] = "off"
  BY ProcFacts DEF Init
<1> QED BY <1>1, <1>2 DEF PcKinds, SpawnedOnce, OfferedPcs, InputPcs, SavedPcs, InterruptPcs,
           DrainPcs,
           Client, Input

-----------------------------------------------------------------------------
(***************************************************************************)
(* No input is lost or handed over twice.  NoInputLost speaks of accepted  *)
(* pushes; what is inductive speaks of every input and of every task that  *)
(* may carry one, and ties each place to where the input's request is.     *)
(***************************************************************************)
Carried(i) == \E p \in Proc : Carries(p, i)
Launched(i) == task[i] # "none"

\* The queue, the hands of one task, a turn: at most one of them has the input.
InOnePlace(i) ==
    /\ InQueue(i) => pc[Req(i)] = "queued" /\ ~Launched(i) /\ ~Carried(i)
    /\ Carried(i) => ~Launched(i)
    /\ \A p \in Drainers : Carries(p, i) => pc[Req(i)] = "queued"
    /\ \A p, q \in Proc : Carries(p, i) /\ Carries(q, i) => p = q

\* The input is where its request says.
Accounted(i) ==
    /\ pc[Req(i)] \in OfferedPcs \cup RefusedPcs => ~Launched(i)
    /\ pc[Req(i)] \in DirectPcs => held[Req(i)] = i
    /\ pc[Req(i)] \in LaunchedPcs => Launched(i)
    /\ pc[Req(i)] = "queued" => InQueue(i) \/ Launched(i) \/ \E p \in Drainers : Carries(p, i)

NoRepeats == \A m, n \in 1..Len(queue) : queue[m] = queue[n] => m = n

\* The scheduling after a turn is spawned once, by the turn's last step.
PostOnce == \A t \in Input : task[t] # "done" => pc[Post(t)] = "off"

PlacesInv ==
    /\ ProgramInv /\ PostOnce /\ NoRepeats
    /\ \A i \in Input : InOnePlace(i) /\ Accounted(i)

\* A step that leaves input i where it is.
QuietFor(i) ==
    /\ InQueue(i)' <=> InQueue(i)
    /\ Launched(i)' <=> Launched(i)
    /\ \A p \in Proc : Carries(p, i)' <=> Carries(p, i)
    /\ pc'[Req(i)] \in OfferedPcs <=> pc[Req(i)] \in OfferedPcs
    /\ pc'[Req(i)] \in RefusedPcs <=> pc[Req(i)] \in RefusedPcs
    /\ pc'[Req(i)] \in DirectPcs <=> pc[Req(i)] \in DirectPcs
    /\ pc'[Req(i)] \in LaunchedPcs <=> pc[Req(i)] \in LaunchedPcs
    /\ pc'[Req(i)] = "queued" <=> pc[Req(i)] = "queued"

Quiet == queue' = queue /\ \A i \in Input : QuietFor(i)

\* Under the invariant at most one case of Place applies.
PlaceByCase(i) ==
    IF Launched(i) \/ Carried(i) THEN "handed"
    ELSE IF InQueue(i) THEN "waiting"
    ELSE IF pc[Req(i)] \in RefusedPcs THEN "refused" ELSE "offered"

\* A request carries its own input only, and only on its way to a turn.
LEMMA CarrierOfRequest ==
    ASSUME PlacesInv, NEW i \in Input, NEW p \in Requests, Carries(p, i)
    PROVE  p = Req(i) /\ pc[p] \in DirectPcs
<1>1. PICK k \in Client : p = Req(k)
  BY DEF Requests
<1>2. pc[p] \in CarryPcs /\ held[p] = i
  BY DEF Carries, CarryPcs
<1>3. k \in Input /\ pc[p] \in DirectPcs
  BY <1>1, <1>2 DEF Client, Input, PlacesInv, ProgramInv, PcKinds, InputPcs, InterruptPcs,
     CarryPcs, DirectPcs,
                    OfferedPcs, SavedPcs, RefusedPcs, LaunchedPcs
<1>4. held[p] = k
  BY <1>1, <1>3 DEF PlacesInv, Accounted
<1> QED BY <1>1, <1>2, <1>3, <1>4

LEMMA PlaceIs == PlacesInv => \A j \in Input : Place(j) = PlaceByCase(j)
<1> SUFFICES ASSUME PlacesInv, NEW i \in Input PROVE Place(i) = PlaceByCase(i)
  OBVIOUS
<1> USE DEF PlaceByCase
<1>0. Launched(i) \/ Carried(i) \/ InQueue(i) => pc[Req(i)] \notin RefusedPcs
  <2>1. ASSUME NEW p \in Proc, Carries(p, i) PROVE pc[Req(i)] \in DirectPcs \cup {"queued"}
    <3>1. CASE p \in Drainers
      BY <2>1, <3>1 DEF PlacesInv, InOnePlace
    <3>2. CASE p \in Requests
      BY <2>1, <3>2, CarrierOfRequest
    <3> QED BY <3>1, <3>2 DEF Proc
  <2>2. Carried(i) => pc[Req(i)] \notin RefusedPcs
    BY <2>1 DEF Carried, RefusedPcs, DirectPcs
  <2> QED BY <2>2 DEF PlacesInv, InOnePlace, Accounted, RefusedPcs, OfferedPcs
<1>1. CASE Launched(i) \/ Carried(i)
  BY <1>0, <1>1 DEF Place, Launched, Carried, RefusedPcs
<1>2. CASE ~Launched(i) /\ ~Carried(i) /\ InQueue(i)
  BY <1>0, <1>2 DEF Place, RefusedPcs, Launched, Carried
<1>3. CASE ~Launched(i) /\ ~Carried(i) /\ ~InQueue(i) /\ pc[Req(i)] \in RefusedPcs
  BY <1>3 DEF Place, Launched, Carried, RefusedPcs
<1>4. CASE ~Launched(i) /\ ~Carried(i) /\ ~InQueue(i) /\ pc[Req(i)] \notin RefusedPcs
  BY <1>4 DEF Place, Launched, Carried, RefusedPcs
<1> QED BY <1>1, <1>2, <1>3, <1>4

LEMMA PlaceIsNext == PlacesInv' => (\A j \in Input : Place(j) = PlaceByCase(j))'
BY PlaceIs, PTL

\* An input no step touches stays accounted for, in the same place.
LEMMA QuietInput ==
    ASSUME PlacesInv, NEW i \in Input, QuietFor(i)
    PROVE  InOnePlace(i)' /\ Accounted(i)' /\ PlaceByCase(i)' = PlaceByCase(i)
<1>1. /\ InQueue(i)' <=> InQueue(i)
      /\ Carried(i)' <=> Carried(i)
      /\ Launched(i)' <=> Launched(i)
      /\ pc'[Req(i)] \in RefusedPcs <=> pc[Req(i)] \in RefusedPcs
  BY DEF QuietFor, Carried
<1>2. PlaceByCase(i)' = PlaceByCase(i)
  BY <1>1 DEF PlaceByCase
<1>3. \A p \in Drainers : p \in Proc
  BY ProcFacts
<1>4. InOnePlace(i)'
  BY <1>1, <1>3 DEF PlacesInv, InOnePlace, QuietFor
<1>5. pc'[Req(i)] \in DirectPcs => held'[Req(i)] = i
  <2> SUFFICES ASSUME pc'[Req(i)] \in DirectPcs PROVE held'[Req(i)] = i
    OBVIOUS
  <2>1. Req(i) \in Proc
    BY ProcFacts
  <2>2. pc[Req(i)] \in DirectPcs /\ held[Req(i)] = i
    BY DEF QuietFor, PlacesInv, Accounted
  <2>3. Carries(Req(i), i)
    BY <2>2 DEF Carries, DirectPcs
  <2> QED BY <2>1, <2>3 DEF QuietFor, Carries
<1>6. Accounted(i)'
  BY <1>1, <1>3, <1>5 DEF PlacesInv, Accounted, QuietFor
<1> QED BY <1>2, <1>4, <1>6

\* A step that moves one input at most.
LEMMA OneMove ==
    ASSUME PlacesInv, ProgramInv', PostOnce', NoRepeats', NEW i \in Input,
           \A j \in Input \ {i} : QuietFor(j),
           InOnePlace(i)', Accounted(i)'
    PROVE  /\ PlacesInv'
           /\ \A j \in Input : Place(j)' = IF j = i THEN PlaceByCase(i)' ELSE Place(j)
<1>1. \A j \in Input \ {i} : /\ InOnePlace(j)' /\ Accounted(j)'
                             /\ PlaceByCase(j)' = PlaceByCase(j)
  BY QuietInput
<1>2. PlacesInv'
  BY <1>1 DEF PlacesInv
<1> QED BY <1>1, <1>2, PlaceIs, PlaceIsNext

\* A step that moves none.
LEMMA NoMove ==
    ASSUME PlacesInv, ProgramInv', PostOnce', Quiet
    PROVE  PlacesInv' /\ \A j \in Input : Place(j)' = Place(j)
<1>1. \A j \in Input : /\ InOnePlace(j)' /\ Accounted(j)'
                       /\ PlaceByCase(j)' = PlaceByCase(j)
  BY QuietInput DEF Quiet
<1>2. NoRepeats'
  BY DEF PlacesInv, NoRepeats, Quiet
<1>3. PlacesInv'
  BY <1>1, <1>2 DEF PlacesInv
<1> QED BY <1>1, <1>3, PlaceIs, PlaceIsNext

-----------------------------------------------------------------------------
(***************************************************************************)
(* The steps of the ledger the runtime implements.                         *)
(***************************************************************************)
LedgerStep == [Ledger!LedgerNext]_(Ledger!ledgerVars)

LEMMA StutterLedger ==
    ASSUME queue' = queue, \A j \in Input : Place(j)' = Place(j)
    PROVE  LedgerStep
BY DEF LedgerStep, Ledger!ledgerVars

LEMMA RefuseLedger ==
    ASSUME NEW i \in Input, Place(i) \in {"offered", "handed"}, queue' = queue,
           \A j \in Input : Place(j)' = IF j = i THEN "refused" ELSE Place(j)
    PROVE  LedgerStep
<1>1. Ledger!Refuse(i)
  BY DEF Ledger!Refuse
<1> QED BY <1>1 DEF LedgerStep, Ledger!LedgerNext

LEMMA HandOverLedger ==
    ASSUME NEW i \in Input, Place(i) = "offered", queue' = queue,
           \A j \in Input : Place(j)' = IF j = i THEN "handed" ELSE Place(j)
    PROVE  LedgerStep
<1>1. Ledger!HandOver(i)
  BY DEF Ledger!HandOver
<1> QED BY <1>1 DEF LedgerStep, Ledger!LedgerNext

LEMMA AcceptLedger ==
    ASSUME NEW i \in Input, Place(i) = "offered", queue' = Append(queue, i),
           \A j \in Input : Place(j)' = IF j = i THEN "waiting" ELSE Place(j)
    PROVE  LedgerStep
<1>1. Ledger!Accept(i)
  BY DEF Ledger!Accept
<1> QED BY <1>1 DEF LedgerStep, Ledger!LedgerNext

LEMMA HandOverFirstLedger ==
    ASSUME NEW i \in Input, queue # <<>>, i = Head(queue), queue' = Tail(queue),
           \A j \in Input : Place(j)' = IF j = i THEN "handed" ELSE Place(j)
    PROVE  LedgerStep
<1>1. Ledger!HandOverFirst(i)
  BY DEF Ledger!HandOverFirst
<1> QED BY <1>1 DEF LedgerStep, Ledger!LedgerNext

\* A step that moves nothing stutters in the ledger.
LEMMA QuietStep ==
    ASSUME PlacesInv, ProgramInv', PostOnce', Quiet
    PROVE  PlacesInv' /\ LedgerStep
BY NoMove, StutterLedger DEF Quiet

\* An offered or refused input is nowhere.
LEMMA Nowhere ==
    ASSUME PlacesInv, NEW i \in Input, pc[Req(i)] \in OfferedPcs \cup RefusedPcs
    PROVE  ~Launched(i) /\ ~Carried(i) /\ ~InQueue(i)
<1>1. pc[Req(i)] # "queued" /\ pc[Req(i)] \notin DirectPcs
  BY DEF OfferedPcs, SavedPcs, RefusedPcs, DirectPcs
<1>2. ASSUME NEW p \in Proc PROVE ~Carries(p, i)
  <2>1. CASE p \in Drainers
    BY <1>1, <2>1 DEF PlacesInv, InOnePlace
  <2>2. CASE p \in Requests
    BY <1>1, <2>2, CarrierOfRequest
  <2> QED BY <2>1, <2>2 DEF Proc
<1> QED BY <1>1, <1>2 DEF PlacesInv, InOnePlace, Accounted, Carried

\* A request's own admission step (handlers/turn.rs:191-626).
LEMMA RequestStepPlaces ==
    ASSUME PlacesInv, ProgramInv', NEW i \in Input, RequestStep(i)
    PROVE  PlacesInv' /\ LedgerStep
<1> USE ProcFacts, DrainerFacts DEF Goto
<1>0. /\ pc \in [Proc -> ReqPcs \cup DrainPcs] /\ held \in [Proc -> Turn]
      /\ task' = task
  BY DEF PlacesInv, ProgramInv, TypeOK, RequestStep, StartRequest, PushRequest, CheckRegistry,
         ReservationSnapshot, AdmitUnderGate, RefuseInput, Enqueue, Begin, PersistStart,
         PushAnswer, turnVars
<1>p. PostOnce'
  BY <1>0 DEF PlacesInv, PostOnce, RequestStep, StartRequest, PushRequest, CheckRegistry,
         ReservationSnapshot, AdmitUnderGate, RefuseInput, Enqueue, Begin, PersistStart,
         PushAnswer, turnVars, CancelSavedTurn, AfterEnqueue
\* A step from a pc where the input is not yet accepted to another.
<1>a. ASSUME NEW l \in OfferedPcs, pc[Req(i)] \in OfferedPcs, pc' = [pc EXCEPT ![Req(i)] = l],
             \A p \in Proc : p # Req(i) => held'[p] = held[p], queue' = queue
      PROVE  Quiet
  BY <1>0, <1>a DEF Quiet, QuietFor, InQueue, Launched, Carries, OfferedPcs, SavedPcs, RefusedPcs,
                    DirectPcs, LaunchedPcs
<1>b. ASSUME NEW l \in {"rejected"}, pc[Req(i)] \in OfferedPcs, pc' = [pc EXCEPT ![Req(i)] = l],
             held' = held, queue' = queue
      PROVE  PlacesInv' /\ LedgerStep
  <2>1. NoRepeats'
    BY <1>b DEF PlacesInv, NoRepeats
  <2>2. \A j \in Input \ {i} : QuietFor(j)
    BY <1>0, <1>b DEF QuietFor, InQueue, Launched, Carries, OfferedPcs, SavedPcs
  <2>3. ~Launched(i) /\ ~Carried(i) /\ ~InQueue(i)
    BY <1>b, Nowhere
  <2>4. pc'[Req(i)] = "rejected" /\ ~Launched(i)' /\ ~Carried(i)' /\ ~InQueue(i)'
    BY <1>0, <1>b, <2>3 DEF Launched, Carried, InQueue, Carries
  <2>5. InOnePlace(i)' /\ Accounted(i)'
    BY <2>4 DEF InOnePlace, Accounted, Carried, DirectPcs, LaunchedPcs
  <2>6. Place(i) = "offered" /\ PlaceByCase(i)' = "refused"
    BY <1>b, <2>3, <2>4, PlaceIs DEF PlaceByCase, RefusedPcs, OfferedPcs, SavedPcs
  <2> QED BY <1>b, <1>p, <2>1, <2>2, <2>5, <2>6, OneMove, RefuseLedger
<1>1. CASE StartRequest(i)
  <2>1. PICK l \in {"savedCommit", "checkRegistry"} : pc' = [pc EXCEPT ![Req(i)] = l]
    BY <1>1, ClientAssumption DEF StartRequest, CancelSavedTurn, AfterNoSavedTurn, Input
  <2>2. Quiet
    BY <1>0, <1>1, <1>a, <2>1 DEF StartRequest, CancelSavedTurn, OfferedPcs, SavedPcs
  <2> QED BY <1>p, <2>2, QuietStep
<1>2. CASE PushRequest(i)
  BY <1>2, <1>a, <1>p, QuietStep DEF PushRequest, OfferedPcs
<1>3. CASE CheckRegistry(i)
  <2>1. CASE registry.turn = NoTurn
    BY <1>3, <1>a, <1>p, <2>1, QuietStep DEF CheckRegistry, OfferedPcs
  <2>2. CASE registry.turn # NoTurn
    BY <1>3, <1>b, <2>2 DEF CheckRegistry, OfferedPcs
  <2> QED BY <2>1, <2>2
<1>4. CASE ReservationSnapshot(i)
  <2>1. CASE pc' = [pc EXCEPT ![Req(i)] = "rejected"]
    BY <1>4, <1>b, <2>1 DEF ReservationSnapshot, OfferedPcs
  <2>2. CASE \E l \in {"admit", "enqueue"} : pc' = [pc EXCEPT ![Req(i)] = l]
    BY <1>4, <1>a, <1>p, <2>2, QuietStep DEF ReservationSnapshot, OfferedPcs
  <2> QED BY <1>4, <2>1, <2>2 DEF ReservationSnapshot, BusyPc
<1>5. CASE AdmitUnderGate(i)
  <2>1. CASE pc' = [pc EXCEPT ![Req(i)] = "rejected"]
    BY <1>5, <1>b, <2>1 DEF AdmitUnderGate, OfferedPcs
  <2>2. CASE \E l \in {"begin", "enqueue"} : pc' = [pc EXCEPT ![Req(i)] = l]
    BY <1>5, <1>a, <1>p, <2>2, QuietStep DEF AdmitUnderGate, OfferedPcs
  <2> QED BY <1>5, <2>1, <2>2 DEF AdmitUnderGate, AdmitPc, BusyPc
<1>6. CASE Enqueue(i)
  <2> USE <1>6 DEF Enqueue
  <2>1. i \in Pushers /\ pc[Spawned(i)] = "off"
    BY DEF PlacesInv, ProgramInv, PcKinds, SpawnedOnce, Input
  <2>2. /\ Len(queue') = Len(queue) + 1 /\ Len(queue) \in Nat
        /\ \A n \in 1..Len(queue) : queue'[n] = queue[n]
        /\ queue'[Len(queue) + 1] = i
    BY DEF PlacesInv, ProgramInv, TypeOK, Enqueued
  <2>3. ~Launched(i) /\ ~Carried(i) /\ ~InQueue(i)
    BY Nowhere DEF OfferedPcs
  <2>4. /\ pc'[Req(i)] = "queued" /\ pc'[Spawned(i)] = "kick"
        /\ \A p \in Proc \ {Req(i), Spawned(i)} : pc'[p] = pc[p]
    BY <1>0 DEF AfterEnqueue
  <2>5. \A p \in Proc : \A j \in Input : Carries(p, j)' <=> Carries(p, j)
    BY <2>1, <2>4 DEF Carries
  <2>6. \A j \in Input \ {i} : InQueue(j)' <=> InQueue(j)
    <3> SUFFICES ASSUME NEW j \in Input \ {i} PROVE InQueue(j)' <=> InQueue(j)
      OBVIOUS
    <3>1. ASSUME NEW n \in 1..Len(queue'), queue'[n] = j PROVE InQueue(j)
      <4>1. n \in 1..Len(queue)
        BY <2>2, <3>1
      <4> QED BY <2>2, <3>1, <4>1 DEF InQueue
    <3>2. ASSUME NEW n \in 1..Len(queue), queue[n] = j PROVE InQueue(j)'
      <4>1. n \in 1..Len(queue')
        BY <2>2
      <4> QED BY <2>2, <3>2, <4>1 DEF InQueue
    <3> QED BY <3>1, <3>2 DEF InQueue
  <2>7. \A j \in Input \ {i} : QuietFor(j)
    BY <1>0, <2>4, <2>5, <2>6 DEF QuietFor, Launched
  <2>8. NoRepeats'
    <3> SUFFICES ASSUME NEW m \in 1..Len(queue'), NEW n \in 1..Len(queue'),
                        queue'[m] = queue'[n]
                 PROVE  m = n
      BY DEF NoRepeats
    <3>1. \A k \in 1..Len(queue) : queue[k] # i
      BY <2>3 DEF InQueue
    <3>2. \A k \in 1..Len(queue') : k \in 1..Len(queue) \/ k = Len(queue) + 1
      BY <2>2
    <3> QED BY <2>2, <3>1, <3>2 DEF PlacesInv, NoRepeats
  <2>9. InQueue(i)' /\ ~Launched(i)' /\ ~Carried(i)'
    <3>1. Len(queue) + 1 \in 1..Len(queue')
      BY <2>2
    <3> QED BY <1>0, <2>2, <2>3, <2>5, <3>1 DEF InQueue, Launched, Carried
  <2>10. InOnePlace(i)' /\ Accounted(i)'
    BY <2>4, <2>9 DEF InOnePlace, Accounted, Carried, OfferedPcs, SavedPcs, RefusedPcs, DirectPcs,
                      LaunchedPcs
  <2>11. Place(i) = "offered" /\ PlaceByCase(i)' = "waiting"
    BY <2>3, <2>9, PlaceIs DEF PlaceByCase, RefusedPcs
  <2> QED BY <1>p, <2>7, <2>8, <2>10, <2>11, OneMove, AcceptLedger DEF Enqueued
<1>7. CASE Begin(i)
  <2> USE <1>7 DEF Begin
  <2>1. NoRepeats'
    BY DEF PlacesInv, NoRepeats
  <2>2. ~Launched(i) /\ ~Carried(i) /\ ~InQueue(i)
    BY Nowhere DEF OfferedPcs
  <2>3. /\ pc'[Req(i)] = "persist" /\ held'[Req(i)] = i
        /\ \A p \in Proc \ {Req(i)} : pc'[p] = pc[p] /\ held'[p] = held[p]
    BY <1>0
  <2>4. \A j \in Input \ {i} : QuietFor(j)
    BY <1>0, <2>3 DEF QuietFor, InQueue, Launched, Carries
  <2>5. Carries(Req(i), i)' /\ \A p \in Proc \ {Req(i)} : ~Carries(p, i)'
    BY <2>2, <2>3 DEF Carried, Carries
  <2>6. ~Launched(i)' /\ ~InQueue(i)'
    BY <1>0, <2>2 DEF Launched, InQueue
  <2>7. InOnePlace(i)' /\ Accounted(i)'
    BY <2>3, <2>5, <2>6 DEF InOnePlace, Accounted, Carried, OfferedPcs, SavedPcs, RefusedPcs,
                            DirectPcs, LaunchedPcs
  <2>8. Place(i) = "offered" /\ PlaceByCase(i)' = "handed"
    BY <2>2, <2>5, PlaceIs DEF PlaceByCase, RefusedPcs, Carried
  <2> QED BY <1>p, <2>1, <2>4, <2>7, <2>8, OneMove, HandOverLedger
<1>8. CASE PersistStart(i)
  <2> USE <1>8 DEF PersistStart
  <2>1. CASE pc' = [pc EXCEPT ![Req(i)] = "token"] /\ held' = held
    <3>1. Quiet
      BY <1>0, <2>1 DEF Quiet, QuietFor, InQueue, Launched, Carries, OfferedPcs, SavedPcs,
                        RefusedPcs, DirectPcs, LaunchedPcs
    <3> QED BY <1>p, <3>1, QuietStep
  <2>2. CASE pc' = [pc EXCEPT ![Req(i)] = "failed"] /\ held' = [held EXCEPT ![Req(i)] = NoTurn]
    <3>1. held[Req(i)] = i /\ Carries(Req(i), i)
      BY DEF PlacesInv, Accounted, DirectPcs, Carries
    <3>2. /\ ~Launched(i) /\ ~InQueue(i) /\ Carried(i)
          /\ \A p \in Proc \ {Req(i)} : ~Carries(p, i)
      BY <3>1 DEF PlacesInv, InOnePlace, Carried
    <3>3. /\ pc'[Req(i)] = "failed"
          /\ \A p \in Proc \ {Req(i)} : pc'[p] = pc[p] /\ held'[p] = held[p]
      BY <1>0, <2>2
    <3>4. ~Launched(i)' /\ ~InQueue(i)' /\ ~Carried(i)'
      BY <1>0, <3>2, <3>3 DEF Launched, InQueue, Carried, Carries
    <3>5. \A j \in Input \ {i} : QuietFor(j)
      BY <1>0, <3>1, <3>3 DEF QuietFor, InQueue, Launched, Carries
    <3>6. InOnePlace(i)' /\ Accounted(i)'
      BY <3>3, <3>4 DEF InOnePlace, Accounted, Carried, DirectPcs, LaunchedPcs
    <3>7. Place(i) = "handed" /\ PlaceByCase(i)' = "refused"
      BY <3>2, <3>3, <3>4, PlaceIs DEF PlaceByCase, RefusedPcs
    <3>8. NoRepeats'
      BY DEF PlacesInv, NoRepeats
    <3> QED BY <1>p, <3>5, <3>6, <3>7, <3>8, OneMove, RefuseLedger
  <2> QED BY <2>1, <2>2
<1>9. CASE PushAnswer(i)
  <2>1. Quiet
    BY <1>0, <1>9 DEF PushAnswer, Quiet, QuietFor, InQueue, Launched, Carries, OfferedPcs,
                      SavedPcs, RefusedPcs, DirectPcs, LaunchedPcs
  <2> QED BY <1>p, <2>1, QuietStep
<1>10. CASE RefuseInput(i)
  BY <1>10, <1>b DEF RefuseInput, OfferedPcs
<1> QED BY <1>1, <1>2, <1>3, <1>4, <1>5, <1>6, <1>7, <1>8, <1>9, <1>10 DEF RequestStep

\* Canceling a saved turn moves no input (turn_exec/recovery.rs:142-195).
LEMMA SavedTurnStepPlaces ==
    ASSUME PlacesInv, ProgramInv', NEW k \in Client, SavedTurnStep(k)
    PROVE  PlacesInv' /\ LedgerStep
<1> USE ProcFacts, DrainerFacts DEF Goto
<1>0. /\ pc \in [Proc -> ReqPcs \cup DrainPcs] /\ held \in [Proc -> Turn]
      /\ task' = task /\ queue' = queue
  BY DEF PlacesInv, ProgramInv, TypeOK, SavedTurnStep, SavedTurnCommit, SavedTurnIdle,
         SavedTurnRecord, turnVars
<1>p. PostOnce'
  BY <1>0 DEF PlacesInv, PostOnce, SavedTurnStep, SavedTurnCommit, SavedTurnIdle,
              SavedTurnRecord
<1>s. pc[Req(k)] \in SavedPcs => pc[Spawned(k)] = "off" /\ k \notin Pushers
  BY DEF PlacesInv, ProgramInv, PcKinds, SpawnedOnce, Client, Input, SavedPcs, InterruptPcs
<1> USE DEF Quiet, QuietFor, InQueue, Launched, Carries, OfferedPcs, SavedPcs, RefusedPcs,
            DirectPcs, LaunchedPcs
<1>1. CASE SavedTurnCommit(k)
  BY <1>0, <1>1, <1>p, QuietStep DEF SavedTurnCommit
<1>2. CASE SavedTurnIdle(k)
  BY <1>0, <1>2, <1>p, QuietStep DEF SavedTurnIdle
<1>3. CASE SavedTurnRecord(k)
  <2>1. /\ pc'[Spawned(k)] = "check" /\ pc[Spawned(k)] = "off"
        /\ pc[Req(k)] = "savedRecord" /\ pc'[Req(k)] \in {"answered", "checkRegistry"}
        /\ k \in Input => pc'[Req(k)] = "checkRegistry"
        /\ \A p \in Proc \ {Req(k), Spawned(k)} : pc'[p] = pc[p] /\ held'[p] = held[p]
    BY <1>0, <1>3, <1>s, ClientAssumption DEF SavedTurnRecord, Input
  <2>2. \A j \in Input : \A p \in Proc : Carries(p, j)' <=> Carries(p, j)
    BY <2>1
  <2> QED BY <1>0, <1>p, <2>1, <2>2, QuietStep
<1> QED BY <1>1, <1>2, <1>3 DEF SavedTurnStep

\* Launching a turn takes its input from the task's hands into the turn
\* (active_turn.rs:140-197).
LEMMA LaunchStepPlaces ==
    ASSUME PlacesInv, ProgramInv', NEW p \in Proc, LaunchStep(p)
    PROVE  PlacesInv' /\ LedgerStep
<1> USE ProcFacts, DrainerFacts DEF Goto
<1>0. /\ pc \in [Proc -> ReqPcs \cup DrainPcs] /\ held \in [Proc -> Turn]
      /\ queue' = queue /\ \A q \in Proc \ {p} : pc'[q] = pc[q] /\ held'[q] = held[q]
      /\ task \in [Input -> {"none", "spawned", "setup", "running", "ended", "finalized",
                           "recorded", "merged", "cleared", "done", "aborted"}]
  BY DEF PlacesInv, ProgramInv, TypeOK, LaunchStep, InsertCancelToken, RegisterTurn, SpawnTask,
         SetAbortHandle
<1>o. pc[p] # "off"
  BY DEF LaunchStep, InsertCancelToken, RegisterTurn, SpawnTask, SetAbortHandle
<1>1. CASE InsertCancelToken(p) \/ RegisterTurn(p)
  <2>1. /\ pc[p] \in {"token", "register"} /\ pc'[p] \in {"register", "spawn"}
        /\ held'[p] = held[p] /\ task' = task
    BY <1>0, <1>1 DEF InsertCancelToken, RegisterTurn, turnVars
  <2>2. \A j \in Input : \A q \in Proc : Carries(q, j)' <=> Carries(q, j)
    BY <1>0, <2>1 DEF Carries
  <2>3. Quiet
    BY <1>0, <2>1, <2>2 DEF Quiet, QuietFor, InQueue, Launched, OfferedPcs, SavedPcs, RefusedPcs,
                            DirectPcs, LaunchedPcs
  <2>4. PostOnce'
    BY <1>0, <2>1 DEF PlacesInv, PostOnce
  <2> QED BY <2>3, <2>4, QuietStep
<1>2. CASE SetAbortHandle(p)
  <2>1. /\ pc[p] = "abortHandle" /\ pc'[p] = IF p \in Requests THEN "started" ELSE "done"
        /\ task' = task
    BY <1>0, <1>2 DEF SetAbortHandle, turnVars
  <2>2. \A j \in Input : \A q \in Proc : Carries(q, j)' <=> Carries(q, j)
    BY <1>0, <2>1 DEF Carries
  <2>3. Quiet
    BY <1>0, <2>1, <2>2 DEF Quiet, QuietFor, InQueue, Launched, OfferedPcs, SavedPcs, RefusedPcs,
                            DirectPcs, LaunchedPcs
  <2>4. PostOnce'
    BY <1>0, <2>1 DEF PlacesInv, PostOnce
  <2> QED BY <2>3, <2>4, QuietStep
<1>3. CASE SpawnTask(p)
  <2>1. /\ pc[p] = "spawn" /\ pc'[p] = "abortHandle" /\ held' = held
        /\ task' = [task EXCEPT ![held[p]] = "spawned"]
    BY <1>0, <1>3 DEF SpawnTask
  <2>2. CASE held[p] \notin Input
    <3>1. task' = task
      BY <1>0, <2>1, <2>2
    <3>2. p \notin Requests
      <4> SUFFICES ASSUME p \in Requests PROVE FALSE
        OBVIOUS
      <4>1. PICK k \in Client : p = Req(k)
        BY DEF Requests
      <4>2. k \in Input
        BY <2>1, <4>1 DEF PlacesInv, ProgramInv, PcKinds, InterruptPcs, SavedPcs, Client, Input
      <4> QED BY <2>1, <2>2, <4>1, <4>2 DEF PlacesInv, Accounted, DirectPcs
    <3>3. \A j \in Input : \A q \in Proc : Carries(q, j)' <=> Carries(q, j)
      BY <1>0, <2>1, <2>2 DEF Carries
    <3>4. Quiet
      BY <1>0, <2>1, <3>1, <3>2, <3>3 DEF Quiet, QuietFor, InQueue, Launched
    <3>5. PostOnce'
      BY <1>0, <2>1, <3>1 DEF PlacesInv, PostOnce
    <3> QED BY <3>4, <3>5, QuietStep
  <2>3. CASE held[p] \in Input
    <3>0. PICK i \in Input : i = held[p]
      BY <2>3
    <3>1. Carries(p, i) /\ Carried(i) /\ ~Launched(i) /\ ~InQueue(i)
      BY <2>1, <3>0 DEF Carries, Carried, PlacesInv, InOnePlace
    <3>2. \A q \in Proc \ {p} : ~Carries(q, i)
      BY <3>0, <3>1 DEF PlacesInv, InOnePlace
    <3>3. p \in Requests => p = Req(i)
      BY <3>0, <3>1, CarrierOfRequest
    <3>4. p \in Drainers => pc[Req(i)] = "queued"
      BY <3>0, <3>1 DEF PlacesInv, InOnePlace
    <3>5. Launched(i)' /\ ~InQueue(i)' /\ ~Carried(i)'
      BY <1>0, <2>1, <3>0, <3>1, <3>2 DEF Launched, InQueue, Carried, Carries
    <3>6. \A j \in Input \ {i} : \A q \in Proc : Carries(q, j)' <=> Carries(q, j)
      BY <1>0, <2>1, <3>0 DEF Carries
    <3>7. \A j \in Input \ {i} : (Launched(j)' <=> Launched(j)) /\ pc'[Req(j)] = pc[Req(j)]
      <4> SUFFICES ASSUME NEW j \in Input \ {i}
                   PROVE  (Launched(j)' <=> Launched(j)) /\ pc'[Req(j)] = pc[Req(j)]
        OBVIOUS
      <4>1. Req(j) # p
        BY <3>3 DEF Proc
      <4> QED BY <1>0, <2>1, <3>0, <4>1 DEF Launched
    <3>8. \A j \in Input \ {i} : QuietFor(j)
      BY <1>0, <3>6, <3>7 DEF QuietFor, InQueue
    <3>9. pc'[Req(i)] \in {"abortHandle", "queued"}
      BY <1>0, <2>1, <3>0, <3>3, <3>4 DEF Proc
    <3>10. InOnePlace(i)' /\ Accounted(i)'
      BY <3>5, <3>9 DEF InOnePlace, Accounted, Carried, OfferedPcs, SavedPcs, RefusedPcs,
                        DirectPcs, LaunchedPcs
    <3>11. Place(i) = "handed" /\ PlaceByCase(i)' = "handed"
      BY <3>0, <3>1, <3>5, PlaceIs DEF PlaceByCase
    <3>12. NoRepeats'
      BY <1>0 DEF PlacesInv, NoRepeats
    <3>13. PostOnce'
      BY <1>0, <1>o, <2>1, <3>0, <3>1 DEF PlacesInv, PostOnce, Launched
    <3>14. PlacesInv' /\ \A j \in Input : Place(j)' = IF j = i THEN PlaceByCase(i)' ELSE Place(j)
      BY <3>0, <3>8, <3>10, <3>12, <3>13, OneMove
    <3> QED BY <1>0, <3>11, <3>14, StutterLedger
  <2> QED BY <2>2, <2>3
<1> QED BY <1>1, <1>2, <1>3 DEF LaunchStep

\* The turn task keeps its input (session_actor/turn.rs:18-166).
LEMMA TaskStepPlaces ==
    ASSUME PlacesInv, ProgramInv', NEW t \in Input, TaskStep(t)
    PROVE  PlacesInv' /\ LedgerStep
<1> USE ProcFacts, DrainerFacts DEF Goto
<1>0. /\ pc \in [Proc -> ReqPcs \cup DrainPcs] /\ held' = held /\ queue' = queue
      /\ task \in [Input -> {"none", "spawned", "setup", "running", "ended", "finalized",
                           "recorded", "merged", "cleared", "done", "aborted"}]
      /\ \A p \in Proc \ {Post(t)} : pc'[p] = pc[p]
  BY DEF PlacesInv, ProgramInv, TypeOK, TaskStep, Checkout, StartQuery, EndQuery, SaveDisposition,
         RecordTerminal, Merge, ClearHandles, SchedulePostTurn, TaskStops, procVars
<1>1. task[t] # "none" /\ task[t] # "done"
  BY DEF TaskStep, Checkout, StartQuery, EndQuery, SaveDisposition,
         RecordTerminal, Merge, ClearHandles, SchedulePostTurn, TaskStops
<1>2. pc[Post(t)] = "off"
  BY <1>1 DEF PlacesInv, PostOnce
<1>3. \/ pc'[Post(t)] = "off" /\ task'[t] # "none"
      \/ pc'[Post(t)] = "check" /\ task'[t] = "done"
  BY <1>0, <1>2 DEF TaskStep, Checkout, StartQuery, EndQuery, SaveDisposition,
         RecordTerminal, Merge, ClearHandles, SchedulePostTurn, TaskStops, procVars
<1>4. \A s \in Input \ {t} : task'[s] = task[s]
  BY <1>0 DEF TaskStep, Checkout, StartQuery, EndQuery, SaveDisposition,
         RecordTerminal, Merge, ClearHandles, SchedulePostTurn, TaskStops
<1>5. \A p \in Proc : \A j \in Input : Carries(p, j)' <=> Carries(p, j)
  BY <1>0, <1>2, <1>3 DEF Carries
<1>6. Quiet
  BY <1>0, <1>1, <1>3, <1>4, <1>5 DEF Quiet, QuietFor, InQueue, Launched
<1>7. PostOnce'
  BY <1>0, <1>3, <1>4 DEF PlacesInv, PostOnce
<1> QED BY <1>6, <1>7, QuietStep

\* A drain takes the front of the queue into its hands
\* (turn_exec/followup.rs:37-336).
LEMMA DrainStepPlaces ==
    ASSUME PlacesInv, ProgramInv', NEW p \in Drainers, DrainStep(p)
    PROVE  PlacesInv' /\ LedgerStep
<1> USE ProcFacts, DrainerFacts DEF Goto
<1>0. /\ pc \in [Proc -> ReqPcs \cup DrainPcs] /\ held \in [Proc -> Turn]
      /\ task' = task /\ pc[p] # "off"
      /\ \A q \in Proc \ {p} : pc'[q] = pc[q] /\ held'[q] = held[q]
  BY DEF PlacesInv, ProgramInv, TypeOK, DrainStep, PostTurnCheck, KickCheck, TakeGate, PopNothing,
         PopInput, Activate, turnVars
<1>p. PostOnce'
  BY <1>0 DEF PlacesInv, PostOnce
<1>1. CASE PostTurnCheck(p) \/ KickCheck(p) \/ TakeGate(p) \/ PopNothing(p) \/ Activate(p)
  <2>1. /\ queue' = queue /\ held' = held
        /\ \/ pc[p] = "activate" /\ pc'[p] = "token"
           \/ pc[p] \notin CarryPcs /\ pc'[p] \notin CarryPcs
    BY <1>0, <1>1 DEF PostTurnCheck, KickCheck, TakeGate, PopNothing, Activate, CarryPcs
  <2>2. \A j \in Input : \A q \in Proc : Carries(q, j)' <=> Carries(q, j)
    BY <1>0, <2>1 DEF Carries, CarryPcs
  <2>3. Quiet
    BY <1>0, <2>1, <2>2 DEF Quiet, QuietFor, InQueue, Launched
  <2> QED BY <1>p, <2>3, QuietStep
<1>2. CASE PopInput(p)
  <2>1. queue # <<>> /\ queue \in Seq(Input)
    BY <1>2 DEF PopInput, MayPop, PlacesInv, ProgramInv, TypeOK
  <2>2. PICK i \in Input : i = Head(queue)
    BY <2>1, HeadTailProperties
  <2>3. /\ queue' = Tail(queue) /\ held'[p] = i /\ pc[p] = "pop" /\ pc'[p] = "activate"
    BY <1>0, <1>2, <2>2 DEF PopInput, QueuePopped, NextInput
  <2>4. /\ Len(queue) \in Nat /\ Len(queue) > 0 /\ queue[1] = i
        /\ Len(queue') = Len(queue) - 1
        /\ \A n \in 1..Len(queue') : queue'[n] = queue[n + 1]
    BY <2>1, <2>2, <2>3, HeadTailProperties
  <2>5. InQueue(i)
    BY <2>4 DEF InQueue
  <2>6. pc[Req(i)] = "queued" /\ ~Launched(i) /\ ~Carried(i)
    BY <2>5 DEF PlacesInv, InOnePlace
  <2>7. \A m, n \in 1..Len(queue) : queue[m] = queue[n] => m = n
    BY DEF PlacesInv, NoRepeats
  <2>8. ~InQueue(i)'
    <3> SUFFICES ASSUME NEW n \in 1..Len(queue'), queue'[n] = i PROVE FALSE
      BY DEF InQueue
    <3>1. n + 1 \in 1..Len(queue) /\ 1 \in 1..Len(queue) /\ queue[n + 1] = queue[1]
      BY <2>4
    <3> QED BY <2>7, <3>1
  <2>9. NoRepeats'
    <3> SUFFICES ASSUME NEW m \in 1..Len(queue'), NEW n \in 1..Len(queue'),
                        queue'[m] = queue'[n]
                 PROVE  m = n
      BY DEF NoRepeats
    <3>1. m + 1 \in 1..Len(queue) /\ n + 1 \in 1..Len(queue) /\ queue[m + 1] = queue[n + 1]
      BY <2>4
    <3> QED BY <2>7, <3>1
  <2>10. \A j \in Input \ {i} : InQueue(j)' <=> InQueue(j)
    <3> SUFFICES ASSUME NEW j \in Input \ {i} PROVE InQueue(j)' <=> InQueue(j)
      OBVIOUS
    <3>1. ASSUME NEW n \in 1..Len(queue'), queue'[n] = j PROVE InQueue(j)
      <4>1. n + 1 \in 1..Len(queue) /\ queue[n + 1] = j
        BY <2>4, <3>1
      <4> QED BY <4>1 DEF InQueue
    <3>2. ASSUME NEW n \in 1..Len(queue), queue[n] = j PROVE InQueue(j)'
      <4>1. n # 1
        BY <2>4, <3>2
      <4>2. n - 1 \in 1..Len(queue') /\ (n - 1) + 1 = n
        BY <2>4, <4>1
      <4> QED BY <2>4, <3>2, <4>2 DEF InQueue
    <3> QED BY <3>1, <3>2 DEF InQueue
  <2>11. \A j \in Input \ {i} : \A q \in Proc : Carries(q, j)' <=> Carries(q, j)
    BY <1>0, <2>3 DEF Carries
  <2>12. \A j \in Input \ {i} : QuietFor(j)
    BY <1>0, <2>10, <2>11 DEF QuietFor, Launched
  <2>13. Carries(p, i)' /\ \A q \in Proc \ {p} : ~Carries(q, i)'
    BY <1>0, <2>3, <2>6 DEF Carried, Carries
  <2>14. InOnePlace(i)' /\ Accounted(i)'
    BY <1>0, <2>6, <2>8, <2>13 DEF InOnePlace, Accounted, Carried, Launched, OfferedPcs, SavedPcs,
                                   RefusedPcs, DirectPcs, LaunchedPcs
  <2>15. PlaceByCase(i)' = "handed"
    BY <2>13 DEF PlaceByCase, Carried
  <2>16. PlacesInv' /\ \A j \in Input : Place(j)' = IF j = i THEN PlaceByCase(i)' ELSE Place(j)
    BY <1>p, <2>9, <2>12, <2>14, OneMove
  <2> QED BY <2>1, <2>2, <2>3, <2>15, <2>16, HandOverFirstLedger
<1> QED BY <1>1, <1>2 DEF DrainStep

\* An interrupt moves no input (handlers/turn_interrupt.rs:108-473).
LEMMA InterruptStepPlaces ==
    ASSUME PlacesInv, ProgramInv', NEW i \in Interrupters,
           InterruptStep(i) \/ InterruptTimeout(i) \/ \E t \in Input : InterruptRequest(i, t)
    PROVE  PlacesInv' /\ LedgerStep
<1> USE ProcFacts, DrainerFacts
<1>0. /\ pc \in [Proc -> ReqPcs \cup DrainPcs] /\ task' = task /\ queue' = queue
      /\ \A p \in Proc \ {Req(i), Spawned(i)} : pc'[p] = pc[p] /\ held'[p] = held[p]
      /\ held'[Spawned(i)] = held[Spawned(i)]
  <2> USE DEF PlacesInv, ProgramInv, TypeOK, turnVars, Goto
  <2>1. CASE InterruptLookup(i)
    BY <2>1 DEF InterruptLookup, CancelSavedTurn
  <2>2. CASE InterruptRecord(i)
    BY <2>2 DEF InterruptRecord
  <2> QED BY <2>1, <2>2 DEF InterruptStep, InterruptTimeout, InterruptRequest, InterruptSubscribe,
             InterruptDispose, InterruptSignal, InterruptAnswered, InterruptAbort,
             InterruptRecheck, InterruptClaim, InterruptClear
<1>1. pc[Req(i)] \notin {"answered", "rejected"}
  BY DEF InterruptStep, InterruptTimeout, InterruptRequest, InterruptLookup, InterruptRecord,
         InterruptSubscribe, InterruptDispose, InterruptSignal, InterruptAnswered, InterruptAbort,
         InterruptRecheck, InterruptClaim, InterruptClear
<1>2. pc[Spawned(i)] = "off"
  BY <1>1 DEF PlacesInv, ProgramInv, SpawnedOnce
<1>3. pc'[Spawned(i)] \in {"off", "gate"}
  <2> USE <1>0, <1>2 DEF Goto
  <2>1. CASE InterruptLookup(i)
    BY <2>1 DEF InterruptLookup, CancelSavedTurn
  <2> QED BY <2>1 DEF InterruptStep, InterruptTimeout, InterruptRequest, InterruptSubscribe,
             InterruptDispose, InterruptSignal, InterruptAnswered, InterruptAbort,
             InterruptRecheck, InterruptClaim, InterruptClear, InterruptRecord
<1>4. pc[Req(i)] \notin CarryPcs /\ pc'[Req(i)] \notin CarryPcs
  BY DEF PlacesInv, ProgramInv, PcKinds, InterruptPcs, SavedPcs, CarryPcs
<1>5. \A j \in Input : \A p \in Proc : Carries(p, j)' <=> Carries(p, j)
  BY <1>0, <1>2, <1>3, <1>4 DEF Carries, CarryPcs
<1>6. \A j \in Input : pc'[Req(j)] = pc[Req(j)]
  BY <1>0, ClientAssumption DEF Input
<1>7. Quiet
  BY <1>0, <1>5, <1>6 DEF Quiet, QuietFor, InQueue, Launched
<1>8. PostOnce'
  BY <1>0 DEF PlacesInv, PostOnce
<1> QED BY <1>7, <1>8, QuietStep

\* PlacesInv is inductive, and every step is a step of the ledger.
LEMMA StepPlaces == PlacesInv /\ [Next]_vars => PlacesInv' /\ LedgerStep
<1> SUFFICES ASSUME PlacesInv, [Next]_vars PROVE PlacesInv' /\ LedgerStep
  OBVIOUS
<1>0. ProgramInv'
  BY StepProgram DEF PlacesInv
<1>1. CASE \E i \in Input : RequestStep(i)
  BY <1>0, <1>1, RequestStepPlaces
<1>2. CASE \E k \in Client : SavedTurnStep(k)
  BY <1>0, <1>2, SavedTurnStepPlaces
<1>3. CASE \E p \in Proc : LaunchStep(p)
  BY <1>0, <1>3, LaunchStepPlaces
<1>4. CASE \E t \in Input : TaskStep(t)
  BY <1>0, <1>4, TaskStepPlaces
<1>5. CASE \E p \in Drainers : DrainStep(p)
  BY <1>0, <1>5, DrainStepPlaces
<1>6. CASE \E i \in Interrupters : InterruptStep(i) \/ InterruptTimeout(i)
  BY <1>0, <1>6, InterruptStepPlaces
<1>7. CASE \E i \in Interrupters, t \in Input : InterruptRequest(i, t)
  BY <1>0, <1>7, InterruptStepPlaces
<1>8. CASE UNCHANGED vars
  <2>1. Quiet
    BY <1>8 DEF vars, Quiet, QuietFor, InQueue, Launched, Carries
  <2>2. PostOnce'
    BY <1>8 DEF vars, PlacesInv, PostOnce
  <2> QED BY <1>0, <2>1, <2>2, QuietStep
<1> QED BY <1>1, <1>2, <1>3, <1>4, <1>5, <1>6, <1>7, <1>8 DEF Next, Rest

LEMMA InitPlaces == Init => PlacesInv /\ Ledger!LedgerInit
<1> SUFFICES ASSUME Init PROVE PlacesInv /\ Ledger!LedgerInit
  OBVIOUS
<1>1. ProgramInv
  BY InitProgram
<1>2. \A k \in Client : pc[Req(k)] = "new"
  BY ProcFacts DEF Init
<1>3. \A p \in Proc : pc[p] \in {"new", "off"}
  BY ProcFacts DEF Init
<1>4. queue = <<>> /\ \A i \in Input : task[i] = "none"
  BY DEF Init
<1>5. NoRepeats /\ \A i \in Input : ~InQueue(i) /\ ~Launched(i) /\ ~Carried(i)
  BY <1>3, <1>4 DEF NoRepeats, InQueue, Launched, Carried, Carries
<1>6. PostOnce
  BY ProcFacts DEF Init, PostOnce
<1>7. \A i \in Input : InOnePlace(i) /\ Accounted(i)
  BY <1>2, <1>5, ProcFacts DEF InOnePlace, Accounted, Carried, DirectPcs, LaunchedPcs
<1>8. PlacesInv
  BY <1>1, <1>5, <1>6, <1>7 DEF PlacesInv
<1>9. \A i \in Input : Place(i) = "offered"
  BY <1>2, <1>5, <1>8, PlaceIs, ProcFacts DEF PlaceByCase, RefusedPcs
<1> QED BY <1>4, <1>8, <1>9 DEF Ledger!LedgerInit

\* An accepted push is in the queue, in the hands of one drainer or in a turn,
\* and in one of them only, however many drains run at once
\* (handlers/turn.rs:488-514, turn_exec/followup.rs:213-248).
THEOREM NothingIsLost == Spec => []NoInputLost
<1>1. PlacesInv => NoInputLost
  <2> SUFFICES ASSUME PlacesInv, NEW i \in Pushers, pc[Req(i)] = "queued"
               PROVE  /\ InQueue(i) \/ (\E p \in Drainers : Carries(p, i)) \/ task[i] # "none"
                      /\ InQueue(i) => task[i] = "none" /\ \A p \in Drainers : ~Carries(p, i)
                      /\ \A p, q \in Drainers : Carries(p, i) /\ Carries(q, i) => p = q
                      /\ \A m, n \in 1..Len(queue) : queue[m] = i /\ queue[n] = i => m = n
    BY DEF NoInputLost
  <2>1. i \in Input /\ \A p \in Drainers : p \in Proc
    BY ProcFacts DEF Input
  <2> QED BY <2>1 DEF PlacesInv, InOnePlace, Accounted, NoRepeats, Launched, Carried
<1> QED BY <1>1, InitPlaces, StepPlaces, PTL DEF Spec

\* The runtime implements the ledger: an input is refused, handed to a turn or
\* accepted, and accepted inputs are handed to turns once each, in the order
\* they were accepted (turn_exec/followup.rs:70-89, 133-158).
THEOREM ImplementsLedger == Spec => InputsAreServed
<1>1. Init => Ledger!LedgerInit
  BY InitPlaces
<1>2. PlacesInv /\ [Next]_vars => [Ledger!LedgerNext]_(Ledger!ledgerVars)
  BY StepPlaces DEF LedgerStep
<1> QED BY <1>1, <1>2, InitPlaces, StepPlaces, PTL DEF Spec, InputsAreServed, Ledger!LedgerSpec

-----------------------------------------------------------------------------
(***************************************************************************)
(* Cancellation.                                                           *)
(***************************************************************************)
Journaled == \A t \in Input : disposition[t] = "canceled" => disposition'[t] = "canceled"

\* Three steps write a disposition, and none makes a canceled turn resumable.
LEMMA StepJournaled == TypeOK /\ [Next]_vars => Journaled
<1> SUFFICES ASSUME TypeOK, [Next]_vars PROVE Journaled
  OBVIOUS
<1> USE DEF Journaled
<1>0. disposition \in [Input -> {"none", "available", "canceled"}]
  BY DEF TypeOK
<1>1. CASE \E i \in Input : RequestStep(i)
  BY <1>1 DEF RequestStep, StartRequest, PushRequest, CheckRegistry, ReservationSnapshot,
              AdmitUnderGate, RefuseInput, Enqueue, Begin, PersistStart, PushAnswer, statusVars
<1>2. CASE \E k \in Client : SavedTurnStep(k)
  BY <1>0, <1>2 DEF SavedTurnStep, SavedTurnCommit, SavedTurnIdle, SavedTurnRecord, statusVars
<1>3. CASE \E p \in Proc : LaunchStep(p)
  BY <1>3 DEF LaunchStep, InsertCancelToken, RegisterTurn, SpawnTask, SetAbortHandle, statusVars
<1>4. CASE \E t \in Input : TaskStep(t)
  <2>1. PICK t \in Input : TaskStep(t)
    BY <1>4
  <2>2. CASE SaveDisposition(t)
    BY <1>0, <2>2 DEF SaveDisposition, SavedAs
  <2> QED BY <2>1, <2>2 DEF TaskStep, Checkout, StartQuery, EndQuery, RecordTerminal, Merge,
             ClearHandles, SchedulePostTurn, TaskStops, statusVars
<1>5. CASE \E p \in Drainers : DrainStep(p)
  BY <1>5 DEF DrainStep, PostTurnCheck, KickCheck, TakeGate, PopNothing, PopInput, Activate,
              statusVars
<1>6. CASE \E i \in Interrupters : InterruptStep(i) \/ InterruptTimeout(i)
  BY <1>0, <1>6 DEF InterruptStep, InterruptTimeout, InterruptLookup, InterruptRecord,
         InterruptSubscribe, InterruptDispose, InterruptSignal, InterruptAnswered, InterruptAbort,
         InterruptRecheck, InterruptClaim, InterruptClear, statusVars
<1>7. CASE \E i \in Interrupters, t \in Input : InterruptRequest(i, t)
  BY <1>7 DEF InterruptRequest, statusVars
<1>8. CASE UNCHANGED vars
  BY <1>8 DEF vars
<1> QED BY <1>1, <1>2, <1>3, <1>4, <1>5, <1>6, <1>7, <1>8 DEF Next, Rest

\* A turn the user canceled stays canceled: neither its own late failure nor
\* another cancellation makes it resumable again (turn_exec/recovery.rs:197-240).
THEOREM CanceledIsFinal == Spec => CanceledStays
<1>1. TypeOK /\ [Next]_vars => [Journaled]_vars
  BY StepJournaled
<1> QED BY <1>1, TypeCorrect, PTL DEF Spec, CanceledStays, Journaled
=============================================================================
