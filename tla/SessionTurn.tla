---------------------------- MODULE SessionTurn ----------------------------
(***************************************************************************)
(* The turn lifecycle of one loaded session of the server runtime          *)
(* (crates/server/src/runtime): who may start a turn, how queued inputs    *)
(* are drained, how a turn is interrupted and how its end is merged back.  *)
(*                                                                         *)
(* Four pieces of state are written by different tasks, each under its own *)
(* lock, and nothing writes two of them at once:                           *)
(*   - the session actor's active_turn and latest_turn (a mailbox: each    *)
(*     command is one step);                                               *)
(*   - the ActiveTurnRegistry entry of the session (a mutex per call);     *)
(*   - the pending turn queue (a std mutex shared by everyone);            *)
(*   - the state-change gate, an async mutex taken by turn admission.      *)
(*                                                                         *)
(* An input is one user message; the turn that runs it is named after it.  *)
(* So a turn exists at most once, and no bound on turns is needed.         *)
(***************************************************************************)
EXTENDS Integers, Sequences, FiniteSets

CONSTANTS
    Starters,     \* native turn/start requests (queue policy RejectActive)
    Pushers,      \* queue/push requests (queue policy Queue)
    Interrupters, \* turn/interrupt requests
    Outcomes,     \* how an uncancelled model query may end
    NoTurn        \* no turn, no input

ASSUME ClientAssumption ==
    /\ Starters \cap Pushers = {}
    /\ (Starters \cup Pushers) \cap Interrupters = {}
    /\ NoTurn \notin Starters \cup Pushers \cup Interrupters
    /\ Outcomes \subseteq {"Completed", "Failed"}

Input == Starters \cup Pushers
Client == Input \cup Interrupters
Turn == Input \cup {NoTurn}

(***************************************************************************)
(* The tasks of the runtime: the request handlers, the background task a   *)
(* request spawns (an idle drain, a recovery drain or, after a saved turn  *)
(* was canceled, post-turn scheduling) and the post-turn scheduling of     *)
(* each turn.  The turn task itself has its own state, task[t].            *)
(***************************************************************************)
Req(k) == <<"req", k>>
Spawned(k) == <<"spawned", k>>
Post(t) == <<"post", t>>

Requests == {Req(k) : k \in Client}
Drainers == {Spawned(k) : k \in Client} \cup {Post(t) : t \in Input}
Proc == Requests \cup Drainers
NoProc == <<"none", NoTurn>>

VARIABLES
    active,       \* SessionActorState::active_turn
    latest,       \* SessionActorState::latest_turn and its status
    queue,        \* SessionActorState::pending_turn_queue
    gate,         \* holder of SessionHandle::state_change_gate
    recoveryGate, \* holder of ServerRuntime::recovery_gates[session]
    registry,     \* ActiveTurnRegistry entry of the session
    pc,           \* where each request and drainer is
    held,         \* the input a task popped, admits or cancels
    mode,         \* which drain a drainer runs: chain, next, kick
    target,       \* the turn an interrupt request names
    task,         \* the life of each turn's spawned task
    token,        \* whose cancel token the model query watches
    outcome,      \* how the model query of each turn ended
    terminal,     \* terminal_turn_statuses
    disposition,  \* the journaled RecoveryDisposition of each turn
    cancelled,    \* turns whose cancel token fired
    aborting      \* turns whose task was aborted and has not stopped yet

actorVars == <<active, latest>>
turnVars == <<task, token, outcome>>
statusVars == <<terminal, disposition, cancelled, aborting>>
lockVars == <<gate, recoveryGate>>
procVars == <<pc, held, mode, target>>
vars == <<active, latest, queue, gate, recoveryGate, registry, pc, held, mode,
          target, task, token, outcome, terminal, disposition, cancelled,
          aborting>>

(***************************************************************************)
(* The registry entry.  An entry whose fields are all empty is removed by  *)
(* maybe_remove_empty, so EmptyEntry also stands for "no entry".           *)
(***************************************************************************)
EmptyEntry == [turn |-> NoTurn, cancelToken |-> NoTurn, abort |-> NoTurn, mirrors |-> {}]
HasSession == registry # EmptyEntry

Statuses == {"Completed", "Failed", "Interrupted"}
ReqPcs == {"new", "savedCommit", "savedIdle", "savedRecord", "checkRegistry", "snapshot",
           "admit", "enqueue", "begin", "persist", "token", "register", "spawn", "abortHandle",
           "queued", "started", "rejected", "failed",
           "subscribe", "dispose", "signal", "wait", "abort", "recheck", "claim", "clear",
           "record", "answered", "panicked"}
DrainPcs == {"off", "check", "kick", "gate", "pop", "activate", "token", "register", "spawn",
             "abortHandle", "done"}

TypeOK ==
    /\ active \in Turn
    /\ latest \in [turn : Turn, status : Statuses \cup {"none"}]
    /\ queue \in Seq(Input)
    /\ gate \in Proc \cup {NoProc}
    /\ recoveryGate \in Proc \cup {NoProc}
    /\ registry \in [turn : Turn, cancelToken : Turn, abort : Turn, mirrors : SUBSET Turn]
    /\ pc \in [Proc -> ReqPcs \cup DrainPcs]
    /\ held \in [Proc -> Turn]
    /\ mode \in [Drainers -> {"none", "chain", "next", "kick"}]
    /\ target \in [Interrupters -> Turn]
    /\ task \in [Input -> {"none", "spawned", "setup", "running", "ended", "finalized",
                           "recorded", "merged", "cleared", "done", "aborted"}]
    /\ token \in [Input -> Turn]
    /\ outcome \in [Input -> Statuses \cup {"none"}]
    /\ terminal \in [Input -> Statuses \cup {"none"}]
    /\ disposition \in [Input -> {"none", "available", "canceled"}]
    /\ cancelled \subseteq Input
    /\ aborting \subseteq Input

Init ==
    /\ active = NoTurn
    /\ latest = [turn |-> NoTurn, status |-> "none"]
    /\ queue = <<>>
    /\ gate = NoProc
    /\ recoveryGate = NoProc
    /\ registry = EmptyEntry
    /\ pc = [p \in Proc |-> IF p \in Requests THEN "new" ELSE "off"]
    /\ held = [p \in Proc |-> NoTurn]
    /\ mode = [p \in Drainers |-> "none"]
    /\ target = [i \in Interrupters |-> NoTurn]
    /\ task = [t \in Input |-> "none"]
    /\ token = [t \in Input |-> NoTurn]
    /\ outcome = [t \in Input |-> "none"]
    /\ terminal = [t \in Input |-> "none"]
    /\ disposition = [t \in Input |-> "none"]
    /\ cancelled = {}
    /\ aborting = {}

Goto(p, l) == pc' = [pc EXCEPT ![p] = l]

-----------------------------------------------------------------------------
(***************************************************************************)
(* The saved turn: a turn that ended without completing and that the user  *)
(* may still resume.  saved_turn reads the registry, the actor and the     *)
(* journal; it is one step here, and what its callers do next is another.  *)
(***************************************************************************)
SavedTurn ==
    /\ ~HasSession
    /\ latest.turn # NoTurn
    /\ latest.status # "Completed"
    /\ disposition[latest.turn] # "canceled"
    /\ ~(latest.status = "Interrupted" /\ disposition[latest.turn] = "none")

\* Where the request of client k goes on when there was no saved turn to cancel.
AfterNoSavedTurn(k) ==
    IF k \in Interrupters
        THEN IF terminal[target[k]] # "none" THEN "answered" ELSE "rejected"
        ELSE "checkRegistry"

\* cancel_saved_turn takes the recovery gate and looks for a saved turn.
CancelSavedTurn(k) ==
    /\ recoveryGate = NoProc
    /\ \/ /\ SavedTurn
          /\ recoveryGate' = Req(k)
          /\ held' = [held EXCEPT ![Req(k)] = latest.turn]
          /\ Goto(Req(k), "savedCommit")
       \/ /\ ~SavedTurn
          /\ Goto(Req(k), AfterNoSavedTurn(k))
          /\ UNCHANGED <<recoveryGate, held>>

\* The cancellation is journaled before anything else changes.
SavedTurnCommit(k) ==
    /\ pc[Req(k)] = "savedCommit"
    /\ disposition' = [disposition EXCEPT ![held[Req(k)]] = "canceled"]
    /\ Goto(Req(k), "savedIdle")
    /\ UNCHANGED <<actorVars, queue, lockVars, registry, held, mode, target, turnVars,
                   terminal, cancelled, aborting>>

\* set_runtime_session_idle: the actor clears active_turn, whatever it is.
SavedTurnIdle(k) ==
    /\ pc[Req(k)] = "savedIdle"
    /\ active' = NoTurn
    /\ latest' = [turn |-> held[Req(k)], status |-> "Interrupted"]
    /\ Goto(Req(k), "savedRecord")
    /\ UNCHANGED <<queue, lockVars, registry, held, mode, target, turnVars, statusVars>>

\* The terminal status is recorded, post-turn scheduling is spawned and the
\* recovery gate is released.
SavedTurnRecord(k) ==
    /\ pc[Req(k)] = "savedRecord"
    /\ terminal' = [terminal EXCEPT ![held[Req(k)]] = "Interrupted"]
    /\ recoveryGate' = NoProc
    /\ held' = [held EXCEPT ![Req(k)] = NoTurn]
    /\ pc' = [pc EXCEPT ![Req(k)] = IF k \in Interrupters THEN "answered" ELSE "checkRegistry",
                        ![Spawned(k)] = "check"]
    /\ mode' = [mode EXCEPT ![Spawned(k)] = "chain"]
    /\ UNCHANGED <<actorVars, queue, gate, registry, target, turnVars, disposition,
                   cancelled, aborting>>

-----------------------------------------------------------------------------
(***************************************************************************)
(* turn/start and queue/push.  Both run the same admission; only the queue *)
(* policy differs.  A push does not cancel a saved turn and does not look  *)
(* at the registry.                                                        *)
(***************************************************************************)
StartRequest(i) ==
    /\ i \in Starters
    /\ pc[Req(i)] = "new"
    /\ CancelSavedTurn(i)
    /\ UNCHANGED <<actorVars, queue, gate, registry, mode, target, turnVars, statusVars>>

PushRequest(i) ==
    /\ i \in Pushers
    /\ pc[Req(i)] = "new"
    /\ Goto(Req(i), "snapshot")
    /\ UNCHANGED <<actorVars, queue, lockVars, registry, held, mode, target, turnVars,
                   statusVars>>

\* RejectActive: a turn in the registry rejects without asking the actor.
CheckRegistry(i) ==
    /\ pc[Req(i)] = "checkRegistry"
    /\ Goto(Req(i), IF registry.turn # NoTurn THEN "rejected" ELSE "snapshot")
    /\ UNCHANGED <<actorVars, queue, lockVars, registry, held, mode, target, turnVars,
                   statusVars>>

BusyPc(i) == IF i \in Starters THEN "rejected" ELSE "enqueue"

\* The first, gate-free reservation snapshot.
ReservationSnapshot(i) ==
    /\ pc[Req(i)] = "snapshot"
    /\ Goto(Req(i), IF active = NoTurn THEN "admit" ELSE BusyPc(i))
    /\ UNCHANGED <<actorVars, queue, lockVars, registry, held, mode, target, turnVars,
                   statusVars>>

\* Mutant: the snapshot under the gate is not looked at.
AdmitPcUnchecked(i) == "begin"
AdmitPc(i) == IF active = NoTurn THEN "begin" ELSE BusyPc(i)

\* The gate, and the snapshot read again under it.  A start that finds the
\* session busy after all leaves with an error, which drops the guard; a push
\* keeps the guard while it enqueues.
AdmitUnderGate(i) ==
    /\ pc[Req(i)] = "admit"
    /\ gate = NoProc
    /\ Goto(Req(i), AdmitPc(i))
    /\ gate' = IF active # NoTurn /\ i \in Starters THEN NoProc ELSE Req(i)
    /\ UNCHANGED <<actorVars, queue, recoveryGate, registry, held, mode, target, turnVars,
                   statusVars>>

\* The input does not resolve, or a hook blocks the prompt: the request leaves
\* with an error, and the guard, if it has it, is dropped.
RefuseInput(i) ==
    /\ pc[Req(i)] \in {"enqueue", "begin"}
    /\ Goto(Req(i), "rejected")
    /\ gate' = IF gate = Req(i) THEN NoProc ELSE gate
    /\ UNCHANGED <<actorVars, queue, recoveryGate, registry, held, mode, target, turnVars,
                   statusVars>>

\* Mutant: what the request holds is enqueued, not what it was given.
EnqueuedHeld(i) == Append(queue, held[Req(i)])
Enqueued(i) == Append(queue, i)

\* Mutant: no idle drain is spawned.
AfterEnqueueNoKick(i) == [pc EXCEPT ![Req(i)] = "queued"]
AfterEnqueue(i) == [pc EXCEPT ![Req(i)] = "queued", ![Spawned(i)] = "kick"]

\* The push to the shared queue, and the idle drain spawned after it.
Enqueue(i) ==
    /\ pc[Req(i)] = "enqueue"
    /\ queue' = Enqueued(i)
    /\ pc' = AfterEnqueue(i)
    /\ mode' = [mode EXCEPT ![Spawned(i)] = "kick"]
    /\ gate' = IF gate = Req(i) THEN NoProc ELSE gate
    /\ UNCHANGED <<actorVars, recoveryGate, registry, held, target, turnVars, statusVars>>

\* BeginActiveTurn, which does not look at the turn it may replace; then the
\* guard is dropped.
Begin(i) ==
    /\ pc[Req(i)] = "begin"
    /\ active' = i
    /\ held' = [held EXCEPT ![Req(i)] = i]
    /\ gate' = NoProc
    /\ Goto(Req(i), "persist")
    /\ UNCHANGED <<latest, queue, recoveryGate, registry, mode, target, turnVars, statusVars>>

\* Mutant: a failed write leaves the turn active.
NotTakenBack(i) == active
TakenBack(i) == IF active = i THEN NoTurn ELSE active

\* The turn line is written; a failed write takes the turn back, if it is
\* still the active one.
PersistStart(i) ==
    /\ pc[Req(i)] = "persist"
    /\ \/ /\ Goto(Req(i), "token")
          /\ UNCHANGED <<active, held>>
       \/ /\ Goto(Req(i), "failed")
          /\ active' = TakenBack(i)
          /\ held' = [held EXCEPT ![Req(i)] = NoTurn]
    /\ UNCHANGED <<latest, queue, lockVars, registry, mode, target, turnVars, statusVars>>

\* A push that started a turn answers with the session's active turn, read
\* after the launch.
PushAnswer(i) ==
    /\ i \in Pushers
    /\ pc[Req(i)] = "started"
    /\ Goto(Req(i), IF active # NoTurn THEN "answered" ELSE "panicked")
    /\ UNCHANGED <<actorVars, queue, lockVars, registry, held, mode, target, turnVars,
                   statusVars>>

-----------------------------------------------------------------------------
(***************************************************************************)
(* The launch of a turn, shared by direct admission and by the drains:     *)
(* spawn snapshot and cancel token, then the turn's metadata, then the     *)
(* spawned task, then its abort handle.  A drain holds the gate until the  *)
(* metadata is registered, a direct admission dropped it earlier.          *)
(***************************************************************************)
InsertCancelToken(p) ==
    /\ pc[p] = "token"
    /\ registry' = [registry EXCEPT !.cancelToken = held[p],
                                    !.mirrors = @ \cup {held[p]}]
    /\ Goto(p, "register")
    /\ UNCHANGED <<actorVars, queue, lockVars, held, mode, target, turnVars, statusVars>>

RegisterTurn(p) ==
    /\ pc[p] = "register"
    /\ registry' = [registry EXCEPT !.turn = held[p]]
    /\ gate' = IF gate = p THEN NoProc ELSE gate
    /\ Goto(p, "spawn")
    /\ UNCHANGED <<actorVars, queue, recoveryGate, held, mode, target, turnVars, statusVars>>

SpawnTask(p) ==
    /\ pc[p] = "spawn"
    /\ task' = [task EXCEPT ![held[p]] = "spawned"]
    /\ Goto(p, "abortHandle")
    /\ UNCHANGED <<actorVars, queue, lockVars, registry, held, mode, target, token, outcome,
                   statusVars>>

\* set_abort_handle writes only an existing entry.
SetAbortHandle(p) ==
    /\ pc[p] = "abortHandle"
    /\ registry' = IF HasSession THEN [registry EXCEPT !.abort = held[p]] ELSE registry
    /\ held' = [held EXCEPT ![p] = NoTurn]
    /\ Goto(p, IF p \in Requests THEN "started" ELSE "done")
    /\ UNCHANGED <<actorVars, queue, lockVars, mode, target, turnVars, statusVars>>

-----------------------------------------------------------------------------
(***************************************************************************)
(* The turn task.                                                          *)
(***************************************************************************)
\* Checkout of the working set, and the spawn snapshot and stream mirrors.
Checkout(t) ==
    /\ task[t] = "spawned"
    /\ task' = [task EXCEPT ![t] = "setup"]
    /\ registry' = [registry EXCEPT !.mirrors = @ \cup {t}]
    /\ UNCHANGED <<actorVars, queue, lockVars, procVars, token, outcome, statusVars>>

\* The query watches the token it finds in the entry, or a fresh one.
StartQuery(t) ==
    /\ task[t] = "setup"
    /\ task' = [task EXCEPT ![t] = "running"]
    /\ token' = [token EXCEPT ![t] = registry.cancelToken]
    /\ UNCHANGED <<actorVars, queue, lockVars, registry, procVars, outcome, statusVars>>

\* The select is biased to the token: once it fired the query ends Aborted,
\* unless it failed by itself in the grace period.
EndQuery(t) ==
    /\ task[t] = "running"
    /\ task' = [task EXCEPT ![t] = "ended"]
    /\ \E o \in IF token[t] \in cancelled THEN {"Interrupted"} \cup (Outcomes \cap {"Failed"})
                ELSE Outcomes :
            outcome' = [outcome EXCEPT ![t] = o]
    /\ UNCHANGED <<actorVars, queue, lockVars, registry, procVars, token, statusVars>>

\* Mutant: a late failure makes a canceled turn resumable again.
SavedAsAvailable(t) == "available"
SavedAs(t) == IF disposition[t] = "canceled" THEN "canceled" ELSE "available"

\* A failed turn may be resumed, unless the user already canceled it.
SaveDisposition(t) ==
    /\ task[t] = "ended"
    /\ task' = [task EXCEPT ![t] = "finalized"]
    /\ IF outcome[t] = "Failed"
        THEN /\ recoveryGate = NoProc
             /\ disposition' = [disposition EXCEPT ![t] = SavedAs(t)]
        ELSE UNCHANGED disposition
    /\ UNCHANGED <<actorVars, queue, lockVars, registry, procVars, token, outcome, terminal,
                   cancelled, aborting>>

\* record_terminal_turn_status: the status, and the waiters of the turn.
RecordTerminal(t) ==
    /\ task[t] = "finalized"
    /\ task' = [task EXCEPT ![t] = "recorded"]
    /\ terminal' = [terminal EXCEPT ![t] = outcome[t]]
    /\ UNCHANGED <<actorVars, queue, lockVars, registry, procVars, token, outcome,
                   disposition, cancelled, aborting>>

\* MergeTurn: the actor takes active_turn (None) and latest_turn from the
\* working set, whatever its own are.
Merge(t) ==
    /\ task[t] = "recorded"
    /\ task' = [task EXCEPT ![t] = "merged"]
    /\ active' = NoTurn
    /\ latest' = [turn |-> t, status |-> outcome[t]]
    /\ UNCHANGED <<queue, lockVars, registry, procVars, token, outcome, statusVars>>

\* clear_runtime_handles drops the entry of the session, not of the turn.
ClearHandles(t) ==
    /\ task[t] = "merged"
    /\ task' = [task EXCEPT ![t] = "cleared"]
    /\ registry' = EmptyEntry
    /\ UNCHANGED <<actorVars, queue, lockVars, procVars, token, outcome, statusVars>>

\* The task's last act is to spawn post-turn scheduling.
SchedulePostTurn(t) ==
    /\ task[t] = "cleared"
    /\ task' = [task EXCEPT ![t] = "done"]
    /\ Goto(Post(t), "check")
    /\ mode' = [mode EXCEPT ![Post(t)] = "chain"]
    /\ UNCHANGED <<actorVars, queue, lockVars, registry, held, target, token, outcome,
                   statusVars>>

\* An aborted task stops at one of its next suspension points.
TaskStops(t) ==
    /\ t \in aborting
    /\ task[t] \notin {"none", "done", "aborted"}
    /\ task' = [task EXCEPT ![t] = "aborted"]
    /\ UNCHANGED <<actorVars, queue, lockVars, registry, procVars, token, outcome, statusVars>>

-----------------------------------------------------------------------------
(***************************************************************************)
(* The drains.  Post-turn scheduling runs the chain and then the plain     *)
(* drain, both popping whether or not a turn is active; the idle drain     *)
(* (the kick after an enqueue) pops only when none is.                     *)
(***************************************************************************)
\* Post-turn scheduling stops while the user may still resume the turn.
PostTurnCheck(p) ==
    /\ pc[p] = "check"
    /\ Goto(p, IF SavedTurn THEN "done" ELSE "gate")
    /\ UNCHANGED <<actorVars, queue, lockVars, registry, held, mode, target, turnVars,
                   statusVars>>

\* drain_queue_if_idle looks before it takes the gate.
KickCheck(p) ==
    /\ pc[p] = "kick"
    /\ Goto(p, IF active # NoTurn \/ queue = <<>> THEN "done" ELSE "gate")
    /\ UNCHANGED <<actorVars, queue, lockVars, registry, held, mode, target, turnVars,
                   statusVars>>

TakeGate(p) ==
    /\ pc[p] = "gate"
    /\ gate = NoProc
    /\ gate' = p
    /\ Goto(p, "pop")
    /\ UNCHANGED <<actorVars, queue, recoveryGate, registry, held, mode, target, turnVars,
                   statusVars>>

MayPop(p) == queue # <<>> /\ (mode[p] = "kick" => active = NoTurn)

\* Mutant: the newest input is taken.
NewestInput == queue[Len(queue)]
NextInput == Head(queue)

\* Mutant: the popped input stays in the queue.
QueueUnpopped == queue
QueuePopped == Tail(queue)

\* PopQueuedTurnInput is one actor command.
PopNothing(p) ==
    /\ pc[p] = "pop"
    /\ ~MayPop(p)
    /\ gate' = NoProc
    /\ Goto(p, IF mode[p] = "chain" THEN "gate" ELSE "done")
    /\ mode' = [mode EXCEPT ![p] = IF @ = "chain" THEN "next" ELSE @]
    /\ UNCHANGED <<actorVars, queue, recoveryGate, registry, held, target, turnVars,
                   statusVars>>

PopInput(p) ==
    /\ pc[p] = "pop"
    /\ MayPop(p)
    /\ held' = [held EXCEPT ![p] = NextInput]
    /\ queue' = QueuePopped
    /\ Goto(p, "activate")
    /\ UNCHANGED <<actorVars, lockVars, registry, mode, target, turnVars, statusVars>>

\* ActivateQueuedTurn does not look at the turn it may replace.
Activate(p) ==
    /\ pc[p] = "activate"
    /\ active' = held[p]
    /\ Goto(p, "token")
    /\ UNCHANGED <<latest, queue, lockVars, registry, held, mode, target, turnVars, statusVars>>

-----------------------------------------------------------------------------
(***************************************************************************)
(* turn/interrupt.                                                         *)
(***************************************************************************)
\* A client names a turn it was told about: one that has been admitted.
InterruptRequest(i, t) ==
    /\ pc[Req(i)] = "new"
    /\ task[t] # "none"
    /\ target' = [target EXCEPT ![i] = t]
    /\ Goto(Req(i), "checkRegistry")
    /\ UNCHANGED <<actorVars, queue, lockVars, registry, held, mode, turnVars, statusVars>>

\* The turn must be the registered one; otherwise it may be the saved turn,
\* or one that ended a moment ago.
InterruptLookup(i) ==
    LET p == Req(i)  t == target[i] IN
    /\ pc[p] = "checkRegistry"
    /\ \/ /\ registry.turn = t
          /\ Goto(p, "subscribe")
          /\ UNCHANGED <<recoveryGate, held>>
       \/ /\ registry.turn # t
          /\ latest.turn = t
          /\ CancelSavedTurn(i)
       \/ /\ registry.turn # t
          /\ latest.turn # t
          /\ Goto(p, IF terminal[t] # "none" THEN "answered" ELSE "rejected")
          /\ UNCHANGED <<recoveryGate, held>>
    /\ UNCHANGED <<actorVars, queue, gate, registry, mode, target, turnVars, statusVars>>

\* A turn that is terminal already answers the request.
InterruptSubscribe(i) ==
    /\ pc[Req(i)] = "subscribe"
    /\ Goto(Req(i), IF terminal[target[i]] # "none" THEN "answered" ELSE "dispose")
    /\ UNCHANGED <<actorVars, queue, lockVars, registry, held, mode, target, turnVars,
                   statusVars>>

\* persist_recovery_disposition, under the recovery gate.
InterruptDispose(i) ==
    /\ pc[Req(i)] = "dispose"
    /\ recoveryGate = NoProc
    /\ disposition' = [disposition EXCEPT ![target[i]] = "canceled"]
    /\ Goto(Req(i), "signal")
    /\ UNCHANGED <<actorVars, queue, lockVars, registry, held, mode, target, turnVars,
                   terminal, cancelled, aborting>>

\* The token that fires is the one in the entry now.
InterruptSignal(i) ==
    /\ pc[Req(i)] = "signal"
    /\ cancelled' = cancelled \cup ({registry.cancelToken} \ {NoTurn})
    /\ Goto(Req(i), "wait")
    /\ UNCHANGED <<actorVars, queue, lockVars, registry, held, mode, target, turnVars,
                   terminal, disposition, aborting>>

InterruptAnswered(i) ==
    /\ pc[Req(i)] \in {"wait", "recheck"}
    /\ terminal[target[i]] # "none"
    /\ Goto(Req(i), "answered")
    /\ UNCHANGED <<actorVars, queue, lockVars, registry, held, mode, target, turnVars,
                   statusVars>>

\* TURN_INTERRUPT_TERMINAL_TIMEOUT passes without a terminal status.
InterruptTimeout(i) ==
    /\ pc[Req(i)] = "wait"
    /\ terminal[target[i]] = "none"
    /\ Goto(Req(i), "abort")
    /\ UNCHANGED <<actorVars, queue, lockVars, registry, held, mode, target, turnVars,
                   statusVars>>

\* Mutant: after the abort the request waits again for a terminal status.
InterruptAbortAndWait(i) ==
    /\ pc[Req(i)] = "abort"
    /\ aborting' = aborting \cup ({registry.abort} \ {NoTurn})
    /\ registry' = [registry EXCEPT !.abort = NoTurn]
    /\ Goto(Req(i), "wait")
    /\ UNCHANGED <<actorVars, queue, lockVars, held, mode, target, turnVars, terminal,
                   disposition, cancelled>>

\* abort_task takes the handle that is in the entry now.
InterruptAbort(i) ==
    /\ pc[Req(i)] = "abort"
    /\ aborting' = aborting \cup ({registry.abort} \ {NoTurn})
    /\ registry' = [registry EXCEPT !.abort = NoTurn]
    /\ Goto(Req(i), "recheck")
    /\ UNCHANGED <<actorVars, queue, lockVars, held, mode, target, turnVars, terminal,
                   disposition, cancelled>>

InterruptRecheck(i) ==
    /\ pc[Req(i)] = "recheck"
    /\ terminal[target[i]] = "none"
    /\ Goto(Req(i), "claim")
    /\ UNCHANGED <<actorVars, queue, lockVars, registry, held, mode, target, turnVars,
                   statusVars>>

\* InterruptActiveTurn takes whatever turn is active.
InterruptClaim(i) ==
    /\ pc[Req(i)] = "claim"
    /\ active' = NoTurn
    /\ latest' = IF active = NoTurn THEN latest
                 ELSE [turn |-> active, status |-> "Interrupted"]
    /\ Goto(Req(i), IF active = target[i] THEN "clear" ELSE "rejected")
    /\ UNCHANGED <<queue, lockVars, registry, held, mode, target, turnVars, statusVars>>

InterruptClear(i) ==
    /\ pc[Req(i)] = "clear"
    /\ registry' = EmptyEntry
    /\ Goto(Req(i), "record")
    /\ UNCHANGED <<actorVars, queue, lockVars, held, mode, target, turnVars, statusVars>>

\* The claimed turn is recorded and the next queued input is started.
InterruptRecord(i) ==
    /\ pc[Req(i)] = "record"
    /\ terminal' = [terminal EXCEPT ![target[i]] = "Interrupted"]
    /\ pc' = [pc EXCEPT ![Req(i)] = "answered", ![Spawned(i)] = "gate"]
    /\ mode' = [mode EXCEPT ![Spawned(i)] = "next"]
    /\ UNCHANGED <<actorVars, queue, lockVars, registry, held, target, turnVars,
                   disposition, cancelled, aborting>>

-----------------------------------------------------------------------------
RequestStep(i) ==
    \/ StartRequest(i) \/ PushRequest(i) \/ CheckRegistry(i) \/ ReservationSnapshot(i)
    \/ AdmitUnderGate(i) \/ RefuseInput(i) \/ Enqueue(i) \/ Begin(i) \/ PersistStart(i)
    \/ PushAnswer(i)

SavedTurnStep(k) == SavedTurnCommit(k) \/ SavedTurnIdle(k) \/ SavedTurnRecord(k)

LaunchStep(p) ==
    InsertCancelToken(p) \/ RegisterTurn(p) \/ SpawnTask(p) \/ SetAbortHandle(p)

TaskStep(t) ==
    \/ Checkout(t) \/ StartQuery(t) \/ EndQuery(t) \/ SaveDisposition(t) \/ RecordTerminal(t)
    \/ Merge(t) \/ ClearHandles(t) \/ SchedulePostTurn(t) \/ TaskStops(t)

DrainStep(p) ==
    \/ PostTurnCheck(p) \/ KickCheck(p) \/ TakeGate(p) \/ PopNothing(p) \/ PopInput(p)
    \/ Activate(p)

InterruptStep(i) ==
    \/ InterruptLookup(i) \/ InterruptSubscribe(i) \/ InterruptDispose(i) \/ InterruptSignal(i)
    \/ InterruptAnswered(i) \/ InterruptAbort(i) \/ InterruptRecheck(i) \/ InterruptClaim(i)
    \/ InterruptClear(i) \/ InterruptRecord(i)

\* Every request was answered, every task ended: the system rests.
Rest ==
    /\ \A k \in Input : pc[Req(k)] \in {"queued", "started", "answered", "panicked", "rejected",
                                     "failed"}
    /\ \A p \in Drainers : pc[p] \in {"off", "done"}
    /\ \A t \in Input : task[t] \in {"none", "done", "aborted"}
    /\ \A i \in Interrupters : pc[Req(i)] \in {"new", "answered", "rejected"}
    /\ UNCHANGED vars

Next ==
    \/ \E i \in Input : RequestStep(i)
    \/ \E k \in Client : SavedTurnStep(k)
    \/ \E p \in Proc : LaunchStep(p)
    \/ \E t \in Input : TaskStep(t)
    \/ \E p \in Drainers : DrainStep(p)
    \/ \E i \in Interrupters : InterruptStep(i)
    \/ \E i \in Interrupters : InterruptTimeout(i)
    \/ \E i \in Interrupters, t \in Input : InterruptRequest(i, t)
    \/ Rest

Spec == Init /\ [][Next]_vars

(***************************************************************************)
(* Tokio polls every runnable task and the mutexes are FIFO; model queries *)
(* end, by themselves or by the provider's timeouts.  So every step of     *)
(* every task is weakly fair; taking the gate is strongly fair.  A client  *)
(* is not obliged to send anything.                                        *)
(***************************************************************************)
TaskProgress(t) ==
    \/ Checkout(t) \/ StartQuery(t) \/ EndQuery(t) \/ RecordTerminal(t) \/ Merge(t)
    \/ ClearHandles(t) \/ SchedulePostTurn(t)

Fairness ==
    /\ \A i \in Input : /\ WF_vars(pc[Req(i)] # "new" /\ RequestStep(i))
                         /\ SF_vars(AdmitUnderGate(i))
                         /\ WF_vars(TaskProgress(i))
                         /\ SF_vars(SaveDisposition(i))
    /\ \A k \in Client : WF_vars(SavedTurnStep(k))
    /\ \A p \in Proc : WF_vars(LaunchStep(p))
    /\ \A p \in Drainers : WF_vars(DrainStep(p)) /\ SF_vars(TakeGate(p))
    /\ \A i \in Interrupters : /\ WF_vars(InterruptStep(i)) /\ WF_vars(InterruptTimeout(i))
                               /\ SF_vars(InterruptDispose(i)) /\ SF_vars(InterruptLookup(i))

FairSpec == Spec /\ Fairness

-----------------------------------------------------------------------------
(***************************************************************************)
(* Safety.                                                                 *)
(***************************************************************************)
InQueue(i) == \E n \in 1..Len(queue) : queue[n] = i

\* A task that popped or began i and has not yet spawned its turn.
Carries(p, i) ==
    held[p] = i /\ pc[p] \in {"activate", "persist", "token", "register", "spawn"}

\* A client-driven admission, and the idle drain that rescues an input pushed
\* past the end of a turn, never admit a turn over an active one: what they
\* saw under the gate is still so when they act (handlers/turn.rs:283-303,
\* turn_exec/followup.rs:15-17).
IdleAdmission ==
    /\ \A i \in Input : pc[Req(i)] = "begin" => active = NoTurn
    /\ \A p \in Drainers : pc[p] = "activate" /\ mode[p] = "kick" => active = NoTurn

\* What makes it so: a request about to begin its turn, and a drainer that is
\* to pop or holds what it popped, has the gate.
GateDiscipline ==
    /\ \A i \in Input : pc[Req(i)] = "begin" => gate = Req(i)
    /\ \A p \in Drainers : pc[p] \in {"pop", "activate"} => gate = p

\* An accepted push is in exactly one place: the queue, the hands of one
\* drainer, or a turn (handlers/turn.rs:488-514, turn_exec/followup.rs:213-248).
NoInputLost ==
    \A i \in Pushers : pc[Req(i)] = "queued" =>
        /\ \/ InQueue(i)
           \/ \E p \in Drainers : Carries(p, i)
           \/ task[i] # "none"
        /\ InQueue(i) => task[i] = "none" /\ \A p \in Drainers : ~Carries(p, i)
        /\ \A p, q \in Drainers : Carries(p, i) /\ Carries(q, i) => p = q
        /\ \A m, n \in 1..Len(queue) : queue[m] = i /\ queue[n] = i => m = n

\* A turn the user canceled stays canceled: neither its own late failure nor
\* another cancellation makes it resumable again (turn_exec/recovery.rs:197-240).
CanceledStays ==
    [][\A t \in Input : disposition[t] = "canceled" => disposition'[t] = "canceled"]_vars

(***************************************************************************)
(* What a client that pushes inputs is promised: each input is refused,    *)
(* started at once or accepted, and what was accepted is handed to turns   *)
(* once each and in the order it was accepted, whichever of the concurrent *)
(* drains hands it over (turn_exec/followup.rs:70-89, 133-158).            *)
(***************************************************************************)
Place(i) ==
    CASE task[i] # "none" \/ \E p \in Proc : Carries(p, i) -> "handed"
      [] task[i] = "none" /\ InQueue(i) /\ ~(\E p \in Proc : Carries(p, i)) -> "waiting"
      [] pc[Req(i)] \in {"rejected", "failed"} -> "refused"
      [] OTHER -> "offered"

Ledger == INSTANCE InputLedger WITH
    Inputs <- Input, place <- [i \in Input |-> Place(i)], waiting <- queue

InputsAreServed == Ledger!LedgerSpec

(***************************************************************************)
(* Liveness.                                                               *)
(***************************************************************************)
Accepted(i) == pc[Req(i)] = "queued"
StartFailed == \E k \in Input : pc[Req(k)] = "failed"

\* An accepted push is started, or waits for the user to decide about a saved
\* turn (turn_exec/followup.rs:32-36, turn_exec/mod.rs:53-61); the start that
\* occupied the session must not have failed: a failed start drains nothing
\* (handlers/turn.rs:620-640).
QueuedIsStarted ==
    \A i \in Pushers : Accepted(i) ~> (task[i] # "none" \/ SavedTurn \/ StartFailed)

\* Once the requests stop, the session is released: no active turn, no
\* registry entry, no gate (session_actor/turn.rs:137-163).
Released == active = NoTurn /\ registry = EmptyEntry /\ gate = NoProc
EventuallyReleased == <>[]Released

\* An interrupt of a turn is answered, though the task it waits for may have
\* been aborted or may never record a status (handlers/turn_interrupt.rs:237-286).
InterruptIsAnswered ==
    \A i \in Interrupters : pc[Req(i)] # "new" ~> pc[Req(i)] \in {"answered", "rejected"}

=============================================================================
