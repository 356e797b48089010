----------------------------- MODULE Approvals ------------------------------
(***************************************************************************)
(* A tool call that needs consent: the waiting item and the checkpoint     *)
(* written to the rollout, the lane a decision comes in by, and the        *)
(* continuation that runs an approved call whose turn is gone.             *)
(*                                                                         *)
(* One session is the host and the owner of its approvals.  A turn is its  *)
(* query loop; which turns are admitted is the business of SessionTurn.    *)
(* Only the latest turn can be continued, so only its status is kept.      *)
(***************************************************************************)
EXTENDS Naturals, FiniteSets

CONSTANTS
    Asks,        \* approval ids (tool call ids)
    Clients,     \* connections a pending request is sent again to
    Hydration,   \* the source of answers read back from the rollout
    MaxTurns,    \* bound: turns of the session
    MaxMishaps   \* bound: lines not written, process exits, hard aborts,
                 \* answers that overtake the request

Sources == Clients \cup {Hydration}
Decisions == {"approved", "denied", "cancelled"}
None == "none"

ASSUME ApprovalsAssumption ==
    /\ Hydration \notin Clients
    /\ MaxTurns \in Nat /\ MaxMishaps \in Nat

VARIABLES
    item,        \* rollout: the last line of each approval
    checkpoint,  \* rollout: the approvals with a checkpoint
    result,      \* rollout: what each call left, a tool result or a file change
    status,      \* rollout: status of the latest turn
    latest,      \* the latest turn
    turnOf,      \* the turn of each approval
    loaded,      \* "no", "hydrating" or "yes": the session's actor
    mark,        \* in memory, the latest turn has status WaitingApproval
    live,        \* a query loop of the latest turn is running
    reg,         \* who is in the active-turn registry: a turn, or a continuation
                 \* that has not come to its query
    act,         \* the actor has an active turn
    stopped,     \* who fired the registered execution's cancel token: the user,
                 \* or a new message
    lane,        \* the interactive lane of each approval
    ctl,         \* the decision in a live lane's controller channel
    pc,          \* where each live request_tool_approval is, then its call
    dec,         \* the decision it has come to
    sent,        \* the decision an answer sent through its lane instead
    task,        \* where each answer of a source to an approval is
    ans,         \* the decision it brings
    loose,       \* continuations that run on after their turn was given up
    consented,   \* history: approvals somebody approved
    unwritten,   \* history: approvals a line of which was lost
    gaveUp,      \* history: some continuation was given up
    mishaps      \* what is left of the bound

rollout == <<item, checkpoint, result, status, latest, turnOf>>
session == <<loaded, mark, live, reg, act, stopped>>
lanes == <<lane, ctl>>
waiters == <<pc, dec, sent>>
answers == <<task, ans, loose>>
history == <<consented, unwritten, gaveUp, mishaps>>
vars == <<rollout, session, lanes, waiters, answers, history>>

InWait == {"ask", "wait"}
Busy == {"checkpoint", "register", "ask", "wait", "record", "take", "fail",
         "failTake", "run", "ran"}
Continues == {"check", "execute", "result", "query"}
TaskStates == {None, "bound", "sent", "record", "take", "spawned", "begin"} \cup Continues

TypeOK ==
    /\ item \in [Asks -> Decisions \cup {None, "waiting"}]
    /\ checkpoint \subseteq Asks
    /\ result \in [Asks -> {None, "result", "change"}]
    /\ status \in {None, "inProgress", "waiting", "completed", "failed", "interrupted"}
    /\ latest \in 0..MaxTurns
    /\ turnOf \in [Asks -> 0..MaxTurns]
    /\ loaded \in {"no", "hydrating", "yes"}
    /\ mark \in BOOLEAN /\ live \in BOOLEAN /\ act \in BOOLEAN
    /\ stopped \in {None, "user", "message"}
    /\ reg \in {None, "turn", "cont"}
    /\ loaded # "yes" => reg = None /\ ~act /\ ~live
    /\ lane \in [Asks -> {None, "live", "restored"}]
    /\ ctl \in [Asks -> Decisions \cup {None}]
    /\ pc \in [Asks -> Busy \cup {None, "done"}]
    /\ dec \in [Asks -> Decisions \cup {None}]
    /\ sent \in [Asks -> Decisions \cup {None}]
    /\ task \in [Sources \X Asks -> TaskStates]
    /\ ans \in [Sources \X Asks -> Decisions \cup {None}]
    /\ loose \subseteq {t \in Sources \X Asks : task[t] \in Continues}
    /\ consented \subseteq Asks /\ unwritten \subseteq Asks
    /\ gaveUp \in BOOLEAN
    /\ mishaps \in 0..MaxMishaps

Init ==
    /\ item = [a \in Asks |-> None]
    /\ checkpoint = {} /\ result = [a \in Asks |-> None]
    /\ status = None /\ latest = 0
    /\ turnOf = [a \in Asks |-> 0]
    /\ loaded = "yes"
    /\ mark = FALSE /\ live = FALSE /\ reg = None /\ act = FALSE /\ stopped = None
    /\ lane = [a \in Asks |-> None] /\ ctl = [a \in Asks |-> None]
    /\ pc = [a \in Asks |-> None] /\ dec = [a \in Asks |-> None]
    /\ sent = [a \in Asks |-> None]
    /\ task = [t \in Sources \X Asks |-> None]
    /\ ans = [t \in Sources \X Asks |-> None]
    /\ loose = {}
    /\ consented = {} /\ unwritten = {} /\ gaveUp = FALSE
    /\ mishaps = MaxMishaps

Mishap == mishaps > 0 /\ mishaps' = mishaps - 1

Hears(a, d) == consented' = IF d = "approved" THEN consented \cup {a} ELSE consented

\* persist_native_active_turn_item: a line that cannot be written is a warning.
Persist(a, d) ==
    \/ item' = [item EXCEPT ![a] = d] /\ UNCHANGED <<unwritten, mishaps>>
    \/ UNCHANGED item /\ unwritten' = unwritten \cup {a} /\ Mishap

-----------------------------------------------------------------------------
(* request_tool_approval in a query loop.                                   *)

At(a, l) == pc[a] = l /\ live
Goto(a, l) == pc' = [pc EXCEPT ![a] = l]

\* The waiting item is written first; without it the wait goes on all the same.
Ask(a) ==
    /\ live /\ pc[a] = None /\ turnOf[a] = 0
    /\ turnOf' = [turnOf EXCEPT ![a] = latest]
    /\ Persist(a, "waiting")
    /\ Goto(a, "checkpoint")
    /\ UNCHANGED <<checkpoint, result, status, latest, session, lanes, dec, sent, answers,
                   consented, gaveUp>>

\* No checkpoint: the call is refused, its waiting item stays.
Checkpoint(a) ==
    /\ At(a, "checkpoint")
    /\ \/ /\ checkpoint' = checkpoint \cup {a}
          /\ mark' = act
          /\ Goto(a, "register")
          /\ UNCHANGED <<unwritten, mishaps>>
       \/ /\ Goto(a, "done")
          /\ unwritten' = unwritten \cup {a}
          /\ Mishap
          /\ UNCHANGED <<checkpoint, mark>>
    /\ UNCHANGED <<item, result, status, latest, turnOf, loaded, live, reg, act, stopped,
                   lanes, dec, sent, answers, consented, gaveUp>>

Register(a) ==
    /\ At(a, "register")
    /\ lane' = [lane EXCEPT ![a] = "live"]
    /\ Goto(a, "ask")
    /\ UNCHANGED <<rollout, session, ctl, dec, sent, answers, history>>

\* The request is on its way to a controller; the item is shown.
Publish(a) ==
    /\ At(a, "ask")
    /\ Goto(a, "wait")
    /\ UNCHANGED <<rollout, session, lanes, dec, sent, answers, history>>

\* The first valid decision of a controller.
Answer(a, d) ==
    /\ At(a, "wait")
    /\ Hears(a, d)
    /\ dec' = [dec EXCEPT ![a] = d]
    /\ Goto(a, "record")
    /\ UNCHANGED <<rollout, session, lanes, sent, answers, unwritten, gaveUp, mishaps>>

\* A decision from a client that subscribed later.  When it overtakes the
\* request, the wait ends in an error that leaves the lane.
Recovered(a) ==
    /\ pc[a] \in InWait /\ live
    /\ ctl[a] # None
    /\ ctl' = [ctl EXCEPT ![a] = None]
    /\ \/ /\ pc[a] = "wait"
          /\ dec' = [dec EXCEPT ![a] = ctl[a]]
          /\ Goto(a, "record")
          /\ UNCHANGED mishaps
       \/ /\ pc[a] = "ask"
          /\ Goto(a, "done")
          /\ Mishap
          /\ UNCHANGED dec
    /\ UNCHANGED <<rollout, session, lane, sent, answers, consented, unwritten, gaveUp>>

\* Mutant: the token is heeded only until the request is delivered.
GiveInUndelivered(a) ==
    /\ At(a, "ask")
    /\ Goto(a, "fail")
    /\ ctl' = [ctl EXCEPT ![a] = None]
    /\ UNCHANGED <<rollout, session, lane, dec, sent, answers, history>>

\* The token fired, or no controller is left.
GiveIn(a) ==
    /\ pc[a] \in InWait /\ live
    /\ Goto(a, "fail")
    /\ ctl' = [ctl EXCEPT ![a] = None]
    /\ UNCHANGED <<rollout, session, lane, dec, sent, answers, history>>

RecordCancelled(a) ==
    /\ At(a, "fail")
    /\ IF item[a] = None THEN UNCHANGED <<item, unwritten, mishaps>> ELSE Persist(a, "cancelled")
    /\ Goto(a, "failTake")
    /\ UNCHANGED <<checkpoint, result, status, latest, turnOf, session, lanes, dec, sent, answers,
                   consented, gaveUp>>

TakeFailed(a) ==
    /\ At(a, "failTake")
    /\ lane' = [lane EXCEPT ![a] = None]
    /\ Goto(a, "done")
    /\ UNCHANGED <<rollout, session, ctl, dec, sent, answers, history>>

\* The decision is written, if the waiting item was, before it is acted on.
RecordDecision(a) ==
    /\ At(a, "record")
    /\ IF item[a] = None THEN UNCHANGED <<item, unwritten, mishaps>> ELSE Persist(a, dec[a])
    /\ Goto(a, "take")
    /\ UNCHANGED <<checkpoint, result, status, latest, turnOf, session, lanes, dec, sent, answers,
                   consented, gaveUp>>

\* The wait returns what was sent through its lane, by itself unless an answer
\* took the lane before.
Outcome(a) == IF lane[a] = "live" THEN dec[a] ELSE sent[a]

Complete(a) ==
    /\ At(a, "take")
    /\ lane' = [lane EXCEPT ![a] = None]
    /\ ctl' = [ctl EXCEPT ![a] = None]
    /\ Goto(a, IF Outcome(a) = "approved" THEN "run" ELSE "done")
    /\ UNCHANGED <<rollout, session, dec, sent, answers, history>>

Run(a) ==
    /\ At(a, "run")
    /\ Goto(a, "ran")
    /\ UNCHANGED <<rollout, session, lanes, dec, sent, answers, history>>

\* A write, an edit or a patch leaves a file change, any other call a result.
RecordResult(a) ==
    /\ At(a, "ran")
    /\ Goto(a, "done")
    /\ \/ \E r \in {"result", "change"} : result' = [result EXCEPT ![a] = r]
          /\ UNCHANGED mishaps
       \/ Mishap /\ UNCHANGED result
    /\ UNCHANGED <<item, checkpoint, status, latest, turnOf, session, lanes, dec, sent, answers,
                   consented, unwritten, gaveUp>>

-----------------------------------------------------------------------------
(* Turns.                                                                   *)

Waiting == \E a \in Asks : pc[a] \in Busy
Terminal == {"completed", "failed", "interrupted"}

\* A turn is admitted; a saved turn before it is cancelled first.  Bound: not
\* while an earlier query or continuation of the session still runs.
StartTurn ==
    /\ loaded = "yes" /\ reg = None /\ ~act /\ ~live
    /\ \A t \in Sources \X Asks : task[t] \notin Continues
    /\ latest < MaxTurns
    /\ latest' = latest + 1
    /\ status' = "inProgress"
    /\ mark' = FALSE /\ live' = TRUE /\ reg' = "turn" /\ act' = TRUE /\ stopped' = None
    /\ UNCHANGED <<item, checkpoint, result, turnOf, loaded, lanes, waiters, answers, history>>

\* Requests sent again under the execution's token end with it.
Unbind(to) == [t \in Sources \X Asks |-> IF task[t] = "bound" THEN to ELSE task[t]]
Forgotten(tk) == [t \in Sources \X Asks |-> IF tk[t] = None THEN None ELSE ans[t]]

Stop(by) ==
    /\ loaded = "yes" /\ reg # None /\ stopped = None
    /\ stopped' = by
    /\ task' = Unbind(None)
    /\ ans' = Forgotten(task')
    /\ UNCHANGED <<rollout, loaded, mark, live, reg, act, lanes, waiters, loose, history>>

\* turn/interrupt.
Interrupt == Stop("user")

\* preempt_approval_parked_turn: a new message finds a request pending at the
\* host and stops the turn.
Preempt == act /\ (\E a \in Asks : lane[a] # None) /\ Stop("message")

\* A saved turn is cancelled by the user; one marked WaitingApproval is not saved.
CancelSaved ==
    /\ loaded = "yes" /\ reg = None
    /\ status \in {"inProgress", "failed"} /\ ~mark
    /\ status' = "interrupted"
    /\ act' = FALSE
    /\ UNCHANGED <<item, checkpoint, result, latest, turnOf, loaded, mark, live, reg, stopped,
                   lanes, waiters, answers, history>>

Querying(t) == task[t] = "query" /\ t \notin loose

\* The query loop of a turn ends; the task of a continuation cancels its token
\* on the way out, a turn's own task does not.
TurnEnds ==
    /\ live /\ ~Waiting
    /\ status' \in IF stopped # None THEN {"completed", "interrupted"} ELSE {"completed", "failed"}
    /\ mark' = FALSE /\ act' = FALSE /\ reg' = None
    /\ \/ /\ \A t \in Sources \X Asks : ~Querying(t)
          /\ live' = FALSE
          /\ task' = Unbind("sent")
       \/ \E t \in Sources \X Asks :
             /\ Querying(t)
             /\ live' = \E u \in (Sources \X Asks) \ {t} : Querying(u)
             /\ task' = [Unbind(None) EXCEPT ![t] = None]
    /\ ans' = Forgotten(task')
    /\ UNCHANGED <<item, checkpoint, result, latest, turnOf, loaded, stopped, lanes, waiters,
                   loose, history>>

Dropped == [a \in Asks |-> IF pc[a] \in Busy THEN "done" ELSE pc[a]]
Laneless == {a \in Asks : pc[a] \in {"checkpoint", "register"}}

\* The interrupt gives a turn up after five seconds.  The turn's own task is
\* aborted, its waits with it; a continuation has no abort handle and runs on.
HardAbort ==
    /\ stopped # None /\ act /\ reg # None
    /\ Mishap
    /\ status' = "interrupted"
    /\ act' = FALSE /\ reg' = None
    /\ \/ /\ live /\ \A t \in Sources \X Asks : ~Querying(t)
          /\ pc' = Dropped
          /\ live' = FALSE
          /\ unwritten' = unwritten \cup Laneless
          /\ UNCHANGED <<loose, gaveUp>>
       \/ \E t \in (Sources \X Asks) \ loose :
             /\ task[t] \in Continues
             /\ ~Waiting
             /\ loose' = loose \cup {t}
             /\ live' = \E u \in (Sources \X Asks) \ {t} : Querying(u)
             /\ gaveUp' = TRUE
             /\ UNCHANGED <<pc, unwritten>>
    /\ UNCHANGED <<item, checkpoint, result, latest, turnOf, loaded, mark, stopped, lanes,
                   dec, sent, task, ans, consented>>

-----------------------------------------------------------------------------
(* Answers that come from elsewhere than the wait itself.                   *)

Move(t, l) == task' = [task EXCEPT ![t] = l]
Leave(t) == task' = [task EXCEPT ![t] = None] /\ ans' = [ans EXCEPT ![t] = None]

\* A client that subscribes is sent the requests in the lanes again, under the
\* token of the execution there is.
Reissue(c, a) ==
    /\ loaded = "yes" /\ lane[a] # None /\ task[<<c, a>>] = None
    /\ Move(<<c, a>>, IF reg # None THEN "bound" ELSE "sent")
    /\ UNCHANGED <<rollout, session, lanes, waiters, ans, loose, history>>

\* With a turn in the registry the answer goes to the lane's controller, which
\* is gone if the lane was restored or its wait is over.
Reply(c, a, d) ==
    /\ task[<<c, a>>] \in {"bound", "sent"}
    /\ Hears(a, d)
    /\ \/ /\ reg # None
          /\ Leave(<<c, a>>)
          /\ ctl' = [ctl EXCEPT ![a] = IF pc[a] \in InWait /\ @ = None THEN d ELSE @]
       \/ /\ reg = None
          /\ Move(<<c, a>>, "record")
          /\ ans' = [ans EXCEPT ![<<c, a>>] = d]
          /\ UNCHANGED ctl
    /\ UNCHANGED <<rollout, session, lane, waiters, loose, unwritten, gaveUp, mishaps>>

\* resolve_approval_from_control_response: the request is rebuilt from the
\* checkpoint, and the decision is written before anything else is done.
RecordAnswer(t) ==
    /\ task[t] = "record"
    /\ \/ /\ loaded = "yes" /\ t[2] \in checkpoint /\ item[t[2]] # None
          /\ Persist(t[2], ans[t])
          /\ Move(t, "take")
          /\ UNCHANGED ans
       \/ /\ loaded # "yes" \/ t[2] \notin checkpoint \/ item[t[2]] = None
          /\ Leave(t)
          /\ UNCHANGED <<item, unwritten, mishaps>>
    /\ UNCHANGED <<checkpoint, result, status, latest, turnOf, session, lanes, waiters, loose,
                   consented, gaveUp>>

\* The lane goes; an approval goes on unless a turn is there.
TakeLane(t) ==
    /\ task[t] = "take"
    /\ lane' = [lane EXCEPT ![t[2]] = None]
    /\ sent' = [sent EXCEPT ![t[2]] = IF lane[t[2]] = "live" THEN ans[t] ELSE @]
    /\ IF ans[t] = "approved" /\ reg = None
       THEN Move(t, "spawned") /\ UNCHANGED ans
       ELSE Leave(t)
    /\ UNCHANGED <<rollout, session, ctl, pc, dec, loose, history>>

\* spawn_approval_continuation_task: the latest turn, unless it completed, and
\* no turn in the registry.
Continuable(t) ==
    /\ loaded = "yes" /\ reg = None
    /\ turnOf[t[2]] = latest /\ status # "completed"

Claim(t) ==
    /\ task[t] = "spawned"
    /\ IF Continuable(t)
       THEN reg' = "cont" /\ stopped' = None /\ Move(t, "begin") /\ UNCHANGED ans
       ELSE Leave(t) /\ UNCHANGED <<reg, stopped>>
    /\ UNCHANGED <<rollout, loaded, mark, live, act, lanes, waiters, loose, history>>

\* It begins unless the actor has a turn or the pending queue an input.
Begin(t) ==
    /\ task[t] = "begin"
    /\ \/ ~act /\ act' = TRUE /\ Move(t, "check") /\ UNCHANGED <<reg, ans>>
       \/ reg' = None /\ Leave(t) /\ UNCHANGED act
    /\ UNCHANGED <<rollout, loaded, mark, live, stopped, lanes, waiters, loose, history>>

\* Mutant: the rollout is not searched for the call's result.
CheckNothing(t) ==
    /\ task[t] = "check"
    /\ Move(t, "execute")
    /\ UNCHANGED <<rollout, session, lanes, waiters, ans, loose, history>>

\* turn_has_tool_result looks for results alone.
Check(t) ==
    /\ task[t] = "check"
    /\ Move(t, IF result[t[2]] = "result" THEN "query" ELSE "execute")
    /\ live' = (live \/ (result[t[2]] = "result" /\ t \notin loose))
    /\ UNCHANGED <<rollout, loaded, mark, reg, act, stopped, lanes, waiters, ans, loose, history>>

Execute(t) ==
    /\ task[t] = "execute"
    /\ Move(t, "result")
    /\ UNCHANGED <<rollout, session, lanes, waiters, ans, loose, history>>

\* The result is written and the turn goes on with its query.
Resume(t) ==
    /\ task[t] = "result"
    /\ \/ result' = [result EXCEPT ![t[2]] = "result"] /\ UNCHANGED mishaps
       \/ Mishap /\ UNCHANGED result
    /\ Move(t, "query")
    /\ live' = (live \/ t \notin loose)
    /\ UNCHANGED <<item, checkpoint, status, latest, turnOf, loaded, mark, reg, act, stopped,
                   lanes, waiters, ans, loose, consented, unwritten, gaveUp>>

\* A continuation that was given up merges its state and clears the session's
\* handles, whoever's they are by now.
LooseEnds(t) ==
    /\ t \in loose /\ task[t] = "query"
    /\ loose' = loose \ {t}
    /\ status' \in {"completed", "interrupted"}
    /\ act' = FALSE /\ reg' = None /\ mark' = FALSE
    /\ Leave(t)
    /\ UNCHANGED <<item, checkpoint, result, latest, turnOf, loaded, live, stopped, lanes,
                   waiters, history>>

-----------------------------------------------------------------------------
(* The process stops and the session is loaded again.                       *)

Unload ==
    /\ loaded' = "no"
    /\ mark' = FALSE /\ live' = FALSE /\ reg' = None /\ act' = FALSE /\ stopped' = None
    /\ lane' = [a \in Asks |-> None] /\ ctl' = [a \in Asks |-> None]
    /\ pc' = Dropped
    /\ sent' = [a \in Asks |-> None]
    /\ task' = [t \in Sources \X Asks |-> None]
    /\ ans' = [t \in Sources \X Asks |-> None]
    /\ loose' = {}
    /\ UNCHANGED <<item, checkpoint, result, latest, turnOf, dec, consented, unwritten, gaveUp>>

Crash ==
    /\ Mishap
    /\ Unload
    /\ UNCHANGED status

\* An orderly exit saves the turn; one marked WaitingApproval is preserved.
Shutdown ==
    /\ loaded = "yes"
    /\ Mishap
    /\ Unload
    /\ status' = IF ~act THEN status ELSE IF mark THEN "waiting" ELSE "interrupted"

\* The cache evicts an idle session.
Evict ==
    /\ loaded = "yes" /\ reg = None /\ ~act /\ ~live
    /\ \A t \in Sources \X Asks : task[t] \in {None, "sent", "record"}
    /\ loaded' = "no"
    /\ mark' = FALSE
    /\ lane' = [a \in Asks |-> None]
    /\ UNCHANGED <<rollout, live, reg, act, stopped, ctl, waiters, answers, history>>

\* Mutant: whatever was decided is taken for an approval.
DecidedAnyhow(a) == item[a] \in Decisions /\ a \in checkpoint

\* reconcile_waiting_approval_turns_after_hydrate
ApprovedBefore(a) == item[a] = "approved" /\ a \in checkpoint

\* Mutant: an approval is restored only with its checkpoint.
WaitingWithCheckpoint(a) == item[a] = "waiting" /\ a \in checkpoint

\* latest_waiting_approvals
WaitingBefore(a) == item[a] = "waiting"

\* The rollout is read: a waiting item is given a lane, and what was approved
\* in a turn that did not end is continued; the session is not yet there.
Hydrate ==
    /\ loaded = "no"
    /\ loaded' = "hydrating"
    /\ lane' = [a \in Asks |-> IF WaitingBefore(a) THEN "restored" ELSE None]
    /\ task' = [t \in Sources \X Asks |->
                   IF t[1] = Hydration /\ ApprovedBefore(t[2]) /\ status \notin Terminal
                   THEN "spawned" ELSE task[t]]
    /\ ans' = [t \in Sources \X Asks |-> IF task'[t] = "spawned" THEN "approved" ELSE ans[t]]
    /\ mark' = (status = "waiting")
    /\ UNCHANGED <<rollout, live, reg, act, stopped, ctl, waiters, loose, history>>

Insert ==
    /\ loaded = "hydrating"
    /\ loaded' = "yes"
    /\ UNCHANGED <<rollout, mark, live, reg, act, stopped, lanes, waiters, answers, history>>

-----------------------------------------------------------------------------
Request(a) ==
    \/ Ask(a) \/ Checkpoint(a) \/ Register(a) \/ Publish(a) \/ Recovered(a) \/ GiveIn(a)
    \/ RecordCancelled(a) \/ TakeFailed(a) \/ RecordDecision(a) \/ Complete(a) \/ Run(a)
    \/ RecordResult(a) \/ \E d \in Decisions : Answer(a, d)

Turn == StartTurn \/ Interrupt \/ Preempt \/ CancelSaved \/ TurnEnds \/ HardAbort

FromClient(c, a) == Reissue(c, a) \/ \E d \in Decisions : Reply(c, a, d)

Continuation(t) ==
    \/ RecordAnswer(t) \/ TakeLane(t) \/ Claim(t) \/ Begin(t) \/ Check(t) \/ Execute(t)
    \/ Resume(t) \/ LooseEnds(t)

Process == Crash \/ Shutdown \/ Evict \/ Hydrate \/ Insert

Next ==
    \/ \E a \in Asks : Request(a) \/ \E c \in Clients : FromClient(c, a)
    \/ Turn
    \/ \E t \in Sources \X Asks : Continuation(t)
    \/ Process

Spec == Init /\ [][Next]_vars

\* What a wait and its call do without a client, a stop once it was asked for.
Proceeds(a) ==
    \/ Checkpoint(a) \/ Register(a) \/ Publish(a) \/ (stopped # None /\ GiveIn(a))
    \/ RecordCancelled(a) \/ TakeFailed(a) \/ RecordDecision(a) \/ Complete(a) \/ Run(a)
    \/ RecordResult(a)

FairSpec ==
    /\ Spec
    /\ WF_vars(TurnEnds)
    /\ \A a \in Asks : WF_vars(Proceeds(a))
    /\ \A t \in Sources \X Asks : WF_vars(Continuation(t))

-----------------------------------------------------------------------------
Runs(a) ==
    \/ pc[a] = "run" /\ pc'[a] = "ran"
    \/ \E c \in Sources : task[<<c, a>>] = "execute" /\ task'[<<c, a>>] = "result"

\* A call runs only if somebody approved it, in the wait, through a lane that
\* was restored, or before the process stopped.
ConsentBeforeRun == [][\A a \in Asks : Runs(a) => a \in consented]_vars

\* A call whose result is in the rollout never runs again, unless a
\* continuation was given up and runs on beside the next one.  The record of a
\* file change is no protection: no continuation looks for it.
RecordedIsNotRepeated ==
    [][\A a \in Asks : Runs(a) /\ result[a] = "result" => gaveUp]_vars

\* An approval that waits can be answered: a loaded session has a lane for it,
\* unless a line of it was lost.
WaitingIsAnswerable ==
    \A a \in Asks \ unwritten :
        loaded # "no" /\ item[a] = "waiting" =>
            lane[a] # None \/ pc[a] \in {"checkpoint", "register"}

\* A stop gets a turn out of its waits without being given up: the token ends
\* them, whichever lane or answer they are at.
StopEndsTurn == stopped # None /\ act ~> ~act

=============================================================================
