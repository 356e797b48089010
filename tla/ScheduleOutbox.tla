--------------------------- MODULE ScheduleOutbox ---------------------------
(***************************************************************************)
(* Scheduled wakes: schedules.json, its sidecar schedule-outbox.json, and  *)
(* the pass that claims due jobs and hands their occurrences to a session. *)
(*                                                                         *)
(* A time is an ordinal: the k-th next_run_at a job is given makes the     *)
(* occurrence <<job, k>>.  The 15 s retry and the 30 s in-flight age are   *)
(* steps that may happen at any later moment.  A pending input stands for  *)
(* its database row and its entry in memory; how the two are kept together *)
(* is the business of PendingQueue, and which turns are admitted that of   *)
(* SessionTurn: one session, reduced to what a wake reads of it, plays     *)
(* both here.                                                              *)
(***************************************************************************)
EXTENDS Naturals, FiniteSets

CONSTANTS
    Jobs,          \* schedule jobs of one session
    Prompt,        \* the text a job sends
    Mode,          \* its delivery mode
    MaxRuns,       \* bound: next_run_at values given to a job
    MaxUserTurns,  \* bound: turns the user starts
    MaxMishaps,    \* bound: file, database and load errors, process exits, removed
                   \* inputs, turns cut off before they show, deleted sessions
    NoOcc,         \* no occurrence
    User           \* the owner of a turn that no occurrence started

Occ == Jobs \X (1..MaxRuns)

ASSUME OutboxAssumption ==
    /\ Mode \in [Jobs -> {"FollowUp", "Steer"}]
    /\ Jobs = DOMAIN Prompt
    /\ {MaxRuns, MaxUserTurns, MaxMishaps} \subseteq Nat
    /\ NoOcc \notin Occ /\ User \notin Occ /\ User # NoOcc

Job(o) == o[1]
Text(o) == Prompt[Job(o)]

VARIABLES
    status,     \* schedules.json: status of each job
    run,        \* schedules.json: ordinal of its next_run_at
    due,        \* the active jobs whose next_run_at has come
    outbox,     \* schedule-outbox.json: the occurrences
    attempted,  \* those with delivery_attempted_at
    retrying,   \* those whose retry_at has not come
    inflight,   \* in memory: age of the in-flight entry of an occurrence
    pc,         \* where the dispatch pass is; "idle": the dispatch lock is free
    batch,      \* occurrences the pass has still to visit
    cur,        \* the one it is at
    seen,       \* the active turn of its reservation snapshot
    queued,     \* inputs in the pending turn queue
    steered,    \* inputs in the steer queue
    turn,       \* what the session runs
    shown,      \* user messages in the transcript with the occurrence's id (2: more than one)
    exists,     \* the session has a rollout
    claimed,    \* history: occurrences whose job was advanced past them
    settled,    \* history: occurrences that left the outbox
    budget      \* what is left of the bounds

files == <<status, run, due>>
boxVars == <<outbox, attempted, retrying, inflight, settled>>
passVars == <<pc, batch, cur, seen>>
sessionVars == <<queued, steered, turn, shown, exists>>
vars == <<files, boxVars, passVars, sessionVars, claimed, budget>>

NoTurn == [runs |-> NoOcc, phase |-> "none", texts |-> {}]

TypeOK ==
    /\ status \in [Jobs -> {"none", "active", "paused", "stopped", "deleted"}]
    /\ run \in [Jobs -> 1..(MaxRuns + 1)]
    /\ due \subseteq {j \in Jobs : status[j] = "active" /\ run[j] <= MaxRuns}
    /\ outbox \subseteq Occ
    /\ attempted \subseteq outbox
    /\ retrying \subseteq outbox
    /\ inflight \in [Occ -> {"none", "fresh", "old"}]
    /\ pc \in {"idle", "claim", "next", "load", "history", "snapshot", "pending",
               "decide", "reserve", "deliver", "steerItem"}
    /\ batch \subseteq Occ
    /\ cur \in Occ \cup {NoOcc}
    /\ seen \in {"none", "same", "ended"}
    /\ queued \subseteq Occ
    /\ steered \subseteq Occ
    /\ turn \in [runs : Occ \cup {NoOcc, User},
                 phase : {"none", "popped", "active", "running"},
                 texts : SUBSET {Prompt[j] : j \in Jobs}]
    /\ shown \in [Occ -> 0..2]
    /\ exists \in BOOLEAN
    /\ claimed \subseteq Occ
    /\ settled \subseteq Occ
    /\ budget \in [userTurns : 0..MaxUserTurns, mishaps : 0..MaxMishaps]

Init ==
    /\ status = [j \in Jobs |-> "none"]
    /\ run = [j \in Jobs |-> 1]
    /\ due = {}
    /\ outbox = {} /\ attempted = {} /\ retrying = {}
    /\ inflight = [o \in Occ |-> "none"]
    /\ pc = "idle" /\ batch = {} /\ cur = NoOcc /\ seen = "none"
    /\ queued = {} /\ steered = {} /\ turn = NoTurn
    /\ shown = [o \in Occ |-> 0]
    /\ exists = TRUE
    /\ claimed = {} /\ settled = {}
    /\ budget = [userTurns |-> MaxUserTurns, mishaps |-> MaxMishaps]

Mishaps(n) == budget.mishaps >= n /\ budget' = [budget EXCEPT !.mishaps = @ - n]
Mishap == Mishaps(1)

-----------------------------------------------------------------------------
(* Lifecycle requests.  Each holds the dispatch lock around one operation   *)
(* of the store, so it never runs between two steps of a pass.              *)

\* Mutant: a request does not wait for the pass.
LockFreeAlways == TRUE
LockFree == pc = "idle"

\* A new next_run_at: a fire that was due and not claimed is skipped.
Renew(j) ==
    /\ run[j] <= MaxRuns
    /\ run' = [run EXCEPT ![j] = @ + 1]
    /\ due' = due \ {j}

Lifecycle ==
    /\ LockFree
    /\ UNCHANGED <<boxVars, passVars, sessionVars, claimed, budget>>

Create(j) ==
    /\ Lifecycle
    /\ status[j] = "none"
    /\ status' = [status EXCEPT ![j] = "active"]
    /\ UNCHANGED <<run, due>>

\* session/schedule/upsert with a job id: a job that is not active stays so.
Reschedule(j) ==
    /\ Lifecycle
    /\ status[j] = "active"
    /\ Renew(j)
    /\ UNCHANGED status

\* /heartbeat with an instruction, which replaces the session's heartbeat.
Replace(j) ==
    /\ Lifecycle
    /\ status[j] \in {"active", "paused"}
    /\ status' = [status EXCEPT ![j] = "active"]
    /\ Renew(j)

Resume(j) ==
    /\ Lifecycle
    /\ status[j] \in {"active", "paused"}
    /\ status' = [status EXCEPT ![j] = "active"]
    /\ Renew(j)

\* Mutant: next_run_at is not cleared.
QuietButDue(j, s) == status' = [status EXCEPT ![j] = s] /\ UNCHANGED <<run, due>>
Quiet(j, s) ==
    /\ status' = [status EXCEPT ![j] = s]
    /\ due' = due \ {j}
    /\ UNCHANGED run

Pause(j) ==
    /\ Lifecycle
    /\ status[j] \in {"active", "paused"}
    /\ Quiet(j, "paused")

Stop(j) ==
    /\ Lifecycle
    /\ status[j] \in {"active", "paused", "stopped"}
    /\ Quiet(j, "stopped")

Delete(j) ==
    /\ Lifecycle
    /\ status[j] \in {"active", "paused", "stopped"}
    /\ Quiet(j, "deleted")

-----------------------------------------------------------------------------
(* The outbox.                                                              *)

Acknowledge(o) ==
    /\ outbox' = outbox \ {o}
    /\ attempted' = attempted \ {o}
    /\ retrying' = retrying \ {o}
    /\ inflight' = [inflight EXCEPT ![o] = "none"]
    /\ settled' = settled \cup (outbox \cap {o})

\* A failed write is only logged.
AcknowledgeOrNot(o) ==
    \/ Acknowledge(o) /\ UNCHANGED budget
    \/ Mishap /\ UNCHANGED boxVars

MarkInflight(o) ==
    inflight' = IF inflight[o] = "none" THEN [inflight EXCEPT ![o] = "fresh"] ELSE inflight

\* Mutant: the attempt is not written.
MarkAttemptedInMemory(o) == attempted' = attempted /\ retrying' = retrying \ {o}
MarkAttempted(o) ==
    /\ attempted' = attempted \cup (outbox \cap {o})
    /\ retrying' = retrying \ {o}

\* retry_schedule_occurrence, after n faults; when the file cannot be written
\* only the in-flight entry goes.
RetryLater(o, n) ==
    /\ inflight' = [inflight EXCEPT ![o] = "none"]
    /\ UNCHANGED <<outbox, attempted, settled>>
    /\ \/ retrying' = retrying \cup (outbox \cap {o}) /\ Mishaps(n)
       \/ Mishaps(n + 1) /\ UNCHANGED retrying

Visit(l) == pc' = l /\ UNCHANGED <<batch, cur, seen>>
Continue == pc' = "next" /\ cur' = NoOcc /\ seen' = "none" /\ UNCHANGED batch
Abort == pc' = "idle" /\ batch' = {} /\ cur' = NoOcc /\ seen' = "none"

-----------------------------------------------------------------------------
(* One pass of the wake loop.                                               *)

Fired == {<<j, run[j]>> : j \in due}

\* Mutant: a failed write of the outbox does not stop the claim.
ClaimOutboxUnwritten ==
    /\ pc = "idle"
    /\ Fired # {}
    /\ batch' = Fired
    /\ pc' = "claim"
    /\ UNCHANGED <<files, boxVars, cur, seen, sessionVars, claimed, budget>>

\* The claim writes the outbox first.  A pass with nothing to do is no step.
ClaimOutbox ==
    /\ pc = "idle"
    /\ Fired # {} \/ outbox \ retrying # {}
    /\ outbox' = outbox \cup Fired
    /\ batch' = Fired
    /\ pc' = "claim"
    /\ UNCHANGED <<files, attempted, retrying, inflight, settled, cur, seen,
                   sessionVars, claimed, budget>>

\* Mutant: the pass goes on though schedules.json was not written.
ClaimSchedulesUnwritten ==
    /\ pc = "claim"
    /\ batch' = outbox \ retrying
    /\ pc' = "next"
    /\ UNCHANGED <<files, boxVars, cur, seen, sessionVars, claimed, budget>>

\* ... then schedules.json; the pass goes on only if both were written.
ClaimSchedules ==
    /\ pc = "claim"
    /\ UNCHANGED <<status, boxVars, cur, seen, sessionVars>>
    /\ \/ /\ run' = [j \in Jobs |-> IF <<j, run[j]>> \in batch THEN run[j] + 1 ELSE run[j]]
          /\ due' = {j \in due : <<j, run[j]>> \notin batch}
          /\ claimed' = claimed \cup batch
          /\ batch' = outbox \ retrying
          /\ pc' = "next"
          /\ UNCHANGED budget
       \/ /\ Mishap
          /\ pc' = "idle"
          /\ batch' = {}
          /\ UNCHANGED <<run, due, claimed>>

PassEnds ==
    /\ pc = "next"
    /\ batch = {}
    /\ pc' = "idle"
    /\ UNCHANGED <<files, boxVars, batch, cur, seen, sessionVars, claimed, budget>>

\* A job's occurrences are visited in the order they were scheduled.
First(o) == o \in batch /\ \A p \in batch : Job(p) = Job(o) => o[2] <= p[2]

\* The job is read again: an occurrence of an inactive job is discarded.
Examine(o) ==
    /\ pc = "next"
    /\ First(o)
    /\ seen' = "none"
    /\ UNCHANGED <<files, sessionVars, claimed>>
    /\ \/ /\ status[Job(o)] = "active"
          /\ pc' = "load" /\ cur' = o /\ batch' = batch \ {o}
          /\ UNCHANGED <<boxVars, budget>>
       \/ /\ status[Job(o)] # "active"
          /\ Acknowledge(o)
          /\ pc' = "next" /\ cur' = NoOcc /\ batch' = batch \ {o}
          /\ UNCHANGED budget
       \/ /\ Mishap
          /\ pc' = "idle" /\ cur' = NoOcc /\ batch' = {}
          /\ UNCHANGED boxVars

\* A job whose session is gone is deleted with its occurrence, each unless its
\* file cannot be written.
Load ==
    /\ pc = "load"
    /\ UNCHANGED <<sessionVars, claimed>>
    /\ \/ /\ exists
          /\ Visit("history")
          /\ UNCHANGED <<files, boxVars, budget>>
       \/ /\ ~exists
          /\ Continue
          /\ \E kept \in SUBSET {"schedules", "outbox"} :
                /\ Mishaps(Cardinality(kept))
                /\ IF "schedules" \in kept THEN UNCHANGED files ELSE Quiet(Job(cur), "deleted")
                /\ IF "outbox" \in kept THEN UNCHANGED boxVars ELSE Acknowledge(cur)
       \/ Continue /\ RetryLater(cur, 1) /\ UNCHANGED files

RetryUnlessInflight(n) ==
    /\ Continue
    /\ \/ inflight[cur] = "none" /\ RetryLater(cur, n)
       \/ inflight[cur] # "none" /\ Mishaps(n) /\ UNCHANGED boxVars

\* The transcript has the occurrence's user message: it is done.
ReadHistory ==
    /\ pc = "history"
    /\ UNCHANGED <<files, sessionVars, claimed>>
    /\ \/ /\ exists /\ shown[cur] = 0
          /\ Visit("snapshot")
          /\ UNCHANGED <<boxVars, budget>>
       \/ /\ exists /\ shown[cur] > 0
          /\ Continue
          /\ AcknowledgeOrNot(cur)
       \/ \E n \in {0, 1} :
             /\ n = 0 => ~exists
             /\ RetryUnlessInflight(n)

\* The reservation snapshot: none while a turn is admitted and its spawn
\* snapshot is not there yet.
Busy == turn.phase \in {"active", "running"}

ReadSnapshot ==
    /\ pc = "snapshot"
    /\ UNCHANGED <<files, sessionVars, claimed>>
    /\ \/ /\ exists
          /\ pc' = "pending"
          /\ seen' = IF Busy THEN "same" ELSE "none"
          /\ UNCHANGED <<batch, cur, boxVars, budget>>
       \/ /\ ~exists \/ turn.phase = "active"
          /\ Continue
          /\ RetryLater(cur, 0)

\* The input is still queued or in the steer inbox: it was accepted, whoever
\* restarted since.
LookPending ==
    /\ pc = "pending"
    /\ UNCHANGED <<files, sessionVars, claimed>>
    /\ \/ /\ cur \notin queued \cup steered
          /\ Visit("decide")
          /\ UNCHANGED <<boxVars, budget>>
       \/ /\ cur \in queued \cup steered
          /\ Continue
          /\ MarkInflight(cur)
          /\ UNCHANGED <<outbox, settled>>
          /\ \/ MarkAttempted(cur) /\ UNCHANGED budget
             \/ Mishap /\ UNCHANGED <<attempted, retrying>>
       \/ RetryUnlessInflight(1)

\* Accepted work that is neither pending nor in a turn is delivered again
\* after 30 s.
\* Mutant: accepted work is never delivered again.
WaitsForever == inflight[cur] # "none"
Waits == inflight[cur] = "fresh" \/ (inflight[cur] = "old" /\ seen # "none")

\* An identical prompt is in the turn of the snapshot, or pending.
Identical ==
    \/ seen = "same" /\ Text(cur) \in turn.texts
    \/ \E p \in queued \cup steered : Text(p) = Text(cur)

Decide ==
    /\ pc = "decide"
    /\ UNCHANGED <<files, sessionVars, claimed>>
    /\ \/ /\ Waits
          /\ Continue
          /\ UNCHANGED <<boxVars, budget>>
       \/ /\ ~Waits /\ ~Identical
          /\ Visit("reserve")
          /\ inflight' = [inflight EXCEPT ![cur] = "none"]
          /\ UNCHANGED <<outbox, attempted, retrying, settled, budget>>
       \/ /\ ~Waits /\ Identical /\ cur \in attempted
          /\ Continue
          /\ inflight' = [inflight EXCEPT ![cur] = "fresh"]
          /\ UNCHANGED <<outbox, attempted, retrying, settled, budget>>
       \/ /\ ~Waits /\ Identical /\ cur \notin attempted
          /\ Continue
          /\ AcknowledgeOrNot(cur)

\* The occurrence is reserved in memory and the attempt written before the
\* input is handed over.
Reserve ==
    /\ pc = "reserve"
    /\ UNCHANGED <<files, sessionVars, claimed>>
    /\ \/ /\ Visit("deliver")
          /\ MarkAttempted(cur)
          /\ MarkInflight(cur)
          /\ UNCHANGED <<outbox, settled, budget>>
       \/ Continue /\ RetryLater(cur, 1)

\* session/queue/push: a turn of its own when the session is idle, else the
\* queue; it waits for the gate while a drain holds it.
PushOutcome ==
    /\ turn.phase # "popped"
    /\ \/ /\ turn = NoTurn
          /\ turn' = [runs |-> cur, phase |-> "running", texts |-> {Text(cur)}]
          /\ shown' = [shown EXCEPT ![cur] = IF @ < 2 THEN @ + 1 ELSE @]
          /\ UNCHANGED queued
       \/ /\ turn # NoTurn
          /\ queued' = queued \cup {cur}
          /\ UNCHANGED <<turn, shown>>
    /\ UNCHANGED <<steered, exists>>
    /\ Continue

\* turn/steer into the turn of the snapshot.  Parked, not steerable, replaced
\* or ended turns send the input to the queue.
SteerOutcome ==
    \/ /\ seen = "same" /\ turn.phase = "running"
       /\ steered' = steered \cup {cur}
       /\ Visit("steerItem")
       /\ UNCHANGED <<queued, turn, shown, exists>>
    \/ /\ queued' = queued \cup {cur}
       /\ Continue
       /\ UNCHANGED <<steered, turn, shown, exists>>

Steers == Mode[Job(cur)] = "Steer" /\ seen # "none"

Deliver ==
    /\ pc = "deliver"
    /\ UNCHANGED <<files, claimed>>
    /\ \/ /\ exists
          /\ \/ ~Steers /\ PushOutcome
             \/ Steers /\ SteerOutcome
          /\ UNCHANGED <<boxVars, budget>>
       \/ \E n \in {0, 1} :
             /\ n = 0 => ~exists \/ turn.phase = "active"
             /\ Continue
             /\ RetryLater(cur, n)
             /\ UNCHANGED sessionVars

\* turn/steer shows the message as soon as it is in the inbox.
SteerItem ==
    /\ pc = "steerItem"
    /\ Continue
    /\ shown' = [shown EXCEPT ![cur] = IF exists /\ @ < 2 THEN @ + 1 ELSE @]
    /\ turn' = IF seen = "same" THEN [turn EXCEPT !.texts = @ \cup {Text(cur)}] ELSE turn
    /\ UNCHANGED <<files, boxVars, queued, steered, exists, claimed, budget>>

-----------------------------------------------------------------------------
(* Time and the session.                                                    *)

Comes(j) ==
    /\ status[j] = "active" /\ run[j] <= MaxRuns /\ j \notin due
    /\ due' = due \cup {j}
    /\ UNCHANGED <<status, run, boxVars, passVars, sessionVars, claimed, budget>>

RetryComes(o) ==
    /\ o \in retrying
    /\ retrying' = retrying \ {o}
    /\ UNCHANGED <<files, outbox, attempted, inflight, settled, passVars, sessionVars,
                   claimed, budget>>

Ages(o) ==
    /\ inflight[o] = "fresh"
    /\ inflight' = [inflight EXCEPT ![o] = "old"]
    /\ UNCHANGED <<files, outbox, attempted, retrying, settled, passVars, sessionVars,
                   claimed, budget>>

SessionStep == UNCHANGED <<files, boxVars, pc, batch, cur, claimed>>

UserTurn ==
    /\ SessionStep
    /\ exists /\ turn = NoTurn
    /\ budget.userTurns > 0
    /\ budget' = [budget EXCEPT !.userTurns = @ - 1]
    /\ turn' = [runs |-> User, phase |-> "running", texts |-> {}]
    /\ UNCHANGED <<seen, queued, steered, shown, exists>>

\* A drain takes an input from the queue and its row; until the turn is
\* activated the session shows neither.
Pop(o) ==
    /\ SessionStep
    /\ turn = NoTurn /\ o \in queued
    /\ queued' = queued \ {o}
    /\ turn' = [runs |-> o, phase |-> "popped", texts |-> {}]
    /\ UNCHANGED <<seen, steered, shown, exists, budget>>

Activate ==
    /\ SessionStep
    /\ turn.phase = "popped"
    /\ turn' = [turn EXCEPT !.phase = "active", !.texts = {Text(turn.runs)}]
    /\ UNCHANGED <<seen, queued, steered, shown, exists, budget>>

\* The turn's task shows the message it was given.
Show ==
    /\ SessionStep
    /\ turn.phase = "active"
    /\ turn' = [turn EXCEPT !.phase = "running"]
    /\ shown' = [shown EXCEPT ![turn.runs] = IF @ < 2 THEN @ + 1 ELSE @]
    /\ UNCHANGED <<seen, queued, steered, exists, budget>>

\* The turn takes a steer.
Consume(o) ==
    /\ SessionStep
    /\ turn.phase = "running" /\ o \in steered
    /\ steered' = steered \ {o}
    /\ UNCHANGED <<seen, queued, turn, shown, exists, budget>>

\* Leftover steers become queued inputs.
Ended ==
    /\ turn' = NoTurn
    /\ seen' = IF seen = "same" THEN "ended" ELSE seen
    /\ queued' = queued \cup steered
    /\ steered' = {}
    /\ UNCHANGED <<shown, exists>>

TurnEnds ==
    /\ SessionStep
    /\ turn.phase = "running"
    /\ Ended
    /\ UNCHANGED budget

\* A turn is interrupted before it showed its message.
TurnCut ==
    /\ SessionStep
    /\ turn.phase = "active"
    /\ Ended
    /\ Mishap

\* A popped input whose turn cannot be prepared is dropped.
PrepareFails ==
    /\ SessionStep
    /\ turn.phase = "popped"
    /\ Mishap
    /\ turn' = NoTurn
    /\ UNCHANGED <<seen, queued, steered, shown, exists>>

Remove(o) ==
    /\ SessionStep
    /\ o \in queued
    /\ Mishap
    /\ queued' = queued \ {o}
    /\ UNCHANGED <<seen, steered, turn, shown, exists>>

DeleteSession ==
    /\ SessionStep
    /\ exists
    /\ Mishap
    /\ exists' = FALSE
    /\ queued' = {} /\ steered' = {} /\ turn' = NoTurn
    /\ seen' = IF seen = "same" THEN "ended" ELSE seen
    /\ UNCHANGED shown

\* The files and the rows stay; steer rows come back as queued inputs.
Crash ==
    /\ Mishap
    /\ Abort
    /\ inflight' = [o \in Occ |-> "none"]
    /\ turn' = NoTurn
    /\ queued' = queued \cup steered
    /\ steered' = {}
    /\ UNCHANGED <<files, outbox, attempted, retrying, settled, shown, exists, claimed>>

-----------------------------------------------------------------------------
Request(j) ==
    \/ Create(j) \/ Reschedule(j) \/ Replace(j) \/ Resume(j)
    \/ Pause(j) \/ Stop(j) \/ Delete(j)

Dispatch ==
    \/ ClaimOutbox \/ ClaimSchedules \/ PassEnds \/ (\E o \in Occ : Examine(o))
    \/ Load \/ ReadHistory \/ ReadSnapshot \/ LookPending \/ Decide \/ Reserve
    \/ Deliver \/ SteerItem

Time(o) == RetryComes(o) \/ Ages(o)

TurnStep == (\E o \in Occ : Pop(o) \/ Consume(o)) \/ Activate \/ Show \/ TurnEnds

Environment ==
    \/ UserTurn \/ TurnCut \/ PrepareFails \/ DeleteSession \/ Crash
    \/ \E o \in Occ : Remove(o)

Next ==
    \/ \E j \in Jobs : Request(j) \/ Comes(j)
    \/ Dispatch
    \/ \E o \in Occ : Time(o)
    \/ TurnStep
    \/ Environment

Spec == Init /\ [][Next]_vars

FairSpec ==
    /\ Spec
    /\ WF_vars(Dispatch)
    /\ WF_vars(TurnStep)
    /\ \A o \in Occ : WF_vars(RetryComes(o)) /\ WF_vars(Ages(o))

-----------------------------------------------------------------------------
\* A fire that schedules.json has moved past is in the outbox until it is
\* settled, whatever write failed and wherever the process stopped.
FiresAreKept == claimed \subseteq outbox \cup settled

\* A settled occurrence never returns to the outbox: the next claim of its
\* job has another id, also after a claim that was cut in half.
SettledForGood == outbox \cap settled = {}

Live(o) == o \in queued \cup steered \/ turn.runs = o

\* An occurrence leaves the outbox unshown only if its job is no longer
\* active, its session is gone, or another input with the same text is on its
\* way or in the turn; never because of its own copy.
SettledForCause ==
    [][\A o \in outbox \ outbox' :
          \/ shown[o] > 0
          \/ status[Job(o)] # "active"
          \/ ~exists
          \/ \E p \in Occ \ {o} : Text(p) = Text(o) /\ Live(p)
          \/ Text(o) \in turn.texts /\ turn.runs # o]_vars

\* The session took the occurrence.
Accepts(o) == pc = "deliver" /\ pc' # "deliver" /\ cur = o /\ inflight'[o] # "none"

\* No input of a job enters the session once the request that made the job
\* inactive was answered.
QuietWhenInactive == [][\A o \in Occ : Accepts(o) => status[Job(o)] = "active"]_vars

\* Every occurrence is settled sooner or later.
FiresAreSettled == \A o \in Occ : o \in outbox ~> o \notin outbox

=============================================================================
