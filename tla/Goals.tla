-------------------------------- MODULE Goals --------------------------------
(***************************************************************************)
(* The goal of one session and the turns the server starts on its own to   *)
(* pursue it: requests that set, pause, resume, finish or clear the goal,  *)
(* the launch of a continuation turn in the steps it takes, the end of     *)
(* turns with what is scheduled after it, and the user's own messages.     *)
(*                                                                         *)
(* Turns are numbered as they begin, goals as they are set.  Times are     *)
(* counts of failed turns: a goal is older than a failure iff it was last  *)
(* updated at a smaller count.                                             *)
(***************************************************************************)
EXTENDS Naturals

CONSTANTS
    Requests,    \* session/goal/... calls
    Users,       \* user messages
    MaxTurns,    \* bound: turns begun
    MaxMishaps   \* bound: turns that fail and starts that are not recorded

Turns == 1..MaxTurns
Post(t) == <<"post", t>>
Posts == {Post(t) : t \in Turns}
Launchers == Requests \cup Posts
Procs == Launchers \cup Users
None == 0                       \* no turn, no goal
Nobody == <<"none", None>>

ASSUME GoalsAssumption ==
    /\ MaxTurns \in Nat /\ MaxMishaps \in Nat
    /\ Launchers \cap Users = {} /\ Requests \cap Posts = {} /\ Nobody \notin Launchers

VARIABLES
    goal, status, at,   \* the store: id of the goal, its status, when updated
    goals,              \* goals set so far
    spent,              \* the goal's token budget is used up
    act,                \* the actor's active turn
    latest, failedAt,   \* how its latest turn failed, if it did, and when
    waiting,            \* messages in its queue
    gate,               \* who holds the state-change gate
    reg, token, asked,  \* the active-turn registry: the turn, whose token it
                        \* holds, goal_continuation_requested
    fired,              \* turns whose token is fired
    tracked,            \* active_goal_continuation_turns
    owner,              \* goal_continuation_turn_goals, by turn
    begun,              \* turns begun so far
    task, res, stamp,   \* where each turn is, how and when it ended
    auto,               \* turns whose end is to continue the goal
    pc, turn, cand,     \* where each process is, its turn, its candidate
    then,               \* a request: what it does after its interrupt
    clock, mishaps,
    pursues,            \* history: the goal each turn was launched for, or None
    done,               \* history: turns that ran when the model completed the goal
    orphan,             \* history: turns the actor or the registry forgot
    missed,             \* history: turns preempted before they were registered
    quit,               \* history: a turn was stopped and the goal not resumed
    undone              \* history: a launch was given up

store == <<goal, status, at, goals, spent>>
actor == <<act, latest, failedAt, waiting, gate>>
registry == <<reg, token, asked, fired>>
maps == <<tracked, owner>>
turns == <<begun, task, res, stamp, auto, pursues>>
procs == <<pc, turn, cand, then>>
bounds == <<clock, mishaps>>
history == <<done, orphan, missed, quit, undone>>
vars == <<store, actor, registry, maps, turns, procs, bounds, history>>

Statuses == {"active", "paused", "budgetLimited", "completed", "canceled"}
Launching == {"track", "mark", "append", "launch", "undo"}
Pcs == {"none", "commit", "interrupt", "probe", "signal", "follow", "suppress", "choose",
        "begin", "settle", "recover", "queue", "send", "preempt", "kick", "done"} \cup Launching
Alive == {"running", "stamped", "recorded", "merged"}
Ends == {"none", "completed", "failed", "limited", "interrupted"}
Ids == Turns \cup {None}
Goal == 0..goals

TypeOK ==
    /\ goals \in Nat /\ goal \in Goal /\ status \in Statuses /\ at \in 0..clock
    /\ spent \in BOOLEAN
    /\ act \in Ids /\ latest \in {"none", "failed", "limited"} /\ failedAt \in 0..clock
    /\ waiting \in Nat /\ gate \in Launchers \cup {Nobody}
    /\ reg \in Ids /\ token \in Ids /\ asked \in BOOLEAN /\ fired \subseteq Turns
    /\ tracked \in Ids /\ owner \in [Turns -> Goal]
    /\ begun \in Ids
    /\ task \in [Turns -> {"none", "over"} \cup Alive]
    /\ res \in [Turns -> Ends]
    /\ stamp \in [Turns -> 0..clock] /\ auto \subseteq Turns
    /\ pc \in [Procs -> Pcs]
    /\ turn \in [Procs -> Ids] /\ cand \in [Launchers -> Goal]
    /\ then \in [Requests -> {"follow", "done"}]
    /\ clock \in Nat /\ mishaps \in 0..MaxMishaps
    /\ pursues \in [Turns -> Goal] /\ done \subseteq Turns
    /\ orphan \subseteq Turns /\ missed \subseteq Turns
    /\ quit \in BOOLEAN /\ undone \in BOOLEAN

Init ==
    /\ goal = None /\ status = "paused" /\ at = 0 /\ goals = 0 /\ spent = FALSE
    /\ act = None /\ latest = "none" /\ failedAt = 0 /\ waiting = 0 /\ gate = Nobody
    /\ reg = None /\ token = None /\ asked = FALSE /\ fired = {}
    /\ tracked = None /\ owner = [t \in Turns |-> None]
    /\ begun = 0 /\ task = [t \in Turns |-> "none"] /\ res = [t \in Turns |-> "none"]
    /\ stamp = [t \in Turns |-> 0] /\ auto = {}
    /\ pc = [p \in Procs |-> CASE p \in Requests -> "commit"
                               [] p \in Users -> "send"
                               [] OTHER -> "none"]
    /\ turn = [p \in Procs |-> None] /\ cand = [p \in Launchers |-> None]
    /\ then = [r \in Requests |-> "done"]
    /\ clock = 0 /\ mishaps = MaxMishaps
    /\ pursues = [t \in Turns |-> None] /\ done = {}
    /\ orphan = {} /\ missed = {} /\ quit = FALSE /\ undone = FALSE

Goto(p, l) == pc' = [pc EXCEPT ![p] = l]
\* A process, or a turn, is over: what only it looked at goes.
Leave(p) ==
    /\ Goto(p, "done")
    /\ turn' = [turn EXCEPT ![p] = None]
    /\ cand' = [q \in Launchers |-> IF q = p THEN None ELSE cand[q]]
Gone(t) ==
    /\ task' = [task EXCEPT ![t] = "over"]
    /\ res' = [res EXCEPT ![t] = "none"]
    /\ stamp' = [stamp EXCEPT ![t] = 0]
    /\ pursues' = [pursues EXCEPT ![t] = None]
Mishap == mishaps > 0 /\ mishaps' = mishaps - 1
Next1 == begun + 1
\* The token that is there now; only a running turn watches one.
Watched == {t \in Turns : t = token /\ task[t] = "running"}
Current(g) == goal = g /\ g # None
Touched == at' = clock

-----------------------------------------------------------------------------
(* The requests.  Each changes the store in one step, under its lock, and   *)
(* interrupts the continuation turn or looks for a new one afterwards.      *)

Becomes(s) == status' = s /\ Touched /\ UNCHANGED <<goal, goals, spent>>
Leads(r, l, next) == Goto(r, l) /\ then' = [then EXCEPT ![r] = next]

\* ifExists = "replace", or the first goal of the session.
Set(r) ==
    /\ goal' = goals + 1 /\ goals' = goals + 1
    /\ status' = "active" /\ Touched /\ spent' = FALSE
    /\ \/ Leads(r, "interrupt", "follow")
       \/ goal = None /\ Leads(r, "follow", "done")

\* The wrap-up of a goal out of budget is stopped, the goal stays as it is.
Pause(r) ==
    /\ goal # None
    /\ IF status = "budgetLimited" THEN UNCHANGED store ELSE Becomes("paused")
    /\ Leads(r, IF status \in {"active", "budgetLimited"} THEN "interrupt" ELSE "done", "done")

Resume(r) == goal # None /\ Becomes("active") /\ Leads(r, "follow", "done")

Complete(r) == goal # None /\ Becomes("completed") /\ Leads(r, "interrupt", "done")

Cancel(r) ==
    /\ goal # None /\ status \in {"active", "paused"}
    /\ Becomes("canceled")
    /\ Leads(r, "interrupt", "done")

Clear(r) ==
    /\ goal # None
    /\ goal' = None /\ UNCHANGED <<status, at, goals, spent>>
    /\ Leads(r, "interrupt", "done")

\* session/goal/update to active; the edit applies the budget at once.
Edit(r) ==
    /\ goal # None
    /\ Becomes(IF spent THEN "budgetLimited" ELSE "active")
    /\ IF spent
        THEN Leads(r, IF status \in {"active", "budgetLimited"} THEN "interrupt" ELSE "done",
                   "done")
        ELSE Leads(r, "follow", "done")

Commit(r) ==
    /\ pc[r] = "commit"
    /\ \/ Set(r) \/ Pause(r) \/ Resume(r) \/ Complete(r) \/ Cancel(r) \/ Clear(r) \/ Edit(r)
    /\ UNCHANGED <<actor, registry, maps, turns, turn, cand, bounds, history>>

Untrack ==
    /\ tracked' = None
    /\ owner' = [t \in Turns |-> IF t = tracked THEN None ELSE owner[t]]

\* On with what follows the interrupt.
Proceed(r) ==
    /\ Goto(r, then[r])
    /\ then' = [then EXCEPT ![r] = "done"]
    /\ turn' = [turn EXCEPT ![r] = None]

\* Whoever launches the turn sees that it is no longer tracked, if it is not
\* registered yet.
Interrupt(r) ==
    /\ pc[r] = "interrupt"
    /\ Untrack
    /\ IF tracked # None /\ reg = tracked
        THEN turn' = [turn EXCEPT ![r] = tracked] /\ Goto(r, "probe") /\ UNCHANGED then
        ELSE Proceed(r)
    /\ UNCHANGED <<store, actor, registry, turns, cand, bounds, history>>

Ended(t) == task[t] \in {"recorded", "merged", "over"}

Probe(r) ==
    /\ pc[r] = "probe"
    /\ IF Ended(turn[r]) THEN Proceed(r) ELSE Goto(r, "signal") /\ UNCHANGED <<turn, then>>
    /\ UNCHANGED <<store, actor, registry, maps, turns, cand, bounds, history>>

\* The token that is there now is fired; the wait for the turn gives up after
\* five seconds, so that nothing depends on it.
Signal(r) ==
    /\ pc[r] = "signal"
    /\ fired' = fired \cup Watched
    /\ Proceed(r)
    /\ UNCHANGED <<store, actor, reg, token, asked, maps, turns, cand, bounds, history>>

\* A turn is registered: its end looks for the goal.  Else now.
Follow(r) ==
    /\ pc[r] = "follow"
    /\ asked' = (asked \/ reg # None)
    /\ Goto(r, IF reg # None THEN "done" ELSE "suppress")
    /\ quit' = FALSE
    /\ UNCHANGED <<store, actor, reg, token, fired, maps, turns, turn, cand, then, bounds,
                   done, orphan, missed, undone>>

-----------------------------------------------------------------------------
(* maybe_start_goal_continuation_turn, for a request or after a turn.       *)

FailedSince == latest \in {"failed", "limited"} /\ failedAt > at
Suppressed == goal # None /\ status = "active" /\ FailedSince

\* A turn that failed after the goal was last updated pauses it.
SuppressGoal ==
    IF Suppressed THEN Becomes("paused") ELSE UNCHANGED store

Suppress(p) ==
    /\ p \in Launchers /\ pc[p] = "suppress"
    /\ SuppressGoal
    /\ Goto(p, IF Suppressed THEN "done" ELSE "choose")
    /\ UNCHANGED <<actor, registry, maps, turns, turn, cand, then, bounds, history>>

ShouldContinue(g) == Current(g) /\ status = "active"

Choose(p) ==
    /\ p \in Launchers /\ pc[p] = "choose"
    /\ IF act = None /\ waiting = 0 /\ ShouldContinue(goal)
        THEN cand' = [cand EXCEPT ![p] = goal] /\ Goto(p, "begin")
             /\ UNCHANGED turn
        ELSE Leave(p)
    /\ UNCHANGED <<store, actor, registry, maps, turns, then, bounds, history>>

\* The gate is held until the turn is launched or given up.
Begin(p) ==
    /\ p \in Launchers /\ pc[p] = "begin" /\ gate = Nobody
    /\ IF act = None /\ waiting = 0
        THEN /\ begun < MaxTurns /\ begun' = Next1
             /\ act' = Next1 /\ gate' = p
             /\ turn' = [turn EXCEPT ![p] = Next1]
             /\ Goto(p, "track")
             /\ UNCHANGED cand
        ELSE Leave(p) /\ UNCHANGED <<begun, act, gate>>
    /\ UNCHANGED <<store, latest, failedAt, waiting, registry, maps, task, res, stamp, auto,
                   pursues, then, bounds, history>>

Track(p) ==
    /\ p \in Launchers /\ pc[p] = "track"
    /\ tracked' = turn[p]
    /\ owner' = [owner EXCEPT ![turn[p]] = cand[p]]
    /\ Goto(p, "mark")
    /\ UNCHANGED <<store, actor, registry, turns, turn, cand, then, bounds, history>>

\* The goal is looked at again under its lock; out of budget, this turn is its
\* wrap-up.
Mark(p) ==
    /\ p \in Launchers /\ pc[p] = "mark"
    /\ IF ShouldContinue(cand[p])
        THEN Becomes(IF spent THEN "budgetLimited" ELSE "active") /\ Goto(p, "append")
        ELSE Goto(p, "undo") /\ UNCHANGED store
    /\ UNCHANGED <<actor, registry, maps, turns, turn, cand, then, bounds, history>>

StillCurrent(p) ==
    /\ tracked = turn[p] /\ act = turn[p]
    /\ Current(cand[p]) /\ status \in {"active", "budgetLimited"}

\* The start is recorded, then everything looked at once more.
AppendStart(p) ==
    /\ p \in Launchers /\ pc[p] = "append"
    /\ \/ Goto(p, IF StillCurrent(p) THEN "launch" ELSE "undo") /\ UNCHANGED mishaps
       \/ Goto(p, "undo") /\ Mishap
    /\ UNCHANGED <<store, actor, registry, maps, turns, turn, cand, then, clock, history>>

\* Mutant: the last check only asks whether the turn is still the active one.
ReservedUntracked(p) == act = turn[p]

\* The lock on the tracked turns is held from this check to the registration.
Reserved(p) == tracked = turn[p] /\ act = turn[p]

Launch(p) ==
    /\ p \in Launchers /\ pc[p] = "launch"
    /\ IF Reserved(p)
        THEN /\ reg' = turn[p] /\ token' = turn[p]
             /\ task' = [task EXCEPT ![turn[p]] = "running"]
             /\ pursues' = [pursues EXCEPT ![turn[p]] = cand[p]]
             /\ gate' = Nobody
             /\ quit' = FALSE /\ undone' = FALSE
             /\ Leave(p)
        ELSE /\ Goto(p, "undo")
             /\ UNCHANGED <<reg, token, task, pursues, gate, turn, cand, quit, undone>>
    /\ UNCHANGED <<store, act, latest, failedAt, waiting, asked, fired, maps, begun, res,
                   stamp, auto, then, bounds, done, orphan, missed>>

\* Mutant: a launch that is given up leaves the actor's active turn.
ReturnedLate(t) == act
Returned(t) == IF act = t THEN None ELSE act

\* clear_goal_continuation_turn_reservation.
Undo(p) ==
    /\ p \in Launchers /\ pc[p] = "undo"
    /\ tracked' = IF tracked = turn[p] THEN None ELSE tracked
    /\ token' = IF tracked = turn[p] THEN None ELSE token
    /\ owner' = [owner EXCEPT ![turn[p]] = None]
    /\ act' = Returned(turn[p])
    /\ gate' = Nobody
    /\ undone' = TRUE
    /\ Leave(p)
    /\ UNCHANGED <<store, latest, failedAt, waiting, reg, asked, fired, turns, then, bounds,
                   done, orphan, missed, quit>>

-----------------------------------------------------------------------------
(* A turn, and what is scheduled after it.                                  *)

\* update_goal and goal.complete, called in a turn, complete the goal that is
\* current; goal.complete also forgets the tracked turn.
ModelCompletes(t) ==
    /\ task[t] = "running" /\ goal # None
    /\ Becomes("completed")
    /\ done' = done \cup {u \in Turns : task[u] = "running" \/ u = tracked}
    /\ \/ UNCHANGED maps
       \/ Untrack
    /\ UNCHANGED <<actor, registry, turns, procs, bounds, orphan, missed, quit, undone>>

\* "limited": the turn limit was reached, which leaves nothing to recover.
EndQuery(t) ==
    /\ task[t] = "running"
    /\ task' = [task EXCEPT ![t] = "stamped"]
    /\ \/ /\ res' = [res EXCEPT ![t] = "completed"]
          /\ UNCHANGED <<stamp, bounds>>
       \/ /\ t \in fired
          /\ res' = [res EXCEPT ![t] = "interrupted"]
          /\ UNCHANGED <<stamp, bounds>>
       \/ /\ \E f \in {"failed", "limited"} : res' = [res EXCEPT ![t] = f]
          /\ clock' = clock + 1 /\ stamp' = [stamp EXCEPT ![t] = clock + 1]
          /\ Mishap
    /\ fired' = fired \ {t} /\ done' = done \ {t} /\ missed' = missed \ {t}
    /\ UNCHANGED <<store, actor, reg, token, asked, maps, begun, auto, pursues, procs, orphan,
                   quit, undone>>

\* A turn whose continuation was interrupted is no longer known as one.
Charged(t) ==
    /\ goal # None
    /\ \/ owner[t] = None
       \/ owner[t] = goal /\ status \in {"active", "budgetLimited"}

\* The turn is accounted for, if it used anything, then recorded as over.
Account(t) ==
    /\ task[t] = "stamped"
    /\ \/ UNCHANGED store
       \/ /\ Charged(t)
          /\ Touched /\ spent' \in {spent, TRUE} /\ UNCHANGED <<goal, status, goals>>
    /\ owner' = [owner EXCEPT ![t] = None]
    /\ task' = [task EXCEPT ![t] = "recorded"]
    /\ UNCHANGED <<actor, registry, tracked, begun, res, stamp, auto, pursues, procs, bounds,
                   history>>

Forget(x, t) == {x} \ {None, t}
Failure(t) == IF res[t] \in {"failed", "limited"} THEN res[t] ELSE "none"

Merge(t) ==
    /\ task[t] = "recorded"
    /\ act' = None /\ latest' = Failure(t) /\ failedAt' = stamp[t]
    /\ orphan' = orphan \cup Forget(act, t)
    /\ task' = [task EXCEPT ![t] = "merged"]
    /\ UNCHANGED <<store, waiting, gate, registry, maps, begun, res, stamp, auto, pursues,
                   procs, bounds, done, missed, quit, undone>>

\* Mutant: the activation noted in the registry is dropped with the entry.
ContinuesSelf(t) == res[t] # "interrupted"
Continues(t) == res[t] # "interrupted" \/ asked

\* The entry is removed, and the activation it holds taken, in one step.
ClearHandles(t) ==
    /\ task[t] = "merged"
    /\ reg' = None /\ token' = None /\ asked' = FALSE
    /\ orphan' = (orphan \cup Forget(reg, t)) \ {t}
    /\ auto' = IF Continues(t) THEN auto \cup {t} ELSE auto
    /\ quit' = (quit \/ ~(res[t] # "interrupted" \/ asked))
    /\ Gone(t)
    /\ Goto(Post(t), "settle")
    /\ UNCHANGED <<store, actor, fired, maps, begun, turn, cand, then, bounds, done, missed,
                   undone>>

Settle(t) ==
    /\ pc[Post(t)] = "settle"
    /\ IF t \in auto THEN SuppressGoal ELSE UNCHANGED store
    /\ Goto(Post(t), "recover")
    /\ UNCHANGED <<actor, registry, maps, turns, turn, cand, then, bounds, history>>

Saved == reg = None /\ latest = "failed"

\* A failed turn waits for the user.
Recover(t) ==
    /\ pc[Post(t)] = "recover"
    /\ Goto(Post(t), IF Saved THEN "done" ELSE "queue")
    /\ auto' = IF Saved THEN auto \ {t} ELSE auto
    /\ UNCHANGED <<store, actor, registry, maps, begun, task, res, stamp, pursues, turn, cand,
                   then, bounds, history>>

\* A new turn for a user message is active, registered and running.
StartUserTurn ==
    /\ begun < MaxTurns /\ begun' = Next1
    /\ act' = Next1 /\ reg' = Next1 /\ token' = Next1
    /\ task' = [task EXCEPT ![Next1] = "running"]
    /\ orphan' = orphan \cup ({act} \ {None})
    /\ UNCHANGED <<latest, failedAt, gate, asked, fired, res, stamp, pursues>>

Drains(t) == waiting > 0

\* The queue comes before the goal, whether or not a turn is active.
Drain(t) ==
    /\ pc[Post(t)] = "queue" /\ gate = Nobody
    /\ IF Drains(t)
        THEN waiting' = waiting - 1 /\ StartUserTurn /\ Goto(Post(t), "done")
        ELSE /\ Goto(Post(t), IF t \in auto THEN "suppress" ELSE "done")
             /\ UNCHANGED <<actor, registry, begun, task, res, stamp, pursues, orphan>>
    /\ auto' = auto \ {t}
    /\ UNCHANGED <<store, maps, turn, cand, then, bounds, done, missed, quit, undone>>

-----------------------------------------------------------------------------
(* The user.                                                                *)

\* A message to an idle session starts a turn.
Say(u) ==
    /\ pc[u] = "send" /\ act = None /\ gate = Nobody
    /\ StartUserTurn
    /\ Goto(u, "done")
    /\ UNCHANGED <<store, waiting, maps, auto, turn, cand, then, bounds, done, missed, quit,
                   undone>>

\* Mutant: a message behind a continuation turn waits for its end.
PreemptsNothing(t) == FALSE
Preempts(t) == task[t] = "none" \/ pursues[t] # None

\* Otherwise it is queued, and a continuation turn is told to make way.
Queue(u) ==
    /\ pc[u] = "send" /\ act # None
    /\ waiting' = waiting + 1
    /\ IF Preempts(act)
        THEN turn' = [turn EXCEPT ![u] = act] /\ Goto(u, "preempt")
        ELSE Goto(u, "kick") /\ UNCHANGED turn
    /\ UNCHANGED <<store, act, latest, failedAt, gate, registry, maps, turns, cand, then, bounds,
                   history>>

Preempt(u) ==
    /\ pc[u] = "preempt"
    /\ fired' = IF reg = turn[u] /\ ~Ended(turn[u]) THEN fired \cup Watched ELSE fired
    /\ missed' = missed \cup {t \in Turns : t = turn[u] /\ task[t] = "none"}
    /\ turn' = [turn EXCEPT ![u] = None]
    /\ Goto(u, "kick")
    /\ UNCHANGED <<store, actor, reg, token, asked, maps, turns, cand, then, bounds, done,
                   orphan, quit, undone>>

\* The active turn may have ended before the message was in the queue: it is
\* started if the session is idle.
Kick(u) ==
    /\ pc[u] = "kick"
    /\ \/ /\ act = None /\ waiting > 0 /\ gate = Nobody
          /\ waiting' = waiting - 1 /\ StartUserTurn
       \/ /\ act # None \/ waiting = 0
          /\ UNCHANGED <<actor, registry, begun, task, res, stamp, pursues, orphan>>
    /\ Goto(u, "done")
    /\ UNCHANGED <<store, maps, auto, turn, cand, then, bounds, done, missed, quit, undone>>

\* turn/interrupt.
Escape ==
    /\ reg # None /\ ~Ended(reg)
    /\ fired' = fired \cup Watched
    /\ UNCHANGED <<store, actor, reg, token, asked, maps, turns, procs, bounds, history>>

-----------------------------------------------------------------------------
Request(r) == Commit(r) \/ Interrupt(r) \/ Probe(r) \/ Signal(r) \/ Follow(r)
Continuation(p) ==
    \/ Suppress(p) \/ Choose(p) \/ Begin(p) \/ Track(p) \/ Mark(p) \/ AppendStart(p)
    \/ Launch(p) \/ Undo(p)
Turn(t) == ModelCompletes(t) \/ EndQuery(t) \/ Account(t) \/ Merge(t) \/ ClearHandles(t)
PostTurn(t) == Settle(t) \/ Recover(t) \/ Drain(t)
Message(u) == Say(u) \/ Queue(u) \/ Preempt(u) \/ Kick(u)

\* All calls are answered, or the bound on turns is reached.
Rest == (\A r \in Requests : pc[r] # "commit") /\ UNCHANGED vars

Next ==
    \/ \E r \in Requests : Request(r)
    \/ \E p \in Launchers : Continuation(p)
    \/ \E t \in Turns : Turn(t) \/ PostTurn(t)
    \/ \E u \in Users : Message(u)
    \/ Escape
    \/ Rest

Spec == Init /\ [][Next]_vars

-----------------------------------------------------------------------------
(* Properties.                                                              *)

Pursued(g) == Current(g) /\ status \in {"active", "budgetLimited"}
Stopping(t) ==
    \E r \in Requests :
        pc[r] = "interrupt" \/ (pc[r] \in {"probe", "signal"} /\ turn[r] = t)

\* A goal that is paused, finished, cleared or replaced takes its continuation
\* turn with it: a turn that runs unsignalled is for the current goal, which is
\* active or in its wrap-up, or the request that changed it is about to
\* interrupt it (goal_continuation.rs:191, goal_handlers.rs:82), or the model
\* itself completed the goal (goal_handlers.rs:1053).
StoppedGoalsStop ==
    \A t \in Turns : task[t] = "running" /\ pursues[t] # None =>
        \/ Pursued(pursues[t])
        \/ t \in fired \cup orphan \cup done \/ Stopping(t)

AtRest ==
    /\ act = None /\ reg = None
    /\ \A p \in Procs : pc[p] \in {"none", "commit", "send", "done"}
    /\ \A t \in Turns : task[t] \notin Alive

\* An activation is either consumed after the merge of the turn that runs or
\* admitted at once (goal_handlers.rs:917): an active goal is not left alone in
\* an idle session, unless the last turn was stopped by the user or failed, or
\* a launch was given up.
ActiveGoalIsPursued ==
    AtRest /\ goal # None /\ status = "active" /\ waiting = 0 =>
        quit \/ undone \/ latest = "failed"

\* The session's active turn is always somebody's to end: a launch that is
\* given up at any point returns its reservation (goal_continuation.rs:454).
ReservationIsReturned ==
    act # None => \/ task[act] \in Alive \ {"merged"}
                  \/ \E p \in Launchers : pc[p] \in Launching /\ turn[p] = act

\* The user's message does not wait behind a turn that only pursues the goal
\* (turn_interrupt.rs:28): the turn is told to stop, or is about to be, unless
\* it was not registered when the message came.
UserComesFirst ==
    waiting > 0 => \A t \in Turns : task[t] = "running" /\ pursues[t] # None =>
        \/ t \in fired \cup orphan \cup missed
        \/ \E u \in Users : pc[u] = "preempt" /\ turn[u] = t
=============================================================================
