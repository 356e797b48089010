------------------------------- MODULE Agents -------------------------------
(***************************************************************************)
(* One subagent of a parent session: the task that starts it, the messages *)
(* sent to it, the turns these become, and what stops it (the parent       *)
(* closing it, or the interrupt of the parent's turn).                     *)
(*                                                                         *)
(* A turn has the name of the message it is about.  The registration of a  *)
(* turn, taken apart in SessionTurn, is one step here.                     *)
(***************************************************************************)
EXTENDS Naturals, Sequences, FiniteSets

CONSTANTS
    Starter,     \* the spawn task, and the message the child starts with
    Senders,     \* callers of send_message, one message each
    Stops,       \* calls that close the child (close_agent, delete_subagent,
                 \* cancel_task) or interrupts of the parent's turn
    Limit,       \* max_turns of the child, 0 for none
    MaxCalls,    \* bound: messages and stops in all
    MaxMishaps   \* bound: turns that fail, or whose start is not recorded, waits
                 \* that time out

Msgs == {Starter} \cup Senders
Stoppers == Stops \cup {Starter}
Post(t) == <<"post", t>>
Posts == {Post(t) : t \in Msgs}
Drains == Senders \cup Posts
Starts == {Starter} \cup Drains
Procs == Starts \cup Stoppers
None == "none"
Nobody == <<"none", None>>

ASSUME AgentsAssumption ==
    /\ Starter \notin Senders \cup Stops
    /\ Senders \cap Stops = {} /\ Posts \cap (Senders \cup Stoppers) = {}
    /\ None \notin Msgs /\ Nobody \notin Starts
    /\ Limit \in Nat /\ MaxCalls \in Nat /\ MaxMishaps \in Nat

VARIABLES
    status,     \* registry of subagents: the status
    closing,    \* registry of subagents: close_requested
    mail,       \* the child's mailbox
    queue,      \* the child's queue of pending turns
    act,        \* the actor's active turn
    latest,     \* the actor's latest turn
    reg,        \* the active-turn registry
    snap,       \* its spawn snapshots, by turn
    gate,       \* who holds the state-change gate
    task,       \* where the task of each turn is
    res,        \* how its query ended
    token,      \* the turn whose token the query watches
    cancelled,  \* turns whose token is fired
    aborting,   \* turns whose task is told to stop
    pc, hand,   \* where each process is, the messages it drained
    dropped,    \* a stopper: it interrupts, and drops the turn it is given
    was,        \* a closer: the child was terminal when it came
    had,        \* a closer: a turn was registered when it looked
    target,     \* the turn a stopper waits for
    taken,      \* the active turn it took from the actor
    told,       \* terminal events about each turn in the parent's buffer
    notified,   \* a terminal event about no turn is there too
    silent,     \* history: turns the parent's interrupt took
    orphan,     \* history: turns the actor or the registry forgot while they ran
    gaveUp,     \* history: a turn failed or was aborted, or none was begun
    mishaps     \* what is left of the bound

agent == <<status, closing, told, notified>>
actor == <<act, latest>>
registry == <<reg, snap, cancelled>>
turns == <<task, res, token, aborting>>
procs == <<pc, hand>>
stops == <<dropped, was, had, target, taken>>
history == <<silent, orphan, gaveUp, mishaps>>
vars == <<agent, mail, queue, actor, registry, gate, turns, procs, stops, history>>

Final == {"completed", "failed", "interrupted", "closed"}
Reported == {"recorded", "merged", "over"}
Running == {"spawned", "query", "report", "reportClosed"} \cup (Reported \ {"over"})

TypeOK ==
    /\ status \in {"spawning", "running"} \cup Final
    /\ closing \in BOOLEAN
    /\ mail \in Seq(Senders) /\ queue \in Seq(Msgs)
    /\ act \in Msgs \cup {None} /\ latest \in Msgs \cup {None}
    /\ reg \in Msgs \cup {None}
    /\ snap \subseteq Msgs /\ cancelled \subseteq Msgs
    /\ gate \in Starts \cup {Nobody}
    /\ task \in [Msgs -> {None, "aborted", "over"} \cup Running]
    /\ res \in [Msgs -> {None, "completed", "failed", "interrupted"}]
    /\ token \in [Msgs -> Msgs \cup {None}]
    /\ aborting \subseteq Msgs
    /\ pc \in [Procs -> {None, "hook", "send", "check", "drain", "chain", "chained", "accept",
                         "reserve", "launch", "mark", "list", "fail", "stop", "close", "signal",
                         "force", "take", "tell", "done"}]
    /\ hand \in [Starts -> Seq(Msgs)]
    /\ dropped \in [Stoppers -> BOOLEAN]
    /\ was \in [Stoppers -> BOOLEAN] /\ had \in [Stoppers -> BOOLEAN]
    /\ target \in [Stoppers -> Msgs \cup {None}]
    /\ taken \in [Stoppers -> Msgs \cup {None}]
    /\ told \in [Msgs -> Nat] /\ notified \in BOOLEAN
    /\ silent \subseteq Msgs /\ orphan \subseteq Msgs
    /\ gaveUp \in BOOLEAN /\ mishaps \in 0..MaxMishaps
    /\ \A p \in Starts : pc[p] \in {"launch", "chained"} => gate = p

\* The child is registered with its parent and its session is idle.
Init ==
    /\ status = "spawning" /\ closing = FALSE
    /\ mail = <<>> /\ queue = <<>>
    /\ act = None /\ latest = None
    /\ reg = None /\ snap = {} /\ cancelled = {} /\ gate = Nobody
    /\ task = [t \in Msgs |-> None] /\ res = [t \in Msgs |-> None]
    /\ token = [t \in Msgs |-> None] /\ aborting = {}
    /\ pc = [p \in Procs |-> CASE p = Starter -> "hook"
                               [] p \in Senders -> "send"
                               [] p \in Stops -> "stop"
                               [] OTHER -> None]
    /\ hand = [p \in Starts |-> IF p = Starter THEN <<Starter>> ELSE <<>>]
    /\ dropped = [k \in Stoppers |-> FALSE]
    /\ was = [k \in Stoppers |-> FALSE] /\ had = [k \in Stoppers |-> FALSE]
    /\ target = [k \in Stoppers |-> None] /\ taken = [k \in Stoppers |-> None]
    /\ told = [t \in Msgs |-> 0] /\ notified = FALSE
    /\ silent = {} /\ orphan = {} /\ gaveUp = FALSE
    /\ mishaps = MaxMishaps

Goto(p, l) == pc' = [pc EXCEPT ![p] = l]
Comes == Cardinality({p \in Senders \cup Stops : pc[p] \notin {"send", "stop"}}) < MaxCalls
Mishap == mishaps > 0 /\ mishaps' = mishaps - 1

\* Another turn than t, active or registered, is forgotten.
Deregister(t) == orphan' = IF reg \notin {None, t} THEN orphan \cup {reg} ELSE orphan
Forget(t) == orphan' = IF act \notin {None, t} THEN orphan \cup {act} ELSE orphan

-----------------------------------------------------------------------------
(* send_message: the mailbox, and the drain when the child has no turn.     *)

Send(s) ==
    /\ s \in Senders /\ pc[s] = "send" /\ Comes
    /\ mail' = Append(mail, s)
    /\ Goto(s, "check")
    /\ UNCHANGED <<agent, queue, actor, registry, gate, turns, hand, stops, history>>

Check(s) ==
    /\ s \in Senders /\ pc[s] = "check"
    /\ Goto(s, IF reg = None /\ act = None THEN "drain" ELSE "done")
    /\ UNCHANGED <<agent, mail, queue, actor, registry, gate, turns, hand, stops, history>>

Drain(p) ==
    /\ p \in Drains /\ pc[p] = "drain"
    /\ hand' = [hand EXCEPT ![p] = mail]
    /\ mail' = <<>>
    /\ Goto(p, IF mail = <<>> THEN "done" ELSE "reserve")
    /\ UNCHANGED <<agent, queue, actor, registry, gate, turns, stops, history>>

-----------------------------------------------------------------------------
(* start_runtime_turn, under the state-change gate.                         *)

Unlisted == reg # None /\ snap = {}
Busy == snap # {} \/ act # None
\* The active or the latest turn has the number of the limit.
AtLimit == Limit > 0 /\ Cardinality({t \in Msgs : task[t] # None}) >= Limit

\* The first error ends the drain, and what was drained with it is gone.
Refused(p) ==
    /\ Goto(p, IF p = Starter THEN "fail" ELSE "done")
    /\ hand' = [hand EXCEPT ![p] = <<>>]
    /\ gaveUp' = TRUE

\* A turn that is registered and has no snapshot yet, or no more, is an error.
Refuse(p) ==
    /\ p \in Starts /\ pc[p] = "reserve" /\ gate = Nobody
    /\ Unlisted \/ AtLimit
    /\ Refused(p)
    /\ UNCHANGED <<agent, mail, queue, actor, registry, gate, turns, stops, silent, orphan,
                   mishaps>>

\* After each message a drain lists the child as running.
NextOf(p) ==
    /\ hand' = [hand EXCEPT ![p] = Tail(@)]
    /\ status' = IF p = Starter THEN status ELSE "running"
    /\ Goto(p, CASE p = Starter -> "mark"
                  [] p # Starter /\ Len(hand[p]) > 1 -> "reserve"
                  [] OTHER -> "done")

Enqueue(p) ==
    /\ p \in Starts /\ pc[p] = "reserve" /\ gate = Nobody
    /\ ~Unlisted /\ ~AtLimit /\ Busy
    /\ queue' = Append(queue, Head(hand[p]))
    /\ NextOf(p)
    /\ UNCHANGED <<closing, told, notified, mail, actor, registry, gate, turns, stops, history>>

\* The actor takes the turn, whatever it had.
Activated(t) ==
    /\ Forget(t)
    /\ act' = t

Held(p) == gate' = p

Begin(p) ==
    /\ p \in Starts /\ pc[p] = "reserve" /\ gate = Nobody
    /\ ~Unlisted /\ ~AtLimit /\ ~Busy
    /\ Held(p)
    /\ Activated(Head(hand[p]))
    /\ Goto(p, "launch")
    /\ UNCHANGED <<agent, mail, queue, latest, registry, turns, hand, stops, silent, gaveUp,
                   mishaps>>

\* append_turn_start: a line that is not written takes the turn back.
TakeBack(p) ==
    /\ p \in Starts /\ pc[p] = "launch"
    /\ act' = IF act = Head(hand[p]) THEN None ELSE act
    /\ Refused(p)
    /\ gate' = Nobody
    /\ Mishap
    /\ UNCHANGED <<agent, mail, queue, latest, registry, turns, stops, silent, orphan>>

\* Registered with a token, spawned, the gate released.
Launched(t) ==
    /\ Deregister(t)
    /\ reg' = t
    /\ task' = [task EXCEPT ![t] = "spawned"]
    /\ gate' = Nobody

Launch(p) ==
    /\ p \in Starts /\ pc[p] = "launch"
    /\ Launched(Head(hand[p]))
    /\ NextOf(p)
    /\ UNCHANGED <<closing, told, notified, mail, queue, actor, snap, cancelled, res, token,
                   aborting, stops, silent, gaveUp, mishaps>>

-----------------------------------------------------------------------------
(* The spawn task.                                                          *)

Hook ==
    /\ pc[Starter] = "hook"
    /\ Goto(Starter, IF closing THEN "done" ELSE "reserve")
    /\ UNCHANGED <<agent, mail, queue, actor, registry, gate, turns, hand, stops, history>>

\* Mutant: a child that was closed while its first turn was admitted runs on.
AfterStartUnasked == "list"
\* A child that was closed while its first turn was admitted is closed again.
AfterStart == IF closing THEN "close" ELSE "list"

Started ==
    /\ pc[Starter] = "mark"
    /\ Goto(Starter, AfterStart)
    /\ UNCHANGED <<agent, mail, queue, actor, registry, gate, turns, hand, stops, history>>

List ==
    /\ pc[Starter] = "list"
    /\ status' = "running"
    /\ Goto(Starter, "done")
    /\ UNCHANGED <<closing, told, notified, mail, queue, actor, registry, gate, turns, hand,
                   stops, history>>

\* fail_child_agent_startup: the actor is made idle, whatever turn it has.
FailStartup ==
    /\ pc[Starter] = "fail"
    /\ Goto(Starter, "done")
    /\ IF closing
        THEN UNCHANGED <<status, notified, act, orphan>>
        ELSE /\ status' = "failed"
             /\ notified' = TRUE
             /\ Forget(None)
             /\ act' = None
    /\ UNCHANGED <<closing, told, mail, queue, latest, registry, gate, turns, hand, stops,
                   silent, gaveUp, mishaps>>

-----------------------------------------------------------------------------
(* The task of a turn.                                                      *)

Step(t, from, to) ==
    /\ task[t] = from
    /\ task' = [task EXCEPT ![t] = to]

\* The query watches the token it finds in the entry.
Enter(t) ==
    /\ Step(t, "spawned", "query")
    /\ snap' = snap \cup {t}
    /\ token' = [token EXCEPT ![t] = reg]
    /\ UNCHANGED <<agent, mail, queue, actor, reg, cancelled, gate, res, aborting, procs, stops,
                   history>>

EndQuery(t) ==
    /\ Step(t, "query", IF closing THEN "reportClosed" ELSE "report")
    /\ \/ /\ res' = [res EXCEPT ![t] = IF token[t] \in cancelled THEN "interrupted"
                                                                 ELSE "completed"]
          /\ UNCHANGED mishaps
       \/ res' = [res EXCEPT ![t] = "failed"] /\ Mishap
    /\ UNCHANGED <<agent, mail, queue, actor, registry, gate, token, aborting, procs, stops,
                   silent, orphan, gaveUp>>

\* handle_subagent_turn_completed_for_actor_state
Report(t) ==
    /\ \E l \in {"report", "reportClosed"} : Step(t, l, "recorded")
    /\ status' = IF task[t] = "reportClosed" THEN "closed" ELSE res[t]
    /\ told' = [told EXCEPT ![t] = @ + 1]
    /\ UNCHANGED <<closing, notified, mail, queue, actor, registry, gate, res, token, aborting,
                   procs, stops, history>>

\* The actor's active turn is the working set's: none.
Merge(t) ==
    /\ Step(t, "recorded", "merged")
    /\ Forget(t)
    /\ act' = None
    /\ latest' = t
    /\ UNCHANGED <<agent, mail, queue, registry, gate, res, token, aborting, procs, stops,
                   silent, gaveUp, mishaps>>

\* Nobody has the token of t, or the handle of its task, any more.
Unhandled(t) ==
    /\ cancelled' = cancelled \ {t}
    /\ token' = [token EXCEPT ![t] = None]
    /\ aborting' = aborting \ {t}

\* The snapshot of t goes, then the session's entry, whoever's it is; post-turn
\* scheduling is spawned.
ClearHandles(t) ==
    /\ Step(t, "merged", "over")
    /\ Deregister(t)
    /\ reg' = None /\ snap' = {}
    /\ Unhandled(t)
    /\ Goto(Post(t), "check")
    /\ UNCHANGED <<agent, mail, queue, actor, gate, res, hand, stops, silent, gaveUp, mishaps>>

\* A task told to stop does so at one of its next suspensions.
TaskStops(t) ==
    /\ t \in aborting /\ task[t] \in Running
    /\ task' = [task EXCEPT ![t] = "aborted"]
    /\ Unhandled(t)
    /\ UNCHANGED <<agent, mail, queue, actor, reg, snap, gate, res, procs, stops, history>>

-----------------------------------------------------------------------------
(* Post-turn scheduling of turn t.                                          *)

Saved == reg = None /\ latest # None /\ res[latest] = "failed"

\* A failed turn waits for the user; nothing else is started.
PostTurn(t) ==
    LET p == Post(t) IN
    /\ pc[p] = "check"
    /\ Goto(p, IF Saved THEN "done" ELSE "chain")
    /\ gaveUp' = (gaveUp \/ Saved)
    /\ UNCHANGED <<agent, mail, queue, actor, registry, gate, turns, hand, stops, silent,
                   orphan, mishaps>>

\* The chain and the plain drain pop whether or not a turn is active.
PopNothing(t) ==
    /\ pc[Post(t)] = "chain" /\ gate = Nobody /\ queue = <<>>
    /\ Goto(Post(t), "accept")
    /\ UNCHANGED <<agent, mail, queue, actor, registry, gate, turns, hand, stops, history>>

Pop(t) ==
    LET p == Post(t) IN
    /\ pc[p] = "chain" /\ gate = Nobody /\ queue # <<>>
    /\ gate' = p
    /\ queue' = Tail(queue)
    /\ hand' = [hand EXCEPT ![p] = <<Head(queue)>>]
    /\ Activated(Head(queue))
    /\ snap' = snap \cup {Head(queue)}
    /\ Goto(p, "chained")
    /\ UNCHANGED <<agent, mail, latest, reg, cancelled, turns, stops, silent, gaveUp,
                   mishaps>>

\* The chain waits for the turn it started, and does nothing more.
Chained(t) ==
    LET p == Post(t) IN
    /\ pc[p] = "chained"
    /\ Launched(Head(hand[p]))
    /\ hand' = [hand EXCEPT ![p] = <<>>]
    /\ Goto(p, "done")
    /\ UNCHANGED <<agent, mail, queue, actor, snap, cancelled, res, token, aborting, stops,
                   silent, gaveUp, mishaps>>

\* Mutant: the post-turn of a child leaves the mailbox to the next message.
AfterQueueDone == "done"
AfterQueue == IF Unlisted \/ AtLimit THEN "done" ELSE "drain"

\* child_can_accept_next_turn
Accept(t) ==
    LET p == Post(t) IN
    /\ pc[p] = "accept"
    /\ Goto(p, AfterQueue)
    /\ gaveUp' = (gaveUp \/ AtLimit)
    /\ UNCHANGED <<agent, mail, queue, actor, registry, gate, turns, hand, stops, silent,
                   orphan, mishaps>>

-----------------------------------------------------------------------------
(* close_child_agent and interrupt_child_runtime_work.                      *)

Close(k) ==
    /\ k \in Stoppers /\ pc[k] \in {"stop", "close"} /\ (pc[k] = "stop" => Comes)
    /\ was' = [was EXCEPT ![k] = status \in Final]
    /\ closing' = TRUE
    /\ status' = IF status \in Final THEN status ELSE "closed"
    /\ Goto(k, "signal")
    /\ UNCHANGED <<told, notified, mail, queue, actor, registry, gate, turns, hand, dropped, had,
                   target, taken, history>>

InterruptAll(k) ==
    /\ k \in Stops /\ pc[k] = "stop" /\ Comes
    /\ dropped' = [dropped EXCEPT ![k] = TRUE]
    /\ Goto(k, "signal")
    /\ UNCHANGED <<agent, mail, queue, actor, registry, gate, turns, hand, was, had, target, taken,
                   history>>

CancelledBy(k) == cancelled \cup ({reg} \cap Msgs)

\* The turn to wait for, and its token.
Signal(k) ==
    /\ k \in Stoppers /\ pc[k] = "signal"
    /\ had' = [had EXCEPT ![k] = reg # None \/ snap # {}]
    /\ target' = [target EXCEPT ![k] = reg]
    /\ cancelled' = CancelledBy(k)
    /\ Goto(k, "force")
    /\ UNCHANGED <<agent, mail, queue, actor, reg, snap, gate, turns, hand, dropped, was, taken,
                   history>>

\* The terminal record wakes the stopper, which waits two seconds otherwise.
Unwound(t) == t = None \/ task[t] \in Reported \cup {"aborted"}

\* Mutant: the handles of a turn that did not unwind go, its task stays.
LeftRunning == aborting
Aborted == aborting \cup {reg}

ForceOut(k) ==
    /\ k \in Stoppers /\ pc[k] = "force"
    /\ IF Unwound(target[k]) THEN UNCHANGED mishaps ELSE Mishap
    /\ IF reg = None
        THEN UNCHANGED <<reg, snap, aborting, gaveUp>>
        ELSE /\ aborting' = Aborted
             /\ reg' = None /\ snap' = {}
             /\ gaveUp' = TRUE
    /\ Goto(k, "take")
    /\ UNCHANGED <<agent, mail, queue, actor, cancelled, gate, task, res, token, hand, stops,
                   silent, orphan>>

\* InterruptActiveTurn
Take(k) ==
    /\ k \in Stoppers /\ pc[k] = "take"
    /\ taken' = [taken EXCEPT ![k] = act]
    /\ act' = None
    /\ latest' = IF act = None THEN latest ELSE act
    /\ silent' = IF dropped[k] THEN silent \cup ({act} \cap Msgs) ELSE silent
    /\ Goto(k, "tell")
    /\ UNCHANGED <<agent, mail, queue, registry, gate, turns, hand, dropped, was, had, target,
                   orphan, gaveUp, mishaps>>

\* What only the call itself looks at.
Settled(k) ==
    /\ dropped' = [dropped EXCEPT ![k] = FALSE]
    /\ was' = [was EXCEPT ![k] = FALSE]
    /\ had' = [had EXCEPT ![k] = FALSE]
    /\ target' = [target EXCEPT ![k] = None]
    /\ taken' = [taken EXCEPT ![k] = None]

\* interrupt_all_child_agents drops the turn it was given.
Interrupted(k) ==
    /\ k \in Stops /\ pc[k] = "tell" /\ dropped[k]
    /\ status' = "interrupted"
    /\ Goto(k, "done")
    /\ Settled(k)
    /\ UNCHANGED <<closing, told, notified, mail, queue, actor, registry, gate, turns, hand,
                   history>>

\* Mutant: closing a child never tells about the turn it took.
TellsNothing(k) == FALSE
Tells(k) == taken[k] # None

Closed(k) ==
    /\ k \in Stoppers /\ pc[k] = "tell" /\ ~dropped[k]
    /\ IF Tells(k)
        THEN /\ told' = [told EXCEPT ![taken[k]] = @ + 1]
             /\ status' = "closed"
             /\ UNCHANGED notified
        ELSE /\ notified' = (notified \/ ~(was[k] \/ had[k]))
             /\ UNCHANGED <<told, status>>
    /\ Goto(k, "done")
    /\ Settled(k)
    /\ UNCHANGED <<closing, mail, queue, actor, registry, gate, turns, hand, history>>

-----------------------------------------------------------------------------
Message(s) == Send(s) \/ Check(s)
Start(p) ==
    \/ Drain(p) \/ Refuse(p) \/ Enqueue(p) \/ Begin(p) \/ TakeBack(p) \/ Launch(p)
Spawn == Hook \/ Started \/ List \/ FailStartup
Turn(t) ==
    \/ Enter(t) \/ EndQuery(t) \/ Report(t) \/ Merge(t) \/ ClearHandles(t)
    \/ TaskStops(t)
Followup(t) == PostTurn(t) \/ PopNothing(t) \/ Pop(t) \/ Chained(t) \/ Accept(t)
Stop(k) ==
    \/ Close(k) \/ InterruptAll(k) \/ Signal(k) \/ ForceOut(k) \/ Take(k) \/ Interrupted(k)
    \/ Closed(k)

\* Nobody has anything left to do.
Rest ==
    /\ \A p \in Procs : pc[p] \in {None, "done"} \/ (pc[p] \in {"send", "stop"} /\ ~Comes)
    /\ \A t \in Msgs : task[t] \notin Running
    /\ UNCHANGED vars

Next ==
    \/ \E s \in Senders : Message(s)
    \/ \E p \in Starts : Start(p)
    \/ Spawn
    \/ \E t \in Msgs : Turn(t) \/ Followup(t)
    \/ \E k \in Stoppers : Stop(k)
    \/ Rest

Spec == Init /\ [][Next]_vars

-----------------------------------------------------------------------------
(* Properties.                                                              *)

Draining == {"drain", "reserve", "launch"}

\* Somebody is about to look at what waits: a turn whose end is followed by a
\* drain, post-turn scheduling, or a sender.
SomebodyComes ==
    \/ act # None \/ reg # None
    \/ \E t \in Msgs : task[t] \in Running \/ pc[Post(t)] \in {"check", "chain", "chained",
                                                              "accept"} \cup Draining
    \/ \E s \in Senders : pc[s] \in {"check"} \cup Draining
    \/ pc[Starter] = "launch"

\* A message in the mailbox, or in the queue, of a child is not left there: the
\* sender that found a turn relies on that turn's post-turn scheduling, and the
\* post-turn scheduling on whoever it left the mailbox to (coordinator.rs:51,
\* turn_exec/mod.rs:165).  A turn that failed or had to be aborted, a start
\* that was refused, and the turn limit end the relay.
WaitingIsServed == mail # <<>> \/ queue # <<>> => SomebodyComes \/ gaveUp

Over(t) == task[t] \in {"aborted", "over"}
Telling(t) == \E k \in Stoppers : pc[k] = "tell" /\ taken[k] = t

\* wait_agent returns on a terminal event: of every turn that is over there is
\* one in the parent's buffer, from the task or from whoever stopped it
\* (agents.rs:1014, 1259), unless the parent's own interrupt took it or the
\* actor forgot it.
OverIsReported ==
    \A t \in Msgs : Over(t) /\ act # t /\ ~Telling(t) =>
        told[t] > 0 \/ t \in silent \cup orphan

\* A child that was closed before anybody wrote to it comes to rest, however
\* the closing meets its first turn (agents.rs:365, 1239).
ClosedIsQuiet ==
    /\ closing /\ \A k \in Stoppers : pc[k] \in {"stop", "done"}
    /\ \A s \in Senders : pc[s] = "send" /\ Comes
    => act = None /\ \A t \in Msgs : task[t] \in Running => t \in aborting

\* The turn a stopper found is over when it returns, or has been told to stop:
\* a wait that times out is followed by an abort (agents/lifecycle.rs:121).
StopEndsTurn ==
    \A k \in Stoppers : pc[k] = "tell" /\ target[k] # None =>
        \/ task[target[k]] \notin {"spawned", "query"}
        \/ target[k] \in aborting \cup orphan
=============================================================================
