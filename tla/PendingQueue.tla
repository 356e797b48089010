---------------------------- MODULE PendingQueue ----------------------------
(***************************************************************************)
(* The pending inputs of one session and their mirror in SQLite: session   *)
(* queue push, update and remove, turn/steer, the end-of-turn sweep, the   *)
(* drains and the restore after a restart of the server                    *)
(* (crates/server/src/runtime/handlers/queue.rs, turn_exec/finalize.rs,    *)
(* turn_exec/followup.rs, lifecycle.rs, crates/server/src/db.rs).          *)
(*                                                                         *)
(* Two in-memory queues (turn and steer) sit behind their own mutexes; two *)
(* sets of rows mirror them.  No operation changes a queue and its rows    *)
(* together, and the operations of different clients run on different      *)
(* threads, so every lock-protected section and every SQL statement is a   *)
(* step.  Admission under the gate is the one step it amounts to (see      *)
(* SessionTurn); the turn that runs an input is named after it.            *)
(***************************************************************************)
EXTENDS Integers, Sequences, FiniteSets, SequencesExt

CONSTANTS
    Pushers,     \* session/queue/push requests, one input each
    Steerers,    \* turn/steer requests, one input each
    Removers,    \* session/queue/remove requests
    Editors,     \* session/queue/update requests
    NoItem,
    InsertFails, \* whether SQLite may refuse an insert
    MaxCrashes   \* bound on the restarts of the server

Item == Pushers \cup Steerers
Client == Item \cup Removers \cup Editors

ASSUME ClientAssumption ==
    /\ Pushers \cap Steerers = {} /\ Item \cap (Removers \cup Editors) = {}
    /\ Removers \cap Editors = {} /\ NoItem \notin Client
    /\ InsertFails \in BOOLEAN /\ MaxCrashes \in Nat

\* Request handlers, the idle drains they spawn, the post-turn chains and the
\* idle drain of a restored session.
Req(k) == <<"req", k>>
Kick(i) == <<"kick", i>>
Post(t) == <<"post", t>>
Boot == <<"boot", NoItem>>
NoProc == <<"none", NoItem>>

Requests == {Req(k) : k \in Client}
Drainers == {Kick(i) : i \in Item} \cup {Post(t) : t \in Item} \cup {Boot}
Proc == Requests \cup Drainers

VARIABLES
    server,      \* up, down, or a stage of restoring the session
    crashes,     \* how often the server stopped
    active,      \* SessionActorState::active_turn
    gate,        \* SessionHandle::state_change_gate
    queue,       \* pending_turn_queue
    inbox,       \* steer_input_queue
    content,     \* who wrote the content an item has in memory
    rows,        \* pending_messages rows of the turn queue
    nextRow,     \* the next row id
    steerRows,   \* items with a steer row, in order
    history,     \* steers whose history item was written
    pc, held,    \* where each process is, and the item it works on
    edit,        \* what an update request saw: its order, and whether it moved
    turn,        \* the life of the turn each item runs
    sweep,       \* locals of each turn's sweep: ids and drained rows
    restoring,   \* steer rows a restore has drained and not yet queued
    consumed,    \* steers a turn took from its inbox
    starts,      \* how many turns each item started
    removed      \* items whose removal was answered

memVars == <<queue, inbox, content>>
rowVars == <<rows, nextRow, steerRows>>
procVars == <<pc, held, edit>>
serverVars == <<server, crashes, restoring>>
turnVars == <<turn, sweep, active>>
ghostVars == <<consumed, starts, removed>>
vars == <<server, crashes, active, gate, queue, inbox, content, rows, nextRow, steerRows,
          history, pc, held, edit, turn, sweep, restoring, consumed, starts, removed>>

Row == [item : Item, pos : Nat, id : Nat, content : {NoItem} \cup Editors]
ReqPcs == {"new", "admit", "row", "memory", "mismatch", "steerRow", "inbox", "materialize",
           "degradeRow", "degradeMemory", "removeRow", "editSnapshot", "editContent",
           "editPositions", "queued", "started", "injected", "done", "rejected", "panicked",
           "dropped"}
DrainPcs == {"off", "check", "gate", "pop", "popRow", "activate", "finished"}

TypeOK ==
    /\ server \in {"up", "down", "steers", "requeue"}
    /\ crashes \in 0..MaxCrashes
    /\ active \in Item \cup {NoItem}
    /\ gate \in Proc \cup {NoProc}
    /\ queue \in Seq(Item) /\ inbox \in Seq(Steerers)
    /\ content \in [Item -> {NoItem} \cup Editors]
    /\ rows \subseteq Row
    /\ nextRow \in Nat
    /\ steerRows \in Seq(Steerers)
    /\ history \subseteq Steerers
    /\ pc \in [Proc -> ReqPcs \cup DrainPcs]
    /\ held \in [Proc -> Item \cup {NoItem}]
    /\ edit \in [Editors -> [order : Seq(Item), content : {NoItem} \cup Editors,
                            moved : BOOLEAN]]
    /\ turn \in [Item -> {"none", "running", "ended", "swept", "listed", "drained", "recorded",
                          "done"}]
    /\ sweep \in [Item -> [ids : SUBSET Item, drained : Seq(Steerers)]]
    /\ restoring \in Seq(Steerers)
    /\ consumed \subseteq Steerers
    /\ starts \in [Item -> Nat]
    /\ removed \subseteq Item

NoEdit == [order |-> <<>>, content |-> NoItem, moved |-> FALSE]
NoSweep == [ids |-> {}, drained |-> <<>>]

Init ==
    /\ server = "up" /\ crashes = 0 /\ restoring = <<>>
    /\ active = NoItem /\ gate = NoProc
    /\ queue = <<>> /\ inbox = <<>> /\ content = [i \in Item |-> NoItem]
    /\ rows = {} /\ nextRow = 1 /\ steerRows = <<>> /\ history = {}
    /\ pc = [p \in Proc |-> IF p \in Requests THEN "new" ELSE "off"]
    /\ held = [p \in Proc |-> NoItem]
    /\ edit = [e \in Editors |-> NoEdit]
    /\ turn = [t \in Item |-> "none"]
    /\ sweep = [t \in Item |-> NoSweep]
    /\ consumed = {} /\ starts = [i \in Item |-> 0] /\ removed = {}

Goto(p, l) == pc' = [pc EXCEPT ![p] = l]
InQueue(i) == \E n \in 1..Len(queue) : queue[n] = i
HasRow(i) == \E r \in rows : r.item = i

-----------------------------------------------------------------------------
(***************************************************************************)
(* The rows.                                                               *)
(***************************************************************************)
\* Mutant: a new row goes before every row.
InsertedInFront(i, c) ==
    rows \cup {[item |-> i, pos |-> Min({0} \cup {r.pos : r \in rows}) - 1, id |-> nextRow,
                content |-> c]}
\* push_pending: behind every row of its queue type.
Inserted(i, c) ==
    rows \cup {[item |-> i, pos |-> 1 + Max({0} \cup {r.pos : r \in rows}), id |-> nextRow,
                content |-> c]}

Insert(i, c) == rows' = Inserted(i, c) /\ nextRow' = nextRow + 1

\* remove_pending_by_id
WithoutRow(i) == {r \in rows : r.item # i}

\* ORDER BY position ASC, id ASC
Before(r, s) == r.pos < s.pos \/ (r.pos = s.pos /\ r.id < s.id)
RowOrders ==
    {s \in [1..Cardinality(rows) -> rows] :
        /\ \A r \in rows : \E n \in 1..Cardinality(rows) : s[n] = r
        /\ \A m, n \in 1..Cardinality(rows) : m < n => Before(s[m], s[n])}

-----------------------------------------------------------------------------
(***************************************************************************)
(* session/queue/push.                                                     *)
(***************************************************************************)
\* The gate-free snapshot: an idle session is asked again under the gate.
Push(i) ==
    /\ pc[Req(i)] = "new"
    /\ Goto(Req(i), IF active = NoItem THEN "admit" ELSE "row")
    /\ UNCHANGED <<serverVars, gate, memVars, rowVars, history, held, edit, turnVars, ghostVars>>

\* An idle session starts the turn at once and drops the gate; otherwise the
\* gate is kept while the input is enqueued.
PushAdmit(i) ==
    /\ pc[Req(i)] = "admit"
    /\ gate = NoProc
    /\ \/ /\ active = NoItem
          /\ active' = i
          /\ turn' = [turn EXCEPT ![i] = "running"]
          /\ starts' = [starts EXCEPT ![i] = @ + 1]
          /\ Goto(Req(i), "started")
          /\ UNCHANGED gate
       \/ /\ active # NoItem
          /\ gate' = Req(i)
          /\ Goto(Req(i), "row")
          /\ UNCHANGED <<active, turn, starts>>
    /\ UNCHANGED <<serverVars, memVars, rowVars, history, held, edit, sweep, consumed, removed>>

Released(p) == IF gate = p THEN NoProc ELSE gate

\* A failed insert refuses a push that carries a client message id; another
\* one goes on without a row.
PushRow(i) ==
    /\ pc[Req(i)] = "row"
    /\ \/ /\ Insert(i, NoItem)
          /\ Goto(Req(i), "memory")
          /\ UNCHANGED gate
       \/ /\ InsertFails
          /\ Goto(Req(i), "memory")
          /\ UNCHANGED <<rows, nextRow, gate>>
       \/ /\ InsertFails
          /\ Goto(Req(i), "rejected")
          /\ gate' = Released(Req(i))
          /\ UNCHANGED <<rows, nextRow>>
    /\ UNCHANGED <<serverVars, memVars, steerRows, history, held, edit, turnVars, ghostVars>>

\* Mutant: no drain is spawned for the pushed input.
QueuedNoKick(i) == [pc EXCEPT ![Req(i)] = "queued"]
Queued(i) == [pc EXCEPT ![Req(i)] = "queued", ![Kick(i)] = "check"]

\* The push to the shared queue, and the idle drain spawned after it.
PushMemory(i) ==
    /\ pc[Req(i)] = "memory"
    /\ queue' = Append(queue, i)
    /\ pc' = Queued(i)
    /\ gate' = Released(Req(i))
    /\ UNCHANGED <<serverVars, inbox, content, rowVars, history, held, edit, turnVars, ghostVars>>

-----------------------------------------------------------------------------
(***************************************************************************)
(* turn/steer.  The request names the turn it expects to be active.        *)
(***************************************************************************)
Steer(s, t) ==
    /\ pc[Req(s)] = "new"
    /\ turn[t] # "none"
    /\ held' = [held EXCEPT ![Req(s)] = t]
    /\ Goto(Req(s), CASE active = NoItem -> "degradeRow"
                      [] active = t -> "steerRow"
                      [] OTHER -> "mismatch")
    /\ UNCHANGED <<serverVars, gate, memVars, rowVars, history, edit, turnVars, ghostVars>>

Terminal(t) == turn[t] \in {"recorded", "done"}

\* Another turn is active: the message is kept if the expected turn is over,
\* or the active one is about to be.
SteerMismatch(s) ==
    /\ pc[Req(s)] = "mismatch"
    /\ Goto(Req(s), IF Terminal(held[Req(s)]) \/ (active # NoItem /\ Terminal(active))
                    THEN "degradeRow" ELSE "rejected")
    /\ UNCHANGED <<serverVars, gate, memVars, rowVars, history, held, edit, turnVars, ghostVars>>

SteerRow(s) ==
    /\ pc[Req(s)] = "steerRow"
    /\ \/ /\ steerRows' = Append(steerRows, s)
          /\ Goto(Req(s), "inbox")
       \/ /\ InsertFails
          /\ Goto(Req(s), "rejected")
          /\ UNCHANGED steerRows
    /\ UNCHANGED <<serverVars, gate, memVars, rows, nextRow, history, held, edit, turnVars,
                   ghostVars>>

SteerInbox(s) ==
    /\ pc[Req(s)] = "inbox"
    /\ inbox' = Append(inbox, s)
    /\ Goto(Req(s), "materialize")
    /\ UNCHANGED <<serverVars, gate, queue, content, rowVars, history, held, edit, turnVars,
                   ghostVars>>

SteerMaterialize(s) ==
    /\ pc[Req(s)] = "materialize"
    /\ history' = history \cup {s}
    /\ Goto(Req(s), "injected")
    /\ UNCHANGED <<serverVars, gate, memVars, rowVars, held, edit, turnVars, ghostVars>>

\* degrade_steer_to_queue: like a push, but a failed insert always refuses.
DegradeRow(s) ==
    /\ pc[Req(s)] = "degradeRow"
    /\ \/ /\ Insert(s, NoItem)
          /\ Goto(Req(s), "degradeMemory")
       \/ /\ InsertFails
          /\ Goto(Req(s), "rejected")
          /\ UNCHANGED <<rows, nextRow>>
    /\ UNCHANGED <<serverVars, gate, memVars, steerRows, history, held, edit, turnVars,
                   ghostVars>>

DegradeMemory(s) ==
    /\ pc[Req(s)] = "degradeMemory"
    /\ queue' = Append(queue, s)
    /\ pc' = Queued(s)
    /\ UNCHANGED <<serverVars, gate, inbox, content, rowVars, history, held, edit, turnVars,
                   ghostVars>>

-----------------------------------------------------------------------------
(***************************************************************************)
(* session/queue/remove and session/queue/update.                          *)
(***************************************************************************)
\* The position of the item in the queue, where it is once.
Index(i) == CHOOSE n \in 1..Len(queue) : queue[n] = i
Without(i) == RemoveAt(queue, Index(i))

RemoveItem(r, i) ==
    /\ pc[Req(r)] = "new"
    /\ \/ /\ InQueue(i)
          /\ queue' = Without(i)
          /\ held' = [held EXCEPT ![Req(r)] = i]
          /\ Goto(Req(r), "removeRow")
       \/ /\ ~InQueue(i)
          /\ Goto(Req(r), "rejected")
          /\ UNCHANGED <<queue, held>>
    /\ UNCHANGED <<serverVars, gate, inbox, content, rowVars, history, edit, turnVars, ghostVars>>

RowsAfterRemove(i) == WithoutRow(i)

RemoveRow(r) ==
    /\ pc[Req(r)] = "removeRow"
    /\ rows' = RowsAfterRemove(held[Req(r)])
    /\ removed' = removed \cup {held[Req(r)]}
    /\ Goto(Req(r), "done")
    /\ UNCHANGED <<serverVars, gate, memVars, nextRow, steerRows, history, held, edit, turnVars,
                   consumed, starts>>

\* Position p (1-based, clamped to the back); 0 leaves the item where it is.
Moved(i, p) ==
    LET rest == Without(i)
        n == IF p - 1 < Len(rest) THEN p - 1 ELSE Len(rest)
    IN  SubSeq(rest, 1, n) \o <<i>> \o SubSeq(rest, n + 1, Len(rest))

\* Under the first lock: the new content, the new position.
Edit(e, i, p) ==
    /\ pc[Req(e)] = "new"
    /\ InQueue(i)
    /\ \E c \in {content[i], e} : content' = [content EXCEPT ![i] = c]
    /\ queue' = IF p = 0 THEN queue ELSE Moved(i, p)
    /\ edit' = [edit EXCEPT ![e].moved = p # 0]
    /\ held' = [held EXCEPT ![Req(e)] = i]
    /\ Goto(Req(e), "editSnapshot")
    /\ UNCHANGED <<serverVars, gate, inbox, rowVars, history, turnVars, ghostVars>>

EditMissing(e, i) ==
    /\ pc[Req(e)] = "new"
    /\ ~InQueue(i)
    /\ Goto(Req(e), "rejected")
    /\ UNCHANGED <<serverVars, gate, memVars, rowVars, history, held, edit, turnVars, ghostVars>>

\* Under the second lock the queue is copied; the item must still be there.
EditSnapshot(e) ==
    LET i == held[Req(e)] IN
    /\ pc[Req(e)] = "editSnapshot"
    /\ edit' = [edit EXCEPT ![e].order = queue, ![e].content = content[i]]
    /\ Goto(Req(e), IF InQueue(i) THEN "editContent" ELSE "panicked")
    /\ UNCHANGED <<serverVars, gate, memVars, rowVars, history, held, turnVars, ghostVars>>

EditContent(e) ==
    /\ pc[Req(e)] = "editContent"
    /\ rows' = {IF r.item = held[Req(e)] THEN [r EXCEPT !.content = edit[e].content] ELSE r :
                r \in rows}
    /\ Goto(Req(e), IF edit[e].moved THEN "editPositions" ELSE "done")
    /\ UNCHANGED <<serverVars, gate, memVars, nextRow, steerRows, history, held, edit, turnVars,
                   ghostVars>>

\* set_pending_positions numbers the listed ids 1..N and leaves the others.
EditPositions(e) ==
    LET order == edit[e].order IN
    /\ pc[Req(e)] = "editPositions"
    /\ rows' = {IF \E n \in 1..Len(order) : order[n] = r.item
                THEN [r EXCEPT !.pos = CHOOSE n \in 1..Len(order) : order[n] = r.item]
                ELSE r : r \in rows}
    /\ Goto(Req(e), "done")
    /\ UNCHANGED <<serverVars, gate, memVars, nextRow, steerRows, history, held, edit, turnVars,
                   ghostVars>>

-----------------------------------------------------------------------------
(***************************************************************************)
(* The drains.  A kick and the drain of a restored session look before     *)
(* they take the gate, and pop from an idle session only; a post-turn      *)
(* chain pops whatever is active.                                          *)
(***************************************************************************)
Chain(p) == \E t \in Item : p = Post(t)

DrainCheck(p) ==
    /\ pc[p] = "check"
    /\ Goto(p, IF active # NoItem \/ queue = <<>> THEN "finished" ELSE "gate")
    /\ UNCHANGED <<serverVars, gate, memVars, rowVars, history, held, edit, turnVars, ghostVars>>

DrainGate(p) ==
    /\ pc[p] = "gate"
    /\ gate = NoProc
    /\ gate' = p
    /\ Goto(p, "pop")
    /\ UNCHANGED <<serverVars, memVars, rowVars, history, held, edit, turnVars, ghostVars>>

\* PopQueuedTurnInput: an actor command, so one step.
DrainPop(p) ==
    /\ pc[p] = "pop"
    /\ \/ /\ queue # <<>>
          /\ Chain(p) \/ active = NoItem
          /\ held' = [held EXCEPT ![p] = Head(queue)]
          /\ queue' = Tail(queue)
          /\ Goto(p, "popRow")
          /\ UNCHANGED gate
       \/ /\ queue = <<>> \/ (~Chain(p) /\ active # NoItem)
          /\ Goto(p, "finished")
          /\ gate' = NoProc
          /\ UNCHANGED <<queue, held>>
    /\ UNCHANGED <<serverVars, inbox, content, rowVars, history, edit, turnVars, ghostVars>>

\* Mutant: the row of a popped item stays.
RowsAfterPopKept(i) == rows

\* Mutant: the first row goes, as if rows and queue had the same order.
RowsAfterPopFirst(i) == {r \in rows : \E q \in rows : Before(q, r)}
RowsAfterPop(i) == WithoutRow(i)

DrainRow(p) ==
    /\ pc[p] = "popRow"
    /\ rows' = RowsAfterPop(held[p])
    /\ Goto(p, "activate")
    /\ UNCHANGED <<serverVars, gate, memVars, nextRow, steerRows, history, held, edit, turnVars,
                   ghostVars>>

\* The popped item's turn is activated over whatever is active, registered
\* and spawned.
DrainActivate(p) ==
    /\ pc[p] = "activate"
    /\ active' = held[p]
    /\ turn' = [turn EXCEPT ![held[p]] = "running"]
    /\ starts' = [starts EXCEPT ![held[p]] = @ + 1]
    /\ held' = [held EXCEPT ![p] = NoItem]
    /\ gate' = NoProc
    /\ Goto(p, "finished")
    /\ UNCHANGED <<serverVars, memVars, rowVars, history, edit, sweep, consumed, removed>>

-----------------------------------------------------------------------------
(***************************************************************************)
(* The turn: it takes the inbox at every model request and degrades what   *)
(* is left in it to the turn queue when it ends.                           *)
(***************************************************************************)
TurnConsume(t) ==
    /\ turn[t] = "running"
    /\ inbox # <<>>
    /\ consumed' = consumed \cup {inbox[n] : n \in 1..Len(inbox)}
    /\ inbox' = <<>>
    /\ UNCHANGED <<serverVars, gate, queue, content, rowVars, history, procVars, turnVars,
                   starts, removed>>

\* end_turn moves the inbox; a failing turn does not get there.
TurnEnd(t) ==
    /\ turn[t] = "running"
    /\ turn' = [turn EXCEPT ![t] = "ended"]
    /\ \/ queue' = queue \o inbox /\ inbox' = <<>>
       \/ UNCHANGED <<queue, inbox>>
    /\ UNCHANGED <<serverVars, gate, content, rowVars, history, procVars, sweep, active,
                   ghostVars>>

\* Mutant: what is left in the inbox is dropped.
SweptAway == queue
Swept == queue \o inbox

\* clear_steer_input_queue: what is still in the inbox, ...
SweepInbox(t) ==
    /\ turn[t] = "ended"
    /\ turn' = [turn EXCEPT ![t] = "swept"]
    /\ queue' = Swept
    /\ inbox' = <<>>
    /\ UNCHANGED <<serverVars, gate, content, rowVars, history, procVars, sweep, active,
                   ghostVars>>

\* ... then the ids in the queue, ...
SweepIds(t) ==
    /\ turn[t] = "swept"
    /\ turn' = [turn EXCEPT ![t] = "listed"]
    /\ sweep' = [sweep EXCEPT ![t].ids = {i \in Item : InQueue(i)}]
    /\ UNCHANGED <<serverVars, gate, memVars, rowVars, history, procVars, active, ghostVars>>

\* ... then every steer row is deleted, ...
SweepRows(t) ==
    /\ turn[t] = "listed"
    /\ turn' = [turn EXCEPT ![t] = "drained"]
    /\ sweep' = [sweep EXCEPT ![t].drained = steerRows]
    /\ steerRows' = <<>>
    /\ UNCHANGED <<serverVars, gate, memVars, rows, nextRow, history, procVars, active,
                   ghostVars>>

\* ... and one after the other the rows whose item was listed are inserted
\* into the turn queue's rows.
SweepInsert(t) ==
    LET left == sweep[t].drained IN
    /\ turn[t] = "drained"
    /\ left # <<>>
    /\ sweep' = [sweep EXCEPT ![t].drained = Tail(left)]
    /\ \/ Head(left) \in sweep[t].ids /\ Insert(Head(left), NoItem)
       \/ /\ Head(left) \notin sweep[t].ids \/ InsertFails
          /\ UNCHANGED <<rows, nextRow>>
    /\ UNCHANGED <<serverVars, gate, memVars, steerRows, history, procVars, turn, active,
                   ghostVars>>

\* The terminal status of the turn is recorded.
TurnRecord(t) ==
    /\ turn[t] = "drained"
    /\ sweep[t].drained = <<>>
    /\ turn' = [turn EXCEPT ![t] = "recorded"]
    /\ sweep' = [sweep EXCEPT ![t] = NoSweep]
    /\ UNCHANGED <<serverVars, gate, memVars, rowVars, history, procVars, active, ghostVars>>

\* MergeTurn clears active_turn, whatever it is; the post-turn chain follows.
TurnMerge(t) ==
    /\ turn[t] = "recorded"
    /\ turn' = [turn EXCEPT ![t] = "done"]
    /\ active' = NoItem
    /\ Goto(Post(t), "gate")
    /\ UNCHANGED <<serverVars, gate, memVars, rowVars, history, held, edit, sweep, ghostVars>>

-----------------------------------------------------------------------------
(***************************************************************************)
(* A restart of the server.  The rows and the history are durable.         *)
(***************************************************************************)
Answered == {"new", "queued", "started", "injected", "done", "rejected", "panicked", "dropped"}

Crash ==
    /\ crashes < MaxCrashes
    /\ crashes' = crashes + 1
    /\ server' = "down"
    /\ active' = NoItem /\ gate' = NoProc
    /\ queue' = <<>> /\ inbox' = <<>> /\ content' = [i \in Item |-> NoItem]
    /\ pc' = [p \in Proc |-> IF p \in Requests
                             THEN IF pc[p] \in Answered THEN pc[p] ELSE "dropped"
                             ELSE "off"]
    /\ held' = [p \in Proc |-> NoItem]
    /\ edit' = [e \in Editors |-> NoEdit]
    /\ turn' = [t \in Item |-> IF turn[t] = "none" THEN "none" ELSE "done"]
    /\ sweep' = [t \in Item |-> NoSweep]
    /\ restoring' = <<>>
    /\ UNCHANGED <<rowVars, history, ghostVars>>

\* The turn rows are listed, not deleted.
RestoreQueue ==
    /\ server = "down"
    /\ server' = "steers"
    /\ \E s \in RowOrders : queue' = [n \in 1..Cardinality(rows) |-> s[n].item]
    /\ content' = [i \in Item |-> IF HasRow(i) THEN (CHOOSE r \in rows : r.item = i).content
                                  ELSE NoItem]
    /\ UNCHANGED <<crashes, restoring, gate, inbox, rowVars, history, procVars, turnVars,
                   ghostVars>>

\* The steer rows are deleted, ...
RestoreSteers ==
    /\ server = "steers"
    /\ server' = "requeue"
    /\ restoring' = steerRows
    /\ steerRows' = <<>>
    /\ UNCHANGED <<crashes, gate, memVars, rows, nextRow, history, procVars, turnVars, ghostVars>>

\* ... and those whose history item was not written are queued, in memory
\* first.
RestoreRequeue ==
    LET s == Head(restoring) IN
    /\ server = "requeue"
    /\ restoring # <<>>
    /\ restoring' = Tail(restoring)
    /\ \/ /\ s \in history
          /\ UNCHANGED <<queue, rows, nextRow>>
       \/ /\ s \notin history
          /\ queue' = Append(queue, s)
          /\ Insert(s, NoItem) \/ (InsertFails /\ UNCHANGED <<rows, nextRow>>)
    /\ UNCHANGED <<server, crashes, gate, inbox, content, steerRows, history, procVars,
                   turnVars, ghostVars>>

\* Mutant: the restored session is not drained.
BootOff == pc
BootOn == [pc EXCEPT ![Boot] = "check"]

\* resume_pending_queue_if_idle
Restored ==
    /\ server = "requeue"
    /\ restoring = <<>>
    /\ server' = "up"
    /\ pc' = BootOn
    /\ UNCHANGED <<crashes, restoring, gate, memVars, rowVars, history, held, edit, turnVars,
                   ghostVars>>

-----------------------------------------------------------------------------
PushStep(i) == Push(i) \/ PushAdmit(i) \/ PushRow(i) \/ PushMemory(i)

SteerStep(s) ==
    \/ \E t \in Item : Steer(s, t)
    \/ SteerMismatch(s) \/ SteerRow(s) \/ SteerInbox(s) \/ SteerMaterialize(s)
    \/ DegradeRow(s) \/ DegradeMemory(s)

RemoveStep(r) == (\E i \in Item : RemoveItem(r, i)) \/ RemoveRow(r)

EditStep(e) ==
    \/ \E i \in Item, p \in 0..Cardinality(Item) : Edit(e, i, p)
    \/ \E i \in Item : EditMissing(e, i)
    \/ EditSnapshot(e) \/ EditContent(e) \/ EditPositions(e)

DrainStep(p) ==
    DrainCheck(p) \/ DrainGate(p) \/ DrainPop(p) \/ DrainRow(p) \/ DrainActivate(p)

TurnStep(t) ==
    \/ TurnConsume(t) \/ TurnEnd(t) \/ SweepInbox(t) \/ SweepIds(t) \/ SweepRows(t)
    \/ SweepInsert(t) \/ TurnRecord(t) \/ TurnMerge(t)

RestoreStep == RestoreQueue \/ RestoreSteers \/ RestoreRequeue \/ Restored

\* Nothing is under way.
Rest ==
    /\ server = "up"
    /\ \A k \in Client : pc[Req(k)] \in Answered
    /\ \A p \in Drainers : pc[p] \in {"off", "finished"}
    /\ \A t \in Item : turn[t] \in {"none", "done"}
    /\ UNCHANGED vars

Next ==
    \/ server = "up" /\ \/ \E i \in Pushers : PushStep(i)
                        \/ \E s \in Steerers : SteerStep(s)
                        \/ \E r \in Removers : RemoveStep(r)
                        \/ \E e \in Editors : EditStep(e)
                        \/ \E p \in Drainers : DrainStep(p)
                        \/ \E t \in Item : TurnStep(t)
    \/ Crash
    \/ RestoreStep
    \/ Rest

Spec == Init /\ [][Next]_vars

(***************************************************************************)
(* Requests are not obliged to come, a turn need not look at its inbox     *)
(* again before it ends, and no crash has to happen.  Everything else that *)
(* a task of the runtime can do, it does; the gate is a fair mutex.        *)
(***************************************************************************)
Up(A) == server = "up" /\ A

Fairness ==
    /\ \A i \in Pushers : /\ WF_vars(Up(PushRow(i) \/ PushMemory(i)))
                          /\ SF_vars(Up(PushAdmit(i)))
    /\ \A s \in Steerers : WF_vars(Up(\/ SteerMismatch(s) \/ SteerRow(s) \/ SteerInbox(s)
                                      \/ SteerMaterialize(s) \/ DegradeRow(s)
                                      \/ DegradeMemory(s)))
    /\ \A r \in Removers : WF_vars(Up(RemoveRow(r)))
    /\ \A e \in Editors : WF_vars(Up(EditSnapshot(e) \/ EditContent(e) \/ EditPositions(e)))
    /\ \A p \in Drainers : /\ WF_vars(Up(DrainCheck(p) \/ DrainPop(p) \/ DrainRow(p)
                                         \/ DrainActivate(p)))
                           /\ SF_vars(Up(DrainGate(p)))
    /\ \A t \in Item : WF_vars(Up(\/ TurnEnd(t) \/ SweepInbox(t) \/ SweepIds(t)
                                  \/ SweepRows(t) \/ SweepInsert(t) \/ TurnRecord(t)
                                  \/ TurnMerge(t)))
    /\ WF_vars(RestoreStep)

FairSpec == Spec /\ Fairness

-----------------------------------------------------------------------------
(***************************************************************************)
(* Safety.                                                                 *)
(***************************************************************************)
\* Where an item is while the server runs.
Places(i) ==
    {<<"queue", n>> : n \in {m \in 1..Len(queue) : queue[m] = i}}
    \cup {<<"inbox", n>> : n \in {m \in 1..Len(inbox) : inbox[m] = i}}
    \cup {p \in Drainers : held[p] = i}
    \cup {p \in {Req(r) : r \in Removers} : held[p] = i /\ pc[p] = "removeRow"}
    \cup {w \in {<<"consumed", i>>} : i \in consumed}
    \cup {w \in {<<"turn", i>>} : turn[i] # "none"}
    \cup {w \in {<<"removed", i>>} : i \in removed}

Accepted(i) == pc[Req(i)] \in {"queued", "materialize", "injected"}

\* An accepted input is in exactly one place, whichever of the drains, the
\* turn, its sweep and the removals races for it (handlers/queue.rs:452-454,
\* turn_exec/finalize.rs:305-328).
PlacedOnce == crashes = 0 => \A i \in Item : Accepted(i) => Cardinality(Places(i)) = 1

\* A pushed input between its row and its place in memory, or the reverse.
InFlight(i) ==
    \/ pc[Req(i)] = "memory"
    \/ \E p \in Drainers : held[p] = i /\ pc[p] = "popRow"
    \/ \E r \in Removers : held[Req(r)] = i /\ pc[Req(r)] = "removeRow"

\* The rows mirror the queue: every pushed input that waits has a row, so a
\* restart finds it, and no row outlives its input (lifecycle.rs:154-156,
\* handlers/turn.rs:488-489, handlers/queue.rs:420-431).
MirrorIsComplete ==
    server = "up" => \A i \in Pushers : /\ InQueue(i) /\ ~InsertFails => HasRow(i)
                                        /\ HasRow(i) => InQueue(i) \/ InFlight(i)

\* Across restarts a pushed input starts one turn at most, and none once its
\* removal was answered (lifecycle.rs:154-163, turn_exec/followup.rs:213-231).
HandledOnce ==
    \A i \in Pushers : /\ starts[i] <= 1
                       /\ i \in removed => starts[i] = 0 /\ ~InQueue(i) /\ ~HasRow(i)

(***************************************************************************)
(* Liveness: what has a row is drained or removed, though the server may   *)
(* restart in between (turn_exec/followup.rs:54-60, lifecycle.rs:154-163). *)
(***************************************************************************)
RowIsServed == \A i \in Pushers : HasRow(i) ~> ~HasRow(i)

\* What waits does not wait for ever: a push and a degraded steer have their
\* kick, a swept steer has the chain of the turn that ended
\* (handlers/queue.rs:798-807, turn_exec/mod.rs:159-162).
QueueDrains == \A i \in Item : InQueue(i) ~> ~InQueue(i)

=============================================================================
