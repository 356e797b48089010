--------------------------- MODULE EventDelivery ---------------------------
(***************************************************************************)
(* From a rollout line to the clients: a line is appended and synced, its  *)
(* event rows are inserted into the delivery log of each stream, the       *)
(* watermark of the file moves, and the event is fanned out to the         *)
(* connections that selected a stream of it.  After a restart a background *)
(* pass reads the rollout from the watermark and inserts what is missing,  *)
(* beside the appends of the new process.  A client subscribes with the    *)
(* cursor of its last subscription and is handed the rows after it.        *)
(*                                                                         *)
(* One rollout file.  Its line n has index n - 1 in the code, a row's seq  *)
(* is its position in log[s], and a notification is the line it is about.  *)
(***************************************************************************)
EXTENDS Naturals, Sequences

CONSTANTS
    Clients,     \* one connection each, at a time
    SubIds,      \* subscription ids
    Sessions,    \* streams session:<id>
    Roster,      \* the stream sessions:<cwd>, of created sessions
    LineKinds,   \* the streams a line may have events for
    MaxLines,    \* bound: lines of the rollout
    MaxCrashes,  \* bound: restarts of the server
    MaxMishaps   \* bound: database errors, fan-outs lost with their task, sheds

Streams == Sessions \cup {Roster}
Lines == 1..MaxLines
Nothing == [op |-> "none"]

ASSUME EventAssumption ==
    /\ Roster \notin Sessions
    /\ LineKinds \subseteq SUBSET Streams
    /\ MaxLines \in Nat /\ MaxCrashes \in Nat /\ MaxMishaps \in Nat

VARIABLES
    rollout,    \* the synced lines: the streams each has events for
    log,        \* table event_log: the lines of each stream, by seq
    mark,       \* table projection_watermark: lines projected
    writer,     \* holder of the file lock: "idle", "project", "mark"
    pass,       \* the reconcile pass: "start", "scan", "mark", "failed", "done"
    at,         \* the line it is at
    fanout,     \* lines whose writer has yet to fan them out
    conn,       \* connections: "closed", "open", "leaving"
    selectors,  \* ConnectionRuntime.event_selectors
    subs,       \* registry of subscriptions
    hold,       \* who holds the lock on connections across awaits, and its work
    frames,     \* notifications made for a connection and not yet enqueued
    answer,     \* the answer on its way to a client
    cursor,     \* a client: the cursors it kept
    got,        \* a client: the lines it was told of
    crashes,    \* restarts so far
    mishaps,    \* mishaps so far
    overrun,    \* history: an append moved the watermark past a missing row
    silent,     \* history: lines fanned out never, or before they have rows
    shed        \* history: notifications a slow connection did not get

fileVars == <<rollout, log, mark, writer, overrun>>
passVars == <<pass, at>>
connVars == <<conn, selectors, subs, frames, shed>>
clientVars == <<answer, cursor, got>>
vars == <<fileVars, passVars, connVars, clientVars,
          hold, fanout, silent, crashes, mishaps>>

Last == Len(rollout)
Rows(s) == {log[s][i] : i \in 1..Len(log[s])}
Logged(l) == \A s \in rollout[l] : l \in Rows(s)
Mishap == mishaps < MaxMishaps /\ mishaps' = mishaps + 1

Init ==
    /\ rollout = <<>> /\ mark = 0 /\ log = [s \in Streams |-> <<>>]
    /\ writer = "idle" /\ pass = "start" /\ at = 1 /\ fanout = {}
    /\ conn = [c \in Clients |-> "closed"]
    /\ selectors = [c \in Clients |-> {}]
    /\ subs = [u \in SubIds |-> Nothing]
    /\ hold = Nothing
    /\ frames = [c \in Clients |-> {}] /\ shed = [c \in Clients |-> {}]
    /\ answer = [c \in Clients |-> Nothing]
    /\ cursor = [c \in Clients |-> [s \in Streams |-> 0]]
    /\ got = [c \in Clients |-> {}]
    /\ crashes = 0 /\ mishaps = 0 /\ overrun = FALSE /\ silent = {}

(***************************************************************************)
(* The delivery log.  The rows of a line are inserted in one hold of the   *)
(* database, each in its own transaction: an error or a crash may leave    *)
(* some of them.                                                           *)
(***************************************************************************)
\* Mutant: a row takes the place of its line.
InsertByLine(l, ss) ==
    log' = [s \in Streams |->
              IF s \in ss /\ l \notin Rows(s)
              THEN SelectSeq(log[s], LAMBDA n : n < l) \o <<l>>
                      \o SelectSeq(log[s], LAMBDA n : n > l)
              ELSE log[s]]

\* Its seq is the next of its stream; a row that is there is left alone.
Insert(l, ss) ==
    log' = [s \in Streams |-> IF s \in ss /\ l \notin Rows(s)
                              THEN Append(log[s], l) ELSE log[s]]

AppendLine(k) ==
    /\ writer = "idle" /\ Last < MaxLines
    /\ rollout' = Append(rollout, k)
    /\ writer' = "project"
    /\ UNCHANGED <<log, mark, overrun, passVars, connVars, clientVars,
                   hold, fanout, silent, crashes, mishaps>>

Project ==
    /\ writer = "project"
    /\ Insert(Last, rollout[Last])
    /\ writer' = "mark"
    /\ UNCHANGED <<rollout, mark, overrun, passVars, connVars, clientVars,
                   hold, fanout, silent, crashes, mishaps>>

\* The append returns to its caller, who goes on to fan the event out.
Return == /\ writer' = "idle"
          /\ fanout' = fanout \cup {l \in {Last} : rollout[l] # {}}

SetMark ==
    /\ writer = "mark"
    /\ mark' = Last
    /\ overrun' = (overrun \/ \E l \in 1..Last : ~Logged(l))
    /\ Return
    /\ UNCHANGED <<rollout, log, passVars, connVars, clientVars,
                   hold, silent, crashes, mishaps>>

\* A database error is logged, and the append succeeds.
ProjectFails ==
    /\ writer \in {"project", "mark"} /\ Mishap
    /\ IF writer = "project"
       THEN /\ \E ss \in SUBSET rollout[Last] : Insert(Last, ss)
            /\ silent' = silent \cup {Last}
       ELSE UNCHANGED <<log, silent>>
    /\ Return
    /\ UNCHANGED <<rollout, mark, overrun, passVars, connVars, clientVars, hold, crashes>>

(***************************************************************************)
(* The pass over the rollout after a start of the server.                  *)
(***************************************************************************)
\* Mutant: the first line after the watermark is skipped.
SecondUnprojected == mark + 2

FirstUnprojected == mark + 1

ReadMark ==
    /\ pass = "start"
    /\ at' = FirstUnprojected
    /\ pass' = "scan"
    /\ UNCHANGED <<fileVars, connVars, clientVars,
                   hold, fanout, silent, crashes, mishaps>>

Backfill ==
    /\ pass = "scan" /\ at <= Last
    /\ Insert(at, rollout[at])
    /\ pass' = "mark"
    /\ UNCHANGED <<rollout, mark, writer, overrun, at, connVars, clientVars,
                   hold, fanout, silent, crashes, mishaps>>

MarkBackfilled ==
    /\ pass = "mark"
    /\ mark' = at
    /\ at' = at + 1
    /\ pass' = "scan"
    /\ UNCHANGED <<rollout, log, writer, overrun, connVars, clientVars,
                   hold, fanout, silent, crashes, mishaps>>

EndPass ==
    /\ pass = "scan" /\ at > Last
    /\ pass' = "done"
    /\ UNCHANGED <<fileVars, at, connVars, clientVars,
                   hold, fanout, silent, crashes, mishaps>>

\* A database error ends the pass: the watermark keeps what is left of it.
PassFails ==
    /\ pass \in {"scan", "mark"} /\ Mishap
    /\ \E ss \in SUBSET (IF pass = "scan" /\ at <= Last THEN rollout[at] ELSE {}) :
          Insert(at, ss)
    /\ pass' = "failed"
    /\ UNCHANGED <<rollout, mark, writer, overrun, at, connVars, clientVars,
                   hold, fanout, silent, crashes>>

(***************************************************************************)
(* Connections.  The lock on the connections is taken for one step by all  *)
(* but the subscription handlers, which hold it across their reads.        *)
(***************************************************************************)
Free == hold = Nothing

Connect(c) ==
    /\ conn[c] = "closed" /\ Free
    /\ conn' = [conn EXCEPT ![c] = "open"]
    /\ UNCHANGED <<fileVars, passVars, selectors, subs, frames, shed, clientVars,
                   hold, fanout, silent, crashes, mishaps>>

\* The connection leaves the table, and what was on its way goes with it ...
Unregister(c) ==
    /\ conn[c] = "open" /\ Free
    /\ conn' = [conn EXCEPT ![c] = "leaving"]
    /\ selectors' = [selectors EXCEPT ![c] = {}]
    /\ frames' = [frames EXCEPT ![c] = {}]
    /\ shed' = [shed EXCEPT ![c] = {}]
    /\ answer' = [answer EXCEPT ![c] = Nothing]
    /\ UNCHANGED <<fileVars, passVars, subs, cursor, got,
                   hold, fanout, silent, crashes, mishaps>>

\* ... and its subscriptions after it, without the lock.
DropSubs(c) ==
    /\ conn[c] = "leaving"
    /\ conn' = [conn EXCEPT ![c] = "closed"]
    /\ subs' = [u \in SubIds |-> IF subs[u] # Nothing /\ subs[u].owner = c
                                 THEN Nothing ELSE subs[u]]
    /\ UNCHANGED <<fileVars, passVars, selectors, frames, shed, clientVars,
                   hold, fanout, silent, crashes, mishaps>>

(***************************************************************************)
(* subscription/create, update and unsubscribe, of one selector each.      *)
(***************************************************************************)
Work(op, c, u, s) ==
    [op |-> op, client |-> c, sub |-> u, stream |-> s, barrier |-> Len(log[s]),
     step |-> "replay", rows |-> {}]

Calls(c) == conn[c] = "open" /\ answer[c] = Nothing /\ Free

\* The barrier of the stream is read under the lock.
Create(c, u, s) ==
    /\ Calls(c) /\ subs[u] = Nothing
    /\ hold' = Work("create", c, u, s)
    /\ UNCHANGED <<fileVars, passVars, connVars, clientVars,
                   fanout, silent, crashes, mishaps>>

Update(c, u, s) ==
    /\ Calls(c) /\ subs[u] # Nothing /\ subs[u].owner = c
    /\ hold' = Work("update", c, u, s)
    /\ UNCHANGED <<fileVars, passVars, connVars, clientVars,
                   fanout, silent, crashes, mishaps>>

\* The rows after the client's cursor; an update replays from the start.
After == IF hold.op = "create" THEN cursor[hold.client][hold.stream] ELSE 0

ReadRows ==
    /\ ~Free /\ hold.step = "replay"
    /\ LET s == hold.stream
       IN  hold' = [hold EXCEPT !.step = "register",
                                !.rows = {log[s][i] : i \in After + 1..Len(log[s])}]
    /\ UNCHANGED <<fileVars, passVars, connVars, clientVars,
                   fanout, silent, crashes, mishaps>>

ReadFails ==
    /\ ~Free /\ hold.step = "replay" /\ Mishap
    /\ hold' = Nothing
    /\ UNCHANGED <<fileVars, passVars, connVars, clientVars,
                   fanout, silent, crashes>>

\* The selectors of all subscriptions of c in the registry.
Union(registry, c) ==
    {registry[u].stream : u \in {v \in SubIds : /\ registry[v] # Nothing
                                                /\ registry[v].owner = c}}

\* Mutant: the selectors are cached before the registry changes.
CachedBefore(c) == Union(subs, c)

Cached(c) == Union(subs', c)

Register ==
    /\ ~Free /\ hold.step = "register"
    /\ LET c == hold.client
       IN  /\ subs' = [subs EXCEPT ![hold.sub] =
                         [op |-> "live", owner |-> c, stream |-> hold.stream,
                          from |-> hold.barrier]]
           /\ selectors' = [selectors EXCEPT ![c] = Cached(c)]
           /\ answer' = [answer EXCEPT ![c] =
                           [op |-> "answer", stream |-> hold.stream,
                            seq |-> hold.barrier, rows |-> hold.rows]]
    /\ hold' = Nothing
    /\ UNCHANGED <<fileVars, passVars, conn, frames, shed, cursor, got,
                   fanout, silent, crashes, mishaps>>

\* Whoever names it, the subscription is gone; a call for another client's is
\* refused after that, and leaves the owner its selectors.
Unsubscribe(c, u) ==
    /\ Calls(c) /\ subs[u] # Nothing
    /\ subs' = [subs EXCEPT ![u] = Nothing]
    /\ selectors' = IF subs[u].owner = c THEN [selectors EXCEPT ![c] = Cached(c)]
                    ELSE selectors
    /\ UNCHANGED <<fileVars, passVars, conn, frames, shed, clientVars,
                   hold, fanout, silent, crashes, mishaps>>

\* The client applies the replay and keeps the cursors of this answer only.
Receive(c) ==
    /\ answer[c] # Nothing
    /\ got' = [got EXCEPT ![c] = @ \cup answer[c].rows]
    /\ cursor' = [cursor EXCEPT ![c] =
                    [s \in Streams |-> IF s = answer[c].stream
                                       THEN answer[c].seq ELSE 0]]
    /\ answer' = [answer EXCEPT ![c] = Nothing]
    /\ UNCHANGED <<fileVars, passVars, connVars,
                   hold, fanout, silent, crashes, mishaps>>

(***************************************************************************)
(* Live delivery.  Whether a created session is matched to the roster      *)
(* depends on a counter that is read before the lock and may be out of     *)
(* date (seen).                                                            *)
(***************************************************************************)
Matches(c, l, seen) ==
    \E s \in selectors[c] \cap rollout[l] : s = Roster => seen

Broadcast(l, seen) ==
    /\ l \in fanout /\ Free
    /\ fanout' = fanout \ {l}
    /\ frames' = [c \in Clients |-> IF conn[c] = "open" /\ Matches(c, l, seen)
                                    THEN frames[c] \cup {l} ELSE frames[c]]
    /\ UNCHANGED <<fileVars, passVars, conn, selectors, subs, shed, clientVars,
                   hold, silent, crashes, mishaps>>

\* The task that appended the line is aborted before it fans it out.
Abort(l) ==
    /\ l \in fanout /\ Mishap
    /\ fanout' = fanout \ {l}
    /\ silent' = silent \cup {l}
    /\ UNCHANGED <<fileVars, passVars, connVars, clientVars, hold, crashes>>

Deliver(c, l) ==
    /\ l \in frames[c]
    /\ frames' = [frames EXCEPT ![c] = @ \ {l}]
    /\ got' = [got EXCEPT ![c] = @ \cup {l}]
    /\ UNCHANGED <<fileVars, passVars, conn, selectors, subs, shed, answer, cursor,
                   hold, fanout, silent, crashes, mishaps>>

\* The outbound queue stays full for two seconds.
Shed(c, l) ==
    /\ l \in frames[c] /\ Mishap
    /\ frames' = [frames EXCEPT ![c] = @ \ {l}]
    /\ shed' = [shed EXCEPT ![c] = @ \cup {l}]
    /\ UNCHANGED <<fileVars, passVars, conn, selectors, subs, clientVars,
                   hold, fanout, silent, crashes>>

\* The server stops, maybe with some rows of a line inserted, and starts
\* again; a torn last line is dropped before the next append.
Crash ==
    /\ crashes < MaxCrashes /\ crashes' = crashes + 1
    /\ \/ writer = "project" /\ \E ss \in SUBSET rollout[Last] : Insert(Last, ss)
       \/ pass = "scan" /\ at <= Last /\ \E ss \in SUBSET rollout[at] : Insert(at, ss)
       \/ UNCHANGED log
    /\ writer' = "idle" /\ pass' = "start" /\ at' = 1
    /\ fanout' = {} /\ silent' = 1..Last
    /\ conn' = [c \in Clients |-> "closed"]
    /\ selectors' = [c \in Clients |-> {}]
    /\ subs' = [u \in SubIds |-> Nothing]
    /\ hold' = Nothing
    /\ frames' = [c \in Clients |-> {}] /\ shed' = [c \in Clients |-> {}]
    /\ answer' = [c \in Clients |-> Nothing]
    /\ UNCHANGED <<rollout, mark, overrun, cursor, got, mishaps>>

Next ==
    \/ \E k \in LineKinds : AppendLine(k)
    \/ Project \/ SetMark \/ ProjectFails
    \/ ReadMark \/ Backfill \/ MarkBackfilled \/ EndPass \/ PassFails
    \/ ReadRows \/ ReadFails \/ Register
    \/ Crash
    \/ \E c \in Clients :
          \/ Connect(c) \/ Unregister(c) \/ DropSubs(c) \/ Receive(c)
          \/ \E u \in SubIds : \/ Unsubscribe(c, u)
                               \/ \E s \in Streams : Create(c, u, s) \/ Update(c, u, s)
          \/ \E l \in Lines : Deliver(c, l) \/ Shed(c, l)
    \/ \E l \in Lines : Abort(l) \/ \E seen \in BOOLEAN : Broadcast(l, seen)

Spec == Init /\ [][Next]_vars

(***************************************************************************)
(* Properties.                                                             *)
(***************************************************************************)
TypeOK ==
    /\ rollout \in Seq(LineKinds) /\ Last <= MaxLines
    /\ log \in [Streams -> Seq(Lines)]
    /\ mark \in 0..MaxLines /\ at \in 1..MaxLines + 1
    /\ writer \in {"idle", "project", "mark"}
    /\ pass \in {"start", "scan", "mark", "failed", "done"}
    /\ fanout \subseteq Lines /\ silent \subseteq Lines
    /\ conn \in [Clients -> {"closed", "open", "leaving"}]
    /\ selectors \in [Clients -> SUBSET Streams]
    /\ subs \in [SubIds -> {Nothing} \cup
                    [op : {"live"}, owner : Clients, stream : Streams, from : Nat]]
    /\ hold \in {Nothing} \cup
          [op : {"create", "update"}, client : Clients, sub : SubIds, stream : Streams,
           barrier : Nat, step : {"replay", "register"}, rows : SUBSET Lines]
    /\ frames \in [Clients -> SUBSET Lines] /\ shed \in [Clients -> SUBSET Lines]
    /\ answer \in [Clients -> {Nothing} \cup
                      [op : {"answer"}, stream : Streams, seq : Nat, rows : SUBSET Lines]]
    /\ cursor \in [Clients -> [Streams -> Nat]]
    /\ got \in [Clients -> SUBSET Lines]
    /\ crashes \in 0..MaxCrashes /\ mishaps \in 0..MaxMishaps
    /\ overrun \in BOOLEAN

\* What a cursor stands for was handed over: no row is ever inserted behind a
\* cursor, though rows are inserted out of order by appends and a pass, and
\* answers and connections are lost (db.rs:540-550, subscription.rs:437-479).
CursorIsCovered ==
    \A c \in Clients, s \in Streams :
       /\ cursor[c][s] <= Len(log[s])
       /\ \A i \in 1..cursor[c][s] : log[s][i] \in got[c]

\* Whose fan-out is still to come.
Unsent(l) == l \in fanout \/ (writer # "idle" /\ l = Last)

\* A subscription misses nothing between its barrier and its first live
\* event: every later row of its session was delivered, is on its way, was
\* shed, or belongs to a line that nobody fans out (subscription.rs:4-9, 122-204).
LiveLeavesNoGap ==
    \A u \in SubIds :
       LET c == subs[u].owner
           s == subs[u].stream
       IN  subs[u] # Nothing /\ conn[c] = "open" /\ s \in Sessions =>
              \A i \in subs[u].from + 1..Len(log[s]) :
                 \/ log[s][i] \in got[c] \cup frames[c] \cup shed[c] \cup silent
                 \/ Unsent(log[s][i])

\* A line that lacks a row is beyond the watermark, so that the next start
\* finds it: crashes, database errors and a pass beside appends lose nothing,
\* save when an append moves the watermark past a missing row of an earlier
\* line (persistence.rs:1226-1238, event_reconcile.rs:3-14).
MissingIsStillDue ==
    overrun \/ \A l \in 1..Last : Logged(l) \/ l > mark
=============================================================================
