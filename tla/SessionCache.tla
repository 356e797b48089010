---------------------------- MODULE SessionCache ----------------------------
(***************************************************************************)
(* Which sessions are in memory, in which Devo process, and who may write  *)
(* their rollouts: loading a session on demand, the LRU of loaded roots    *)
(* and its eviction, the cross-process lock of a rollout, settings updates *)
(* of loaded and of cold sessions, and turns started without a subscriber  *)
(* (crates/server/src/runtime/session_cache.rs, session_file_lock.rs,      *)
(* session_actor/registry.rs, handlers/session.rs, handlers/turn.rs).      *)
(*                                                                         *)
(* Every await is a place where other tasks run, so each lock section and  *)
(* each actor command is a step.  A session is loaded by a task at most    *)
(* once, so an actor is named after the task that hydrated it.             *)
(*                                                                         *)
(* get_or_load_parent_session takes two gates per session, the metadata    *)
(* gate and inside it the load gate.  Nothing else takes the load gate, so *)
(* it is never contended and gate is the metadata gate.                    *)
(***************************************************************************)
EXTENDS Integers, Sequences, FiniteSets, SequencesExt

CONSTANTS
    Devos,      \* processes that share the rollout directory
    Sessions,   \* root sessions, all of them in the index
    Loaders,    \* requests that load a session: session/resume, schedules
    Editors,    \* session/metadata/update requests
    Home,       \* the process of each request
    Capacity,   \* PARENT_SESSION_LRU_CAPACITY
    Mortal,     \* processes that may die
    OpenFails,  \* whether the lock file may fail to open
    NoTask, NoSession

Task == Loaders \cup Editors

ASSUME TaskAssumption ==
    /\ Loaders \cap Editors = {}
    /\ Home \in [Task -> Devos]
    /\ Capacity \in Nat \ {0}
    /\ Mortal \subseteq Devos
    /\ OpenFails \in BOOLEAN
    /\ NoTask \notin Task /\ NoSession \notin Sessions

Actor == Loaders \cup {NoTask}

VARIABLES
    alive,      \* processes that run
    sessions,   \* ServerRuntime::sessions
    lru,        \* ParentSessionLru::order, the most recent first
    gate,       \* session_metadata_write_gate: who holds the session's permit
    registry,   \* sessions with an ActiveTurnRegistry entry
    subscribed, \* sessions a connection is subscribed to
    actor,      \* the life of the actor each loader spawned
    lock,       \* the SessionFileLock of a loader, and then of its actor
    memory,     \* the settings version each actor has
    rollout,    \* the settings version of each rollout
    pc, want,   \* where each task is, and its session
    handle,     \* the actor a task has a handle of
    seen,       \* the settings version a task read
    victims     \* the eviction candidates a loader has not looked at

cacheVars == <<sessions, lru, registry, subscribed>>
actorVars == <<actor, lock, memory>>
taskVars == <<pc, want, handle, seen, victims>>
vars == <<alive, sessions, lru, gate, registry, subscribed, actor, lock, memory, rollout,
          pc, want, handle, seen, victims>>

LoadPcs == {"new", "askLoaded", "touchLoaded", "gate", "recheck", "lock", "hydrate", "insert",
            "touch", "evict", "pinnedByTurn", "pinnedByClient", "remove", "clearTurn",
            "sendShutdown", "shutdown", "forget", "release", "loaded", "subscribe", "refused"}
TurnPcs == {"admit", "register", "checkout", "running", "merged"}
EditPcs == {"editGate", "read", "write", "notify", "applied", "conflict"}

TypeOK ==
    /\ alive \subseteq Devos
    /\ sessions \in [Devos -> [Sessions -> Actor]]
    /\ lru \in [Devos -> Seq(Sessions)]
    /\ \A d \in Devos : IsInjective(lru[d])
    /\ gate \in [Devos -> [Sessions -> Task \cup {NoTask}]]
    /\ registry \subseteq Devos \X Sessions
    /\ subscribed \subseteq Devos \X Sessions
    /\ actor \in [Loaders -> {"none", "live", "stopping", "stopped"}]
    /\ lock \in [Loaders -> {"none", "flock", "sentinel"}]
    /\ memory \in [Loaders -> Nat]
    /\ rollout \in [Sessions -> Nat]
    /\ pc \in [Task -> LoadPcs \cup TurnPcs \cup EditPcs \cup {"done", "dead"}]
    /\ want \in [Task -> Sessions \cup {NoSession}]
    /\ handle \in [Task -> Actor]
    /\ seen \in [Task -> Nat]
    /\ victims \in [Loaders -> Seq(Sessions)]

Init ==
    /\ alive = Devos
    /\ sessions = [d \in Devos |-> [s \in Sessions |-> NoTask]]
    /\ lru = [d \in Devos |-> <<>>]
    /\ gate = [d \in Devos |-> [s \in Sessions |-> NoTask]]
    /\ registry = {} /\ subscribed = {}
    /\ actor = [l \in Loaders |-> "none"]
    /\ lock = [l \in Loaders |-> "none"]
    /\ memory = [l \in Loaders |-> 0]
    /\ rollout = [s \in Sessions |-> 1]
    /\ pc = [k \in Task |-> "new"]
    /\ want = [k \in Task |-> NoSession]
    /\ handle = [k \in Task |-> NoTask]
    /\ seen = [k \in Task |-> 0]
    /\ victims = [l \in Loaders |-> <<>>]

Goto(k, l) == pc' = [pc EXCEPT ![k] = l]
Here(k) == <<Home[k], want[k]>>
MapEntry(k) == sessions[Home[k]][want[k]]
GateFree(k) == gate[Home[k]][want[k]] = NoTask
TakeGate(k) == gate' = [gate EXCEPT ![Home[k]][want[k]] = k]
DropGate(k) == gate' = [gate EXCEPT ![Home[k]][want[k]] = NoTask]

\* Mutant: the session is pushed to the front and not taken from its old place.
TouchedTwice(q, s) == <<s>> \o q
\* ParentSessionLru::touch and remove.  A session is in the order once at most,
\* so that what retain drops is one place.
Untracked(q, s) ==
    IF \E n \in 1..Len(q) : q[n] = s
    THEN RemoveAt(q, CHOOSE n \in 1..Len(q) : q[n] = s)
    ELSE q
Touched(q, s) == <<s>> \o Untracked(q, s)

-----------------------------------------------------------------------------
(***************************************************************************)
(* get_or_load_parent_session.                                             *)
(***************************************************************************)
Lookup(l, s) ==
    /\ pc[l] = "new"
    /\ want' = [want EXCEPT ![l] = s]
    /\ handle' = [handle EXCEPT ![l] = sessions[Home[l]][s]]
    /\ Goto(l, IF sessions[Home[l]][s] = NoTask THEN "gate" ELSE "askLoaded")
    /\ UNCHANGED <<alive, cacheVars, gate, actorVars, rollout, seen, victims>>

AcquireGate(l) ==
    /\ pc[l] = "gate"
    /\ GateFree(l)
    /\ TakeGate(l)
    /\ Goto(l, "recheck")
    /\ UNCHANGED <<alive, cacheVars, actorVars, rollout, want, handle, seen, victims>>

\* Mutant: the map is not read again under the gate.
RecheckUnread(l) == NoTask
Rechecked(l) == MapEntry(l)

Recheck(l) ==
    /\ pc[l] = "recheck"
    /\ handle' = [handle EXCEPT ![l] = Rechecked(l)]
    /\ Goto(l, IF Rechecked(l) = NoTask THEN "lock" ELSE "askLoaded")
    /\ UNCHANGED <<alive, cacheVars, gate, actorVars, rollout, want, seen, victims>>

PermitDropped(l) ==
    IF gate[Home[l]][want[l]] = l THEN [gate EXCEPT ![Home[l]][want[l]] = NoTask] ELSE gate

\* A loaded session becomes the most recent one, if its actor answers.
AskLoaded(l) ==
    /\ pc[l] = "askLoaded"
    /\ IF actor[handle[l]] = "live"
       THEN Goto(l, "touchLoaded") /\ UNCHANGED gate
       ELSE Goto(l, "loaded") /\ gate' = PermitDropped(l)
    /\ UNCHANGED <<alive, cacheVars, actorVars, rollout, want, handle, seen, victims>>

TouchLoaded(l) ==
    /\ pc[l] = "touchLoaded"
    /\ lru' = [lru EXCEPT ![Home[l]] = Touched(@, want[l])]
    /\ gate' = PermitDropped(l)
    /\ Goto(l, "loaded")
    /\ UNCHANGED <<alive, sessions, registry, subscribed, actorVars, rollout, want, handle,
                   seen, victims>>

(***************************************************************************)
(* SessionFileLock: an flock shared by its owners inside one process.  An  *)
(* owner is a load under way or an actor that has not ended.  Where the    *)
(* lock file cannot be opened, the load goes on with a sentinel, which     *)
(* keeps nobody out.                                                       *)
(***************************************************************************)
OwnsLock(d, s) == \E l \in Loaders : lock[l] = "flock" /\ Home[l] = d /\ want[l] = s
LockedElsewhere(l) == \E d \in Devos \ {Home[l]} : OwnsLock(d, want[l])

\* Mutant: the lock attempt is not looked at.
MayOwnUnchecked(l) == TRUE
MayOwn(l) == ~LockedElsewhere(l)

Lock(l) ==
    /\ pc[l] = "lock"
    /\ \/ /\ MayOwn(l)
          /\ lock' = [lock EXCEPT ![l] = "flock"]
          /\ Goto(l, "hydrate")
          /\ UNCHANGED gate
       \/ /\ ~MayOwn(l)
          /\ Goto(l, "refused")
          /\ DropGate(l)
          /\ UNCHANGED lock
       \/ /\ OpenFails /\ ~OwnsLock(Home[l], want[l])
          /\ lock' = [lock EXCEPT ![l] = "sentinel"]
          /\ Goto(l, "hydrate")
          /\ UNCHANGED gate
    /\ UNCHANGED <<alive, cacheVars, actor, memory, rollout, want, handle, seen, victims>>

\* The rollout is replayed.
Hydrate(l) ==
    /\ pc[l] = "hydrate"
    /\ seen' = [seen EXCEPT ![l] = rollout[want[l]]]
    /\ Goto(l, "insert")
    /\ UNCHANGED <<alive, cacheVars, gate, actorVars, rollout, want, handle, victims>>

\* insert_session_actor keeps an actor that is there already; the state just
\* built, and the lock in it, are dropped then.
Insert(l) ==
    LET found == MapEntry(l) IN
    /\ pc[l] = "insert"
    /\ handle' = [handle EXCEPT ![l] = IF found # NoTask THEN found ELSE l]
    /\ sessions' = IF found # NoTask THEN sessions
                   ELSE [sessions EXCEPT ![Home[l]][want[l]] = l]
    /\ actor' = IF found # NoTask THEN actor ELSE [actor EXCEPT ![l] = "live"]
    /\ lock' = IF found # NoTask THEN [lock EXCEPT ![l] = "none"] ELSE lock
    /\ memory' = IF found # NoTask THEN memory ELSE [memory EXCEPT ![l] = seen[l]]
    /\ Goto(l, "touch")
    /\ UNCHANGED <<alive, lru, gate, registry, subscribed, rollout, want, seen, victims>>

Touch(l) ==
    /\ pc[l] = "touch"
    /\ lru' = [lru EXCEPT ![Home[l]] = Touched(@, want[l])]
    /\ Goto(l, "evict")
    /\ UNCHANGED <<alive, sessions, gate, registry, subscribed, actorVars, rollout, want,
                   handle, seen, victims>>

-----------------------------------------------------------------------------
(***************************************************************************)
(* evict_parent_sessions_if_needed: the least recent session that nothing  *)
(* pins is evicted.  The pins are read one after the other, and nothing    *)
(* holds them still until the victim is gone.                              *)
(***************************************************************************)
EvictList(l) ==
    LET order == lru[Home[l]] IN
    /\ pc[l] = "evict"
    /\ IF Len(order) <= Capacity
       THEN Goto(l, "release") /\ UNCHANGED victims
       ELSE /\ victims' = [victims EXCEPT ![l] = Untracked(Reverse(order), want[l])]
            /\ Goto(l, "pinnedByTurn")
    /\ UNCHANGED <<alive, cacheVars, gate, actorVars, rollout, want, handle, seen>>

Victim(l) == Head(victims[l])
NextVictim(l) == victims' = [victims EXCEPT ![l] = Tail(@)]

PinnedByTurn(l) ==
    /\ pc[l] = "pinnedByTurn"
    /\ \/ /\ victims[l] = <<>>
          /\ Goto(l, "release")
          /\ UNCHANGED victims
       \/ /\ victims[l] # <<>>
          /\ <<Home[l], Victim(l)>> \in registry
          /\ NextVictim(l)
          /\ UNCHANGED pc
       \/ /\ victims[l] # <<>>
          /\ <<Home[l], Victim(l)>> \notin registry
          /\ Goto(l, "pinnedByClient")
          /\ UNCHANGED victims
    /\ UNCHANGED <<alive, cacheVars, gate, actorVars, rollout, want, handle, seen>>

ClientPins(l) == <<Home[l], Victim(l)>> \in subscribed

PinnedByClient(l) ==
    /\ pc[l] = "pinnedByClient"
    /\ IF ClientPins(l)
       THEN NextVictim(l) /\ Goto(l, "pinnedByTurn")
       ELSE Goto(l, "remove") /\ UNCHANGED victims
    /\ UNCHANGED <<alive, cacheVars, gate, actorVars, rollout, want, handle, seen>>

\* remove_session_actor: out of the map, ...
RemoveActor(l) ==
    LET v == Victim(l)  found == sessions[Home[l]][v] IN
    /\ pc[l] = "remove"
    /\ sessions' = [sessions EXCEPT ![Home[l]][v] = NoTask]
    /\ handle' = [handle EXCEPT ![l] = found]
    /\ Goto(l, IF found = NoTask THEN "forget" ELSE "clearTurn")
    /\ UNCHANGED <<alive, lru, gate, registry, subscribed, actorVars, rollout, want, seen,
                   victims>>

\* ... and whatever turn is registered for the session is forgotten.
ClearTurn(l) ==
    /\ pc[l] = "clearTurn"
    /\ registry' = registry \ {<<Home[l], Victim(l)>>}
    /\ Goto(l, "sendShutdown")
    /\ UNCHANGED <<alive, sessions, lru, gate, subscribed, actorVars, rollout, want, handle,
                   seen, victims>>

\* What is sent to the actor after Shutdown is never answered.
SendShutdown(l) ==
    /\ pc[l] = "sendShutdown"
    /\ actor' = [actor EXCEPT ![handle[l]] = "stopping"]
    /\ Goto(l, "shutdown")
    /\ UNCHANGED <<alive, cacheVars, gate, lock, memory, rollout, want, handle, seen, victims>>

\* The actor takes Shutdown from its mailbox, answers and drops its state, and
\* with it the lock.
ActorStops(a) ==
    /\ actor[a] = "stopping"
    /\ actor' = [actor EXCEPT ![a] = "stopped"]
    /\ lock' = [lock EXCEPT ![a] = "none"]
    /\ UNCHANGED <<alive, cacheVars, gate, memory, rollout, taskVars>>

AwaitShutdown(l) ==
    /\ pc[l] = "shutdown"
    /\ actor[handle[l]] = "stopped"
    /\ Goto(l, "forget")
    /\ UNCHANGED <<alive, cacheVars, gate, actorVars, rollout, want, handle, seen, victims>>

Forget(l) ==
    /\ pc[l] = "forget"
    /\ lru' = [lru EXCEPT ![Home[l]] = Untracked(@, Victim(l))]
    /\ handle' = [handle EXCEPT ![l] = l]
    /\ Goto(l, "release")
    /\ UNCHANGED <<alive, sessions, gate, registry, subscribed, actorVars, rollout, want, seen,
                   victims>>

\* The permits are dropped when the load returns.
Release(l) ==
    /\ pc[l] = "release"
    /\ DropGate(l)
    /\ victims' = [victims EXCEPT ![l] = <<>>]
    /\ Goto(l, "loaded")
    /\ UNCHANGED <<alive, cacheVars, actorVars, rollout, want, handle, seen>>

-----------------------------------------------------------------------------
(***************************************************************************)
(* What a load is for.  A client that resumes is subscribed and so pins    *)
(* the session; the wake loop of the schedules starts a turn, and nothing  *)
(* but the turn's registry entry pins its session.                         *)
(***************************************************************************)
ResumeSnapshot(l) ==
    /\ pc[l] = "loaded"
    /\ Goto(l, IF actor[handle[l]] = "live" THEN "subscribe" ELSE "refused")
    /\ UNCHANGED <<alive, cacheVars, gate, actorVars, rollout, want, handle, seen, victims>>

Subscribe(l) ==
    /\ pc[l] = "subscribe"
    /\ subscribed' = subscribed \cup {Here(l)}
    /\ Goto(l, "done")
    /\ UNCHANGED <<alive, sessions, lru, registry, gate, actorVars, rollout, want, handle, seen,
                   victims>>

\* The turn is started through the map; a session that is gone is retried
\* later.
StartTurn(l) ==
    /\ pc[l] = "loaded"
    /\ handle' = [handle EXCEPT ![l] = MapEntry(l)]
    /\ Goto(l, IF MapEntry(l) = NoTask THEN "refused" ELSE "admit")
    /\ UNCHANGED <<alive, cacheVars, gate, actorVars, rollout, want, seen, victims>>

\* The reservation snapshot and BeginActiveTurn (see SessionTurn).
AdmitTurn(l) ==
    /\ pc[l] = "admit"
    /\ Goto(l, IF actor[handle[l]] = "live" /\ Here(l) \notin registry THEN "register"
               ELSE "refused")
    /\ UNCHANGED <<alive, cacheVars, gate, actorVars, rollout, want, handle, seen, victims>>

RegisterTurn(l) ==
    /\ pc[l] = "register"
    /\ registry' = registry \cup {Here(l)}
    /\ Goto(l, "checkout")
    /\ UNCHANGED <<alive, sessions, lru, subscribed, gate, actorVars, rollout, want, handle, seen,
                   victims>>

\* The turn works on a copy of the actor's state, without its lock.  The task
\* of a turn whose actor is gone returns at once and clears nothing.
Checkout(l) ==
    /\ pc[l] = "checkout"
    /\ Goto(l, IF actor[handle[l]] = "live" THEN "running" ELSE "done")
    /\ UNCHANGED <<alive, cacheVars, gate, actorVars, rollout, want, handle, seen, victims>>

EndTurn(l) ==
    /\ pc[l] = "running"
    /\ Goto(l, "merged")
    /\ UNCHANGED <<alive, cacheVars, gate, actorVars, rollout, want, handle, seen, victims>>

ClearHandles(l) ==
    /\ pc[l] = "merged"
    /\ registry' = registry \ {Here(l)}
    /\ Goto(l, "done")
    /\ UNCHANGED <<alive, sessions, lru, subscribed, gate, actorVars, rollout, want, handle, seen,
                   victims>>

-----------------------------------------------------------------------------
(***************************************************************************)
(* session/metadata/update.  The handle is looked up before the gate is    *)
(* taken; a cold session is updated in its rollout only.  The client names *)
(* the version it expects, or 0 for any.                                   *)
(***************************************************************************)
EditLookup(e, s, expected) ==
    /\ pc[e] = "new"
    /\ want' = [want EXCEPT ![e] = s]
    /\ handle' = [handle EXCEPT ![e] = sessions[Home[e]][s]]
    /\ seen' = [seen EXCEPT ![e] = expected]
    /\ Goto(e, "editGate")
    /\ UNCHANGED <<alive, cacheVars, gate, actorVars, rollout, victims>>

\* Mutant: an update does not wait for the gate.
EditNeedNotWait(e) == TRUE
EditMayEnter(e) == GateFree(e)

AcquireEditGate(e) ==
    /\ pc[e] = "editGate"
    /\ EditMayEnter(e)
    /\ TakeGate(e)
    /\ Goto(e, "read")
    /\ UNCHANGED <<alive, cacheVars, actorVars, rollout, want, handle, seen, victims>>

EditRead(e) ==
    /\ pc[e] = "read"
    /\ IF seen[e] \in {0, rollout[want[e]]}
       THEN /\ seen' = [seen EXCEPT ![e] = rollout[want[e]]]
            /\ Goto(e, "write")
            /\ UNCHANGED gate
       ELSE /\ DropGate(e)
            /\ Goto(e, "conflict")
            /\ UNCHANGED seen
    /\ UNCHANGED <<alive, cacheVars, actorVars, rollout, want, handle, victims>>

EditWrite(e) ==
    /\ pc[e] = "write"
    /\ rollout' = [rollout EXCEPT ![want[e]] = @ + 1]
    /\ seen' = [seen EXCEPT ![e] = @ + 1]
    /\ Goto(e, "notify")
    /\ UNCHANGED <<alive, cacheVars, gate, actorVars, want, handle, victims>>

\* The actor that was found at the start, if any, is told.
EditNotify(e) ==
    /\ pc[e] = "notify"
    /\ memory' = [l \in Loaders |-> IF handle[e] = l /\ actor[l] = "live" THEN seen[e]
                                    ELSE memory[l]]
    /\ DropGate(e)
    /\ Goto(e, "applied")
    /\ UNCHANGED <<alive, cacheVars, actor, lock, rollout, want, handle, seen, victims>>

-----------------------------------------------------------------------------
\* A process dies; the operating system drops its flocks.
Die(d) ==
    /\ d \in alive \cap Mortal
    /\ alive' = alive \ {d}
    /\ sessions' = [sessions EXCEPT ![d] = [s \in Sessions |-> NoTask]]
    /\ lru' = [lru EXCEPT ![d] = <<>>]
    /\ gate' = [gate EXCEPT ![d] = [s \in Sessions |-> NoTask]]
    /\ registry' = {x \in registry : x[1] # d}
    /\ subscribed' = {x \in subscribed : x[1] # d}
    /\ actor' = [l \in Loaders |-> IF Home[l] = d THEN "none" ELSE actor[l]]
    /\ lock' = [l \in Loaders |-> IF Home[l] = d THEN "none" ELSE lock[l]]
    /\ pc' = [k \in Task |-> IF Home[k] = d THEN "dead" ELSE pc[k]]
    /\ UNCHANGED <<memory, rollout, want, handle, seen, victims>>

LoadStep(l) ==
    \/ AcquireGate(l) \/ Recheck(l) \/ AskLoaded(l) \/ TouchLoaded(l) \/ Lock(l) \/ Hydrate(l)
    \/ Insert(l) \/ Touch(l) \/ EvictList(l) \/ PinnedByTurn(l) \/ PinnedByClient(l)
    \/ RemoveActor(l) \/ ClearTurn(l) \/ SendShutdown(l) \/ AwaitShutdown(l) \/ Forget(l)
    \/ Release(l)

UseStep(l) ==
    \/ ResumeSnapshot(l) \/ Subscribe(l) \/ StartTurn(l) \/ AdmitTurn(l) \/ RegisterTurn(l)
    \/ Checkout(l) \/ EndTurn(l) \/ ClearHandles(l)

EditStep(e) == AcquireEditGate(e) \/ EditRead(e) \/ EditWrite(e) \/ EditNotify(e)

Final == {"new", "done", "refused", "applied", "conflict", "dead"}

Rest ==
    /\ \A k \in Task : pc[k] \in Final
    /\ \A l \in Loaders : actor[l] # "stopping"
    /\ UNCHANGED vars

Next ==
    \/ \E l \in Loaders, s \in Sessions : Lookup(l, s)
    \/ \E l \in Loaders : LoadStep(l) \/ UseStep(l) \/ ActorStops(l)
    \/ \E e \in Editors, s \in Sessions : \E v \in {0, rollout[s]} : EditLookup(e, s, v)
    \/ \E e \in Editors : EditStep(e)
    \/ \E d \in Devos : Die(d)
    \/ Rest

Spec == Init /\ [][Next]_vars

-----------------------------------------------------------------------------
\* A session is rebuilt by one task of a process at a time, and never while the
\* process has it loaded: no client talks to an actor that another one has
\* replaced (session_cache.rs:125-129, session_actor/registry.rs:26-36).
Rebuilds(l) == pc[l] \in {"lock", "hydrate", "insert"}

OneHydration ==
    \A l \in Loaders : Rebuilds(l) =>
        /\ MapEntry(l) = NoTask
        /\ \A m \in Loaders \ {l} : Rebuilds(m) => Here(m) # Here(l)

\* Two processes have an actor of the same session only if the lock file could
\* not be opened for one of them, whatever is loaded, evicted or killed in what
\* order (session_file_lock.rs:7-16, 61-72).
HasActor(l) == actor[l] \in {"live", "stopping"}

ExclusiveOwner ==
    \A l, m \in Loaders : HasActor(l) /\ HasActor(m) /\ want[l] = want[m] =>
        Home[l] = Home[m] \/ "sentinel" \in {lock[l], lock[m]}

\* Between the replay of a rollout and the actor made from it, and between the
\* version check of an update and its write, no update of the same process
\* comes in: a resumed session has every field line written before, and two
\* updates that expect the same version are not both applied
\* (session_cache.rs:118-123, handlers/session.rs:665-710).  An update in
\* another process is not held back: it takes no lock that this one knows.
GateFreezesSettings ==
    [][\A k \in Task : pc[k] \in {"insert", "write"} /\ rollout[want[k]] # rollout'[want[k]] =>
           \E e \in Editors : pc[e] = "write" /\ (e = k \/ Home[e] # Home[k])]_vars

=============================================================================
