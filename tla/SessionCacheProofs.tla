------------------------ MODULE SessionCacheProofs ------------------------
(***************************************************************************)
(* Proofs about the session cache, for any number of processes, sessions   *)
(* and requests, and any capacity.                                         *)
(***************************************************************************)
EXTENDS SessionCache, SequenceTheorems, TLAPS

\* Where a task has the metadata gate of its session.
GatePcs == {"recheck", "lock", "hydrate", "insert", "touch", "evict", "pinnedByTurn",
            "pinnedByClient", "remove", "clearTurn", "sendShutdown", "shutdown", "forget",
            "release", "read", "write", "notify"}

(***************************************************************************)
(* One hydration.  OneHydration is not inductive: that the map has no      *)
(* entry while a session is rebuilt rests on the gate, because only its    *)
(* holder inserts an actor.                                                *)
(***************************************************************************)
GateTypes ==
    /\ pc \in [Task -> LoadPcs \cup TurnPcs \cup EditPcs \cup {"done", "dead"}]
    /\ want \in [Task -> Sessions \cup {NoSession}]
    /\ gate \in [Devos -> [Sessions -> Task \cup {NoTask}]]
    /\ sessions \in [Devos -> [Sessions -> Actor]]

Wanted == \A k \in Task : pc[k] # "new" /\ pc[k] # "dead" => want[k] \in Sessions

GateHeld == \A k \in Task : pc[k] \in GatePcs => gate[Home[k]][want[k]] = k

MapEmpty == \A l \in Loaders : Rebuilds(l) => MapEntry(l) = NoTask

HydrationInv == GateTypes /\ Wanted /\ GateHeld /\ MapEmpty

LEMMA TaskFacts ==
    /\ Loaders \subseteq Task /\ Editors \subseteq Task
    /\ \A l \in Loaders : l \notin Editors
    /\ \A k \in Task : Home[k] \in Devos
    /\ NoTask \notin Task
BY TaskAssumption DEF Task

\* The gate makes the rebuilding task the only one of its process.
LEMMA HydrationIsUnique == HydrationInv => OneHydration
BY TaskFacts DEF HydrationInv, OneHydration, MapEmpty, GateHeld, Rebuilds, GatePcs, Here

LEMMA InitHydration == Init => HydrationInv
BY TaskFacts DEF Init, HydrationInv, GateTypes, Wanted, GateHeld, MapEmpty, Rebuilds, GatePcs,
   LoadPcs, Actor

\* A task that gives up its permit, and leaves the part of the code it guards,
\* keeps the invariant (session_cache.rs:118-127).
LEMMA GivesUpGate ==
    ASSUME HydrationInv, NEW k \in Task, UNCHANGED <<want, sessions>>,
           pc[k] # "new", pc[k] # "dead", gate[Home[k]][want[k]] = k,
           NEW p \in {"touchLoaded", "loaded", "refused", "conflict"},
           pc' = [pc EXCEPT ![k] = p],
           gate' = [gate EXCEPT ![Home[k]][want[k]] = NoTask]
    PROVE  HydrationInv'
<1> USE TaskFacts DEF HydrationInv
<1>1. GateTypes'
  BY DEF GateTypes, LoadPcs, EditPcs, Wanted
<1>2. Wanted'
  BY DEF GateTypes, Wanted
<1>3. GateHeld'
  BY DEF GateTypes, Wanted, GateHeld, GatePcs
<1>4. MapEmpty'
  BY DEF GateTypes, MapEmpty, Rebuilds, MapEntry
<1> QED BY <1>1, <1>2, <1>3, <1>4

\* So does a task that goes on without touching the gate or the map.
LEMMA KeepsGate ==
    ASSUME HydrationInv, NEW k \in Task, UNCHANGED <<want, sessions, gate>>,
           pc[k] # "new", pc[k] # "dead",
           NEW p \in LoadPcs \cup TurnPcs \cup EditPcs \cup {"done"},
           p \in GatePcs => pc[k] \in GatePcs,
           p \in {"lock", "hydrate", "insert"} => Rebuilds(k),
           pc' = [pc EXCEPT ![k] = p]
    PROVE  HydrationInv'
<1> USE TaskFacts DEF HydrationInv
<1>1. GateTypes'
  BY DEF GateTypes
<1>2. Wanted'
  BY DEF GateTypes, Wanted
<1>3. GateHeld'
  BY DEF GateTypes, GateHeld
<1>4. MapEmpty'
  BY DEF GateTypes, MapEmpty, Rebuilds, MapEntry
<1> QED BY <1>1, <1>2, <1>3, <1>4

\* A load keeps the gate's invariants (session_cache.rs:109-201).
LEMMA LoadStepHydration ==
    ASSUME HydrationInv, NEW l \in Loaders, LoadStep(l)
    PROVE  HydrationInv'
<1> USE TaskFacts DEF HydrationInv, GateTypes, Wanted, GateHeld, MapEmpty, Rebuilds, MapEntry,
        Goto, LoadPcs, GatePcs, cacheVars, actorVars
<1>1. CASE AcquireGate(l)
  BY <1>1 DEF AcquireGate, TakeGate, GateFree
<1>2. CASE Recheck(l)
  BY <1>2 DEF Recheck, Rechecked
<1>3. CASE AskLoaded(l) \/ TouchLoaded(l)
  <2>1. UNCHANGED <<want, sessions>> /\ pc[l] \in {"askLoaded", "touchLoaded"}
    BY <1>3 DEF AskLoaded, TouchLoaded
  <2>2. PICK p \in {"touchLoaded", "loaded"} : pc' = [pc EXCEPT ![l] = p]
    BY <1>3 DEF AskLoaded, TouchLoaded
  <2>3. \/ gate' = gate
        \/ /\ gate[Home[l]][want[l]] = l
           /\ gate' = [gate EXCEPT ![Home[l]][want[l]] = NoTask]
    BY <1>3 DEF AskLoaded, TouchLoaded, PermitDropped
  <2> HIDE DEF HydrationInv, GateTypes, Wanted, GateHeld, MapEmpty
  <2>4. CASE gate' = gate
    BY <2>1, <2>2, <2>4, KeepsGate
  <2> QED BY <2>1, <2>2, <2>3, <2>4, GivesUpGate
<1>4. CASE Lock(l)
  <2>1. pc[l] = "lock" /\ UNCHANGED <<want, sessions>> /\ gate[Home[l]][want[l]] = l
    BY <1>4 DEF Lock
  <2>2. \/ pc' = [pc EXCEPT ![l] = "hydrate"] /\ gate' = gate
        \/ /\ pc' = [pc EXCEPT ![l] = "refused"]
           /\ gate' = [gate EXCEPT ![Home[l]][want[l]] = NoTask]
    BY <1>4 DEF Lock, DropGate
  <2> HIDE DEF HydrationInv, GateTypes, Wanted, GateHeld, MapEmpty
  <2> QED BY <2>1, <2>2, KeepsGate, GivesUpGate
<1>5. CASE Hydrate(l)
  BY <1>5 DEF Hydrate
<1>6. CASE Insert(l)
  <2>1. want[l] \in Sessions /\ Home[l] \in Devos /\ gate[Home[l]][want[l]] = l
    BY <1>6 DEF Insert
  <2> QED BY <1>6, <2>1 DEF Insert, Actor
<1>7. CASE Touch(l) \/ EvictList(l) \/ PinnedByTurn(l) \/ PinnedByClient(l)
  BY <1>7 DEF Touch, EvictList, PinnedByTurn, PinnedByClient
<1>8. CASE RemoveActor(l)
  BY <1>8 DEF RemoveActor, Actor
<1>9. CASE ClearTurn(l) \/ SendShutdown(l) \/ AwaitShutdown(l) \/ Forget(l)
  BY <1>9 DEF ClearTurn, SendShutdown, AwaitShutdown, Forget
<1>10. CASE Release(l)
  BY <1>10 DEF Release, DropGate
<1> QED BY <1>1, <1>2, <1>3, <1>4, <1>5, <1>6, <1>7, <1>8, <1>9, <1>10 DEF LoadStep

\* What a load is for does not touch the gate or the map (handlers/turn.rs:230-303).
LEMMA UseStepHydration ==
    ASSUME HydrationInv, NEW l \in Loaders, UseStep(l)
    PROVE  HydrationInv'
<1>1. PICK pl \in {"subscribe", "refused", "done", "admit", "register", "checkout", "running",
                   "merged"} : pc' = [pc EXCEPT ![l] = pl]
  BY DEF UseStep, ResumeSnapshot, Subscribe, StartTurn, AdmitTurn, RegisterTurn, Checkout, EndTurn,
     ClearHandles, Goto
<1>2. UNCHANGED <<want, gate, sessions>> /\ pc[l] # "new" /\ pc[l] # "dead"
  BY DEF UseStep, ResumeSnapshot, Subscribe, StartTurn, AdmitTurn, RegisterTurn, Checkout, EndTurn,
     ClearHandles, cacheVars
<1> QED BY <1>1, <1>2, TaskFacts DEF HydrationInv, GateTypes, Wanted, GateHeld, MapEmpty, Rebuilds,
        MapEntry, LoadPcs, TurnPcs, GatePcs

\* A settings update keeps them (handlers/session.rs:569-1034).
LEMMA EditStepHydration ==
    ASSUME HydrationInv, NEW e \in Editors, EditStep(e)
    PROVE  HydrationInv'
<1> USE TaskFacts DEF HydrationInv, GateTypes, Wanted, GateHeld, MapEmpty, Rebuilds, MapEntry,
        Goto, EditPcs, GatePcs, cacheVars, actorVars
<1>1. CASE AcquireEditGate(e)
  BY <1>1 DEF AcquireEditGate, EditMayEnter, GateFree, TakeGate
<1>2. CASE EditRead(e)
  <2>1. pc[e] = "read" /\ UNCHANGED <<want, sessions>> /\ gate[Home[e]][want[e]] = e
    BY <1>2 DEF EditRead
  <2>2. \/ pc' = [pc EXCEPT ![e] = "write"] /\ gate' = gate
        \/ /\ pc' = [pc EXCEPT ![e] = "conflict"]
           /\ gate' = [gate EXCEPT ![Home[e]][want[e]] = NoTask]
    BY <1>2 DEF EditRead, DropGate
  <2> HIDE DEF HydrationInv, GateTypes, Wanted, GateHeld, MapEmpty
  <2> QED BY <2>1, <2>2, KeepsGate, GivesUpGate
<1>3. CASE EditWrite(e)
  BY <1>3 DEF EditWrite
<1>4. CASE EditNotify(e)
  BY <1>4 DEF EditNotify, DropGate
<1> QED BY <1>1, <1>2, <1>3, <1>4 DEF EditStep

\* HydrationInv is inductive.
LEMMA StepHydration == HydrationInv /\ [Next]_vars => HydrationInv'
<1> SUFFICES ASSUME HydrationInv, [Next]_vars PROVE HydrationInv'
  OBVIOUS
<1> USE TaskFacts DEF GateTypes, Wanted, GateHeld, MapEmpty, Rebuilds, MapEntry, Goto, LoadPcs,
        EditPcs, GatePcs, cacheVars, actorVars
<1>1. CASE \E l \in Loaders, s \in Sessions : Lookup(l, s)
  BY <1>1 DEF Lookup, HydrationInv
<1>2. CASE \E l \in Loaders : LoadStep(l)
  BY <1>2, LoadStepHydration
<1>3. CASE \E l \in Loaders : UseStep(l)
  BY <1>3, UseStepHydration
<1>4. CASE \E l \in Loaders : ActorStops(l)
  BY <1>4 DEF ActorStops, taskVars, HydrationInv
<1>5. CASE \E e \in Editors, s \in Sessions : \E v \in {0, rollout[s]} : EditLookup(e, s, v)
  BY <1>5 DEF EditLookup, HydrationInv
<1>6. CASE \E e \in Editors : EditStep(e)
  BY <1>6, EditStepHydration
<1>7. CASE \E d \in Devos : Die(d)
  BY <1>7 DEF Die, HydrationInv, Actor
<1>8. CASE UNCHANGED vars
  BY <1>8 DEF vars, HydrationInv
<1> QED BY <1>1, <1>2, <1>3, <1>4, <1>5, <1>6, <1>7, <1>8 DEF Next, Rest

\* Whatever is loaded, updated, evicted or killed, a session is rebuilt by one
\* task of a process at a time and never over a loaded one
\* (session_cache.rs:118-127).
THEOREM HydratesOnce == Spec => []OneHydration
BY InitHydration, StepHydration, HydrationIsUnique, PTL DEF Spec

-----------------------------------------------------------------------------
(***************************************************************************)
(* Types.  The order of the loaded sessions never names one twice, and the *)
(* candidates of an eviction are sessions.                                 *)
(***************************************************************************)
LEMMA UntrackedFacts ==
    ASSUME NEW S, NEW q \in Seq(S), IsInjective(q), NEW s
    PROVE  /\ Untracked(q, s) \in Seq(S)
           /\ IsInjective(Untracked(q, s))
           /\ \A n \in 1..Len(Untracked(q, s)) : Untracked(q, s)[n] # s
<1>1. CASE \E n \in 1..Len(q) : q[n] = s
  <2>1. PICK i \in 1..Len(q) : q[i] = s /\ Untracked(q, s) = RemoveAt(q, i)
    BY <1>1 DEF Untracked
  <2> DEFINE front == SubSeq(q, 1, i - 1)  rest == SubSeq(q, i + 1, Len(q))
  <2>2. /\ front \in Seq(S) /\ Len(front) = i - 1
        /\ \A n \in 1..(i - 1) : front[n] = q[n]
    OBVIOUS
  <2>3. /\ rest \in Seq(S) /\ Len(rest) = Len(q) - i
        /\ \A n \in 1..(Len(q) - i) : rest[n] = q[i + n]
    OBVIOUS
  <2> DEFINE r == RemoveAt(q, i)
  <2>4. r = front \o rest
    BY DEF RemoveAt
  <2> HIDE DEF r, front, rest
  <2>5. r \in Seq(S) /\ Len(r) = Len(q) - 1
    BY <2>2, <2>3, <2>4
  <2>6. \A n \in 1..Len(r) : r[n] = IF n < i THEN q[n] ELSE q[n + 1]
    <3>1. TAKE n \in 1..Len(r)
    <3>2. r[n] = IF n <= i - 1 THEN front[n] ELSE rest[n - (i - 1)]
      BY <2>2, <2>3, <2>4, <2>5, ConcatProperties
    <3>3. CASE n < i
      BY <2>2, <3>2, <3>3
    <3>4. CASE ~(n < i)
      <4>1. n - (i - 1) \in 1..(Len(q) - i) /\ i + (n - (i - 1)) = n + 1
        BY <2>5, <3>4
      <4>2. rest[n - (i - 1)] = q[n + 1]
        BY <2>3, <4>1
      <4> QED BY <3>2, <3>4, <4>2
    <3> QED BY <3>3, <3>4
  <2>7. \A m, n \in 1..Len(q) : q[m] = q[n] => m = n
    BY DEF IsInjective
  <2>8. \A n \in 1..Len(r) : r[n] # s
    BY <2>1, <2>5, <2>6, <2>7
  <2>9. \A m, n \in 1..Len(r) : r[m] = r[n] => m = n
    BY <2>5, <2>6, <2>7
  <2>10. DOMAIN r = 1..Len(r)
    BY <2>5
  <2>11. IsInjective(r)
    BY <2>9, <2>10, Zenon DEF IsInjective
  <2> QED BY <2>1, <2>5, <2>8, <2>11 DEF r
<1>2. CASE \A n \in 1..Len(q) : q[n] # s
  BY <1>2 DEF Untracked
<1> QED BY <1>1, <1>2

LEMMA TouchedFacts ==
    ASSUME NEW S, NEW q \in Seq(S), IsInjective(q), NEW s \in S
    PROVE  Touched(q, s) \in Seq(S) /\ IsInjective(Touched(q, s))
<1> DEFINE u == Untracked(q, s)
<1>1. u \in Seq(S) /\ IsInjective(u) /\ \A n \in 1..Len(u) : u[n] # s
  BY UntrackedFacts
<1> HIDE DEF u
<1>2. <<s>> \o u \in Seq(S) /\ Len(<<s>> \o u) = Len(u) + 1
  BY <1>1
<1>3. \A n \in 1..(Len(u) + 1) : (<<s>> \o u)[n] = IF n = 1 THEN s ELSE u[n - 1]
  BY <1>1
<1>4. IsInjective(<<s>> \o u)
  BY <1>1, <1>2, <1>3 DEF IsInjective
<1> QED BY <1>2, <1>4 DEF u, Touched

LEMMA ReverseFacts ==
    ASSUME NEW S, NEW q \in Seq(S), IsInjective(q)
    PROVE  Reverse(q) \in Seq(S) /\ IsInjective(Reverse(q))
BY DEF Reverse, IsInjective

\* Every conjunct of TypeOK but those about sequences.
PlainTypes ==
    /\ alive \subseteq Devos
    /\ sessions \in [Devos -> [Sessions -> Actor]]
    /\ gate \in [Devos -> [Sessions -> Task \cup {NoTask}]]
    /\ registry \subseteq Devos \X Sessions
    /\ subscribed \subseteq Devos \X Sessions
    /\ actor \in [Loaders -> {"none", "live", "stopping", "stopped"}]
    /\ lock \in [Loaders -> {"none", "flock", "sentinel"}]
    /\ memory \in [Loaders -> Nat]
    /\ rollout \in [Sessions -> Nat]
    /\ pc \in [Task -> LoadPcs \cup TurnPcs \cup EditPcs \cup {"done", "dead"}]
    /\ want \in [Task -> Sessions \cup {NoSession}]
    /\ handle \in [Task -> Actor]
    /\ seen \in [Task -> Nat]
    /\ Wanted

Evicts(l) ==
    pc[l] \in {"pinnedByClient", "remove", "clearTurn", "sendShutdown", "shutdown", "forget"}

QueueTypes ==
    /\ lru \in [Devos -> Seq(Sessions)]
    /\ \A d \in Devos : IsInjective(lru[d])
    /\ victims \in [Loaders -> Seq(Sessions)]
    /\ \A l \in Loaders : Evicts(l) => victims[l] # <<>>

TypeInv == PlainTypes /\ QueueTypes

LEMMA InitTypes == Init => TypeInv
BY TaskFacts DEF Init, TypeInv, PlainTypes, QueueTypes, Evicts, Wanted, LoadPcs, Actor, IsInjective

\* A victim is a session.
LEMMA VictimFacts ==
    ASSUME QueueTypes, NEW l \in Loaders, victims[l] # <<>>
    PROVE  Victim(l) \in Sessions /\ Tail(victims[l]) \in Seq(Sessions)
<1>1. victims[l] \in Seq(Sessions)
  BY DEF QueueTypes
<1> QED BY <1>1 DEF Victim

\* The permit of a load is given up, or not held.
LEMMA DroppedGate ==
    ASSUME PlainTypes, NEW k \in Task, want[k] \in Sessions,
           \/ gate' = gate
           \/ gate' = PermitDropped(k)
           \/ gate' = [gate EXCEPT ![Home[k]][want[k]] = NoTask]
    PROVE  gate' \in [Devos -> [Sessions -> Task \cup {NoTask}]]
<1>1. gate \in [Devos -> [Sessions -> Task \cup {NoTask}]]
  BY DEF PlainTypes
<1>2. [gate EXCEPT ![Home[k]][want[k]] = NoTask] \in [Devos -> [Sessions -> Task \cup {NoTask}]]
  BY <1>1, TaskFacts
<1>3. \/ gate' = gate
      \/ gate' = [gate EXCEPT ![Home[k]][want[k]] = NoTask]
  BY DEF PermitDropped
<1> QED BY <1>1, <1>2, <1>3

LEMMA LoadStepPlain ==
    ASSUME TypeInv, NEW l \in Loaders, LoadStep(l)
    PROVE  PlainTypes'
<1> USE TaskFacts DEF TypeInv, PlainTypes, Wanted, Goto, LoadPcs, cacheVars, actorVars
<1>1. CASE AcquireGate(l)
  BY <1>1 DEF AcquireGate, GateFree, TakeGate
<1>2. CASE Recheck(l)
  BY <1>2 DEF Recheck, Rechecked, MapEntry
<1>3. CASE AskLoaded(l)
  <2>1. want[l] \in Sessions
    BY <1>3 DEF AskLoaded
  <2>2. gate' \in [Devos -> [Sessions -> Task \cup {NoTask}]]
    BY <1>3, <2>1, DroppedGate DEF AskLoaded
  <2> QED BY <1>3, <2>2 DEF AskLoaded
<1>4. CASE TouchLoaded(l)
  <2>1. want[l] \in Sessions
    BY <1>4 DEF TouchLoaded
  <2>2. gate' \in [Devos -> [Sessions -> Task \cup {NoTask}]]
    BY <1>4, <2>1, DroppedGate DEF TouchLoaded
  <2> QED BY <1>4, <2>2 DEF TouchLoaded
<1>5. CASE Lock(l)
  <2>1. want[l] \in Sessions
    BY <1>5 DEF Lock
  <2>2. gate' \in [Devos -> [Sessions -> Task \cup {NoTask}]]
    <3>1. gate' = gate \/ gate' = [gate EXCEPT ![Home[l]][want[l]] = NoTask]
      BY <1>5 DEF Lock, DropGate
    <3> QED BY <2>1, <3>1, DroppedGate
  <2>3. lock' \in [Loaders -> {"none", "flock", "sentinel"}]
    BY <1>5 DEF Lock
  <2>4. pc' = [pc EXCEPT ![l] = "hydrate"] \/ pc' = [pc EXCEPT ![l] = "refused"]
    BY <1>5 DEF Lock
  <2> QED BY <1>5, <2>2, <2>3, <2>4 DEF Lock
<1>6. CASE Hydrate(l)
  BY <1>6 DEF Hydrate
<1>7. CASE Insert(l)
  <2>1. want[l] \in Sessions
    BY <1>7 DEF Insert
  <2>2. sessions' \in [Devos -> [Sessions -> Actor]] /\ handle' \in [Task -> Actor]
    BY <1>7, <2>1 DEF Insert, MapEntry, Actor
  <2>3. /\ actor' \in [Loaders -> {"none", "live", "stopping", "stopped"}]
        /\ lock' \in [Loaders -> {"none", "flock", "sentinel"}]
        /\ memory' \in [Loaders -> Nat]
    BY <1>7 DEF Insert
  <2> QED BY <1>7, <2>2, <2>3 DEF Insert
<1>8. CASE Touch(l) \/ EvictList(l) \/ PinnedByTurn(l) \/ PinnedByClient(l)
  BY <1>8 DEF Touch, EvictList, PinnedByTurn, PinnedByClient
<1>9. CASE RemoveActor(l)
  <2>1. Victim(l) \in Sessions
    BY <1>9, VictimFacts DEF RemoveActor, QueueTypes, Evicts
  <2> QED BY <1>9, <2>1 DEF RemoveActor, Actor
<1>10. CASE ClearTurn(l) \/ SendShutdown(l) \/ AwaitShutdown(l)
  BY <1>10 DEF ClearTurn, SendShutdown, AwaitShutdown
<1>11. CASE Forget(l)
  BY <1>11 DEF Forget, Actor
<1>12. CASE Release(l)
  <2>1. want[l] \in Sessions
    BY <1>12 DEF Release
  <2>2. gate' \in [Devos -> [Sessions -> Task \cup {NoTask}]]
    BY <1>12, <2>1, DroppedGate DEF Release, DropGate
  <2> QED BY <1>12, <2>2 DEF Release
<1> QED BY <1>1, <1>2, <1>3, <1>4, <1>5, <1>6, <1>7, <1>8, <1>9, <1>10, <1>11, <1>12
        DEF LoadStep

\* The sequences and who looks at them: most steps touch neither.
LEMMA LoadStepQueues ==
    ASSUME TypeInv, NEW l \in Loaders, LoadStep(l)
    PROVE  QueueTypes'
<1> USE TaskFacts DEF TypeInv, QueueTypes, Evicts, Goto
<1>1. pc \in [Task -> LoadPcs \cup TurnPcs \cup EditPcs \cup {"done", "dead"}]
  BY DEF PlainTypes
<1>2. CASE AcquireGate(l) \/ Recheck(l) \/ AskLoaded(l) \/ Hydrate(l) \/ Insert(l)
  BY <1>1, <1>2 DEF AcquireGate, Recheck, AskLoaded, Hydrate, Insert, cacheVars
<1>3. CASE Lock(l)
  BY <1>1, <1>3 DEF Lock, cacheVars
<1>4. CASE TouchLoaded(l) \/ Touch(l)
  <2>1. want[l] \in Sessions
    BY <1>4 DEF TouchLoaded, Touch, PlainTypes, Wanted
  <2>2. lru[Home[l]] \in Seq(Sessions) /\ IsInjective(lru[Home[l]])
    OBVIOUS
  <2>3. Touched(lru[Home[l]], want[l]) \in Seq(Sessions)
        /\ IsInjective(Touched(lru[Home[l]], want[l]))
    BY <2>1, <2>2, TouchedFacts
  <2>4. /\ lru' = [lru EXCEPT ![Home[l]] = Touched(@, want[l])]
        /\ UNCHANGED victims /\ ~Evicts(l)'
        /\ \A m \in Loaders \ {l} : pc'[m] = pc[m]
    BY <1>1, <1>4 DEF TouchLoaded, Touch
  <2> QED BY <2>3, <2>4
<1>5. CASE EvictList(l)
  <2>1. lru[Home[l]] \in Seq(Sessions) /\ IsInjective(lru[Home[l]])
    OBVIOUS
  <2>2. Untracked(Reverse(lru[Home[l]]), want[l]) \in Seq(Sessions)
    BY <2>1, ReverseFacts, UntrackedFacts
  <2> QED BY <1>1, <1>5, <2>2 DEF EvictList, cacheVars
<1>6. CASE PinnedByTurn(l) \/ PinnedByClient(l)
  <2>1. victims[l] # <<>> => Tail(victims[l]) \in Seq(Sessions)
    BY VictimFacts
  <2>2. victims' = victims \/ (victims[l] # <<>> /\ victims' = [victims EXCEPT ![l] = Tail(@)])
    BY <1>6 DEF PinnedByTurn, PinnedByClient, NextVictim
  <2>3. victims' \in [Loaders -> Seq(Sessions)] /\ \A m \in Loaders \ {l} : victims'[m] = victims[m]
    BY <2>1, <2>2
  <2>4. \A m \in Loaders \ {l} : pc'[m] = pc[m]
    BY <1>1, <1>6 DEF PinnedByTurn, PinnedByClient
  <2>5. Evicts(l)' => victims'[l] # <<>>
    BY <1>1, <1>6 DEF PinnedByTurn, PinnedByClient
  <2>6. UNCHANGED lru
    BY <1>6 DEF PinnedByTurn, PinnedByClient, cacheVars
  <2> QED BY <2>3, <2>4, <2>5, <2>6
<1>7. CASE RemoveActor(l) \/ ClearTurn(l) \/ SendShutdown(l) \/ AwaitShutdown(l)
  BY <1>1, <1>7 DEF RemoveActor, ClearTurn, SendShutdown, AwaitShutdown, cacheVars
<1>8. CASE Forget(l)
  <2>1. lru[Home[l]] \in Seq(Sessions) /\ IsInjective(lru[Home[l]])
    OBVIOUS
  <2>2. Untracked(lru[Home[l]], Victim(l)) \in Seq(Sessions)
        /\ IsInjective(Untracked(lru[Home[l]], Victim(l)))
    BY <2>1, UntrackedFacts
  <2> QED BY <1>1, <1>8, <2>2 DEF Forget
<1>9. CASE Release(l)
  <2>1. <<>> \in Seq(Sessions)
    OBVIOUS
  <2> QED BY <1>1, <1>9, <2>1 DEF Release, cacheVars
<1> QED BY <1>2, <1>3, <1>4, <1>5, <1>6, <1>7, <1>8, <1>9 DEF LoadStep

LEMMA UseStepTypes ==
    ASSUME TypeInv, NEW l \in Loaders, UseStep(l)
    PROVE  TypeInv'
<1> USE TaskFacts DEF TypeInv, PlainTypes, Wanted, LoadPcs, TurnPcs
<1>1. PICK p \in {"subscribe", "refused", "done", "admit", "register", "checkout", "running",
                  "merged"} : pc' = [pc EXCEPT ![l] = p]
  BY DEF UseStep, ResumeSnapshot, Subscribe, StartTurn, AdmitTurn, RegisterTurn, Checkout, EndTurn,
     ClearHandles, Goto
<1>2. /\ UNCHANGED <<alive, sessions, lru, gate, actorVars, rollout, want, seen, victims>>
      /\ pc[l] # "new" /\ pc[l] # "dead"
  BY DEF UseStep, ResumeSnapshot, Subscribe, StartTurn, AdmitTurn, RegisterTurn, Checkout, EndTurn,
     ClearHandles, cacheVars
<1>3. want[l] \in Sessions
  BY <1>2
<1>4. handle' \in [Task -> Actor]
      /\ registry' \subseteq Devos \X Sessions /\ subscribed' \subseteq Devos \X Sessions
  <2>1. handle' = handle \/ handle' = [handle EXCEPT ![l] = sessions[Home[l]][want[l]]]
    BY DEF UseStep, ResumeSnapshot, Subscribe, StartTurn, AdmitTurn, RegisterTurn, Checkout,
       EndTurn, ClearHandles, MapEntry
  <2>2. /\ registry' \subseteq registry \cup {<<Home[l], want[l]>>}
        /\ subscribed' \subseteq subscribed \cup {<<Home[l], want[l]>>}
    BY DEF UseStep, ResumeSnapshot, Subscribe, StartTurn, AdmitTurn, RegisterTurn, Checkout,
       EndTurn, ClearHandles, Here, cacheVars
  <2>3. handle' \in [Task -> Actor]
    BY <1>3, <2>1
  <2>4. <<Home[l], want[l]>> \in Devos \X Sessions
    BY <1>3
  <2> QED BY <2>2, <2>3, <2>4
<1>5. PlainTypes'
  BY <1>1, <1>2, <1>4 DEF actorVars
<1>6. QueueTypes'
  BY <1>1, <1>2 DEF QueueTypes, Evicts
<1> QED BY <1>5, <1>6

LEMMA EditStepTypes ==
    ASSUME TypeInv, NEW e \in Editors, EditStep(e)
    PROVE  TypeInv'
<1> USE TaskFacts DEF TypeInv, PlainTypes, Wanted, EditPcs, Goto, cacheVars, actorVars
<1>1. QueueTypes'
  BY DEF EditStep, AcquireEditGate, EditRead, EditWrite, EditNotify, QueueTypes, Evicts
<1>2. want[e] \in Sessions
  BY DEF EditStep, AcquireEditGate, EditRead, EditWrite, EditNotify
<1>3. CASE AcquireEditGate(e)
  BY <1>1, <1>2, <1>3 DEF AcquireEditGate, TakeGate
<1>4. CASE EditRead(e)
  <2>1. gate' = gate \/ gate' = [gate EXCEPT ![Home[e]][want[e]] = NoTask]
    BY <1>4 DEF EditRead, DropGate
  <2>2. gate' \in [Devos -> [Sessions -> Task \cup {NoTask}]]
    BY <1>2, <2>1, DroppedGate
  <2>3. seen' \in [Task -> Nat]
    BY <1>2, <1>4 DEF EditRead
  <2> QED BY <1>1, <1>4, <2>2, <2>3 DEF EditRead
<1>5. CASE EditWrite(e)
  BY <1>1, <1>2, <1>5 DEF EditWrite
<1>6. CASE EditNotify(e)
  <2>1. gate' \in [Devos -> [Sessions -> Task \cup {NoTask}]]
    BY <1>2, <1>6, DroppedGate DEF EditNotify, DropGate
  <2>2. memory' \in [Loaders -> Nat]
    BY <1>6 DEF EditNotify
  <2> QED BY <1>1, <1>6, <2>1, <2>2 DEF EditNotify
<1> QED BY <1>3, <1>4, <1>5, <1>6 DEF EditStep

LEMMA StepTypes == TypeInv /\ [Next]_vars => TypeInv'
<1> SUFFICES ASSUME TypeInv, [Next]_vars PROVE TypeInv'
  OBVIOUS
<1> USE TaskFacts DEF TypeInv, PlainTypes, Wanted, QueueTypes, Evicts, Goto, LoadPcs, EditPcs,
        cacheVars, actorVars
<1>1. CASE \E l \in Loaders, s \in Sessions : Lookup(l, s)
  BY <1>1 DEF Lookup
<1>2. CASE \E l \in Loaders : LoadStep(l)
  BY <1>2, LoadStepPlain, LoadStepQueues
<1>3. CASE \E l \in Loaders : UseStep(l)
  BY <1>3, UseStepTypes
<1>4. CASE \E l \in Loaders : ActorStops(l)
  BY <1>4 DEF ActorStops, taskVars
<1>5. CASE \E e \in Editors, s \in Sessions : \E v \in {0, rollout[s]} : EditLookup(e, s, v)
  BY <1>5 DEF EditLookup
<1>6. CASE \E e \in Editors : EditStep(e)
  BY <1>6, EditStepTypes
<1>7. CASE \E d \in Devos : Die(d)
  <2>1. PICK d \in Devos : Die(d)
    BY <1>7
  <2>2. PlainTypes'
    BY <2>1 DEF Die, Actor
  <2>3. QueueTypes'
    BY <2>1 DEF Die, IsInjective
  <2> QED BY <2>2, <2>3
<1>8. CASE UNCHANGED vars
  BY <1>8 DEF vars
<1> QED BY <1>1, <1>2, <1>3, <1>4, <1>5, <1>6, <1>7, <1>8 DEF Next, Rest

\* Every variable stays in its type; in particular the order of the loaded
\* sessions names none twice, so that the cache is never found over its
\* capacity because of one session (session_cache.rs:94-101).
THEOREM TypeCorrect == Spec => []TypeOK
<1>1. TypeInv => TypeOK
  BY DEF TypeInv, PlainTypes, QueueTypes, TypeOK
<1> QED BY InitTypes, StepTypes, <1>1, PTL DEF Spec

-----------------------------------------------------------------------------
\* Only the write of an update changes a rollout.
LEMMA WriterOfRollout ==
    ASSUME TypeInv, [Next]_vars, NEW s \in Sessions, rollout[s] # rollout'[s]
    PROVE  \E e \in Editors : pc[e] = "write" /\ want[e] = s
<1>1. PICK e \in Editors : EditWrite(e)
  <2>1. ~UNCHANGED rollout
    OBVIOUS
  <2> QED BY <2>1 DEF Next, Rest, vars, Lookup, LoadStep, AcquireGate, Recheck, AskLoaded,
          TouchLoaded, Lock, Hydrate, Insert, Touch, EvictList, PinnedByTurn, PinnedByClient,
          RemoveActor, ClearTurn, SendShutdown, AwaitShutdown, Forget, Release, UseStep,
          ResumeSnapshot, Subscribe, StartTurn, AdmitTurn, RegisterTurn, Checkout, EndTurn,
          ClearHandles, ActorStops, EditLookup, EditStep, AcquireEditGate, EditRead, EditNotify, Die
<1>2. pc[e] = "write" /\ rollout' = [rollout EXCEPT ![want[e]] = @ + 1]
  BY <1>1 DEF EditWrite
<1> QED BY <1>2 DEF TypeInv, PlainTypes

\* Under the gate, a task's rollout changes by its own hand or by another
\* process (session_cache.rs:118-123, handlers/session.rs:665-710).
THEOREM FreezesSettings == Spec => GateFreezesSettings
<1> DEFINE Frozen ==
        \A k \in Task : pc[k] \in {"insert", "write"} /\ rollout[want[k]] # rollout'[want[k]] =>
            \E e \in Editors : pc[e] = "write" /\ (e = k \/ Home[e] # Home[k])
<1>1. TypeInv /\ HydrationInv /\ [Next]_vars => Frozen
  <2> SUFFICES ASSUME TypeInv, HydrationInv, [Next]_vars, NEW k \in Task,
                      pc[k] \in {"insert", "write"}, rollout[want[k]] # rollout'[want[k]]
               PROVE  \E e \in Editors : pc[e] = "write" /\ (e = k \/ Home[e] # Home[k])
    OBVIOUS
  <2>1. want[k] \in Sessions
    BY DEF TypeInv, PlainTypes, Wanted
  <2>2. PICK e \in Editors : pc[e] = "write" /\ want[e] = want[k]
    BY <2>1, WriterOfRollout
  <2>3. gate[Home[e]][want[e]] = e /\ gate[Home[k]][want[k]] = k
    BY <2>2, TaskFacts DEF HydrationInv, GateHeld, GatePcs
  <2> QED BY <2>2, <2>3
<1> QED BY InitTypes, StepTypes, InitHydration, StepHydration, <1>1, PTL
        DEF Spec, GateFreezesSettings

-----------------------------------------------------------------------------
(***************************************************************************)
(* A session has one owning process.  ExclusiveOwner speaks of actors and  *)
(* is not inductive.  What keeps it is that the flock of a rollout passes  *)
(* from the load that took it to the actor made by that load, and that     *)
(* only this actor's end gives it up.  The end of an actor is asked for    *)
(* once: whoever takes an actor out of the map is the only one to shut it  *)
(* down.                                                                   *)
(***************************************************************************)
BeforeLock == {"new", "gate", "recheck", "lock"}
Rebuilding == {"hydrate", "insert"}
Evicting == {"clearTurn", "sendShutdown"}

\* A load that has no lock has no actor.
Unowned ==
    \A l \in Loaders : pc[l] \in BeforeLock => actor[l] = "none" /\ lock[l] = "none"

\* A load that rebuilds a session has its lock, and no actor yet.
LoadOwns ==
    \A l \in Loaders : pc[l] \in Rebuilding => actor[l] = "none" /\ lock[l] # "none"

\* The lock passes to the actor.
ActorOwns == \A l \in Loaders : HasActor(l) => lock[l] # "none"

FlocksExclude ==
    \A l, m \in Loaders : lock[l] = "flock" /\ lock[m] = "flock" /\ want[l] = want[m] =>
        Home[l] = Home[m]

\* The map of a process holds live actors, each under the session it was made
\* for.
EntriesLive ==
    \A d \in Devos, s \in Sessions : sessions[d][s] \in Loaders =>
        /\ Home[sessions[d][s]] = d /\ want[sessions[d][s]] = s
        /\ actor[sessions[d][s]] = "live"

\* An actor that is taken out of the map is in no map and lives until it is
\* told to stop, by the one who took it out.
EvictedLive ==
    \A l \in Loaders : pc[l] \in Evicting =>
        /\ handle[l] \in Loaders /\ Home[handle[l]] = Home[l] /\ actor[handle[l]] = "live"
        /\ \A d \in Devos, s \in Sessions : sessions[d][s] # handle[l]

EvictorsDiffer ==
    \A l, m \in Loaders : pc[l] \in Evicting /\ pc[m] \in Evicting /\ l # m =>
        handle[l] # handle[m]

OwnerInv ==
    Unowned /\ LoadOwns /\ ActorOwns /\ FlocksExclude /\ EntriesLive /\ EvictedLive
        /\ EvictorsDiffer

LEMMA InitOwner == Init => OwnerInv
BY TaskFacts DEF Init, OwnerInv, Unowned, LoadOwns, ActorOwns, FlocksExclude, EntriesLive,
   EvictedLive, EvictorsDiffer, BeforeLock, Rebuilding, Evicting, HasActor

\* Two owners of one session are in one process, or one of them has a
\* sentinel.
LEMMA OwnerIsExclusive == PlainTypes /\ OwnerInv => ExclusiveOwner
BY DEF PlainTypes, OwnerInv, ActorOwns, FlocksExclude, ExclusiveOwner

\* A task that leaves the actors, the locks and the map alone, and goes where
\* less is asked of it, keeps the invariant.
LEMMA QuietStep ==
    ASSUME TypeInv, OwnerInv, NEW k \in Task, UNCHANGED <<actor, lock, sessions>>,
           \A m \in Task \ {k} :
               pc'[m] = pc[m] /\ want'[m] = want[m] /\ handle'[m] = handle[m],
           k \in Loaders =>
               /\ want'[k] = want[k] \/ pc[k] = "new"
               /\ pc'[k] \in BeforeLock => pc[k] \in BeforeLock
               /\ pc'[k] \in Rebuilding => pc[k] \in Rebuilding
               /\ pc'[k] \in Evicting => pc[k] \in Evicting /\ handle'[k] = handle[k]
    PROVE  OwnerInv'
<1> USE TaskFacts DEF OwnerInv
<1>1. Unowned' /\ LoadOwns'
  BY DEF Unowned, LoadOwns
<1>2. ActorOwns'
  BY DEF ActorOwns, HasActor
<1>3. \A l \in Loaders : want'[l] = want[l] \/ (lock[l] = "none" /\ actor[l] = "none")
  BY DEF Unowned, BeforeLock
<1>4. FlocksExclude'
  BY <1>3 DEF FlocksExclude
<1>5. EntriesLive'
  BY <1>3 DEF EntriesLive
<1>6. EvictedLive' /\ EvictorsDiffer'
  BY DEF EvictedLive, EvictorsDiffer
<1> QED BY <1>1, <1>2, <1>4, <1>5, <1>6

\* The lock is taken (session_file_lock.rs:42-95).
LEMMA LockOwner ==
    ASSUME TypeInv, OwnerInv, NEW l \in Loaders, Lock(l)
    PROVE  OwnerInv'
<1> USE TaskFacts
<1>1. /\ UNCHANGED <<actor, sessions, want, handle>> /\ pc[l] = "lock"
      /\ \A m \in Task \ {l} : pc'[m] = pc[m]
  BY DEF Lock, Goto, cacheVars, TypeInv, PlainTypes
<1>2. CASE UNCHANGED lock /\ pc'[l] = "refused"
  BY <1>1, <1>2, QuietStep DEF BeforeLock, Rebuilding, Evicting
<1>3. CASE pc'[l] = "hydrate" /\ \E x \in {"flock", "sentinel"} :
               lock' = [lock EXCEPT ![l] = x] /\ (x = "flock" => ~LockedElsewhere(l))
  <2> USE DEF OwnerInv, BeforeLock, Rebuilding, Evicting
  <2>1. PICK x \in {"flock", "sentinel"} :
            lock' = [lock EXCEPT ![l] = x] /\ (x = "flock" => ~LockedElsewhere(l))
    BY <1>3
  <2>2. lock'[l] = x /\ \A m \in Loaders \ {l} : lock'[m] = lock[m]
    BY <2>1 DEF TypeInv, PlainTypes
  <2>3. actor[l] = "none"
    BY <1>1 DEF Unowned
  <2>4. Unowned' /\ LoadOwns'
    BY <1>1, <1>3, <2>2, <2>3 DEF Unowned, LoadOwns
  <2>5. ActorOwns'
    BY <1>1, <2>2, <2>3 DEF ActorOwns, HasActor
  <2>6. FlocksExclude'
    <3>1. \A m \in Loaders : x = "flock" /\ lock[m] = "flock" /\ want[m] = want[l] =>
              Home[m] = Home[l]
      BY <2>1 DEF LockedElsewhere, OwnsLock
    <3> QED BY <1>1, <2>2, <3>1 DEF FlocksExclude
  <2>7. EntriesLive' /\ EvictedLive' /\ EvictorsDiffer'
    BY <1>1, <1>3 DEF EntriesLive, EvictedLive, EvictorsDiffer
  <2> QED BY <2>4, <2>5, <2>6, <2>7
<1> QED BY <1>2, <1>3 DEF Lock, Goto, MayOwn, TypeInv, PlainTypes

\* The actor is made and put in the map, or given up for the one that is there
\* (session_actor/registry.rs:20-44).
LEMMA InsertOwner ==
    ASSUME TypeInv, OwnerInv, NEW l \in Loaders, Insert(l)
    PROVE  OwnerInv'
<1> USE TaskFacts DEF OwnerInv, BeforeLock, Rebuilding, Evicting
<1>1. /\ UNCHANGED want /\ pc[l] = "insert" /\ pc'[l] = "touch"
      /\ \A m \in Task \ {l} : pc'[m] = pc[m] /\ handle'[m] = handle[m]
      /\ actor[l] = "none" /\ lock[l] # "none" /\ want[l] \in Sessions
  BY DEF Insert, Goto, TypeInv, PlainTypes, Wanted, LoadOwns
<1>2. CASE MapEntry(l) # NoTask
  <2>1. UNCHANGED <<actor, sessions>> /\ lock'[l] = "none"
        /\ \A m \in Loaders \ {l} : lock'[m] = lock[m]
    BY <1>2 DEF Insert, TypeInv, PlainTypes
  <2>2. Unowned' /\ LoadOwns' /\ ActorOwns' /\ FlocksExclude'
    BY <1>1, <2>1 DEF Unowned, LoadOwns, ActorOwns, FlocksExclude, HasActor
  <2>3. EntriesLive' /\ EvictedLive' /\ EvictorsDiffer'
    BY <1>1, <2>1 DEF EntriesLive, EvictedLive, EvictorsDiffer
  <2> QED BY <2>2, <2>3
<1>3. CASE MapEntry(l) = NoTask
  <2>1. UNCHANGED lock /\ actor'[l] = "live"
        /\ \A m \in Loaders \ {l} : actor'[m] = actor[m]
    BY <1>3 DEF Insert, TypeInv, PlainTypes
  <2>2. \A d \in Devos, s \in Sessions :
            sessions'[d][s] = IF d = Home[l] /\ s = want[l] THEN l ELSE sessions[d][s]
    BY <1>1, <1>3 DEF Insert, TypeInv, PlainTypes
  <2>3. Unowned' /\ LoadOwns' /\ ActorOwns' /\ FlocksExclude'
    BY <1>1, <2>1 DEF Unowned, LoadOwns, ActorOwns, FlocksExclude, HasActor
  <2>4. EntriesLive'
    BY <1>1, <2>1, <2>2 DEF EntriesLive
  <2>5. EvictedLive' /\ EvictorsDiffer'
    BY <1>1, <2>1, <2>2 DEF EvictedLive, EvictorsDiffer
  <2> QED BY <2>3, <2>4, <2>5
<1> QED BY <1>2, <1>3

\* An actor is taken out of the map (session_actor/registry.rs:46-56).
LEMMA RemoveOwner ==
    ASSUME TypeInv, OwnerInv, NEW l \in Loaders, RemoveActor(l)
    PROVE  OwnerInv'
<1> USE TaskFacts DEF OwnerInv, BeforeLock, Rebuilding, Evicting
<1> DEFINE v == Victim(l)  found == sessions[Home[l]][v]
<1>1. v \in Sessions
  BY VictimFacts DEF RemoveActor, TypeInv, QueueTypes, Evicts
<1> HIDE DEF v
<1>2. /\ UNCHANGED <<actor, lock, want>> /\ pc[l] = "remove"
      /\ pc'[l] = IF found = NoTask THEN "forget" ELSE "clearTurn"
      /\ handle'[l] = found
      /\ \A m \in Task \ {l} : pc'[m] = pc[m] /\ handle'[m] = handle[m]
  BY DEF RemoveActor, Goto, TypeInv, PlainTypes, actorVars, v
<1>3. \A d \in Devos, s \in Sessions :
          sessions'[d][s] = IF d = Home[l] /\ s = v THEN NoTask ELSE sessions[d][s]
  BY <1>1 DEF RemoveActor, TypeInv, PlainTypes, v
<1>4. found \in Loaders \cup {NoTask}
  BY <1>1 DEF TypeInv, PlainTypes, Actor
<1> HIDE DEF found
<1>5. Unowned' /\ LoadOwns' /\ ActorOwns' /\ FlocksExclude'
  BY <1>2 DEF Unowned, LoadOwns, ActorOwns, FlocksExclude, HasActor
<1>6. EntriesLive'
  BY <1>2, <1>3 DEF EntriesLive
<1>7. found \in Loaders =>
          /\ Home[found] = Home[l] /\ want[found] = v /\ actor[found] = "live"
          /\ \A d \in Devos, s \in Sessions : sessions'[d][s] # found
  BY <1>1, <1>3 DEF EntriesLive, found
<1>8. EvictedLive'
  BY <1>2, <1>3, <1>4, <1>7 DEF EvictedLive
<1>9. \A m \in Loaders : pc[m] \in Evicting => handle[m] # found
  BY <1>1 DEF EvictedLive, found
<1>10. EvictorsDiffer'
  BY <1>2, <1>9 DEF EvictorsDiffer
<1> QED BY <1>5, <1>6, <1>8, <1>10

\* Its only evictor tells it to stop (session_actor/handle.rs:864-874).
LEMMA ShutdownOwner ==
    ASSUME TypeInv, OwnerInv, NEW l \in Loaders, SendShutdown(l)
    PROVE  OwnerInv'
<1> USE TaskFacts DEF OwnerInv, BeforeLock, Rebuilding, Evicting
<1>1. /\ UNCHANGED <<sessions, lock, want, handle>> /\ pc[l] = "sendShutdown"
      /\ pc'[l] = "shutdown" /\ \A m \in Task \ {l} : pc'[m] = pc[m]
  BY DEF SendShutdown, Goto, TypeInv, PlainTypes, cacheVars
<1>2. /\ handle[l] \in Loaders /\ actor[handle[l]] = "live"
      /\ \A d \in Devos, s \in Sessions : sessions[d][s] # handle[l]
  BY <1>1 DEF EvictedLive
<1>3. actor'[handle[l]] = "stopping"
      /\ \A m \in Loaders \ {handle[l]} : actor'[m] = actor[m]
  BY <1>2 DEF SendShutdown, TypeInv, PlainTypes
<1>4. Unowned' /\ LoadOwns'
  BY <1>1, <1>2, <1>3 DEF Unowned, LoadOwns
<1>5. ActorOwns' /\ FlocksExclude'
  BY <1>1, <1>2, <1>3 DEF ActorOwns, FlocksExclude, HasActor
<1>6. EntriesLive'
  BY <1>1, <1>2, <1>3 DEF EntriesLive
<1>7. EvictedLive'
  BY <1>1, <1>3 DEF EvictedLive, EvictorsDiffer
<1>8. EvictorsDiffer'
  BY <1>1 DEF EvictorsDiffer
<1> QED BY <1>4, <1>5, <1>6, <1>7, <1>8

\* It stops and drops its lock (session_actor/actor_loop.rs:732-750).
LEMMA StopOwner ==
    ASSUME TypeInv, OwnerInv, NEW a \in Loaders, ActorStops(a)
    PROVE  OwnerInv'
<1> USE TaskFacts DEF OwnerInv
<1>1. /\ UNCHANGED <<sessions, pc, want, handle>> /\ actor[a] = "stopping"
      /\ actor'[a] = "stopped" /\ lock'[a] = "none"
      /\ \A m \in Loaders \ {a} : actor'[m] = actor[m] /\ lock'[m] = lock[m]
  BY DEF ActorStops, TypeInv, PlainTypes, cacheVars, taskVars
<1>2. Unowned' /\ LoadOwns'
  BY <1>1 DEF Unowned, LoadOwns
<1>3. ActorOwns' /\ FlocksExclude'
  BY <1>1 DEF ActorOwns, FlocksExclude, HasActor
<1>4. EntriesLive'
  BY <1>1 DEF EntriesLive
<1>5. EvictedLive' /\ EvictorsDiffer'
  BY <1>1 DEF EvictedLive, EvictorsDiffer
<1> QED BY <1>2, <1>3, <1>4, <1>5

\* The death of a process takes its actors, its locks and its map with it.
LEMMA DieOwner ==
    ASSUME TypeInv, OwnerInv, NEW d \in Devos, Die(d)
    PROVE  OwnerInv'
<1> USE TaskFacts DEF OwnerInv, BeforeLock, Rebuilding, Evicting
<1>1. /\ UNCHANGED <<want, handle>>
      /\ \A l \in Loaders : Home[l] = d =>
             actor'[l] = "none" /\ lock'[l] = "none" /\ pc'[l] = "dead"
      /\ \A l \in Loaders : Home[l] # d =>
             actor'[l] = actor[l] /\ lock'[l] = lock[l] /\ pc'[l] = pc[l]
  BY DEF Die
<1>2. \A f \in Devos, s \in Sessions :
          sessions'[f][s] = IF f = d THEN NoTask ELSE sessions[f][s]
  BY DEF Die, TypeInv, PlainTypes
<1>3. Unowned' /\ LoadOwns'
  BY <1>1 DEF Unowned, LoadOwns
<1>4. ActorOwns' /\ FlocksExclude'
  BY <1>1 DEF ActorOwns, FlocksExclude, HasActor
<1>5. EntriesLive'
  BY <1>1, <1>2 DEF EntriesLive
<1>6. EvictedLive' /\ EvictorsDiffer'
  BY <1>1, <1>2 DEF EvictedLive, EvictorsDiffer
<1> QED BY <1>3, <1>4, <1>5, <1>6

\* A load (session_cache.rs:109-201, 245-315).
LEMMA LoadStepOwner ==
    ASSUME TypeInv, OwnerInv, NEW l \in Loaders, LoadStep(l)
    PROVE  OwnerInv'
<1> USE TaskFacts DEF BeforeLock, Rebuilding, Evicting
<1>1. CASE Lock(l)
  BY <1>1, LockOwner
<1>2. CASE Insert(l)
  BY <1>2, InsertOwner
<1>3. CASE RemoveActor(l)
  BY <1>3, RemoveOwner
<1>4. CASE SendShutdown(l)
  BY <1>4, ShutdownOwner
<1>5. CASE AcquireGate(l) \/ Recheck(l) \/ AskLoaded(l) \/ TouchLoaded(l) \/ Hydrate(l)
  <2>1. /\ UNCHANGED <<actor, lock, sessions, want>>
        /\ \A m \in Task \ {l} : pc'[m] = pc[m] /\ handle'[m] = handle[m]
        /\ \/ pc[l] \in BeforeLock /\ pc'[l] \in {"recheck", "lock", "askLoaded"}
           \/ pc'[l] \in {"touchLoaded", "loaded"}
           \/ pc[l] = "hydrate" /\ pc'[l] = "insert"
    BY <1>5 DEF AcquireGate, Recheck, AskLoaded, TouchLoaded, Hydrate, Goto, TypeInv, PlainTypes,
       cacheVars, actorVars
  <2> QED BY <2>1, QuietStep
<1>6. CASE Touch(l) \/ EvictList(l) \/ PinnedByTurn(l) \/ PinnedByClient(l) \/ ClearTurn(l)
           \/ AwaitShutdown(l) \/ Forget(l) \/ Release(l)
  <2>1. /\ UNCHANGED <<actor, lock, sessions, want>>
        /\ \A m \in Task \ {l} : pc'[m] = pc[m] /\ handle'[m] = handle[m]
        /\ \/ pc'[l] \in {"evict", "release", "pinnedByTurn", "pinnedByClient", "remove", "forget",
                          "loaded"}
           \/ pc[l] = "clearTurn" /\ pc'[l] = "sendShutdown" /\ handle' = handle
    BY <1>6 DEF Touch, EvictList, PinnedByTurn, PinnedByClient, ClearTurn, AwaitShutdown, Forget,
       Release, Goto, TypeInv, PlainTypes, cacheVars, actorVars
  <2> QED BY <2>1, QuietStep
<1> QED BY <1>1, <1>2, <1>3, <1>4, <1>5, <1>6 DEF LoadStep

\* What a load is for takes no lock and ends no actor.
LEMMA UseStepOwner ==
    ASSUME TypeInv, OwnerInv, NEW l \in Loaders, UseStep(l)
    PROVE  OwnerInv'
<1>1. /\ UNCHANGED <<actor, lock, sessions, want>>
      /\ \A m \in Task \ {l} : pc'[m] = pc[m] /\ handle'[m] = handle[m]
      /\ pc'[l] \in {"subscribe", "refused", "done", "admit", "register", "checkout", "running",
                     "merged"}
  BY TaskFacts DEF UseStep, ResumeSnapshot, Subscribe, StartTurn, AdmitTurn, RegisterTurn, Checkout,
     EndTurn, ClearHandles, Goto, TypeInv, PlainTypes, cacheVars, actorVars
<1> QED BY <1>1, TaskFacts, QuietStep DEF BeforeLock, Rebuilding, Evicting

\* Nor does a settings update.
LEMMA EditStepOwner ==
    ASSUME TypeInv, OwnerInv, NEW e \in Editors, EditStep(e)
    PROVE  OwnerInv'
<1>1. /\ UNCHANGED <<actor, lock, sessions, want, handle>>
      /\ \A m \in Task \ {e} : pc'[m] = pc[m]
  BY TaskFacts DEF EditStep, AcquireEditGate, EditRead, EditWrite, EditNotify, Goto, TypeInv,
     PlainTypes, cacheVars, actorVars
<1> QED BY <1>1, TaskFacts, QuietStep

\* OwnerInv is inductive, relative to the types.
LEMMA StepOwner == TypeInv /\ OwnerInv /\ [Next]_vars => OwnerInv'
<1> SUFFICES ASSUME TypeInv, OwnerInv, [Next]_vars PROVE OwnerInv'
  OBVIOUS
<1>1. ASSUME NEW l \in Loaders, NEW s \in Sessions, Lookup(l, s) PROVE OwnerInv'
  <2>1. /\ UNCHANGED <<actor, lock, sessions>> /\ pc[l] = "new"
        /\ pc'[l] \in {"gate", "askLoaded"}
        /\ \A m \in Task \ {l} :
               pc'[m] = pc[m] /\ want'[m] = want[m] /\ handle'[m] = handle[m]
    BY <1>1, TaskFacts DEF Lookup, Goto, TypeInv, PlainTypes, cacheVars, actorVars
  <2> QED BY <2>1, TaskFacts, QuietStep DEF BeforeLock, Rebuilding, Evicting
<1>2. CASE \E l \in Loaders : LoadStep(l)
  BY <1>2, LoadStepOwner
<1>3. CASE \E l \in Loaders : UseStep(l)
  BY <1>3, UseStepOwner
<1>4. CASE \E l \in Loaders : ActorStops(l)
  BY <1>4, StopOwner
<1>5. ASSUME NEW e \in Editors, NEW s \in Sessions, NEW v, EditLookup(e, s, v) PROVE OwnerInv'
  <2>1. /\ UNCHANGED <<actor, lock, sessions>>
        /\ \A m \in Task \ {e} :
               pc'[m] = pc[m] /\ want'[m] = want[m] /\ handle'[m] = handle[m]
    BY <1>5, TaskFacts DEF EditLookup, Goto, TypeInv, PlainTypes, cacheVars, actorVars
  <2> QED BY <2>1, TaskFacts, QuietStep
<1>6. CASE \E e \in Editors : EditStep(e)
  BY <1>6, EditStepOwner
<1>7. CASE \E d \in Devos : Die(d)
  BY <1>7, DieOwner
<1>8. CASE UNCHANGED vars
  BY <1>8 DEF vars, OwnerInv, Unowned, LoadOwns, ActorOwns, FlocksExclude, EntriesLive,
     EvictedLive, EvictorsDiffer, HasActor
<1> QED BY <1>1, <1>2, <1>3, <1>4, <1>5, <1>6, <1>7, <1>8 DEF Next, Rest

\* However loads, evictions and deaths interleave, two processes have an actor
\* of the same session only where a lock file could not be opened
\* (session_file_lock.rs:7-16, 61-72).
THEOREM OwnsAlone == Spec => []ExclusiveOwner
<1>1. TypeInv => PlainTypes
  BY DEF TypeInv
<1> QED BY InitTypes, StepTypes, InitOwner, StepOwner, OwnerIsExclusive, <1>1, PTL DEF Spec
=============================================================================
