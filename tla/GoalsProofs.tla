----------------------------- MODULE GoalsProofs -----------------------------
(***************************************************************************)
(* Proofs about Goals, for any set of requests and users and any bounds.   *)
(***************************************************************************)
EXTENDS Goals, TLAPS

(***************************************************************************)
(* Types.                                                                  *)
(***************************************************************************)
StoreTypes ==
    /\ goals \in Nat /\ goal \in Goal /\ status \in Statuses /\ at \in 0..clock
    /\ spent \in BOOLEAN
ActorTypes ==
    /\ act \in Ids /\ latest \in {"none", "failed", "limited"} /\ failedAt \in 0..clock
    /\ waiting \in Nat /\ gate \in Launchers \cup {Nobody}
RegistryTypes == reg \in Ids /\ token \in Ids /\ asked \in BOOLEAN /\ fired \subseteq Turns
MapTypes == tracked \in Ids /\ owner \in [Turns -> Goal]
TurnTypes ==
    /\ begun \in Ids
    /\ task \in [Turns -> {"none", "over"} \cup Alive]
    /\ res \in [Turns -> Ends]
    /\ stamp \in [Turns -> 0..clock] /\ auto \subseteq Turns
    /\ pursues \in [Turns -> Goal]
ProcTypes ==
    /\ pc \in [Procs -> Pcs] /\ turn \in [Procs -> Ids] /\ cand \in [Launchers -> Goal]
    /\ then \in [Requests -> {"follow", "done"}]
BoundTypes == clock \in Nat /\ mishaps \in 0..MaxMishaps
HistoryTypes ==
    /\ done \subseteq Turns /\ orphan \subseteq Turns /\ missed \subseteq Turns
    /\ quit \in BOOLEAN /\ undone \in BOOLEAN
TypeInv ==
    /\ StoreTypes /\ ActorTypes /\ RegistryTypes /\ MapTypes /\ TurnTypes /\ ProcTypes
    /\ BoundTypes /\ HistoryTypes

LEMMA TypeInvImplies == TypeInv => TypeOK
BY DEF TypeInv, TypeOK, StoreTypes, ActorTypes, RegistryTypes, MapTypes, TurnTypes, ProcTypes,
       BoundTypes, HistoryTypes

LEMMA InitTypes == Init => TypeInv
<1> SUFFICES ASSUME Init PROVE TypeInv
  OBVIOUS
<1>1. None \in Ids /\ 0 \in 0..0 /\ MaxMishaps \in 0..MaxMishaps
  BY GoalsAssumption DEF Ids, None
<1>2. StoreTypes /\ ActorTypes /\ RegistryTypes
  BY <1>1 DEF Init, StoreTypes, ActorTypes, RegistryTypes, Goal, Statuses, None
<1>3. MapTypes /\ BoundTypes /\ HistoryTypes
  BY <1>1 DEF Init, MapTypes, BoundTypes, HistoryTypes, Goal, None
<1>4. TurnTypes
  BY <1>1 DEF Init, TurnTypes, Goal, Ends, None
<1>5. ProcTypes
  <2>1. \A p \in Procs : pc[p] \in Pcs
    BY DEF Init, Pcs
  <2> QED BY <1>1, <2>1 DEF Init, ProcTypes, Goal, None
<1> QED BY <1>2, <1>3, <1>4, <1>5 DEF TypeInv

LEMMA Kinds ==
    /\ Requests \subseteq Launchers /\ Launchers \subseteq Procs /\ Users \subseteq Procs
    /\ \A t \in Turns : Post(t) \in Launchers /\ Post(t) \notin Requests
BY GoalsAssumption DEF Launchers, Procs, Posts

LEMMA GotoTypes ==
    ASSUME ProcTypes, NEW p \in Procs, NEW l \in Pcs, Goto(p, l)
    PROVE  /\ pc' \in [Procs -> Pcs] /\ pc'[p] = l
           /\ \A q \in Procs : q # p => pc'[q] = pc[q]
BY DEF ProcTypes, Goto

LEMMA LeaveTypes ==
    ASSUME TypeInv, NEW p \in Launchers, Leave(p)
    PROVE  /\ pc' \in [Procs -> Pcs] /\ turn' \in [Procs -> Ids]
           /\ cand' \in [Launchers -> Goal]
<1>1. pc' \in [Procs -> Pcs]
  <2>1. p \in Procs /\ "done" \in Pcs
    BY Kinds DEF Pcs
  <2> QED BY <2>1, GotoTypes DEF Leave, TypeInv
<1>2. turn' \in [Procs -> Ids]
  BY DEF Leave, TypeInv, ProcTypes, Ids
<1>3. cand' \in [Launchers -> Goal]
  BY DEF Leave, TypeInv, ProcTypes, StoreTypes, Goal, None
<1> QED BY <1>1, <1>2, <1>3

LEMMA LeadsTypes ==
    ASSUME ProcTypes, NEW r \in Requests, NEW l \in Pcs, NEW n \in {"follow", "done"},
           Leads(r, l, n)
    PROVE  pc' \in [Procs -> Pcs] /\ then' \in [Requests -> {"follow", "done"}]
<1>1. r \in Procs
  BY Kinds
<1> QED BY <1>1, GotoTypes DEF Leads, ProcTypes

LEMMA ProceedTypes ==
    ASSUME ProcTypes, NEW r \in Requests, Proceed(r)
    PROVE  /\ pc' \in [Procs -> Pcs] /\ turn' \in [Procs -> Ids]
           /\ then' \in [Requests -> {"follow", "done"}]
<1>1. r \in Procs /\ then[r] \in Pcs
  BY Kinds DEF ProcTypes, Pcs
<1>2. pc' \in [Procs -> Pcs]
  BY <1>1, GotoTypes DEF Proceed
<1>3. turn' \in [Procs -> Ids]
  BY DEF Proceed, ProcTypes, Ids
<1>4. then' \in [Requests -> {"follow", "done"}]
  BY DEF Proceed, ProcTypes
<1> QED BY <1>2, <1>3, <1>4

\* A turn for a user message.
LEMMA StartTypes ==
    ASSUME TypeInv, StartUserTurn, goals' = goals, clock' = clock, auto' \subseteq Turns
    PROVE  /\ TurnTypes' /\ act' \in Ids /\ reg' \in Ids /\ token' \in Ids
           /\ orphan' \subseteq Turns
<1>1. begun + 1 \in Turns /\ begun + 1 \in Ids
  BY GoalsAssumption DEF StartUserTurn, TypeInv, TurnTypes, Ids, Turns, None
<1>2. act' \in Ids /\ reg' \in Ids /\ token' \in Ids /\ begun' \in Ids
  BY <1>1 DEF StartUserTurn, Next1
<1>3. orphan' \subseteq Turns
  BY DEF StartUserTurn, TypeInv, ActorTypes, HistoryTypes, Ids
<1>4. task' \in [Turns -> {"none", "over"} \cup Alive]
  BY DEF StartUserTurn, Next1, TypeInv, TurnTypes, Alive
<1>5. UNCHANGED <<res, stamp, pursues>>
  BY DEF StartUserTurn
<1> QED BY <1>2, <1>3, <1>4, <1>5 DEF TypeInv, TurnTypes, Goal

\* The types of what a step leaves alone.
LEMMA Kept ==
    ASSUME TypeInv, goals' \in Nat, goals' >= goals, clock' \in Nat, clock' >= clock
    PROVE  /\ UNCHANGED store => StoreTypes'
           /\ UNCHANGED actor => ActorTypes'
           /\ UNCHANGED registry => RegistryTypes'
           /\ UNCHANGED maps => MapTypes'
           /\ UNCHANGED turns => TurnTypes'
           /\ UNCHANGED procs => ProcTypes'
           /\ UNCHANGED bounds => BoundTypes'
           /\ UNCHANGED history => HistoryTypes'
<1> USE DEF TypeInv
<1>0. goals \in Nat /\ clock \in Nat
  BY DEF StoreTypes, BoundTypes
<1>1. 0..clock \subseteq 0..clock' /\ Goal \subseteq Goal'
  BY <1>0 DEF Goal
<1>2. UNCHANGED store => StoreTypes'
  BY <1>1 DEF store, StoreTypes
<1>3. UNCHANGED actor => ActorTypes'
  BY <1>1 DEF actor, ActorTypes
<1>4. UNCHANGED registry => RegistryTypes'
  BY DEF registry, RegistryTypes
<1>5. UNCHANGED maps => MapTypes'
  BY <1>1 DEF maps, MapTypes
<1>6. UNCHANGED turns => TurnTypes'
  BY <1>1 DEF turns, TurnTypes
<1>7. UNCHANGED procs => ProcTypes'
  BY <1>1 DEF procs, ProcTypes
<1>8. (UNCHANGED bounds => BoundTypes') /\ (UNCHANGED history => HistoryTypes')
  BY DEF bounds, BoundTypes, history, HistoryTypes
<1> QED BY <1>2, <1>3, <1>4, <1>5, <1>6, <1>7, <1>8

LEMMA Still ==
    ASSUME TypeInv
    PROVE  goals \in Nat /\ clock \in Nat /\ goals >= goals /\ clock >= clock
BY DEF TypeInv, StoreTypes, BoundTypes

LEMMA CommitTypes ==
    ASSUME TypeInv, NEW r \in Requests, Commit(r)
    PROVE  TypeInv'
<1>1. goals \in Nat /\ clock \in Nat /\ clock' = clock /\ clock >= clock
  BY DEF Commit, bounds, TypeInv, StoreTypes, BoundTypes
<1>2. /\ goals' \in Nat /\ goals' >= goals /\ goal' \in 0..goals' /\ status' \in Statuses
      /\ at' \in 0..clock /\ spent' \in BOOLEAN
  <2>1. goal \in 0..goals /\ status \in Statuses /\ at \in 0..clock /\ spent \in BOOLEAN
    BY DEF TypeInv, StoreTypes, Goal
  <2>2. ASSUME NEW s \in Statuses, Becomes(s)
        PROVE  /\ goals' = goals /\ goal' = goal /\ status' \in Statuses /\ at' = clock
               /\ spent' = spent
    BY <2>2 DEF Becomes, Touched
  <2>3. {"active", "paused", "completed", "canceled", "budgetLimited"} \subseteq Statuses
    BY DEF Statuses
  <2>4. CASE Set(r)
    <3>1. goal' = goals + 1 /\ goals' = goals + 1 /\ at' = clock /\ status' = "active"
      BY <2>4 DEF Set, Touched
    <3>2. spent' \in BOOLEAN
      BY <2>4 DEF Set
    <3> QED BY <1>1, <2>3, <3>1, <3>2
  <2>5. CASE Pause(r) \/ Resume(r) \/ Complete(r) \/ Cancel(r) \/ Edit(r)
    <3>1. (\E s \in Statuses : Becomes(s)) \/ UNCHANGED store
      BY <2>3, <2>5 DEF Pause, Resume, Complete, Cancel, Edit
    <3>2. CASE UNCHANGED store
      BY <1>1, <2>1, <3>2 DEF store
    <3> QED BY <1>1, <2>1, <2>2, <3>1, <3>2
  <2>6. CASE Clear(r)
    BY <1>1, <2>1, <2>6 DEF Clear, None
  <2> QED BY <2>4, <2>5, <2>6 DEF Commit
<1>3. StoreTypes'
  BY <1>1, <1>2 DEF StoreTypes, Goal
<1>4. /\ ActorTypes' /\ RegistryTypes' /\ MapTypes' /\ TurnTypes' /\ BoundTypes'
      /\ HistoryTypes'
  BY <1>1, <1>2, Kept DEF Commit
<1>5. ProcTypes'
  <2>1. \E l \in Pcs : \E n \in {"follow", "done"} : Leads(r, l, n)
    BY DEF Commit, Set, Pause, Resume, Complete, Cancel, Clear, Edit, Pcs
  <2>2. pc' \in [Procs -> Pcs] /\ then' \in [Requests -> {"follow", "done"}]
    BY <2>1, LeadsTypes DEF TypeInv
  <2>3. UNCHANGED <<turn, cand>> /\ Goal \subseteq Goal'
    BY <1>1, <1>2 DEF Commit, Goal
  <2> QED BY <2>2, <2>3 DEF TypeInv, ProcTypes
<1> QED BY <1>3, <1>4, <1>5 DEF TypeInv

LEMMA InterruptTypes ==
    ASSUME TypeInv, NEW r \in Requests, Interrupt(r)
    PROVE  TypeInv'
<1>1. UNCHANGED <<store, bounds>> /\ UNCHANGED <<goals, clock>> /\ Goal' = Goal
  BY DEF Interrupt, store, bounds, Goal
<1>2. StoreTypes' /\ ActorTypes' /\ RegistryTypes' /\ TurnTypes' /\ BoundTypes' /\ HistoryTypes'
  BY <1>1, Still, Kept DEF Interrupt
<1>3. MapTypes'
  BY <1>1 DEF Interrupt, Untrack, TypeInv, MapTypes, StoreTypes, Ids, None, Goal
<1>4. ProcTypes'
  <2>1. UNCHANGED cand /\ r \in Procs /\ "probe" \in Pcs
    BY Kinds DEF Interrupt, Pcs
  <2>2. CASE Proceed(r)
    BY <1>1, <2>1, <2>2, ProceedTypes DEF TypeInv, ProcTypes
  <2>3. CASE turn' = [turn EXCEPT ![r] = tracked] /\ Goto(r, "probe") /\ UNCHANGED then
    <3>1. pc' \in [Procs -> Pcs]
      BY <2>1, <2>3, GotoTypes DEF TypeInv
    <3>2. turn' \in [Procs -> Ids]
      BY <2>3 DEF TypeInv, ProcTypes, MapTypes
    <3> QED BY <1>1, <2>1, <2>3, <3>1, <3>2 DEF TypeInv, ProcTypes
  <2> QED BY <2>2, <2>3 DEF Interrupt
<1> QED BY <1>2, <1>3, <1>4 DEF TypeInv

LEMMA ProbeTypes ==
    ASSUME TypeInv, NEW r \in Requests, Probe(r)
    PROVE  TypeInv'
<1>1. UNCHANGED <<store, bounds>> /\ UNCHANGED <<goals, clock>> /\ Goal' = Goal
  BY DEF Probe, store, bounds, Goal
<1>2. /\ StoreTypes' /\ ActorTypes' /\ RegistryTypes' /\ MapTypes' /\ TurnTypes'
      /\ BoundTypes' /\ HistoryTypes'
  BY <1>1, Still, Kept DEF Probe
<1>3. UNCHANGED cand /\ r \in Procs /\ "signal" \in Pcs
  BY Kinds DEF Probe, Pcs
<1>4. CASE Proceed(r)
  BY <1>1, <1>2, <1>3, <1>4, ProceedTypes DEF TypeInv, ProcTypes
<1>5. CASE Goto(r, "signal") /\ UNCHANGED <<turn, then>>
  <2>1. pc' \in [Procs -> Pcs]
    BY <1>3, <1>5, GotoTypes DEF TypeInv
  <2> QED BY <1>1, <1>2, <1>3, <1>5, <2>1 DEF TypeInv, ProcTypes
<1> QED BY <1>4, <1>5 DEF Probe

LEMMA SignalTypes ==
    ASSUME TypeInv, NEW r \in Requests, Signal(r)
    PROVE  TypeInv'
<1> USE GoalsAssumption DEF TypeInv, Turns, None, Procs, Launchers, Posts
<1> USE DEF Signal, Proceed, Watched, store, actor, registry, maps, turns, procs, bounds,
   history, Goto, Statuses, Launching, Pcs, Alive, Ends, Ids, Goal, Mishap, Current, Touched,
   Becomes
<1>1. RegistryTypes'
  BY DEF RegistryTypes, TurnTypes, ProcTypes
<1>2. ProcTypes'
  BY DEF ProcTypes, StoreTypes, MapTypes, TurnTypes, ActorTypes
<1>3. StoreTypes' /\ ActorTypes' /\ MapTypes' /\ TurnTypes' /\ BoundTypes' /\ HistoryTypes'
  <2>1. UNCHANGED <<store, actor, maps, turns, bounds, history>>
    OBVIOUS
  <2> QED BY <2>1 DEF StoreTypes, ActorTypes, MapTypes, TurnTypes, BoundTypes, HistoryTypes
<1> QED BY <1>1, <1>2, <1>3

LEMMA FollowTypes ==
    ASSUME TypeInv, NEW r \in Requests, Follow(r)
    PROVE  TypeInv'
<1> USE GoalsAssumption DEF TypeInv, Turns, None, Procs, Launchers, Posts
<1> USE DEF Follow, store, actor, registry, maps, turns, procs, bounds, history, Goto, Statuses,
   Launching, Pcs, Alive, Ends, Ids, Goal, Mishap, Current, Touched, Becomes
<1>1. RegistryTypes'
  BY DEF RegistryTypes, TurnTypes, ProcTypes
<1>2. ProcTypes'
  BY DEF ProcTypes, StoreTypes, MapTypes, TurnTypes, ActorTypes
<1>3. HistoryTypes'
  BY DEF HistoryTypes, ProcTypes, ActorTypes, RegistryTypes
<1>4. StoreTypes' /\ ActorTypes' /\ MapTypes' /\ TurnTypes' /\ BoundTypes'
  <2>1. UNCHANGED <<store, actor, maps, turns, bounds>>
    OBVIOUS
  <2> QED BY <2>1 DEF StoreTypes, ActorTypes, MapTypes, TurnTypes, BoundTypes
<1> QED BY <1>1, <1>2, <1>3, <1>4

LEMMA SuppressTypes ==
    ASSUME TypeInv, NEW p \in Launchers, Suppress(p)
    PROVE  TypeInv'
<1> USE GoalsAssumption DEF TypeInv, Turns, None, Procs, Launchers, Posts
<1> USE DEF Suppress, SuppressGoal, store, actor, registry, maps, turns, procs, bounds, history,
   Goto, Statuses, Launching, Pcs, Alive, Ends, Ids, Goal, Mishap, Current, Touched, Becomes
<1>1. StoreTypes'
  BY DEF StoreTypes, BoundTypes
<1>2. ProcTypes'
  BY DEF ProcTypes, StoreTypes, MapTypes, TurnTypes, ActorTypes
<1>3. ActorTypes' /\ RegistryTypes' /\ MapTypes' /\ TurnTypes' /\ BoundTypes' /\ HistoryTypes'
  <2>1. UNCHANGED <<actor, registry, maps, turns, bounds, history>>
    OBVIOUS
  <2> QED BY <2>1 DEF ActorTypes, RegistryTypes, MapTypes, TurnTypes, BoundTypes, HistoryTypes,
     StoreTypes
<1> QED BY <1>1, <1>2, <1>3

LEMMA ChooseTypes ==
    ASSUME TypeInv, NEW p \in Launchers, Choose(p)
    PROVE  TypeInv'
<1>1. UNCHANGED <<store, bounds>> /\ UNCHANGED <<goals, clock>> /\ Goal' = Goal
  BY DEF Choose, store, bounds, Goal
<1>2. /\ StoreTypes' /\ ActorTypes' /\ RegistryTypes' /\ MapTypes' /\ TurnTypes'
      /\ BoundTypes' /\ HistoryTypes'
  BY <1>1, Still, Kept DEF Choose
<1>3. UNCHANGED then /\ p \in Procs /\ "begin" \in Pcs
  BY Kinds DEF Choose, Pcs
<1>4. CASE Leave(p)
  BY <1>1, <1>2, <1>3, <1>4, LeaveTypes DEF TypeInv, ProcTypes
<1>5. CASE cand' = [cand EXCEPT ![p] = goal] /\ Goto(p, "begin") /\ UNCHANGED turn
  <2>1. pc' \in [Procs -> Pcs]
    BY <1>3, <1>5, GotoTypes DEF TypeInv
  <2>2. cand' \in [Launchers -> Goal]
    BY <1>5 DEF TypeInv, ProcTypes, StoreTypes
  <2> QED BY <1>1, <1>2, <1>3, <1>5, <2>1, <2>2 DEF TypeInv, ProcTypes
<1> QED BY <1>4, <1>5 DEF Choose

LEMMA BeginTypes ==
    ASSUME TypeInv, NEW p \in Launchers, Begin(p)
    PROVE  TypeInv'
<1>1. UNCHANGED <<store, bounds>> /\ UNCHANGED <<goals, clock>> /\ Goal' = Goal
  BY DEF Begin, store, bounds, Goal
<1>2. StoreTypes' /\ RegistryTypes' /\ MapTypes' /\ BoundTypes' /\ HistoryTypes'
  BY <1>1, Still, Kept DEF Begin
<1>3. /\ UNCHANGED <<latest, failedAt, waiting, task, res, stamp, auto, pursues, then>>
      /\ p \in Procs /\ "track" \in Pcs
  BY Kinds DEF Begin, Pcs, Launching
<1>4. CASE Leave(p) /\ UNCHANGED <<begun, act, gate>>
  <2>1. ProcTypes'
    BY <1>1, <1>3, <1>4, LeaveTypes DEF TypeInv, ProcTypes
  <2>2. ActorTypes' /\ TurnTypes'
    BY <1>1, <1>3, <1>4 DEF TypeInv, ActorTypes, TurnTypes
  <2> QED BY <1>2, <2>1, <2>2 DEF TypeInv
<1>5. CASE /\ begun < MaxTurns /\ begun' = Next1 /\ act' = Next1 /\ gate' = p
           /\ turn' = [turn EXCEPT ![p] = Next1] /\ Goto(p, "track") /\ UNCHANGED cand
  <2>1. Next1 \in Ids
    BY <1>5, GoalsAssumption DEF Next1, TypeInv, TurnTypes, Ids, Turns, None
  <2>2. pc' \in [Procs -> Pcs]
    BY <1>3, <1>5, GotoTypes DEF TypeInv
  <2>3. turn' \in [Procs -> Ids]
    BY <1>5, <2>1 DEF TypeInv, ProcTypes
  <2>4. ProcTypes'
    BY <1>1, <1>3, <1>5, <2>2, <2>3 DEF TypeInv, ProcTypes
  <2>5. ActorTypes' /\ TurnTypes'
    BY <1>1, <1>3, <1>5, <2>1 DEF TypeInv, ActorTypes, TurnTypes
  <2> QED BY <1>2, <2>4, <2>5 DEF TypeInv
<1> QED BY <1>4, <1>5 DEF Begin

LEMMA TrackTypes ==
    ASSUME TypeInv, NEW p \in Launchers, Track(p)
    PROVE  TypeInv'
<1> USE GoalsAssumption DEF TypeInv, Turns, None, Procs, Launchers, Posts
<1> USE DEF Track, store, actor, registry, maps, turns, procs, bounds, history, Goto, Statuses,
   Launching, Pcs, Alive, Ends, Ids, Goal, Mishap, Current, Touched, Becomes
<1>1. MapTypes'
  BY DEF MapTypes, StoreTypes, ProcTypes
<1>2. ProcTypes'
  BY DEF ProcTypes, StoreTypes, MapTypes, TurnTypes, ActorTypes
<1>3. StoreTypes' /\ ActorTypes' /\ RegistryTypes' /\ TurnTypes' /\ BoundTypes'
      /\ HistoryTypes'
  <2>1. UNCHANGED <<store, actor, registry, turns, bounds, history>>
    OBVIOUS
  <2> QED BY <2>1 DEF StoreTypes, ActorTypes, RegistryTypes, TurnTypes, BoundTypes, HistoryTypes
<1> QED BY <1>1, <1>2, <1>3

LEMMA MarkTypes ==
    ASSUME TypeInv, NEW p \in Launchers, Mark(p)
    PROVE  TypeInv'
<1> USE GoalsAssumption DEF TypeInv, Turns, None, Procs, Launchers, Posts
<1> USE DEF Mark, store, actor, registry, maps, turns, procs, bounds, history, Goto, Statuses,
   Launching, Pcs, Alive, Ends, Ids, Goal, Mishap, Current, Touched, Becomes
<1>1. StoreTypes'
  BY DEF StoreTypes, BoundTypes
<1>2. ProcTypes'
  BY DEF ProcTypes, StoreTypes, MapTypes, TurnTypes, ActorTypes
<1>3. ActorTypes' /\ RegistryTypes' /\ MapTypes' /\ TurnTypes' /\ BoundTypes' /\ HistoryTypes'
  <2>1. UNCHANGED <<actor, registry, maps, turns, bounds, history>>
    OBVIOUS
  <2> QED BY <2>1 DEF ActorTypes, RegistryTypes, MapTypes, TurnTypes, BoundTypes, HistoryTypes,
     StoreTypes
<1> QED BY <1>1, <1>2, <1>3

LEMMA AppendStartTypes ==
    ASSUME TypeInv, NEW p \in Launchers, AppendStart(p)
    PROVE  TypeInv'
<1>1. UNCHANGED store /\ UNCHANGED <<goals, clock>> /\ Goal' = Goal
  BY DEF AppendStart, store, Goal
<1>2. StoreTypes' /\ ActorTypes' /\ RegistryTypes' /\ MapTypes' /\ TurnTypes' /\ HistoryTypes'
  BY <1>1, Still, Kept DEF AppendStart
<1>3. BoundTypes'
  BY <1>1, GoalsAssumption DEF AppendStart, Mishap, TypeInv, BoundTypes
<1>4. pc' \in [Procs -> Pcs]
  <2>1. p \in Procs /\ "launch" \in Pcs /\ "undo" \in Pcs
    BY Kinds DEF Pcs, Launching
  <2> QED BY <2>1, GotoTypes DEF TypeInv, AppendStart
<1>5. ProcTypes'
  BY <1>1, <1>4 DEF AppendStart, TypeInv, ProcTypes
<1> QED BY <1>2, <1>3, <1>5 DEF TypeInv

LEMMA LaunchTypes ==
    ASSUME TypeInv, NEW p \in Launchers, Launch(p)
    PROVE  TypeInv'
<1>1. UNCHANGED <<store, bounds>> /\ UNCHANGED <<goals, clock>> /\ Goal' = Goal
  BY DEF Launch, store, bounds, Goal
<1>2. StoreTypes' /\ MapTypes' /\ BoundTypes'
  BY <1>1, Still, Kept DEF Launch
<1>3. /\ UNCHANGED <<act, latest, failedAt, waiting, asked, fired, begun, res, stamp, auto,
                     then, done, orphan, missed>>
      /\ p \in Procs /\ "undo" \in Pcs
  BY Kinds DEF Launch, Pcs, Launching
<1>4. CASE Reserved(p)
  <2>1. /\ reg' = turn[p] /\ token' = turn[p] /\ gate' = Nobody /\ quit' = FALSE
        /\ undone' = FALSE /\ Leave(p)
        /\ task' = [task EXCEPT ![turn[p]] = "running"]
        /\ pursues' = [pursues EXCEPT ![turn[p]] = cand[p]]
    BY <1>4 DEF Launch
  <2>2. turn[p] \in Ids /\ cand[p] \in Goal
    BY <1>3 DEF TypeInv, ProcTypes
  <2>3. ActorTypes' /\ RegistryTypes' /\ HistoryTypes'
    BY <1>1, <1>3, <2>1, <2>2 DEF TypeInv, ActorTypes, RegistryTypes, HistoryTypes
  <2>4. task' \in [Turns -> {"none", "over"} \cup Alive]
    BY <2>1 DEF TypeInv, TurnTypes, Alive
  <2>5. pursues' \in [Turns -> Goal]
    BY <2>1, <2>2 DEF TypeInv, TurnTypes
  <2>6. TurnTypes'
    BY <1>1, <1>3, <2>4, <2>5 DEF TypeInv, TurnTypes
  <2>7. ProcTypes'
    BY <1>1, <1>3, <2>1, LeaveTypes DEF TypeInv, ProcTypes
  <2> QED BY <1>2, <2>3, <2>6, <2>7 DEF TypeInv
<1>5. CASE ~Reserved(p)
  <2>1. Goto(p, "undo") /\ UNCHANGED <<reg, token, task, pursues, gate, turn, cand, quit, undone>>
    BY <1>5 DEF Launch
  <2>2. ActorTypes' /\ RegistryTypes' /\ TurnTypes' /\ HistoryTypes'
    BY <1>1, <1>3, <2>1 DEF TypeInv, ActorTypes, RegistryTypes, TurnTypes, HistoryTypes
  <2>3. pc' \in [Procs -> Pcs]
    BY <1>3, <2>1, GotoTypes DEF TypeInv
  <2> QED BY <1>1, <1>2, <1>3, <2>1, <2>2, <2>3 DEF TypeInv, ProcTypes
<1> QED BY <1>4, <1>5

LEMMA UndoTypes ==
    ASSUME TypeInv, NEW p \in Launchers, Undo(p)
    PROVE  TypeInv'
<1>1. UNCHANGED <<store, bounds>> /\ UNCHANGED <<goals, clock>> /\ Goal' = Goal
  BY DEF Undo, store, bounds, Goal
<1>2. StoreTypes' /\ TurnTypes' /\ BoundTypes'
  BY <1>1, Still, Kept DEF Undo
<1>3. ActorTypes' /\ RegistryTypes' /\ HistoryTypes'
  BY <1>1 DEF Undo, Returned, TypeInv, ActorTypes, RegistryTypes, HistoryTypes, Ids
<1>4. MapTypes'
  <2>1. owner' = [owner EXCEPT ![turn[p]] = None] /\ None \in Goal
    BY DEF Undo, None, Goal, TypeInv, StoreTypes
  <2>2. tracked' \in Ids
    BY DEF Undo, TypeInv, MapTypes, Ids
  <2> QED BY <1>1, <2>1, <2>2 DEF TypeInv, MapTypes
<1>5. ProcTypes'
  BY <1>1, LeaveTypes DEF Undo, TypeInv, ProcTypes
<1> QED BY <1>2, <1>3, <1>4, <1>5 DEF TypeInv

LEMMA ModelCompletesTypes ==
    ASSUME TypeInv, NEW t \in Turns, ModelCompletes(t)
    PROVE  TypeInv'
<1> USE GoalsAssumption DEF TypeInv, Turns, None, Procs, Launchers, Posts
<1> USE DEF ModelCompletes, Untrack, store, actor, registry, maps, turns, procs, bounds,
   history, Goto, Statuses, Launching, Pcs, Alive, Ends, Ids, Goal, Mishap, Current, Touched,
   Becomes
<1>1. StoreTypes'
  BY DEF StoreTypes, BoundTypes
<1>2. MapTypes'
  BY DEF MapTypes, StoreTypes, ProcTypes
<1>3. HistoryTypes'
  BY DEF HistoryTypes, ProcTypes, ActorTypes, RegistryTypes
<1>4. ActorTypes' /\ RegistryTypes' /\ TurnTypes' /\ ProcTypes' /\ BoundTypes'
  <2>1. UNCHANGED <<actor, registry, turns, procs, bounds>>
    OBVIOUS
  <2> QED BY <2>1 DEF ActorTypes, RegistryTypes, TurnTypes, ProcTypes, BoundTypes, StoreTypes
<1> QED BY <1>1, <1>2, <1>3, <1>4

LEMMA EndQueryTypes ==
    ASSUME TypeInv, NEW t \in Turns, EndQuery(t)
    PROVE  TypeInv'
<1>1. UNCHANGED <<store, goals, begun, auto, pursues>> /\ Goal' = Goal
  BY DEF EndQuery, store, Goal
<1>2. clock' \in {clock, clock + 1} /\ clock \in Nat /\ mishaps' \in 0..MaxMishaps
  BY GoalsAssumption DEF EndQuery, Mishap, bounds, TypeInv, BoundTypes
<1>3. clock' \in Nat /\ clock' >= clock /\ 0..clock \subseteq 0..clock'
  BY <1>2
<1>4. StoreTypes' /\ ActorTypes' /\ MapTypes' /\ ProcTypes'
  BY <1>1, <1>3, Still, Kept DEF EndQuery
<1>5. RegistryTypes' /\ BoundTypes' /\ HistoryTypes'
  BY <1>2 DEF EndQuery, TypeInv, RegistryTypes, BoundTypes, HistoryTypes
<1>6. task' \in [Turns -> {"none", "over"} \cup Alive]
  BY DEF EndQuery, TypeInv, TurnTypes, Alive
<1>7. res' \in [Turns -> Ends]
  BY DEF EndQuery, TypeInv, TurnTypes, Ends
<1>8. stamp' \in [Turns -> 0..clock']
  <2>1. stamp \in [Turns -> 0..clock']
    BY <1>3 DEF TypeInv, TurnTypes
  <2>2. stamp' = stamp \/ (clock' = clock + 1 /\ stamp' = [stamp EXCEPT ![t] = clock + 1])
    BY DEF EndQuery
  <2> QED BY <1>2, <2>1, <2>2
<1>9. TurnTypes'
  BY <1>1, <1>6, <1>7, <1>8 DEF TypeInv, TurnTypes
<1> QED BY <1>4, <1>5, <1>9 DEF TypeInv

LEMMA AccountTypes ==
    ASSUME TypeInv, NEW t \in Turns, Account(t)
    PROVE  TypeInv'
<1>1. UNCHANGED <<goals, goal, status, bounds, clock>> /\ Goal' = Goal
  BY DEF Account, store, bounds, Goal
<1>2. ActorTypes' /\ RegistryTypes' /\ ProcTypes' /\ BoundTypes' /\ HistoryTypes'
  BY <1>1, Still, Kept DEF Account
<1>3. StoreTypes'
  <2>1. at' \in 0..clock
    <3>1. at' = at \/ at' = clock
      BY DEF Account, store, Touched
    <3> QED BY <3>1 DEF TypeInv, StoreTypes, BoundTypes
  <2>2. spent' \in BOOLEAN
    <3>1. spent \in BOOLEAN
      BY DEF TypeInv, StoreTypes
    <3> QED BY <3>1 DEF Account, store
  <2> QED BY <1>1, <2>1, <2>2 DEF TypeInv, StoreTypes
<1>4. MapTypes'
  <2>1. owner' = [owner EXCEPT ![t] = None] /\ UNCHANGED tracked /\ None \in Goal
    BY DEF Account, None, Goal, TypeInv, StoreTypes
  <2> QED BY <1>1, <2>1 DEF TypeInv, MapTypes
<1>5. TurnTypes'
  BY <1>1 DEF Account, TypeInv, TurnTypes, Alive
<1> QED BY <1>2, <1>3, <1>4, <1>5 DEF TypeInv

LEMMA MergeTypes ==
    ASSUME TypeInv, NEW t \in Turns, Merge(t)
    PROVE  TypeInv'
<1> USE GoalsAssumption DEF TypeInv, Turns, None, Procs, Launchers, Posts
<1> USE DEF Merge, Forget, Failure, store, actor, registry, maps, turns, procs, bounds, history,
   Goto, Statuses, Launching, Pcs, Alive, Ends, Ids, Goal, Mishap, Current, Touched, Becomes
<1>1. ActorTypes'
  BY DEF ActorTypes, BoundTypes, TurnTypes
<1>2. TurnTypes'
  BY DEF TurnTypes, StoreTypes, BoundTypes, ProcTypes
<1>3. HistoryTypes'
  BY DEF HistoryTypes, ProcTypes, ActorTypes, RegistryTypes
<1>4. StoreTypes' /\ RegistryTypes' /\ MapTypes' /\ ProcTypes' /\ BoundTypes'
  <2>1. UNCHANGED <<store, registry, maps, procs, bounds>>
    OBVIOUS
  <2> QED BY <2>1 DEF StoreTypes, RegistryTypes, MapTypes, ProcTypes, BoundTypes
<1> QED BY <1>1, <1>2, <1>3, <1>4

LEMMA ClearHandlesTypes ==
    ASSUME TypeInv, NEW t \in Turns, ClearHandles(t)
    PROVE  TypeInv'
<1> USE GoalsAssumption DEF TypeInv, Turns, None, Procs, Launchers, Posts
<1> USE DEF ClearHandles, Forget, Gone, store, actor, registry, maps, turns, procs, bounds,
   history, Goto, Statuses, Launching, Pcs, Alive, Ends, Ids, Goal, Mishap, Current, Touched,
   Becomes
<1>1. RegistryTypes'
  BY DEF RegistryTypes, TurnTypes, ProcTypes
<1>2. TurnTypes'
  BY DEF TurnTypes, StoreTypes, BoundTypes, ProcTypes
<1>3. ProcTypes'
  BY DEF ProcTypes, StoreTypes, MapTypes, TurnTypes, ActorTypes
<1>4. HistoryTypes'
  BY DEF HistoryTypes, ProcTypes, ActorTypes, RegistryTypes
<1>5. StoreTypes' /\ ActorTypes' /\ MapTypes' /\ BoundTypes'
  <2>1. UNCHANGED <<store, actor, maps, bounds>>
    OBVIOUS
  <2> QED BY <2>1 DEF StoreTypes, ActorTypes, MapTypes, BoundTypes
<1> QED BY <1>1, <1>2, <1>3, <1>4, <1>5

LEMMA SettleTypes ==
    ASSUME TypeInv, NEW t \in Turns, Settle(t)
    PROVE  TypeInv'
<1> USE GoalsAssumption DEF TypeInv, Turns, None, Procs, Launchers, Posts
<1> USE DEF Settle, SuppressGoal, store, actor, registry, maps, turns, procs, bounds, history,
   Goto, Statuses, Launching, Pcs, Alive, Ends, Ids, Goal, Mishap, Current, Touched, Becomes
<1>1. StoreTypes'
  BY DEF StoreTypes, BoundTypes
<1>2. ProcTypes'
  BY DEF ProcTypes, StoreTypes, MapTypes, TurnTypes, ActorTypes
<1>3. ActorTypes' /\ RegistryTypes' /\ MapTypes' /\ TurnTypes' /\ BoundTypes' /\ HistoryTypes'
  <2>1. UNCHANGED <<actor, registry, maps, turns, bounds, history>>
    OBVIOUS
  <2> QED BY <2>1 DEF ActorTypes, RegistryTypes, MapTypes, TurnTypes, BoundTypes, HistoryTypes,
     StoreTypes
<1> QED BY <1>1, <1>2, <1>3

LEMMA RecoverTypes ==
    ASSUME TypeInv, NEW t \in Turns, Recover(t)
    PROVE  TypeInv'
<1> USE GoalsAssumption DEF TypeInv, Turns, None, Procs, Launchers, Posts
<1> USE DEF Recover, store, actor, registry, maps, turns, procs, bounds, history, Goto,
   Statuses, Launching, Pcs, Alive, Ends, Ids, Goal, Mishap, Current, Touched, Becomes
<1>1. TurnTypes'
  BY DEF TurnTypes, StoreTypes, BoundTypes, ProcTypes
<1>2. ProcTypes'
  BY DEF ProcTypes, StoreTypes, MapTypes, TurnTypes, ActorTypes
<1>3. StoreTypes' /\ ActorTypes' /\ RegistryTypes' /\ MapTypes' /\ BoundTypes'
      /\ HistoryTypes'
  <2>1. UNCHANGED <<store, actor, registry, maps, bounds, history>>
    OBVIOUS
  <2> QED BY <2>1 DEF StoreTypes, ActorTypes, RegistryTypes, MapTypes, BoundTypes, HistoryTypes
<1> QED BY <1>1, <1>2, <1>3

LEMMA DrainTypes ==
    ASSUME TypeInv, NEW t \in Turns, Drain(t)
    PROVE  TypeInv'
<1>1. UNCHANGED <<store, bounds>> /\ UNCHANGED <<goals, clock>> /\ Goal' = Goal
  BY DEF Drain, store, bounds, Goal
<1>2. StoreTypes' /\ MapTypes' /\ BoundTypes'
  BY <1>1, Still, Kept DEF Drain
<1>3. /\ UNCHANGED <<turn, cand, then, latest, failedAt, gate, asked, fired, done, missed, quit,
                     undone>>
      /\ auto' \subseteq Turns
  BY DEF Drain, StartUserTurn, actor, registry, TypeInv, TurnTypes
<1>4. ProcTypes'
  <2>1. Post(t) \in Procs /\ "done" \in Pcs /\ "suppress" \in Pcs
    BY Kinds DEF Pcs
  <2>2. pc' \in [Procs -> Pcs]
    BY <2>1, GotoTypes DEF Drain, TypeInv
  <2> QED BY <1>1, <1>3, <2>2 DEF TypeInv, ProcTypes
<1>5. CASE StartUserTurn /\ waiting > 0 /\ waiting' = waiting - 1
  <2>1. TurnTypes' /\ act' \in Ids /\ reg' \in Ids /\ token' \in Ids /\ orphan' \subseteq Turns
    BY <1>1, <1>3, <1>5, StartTypes
  <2>2. waiting' \in Nat
    BY <1>5 DEF TypeInv, ActorTypes
  <2> QED BY <1>1, <1>2, <1>3, <1>4, <2>1, <2>2
          DEF TypeInv, ActorTypes, RegistryTypes, HistoryTypes
<1>6. CASE UNCHANGED <<actor, registry, begun, task, res, stamp, pursues, orphan>>
  <2>1. ActorTypes' /\ RegistryTypes'
    BY <1>1, <1>6, Still, Kept
  <2>2. TurnTypes' /\ HistoryTypes'
    BY <1>1, <1>3, <1>6 DEF TypeInv, TurnTypes, HistoryTypes
  <2> QED BY <1>2, <1>4, <2>1, <2>2 DEF TypeInv
<1> QED BY <1>5, <1>6 DEF Drain, Drains

LEMMA SayTypes ==
    ASSUME TypeInv, NEW u \in Users, Say(u)
    PROVE  TypeInv'
<1> USE GoalsAssumption DEF TypeInv, Turns, None, Procs, Launchers, Posts
<1> USE DEF Say, StartUserTurn, Next1, store, actor, registry, maps, turns, procs, bounds,
   history, Goto, Statuses, Launching, Pcs, Alive, Ends, Ids, Goal, Mishap, Current, Touched,
   Becomes
<1>1. ActorTypes'
  BY DEF ActorTypes, BoundTypes, TurnTypes
<1>2. RegistryTypes'
  BY DEF RegistryTypes, TurnTypes, ProcTypes
<1>3. TurnTypes'
  BY DEF TurnTypes, StoreTypes, BoundTypes, ProcTypes
<1>4. ProcTypes'
  BY DEF ProcTypes, StoreTypes, MapTypes, TurnTypes, ActorTypes
<1>5. HistoryTypes'
  BY DEF HistoryTypes, ProcTypes, ActorTypes, RegistryTypes
<1>6. StoreTypes' /\ MapTypes' /\ BoundTypes'
  <2>1. UNCHANGED <<store, maps, bounds>>
    OBVIOUS
  <2> QED BY <2>1 DEF StoreTypes, MapTypes, BoundTypes
<1> QED BY <1>1, <1>2, <1>3, <1>4, <1>5, <1>6

LEMMA QueueTypes ==
    ASSUME TypeInv, NEW u \in Users, Queue(u)
    PROVE  TypeInv'
<1>1. UNCHANGED <<store, bounds>> /\ UNCHANGED <<goals, clock>> /\ Goal' = Goal
  BY DEF Queue, store, bounds, Goal
<1>2. /\ StoreTypes' /\ RegistryTypes' /\ MapTypes' /\ TurnTypes' /\ BoundTypes'
      /\ HistoryTypes'
  BY <1>1, Still, Kept DEF Queue
<1>3. ActorTypes'
  BY <1>1 DEF Queue, TypeInv, ActorTypes
<1>4. pc' \in [Procs -> Pcs]
  <2>1. u \in Procs /\ "preempt" \in Pcs /\ "kick" \in Pcs
    BY Kinds DEF Pcs
  <2> QED BY <2>1, GotoTypes DEF TypeInv, Queue
<1>5. turn' \in [Procs -> Ids]
  <2>1. turn' = turn \/ turn' = [turn EXCEPT ![u] = act]
    BY DEF Queue
  <2> QED BY <2>1 DEF TypeInv, ProcTypes, ActorTypes
<1>6. ProcTypes'
  BY <1>1, <1>4, <1>5 DEF Queue, TypeInv, ProcTypes
<1> QED BY <1>2, <1>3, <1>6 DEF TypeInv

LEMMA PreemptTypes ==
    ASSUME TypeInv, NEW u \in Users, Preempt(u)
    PROVE  TypeInv'
<1>1. UNCHANGED <<store, bounds>> /\ UNCHANGED <<goals, clock>> /\ Goal' = Goal
  BY DEF Preempt, store, bounds, Goal
<1>2. StoreTypes' /\ ActorTypes' /\ MapTypes' /\ TurnTypes' /\ BoundTypes'
  BY <1>1, Still, Kept DEF Preempt
<1>3. RegistryTypes' /\ HistoryTypes'
  BY DEF Preempt, Watched, TypeInv, RegistryTypes, HistoryTypes
<1>4. ProcTypes'
  <2>1. u \in Procs /\ "kick" \in Pcs
    BY Kinds DEF Pcs
  <2>2. pc' \in [Procs -> Pcs]
    BY <2>1, GotoTypes DEF TypeInv, Preempt
  <2> QED BY <1>1, <2>2 DEF Preempt, TypeInv, ProcTypes, Ids
<1> QED BY <1>2, <1>3, <1>4 DEF TypeInv

LEMMA KickTypes ==
    ASSUME TypeInv, NEW u \in Users, Kick(u)
    PROVE  TypeInv'
<1>1. UNCHANGED <<store, bounds>> /\ UNCHANGED <<goals, clock>> /\ Goal' = Goal
  BY DEF Kick, store, bounds, Goal
<1>2. StoreTypes' /\ MapTypes' /\ BoundTypes'
  BY <1>1, Still, Kept DEF Kick
<1>3. /\ UNCHANGED <<turn, cand, then, latest, failedAt, gate, asked, fired, done, missed, quit,
                     undone>>
      /\ UNCHANGED auto /\ auto' \subseteq Turns
  BY DEF Kick, StartUserTurn, actor, registry, TypeInv, TurnTypes
<1>4. ProcTypes'
  <2>1. u \in Procs /\ "done" \in Pcs /\ "suppress" \in Pcs
    BY Kinds DEF Pcs
  <2>2. pc' \in [Procs -> Pcs]
    BY <2>1, GotoTypes DEF Kick, TypeInv
  <2> QED BY <1>1, <1>3, <2>2 DEF TypeInv, ProcTypes
<1>5. CASE StartUserTurn /\ waiting > 0 /\ waiting' = waiting - 1
  <2>1. TurnTypes' /\ act' \in Ids /\ reg' \in Ids /\ token' \in Ids /\ orphan' \subseteq Turns
    BY <1>1, <1>3, <1>5, StartTypes
  <2>2. waiting' \in Nat
    BY <1>5 DEF TypeInv, ActorTypes
  <2> QED BY <1>1, <1>2, <1>3, <1>4, <2>1, <2>2
          DEF TypeInv, ActorTypes, RegistryTypes, HistoryTypes
<1>6. CASE UNCHANGED <<actor, registry, begun, task, res, stamp, pursues, orphan>>
  <2>1. ActorTypes' /\ RegistryTypes'
    BY <1>1, <1>6, Still, Kept
  <2>2. TurnTypes' /\ HistoryTypes'
    BY <1>1, <1>3, <1>6 DEF TypeInv, TurnTypes, HistoryTypes
  <2> QED BY <1>2, <1>4, <2>1, <2>2 DEF TypeInv
<1> QED BY <1>5, <1>6 DEF Kick

LEMMA EscapeTypes ==
    ASSUME TypeInv, Escape
    PROVE  TypeInv'
<1>1. UNCHANGED <<store, bounds>> /\ UNCHANGED <<goals, clock>>
  BY DEF Escape, store, bounds
<1>2. /\ StoreTypes' /\ ActorTypes' /\ MapTypes' /\ TurnTypes' /\ ProcTypes' /\ BoundTypes'
      /\ HistoryTypes'
  BY <1>1, Still, Kept DEF Escape
<1>3. RegistryTypes'
  BY DEF Escape, Watched, TypeInv, RegistryTypes
<1> QED BY <1>2, <1>3 DEF TypeInv

LEMMA NextTypes == TypeInv /\ [Next]_vars => TypeInv'
<1> SUFFICES ASSUME TypeInv, [Next]_vars PROVE TypeInv'
  OBVIOUS
<1>1. ASSUME NEW r \in Requests, Request(r) PROVE TypeInv'
  BY <1>1, CommitTypes, InterruptTypes, ProbeTypes, SignalTypes, FollowTypes DEF Request
<1>2. ASSUME NEW p \in Launchers, Continuation(p) PROVE TypeInv'
  BY <1>2, SuppressTypes, ChooseTypes, BeginTypes, TrackTypes, MarkTypes, AppendStartTypes,
     LaunchTypes, UndoTypes DEF Continuation
<1>3. ASSUME NEW t \in Turns, Turn(t) \/ PostTurn(t) PROVE TypeInv'
  BY <1>3, ModelCompletesTypes, EndQueryTypes, AccountTypes, MergeTypes, ClearHandlesTypes,
     SettleTypes, RecoverTypes, DrainTypes DEF Turn, PostTurn
<1>4. ASSUME NEW u \in Users, Message(u) PROVE TypeInv'
  BY <1>4, SayTypes, QueueTypes, PreemptTypes, KickTypes DEF Message
<1>5. CASE Escape
  BY <1>5, EscapeTypes
<1>6. CASE UNCHANGED vars
  BY <1>6 DEF vars, store, actor, registry, maps, turns, procs, bounds, history, TypeInv,
     StoreTypes, ActorTypes, RegistryTypes, MapTypes, TurnTypes, ProcTypes, BoundTypes,
     HistoryTypes, Goal
<1> QED BY <1>1, <1>2, <1>3, <1>4, <1>5, <1>6 DEF Next, Rest

\* Every variable always has its type.
THEOREM TypeCorrect == Spec => []TypeOK
<1>1. Spec => []TypeInv
  BY InitTypes, NextTypes, PTL DEF Spec
<1> QED BY <1>1, TypeInvImplies, PTL

-----------------------------------------------------------------------------
(***************************************************************************)
(* The inductive invariant.                                                *)
(***************************************************************************)
\* A turn the actor and the registry still know is the one they both know.
Known(t) == task[t] = "running" /\ t \notin orphan
KnownIsCurrent == \A t \in Turns : Known(t) => act = t /\ reg = t /\ token = t

\* Who launches a turn holds the gate; nobody else makes a turn active.
LaunchHoldsGate ==
    \A p \in Launchers : pc[p] \in Launching =>
        /\ gate = p
        /\ turn[p] \in Turns /\ turn[p] <= begun
        /\ task[turn[p]] = "none"
        /\ act \in {turn[p], None}

FreshTurns ==
    \A t \in Turns : /\ t > begun => task[t] = "none"
                     /\ task[t] = "none" => pursues[t] = None

\* The post-turn task of a turn starts when the turn is over.
PostsWait == \A t \in Turns : task[t] # "over" => pc[Post(t)] = "none"

Probing(t) == \E r \in Requests : pc[r] \in {"probe", "signal"} /\ turn[r] = t
Pursuing(t) == Known(t) /\ pursues[t] # None

\* Whoever stops the goal finds its continuation turn.
PursuitIsTracked ==
    \A t \in Turns : Pursuing(t) => tracked = t \/ t \in fired \cup done \/ Probing(t)

\* No failure is newer than a goal that is pursued.
PursuitIsNewer ==
    /\ \A t \in Turns : Pursuing(t) => failedAt <= at
    /\ \A p \in Launchers : pc[p] \in {"append", "launch"} /\ act = turn[p] => failedAt <= at

\* A launch whose goal was stopped is untracked, or about to be.
LaunchIsPursued ==
    \A p \in Launchers : pc[p] = "launch" /\ tracked = turn[p] /\ act = turn[p] =>
        \/ Pursued(cand[p]) \/ turn[p] \in done
        \/ \E r \in Requests : pc[r] = "interrupt"

Preempting(t) == \E u \in Users : pc[u] = "preempt" /\ turn[u] = t

\* The turn that is launched while a message waits is to be preempted.
LaunchIsPreempted ==
    waiting > 0 => \A p \in Launchers : pc[p] \in Launching /\ act = turn[p] =>
        turn[p] \in missed \/ Preempting(turn[p])

TurnInv ==
    /\ KnownIsCurrent /\ LaunchHoldsGate /\ FreshTurns /\ PostsWait /\ ReservationIsReturned
StopInv == PursuitIsTracked /\ PursuitIsNewer /\ LaunchIsPursued /\ StoppedGoalsStop
UserInv == LaunchIsPreempted /\ UserComesFirst
Inv == TypeInv /\ TurnInv /\ StopInv /\ UserInv

LEMMA InitInv == Init => Inv
<1> SUFFICES ASSUME Init PROVE Inv
  OBVIOUS
<1>1. \A t \in Turns : task[t] = "none" /\ pursues[t] = None /\ pc[Post(t)] \in {"none"}
  <2>1. \A t \in Turns : Post(t) \in Procs /\ Post(t) \notin Requests /\ Post(t) \notin Users
    BY GoalsAssumption DEF Launchers, Procs, Posts
  <2> QED BY <2>1 DEF Init
<1>2. \A p \in Launchers : pc[p] \in {"commit", "none"}
  BY GoalsAssumption DEF Init, Launchers, Procs
<1>3. act = None /\ waiting = 0
  BY DEF Init
<1>4. TurnInv
  BY <1>1, <1>2, <1>3 DEF TurnInv, KnownIsCurrent, Known, LaunchHoldsGate, Launching, FreshTurns,
     PostsWait, ReservationIsReturned
<1>5. StopInv
  BY <1>1, <1>2 DEF StopInv, PursuitIsTracked, PursuitIsNewer, LaunchIsPursued,
     StoppedGoalsStop, Pursuing, Known
<1>6. UserInv
  BY <1>3 DEF UserInv, LaunchIsPreempted, UserComesFirst
<1> QED BY <1>4, <1>5, <1>6, InitTypes DEF Inv

\* While a turn is launched nobody knows a running turn.
LEMMA NothingKnown ==
    ASSUME Inv, NEW p \in Launchers, pc[p] \in Launching
    PROVE  \A t \in Turns : ~Known(t)
BY DEF Inv, TurnInv, LaunchHoldsGate, KnownIsCurrent, Known, Turns, None

\* Steps that concern no turn, no pursuit, no message.
KeepsTurns ==
    /\ UNCHANGED <<act, gate, reg, token, begun, task, pursues, orphan>>
    /\ \A q \in Procs :
        /\ pc[q] = "none" => pc'[q] = "none"
        /\ pc[q] \in Launching <=> pc'[q] \in Launching
        /\ pc[q] \in Launching => turn'[q] = turn[q]
KeepsPursuit ==
    /\ goal' = goal /\ status' = status /\ at' >= at
    /\ \A t \in Turns : Pursuing(t)' =>
        /\ Pursuing(t) /\ pursues'[t] = pursues[t] /\ failedAt' = failedAt
        /\ tracked = t => tracked' = t
        /\ t \in fired => t \in fired'
        /\ t \in done => t \in done'
    /\ \A r \in Requests : pc[r] \in {"interrupt", "probe", "signal"} =>
        pc'[r] = pc[r] /\ turn'[r] = turn[r]
    /\ \A p \in Launchers : pc'[p] \in {"append", "launch"} /\ act' = turn'[p] =>
        /\ pc[p] = pc'[p] /\ turn'[p] = turn[p] /\ act' = act /\ cand'[p] = cand[p]
        /\ failedAt' = failedAt
        /\ tracked' = turn[p] => tracked = turn[p]
        /\ turn[p] \in done => turn[p] \in done'
KeepsMessages ==
    /\ waiting' > 0 => waiting > 0
    /\ \A t \in Turns : Pursuing(t)' =>
        /\ Pursuing(t)
        /\ t \in fired => t \in fired'
        /\ t \in missed => t \in missed'
    /\ \A u \in Users : pc[u] = "preempt" => pc'[u] = "preempt" /\ turn'[u] = turn[u]
    /\ \A p \in Launchers : pc'[p] \in Launching /\ act' = turn'[p] =>
        /\ pc[p] \in Launching /\ turn'[p] = turn[p] /\ act' = act
        /\ turn[p] \in missed => turn[p] \in missed'

LEMMA TurnsKept == ASSUME Inv, KeepsTurns PROVE TurnInv'
<1>1. KnownIsCurrent' /\ FreshTurns'
  BY DEF Inv, TurnInv, KeepsTurns, KnownIsCurrent, Known, FreshTurns
<1>2. LaunchHoldsGate'
  BY DEF Inv, TurnInv, KeepsTurns, LaunchHoldsGate, Procs
<1>3. PostsWait'
  <2>1. \A t \in Turns : Post(t) \in Procs
    BY DEF Procs, Launchers, Posts
  <2> QED BY <2>1 DEF Inv, TurnInv, KeepsTurns, PostsWait
<1>4. ReservationIsReturned'
  <2>1. ASSUME act # None, task[act] \notin Alive \ {"merged"}
        PROVE  \E p \in Launchers : pc[p] \in Launching /\ turn[p] = act
    BY <2>1 DEF Inv, TurnInv, ReservationIsReturned
  <2>2. (Alive \ {"merged"})' = Alive \ {"merged"}
    BY DEF Alive
  <2> QED BY <2>1, <2>2 DEF KeepsTurns, ReservationIsReturned, Procs
<1> QED BY <1>1, <1>2, <1>3, <1>4 DEF TurnInv

LEMMA PursuitKept == ASSUME Inv, TypeInv', KeepsPursuit PROVE StopInv'
<1>0. failedAt \in Nat /\ at \in Nat /\ at' \in Nat
  BY DEF Inv, TypeInv, ActorTypes, StoreTypes, BoundTypes
<1>1. PursuitIsTracked'
  <2> SUFFICES ASSUME NEW t \in Turns, Pursuing(t)'
               PROVE  tracked' = t \/ t \in fired' \cup done' \/ Probing(t)'
    BY DEF PursuitIsTracked
  <2>1. Pursuing(t) /\ (tracked = t \/ t \in fired \cup done \/ Probing(t))
    BY DEF Inv, StopInv, PursuitIsTracked, KeepsPursuit
  <2> QED BY <2>1 DEF KeepsPursuit, Probing
<1>2. PursuitIsNewer'
  BY <1>0 DEF Inv, StopInv, PursuitIsNewer, KeepsPursuit
<1>3. LaunchIsPursued'
  BY DEF Inv, StopInv, LaunchIsPursued, KeepsPursuit, Pursued, Current
<1>4. StoppedGoalsStop'
  <2> SUFFICES ASSUME NEW t \in Turns, Pursuing(t)'
               PROVE  Pursued(pursues[t])' \/ t \in fired' \cup done' \/ Stopping(t)'
    BY DEF StoppedGoalsStop, Pursuing, Known
  <2>1. Pursuing(t) /\ pursues'[t] = pursues[t]
    BY DEF KeepsPursuit
  <2>2. Pursued(pursues[t]) \/ t \in fired \cup done \/ Stopping(t)
    BY <2>1 DEF Inv, StopInv, StoppedGoalsStop, Pursuing, Known
  <2> QED BY <2>1, <2>2 DEF KeepsPursuit, Stopping, Pursued, Current
<1> QED BY <1>1, <1>2, <1>3, <1>4 DEF StopInv

LEMMA MessagesKept == ASSUME Inv, KeepsMessages PROVE UserInv'
<1>1. LaunchIsPreempted'
  BY DEF Inv, UserInv, LaunchIsPreempted, KeepsMessages, Preempting
<1>2. UserComesFirst'
  <2> SUFFICES ASSUME waiting' > 0, NEW t \in Turns, Pursuing(t)'
               PROVE  t \in fired' \cup missed' \/ Preempting(t)'
    BY DEF UserComesFirst, Pursuing, Known, Preempting
  <2>1. t \in fired \cup missed \/ Preempting(t)
    BY DEF Inv, UserInv, UserComesFirst, Pursuing, Known, Preempting, KeepsMessages
  <2> QED BY <2>1 DEF KeepsMessages, Preempting
<1> QED BY <1>1, <1>2 DEF UserInv

LEMMA StartKeeps ==
    ASSUME Inv, TypeInv', StartUserTurn, gate = Nobody, orphan' \subseteq Turns,
           NEW p \in Procs, pc[p] \in {"queue", "send", "kick"}, pc'[p] = "done",
           \A q \in Procs : q # p => pc'[q] = pc[q],
           UNCHANGED <<turn, goal, status, at>>, waiting' > 0 => waiting > 0
    PROVE  TurnInv' /\ StopInv' /\ UserInv'
<1>1. begun \in Nat /\ Next1 \in Turns /\ Next1 # begun
  BY GoalsAssumption DEF StartUserTurn, Next1, Inv, TypeInv, TurnTypes, Ids, Turns, None
<1>2. /\ task[Next1] = "none" /\ task'[Next1] = "running"
      /\ \A t \in Turns : t # Next1 => task'[t] = task[t]
  BY <1>1 DEF StartUserTurn, Inv, TypeInv, TurnTypes, TurnInv, FreshTurns, Next1
<1>3. /\ begun' = Next1 /\ act' = Next1 /\ reg' = Next1 /\ token' = Next1
      /\ orphan' = orphan \cup ({act} \ {None}) /\ UNCHANGED <<gate, pursues>>
  BY DEF StartUserTurn
<1>4. \A t \in Turns : Known(t)' => t = Next1
  BY <1>2, <1>3 DEF Inv, TurnInv, KnownIsCurrent, Known, None, Turns
<1>5. \A t \in Turns : ~Pursuing(t)'
  BY <1>2, <1>3, <1>4 DEF Pursuing, Inv, TurnInv, FreshTurns
<1>6. \A q \in Launchers : pc[q] \notin Launching /\ pc'[q] \notin Launching
  BY GoalsAssumption DEF Inv, TurnInv, LaunchHoldsGate, Launching, Procs
<1>7. TurnInv'
  <2>1. FreshTurns'
    BY <1>1, <1>2, <1>3 DEF Inv, TurnInv, FreshTurns, Next1, Turns
  <2>2. PostsWait'
    <3>1. \A t \in Turns : Post(t) \in Procs
      BY DEF Procs, Launchers, Posts
    <3> QED BY <1>1, <1>2, <3>1 DEF Inv, TurnInv, PostsWait
  <2>3. ReservationIsReturned'
    BY <1>2, <1>3 DEF ReservationIsReturned, Alive
  <2> QED BY <1>3, <1>4, <1>6, <2>1, <2>2, <2>3 DEF TurnInv, KnownIsCurrent, LaunchHoldsGate
<1>8. StopInv'
  <2>1. at \in Nat /\ Requests \subseteq Procs
    BY DEF Inv, TypeInv, StoreTypes, BoundTypes, Procs, Launchers
  <2>2. KeepsPursuit
    BY <1>5, <1>6, <2>1 DEF KeepsPursuit, Launching
  <2> QED BY <2>2, PursuitKept
<1>9. UserInv'
  <2>1. KeepsMessages
    BY <1>5, <1>6 DEF KeepsMessages, Procs
  <2> QED BY <2>1, MessagesKept
<1> QED BY <1>7, <1>8, <1>9

LEMMA CommitKeeps ==
    ASSUME Inv, TypeInv', NEW r \in Requests, Commit(r)
    PROVE  TurnInv' /\ StopInv' /\ UserInv'
<1>1. /\ r \in Procs /\ pc[r] \in {"commit"} /\ pc'[r] \in {"interrupt", "follow", "done"}
      /\ \A q \in Procs : q # r => pc'[q] = pc[q] /\ turn'[q] = turn[q]
  BY DEF Inv, TypeInv, ProcTypes, Procs, Launchers, Posts, Commit, Goto, procs, Set, Pause,
     Resume, Complete, Cancel, Clear, Edit, Leads
<1>2. UNCHANGED <<act, gate, reg, token, begun, task, pursues, orphan>>
  BY DEF Commit, actor, registry, turns, history
<1>3. TurnInv'
  BY <1>1, <1>2, TurnsKept DEF KeepsTurns, Launching
<1>4. StopInv'
  <2>1. UNCHANGED <<failedAt, tracked, fired, done, cand, turn>>
    BY DEF Commit, actor, maps, registry, history
  <2>2. at \in Nat /\ failedAt \in Nat /\ at' \in Nat /\ at' >= at
    <3>1. at' = at \/ at' = clock
      BY DEF Commit, Set, Pause, Resume, Complete, Cancel, Clear, Edit, Becomes, Touched, store
    <3> QED BY <3>1 DEF Inv, TypeInv, StoreTypes, ActorTypes, BoundTypes
  <2>3. ASSUME goal # None, status \in {"active", "budgetLimited"}, pc'[r] # "interrupt"
        PROVE  goal' = goal /\ status' \in {"active", "budgetLimited"}
    <3>1. \A l, n : Leads(r, l, n) => pc'[r] = l
      BY <1>1 DEF Leads, Goto, Inv, TypeInv, ProcTypes
    <3>2. Resume(r) \/ Edit(r)
      BY <2>3, <3>1 DEF Commit, Set, Pause, Complete, Cancel, Clear
    <3> QED BY <3>2 DEF Resume, Edit, Becomes
  <2>4. \A q \in Requests : q # r => pc'[q] = pc[q]
    BY <1>1 DEF Procs, Launchers
  <2>5. PursuitIsTracked'
    <3>1. \A t \in Turns : Probing(t) => Probing(t)'
      BY <1>1, <2>1, <2>4 DEF Probing
    <3> QED BY <1>2, <2>1, <3>1 DEF Inv, StopInv, PursuitIsTracked, Pursuing, Known
  <2>6. PursuitIsNewer'
    <3>1. \A p \in Launchers : pc'[p] \in {"append", "launch"} => pc[p] = pc'[p]
      BY <1>1 DEF Procs
    <3> QED BY <1>2, <2>1, <2>2, <3>1 DEF Inv, StopInv, PursuitIsNewer, Pursuing, Known
  <2>7. LaunchIsPursued'
    <3> SUFFICES ASSUME NEW p \in Launchers, pc'[p] = "launch", tracked' = turn'[p],
                        act' = turn'[p], \A q \in Requests : pc'[q] # "interrupt"
                 PROVE  Pursued(cand[p])' \/ turn'[p] \in done'
      BY DEF LaunchIsPursued
    <3>1. pc[p] = "launch" /\ \A q \in Requests : pc[q] # "interrupt"
      BY <1>1, <2>4 DEF Procs
    <3>2. Pursued(cand[p]) \/ turn[p] \in done
      BY <1>2, <2>1, <3>1 DEF Inv, StopInv, LaunchIsPursued
    <3> QED BY <1>1, <2>1, <2>3, <3>2 DEF Pursued, Current
  <2>8. StoppedGoalsStop'
    <3> SUFFICES ASSUME NEW t \in Turns, Pursuing(t)', ~Stopping(t)'
                 PROVE  Pursued(pursues[t])' \/ t \in fired' \cup done'
      BY <1>2 DEF StoppedGoalsStop, Pursuing, Known
    <3>1. Pursuing(t) /\ ~Stopping(t) /\ pc'[r] # "interrupt"
      BY <1>1, <1>2, <2>1, <2>4 DEF Pursuing, Known, Stopping
    <3>2. Pursued(pursues[t]) \/ t \in fired \cup done
      BY <3>1 DEF Inv, StopInv, StoppedGoalsStop, Pursuing, Known
    <3> QED BY <1>2, <2>1, <2>3, <3>1, <3>2 DEF Pursued, Current
  <2> QED BY <2>5, <2>6, <2>7, <2>8 DEF StopInv
<1>5. UserInv'
  <2>1. KeepsMessages
    BY <1>1, <1>2, GoalsAssumption DEF KeepsMessages, Pursuing, Known, Launching, Commit,
       Launchers, Procs, Posts, store, actor, registry, maps, turns, procs, bounds, history
  <2> QED BY <2>1, MessagesKept
<1> QED BY <1>3, <1>4, <1>5

LEMMA InterruptKeeps ==
    ASSUME Inv, TypeInv', NEW r \in Requests, Interrupt(r)
    PROVE  TurnInv' /\ StopInv' /\ UserInv'
<1>1. /\ r \in Procs /\ pc[r] \in {"interrupt"} /\ pc'[r] \in {"probe", "follow", "done"}
      /\ \A q \in Procs : q # r => pc'[q] = pc[q] /\ turn'[q] = turn[q]
  BY DEF Inv, TypeInv, ProcTypes, Procs, Launchers, Posts, Interrupt, Goto, procs, Proceed
<1>2. UNCHANGED <<act, gate, reg, token, begun, task, pursues, orphan>>
  BY DEF Interrupt, actor, registry, turns, history
<1>3. TurnInv'
  BY <1>1, <1>2, TurnsKept DEF KeepsTurns, Launching
<1>4. StopInv'
  <2>1. UNCHANGED <<goal, status, at, failedAt, cand, done>> /\ fired \subseteq fired'
    BY DEF Interrupt, store, actor, registry, history
  <2>2. \A q \in Requests : q # r => pc'[q] = pc[q] /\ turn'[q] = turn[q]
    BY <1>1 DEF Procs, Launchers
  <2>3. \A p \in Launchers : pc'[p] \in {"append", "launch"} =>
            pc[p] = pc'[p] /\ turn'[p] = turn[p]
    BY <1>1 DEF Procs
  <2>a. tracked' = None
    BY DEF Interrupt, Untrack
  <2>b. ASSUME NEW t \in Turns, Pursuing(t)
        PROVE  t \in fired \cup done \/ Probing(t)'
    <3>1. tracked = t \/ t \in fired \cup done \/ Probing(t)
      BY <2>b DEF Inv, StopInv, PursuitIsTracked
    <3>2. Probing(t) => Probing(t)'
      BY <1>1, <2>2 DEF Probing
    <3>3. reg = t /\ t # None
      BY <2>b DEF Inv, TurnInv, KnownIsCurrent, Pursuing, Turns, None
    <3>4. CASE tracked = t
      <4>1. Goto(r, "probe") /\ turn' = [turn EXCEPT ![r] = t]
        BY <3>3, <3>4 DEF Interrupt
      <4>2. pc'[r] = "probe" /\ turn'[r] = t
        BY <1>1, <4>1 DEF Goto, Inv, TypeInv, ProcTypes
      <4> QED BY <4>2 DEF Probing
    <3> QED BY <3>1, <3>2, <3>4
  <2>4. PursuitIsTracked'
    BY <1>2, <2>1, <2>b DEF PursuitIsTracked, Pursuing, Known
  <2>5. LaunchIsPursued'
    <3>1. \A p \in Launchers : pc[p] = "launch" => turn[p] # None
      BY DEF Inv, TurnInv, LaunchHoldsGate, Launching, Turns, None
    <3> QED BY <2>3, <2>a, <3>1 DEF LaunchIsPursued
  <2>7. StoppedGoalsStop'
    <3> SUFFICES ASSUME NEW t \in Turns, Pursuing(t)'
                 PROVE  t \in fired' \cup done' \/ Stopping(t)'
      BY <1>2 DEF StoppedGoalsStop, Pursuing, Known
    <3>1. Pursuing(t)
      BY <1>2 DEF Pursuing, Known
    <3> QED BY <2>1, <2>b, <3>1 DEF Probing, Stopping
  <2>6. PursuitIsNewer'
    BY <1>2, <2>1, <2>3 DEF Inv, StopInv, PursuitIsNewer, Pursuing, Known
  <2> QED BY <2>4, <2>5, <2>6, <2>7 DEF StopInv
<1>5. UserInv'
  <2>1. KeepsMessages
    BY <1>1, <1>2, GoalsAssumption DEF KeepsMessages, Pursuing, Known, Launching, Interrupt,
       Launchers, Procs, Posts, store, actor, registry, maps, turns, procs, bounds, history
  <2> QED BY <2>1, MessagesKept
<1> QED BY <1>3, <1>4, <1>5

LEMMA ProbeKeeps ==
    ASSUME Inv, TypeInv', NEW r \in Requests, Probe(r)
    PROVE  TurnInv' /\ StopInv' /\ UserInv'
<1>1. /\ r \in Procs /\ pc[r] \in {"probe"} /\ pc'[r] \in {"signal", "follow", "done"}
      /\ \A q \in Procs : q # r => pc'[q] = pc[q] /\ turn'[q] = turn[q]
  BY DEF Inv, TypeInv, ProcTypes, Procs, Launchers, Posts, Probe, Goto, procs, Proceed
<1>2. UNCHANGED <<act, gate, reg, token, begun, task, pursues, orphan>>
  BY DEF Probe, actor, registry, turns, history
<1>3. TurnInv'
  BY <1>1, <1>2, TurnsKept DEF KeepsTurns, Launching
<1>4. StopInv'
  <2>1. UNCHANGED <<goal, status, at, failedAt, cand, done>> /\ fired \subseteq fired'
    BY DEF Probe, store, actor, registry, history
  <2>2. \A q \in Requests : q # r => pc'[q] = pc[q] /\ turn'[q] = turn[q]
    BY <1>1 DEF Procs, Launchers
  <2>3. \A p \in Launchers : pc'[p] \in {"append", "launch"} =>
            pc[p] = pc'[p] /\ turn'[p] = turn[p]
    BY <1>1 DEF Procs
  <2>a. ASSUME NEW t \in Turns, Pursuing(t), turn[r] = t
        PROVE  pc'[r] = "signal" /\ turn'[r] = t
    <3>1. ~Ended(turn[r])
      BY <2>a DEF Ended, Pursuing, Known
    <3> QED BY <1>1, <2>a, <3>1 DEF Probe, Goto, Inv, TypeInv, ProcTypes
  <2>b. ASSUME NEW t \in Turns, Pursuing(t)
        PROVE  (Probing(t) => Probing(t)') /\ (Stopping(t) => Stopping(t)')
    BY <1>1, <2>2, <2>a, <2>b DEF Probing, Stopping
  <2>c. UNCHANGED <<tracked, fired>>
    BY DEF Probe, maps, registry
  <2>4. PursuitIsTracked'
    BY <1>2, <2>1, <2>b, <2>c DEF Inv, StopInv, PursuitIsTracked, Pursuing, Known
  <2>5. LaunchIsPursued'
    <3>1. \A q \in Requests : pc[q] = "interrupt" => pc'[q] = "interrupt"
      BY <1>1, <2>2
    <3> QED BY <1>2, <2>1, <2>3, <2>c, <3>1
            DEF Inv, StopInv, LaunchIsPursued, Pursued, Current
  <2>7. StoppedGoalsStop'
    <3> SUFFICES ASSUME NEW t \in Turns, Pursuing(t)'
                 PROVE  Pursued(pursues[t])' \/ t \in fired' \cup done' \/ Stopping(t)'
      BY <1>2 DEF StoppedGoalsStop, Pursuing, Known
    <3>1. Pursuing(t)
      BY <1>2 DEF Pursuing, Known
    <3>2. Pursued(pursues[t]) \/ t \in fired \cup done \/ Stopping(t)
      BY <3>1 DEF Inv, StopInv, StoppedGoalsStop, Pursuing, Known
    <3> QED BY <1>2, <2>1, <2>b, <2>c, <3>1, <3>2 DEF Pursued, Current
  <2>6. PursuitIsNewer'
    BY <1>2, <2>1, <2>3 DEF Inv, StopInv, PursuitIsNewer, Pursuing, Known
  <2> QED BY <2>4, <2>5, <2>6, <2>7 DEF StopInv
<1>5. UserInv'
  <2>1. KeepsMessages
    BY <1>1, <1>2, GoalsAssumption DEF KeepsMessages, Pursuing, Known, Launching, Probe,
       Launchers, Procs, Posts, store, actor, registry, maps, turns, procs, bounds, history
  <2> QED BY <2>1, MessagesKept
<1> QED BY <1>3, <1>4, <1>5

LEMMA SignalKeeps ==
    ASSUME Inv, TypeInv', NEW r \in Requests, Signal(r)
    PROVE  TurnInv' /\ StopInv' /\ UserInv'
<1>1. /\ r \in Procs /\ pc[r] \in {"signal"} /\ pc'[r] \in {"follow", "done"}
      /\ \A q \in Procs : q # r => pc'[q] = pc[q] /\ turn'[q] = turn[q]
  BY DEF Inv, TypeInv, ProcTypes, Procs, Launchers, Posts, Signal, Goto, procs, Proceed
<1>2. UNCHANGED <<act, gate, reg, token, begun, task, pursues, orphan>>
  BY DEF Signal, actor, registry, turns, history
<1>3. TurnInv'
  BY <1>1, <1>2, TurnsKept DEF KeepsTurns, Launching
<1>4. StopInv'
  <2>1. UNCHANGED <<goal, status, at, failedAt, cand, done>> /\ fired \subseteq fired'
    BY DEF Signal, store, actor, registry, history
  <2>2. \A q \in Requests : q # r => pc'[q] = pc[q] /\ turn'[q] = turn[q]
    BY <1>1 DEF Procs, Launchers
  <2>3. \A p \in Launchers : pc'[p] \in {"append", "launch"} =>
            pc[p] = pc'[p] /\ turn'[p] = turn[p]
    BY <1>1 DEF Procs
  <2>a. \A t \in Turns : Pursuing(t) => t \in fired'
    BY DEF Signal, Watched, Inv, TurnInv, KnownIsCurrent, Pursuing, Known
  <2>b. UNCHANGED tracked
    BY DEF Signal, maps
  <2>4. PursuitIsTracked'
    BY <1>2, <2>a DEF PursuitIsTracked, Pursuing, Known
  <2>5. LaunchIsPursued'
    <3>1. \A q \in Requests : pc[q] = "interrupt" => pc'[q] = "interrupt"
      BY <1>1, <2>2
    <3> QED BY <1>2, <2>1, <2>3, <2>b, <3>1
            DEF Inv, StopInv, LaunchIsPursued, Pursued, Current
  <2>7. StoppedGoalsStop'
    BY <1>2, <2>a DEF StoppedGoalsStop, Pursuing, Known
  <2>6. PursuitIsNewer'
    BY <1>2, <2>1, <2>3 DEF Inv, StopInv, PursuitIsNewer, Pursuing, Known
  <2> QED BY <2>4, <2>5, <2>6, <2>7 DEF StopInv
<1>5. UserInv'
  <2>1. KeepsMessages
    BY <1>1, <1>2, GoalsAssumption DEF KeepsMessages, Pursuing, Known, Launching, Signal,
       Launchers, Procs, Posts, store, actor, registry, maps, turns, procs, bounds, history
  <2> QED BY <2>1, MessagesKept
<1> QED BY <1>3, <1>4, <1>5

LEMMA FollowKeeps ==
    ASSUME Inv, TypeInv', NEW r \in Requests, Follow(r)
    PROVE  TurnInv' /\ StopInv' /\ UserInv'
<1>1. /\ r \in Procs /\ pc[r] \in {"follow"} /\ pc'[r] \in {"suppress", "done"}
      /\ \A q \in Procs : q # r => pc'[q] = pc[q] /\ turn'[q] = turn[q]
  BY DEF Inv, TypeInv, ProcTypes, Procs, Launchers, Posts, Follow, Goto, procs
<1>2. UNCHANGED <<act, gate, reg, token, begun, task, pursues, orphan>>
  BY DEF Follow, actor, registry, turns, history
<1>3. TurnInv'
  BY <1>1, <1>2, TurnsKept DEF KeepsTurns, Launching
<1>4. StopInv'
  <2>1. KeepsPursuit
    BY <1>1, <1>2, GoalsAssumption DEF KeepsPursuit, Pursuing, Known, Follow, Launchers, Procs,
       Posts, Inv, TypeInv, StoreTypes, BoundTypes, store, actor, registry, maps, turns, procs,
       bounds, history
  <2> QED BY <2>1, PursuitKept
<1>5. UserInv'
  <2>1. KeepsMessages
    BY <1>1, <1>2, GoalsAssumption DEF KeepsMessages, Pursuing, Known, Launching, Follow,
       Launchers, Procs, Posts, store, actor, registry, maps, turns, procs, bounds, history
  <2> QED BY <2>1, MessagesKept
<1> QED BY <1>3, <1>4, <1>5

LEMMA SuppressKeeps ==
    ASSUME Inv, TypeInv', NEW p \in Launchers, Suppress(p)
    PROVE  TurnInv' /\ StopInv' /\ UserInv'
<1>1. /\ p \in Procs /\ pc[p] \in {"suppress"} /\ pc'[p] \in {"choose", "done"}
      /\ \A q \in Procs : q # p => pc'[q] = pc[q] /\ turn'[q] = turn[q]
  BY DEF Inv, TypeInv, ProcTypes, Procs, Launchers, Posts, Suppress, Goto, procs
<1>2. UNCHANGED <<act, gate, reg, token, begun, task, pursues, orphan>>
  BY DEF Suppress, actor, registry, turns, history
<1>3. TurnInv'
  BY <1>1, <1>2, TurnsKept DEF KeepsTurns, Launching
<1>4. StopInv'
  <2>1. UNCHANGED <<failedAt, tracked, fired, done, cand>> /\ Launchers \subseteq Procs
        /\ Requests \subseteq Launchers
    BY DEF Suppress, actor, maps, registry, history, Procs, Launchers
  <2>2. /\ at \in Nat /\ failedAt \in Nat /\ at' >= at
        /\ Suppressed \/ UNCHANGED <<goal, status, at>>
        /\ goal' = goal
    <3>1. /\ at' = at \/ at' = clock
          /\ Suppressed \/ UNCHANGED <<goal, status, at>>
          /\ goal' = goal
      BY DEF Suppress, SuppressGoal, Becomes, Touched, store
    <3>2. clock >= at /\ at >= at /\ at \in Nat /\ failedAt \in Nat
      BY DEF Inv, TypeInv, StoreTypes, ActorTypes, BoundTypes
    <3> QED BY <3>1, <3>2
  <2>3. CASE Suppressed
    <3>1. ~(failedAt <= at)
      BY <2>2, <2>3 DEF Suppressed, FailedSince
    <3>2. \A t \in Turns : ~Pursuing(t)
      BY <3>1 DEF Inv, StopInv, PursuitIsNewer
    <3>3. \A q \in Launchers : ~(pc[q] \in {"append", "launch"} /\ act = turn[q])
      BY <3>1 DEF Inv, StopInv, PursuitIsNewer
    <3>4. \A t \in Turns : ~Pursuing(t)'
      BY <1>2, <3>2 DEF Pursuing, Known
    <3>5. \A q \in Launchers : ~(pc'[q] \in {"append", "launch"} /\ act' = turn'[q])
      BY <1>1, <1>2, <2>1, <3>3
    <3> QED BY <3>4, <3>5 DEF StopInv, PursuitIsTracked, PursuitIsNewer, LaunchIsPursued,
               StoppedGoalsStop, Pursuing, Known
  <2>4. CASE UNCHANGED <<goal, status, at>>
    <3>1. KeepsPursuit
      BY <1>1, <1>2, <2>1, <2>2, <2>4 DEF KeepsPursuit, Pursuing, Known
    <3> QED BY <3>1, PursuitKept
  <2> QED BY <2>2, <2>3, <2>4
<1>5. UserInv'
  <2>1. KeepsMessages
    BY <1>1, <1>2, GoalsAssumption DEF KeepsMessages, Pursuing, Known, Launching, Suppress,
       Launchers, Procs, Posts, store, actor, registry, maps, turns, procs, bounds, history
  <2> QED BY <2>1, MessagesKept
<1> QED BY <1>3, <1>4, <1>5

LEMMA ChooseKeeps ==
    ASSUME Inv, TypeInv', NEW p \in Launchers, Choose(p)
    PROVE  TurnInv' /\ StopInv' /\ UserInv'
<1>1. /\ p \in Procs /\ pc[p] \in {"choose"} /\ pc'[p] \in {"begin", "done"}
      /\ \A q \in Procs : q # p => pc'[q] = pc[q] /\ turn'[q] = turn[q]
  BY DEF Inv, TypeInv, ProcTypes, Procs, Launchers, Posts, Choose, Goto, procs, Leave
<1>2. UNCHANGED <<act, gate, reg, token, begun, task, pursues, orphan>>
  BY DEF Choose, actor, registry, turns, history
<1>3. TurnInv'
  BY <1>1, <1>2, TurnsKept DEF KeepsTurns, Launching
<1>4. StopInv'
  <2>1. at \in Nat /\ Launchers \subseteq Procs
    BY DEF Inv, TypeInv, StoreTypes, BoundTypes, Procs
  <2>2. UNCHANGED <<goal, status, at, failedAt, tracked, fired, done>>
    BY DEF Choose, store, actor, maps, registry, history
  <2>3. \A q \in Launchers : q # p => cand'[q] = cand[q]
    BY DEF Choose, Leave, Inv, TypeInv, ProcTypes
  <2>4. KeepsPursuit
    BY <1>1, <1>2, <2>1, <2>2, <2>3 DEF KeepsPursuit, Pursuing, Known, Launchers
  <2> QED BY <2>4, PursuitKept
<1>5. UserInv'
  <2>1. KeepsMessages
    BY <1>1, <1>2, GoalsAssumption DEF KeepsMessages, Pursuing, Known, Launching, Choose,
       Launchers, Procs, Posts, store, actor, registry, maps, turns, procs, bounds, history
  <2> QED BY <2>1, MessagesKept
<1> QED BY <1>3, <1>4, <1>5

LEMMA BeginKeeps ==
    ASSUME Inv, TypeInv', NEW p \in Launchers, Begin(p)
    PROVE  TurnInv' /\ StopInv' /\ UserInv'
<1>1. /\ p \in Procs /\ pc[p] \in {"begin"} /\ pc'[p] \in {"track", "done"}
      /\ \A q \in Procs : q # p => pc'[q] = pc[q] /\ turn'[q] = turn[q]
  BY DEF Inv, TypeInv, ProcTypes, Procs, Launchers, Posts, Begin, Goto, procs, Leave
<1>3. TurnInv'
  <2>1. gate = Nobody /\ UNCHANGED <<reg, token, task, pursues, orphan>>
    BY DEF Begin, registry, history
  <2>2. \A q \in Launchers : pc[q] \notin Launching
    BY <2>1, GoalsAssumption DEF Inv, TurnInv, LaunchHoldsGate
  <2>3. \A q \in Procs : q # p => (pc'[q] \in Launching <=> pc[q] \in Launching)
    BY <1>1
  <2>4. CASE UNCHANGED <<begun, act, gate>> /\ pc'[p] = "done"
    <3>1. KeepsTurns
      BY <1>1, <2>1, <2>4 DEF KeepsTurns, Launching
    <3> QED BY <3>1, TurnsKept
  <2>5. CASE /\ act = None /\ begun < MaxTurns /\ begun' = Next1 /\ act' = Next1 /\ gate' = p
             /\ turn' = [turn EXCEPT ![p] = Next1] /\ pc'[p] = "track"
    <3>1. begun \in Nat /\ Next1 \in Turns /\ Next1 <= Next1 /\ turn'[p] = Next1
      BY <1>1, <2>5, GoalsAssumption
         DEF Next1, Inv, TypeInv, TurnTypes, ProcTypes, Ids, Turns, None
    <3>2. task[Next1] = "none" /\ \A t \in Turns : t > Next1 => task[t] = "none"
      BY <3>1 DEF Inv, TurnInv, FreshTurns, Next1, Turns
    <3>3. KnownIsCurrent'
      BY <2>1, <2>5 DEF Inv, TurnInv, KnownIsCurrent, Known, None, Turns
    <3>4. LaunchHoldsGate'
      <4> SUFFICES ASSUME NEW q \in Launchers, pc'[q] \in Launching
                   PROVE  /\ gate' = q
                          /\ turn'[q] \in Turns /\ turn'[q] <= begun'
                          /\ task'[turn'[q]] = "none"
                          /\ act' \in {turn'[q], None}
        BY DEF LaunchHoldsGate
      <4>1. q = p
        BY <2>2, <2>3 DEF Procs
      <4> QED BY <2>1, <2>5, <3>1, <3>2, <4>1
    <3>5. FreshTurns'
      BY <2>1, <2>5, <3>2 DEF Inv, TurnInv, FreshTurns
    <3>6. PostsWait'
      <4>1. \A t \in Turns : Post(t) \in Procs
        BY DEF Procs, Launchers, Posts
      <4> QED BY <1>1, <2>1, <4>1 DEF Inv, TurnInv, PostsWait
    <3>7. ReservationIsReturned'
      BY <2>5, <3>1 DEF ReservationIsReturned, Launching
    <3> QED BY <3>3, <3>4, <3>5, <3>6, <3>7 DEF TurnInv
  <2>6. \/ /\ begun < MaxTurns /\ begun' = Next1 /\ act' = Next1 /\ gate' = p
           /\ turn' = [turn EXCEPT ![p] = Next1] /\ Goto(p, "track") /\ act = None
        \/ Leave(p) /\ UNCHANGED <<begun, act, gate>>
    BY DEF Begin
  <2>7. (Goto(p, "track") => pc'[p] = "track") /\ (Leave(p) => pc'[p] = "done")
    BY <1>1 DEF Goto, Leave, Inv, TypeInv, ProcTypes
  <2> QED BY <2>4, <2>5, <2>6, <2>7
<1>4. StopInv'
  <2>1. at \in Nat /\ Launchers \subseteq Procs /\ Requests \subseteq Launchers
    BY DEF Inv, TypeInv, StoreTypes, BoundTypes, Procs, Launchers
  <2>2. /\ UNCHANGED <<goal, status, at, failedAt, tracked, fired, done, task, orphan, pursues>>
        /\ gate = Nobody
    BY DEF Begin, store, maps, registry, history
  <2>3. \A q \in Launchers : pc[q] \notin Launching
    BY <2>2, GoalsAssumption DEF Inv, TurnInv, LaunchHoldsGate
  <2>4. KeepsPursuit
    BY <1>1, <2>1, <2>2, <2>3 DEF KeepsPursuit, Pursuing, Known, Launching
  <2> QED BY <2>4, PursuitKept
<1>5. UserInv'
  <2>1. /\ UNCHANGED <<waiting, fired, missed, task, orphan, pursues>> /\ gate = Nobody
        /\ Launchers \subseteq Procs /\ Users \subseteq Procs /\ p \notin Users
    BY GoalsAssumption DEF Begin, registry, history, Procs
  <2>2. \A q \in Launchers : pc[q] \notin Launching
    BY <2>1, GoalsAssumption DEF Inv, TurnInv, LaunchHoldsGate
  <2>3. pc'[p] \in Launching => waiting = 0
    <3>1. CASE Leave(p)
      BY <1>1, <3>1 DEF Leave, Goto, Inv, TypeInv, ProcTypes, Launching
    <3> QED BY <3>1 DEF Begin
  <2>4. CASE waiting = 0
    <3>1. waiting' = 0 /\ ~(waiting' > 0)
      BY <2>1, <2>4
    <3> QED BY <3>1 DEF UserInv, LaunchIsPreempted, UserComesFirst
  <2>5. CASE waiting # 0
    <3>1. KeepsMessages
      BY <1>1, <2>1, <2>2, <2>3, <2>5 DEF KeepsMessages, Pursuing, Known
    <3> QED BY <3>1, MessagesKept
  <2> QED BY <2>4, <2>5
<1> QED BY <1>3, <1>4, <1>5

LEMMA TrackKeeps ==
    ASSUME Inv, TypeInv', NEW p \in Launchers, Track(p)
    PROVE  TurnInv' /\ StopInv' /\ UserInv'
<1>1. /\ p \in Procs /\ pc[p] \in {"track"} /\ pc'[p] \in {"mark"}
      /\ \A q \in Procs : q # p => pc'[q] = pc[q] /\ turn'[q] = turn[q]
  BY DEF Inv, TypeInv, ProcTypes, Procs, Launchers, Posts, Track, Goto, procs
<1>2. UNCHANGED <<act, gate, reg, token, begun, task, pursues, orphan>>
  BY DEF Track, actor, registry, turns, history
<1>3. TurnInv'
  BY <1>1, <1>2, TurnsKept DEF KeepsTurns, Launching, Track
<1>4. StopInv'
  <2>1. at \in Nat /\ Launchers \subseteq Procs /\ Requests \subseteq Launchers
    BY DEF Inv, TypeInv, StoreTypes, BoundTypes, Procs, Launchers
  <2>2. UNCHANGED <<goal, status, at, failedAt, cand>>
    BY DEF Track, store, actor
  <2>3. \A t \in Turns : ~Known(t)'
    BY <1>1, <1>2, NothingKnown DEF Launching, Known
  <2>4. \A q \in Launchers : pc[q] \in Launching => q = p
    BY <1>1 DEF Inv, TurnInv, LaunchHoldsGate, Launching
  <2>5. KeepsPursuit
    BY <1>1, <1>2, <2>1, <2>2, <2>3, <2>4 DEF KeepsPursuit, Pursuing, Launching
  <2> QED BY <2>5, PursuitKept
<1>5. UserInv'
  <2>1. KeepsMessages
    BY <1>1, <1>2, GoalsAssumption DEF KeepsMessages, Pursuing, Known, Launching, Track,
       Launchers, Procs, Posts, store, actor, registry, maps, turns, procs, bounds, history
  <2> QED BY <2>1, MessagesKept
<1> QED BY <1>3, <1>4, <1>5

LEMMA MarkKeeps ==
    ASSUME Inv, TypeInv', NEW p \in Launchers, Mark(p)
    PROVE  TurnInv' /\ StopInv' /\ UserInv'
<1>1. /\ p \in Procs /\ pc[p] \in {"mark"} /\ pc'[p] \in {"append", "undo"}
      /\ \A q \in Procs : q # p => pc'[q] = pc[q] /\ turn'[q] = turn[q]
  BY DEF Inv, TypeInv, ProcTypes, Procs, Launchers, Posts, Mark, Goto, procs
<1>2. UNCHANGED <<act, gate, reg, token, begun, task, pursues, orphan>>
  BY DEF Mark, actor, registry, turns, history
<1>3. TurnInv'
  BY <1>1, <1>2, TurnsKept DEF KeepsTurns, Launching, Mark
<1>4. StopInv'
  <2>1. UNCHANGED <<failedAt, tracked, fired, done, cand>> /\ Launchers \subseteq Procs
        /\ Requests \subseteq Launchers
    BY DEF Mark, actor, maps, registry, history, Procs, Launchers
  <2>2. /\ \A t \in Turns : ~Known(t)
        /\ \A q \in Launchers : pc[q] \in Launching => q = p
    BY <1>1, NothingKnown DEF Inv, TurnInv, LaunchHoldsGate, Launching
  <2>3. \A t \in Turns : ~Known(t)'
    BY <1>2, <2>2 DEF Known
  <2>4. \A q \in Launchers : pc'[q] \in {"append", "launch"} => q = p
    BY <1>1, <2>1, <2>2 DEF Launching
  <2>5. pc'[p] = "append" => failedAt <= at'
    <3>1. pc'[p] = "append" => ShouldContinue(cand[p])
      BY <1>1 DEF Mark, Goto, Inv, TypeInv, ProcTypes
    <3>2. ShouldContinue(cand[p]) => at' = clock
      BY DEF Mark, Becomes, Touched
    <3>3. failedAt <= clock
      BY DEF Inv, TypeInv, ActorTypes, BoundTypes
    <3> QED BY <3>1, <3>2, <3>3
  <2> QED BY <1>1, <2>1, <2>3, <2>4, <2>5 DEF StopInv, PursuitIsTracked, PursuitIsNewer,
             LaunchIsPursued, StoppedGoalsStop, Pursuing, Known
<1>5. UserInv'
  <2>1. KeepsMessages
    BY <1>1, <1>2, GoalsAssumption DEF KeepsMessages, Pursuing, Known, Launching, Mark,
       Launchers, Procs, Posts, store, actor, registry, maps, turns, procs, bounds, history
  <2> QED BY <2>1, MessagesKept
<1> QED BY <1>3, <1>4, <1>5

LEMMA AppendStartKeeps ==
    ASSUME Inv, TypeInv', NEW p \in Launchers, AppendStart(p)
    PROVE  TurnInv' /\ StopInv' /\ UserInv'
<1>1. /\ p \in Procs /\ pc[p] \in {"append"} /\ pc'[p] \in {"launch", "undo"}
      /\ \A q \in Procs : q # p => pc'[q] = pc[q] /\ turn'[q] = turn[q]
  BY DEF Inv, TypeInv, ProcTypes, Procs, Launchers, Posts, AppendStart, Goto, procs
<1>2. UNCHANGED <<act, gate, reg, token, begun, task, pursues, orphan>>
  BY DEF AppendStart, actor, registry, turns, history
<1>3. TurnInv'
  BY <1>1, <1>2, TurnsKept DEF KeepsTurns, Launching, AppendStart
<1>4. StopInv'
  <2>1. UNCHANGED <<failedAt, tracked, fired, done, cand>> /\ Launchers \subseteq Procs
        /\ Requests \subseteq Launchers
    BY DEF AppendStart, actor, maps, registry, history, Procs, Launchers
  <2>2. /\ \A t \in Turns : ~Known(t)
        /\ \A q \in Launchers : pc[q] \in Launching => q = p
    BY <1>1, NothingKnown DEF Inv, TurnInv, LaunchHoldsGate, Launching
  <2>3. \A t \in Turns : ~Known(t)'
    BY <1>2, <2>2 DEF Known
  <2>4. \A q \in Launchers : pc'[q] \in {"append", "launch"} => q = p
    BY <1>1, <2>1, <2>2 DEF Launching
  <2>5. UNCHANGED <<goal, status, at, turn>>
    BY DEF AppendStart, store
  <2>6. pc'[p] = "launch" => Pursued(cand[p])
    <3>1. pc'[p] = "launch" => StillCurrent(p)
      BY <1>1 DEF AppendStart, Goto, Inv, TypeInv, ProcTypes
    <3> QED BY <3>1 DEF StillCurrent, Pursued
  <2>7. pc'[p] = "launch" /\ act' = turn'[p] => failedAt <= at
    BY <1>1, <1>2, <2>5 DEF Inv, StopInv, PursuitIsNewer
  <2>8. pc'[p] # "append"
    BY <1>1
  <2>9. PursuitIsNewer'
    BY <2>1, <2>3, <2>4, <2>5, <2>7, <2>8 DEF PursuitIsNewer, Pursuing
  <2>10. LaunchIsPursued'
    BY <2>1, <2>4, <2>5, <2>6 DEF LaunchIsPursued, Pursued, Current
  <2> QED BY <2>3, <2>9, <2>10 DEF StopInv, PursuitIsTracked, StoppedGoalsStop, Pursuing, Known
<1>5. UserInv'
  <2>1. KeepsMessages
    BY <1>1, <1>2, GoalsAssumption DEF KeepsMessages, Pursuing, Known, Launching, AppendStart,
       Launchers, Procs, Posts, store, actor, registry, maps, turns, procs, bounds, history
  <2> QED BY <2>1, MessagesKept
<1> QED BY <1>3, <1>4, <1>5

LEMMA LaunchKeeps ==
    ASSUME Inv, TypeInv', NEW p \in Launchers, Launch(p)
    PROVE  TurnInv' /\ StopInv' /\ UserInv'
<1>1. /\ p \in Procs /\ pc[p] = "launch"
      /\ \A q \in Procs : q # p => pc'[q] = pc[q] /\ turn'[q] = turn[q]
  BY DEF Inv, TypeInv, ProcTypes, Procs, Launch, Goto, Leave
<1>a. /\ \A t \in Turns : ~Known(t)
      /\ \A q \in Launchers : pc[q] \in Launching => q = p
      /\ gate = p /\ turn[p] \in Turns /\ turn[p] <= begun /\ task[turn[p]] = "none"
      /\ act \in {turn[p], None}
  BY <1>1, NothingKnown DEF Inv, TurnInv, LaunchHoldsGate, Launching
<1>b. UNCHANGED <<act, begun, orphan, goal, status, at, failedAt, waiting, tracked, fired, done,
                  missed>>
  BY DEF Launch, store, maps
<1>c. Launchers \subseteq Procs /\ Requests \subseteq Launchers /\ Users \subseteq Procs
      /\ p \notin Users
  BY GoalsAssumption DEF Procs, Launchers
<1>d. ASSUME ~Reserved(p)
      PROVE  /\ pc'[p] = "undo" /\ turn'[p] = turn[p]
             /\ UNCHANGED <<reg, token, task, pursues, gate, cand>>
  BY <1>1, <1>d DEF Launch, Goto, Inv, TypeInv, ProcTypes
<1>e. ASSUME Reserved(p)
      PROVE  /\ act = turn[p] /\ tracked = turn[p]
             /\ reg' = turn[p] /\ token' = turn[p] /\ gate' = Nobody
             /\ task'[turn[p]] = "running" /\ pursues'[turn[p]] = cand[p]
             /\ \A t \in Turns : t # turn[p] => task'[t] = task[t] /\ pursues'[t] = pursues[t]
             /\ pc'[p] = "done"
  BY <1>1, <1>a, <1>e DEF Launch, Leave, Goto, Reserved, Inv, TypeInv, ProcTypes, TurnTypes
<1>3. TurnInv'
  <2>1. CASE ~Reserved(p)
    <3>1. KeepsTurns
      BY <1>1, <1>b, <1>d, <2>1 DEF KeepsTurns, Launching
    <3> QED BY <3>1, TurnsKept
  <2>2. CASE Reserved(p)
    <3>1. KnownIsCurrent'
      BY <1>a, <1>b, <1>e, <2>2 DEF KnownIsCurrent, Known
    <3>2. \A q \in Launchers : pc'[q] \notin Launching
      BY <1>1, <1>a, <1>c, <1>e, <2>2 DEF Launching
    <3>3. FreshTurns'
      <4>1. turn[p] \in Nat /\ begun \in Nat
        BY <1>a DEF Turns, Inv, TypeInv, TurnTypes, Ids, None
      <4> QED BY <1>a, <1>b, <1>e, <2>2, <4>1 DEF Inv, TurnInv, FreshTurns, Turns
    <3>4. PostsWait'
      <4>1. \A t \in Turns : Post(t) \in Procs
        BY DEF Procs, Launchers, Posts
      <4> QED BY <1>1, <1>a, <1>e, <2>2, <4>1 DEF Inv, TurnInv, PostsWait
    <3>5. ReservationIsReturned'
      BY <1>b, <1>e, <2>2 DEF ReservationIsReturned, Alive
    <3> QED BY <3>1, <3>2, <3>3, <3>4, <3>5 DEF TurnInv, LaunchHoldsGate
  <2> QED BY <2>1, <2>2
<1>4. StopInv'
  <2>1. CASE ~Reserved(p)
    <3>1. at \in Nat
      BY DEF Inv, TypeInv, StoreTypes, BoundTypes
    <3>2. KeepsPursuit
      BY <1>1, <1>a, <1>b, <1>c, <1>d, <2>1, <3>1 DEF KeepsPursuit, Pursuing, Known
    <3> QED BY <3>2, PursuitKept
  <2>2. CASE Reserved(p)
    <3>1. \A t \in Turns : Known(t)' => t = turn[p]
      BY <1>a, <1>b, <1>e, <2>2 DEF Known
    <3>2. \A q \in Launchers : pc'[q] \notin Launching
      BY <1>1, <1>a, <1>c, <1>e, <2>2 DEF Launching
    <3>3. failedAt <= at
      BY <1>1, <1>e, <2>2 DEF Inv, StopInv, PursuitIsNewer
    <3>4. PursuitIsTracked'
      BY <1>b, <1>e, <2>2, <3>1 DEF PursuitIsTracked, Pursuing
    <3>5. PursuitIsNewer' /\ LaunchIsPursued'
      BY <1>b, <3>2, <3>3 DEF PursuitIsNewer, LaunchIsPursued, Launching
    <3>6. StoppedGoalsStop'
      <4>0. PICK x \in Turns : x = turn[p]
        BY <1>a
      <4> SUFFICES ASSUME Pursuing(x)'
                   PROVE  \/ Pursued(pursues[x])' \/ x \in done' \/ Stopping(x)'
        BY <3>1, <4>0 DEF StoppedGoalsStop, Pursuing, Known
      <4>1. Pursued(cand[p]) \/ turn[p] \in done \/ \E r \in Requests : pc[r] = "interrupt"
        BY <1>1, <1>e, <2>2 DEF Inv, StopInv, LaunchIsPursued
      <4>2. \A r \in Requests : pc[r] = "interrupt" => pc'[r] = "interrupt"
        BY <1>1, <1>c
      <4>3. pursues'[x] = cand[p] /\ UNCHANGED <<goal, status, done>>
        BY <1>b, <1>e, <2>2, <4>0
      <4>4. pursues'[x] # None
        BY DEF Pursuing
      <4> QED BY <4>0, <4>1, <4>2, <4>3, <4>4 DEF Stopping, Pursued, Current
    <3> QED BY <3>4, <3>5, <3>6 DEF StopInv
  <2> QED BY <2>1, <2>2
<1>5. UserInv'
  <2>1. CASE ~Reserved(p)
    <3>1. KeepsMessages
      BY <1>1, <1>a, <1>b, <1>c, <1>d, <2>1 DEF KeepsMessages, Pursuing, Known, Launching
    <3> QED BY <3>1, MessagesKept
  <2>2. CASE Reserved(p)
    <3>1. \A t \in Turns : Known(t)' => t = turn[p]
      BY <1>a, <1>b, <1>e, <2>2 DEF Known
    <3>2. \A q \in Launchers : pc'[q] \notin Launching
      BY <1>1, <1>a, <1>c, <1>e, <2>2 DEF Launching
    <3>3. ASSUME waiting > 0 PROVE turn[p] \in missed \/ Preempting(turn[p])
      BY <1>1, <1>e, <2>2, <3>3 DEF Inv, UserInv, LaunchIsPreempted, Launching
    <3>4. Preempting(turn[p]) => \E u \in Users : pc'[u] = "preempt" /\ turn'[u] = turn[p]
      BY <1>1, <1>c DEF Preempting
    <3>5. UserComesFirst'
      BY <1>b, <3>1, <3>3, <3>4 DEF UserComesFirst, Known
    <3> QED BY <3>2, <3>5 DEF UserInv, LaunchIsPreempted
  <2> QED BY <2>1, <2>2
<1> QED BY <1>3, <1>4, <1>5

LEMMA UndoKeeps ==
    ASSUME Inv, TypeInv', NEW p \in Launchers, Undo(p)
    PROVE  TurnInv' /\ StopInv' /\ UserInv'
<1>1. /\ p \in Procs /\ pc[p] \in {"undo"} /\ pc'[p] \in {"done"}
      /\ \A q \in Procs : q # p => pc'[q] = pc[q] /\ turn'[q] = turn[q]
  BY DEF Inv, TypeInv, ProcTypes, Procs, Launchers, Posts, Undo, Goto, procs, Leave
<1>3. TurnInv'
  <2>1. UNCHANGED <<reg, begun, task, pursues, orphan>> /\ gate' = Nobody
    BY DEF Undo, turns, history
  <2>2. /\ \A q \in Launchers : pc[q] \in Launching => q = p
        /\ \A t \in Turns : ~Known(t)
        /\ act \in {turn[p], None}
    BY <1>1, NothingKnown DEF Inv, TurnInv, LaunchHoldsGate, Launching
  <2>3. \A q \in Launchers : pc'[q] \notin Launching
    BY <1>1, <2>2 DEF Launching, Procs
  <2>4. act' = None
    BY <2>2 DEF Undo, Returned
  <2>5. PostsWait'
    <3>1. \A t \in Turns : Post(t) \in Procs
      BY DEF Procs, Launchers, Posts
    <3> QED BY <1>1, <2>1, <3>1 DEF Inv, TurnInv, PostsWait
  <2>6. KnownIsCurrent' /\ FreshTurns'
    BY <2>1, <2>2 DEF KnownIsCurrent, Known, Inv, TurnInv, FreshTurns
  <2> QED BY <2>3, <2>4, <2>5, <2>6 DEF TurnInv, LaunchHoldsGate, ReservationIsReturned
<1>4. StopInv'
  <2>1. at \in Nat /\ Launchers \subseteq Procs /\ Requests \subseteq Launchers
    BY DEF Inv, TypeInv, StoreTypes, BoundTypes, Procs, Launchers
  <2>2. UNCHANGED <<goal, status, at, task, orphan>>
    BY DEF Undo, store, turns
  <2>3. /\ \A q \in Launchers : pc[q] \in Launching => q = p
        /\ \A t \in Turns : ~Known(t)
    BY <1>1, NothingKnown DEF Inv, TurnInv, LaunchHoldsGate, Launching
  <2>4. KeepsPursuit
    BY <1>1, <2>1, <2>2, <2>3 DEF KeepsPursuit, Pursuing, Known, Launching
  <2> QED BY <2>4, PursuitKept
<1>5. UserInv'
  <2>1. /\ UNCHANGED <<waiting, task, orphan>>
        /\ Launchers \subseteq Procs /\ Users \subseteq Procs /\ p \notin Users
    BY GoalsAssumption DEF Undo, turns, Procs
  <2>2. /\ \A q \in Launchers : pc[q] \in Launching => q = p
        /\ \A t \in Turns : ~Known(t)
    BY <1>1, NothingKnown DEF Inv, TurnInv, LaunchHoldsGate, Launching
  <2>3. KeepsMessages
    BY <1>1, <2>1, <2>2 DEF KeepsMessages, Pursuing, Known, Launching
  <2> QED BY <2>3, MessagesKept
<1> QED BY <1>3, <1>4, <1>5

LEMMA ModelCompletesKeeps ==
    ASSUME Inv, TypeInv', NEW t \in Turns, ModelCompletes(t)
    PROVE  TurnInv' /\ StopInv' /\ UserInv'
<1>1. UNCHANGED <<pc, turn, cand>>
  BY DEF ModelCompletes, procs
<1>2. UNCHANGED <<act, gate, reg, token, begun, task, pursues, orphan>>
  BY DEF ModelCompletes, actor, registry, turns, history
<1>3. TurnInv'
  BY <1>1, <1>2, TurnsKept DEF KeepsTurns, Launching
<1>4. StopInv'
  <2>1. \A u \in Turns : Known(u) => u \in done'
    BY DEF ModelCompletes, Known
  <2>2. \A u \in Turns : u = tracked => u \in done'
    BY DEF ModelCompletes
  <2>3. UNCHANGED <<failedAt, fired>> /\ tracked' \in {tracked, None}
    BY DEF ModelCompletes, Untrack, maps, actor, registry
  <2>4. at' >= at /\ at \in Nat /\ failedAt \in Nat /\ at' \in Nat
    BY DEF ModelCompletes, Becomes, Touched, Inv, TypeInv, StoreTypes, ActorTypes, BoundTypes
  <2>5. PursuitIsTracked' /\ StoppedGoalsStop'
    BY <1>2, <2>1 DEF PursuitIsTracked, StoppedGoalsStop, Pursuing, Known
  <2>6. PursuitIsNewer'
    BY <1>1, <1>2, <2>3, <2>4 DEF Inv, StopInv, PursuitIsNewer, Pursuing, Known
  <2>7. LaunchIsPursued'
    <3>1. \A p \in Launchers : pc[p] = "launch" => turn[p] \in Turns /\ turn[p] # None
      BY DEF Inv, TurnInv, LaunchHoldsGate, Launching, Turns, None
    <3> QED BY <1>1, <2>2, <2>3, <3>1 DEF LaunchIsPursued
  <2> QED BY <2>5, <2>6, <2>7 DEF StopInv
<1>5. UserInv'
  <2>1. KeepsMessages
    BY <1>1, <1>2, GoalsAssumption DEF KeepsMessages, Pursuing, Known, Launching,
       ModelCompletes, Launchers, Procs, Posts, store, actor, registry, maps, turns, procs,
       bounds, history
  <2> QED BY <2>1, MessagesKept
<1> QED BY <1>3, <1>4, <1>5

LEMMA EndQueryKeeps ==
    ASSUME Inv, TypeInv', NEW t \in Turns, EndQuery(t)
    PROVE  TurnInv' /\ StopInv' /\ UserInv'
<1>1. UNCHANGED <<pc, turn, cand>>
  BY DEF EndQuery, procs
<1>3. TurnInv'
  <2>1. /\ task[t] = "running" /\ task' = [task EXCEPT ![t] = "stamped"]
        /\ UNCHANGED <<act, gate, reg, token, begun, pursues, orphan>>
    BY DEF EndQuery, actor, registry, history
  <2>2. task'[t] = "stamped" /\ \A u \in Turns : u # t => task'[u] = task[u]
    BY <2>1 DEF Inv, TypeInv, TurnTypes
  <2>3. KnownIsCurrent' /\ FreshTurns'
    BY <2>1, <2>2 DEF Inv, TurnInv, KnownIsCurrent, Known, FreshTurns
  <2>4. LaunchHoldsGate' /\ PostsWait'
    BY <1>1, <2>1, <2>2 DEF Inv, TurnInv, LaunchHoldsGate, PostsWait
  <2>5. ReservationIsReturned'
    <3>1. act # None => act \in Turns
      BY DEF Inv, TypeInv, ActorTypes, Ids
    <3> QED BY <1>1, <2>1, <2>2, <3>1 DEF Inv, TurnInv, ReservationIsReturned, Alive
  <2> QED BY <2>3, <2>4, <2>5 DEF TurnInv
<1>4. StopInv'
  <2>1. /\ UNCHANGED <<goal, status, at, failedAt, tracked, orphan, pursues, act>> /\ at \in Nat
        /\ task[t] = "running"
    BY DEF EndQuery, store, actor, maps, Inv, TypeInv, StoreTypes, BoundTypes
  <2>2. task'[t] = "stamped" /\ \A u \in Turns : u # t => task'[u] = task[u]
    BY DEF EndQuery, Inv, TypeInv, TurnTypes
  <2>3. fired' = fired \ {t} /\ done' = done \ {t}
    BY DEF EndQuery
  <2>4. \A q \in Launchers : pc[q] \in Launching => turn[q] # t
    BY <2>1 DEF Inv, TurnInv, LaunchHoldsGate
  <2>5. KeepsPursuit
    BY <1>1, <2>1, <2>2, <2>3, <2>4 DEF KeepsPursuit, Pursuing, Known, Launching
  <2> QED BY <2>5, PursuitKept
<1>5. UserInv'
  <2>1. UNCHANGED <<waiting, orphan, pursues, act>> /\ task[t] = "running"
    BY DEF EndQuery, actor
  <2>2. task'[t] = "stamped" /\ \A u \in Turns : u # t => task'[u] = task[u]
    BY DEF EndQuery, Inv, TypeInv, TurnTypes
  <2>3. fired' = fired \ {t} /\ missed' = missed \ {t}
    BY DEF EndQuery
  <2>4. \A q \in Launchers : pc[q] \in Launching => turn[q] # t
    BY <2>1 DEF Inv, TurnInv, LaunchHoldsGate
  <2>5. KeepsMessages
    BY <1>1, <2>1, <2>2, <2>3, <2>4 DEF KeepsMessages, Pursuing, Known
  <2> QED BY <2>5, MessagesKept
<1> QED BY <1>3, <1>4, <1>5

LEMMA AccountKeeps ==
    ASSUME Inv, TypeInv', NEW t \in Turns, Account(t)
    PROVE  TurnInv' /\ StopInv' /\ UserInv'
<1>1. UNCHANGED <<pc, turn, cand>>
  BY DEF Account, procs
<1>3. TurnInv'
  <2>1. /\ task[t] = "stamped" /\ task' = [task EXCEPT ![t] = "recorded"]
        /\ UNCHANGED <<act, gate, reg, token, begun, pursues, orphan>>
    BY DEF Account, actor, registry, history
  <2>2. task'[t] = "recorded" /\ \A u \in Turns : u # t => task'[u] = task[u]
    BY <2>1 DEF Inv, TypeInv, TurnTypes
  <2>3. KnownIsCurrent' /\ FreshTurns'
    BY <2>1, <2>2 DEF Inv, TurnInv, KnownIsCurrent, Known, FreshTurns
  <2>4. LaunchHoldsGate' /\ PostsWait'
    BY <1>1, <2>1, <2>2 DEF Inv, TurnInv, LaunchHoldsGate, PostsWait
  <2>5. ReservationIsReturned'
    <3>1. act # None => act \in Turns
      BY DEF Inv, TypeInv, ActorTypes, Ids
    <3> QED BY <1>1, <2>1, <2>2, <3>1 DEF Inv, TurnInv, ReservationIsReturned, Alive
  <2> QED BY <2>3, <2>4, <2>5 DEF TurnInv
<1>4. StopInv'
  <2>1. UNCHANGED <<goal, status, failedAt, tracked, fired, done, orphan, pursues, act>>
    BY DEF Account, store, actor, registry, history
  <2>2. at' >= at
    <3>1. at' = at \/ at' = clock
      BY DEF Account, store, Touched
    <3> QED BY <3>1 DEF Inv, TypeInv, StoreTypes, BoundTypes
  <2>3. task'[t] = "recorded" /\ \A u \in Turns : u # t => task'[u] = task[u]
    BY DEF Account, Inv, TypeInv, TurnTypes
  <2>4. KeepsPursuit
    BY <1>1, <2>1, <2>2, <2>3 DEF KeepsPursuit, Pursuing, Known
  <2> QED BY <2>4, PursuitKept
<1>5. UserInv'
  <2>1. KeepsMessages
    BY <1>1, GoalsAssumption DEF KeepsMessages, Pursuing, Known, Launching, Account, Launchers,
       Procs, Posts, store, actor, registry, maps, turns, procs, bounds, history
  <2> QED BY <2>1, MessagesKept
<1> QED BY <1>3, <1>4, <1>5

LEMMA MergeKeeps ==
    ASSUME Inv, TypeInv', NEW t \in Turns, Merge(t)
    PROVE  TurnInv' /\ StopInv' /\ UserInv'
<1>1. UNCHANGED <<pc, turn, cand>>
  BY DEF Merge, procs
<1>3. TurnInv'
  <2>1. /\ act' = None /\ UNCHANGED <<gate, reg, token, begun, pursues>>
        /\ orphan' = orphan \cup Forget(act, t) /\ task[t] = "recorded"
    BY DEF Merge, registry
  <2>2. task'[t] = "merged" /\ \A u \in Turns : u # t => task'[u] = task[u]
    BY DEF Merge, Inv, TypeInv, TurnTypes
  <2>3. \A u \in Turns : ~Known(u)'
    BY <2>1, <2>2 DEF Inv, TurnInv, KnownIsCurrent, Known, Forget, Turns, None
  <2>4. LaunchHoldsGate' /\ PostsWait' /\ FreshTurns'
    BY <1>1, <2>1, <2>2 DEF Inv, TurnInv, LaunchHoldsGate, PostsWait, FreshTurns
  <2> QED BY <2>1, <2>3, <2>4 DEF TurnInv, KnownIsCurrent, ReservationIsReturned
<1>4. StopInv'
  <2>1. UNCHANGED <<goal, status, at>> /\ at \in Nat /\ act' = None
    BY DEF Merge, store, Inv, TypeInv, StoreTypes, BoundTypes
  <2>2. /\ orphan' = orphan \cup Forget(act, t) /\ task[t] = "recorded"
        /\ task'[t] = "merged" /\ \A u \in Turns : u # t => task'[u] = task[u]
    BY DEF Merge, Inv, TypeInv, TurnTypes
  <2>3. \A u \in Turns : ~Known(u)'
    BY <2>2 DEF Inv, TurnInv, KnownIsCurrent, Known, Forget, Turns, None
  <2>4. \A q \in Launchers : pc[q] \in Launching => turn[q] # None
    BY DEF Inv, TurnInv, LaunchHoldsGate, Turns, None
  <2>5. KeepsPursuit
    BY <1>1, <2>1, <2>3, <2>4 DEF KeepsPursuit, Pursuing, Launching
  <2> QED BY <2>5, PursuitKept
<1>5. UserInv'
  <2>1. UNCHANGED waiting /\ act' = None
    BY DEF Merge
  <2>2. /\ orphan' = orphan \cup Forget(act, t) /\ task[t] = "recorded"
        /\ task'[t] = "merged" /\ \A u \in Turns : u # t => task'[u] = task[u]
    BY DEF Merge, Inv, TypeInv, TurnTypes
  <2>3. \A u \in Turns : ~Known(u)'
    BY <2>2 DEF Inv, TurnInv, KnownIsCurrent, Known, Forget, Turns, None
  <2>4. \A q \in Launchers : pc[q] \in Launching => turn[q] # None
    BY DEF Inv, TurnInv, LaunchHoldsGate, Turns, None
  <2>5. KeepsMessages
    BY <1>1, <2>1, <2>3, <2>4 DEF KeepsMessages, Pursuing
  <2> QED BY <2>5, MessagesKept
<1> QED BY <1>3, <1>4, <1>5

LEMMA ClearHandlesKeeps ==
    ASSUME Inv, TypeInv', NEW t \in Turns, ClearHandles(t)
    PROVE  TurnInv' /\ StopInv' /\ UserInv'
<1>a. /\ Post(t) \in Procs /\ pc[Post(t)] = "none" /\ pc'[Post(t)] = "settle"
      /\ \A q \in Procs : q # Post(t) => pc'[q] = pc[q] /\ turn'[q] = turn[q]
  <2>1. Post(t) \in Procs /\ task[t] = "merged"
    BY DEF Procs, Launchers, Posts, ClearHandles
  <2>2. pc[Post(t)] = "none"
    BY <2>1 DEF Inv, TurnInv, PostsWait
  <2> QED BY <2>1, <2>2 DEF Inv, TypeInv, ProcTypes, ClearHandles, Goto
<1>b. /\ task[t] = "merged" /\ task'[t] = "over" /\ pursues'[t] = None
      /\ \A u \in Turns : u # t => task'[u] = task[u] /\ pursues'[u] = pursues[u]
      /\ reg' = None /\ token' = None /\ orphan' = (orphan \cup Forget(reg, t)) \ {t}
      /\ UNCHANGED <<act, gate, begun, turn, cand>>
  BY DEF ClearHandles, Gone, Inv, TypeInv, TurnTypes, actor
<1>c. \A u \in Turns : ~Known(u)'
  BY <1>b DEF Inv, TurnInv, KnownIsCurrent, Known, Forget, Turns, None
<1>d. \A q \in Procs : q # Post(t) => (pc'[q] \in Launching <=> pc[q] \in Launching)
  BY <1>a
<1>3. TurnInv'
  <2>1. FreshTurns'
    BY <1>b DEF Inv, TurnInv, FreshTurns
  <2>2. LaunchHoldsGate'
    BY <1>a, <1>b DEF Inv, TurnInv, LaunchHoldsGate, Launching, Procs
  <2>3. PostsWait'
    BY <1>a, <1>b DEF Inv, TurnInv, PostsWait, Procs, Launchers, Posts, Post
  <2>4. ReservationIsReturned'
    <3>1. act # None => act \in Turns
      BY DEF Inv, TypeInv, ActorTypes, Ids
    <3> QED BY <1>a, <1>b, <3>1 DEF Inv, TurnInv, ReservationIsReturned, Alive, Launching, Procs
  <2> QED BY <1>c, <2>1, <2>2, <2>3, <2>4 DEF TurnInv, KnownIsCurrent
<1>4. StopInv'
  <2>1. UNCHANGED <<goal, status, at, failedAt, tracked, done>> /\ at \in Nat
    BY DEF ClearHandles, store, actor, maps, Inv, TypeInv, StoreTypes, BoundTypes
  <2>2. Requests \subseteq Procs /\ Launchers \subseteq Procs
    BY DEF Procs, Launchers
  <2>3. KeepsPursuit
    BY <1>a, <1>b, <1>c, <2>1, <2>2 DEF KeepsPursuit, Pursuing
  <2> QED BY <2>3, PursuitKept
<1>5. UserInv'
  <2>1. UNCHANGED <<waiting, missed>> /\ Users \subseteq Procs /\ Launchers \subseteq Procs
    BY DEF ClearHandles, actor, Procs
  <2>2. KeepsMessages
    BY <1>a, <1>b, <1>c, <2>1 DEF KeepsMessages, Pursuing, Launching
  <2> QED BY <2>2, MessagesKept
<1> QED BY <1>3, <1>4, <1>5

LEMMA SettleKeeps ==
    ASSUME Inv, TypeInv', NEW t \in Turns, Settle(t)
    PROVE  TurnInv' /\ StopInv' /\ UserInv'
<1>1. /\ Post(t) \in Procs /\ pc[Post(t)] \in {"settle"} /\ pc'[Post(t)] \in {"recover"}
      /\ \A q \in Procs : q # Post(t) => pc'[q] = pc[q] /\ turn'[q] = turn[q]
  BY DEF Inv, TypeInv, ProcTypes, Procs, Launchers, Posts, Settle, Goto, procs
<1>2. UNCHANGED <<act, gate, reg, token, begun, task, pursues, orphan>>
  BY DEF Settle, actor, registry, turns, history
<1>3. TurnInv'
  BY <1>1, <1>2, TurnsKept DEF KeepsTurns, Launching
<1>4. StopInv'
  <2>1. UNCHANGED <<failedAt, tracked, fired, done, cand>> /\ Launchers \subseteq Procs
        /\ Requests \subseteq Launchers
    BY DEF Settle, actor, maps, registry, history, Procs, Launchers
  <2>2. /\ at \in Nat /\ failedAt \in Nat /\ at' >= at
        /\ Suppressed \/ UNCHANGED <<goal, status, at>>
        /\ goal' = goal
    <3>1. /\ at' = at \/ at' = clock
          /\ Suppressed \/ UNCHANGED <<goal, status, at>>
          /\ goal' = goal
      BY DEF Settle, SuppressGoal, Becomes, Touched, store
    <3>2. clock >= at /\ at >= at /\ at \in Nat /\ failedAt \in Nat
      BY DEF Inv, TypeInv, StoreTypes, ActorTypes, BoundTypes
    <3> QED BY <3>1, <3>2
  <2>3. CASE Suppressed
    <3>1. ~(failedAt <= at)
      BY <2>2, <2>3 DEF Suppressed, FailedSince
    <3>2. \A u \in Turns : ~Pursuing(u)
      BY <3>1 DEF Inv, StopInv, PursuitIsNewer
    <3>3. \A q \in Launchers : ~(pc[q] \in {"append", "launch"} /\ act = turn[q])
      BY <3>1 DEF Inv, StopInv, PursuitIsNewer
    <3>4. \A u \in Turns : ~Pursuing(u)'
      BY <1>2, <3>2 DEF Pursuing, Known
    <3>5. \A q \in Launchers : ~(pc'[q] \in {"append", "launch"} /\ act' = turn'[q])
      BY <1>1, <1>2, <2>1, <3>3
    <3> QED BY <3>4, <3>5 DEF StopInv, PursuitIsTracked, PursuitIsNewer, LaunchIsPursued,
               StoppedGoalsStop, Pursuing, Known
  <2>4. CASE UNCHANGED <<goal, status, at>>
    <3>1. KeepsPursuit
      BY <1>1, <1>2, <2>1, <2>2, <2>4 DEF KeepsPursuit, Pursuing, Known
    <3> QED BY <3>1, PursuitKept
  <2> QED BY <2>2, <2>3, <2>4
<1>5. UserInv'
  <2>1. KeepsMessages
    BY <1>1, <1>2, GoalsAssumption DEF KeepsMessages, Pursuing, Known, Launching, Settle,
       Launchers, Procs, Posts, store, actor, registry, maps, turns, procs, bounds, history
  <2> QED BY <2>1, MessagesKept
<1> QED BY <1>3, <1>4, <1>5

LEMMA RecoverKeeps ==
    ASSUME Inv, TypeInv', NEW t \in Turns, Recover(t)
    PROVE  TurnInv' /\ StopInv' /\ UserInv'
<1>1. /\ Post(t) \in Procs /\ pc[Post(t)] \in {"recover"} /\ pc'[Post(t)] \in {"queue", "done"}
      /\ \A q \in Procs : q # Post(t) => pc'[q] = pc[q] /\ turn'[q] = turn[q]
  BY DEF Inv, TypeInv, ProcTypes, Procs, Launchers, Posts, Recover, Goto, procs
<1>2. UNCHANGED <<act, gate, reg, token, begun, task, pursues, orphan>>
  BY DEF Recover, actor, registry, turns, history
<1>3. TurnInv'
  BY <1>1, <1>2, TurnsKept DEF KeepsTurns, Launching
<1>4. StopInv'
  <2>1. KeepsPursuit
    BY <1>1, <1>2, GoalsAssumption DEF KeepsPursuit, Pursuing, Known, Recover, Launchers, Procs,
       Posts, Inv, TypeInv, StoreTypes, BoundTypes, store, actor, registry, maps, turns, procs,
       bounds, history
  <2> QED BY <2>1, PursuitKept
<1>5. UserInv'
  <2>1. KeepsMessages
    BY <1>1, <1>2, GoalsAssumption DEF KeepsMessages, Pursuing, Known, Launching, Recover,
       Launchers, Procs, Posts, store, actor, registry, maps, turns, procs, bounds, history
  <2> QED BY <2>1, MessagesKept
<1> QED BY <1>3, <1>4, <1>5

LEMMA DrainKeeps ==
    ASSUME Inv, TypeInv', NEW t \in Turns, Drain(t)
    PROVE  TurnInv' /\ StopInv' /\ UserInv'
<1>1. /\ Post(t) \in Procs /\ pc[Post(t)] = "queue" /\ pc'[Post(t)] \in {"suppress", "done"}
      /\ \A q \in Procs : q # Post(t) => pc'[q] = pc[q]
  BY DEF Inv, TypeInv, ProcTypes, Procs, Launchers, Posts, Drain, Goto
<1>2. UNCHANGED <<turn, cand, goal, status, at, tracked, done, missed>>
  BY DEF Drain, store, maps
<1>3. CASE StartUserTurn /\ gate = Nobody /\ waiting > 0 /\ waiting' = waiting - 1
           /\ pc'[Post(t)] = "done"
  BY <1>1, <1>2, <1>3, StartKeeps DEF TypeInv, HistoryTypes
<1>4. CASE UNCHANGED <<actor, registry, begun, task, res, stamp, pursues, orphan>>
  <2>1. UNCHANGED <<act, waiting, gate, failedAt, reg, token, fired, begun, task, pursues, orphan>>
    BY <1>4 DEF actor, registry
  <2>2. /\ Requests \subseteq Procs /\ Launchers \subseteq Procs /\ Users \subseteq Procs
        /\ at \in Nat
    BY DEF Procs, Launchers, Inv, TypeInv, StoreTypes, BoundTypes
  <2>3. KeepsTurns
    BY <1>1, <2>1, <1>2 DEF KeepsTurns, Launching
  <2>4. KeepsPursuit
    BY <1>1, <1>2, <2>1, <2>2 DEF KeepsPursuit, Pursuing, Known
  <2>5. KeepsMessages
    BY <1>1, <1>2, <2>1, <2>2 DEF KeepsMessages, Pursuing, Known, Launching
  <2> QED BY <2>3, <2>4, <2>5, TurnsKept, PursuitKept, MessagesKept
<1>5. Goto(Post(t), "done") => pc'[Post(t)] = "done"
  BY <1>1 DEF Goto, Inv, TypeInv, ProcTypes
<1> QED BY <1>3, <1>4, <1>5 DEF Drain, Drains

LEMMA SayKeeps ==
    ASSUME Inv, TypeInv', NEW u \in Users, Say(u)
    PROVE  TurnInv' /\ StopInv' /\ UserInv'
<1>1. /\ u \in Procs /\ pc[u] = "send" /\ pc'[u] = "done"
      /\ \A q \in Procs : q # u => pc'[q] = pc[q]
  BY DEF Inv, TypeInv, ProcTypes, Procs, Say, Goto
<1>2. UNCHANGED <<turn, goal, status, at, waiting>> /\ gate = Nobody /\ StartUserTurn
  BY DEF Say, store
<1> QED BY <1>1, <1>2, StartKeeps DEF TypeInv, HistoryTypes

LEMMA QueueKeeps ==
    ASSUME Inv, TypeInv', NEW u \in Users, Queue(u)
    PROVE  TurnInv' /\ StopInv' /\ UserInv'
<1>1. /\ u \in Procs /\ pc[u] \in {"send"} /\ pc'[u] \in {"preempt", "kick"}
      /\ \A q \in Procs : q # u => pc'[q] = pc[q] /\ turn'[q] = turn[q]
  BY DEF Inv, TypeInv, ProcTypes, Procs, Launchers, Posts, Queue, Goto, procs
<1>2. UNCHANGED <<act, gate, reg, token, begun, task, pursues, orphan>>
  BY DEF Queue, actor, registry, turns, history
<1>3. TurnInv'
  BY <1>1, <1>2, TurnsKept DEF KeepsTurns, Launching
<1>4. StopInv'
  <2>1. KeepsPursuit
    BY <1>1, <1>2, GoalsAssumption DEF KeepsPursuit, Pursuing, Known, Queue, Launchers, Procs,
       Posts, Inv, TypeInv, StoreTypes, BoundTypes, store, actor, registry, maps, turns, procs,
       bounds, history
  <2> QED BY <2>1, PursuitKept
<1>5. UserInv'
  <2>1. act # None /\ UNCHANGED <<fired, missed>>
    BY DEF Queue, registry, history
  <2>2. Preempts(act) => pc'[u] = "preempt" /\ turn'[u] = act
    BY <1>1 DEF Queue, Goto, Inv, TypeInv, ProcTypes
  <2>3. \A v \in Users : pc[v] = "preempt" => pc'[v] = "preempt" /\ turn'[v] = turn[v]
    BY <1>1 DEF Procs
  <2>4. \A q \in Launchers : q # u /\ q \in Procs
    BY GoalsAssumption DEF Procs
  <2>5. LaunchIsPreempted'
    <3> SUFFICES ASSUME NEW q \in Launchers, pc'[q] \in Launching, act' = turn'[q]
                 PROVE  Preempting(turn[q])'
      BY DEF LaunchIsPreempted
    <3>1. pc[q] \in Launching /\ turn[q] = act /\ turn'[q] = act
      BY <1>1, <1>2, <2>4
    <3>2. Preempts(act)
      BY <3>1 DEF Preempts, Inv, TurnInv, LaunchHoldsGate
    <3> QED BY <2>2, <3>1, <3>2 DEF Preempting
  <2>6. UserComesFirst'
    <3> SUFFICES ASSUME NEW t \in Turns, Pursuing(t)'
                 PROVE  Preempting(t)'
      BY DEF UserComesFirst, Pursuing, Known, Preempting
    <3>1. act = t /\ Preempts(t)
      BY <1>2 DEF Inv, TurnInv, KnownIsCurrent, Pursuing, Known, Preempts
    <3> QED BY <2>2, <3>1 DEF Preempting
  <2> QED BY <2>5, <2>6 DEF UserInv
<1> QED BY <1>3, <1>4, <1>5

LEMMA PreemptKeeps ==
    ASSUME Inv, TypeInv', NEW u \in Users, Preempt(u)
    PROVE  TurnInv' /\ StopInv' /\ UserInv'
<1>1. /\ u \in Procs /\ pc[u] \in {"preempt"} /\ pc'[u] \in {"kick"}
      /\ \A q \in Procs : q # u => pc'[q] = pc[q] /\ turn'[q] = turn[q]
  BY DEF Inv, TypeInv, ProcTypes, Procs, Launchers, Posts, Preempt, Goto, procs
<1>2. UNCHANGED <<act, gate, reg, token, begun, task, pursues, orphan>>
  BY DEF Preempt, actor, registry, turns, history
<1>3. TurnInv'
  BY <1>1, <1>2, TurnsKept DEF KeepsTurns, Launching
<1>4. StopInv'
  <2>1. KeepsPursuit
    BY <1>1, <1>2, GoalsAssumption DEF KeepsPursuit, Pursuing, Known, Preempt, Launchers, Procs,
       Posts, Inv, TypeInv, StoreTypes, BoundTypes, store, actor, registry, maps, turns, procs,
       bounds, history
  <2> QED BY <2>1, PursuitKept
<1>5. UserInv'
  <2>1. UNCHANGED waiting /\ fired \subseteq fired' /\ missed \subseteq missed'
    BY DEF Preempt, actor
  <2>2. \A v \in Users : v # u => pc'[v] = pc[v] /\ turn'[v] = turn[v]
    BY <1>1 DEF Procs
  <2>3. \A t \in Turns : Preempting(t) => Preempting(t)' \/ turn[u] = t
    BY <2>2 DEF Preempting
  <2>4. LaunchIsPreempted'
    <3> SUFFICES ASSUME waiting' > 0, NEW q \in Launchers, pc'[q] \in Launching,
                        act' = turn'[q]
                 PROVE  turn'[q] \in missed' \/ Preempting(turn[q])'
      BY DEF LaunchIsPreempted
    <3>1. pc[q] \in Launching /\ turn[q] = act /\ turn'[q] = act
      BY <1>1, <1>2, GoalsAssumption DEF Procs
    <3>2. act \in missed \/ Preempting(act)
      BY <2>1, <3>1 DEF Inv, UserInv, LaunchIsPreempted
    <3>3. act \in Turns /\ task[act] = "none"
      BY <3>1 DEF Inv, TurnInv, LaunchHoldsGate
    <3>4. turn[u] = act => act \in missed'
      BY <3>3 DEF Preempt
    <3> QED BY <2>1, <2>3, <3>1, <3>2, <3>3, <3>4
  <2>5. UserComesFirst'
    <3> SUFFICES ASSUME waiting' > 0, NEW t \in Turns, Pursuing(t)'
                 PROVE  t \in fired' \cup missed' \/ Preempting(t)'
      BY DEF UserComesFirst, Pursuing, Known, Preempting
    <3>1. Pursuing(t)
      BY <1>2 DEF Pursuing, Known
    <3>2. t \in fired \cup missed \/ Preempting(t)
      BY <2>1, <3>1 DEF Inv, UserInv, UserComesFirst, Pursuing, Known, Preempting
    <3>3. turn[u] = t => t \in fired'
      BY <3>1 DEF Preempt, Watched, Ended, Pursuing, Known, Inv, TurnInv, KnownIsCurrent
    <3> QED BY <2>1, <2>3, <3>2, <3>3
  <2> QED BY <2>4, <2>5 DEF UserInv
<1> QED BY <1>3, <1>4, <1>5

LEMMA KickKeeps ==
    ASSUME Inv, TypeInv', NEW u \in Users, Kick(u)
    PROVE  TurnInv' /\ StopInv' /\ UserInv'
<1>1. /\ u \in Procs /\ pc[u] = "kick" /\ pc'[u] = "done"
      /\ \A q \in Procs : q # u => pc'[q] = pc[q]
  BY DEF Inv, TypeInv, ProcTypes, Procs, Kick, Goto
<1>2. UNCHANGED <<turn, cand, goal, status, at, tracked, done, missed>>
  BY DEF Kick, store, maps
<1>3. CASE StartUserTurn /\ gate = Nobody /\ waiting > 0 /\ waiting' = waiting - 1
           /\ pc'[u] = "done"
  BY <1>1, <1>2, <1>3, StartKeeps DEF TypeInv, HistoryTypes
<1>4. CASE UNCHANGED <<actor, registry, begun, task, res, stamp, pursues, orphan>>
  <2>1. UNCHANGED <<act, waiting, gate, failedAt, reg, token, fired, begun, task, pursues, orphan>>
    BY <1>4 DEF actor, registry
  <2>2. /\ Requests \subseteq Procs /\ Launchers \subseteq Procs /\ Users \subseteq Procs
        /\ at \in Nat
    BY DEF Procs, Launchers, Inv, TypeInv, StoreTypes, BoundTypes
  <2>3. KeepsTurns
    BY <1>1, <2>1, <1>2 DEF KeepsTurns, Launching
  <2>4. KeepsPursuit
    BY <1>1, <1>2, <2>1, <2>2 DEF KeepsPursuit, Pursuing, Known
  <2>5. KeepsMessages
    BY <1>1, <1>2, <2>1, <2>2 DEF KeepsMessages, Pursuing, Known, Launching
  <2> QED BY <2>3, <2>4, <2>5, TurnsKept, PursuitKept, MessagesKept
<1> QED BY <1>1, <1>3, <1>4 DEF Kick

LEMMA EscapeKeeps ==
    ASSUME Inv, TypeInv', Escape
    PROVE  TurnInv' /\ StopInv' /\ UserInv'
<1>1. UNCHANGED <<pc, turn, cand>>
  BY DEF Escape, procs
<1>2. UNCHANGED <<act, gate, reg, token, begun, task, pursues, orphan>>
  BY DEF Escape, actor, registry, turns, history
<1>3. TurnInv'
  BY <1>1, <1>2, TurnsKept DEF KeepsTurns, Launching
<1>4. StopInv'
  <2>1. KeepsPursuit
    BY <1>1, <1>2, GoalsAssumption DEF KeepsPursuit, Pursuing, Known, Escape, Launchers, Procs,
       Posts, Inv, TypeInv, StoreTypes, BoundTypes, store, actor, registry, maps, turns, procs,
       bounds, history
  <2> QED BY <2>1, PursuitKept
<1>5. UserInv'
  <2>1. KeepsMessages
    BY <1>1, <1>2, GoalsAssumption DEF KeepsMessages, Pursuing, Known, Launching, Escape,
       Launchers, Procs, Posts, store, actor, registry, maps, turns, procs, bounds, history
  <2> QED BY <2>1, MessagesKept
<1> QED BY <1>3, <1>4, <1>5

LEMMA StutterKeeps ==
    ASSUME Inv, TypeInv', UNCHANGED vars
    PROVE  TurnInv' /\ StopInv' /\ UserInv'
<1> USE DEF vars, store, actor, registry, maps, turns, procs, bounds, history
<1>1. at \in Nat
  BY DEF Inv, TypeInv, StoreTypes, BoundTypes
<1>2. KeepsTurns
  BY DEF KeepsTurns
<1>3. KeepsPursuit
  BY <1>1 DEF KeepsPursuit, Pursuing, Known
<1>4. KeepsMessages
  BY DEF KeepsMessages, Pursuing, Known
<1> QED BY <1>2, <1>3, <1>4, TurnsKept, PursuitKept, MessagesKept

LEMMA NextInv == Inv /\ [Next]_vars => Inv'
<1> SUFFICES ASSUME Inv, [Next]_vars PROVE Inv'
  OBVIOUS
<1>1. TypeInv'
  BY NextTypes DEF Inv
<1>2. TurnInv' /\ StopInv' /\ UserInv'
  <2>1. ASSUME NEW r \in Requests, Request(r) PROVE TurnInv' /\ StopInv' /\ UserInv'
    BY <1>1, <2>1, CommitKeeps, InterruptKeeps, ProbeKeeps, SignalKeeps, FollowKeeps DEF Request
  <2>2. ASSUME NEW p \in Launchers, Continuation(p) PROVE TurnInv' /\ StopInv' /\ UserInv'
    BY <1>1, <2>2, SuppressKeeps, ChooseKeeps, BeginKeeps, TrackKeeps, MarkKeeps,
       AppendStartKeeps, LaunchKeeps, UndoKeeps DEF Continuation
  <2>3. ASSUME NEW t \in Turns, Turn(t) \/ PostTurn(t)
        PROVE  TurnInv' /\ StopInv' /\ UserInv'
    BY <1>1, <2>3, ModelCompletesKeeps, EndQueryKeeps, AccountKeeps, MergeKeeps,
       ClearHandlesKeeps, SettleKeeps, RecoverKeeps, DrainKeeps DEF Turn, PostTurn
  <2>4. ASSUME NEW u \in Users, Message(u) PROVE TurnInv' /\ StopInv' /\ UserInv'
    BY <1>1, <2>4, SayKeeps, QueueKeeps, PreemptKeeps, KickKeeps DEF Message
  <2>5. CASE Escape
    BY <1>1, <2>5, EscapeKeeps
  <2>6. CASE UNCHANGED vars
    BY <1>1, <2>6, StutterKeeps
  <2> QED BY <2>1, <2>2, <2>3, <2>4, <2>5, <2>6 DEF Next, Rest
<1> QED BY <1>1, <1>2 DEF Inv

LEMMA AlwaysInv == Spec => []Inv
BY InitInv, NextInv, PTL DEF Spec

\* A goal that is paused, finished, cleared or replaced takes its continuation
\* turn with it: whoever changes the goal finds the turn by the tracked id, and
\* a launch that is not registered yet finds itself untracked.
THEOREM StopsWithGoal == Spec => []StoppedGoalsStop
<1>1. Inv => StoppedGoalsStop
  BY DEF Inv, StopInv
<1> QED BY <1>1, AlwaysInv, PTL

\* A launch that is given up at any point returns its reservation: the session's
\* active turn always runs, or is about to be launched or given up.
THEOREM ReturnsReservation == Spec => []ReservationIsReturned
<1>1. Inv => ReservationIsReturned
  BY DEF Inv, TurnInv
<1> QED BY <1>1, AlwaysInv, PTL

\* A continuation turn is told to make way for the user's message, or is about
\* to be, unless it was not registered when the message came.
THEOREM MakesWay == Spec => []UserComesFirst
<1>1. Inv => UserComesFirst
  BY DEF Inv, UserInv
<1> QED BY <1>1, AlwaysInv, PTL

-----------------------------------------------------------------------------
(***************************************************************************)
(* An active goal is not left alone: unless it is excused, a turn runs, or *)
(* somebody is on the way to look whether to continue it.                  *)
(***************************************************************************)
RegisteredIsAlive == reg # None => task[reg] \in Alive

Busy == \E t \in Turns : task[t] \in Alive

Attending(p) ==
    \/ pc[p] \in {"follow", "suppress", "choose", "begin"} \cup Launching
    \/ p \in Requests /\ pc[p] \in {"interrupt", "probe", "signal"} /\ then[p] = "follow"
    \/ \E t \in auto : p = Post(t) /\ pc[p] \in {"settle", "recover", "queue"}

Excused ==
    \/ ~(goal # None /\ status = "active" /\ waiting = 0)
    \/ quit \/ undone \/ latest = "failed"

GoalIsAttended == Excused \/ Busy \/ \E p \in Launchers : Attending(p)
AttendInv == RegisteredIsAlive /\ GoalIsAttended

\* What a step of p leaves to the others.
OthersAttend(p) ==
    /\ \A q \in Launchers : q # p => pc'[q] = pc[q]
    /\ \A r \in Requests : r # p => then'[r] = then[r]
    /\ \A t \in auto : Post(t) # p => t \in auto'

LEMMA AttendedByOthers ==
    ASSUME Inv, NEW p, OthersAttend(p), GoalIsAttended,
           Excused \/ Busy \/ (p \in Launchers /\ Attending(p)) => GoalIsAttended'
    PROVE  GoalIsAttended'
<1>1. \A q \in Launchers : q # p /\ Attending(q) => Attending(q)'
  BY DEF OthersAttend, Attending
<1> QED BY <1>1 DEF GoalIsAttended

\* A step that ends no turn and registers none.
LEMMA RegisteredKept ==
    ASSUME Inv, RegisteredIsAlive, reg' = reg,
           \A t \in Turns : task[t] \in Alive => task'[t] \in Alive
    PROVE  RegisteredIsAlive' /\ (Busy => Busy')
BY DEF Inv, TypeInv, RegistryTypes, Ids, RegisteredIsAlive, Busy

LEMMA StartAttends ==
    ASSUME Inv, StartUserTurn
    PROVE  AttendInv'
<1>1. Next1 \in Turns
  BY GoalsAssumption DEF StartUserTurn, Next1, Turns, Ids, Inv, TypeInv, TurnTypes, None
<1>2. reg' = Next1 /\ task'[Next1] = "running"
  BY <1>1 DEF StartUserTurn, Inv, TypeInv, TurnTypes
<1> QED BY <1>1, <1>2 DEF AttendInv, RegisteredIsAlive, GoalIsAttended, Busy, Alive

\* Whoever finds the session's turn taken leaves it to that turn's end, or to
\* the one who launches it.
LEMMA TakenIsAttended ==
    ASSUME Inv, act # None, task' = task, NEW p, OthersAttend(p), pc[p] \notin Launching
    PROVE  GoalIsAttended'
<1>1. act \in Turns
  BY DEF Inv, TypeInv, ActorTypes, Ids
<1>2. Busy \/ \E q \in Launchers : pc[q] \in Launching
  BY <1>1 DEF Inv, TurnInv, ReservationIsReturned, Busy
<1>3. \A q \in Launchers : pc[q] \in Launching => pc'[q] = pc[q]
  BY DEF OthersAttend
<1> QED BY <1>2, <1>3 DEF GoalIsAttended, Busy, Attending

-----------------------------------------------------------------------------
LEMMA CommitAttends ==
    ASSUME Inv, AttendInv, NEW r \in Requests, Commit(r)
    PROVE  AttendInv'
<1>1. /\ r \in Procs /\ r \in Launchers /\ pc[r] = "commit"
      /\ pc \in [Procs -> Pcs] /\ then \in [Requests -> {"follow", "done"}]
  BY Kinds DEF Commit, Inv, TypeInv, ProcTypes
<1>2. UNCHANGED <<reg, task, auto, waiting, latest, quit, undone>>
  BY DEF Commit, actor, registry, turns, history
<1>3. \E l, n : Leads(r, l, n)
  BY DEF Commit, Set, Pause, Resume, Complete, Cancel, Clear, Edit
<1>4. OthersAttend(r)
  BY <1>1, <1>2, <1>3, Kinds DEF OthersAttend, Leads, Goto
<1>5. RegisteredIsAlive' /\ (Busy => Busy')
  BY <1>2, RegisteredKept DEF AttendInv
<1>6. ~Attending(r)
  BY <1>1 DEF Attending, Launching
<1>7. Excused => Excused' \/ Attending(r)'
  <2>1. CASE Set(r)
    <3>1. pc'[r] = "follow" \/ (pc'[r] = "interrupt" /\ then'[r] = "follow")
      BY <1>1, <2>1 DEF Set, Leads, Goto
    <3> QED BY <3>1 DEF Attending
  <2>2. CASE Resume(r) \/ (Edit(r) /\ ~spent)
    <3>1. pc'[r] = "follow"
      BY <1>1, <2>2 DEF Resume, Edit, Leads, Goto
    <3> QED BY <3>1 DEF Attending
  <2>3. CASE Complete(r) \/ Cancel(r) \/ Clear(r) \/ (Edit(r) /\ spent)
    BY <2>3 DEF Complete, Cancel, Clear, Edit, Becomes, Excused
  <2>4. CASE Pause(r)
    BY <2>4 DEF Pause, Becomes, Excused, store
  <2> QED BY <2>1, <2>2, <2>3, <2>4 DEF Commit
<1>8. GoalIsAttended'
  BY <1>1, <1>4, <1>5, <1>6, <1>7, AttendedByOthers DEF AttendInv, GoalIsAttended
<1> QED BY <1>5, <1>8 DEF AttendInv

\* A request that is to look for the goal keeps it in mind while it interrupts.
LEMMA InterruptAttends ==
    ASSUME Inv, AttendInv, NEW r \in Requests, Interrupt(r) \/ Probe(r) \/ Signal(r)
    PROVE  AttendInv'
<1>1. /\ r \in Procs /\ r \in Launchers /\ pc[r] \in {"interrupt", "probe", "signal"}
      /\ pc \in [Procs -> Pcs] /\ then \in [Requests -> {"follow", "done"}]
      /\ \A t \in Turns : r # Post(t)
  BY Kinds DEF Interrupt, Probe, Signal, Inv, TypeInv, ProcTypes
<1>2. UNCHANGED <<goal, status, reg, task, auto, waiting, latest, quit, undone>>
  BY DEF Interrupt, Probe, Signal, store, actor, registry, turns, history
<1>3. \/ Proceed(r)
      \/ then' = then /\ \E l \in {"probe", "signal"} : Goto(r, l)
  BY DEF Interrupt, Probe, Signal
<1>4. OthersAttend(r)
  BY <1>1, <1>2, <1>3, Kinds DEF OthersAttend, Proceed, Goto
<1>5. RegisteredIsAlive' /\ (Busy => Busy')
  BY <1>2, RegisteredKept DEF AttendInv
<1>6. Attending(r) => Attending(r)'
  <2> SUFFICES ASSUME Attending(r) PROVE Attending(r)'
    OBVIOUS
  <2>1. then[r] = "follow"
    BY <1>1 DEF Attending, Launching, Inv, TypeInv, TurnTypes
  <2>2. pc'[r] = "follow" \/ (pc'[r] \in {"probe", "signal"} /\ then'[r] = "follow")
    BY <1>1, <1>3, <2>1 DEF Proceed, Goto
  <2> QED BY <2>2 DEF Attending
<1>7. Excused => Excused'
  BY <1>2 DEF Excused
<1>8. GoalIsAttended'
  BY <1>1, <1>4, <1>5, <1>6, <1>7, AttendedByOthers DEF AttendInv, GoalIsAttended
<1> QED BY <1>5, <1>8 DEF AttendInv

\* The registered turn runs: its end looks for the goal.
LEMMA FollowAttends ==
    ASSUME Inv, AttendInv, NEW r \in Requests, Follow(r)
    PROVE  AttendInv'
<1>1. r \in Procs /\ r \in Launchers /\ pc \in [Procs -> Pcs] /\ reg \in Ids
  BY Kinds DEF Inv, TypeInv, ProcTypes, RegistryTypes
<1>2. UNCHANGED <<reg, task>>
  BY DEF Follow, turns
<1>3. RegisteredIsAlive' /\ (Busy => Busy')
  BY <1>2, RegisteredKept DEF AttendInv
<1>4. CASE reg # None
  BY <1>1, <1>3, <1>4 DEF AttendInv, RegisteredIsAlive, Busy, GoalIsAttended, Ids
<1>5. CASE reg = None
  <2>1. pc'[r] = "suppress"
    BY <1>1, <1>5 DEF Follow, Goto
  <2> QED BY <1>1, <1>3, <2>1 DEF AttendInv, GoalIsAttended, Attending
<1> QED BY <1>4, <1>5

LEMMA SuppressAttends ==
    ASSUME Inv, AttendInv, NEW p \in Launchers, Suppress(p)
    PROVE  AttendInv'
<1>1. p \in Procs /\ pc \in [Procs -> Pcs]
  BY Kinds DEF Inv, TypeInv, ProcTypes
<1>2. RegisteredIsAlive'
  BY RegisteredKept DEF AttendInv, Suppress, registry, turns
<1>3. CASE Suppressed
  BY <1>2, <1>3 DEF Suppress, SuppressGoal, Becomes, AttendInv, GoalIsAttended, Excused
<1>4. CASE ~Suppressed
  <2>1. pc'[p] = "choose"
    BY <1>1, <1>4 DEF Suppress, Goto
  <2> QED BY <1>2, <2>1 DEF AttendInv, GoalIsAttended, Attending
<1> QED BY <1>3, <1>4

\* Nobody is left to look only if the goal is excused or the turn is taken.
LEMMA ChooseAttends ==
    ASSUME Inv, AttendInv, NEW p \in Launchers, Choose(p) \/ Begin(p)
    PROVE  AttendInv'
<1>1. /\ p \in Procs /\ pc \in [Procs -> Pcs] /\ pc[p] \in {"choose", "begin"}
  BY Kinds DEF Inv, TypeInv, ProcTypes, Choose, Begin
<1>2. UNCHANGED <<reg, task, auto, then, goal, status, waiting, latest, quit, undone>>
  BY DEF Choose, Begin, store, actor, registry, turns, history
<1>3. RegisteredIsAlive' /\ (Busy => Busy')
  BY <1>2, RegisteredKept DEF AttendInv
<1>4. CASE pc'[p] \in {"begin", "track"}
  BY <1>3, <1>4 DEF AttendInv, GoalIsAttended, Attending, Launching
<1>5. CASE Leave(p)
  <2>1. OthersAttend(p)
    BY <1>1, <1>2, <1>5, Kinds DEF OthersAttend, Leave, Goto
  <2>2. ASSUME Choose(p) PROVE act # None \/ Excused
    <3>1. ~(act = None /\ waiting = 0 /\ ShouldContinue(goal))
      BY <1>1, <1>5, <2>2 DEF Choose, Leave, Goto
    <3> QED BY <3>1 DEF ShouldContinue, Current, Excused
  <2>3. ASSUME Begin(p) PROVE act # None \/ Excused
    BY <1>1, <1>5, <2>3 DEF Begin, Leave, Goto, Excused
  <2>4. CASE act # None
    BY <1>1, <1>2, <1>3, <2>1, <2>4, TakenIsAttended DEF AttendInv, Launching
  <2>5. CASE Excused
    BY <1>2, <1>3, <2>5 DEF AttendInv, GoalIsAttended, Excused
  <2> QED BY <2>2, <2>3, <2>4, <2>5
<1> QED BY <1>1, <1>4, <1>5 DEF Choose, Begin, Goto

LEMMA LaunchAttends ==
    ASSUME Inv, AttendInv, NEW p \in Launchers,
           Track(p) \/ Mark(p) \/ AppendStart(p) \/ Launch(p)
    PROVE  AttendInv'
<1>1. p \in Procs /\ pc \in [Procs -> Pcs] /\ task \in [Turns -> {"none", "over"} \cup Alive]
  BY Kinds DEF Inv, TypeInv, ProcTypes, TurnTypes
<1>2. CASE Track(p) \/ Mark(p) \/ AppendStart(p) \/ (Launch(p) /\ ~Reserved(p))
  <2>1. RegisteredIsAlive'
    BY <1>2, RegisteredKept DEF AttendInv, Track, Mark, AppendStart, Launch, registry, turns
  <2>2. pc'[p] \in Launching
    BY <1>1, <1>2 DEF Track, Mark, AppendStart, Launch, Goto, Launching
  <2> QED BY <2>1, <2>2 DEF AttendInv, GoalIsAttended, Attending
<1>3. CASE Launch(p) /\ Reserved(p)
  <2>1. turn[p] \in Turns
    BY <1>3 DEF Launch, Launching, Inv, TurnInv, LaunchHoldsGate
  <2>2. reg' = turn[p] /\ task'[turn[p]] = "running"
    BY <1>1, <1>3, <2>1 DEF Launch
  <2> QED BY <2>1, <2>2 DEF AttendInv, RegisteredIsAlive, GoalIsAttended, Busy, Alive
<1> QED BY <1>2, <1>3

LEMMA UndoAttends ==
    ASSUME Inv, AttendInv, NEW p \in Launchers, Undo(p)
    PROVE  AttendInv'
<1>1. RegisteredIsAlive'
  BY RegisteredKept DEF AttendInv, Undo, turns
<1> QED BY <1>1 DEF Undo, AttendInv, GoalIsAttended, Excused

\* A turn is busy until its handles are cleared.
LEMMA TurnAttends ==
    ASSUME Inv, AttendInv, NEW t \in Turns,
           ModelCompletes(t) \/ EndQuery(t) \/ Account(t) \/ Merge(t)
    PROVE  AttendInv'
<1>1. task \in [Turns -> {"none", "over"} \cup Alive] /\ task[t] \in Alive
  BY DEF Inv, TypeInv, TurnTypes, ModelCompletes, EndQuery, Account, Merge, Alive
<1>2. \E s \in Alive : task' = [task EXCEPT ![t] = s]
  BY <1>1 DEF ModelCompletes, EndQuery, Account, Merge, turns, Alive
<1>3. \A u \in Turns : task[u] \in Alive => task'[u] \in Alive
  BY <1>1, <1>2
<1>4. reg' = reg
  BY DEF ModelCompletes, EndQuery, Account, Merge, registry
<1> QED BY <1>1, <1>3, <1>4, RegisteredKept DEF AttendInv, GoalIsAttended, Busy

\* What is scheduled after the turn looks for the goal, unless the turn was
\* interrupted.
LEMMA ClearHandlesAttends ==
    ASSUME Inv, AttendInv, NEW t \in Turns, ClearHandles(t)
    PROVE  AttendInv'
<1>1. reg' = None
  BY DEF ClearHandles
<1>2. CASE Continues(t)
  <2>1. pc'[Post(t)] = "settle" /\ t \in auto' /\ Post(t) \in Launchers
    BY <1>2, Kinds DEF ClearHandles, Goto, Inv, TypeInv, ProcTypes
  <2> QED BY <1>1, <2>1 DEF AttendInv, RegisteredIsAlive, GoalIsAttended, Attending
<1>3. CASE ~Continues(t)
  BY <1>1, <1>3
     DEF ClearHandles, Continues, AttendInv, RegisteredIsAlive, GoalIsAttended, Excused
<1> QED BY <1>2, <1>3

LEMMA PostTurnAttends ==
    ASSUME Inv, AttendInv, NEW t \in Turns, Settle(t) \/ Recover(t) \/ Drain(t)
    PROVE  AttendInv'
<1>1. /\ Post(t) \in Procs /\ Post(t) \in Launchers /\ auto \subseteq Turns
      /\ pc \in [Procs -> Pcs]
      /\ pc[Post(t)] \in {"settle", "recover", "queue"} /\ \A r \in Requests : r # Post(t)
  BY Kinds DEF Settle, Recover, Drain, Inv, TypeInv, ProcTypes, TurnTypes
<1>2. CASE Drain(t) /\ Drains(t)
  BY <1>2, StartAttends DEF Drain
<1>3. CASE Settle(t) \/ Recover(t) \/ (Drain(t) /\ ~Drains(t))
  <2>1. UNCHANGED <<reg, task, then, goal, waiting, latest, quit, undone>>
    BY <1>3 DEF Settle, Recover, Drain, SuppressGoal, Becomes, store, actor, registry, turns,
       history
  <2>2. status' \in {status, "paused"}
    BY <1>3 DEF Settle, Recover, Drain, SuppressGoal, Becomes, store
  <2>3. RegisteredIsAlive' /\ (Busy => Busy')
    BY <2>1, RegisteredKept DEF AttendInv
  <2>4. Excused => Excused'
    BY <2>1, <2>2 DEF Excused
  <2>5. OthersAttend(Post(t))
    BY <1>1, <1>3, <2>1, Kinds DEF OthersAttend, Settle, Recover, Drain, Goto, turns
  <2>6. Attending(Post(t)) => t \in auto
    BY <1>1 DEF Attending, Launching, Post
  <2>7. t \in auto => Excused' \/ Attending(Post(t))'
    <3>1. CASE Settle(t) \/ (Recover(t) /\ ~Saved)
      <4>1. t \in auto => t \in auto' /\ pc'[Post(t)] \in {"recover", "queue"}
        BY <1>1, <3>1 DEF Settle, Recover, Goto, turns
      <4> QED BY <4>1 DEF Attending
    <3>2. CASE Recover(t) /\ Saved
      BY <2>1, <3>2 DEF Saved, Excused
    <3>3. CASE Drain(t) /\ ~Drains(t)
      BY <1>1, <3>3 DEF Drain, Goto, Attending
    <3> QED BY <1>3, <3>1, <3>2, <3>3
  <2>8. GoalIsAttended'
    BY <1>1, <2>3, <2>4, <2>5, <2>6, <2>7, AttendedByOthers DEF AttendInv, GoalIsAttended
  <2> QED BY <2>3, <2>8 DEF AttendInv
<1> QED BY <1>2, <1>3

\* A message starts a turn or waits in the queue.
LEMMA MessageAttends ==
    ASSUME Inv, AttendInv, NEW u \in Users, Say(u) \/ Queue(u) \/ Preempt(u) \/ Kick(u)
    PROVE  AttendInv'
<1>1. CASE StartUserTurn
  BY <1>1, StartAttends
<1>2. CASE Queue(u)
  <2>1. RegisteredIsAlive'
    BY <1>2, RegisteredKept DEF AttendInv, Queue, registry, turns
  <2>2. waiting' # 0
    BY <1>2 DEF Queue, Inv, TypeInv, ActorTypes
  <2> QED BY <2>1, <2>2 DEF AttendInv, GoalIsAttended, Excused
<1>3. CASE Preempt(u) \/ (Kick(u) /\ ~StartUserTurn)
  <2>1. UNCHANGED <<reg, task, auto, then, goal, status, waiting, latest, quit, undone>>
    BY <1>3 DEF Preempt, Kick, store, actor, registry, turns, history
  <2>2. \E l : Goto(u, l)
    BY <1>3 DEF Preempt, Kick
  <2>3. OthersAttend(u) /\ u \notin Launchers
    BY <2>1, <2>2, Kinds, GoalsAssumption DEF OthersAttend, Goto, Inv, TypeInv, ProcTypes
  <2>4. RegisteredIsAlive' /\ (Busy => Busy')
    BY <2>1, RegisteredKept DEF AttendInv
  <2>5. Excused => Excused'
    BY <2>1 DEF Excused
  <2>6. GoalIsAttended'
    BY <2>3, <2>4, <2>5, AttendedByOthers DEF AttendInv, GoalIsAttended
  <2> QED BY <2>4, <2>6 DEF AttendInv
<1> QED BY <1>1, <1>2, <1>3 DEF Say

LEMMA EscapeAttends ==
    ASSUME Inv, AttendInv, Escape \/ UNCHANGED vars
    PROVE  AttendInv'
<1>1. UNCHANGED <<reg, task, auto, pc, then, goal, status, waiting, latest, quit, undone>>
  BY DEF Escape, vars, store, actor, registry, turns, procs, history
<1>2. UNCHANGED <<Excused, Busy, RegisteredIsAlive>>
  BY <1>1 DEF Excused, Busy, RegisteredIsAlive
<1>3. \A p \in Launchers : Attending(p)' <=> Attending(p)
  BY <1>1 DEF Attending
<1> QED BY <1>2, <1>3 DEF AttendInv, GoalIsAttended

LEMMA NextAttends == Inv /\ AttendInv /\ [Next]_vars => AttendInv'
<1> SUFFICES ASSUME Inv, AttendInv, [Next]_vars PROVE AttendInv'
  OBVIOUS
<1>1. ASSUME NEW r \in Requests, Request(r) PROVE AttendInv'
  BY <1>1, CommitAttends, InterruptAttends, FollowAttends DEF Request
<1>2. ASSUME NEW p \in Launchers, Continuation(p) PROVE AttendInv'
  BY <1>2, SuppressAttends, ChooseAttends, LaunchAttends, UndoAttends DEF Continuation
<1>3. ASSUME NEW t \in Turns, Turn(t) \/ PostTurn(t) PROVE AttendInv'
  BY <1>3, TurnAttends, ClearHandlesAttends, PostTurnAttends DEF Turn, PostTurn
<1>4. ASSUME NEW u \in Users, Message(u) PROVE AttendInv'
  BY <1>4, MessageAttends DEF Message
<1>5. CASE Escape \/ UNCHANGED vars
  BY <1>5, EscapeAttends
<1> QED BY <1>1, <1>2, <1>3, <1>4, <1>5 DEF Next, Rest

\* An active goal is not left alone in an idle session, unless the last turn was
\* stopped by the user or failed, or a launch was given up: an activation is
\* either consumed at the end of the turn that runs or admitted at once, and
\* whoever looks for the goal leaves it only to a turn or to another who looks.
THEOREM PursuesActiveGoal == Spec => []ActiveGoalIsPursued
<1>1. Init => AttendInv
  BY DEF Init, AttendInv, RegisteredIsAlive, GoalIsAttended, Excused
<1>2. Inv /\ AttendInv => ActiveGoalIsPursued
  <2> SUFFICES ASSUME Inv, AttendInv, AtRest, ~Excused PROVE FALSE
    BY DEF ActiveGoalIsPursued, Excused
  <2>1. ~Busy
    BY DEF AtRest, Busy
  <2>2. \A p \in Launchers : ~Attending(p)
    BY Kinds DEF AtRest, Attending, Launching
  <2> QED BY <2>1, <2>2 DEF AttendInv, GoalIsAttended
<1> QED BY <1>1, <1>2, AlwaysInv, NextAttends, PTL DEF Spec
=============================================================================
