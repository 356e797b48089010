-------------------------- MODULE ApprovalsProofs ---------------------------
(***************************************************************************)
(* Proofs about approvals, for any approvals, clients and bounds.          *)
(***************************************************************************)
EXTENDS Approvals, TLAPS

Tasks == Sources \X Asks

(***************************************************************************)
(* Types.                                                                  *)
(***************************************************************************)
RolloutTypes ==
    /\ item \in [Asks -> Decisions \cup {None, "waiting"}]
    /\ checkpoint \subseteq Asks
    /\ result \in [Asks -> {None, "result", "change"}]
    /\ status \in {None, "inProgress", "waiting", "completed", "failed", "interrupted"}
    /\ latest \in 0..MaxTurns
    /\ turnOf \in [Asks -> 0..MaxTurns]

SessionTypes ==
    /\ loaded \in {"no", "hydrating", "yes"}
    /\ mark \in BOOLEAN /\ live \in BOOLEAN /\ act \in BOOLEAN
    /\ stopped \in {None, "user", "message"}
    /\ reg \in {None, "turn", "cont"}
    /\ loaded # "yes" => reg = None /\ ~act /\ ~live

LaneTypes ==
    /\ lane \in [Asks -> {None, "live", "restored"}]
    /\ ctl \in [Asks -> Decisions \cup {None}]
    /\ pc \in [Asks -> Busy \cup {None, "done"}]
    /\ dec \in [Asks -> Decisions \cup {None}]
    /\ sent \in [Asks -> Decisions \cup {None}]

\* A continuation that has begun runs in a session that is there.
TaskTypes ==
    /\ task \in [Tasks -> TaskStates]
    /\ ans \in [Tasks -> Decisions \cup {None}]
    /\ loose \subseteq {t \in Tasks : task[t] \in Continues}
    /\ \A t \in Tasks : task[t] \in {"begin"} \cup Continues => loaded = "yes"

HistoryTypes ==
    /\ consented \subseteq Asks /\ unwritten \subseteq Asks
    /\ gaveUp \in BOOLEAN
    /\ mishaps \in 0..MaxMishaps

TypeInv == RolloutTypes /\ SessionTypes /\ LaneTypes /\ TaskTypes /\ HistoryTypes

LEMMA TypeInvImplies == TypeInv => TypeOK
BY DEF TypeInv, TypeOK, RolloutTypes, SessionTypes, LaneTypes, TaskTypes, HistoryTypes, Tasks

LEMMA InitTypes == Init => TypeInv
<1> SUFFICES ASSUME Init
             PROVE  TypeInv
  OBVIOUS
<1>1. RolloutTypes
  BY ApprovalsAssumption DEF Init, RolloutTypes
<1>4. SessionTypes
  BY DEF Init, SessionTypes
<1>5. HistoryTypes
  <2>1. MaxMishaps \in 0..MaxMishaps
    BY ApprovalsAssumption
  <2> QED BY <2>1 DEF Init, HistoryTypes
<1>2. LaneTypes
  BY DEF Init, LaneTypes
<1>3. TaskTypes
  BY DEF Init, TaskTypes, TaskStates, Continues, Tasks, None
<1> QED BY <1>1, <1>2, <1>3, <1>4, <1>5 DEF TypeInv

\* One answer moves on, or leaves.
LEMMA MoveTypes ==
    ASSUME TaskTypes, NEW t \in Tasks, NEW l \in TaskStates, Move(t, l),
           ans' \in [Tasks -> Decisions \cup {None}],
           UNCHANGED <<loaded, loose>>,
           l \in {"begin"} \cup Continues => loaded = "yes",
           t \in loose => l \in Continues
    PROVE  TaskTypes'
BY DEF TaskTypes, Move

LEMMA LeaveTypes ==
    ASSUME TaskTypes, NEW t \in Tasks, Leave(t), loaded' = loaded, loose' = loose \ {t}
    PROVE  TaskTypes'
BY DEF TaskTypes, Leave, TaskStates, Continues, None

\* No other answer is touched.
LEMMA MovesAlone ==
    ASSUME TaskTypes, NEW t \in Tasks, NEW l, NEW d, Move(t, l), ans' = [ans EXCEPT ![t] = d]
    PROVE  /\ \A u \in Tasks : u # t => task'[u] = task[u] /\ ans'[u] = ans[u]
           /\ task'[t] = l /\ ans'[t] = d
BY DEF TaskTypes, Move

LEMMA LeavesAlone ==
    ASSUME TaskTypes, NEW t \in Tasks, Leave(t)
    PROVE  /\ \A u \in Tasks : u # t => task'[u] = task[u] /\ ans'[u] = ans[u]
           /\ task'[t] = None /\ ans'[t] = None
BY DEF TaskTypes, Leave

LEMMA MishapTypes ==
    ASSUME HistoryTypes, Mishap
    PROVE  mishaps' \in 0..MaxMishaps
BY ApprovalsAssumption DEF HistoryTypes, Mishap

LEMMA PersistTypes ==
    ASSUME TypeInv, NEW a \in Asks, NEW d \in Decisions \cup {"waiting"}, Persist(a, d)
    PROVE  /\ item' \in [Asks -> Decisions \cup {None, "waiting"}]
           /\ unwritten' \subseteq Asks /\ mishaps' \in 0..MaxMishaps
BY MishapTypes DEF TypeInv, RolloutTypes, HistoryTypes, Persist

\* A wait writes its item and its result, and the mark with its checkpoint.
LEMMA RequestTypes ==
    ASSUME TypeInv, NEW a \in Asks, Request(a)
    PROVE  TypeInv'
<1> USE DEF TypeInv
<1>1. SessionTypes' /\ TaskTypes'
  <2>1. UNCHANGED <<loaded, live, reg, act, stopped, answers>> /\ mark' \in BOOLEAN
    BY DEF Request, Ask, Checkpoint, Register, Publish, Answer, Recovered, GiveIn, RecordCancelled,
       TakeFailed, RecordDecision, Complete, Run, RecordResult, session, SessionTypes
  <2> QED BY <2>1 DEF SessionTypes, TaskTypes, answers
<1>2. CASE Ask(a)
  <2>1. /\ item' \in [Asks -> Decisions \cup {None, "waiting"}]
        /\ unwritten' \subseteq Asks /\ mishaps' \in 0..MaxMishaps
    BY <1>2, PersistTypes DEF Ask
  <2> QED BY <1>1, <1>2, <2>1
          DEF Ask, Goto, RolloutTypes, LaneTypes, HistoryTypes, lanes, Busy
<1>3. CASE RecordCancelled(a) \/ RecordDecision(a)
  <2>1. CASE item[a] = None
    BY <1>1, <1>3, <2>1 DEF RecordCancelled, RecordDecision, Goto, RolloutTypes, LaneTypes,
       HistoryTypes, lanes, Busy
  <2>2. CASE item[a] # None
    <3>1. /\ item' \in [Asks -> Decisions \cup {None, "waiting"}]
          /\ unwritten' \subseteq Asks /\ mishaps' \in 0..MaxMishaps
      BY <1>3, <2>2, MishapTypes DEF RecordCancelled, RecordDecision, Persist, RolloutTypes,
         HistoryTypes, LaneTypes, Decisions
    <3> QED BY <1>1, <1>3, <3>1
            DEF RecordCancelled, RecordDecision, Goto, RolloutTypes, LaneTypes, HistoryTypes,
                lanes, Busy
  <2> QED BY <2>1, <2>2
<1>4. CASE Checkpoint(a) \/ Recovered(a) \/ RecordResult(a)
  <2>1. HistoryTypes'
    <3>1. CASE Mishap
      BY <1>4, <3>1, MishapTypes DEF Checkpoint, Recovered, RecordResult, HistoryTypes
    <3>2. CASE UNCHANGED mishaps
      BY <1>4, <3>2 DEF Checkpoint, Recovered, RecordResult, HistoryTypes
    <3> QED BY <1>4, <3>1, <3>2 DEF Checkpoint, Recovered, RecordResult
  <2>2. RolloutTypes' /\ LaneTypes'
    BY <1>4 DEF Checkpoint, Recovered, RecordResult, Goto, RolloutTypes, LaneTypes, rollout, lanes,
       Busy
  <2> QED BY <1>1, <2>1, <2>2
<1>5. CASE \/ Register(a) \/ Publish(a) \/ GiveIn(a) \/ TakeFailed(a) \/ Complete(a) \/ Run(a)
           \/ \E d \in Decisions : Answer(a, d)
  <2>1. RolloutTypes' /\ HistoryTypes'
    BY <1>5 DEF Register, Publish, GiveIn, TakeFailed, Complete, Run, Answer, Hears, RolloutTypes,
       HistoryTypes, rollout, history
  <2>2. LaneTypes'
    BY <1>5 DEF Register, Publish, GiveIn, TakeFailed, Complete, Run, Answer, Goto, LaneTypes,
       lanes, Busy
  <2> QED BY <1>1, <2>1, <2>2
<1> QED BY <1>2, <1>3, <1>4, <1>5 DEF Request

LEMMA TurnTypes ==
    ASSUME TypeInv, Turn
    PROVE  TypeInv'
<1> USE DEF TypeInv
<1>1. CASE StartTurn
  <2>1. latest' \in 0..MaxTurns
    BY <1>1, ApprovalsAssumption DEF StartTurn, RolloutTypes
  <2> QED BY <1>1, <2>1 DEF StartTurn, RolloutTypes, SessionTypes, LaneTypes, TaskTypes,
          HistoryTypes, lanes, waiters, answers, history
<1>2. CASE Interrupt \/ Preempt
  BY <1>2 DEF Interrupt, Preempt, Stop, Unbind, Forgotten, RolloutTypes, SessionTypes, LaneTypes,
     TaskTypes, HistoryTypes, rollout, lanes, waiters, history, TaskStates, Tasks, Continues
<1>3. CASE CancelSaved
  BY <1>3 DEF CancelSaved, RolloutTypes, SessionTypes, LaneTypes, TaskTypes, HistoryTypes, lanes,
     waiters, answers, history
<1>4. CASE TurnEnds
  <2>1. RolloutTypes' /\ LaneTypes' /\ HistoryTypes'
    BY <1>4 DEF TurnEnds, RolloutTypes, LaneTypes, HistoryTypes, lanes, waiters, history
  <2>2. SessionTypes'
    BY <1>4 DEF TurnEnds, SessionTypes, Querying
  <2>3. TaskTypes'
    BY <1>4 DEF TurnEnds, TaskTypes, Unbind, Forgotten, Querying, TaskStates, Tasks, Continues
  <2> QED BY <2>1, <2>2, <2>3
<1>5. CASE HardAbort
  <2>1. RolloutTypes'
    BY <1>5 DEF HardAbort, RolloutTypes
  <2>2. LaneTypes'
    BY <1>5 DEF HardAbort, LaneTypes, Dropped, lanes
  <2>3. SessionTypes'
    BY <1>5 DEF HardAbort, SessionTypes
  <2>4. TaskTypes'
    BY <1>5 DEF HardAbort, TaskTypes, Tasks
  <2>5. HistoryTypes'
    BY <1>5, MishapTypes DEF HardAbort, HistoryTypes, Laneless
  <2> QED BY <2>1, <2>2, <2>3, <2>4, <2>5
<1> QED BY <1>1, <1>2, <1>3, <1>4, <1>5 DEF Turn

LEMMA ClientTypes ==
    ASSUME TypeInv, NEW c \in Clients, NEW a \in Asks, FromClient(c, a)
    PROVE  TypeInv'
<1> USE DEF TypeInv
<1>1. <<c, a>> \in Tasks
  BY DEF Tasks, Sources
<1>2. RolloutTypes' /\ SessionTypes'
  BY DEF FromClient, Reissue, Reply, RolloutTypes, SessionTypes, rollout, session
<1>3. HistoryTypes'
  BY DEF FromClient, Reissue, Reply, Hears, HistoryTypes, history
<1>4. LaneTypes'
  BY DEF FromClient, Reissue, Reply, LaneTypes, lanes, waiters
<1>5. TaskTypes'
  <2>1. CASE Reissue(c, a)
    <3>1. task[<<c, a>>] = None /\ UNCHANGED <<loaded, loose, ans>> /\ <<c, a>> \notin loose
      BY <1>1, <2>1 DEF Reissue, session, TaskTypes, Continues, None
    <3>2. CASE Move(<<c, a>>, "bound")
      BY <1>1, <3>1, <3>2, MoveTypes DEF TaskStates, Continues, TaskTypes
    <3>3. CASE Move(<<c, a>>, "sent")
      BY <1>1, <3>1, <3>3, MoveTypes DEF TaskStates, Continues, TaskTypes
    <3> QED BY <2>1, <3>2, <3>3 DEF Reissue
  <2>2. ASSUME NEW d \in Decisions, Reply(c, a, d)
        PROVE  TaskTypes'
    <3>1. UNCHANGED <<loaded, loose>> /\ <<c, a>> \notin loose
      BY <1>1, <2>2 DEF Reply, session, TaskTypes, Continues
    <3>2. CASE Leave(<<c, a>>)
      BY <1>1, <3>1, <3>2, LeaveTypes
    <3>3. CASE Move(<<c, a>>, "record") /\ ans' = [ans EXCEPT ![<<c, a>>] = d]
      BY <1>1, <3>1, <3>3, MoveTypes DEF TaskStates, Continues, TaskTypes
    <3> QED BY <2>2, <3>2, <3>3 DEF Reply
  <2> QED BY <2>1, <2>2 DEF FromClient
<1> QED BY <1>2, <1>3, <1>4, <1>5

LEMMA ContinuationTypes ==
    ASSUME TypeInv, NEW t \in Tasks, Continuation(t)
    PROVE  TypeInv'
<1> USE DEF TypeInv
<1>1. t[2] \in Asks
  BY DEF Tasks
<1>2. RolloutTypes'
  BY <1>1 DEF Continuation, RecordAnswer, TakeLane, Claim, Begin, Check, Execute, Resume, LooseEnds,
     Persist, TaskTypes, RolloutTypes, rollout
<1>3. SessionTypes'
  <2>1. CASE Check(t) \/ Resume(t)
    <3>1. live' \in BOOLEAN
      BY <2>1 DEF Check, Resume, SessionTypes
    <3>2. loaded = "yes" /\ UNCHANGED <<loaded, mark, reg, act, stopped>>
      BY <2>1 DEF Check, Resume, TaskTypes, Continues
    <3> QED BY <3>1, <3>2 DEF SessionTypes
  <2>2. CASE Claim(t)
    BY <2>2 DEF Claim, Continuable, SessionTypes
  <2>4. CASE Begin(t) \/ LooseEnds(t)
    <3>1. loaded = "yes" /\ UNCHANGED <<loaded, live, stopped>>
      BY <2>4 DEF Begin, LooseEnds, TaskTypes, Continues
    <3>2. mark' \in {mark, FALSE} /\ act' \in {act, TRUE, FALSE} /\ reg' \in {reg, None}
      BY <2>4 DEF Begin, LooseEnds
    <3> QED BY <3>1, <3>2 DEF SessionTypes
  <2>3. CASE RecordAnswer(t) \/ TakeLane(t) \/ Execute(t)
    BY <2>3 DEF RecordAnswer, TakeLane, Execute, SessionTypes, session
  <2> QED BY <2>1, <2>2, <2>3, <2>4 DEF Continuation
<1>4. LaneTypes'
  BY <1>1 DEF Continuation, RecordAnswer, TakeLane, Claim, Begin, Check, Execute, Resume, LooseEnds,
     TaskTypes, LaneTypes, lanes, waiters
<1>5. HistoryTypes'
  <2>1. CASE Mishap
    BY <1>1, <2>1, MishapTypes DEF Continuation, RecordAnswer, TakeLane, Claim, Begin, Check,
       Execute, Resume, LooseEnds, Persist, HistoryTypes, history
  <2>2. CASE UNCHANGED mishaps
    BY <1>1, <2>2 DEF Continuation, RecordAnswer, TakeLane, Claim, Begin, Check, Execute, Resume,
       LooseEnds, Persist, HistoryTypes, history
  <2> QED BY <2>1, <2>2 DEF Continuation, RecordAnswer, TakeLane, Claim, Begin, Check, Execute,
          Resume, LooseEnds, Persist, history
<1>6. TaskTypes'
  <2>1. CASE LooseEnds(t)
    BY <2>1, LeaveTypes DEF LooseEnds
  <2>2. CASE ~LooseEnds(t) /\ Leave(t)
    <3>1. UNCHANGED <<loaded, loose>> /\ t \notin loose
      BY <2>2 DEF Continuation, RecordAnswer, TakeLane, Claim, Begin, Check, Execute, Resume, Leave,
         Move, session, TaskTypes, Continues, None
    <3> QED BY <2>2, <3>1, LeaveTypes
  <2>3. CASE ~LooseEnds(t) /\ ~Leave(t)
    <3>1. PICK l \in TaskStates : Move(t, l) /\ (l \in {"begin"} \cup Continues => loaded = "yes")
                                 /\ (t \in loose => l \in Continues)
      BY <2>3 DEF Continuation, RecordAnswer, TakeLane, Claim, Continuable, Begin, Check, Execute,
         Resume, TaskTypes, TaskStates, Continues
    <3>2. UNCHANGED <<loaded, loose, ans>>
      BY <2>3 DEF Continuation, RecordAnswer, TakeLane, Claim, Begin, Check, Execute, Resume, session
    <3> QED BY <3>1, <3>2, MoveTypes DEF TaskTypes
  <2> QED BY <2>1, <2>2, <2>3
<1> QED BY <1>2, <1>3, <1>4, <1>5, <1>6

LEMMA ProcessTypes ==
    ASSUME TypeInv, Process
    PROVE  TypeInv'
<1> USE DEF TypeInv
<1>1. CASE Crash \/ Shutdown
  <2>1. RolloutTypes' /\ SessionTypes'
    BY <1>1 DEF Crash, Shutdown, Unload, RolloutTypes, SessionTypes
  <2>4. TaskTypes'
    BY <1>1 DEF Crash, Shutdown, Unload, TaskTypes, TaskStates, Continues, Tasks, None
  <2>2. LaneTypes'
    BY <1>1 DEF Crash, Shutdown, Unload, Dropped, LaneTypes
  <2>3. HistoryTypes'
    BY <1>1, MishapTypes DEF Crash, Shutdown, Unload, HistoryTypes
  <2> QED BY <2>1, <2>2, <2>3, <2>4
<1>2. CASE Evict
  <2>1. TaskTypes'
    BY <1>2 DEF Evict, TaskTypes, answers, Tasks, Continues, None
  <2> QED BY <1>2, <2>1 DEF Evict, RolloutTypes, SessionTypes, LaneTypes, HistoryTypes, rollout,
          waiters, history
<1>3. CASE Hydrate
  <2>1. TaskTypes'
    <3>1. \A t \in Tasks : task'[t] = task[t] \/ (task'[t] = "spawned" /\ task[t] \notin Continues)
      BY <1>3 DEF Hydrate, TaskTypes, Tasks, Continues
    <3>2. task' \in [Tasks -> TaskStates] /\ ans' \in [Tasks -> Decisions \cup {None}]
      BY <1>3 DEF Hydrate, TaskTypes, Tasks, TaskStates, Decisions
    <3> QED BY <1>3, <3>1, <3>2 DEF Hydrate, TaskTypes, Continues
  <2> QED BY <1>3, <2>1 DEF Hydrate, RolloutTypes, SessionTypes, LaneTypes, HistoryTypes, rollout,
          waiters, history
<1>4. CASE Insert
  BY <1>4 DEF Insert, RolloutTypes, SessionTypes, LaneTypes, TaskTypes, HistoryTypes, rollout,
     lanes, waiters, answers, history
<1> QED BY <1>1, <1>2, <1>3, <1>4 DEF Process

LEMMA StepTypes == TypeInv /\ [Next]_vars => TypeInv'
<1>1. TypeInv /\ UNCHANGED vars => TypeInv'
  BY DEF vars, rollout, session, lanes, waiters, answers, history, TypeInv, RolloutTypes,
     SessionTypes, LaneTypes, TaskTypes, HistoryTypes
<1> QED BY <1>1, RequestTypes, TurnTypes, ClientTypes, ContinuationTypes, ProcessTypes
        DEF Next, Tasks

\* Every variable always has its type; in particular a session that is not
\* loaded has no turn and no continuation under way
\* (turn_exec/approval_resume.rs:391-436).
THEOREM TypeCorrect == Spec => []TypeOK
BY InitTypes, StepTypes, TypeInvImplies, PTL DEF Spec

(***************************************************************************)
(* Consent.  Wherever "approved" is written, sent or read back, somebody   *)
(* said so before.                                                         *)
(***************************************************************************)
Consented(a) == "approved" \in {item[a], ctl[a], dec[a], sent[a]} \/ pc[a] = "run" => a \in consented

Carries(t) ==
    ans[t] = "approved" \/ task[t] \in {"spawned", "begin", "check", "execute"} =>
        t[2] \in consented

ConsentInv == TypeInv /\ (\A a \in Asks : Consented(a)) /\ (\A t \in Tasks : Carries(t))

LEMMA InitConsent == Init => ConsentInv
BY InitTypes DEF Init, ConsentInv, Consented, Carries, None, Tasks

\* A step that brings no new approval.
LEMMA NoNewConsent ==
    ASSUME ConsentInv, TypeInv', consented \subseteq consented',
           \A a \in Asks : "approved" \in {item'[a], ctl'[a], dec'[a], sent'[a]} \/ pc'[a] = "run" =>
               a \in consented \/ "approved" \in {item[a], ctl[a], dec[a], sent[a]} \/ pc[a] = "run",
           \A t \in Tasks : ans'[t] = "approved" \/ task'[t] \in {"spawned", "begin", "check", "execute"} =>
               \/ t[2] \in consented \/ ans[t] = "approved"
               \/ task[t] \in {"spawned", "begin", "check", "execute"}
    PROVE  ConsentInv'
<1>1. \A t \in Tasks : t[2] \in Asks
  BY DEF Tasks
<1> QED BY <1>1 DEF ConsentInv, Consented, Carries

LEMMA RequestConsent ==
    ASSUME ConsentInv, TypeInv', NEW a \in Asks, Request(a)
    PROVE  ConsentInv'
<1> USE DEF ConsentInv, TypeInv, LaneTypes, RolloutTypes
<1>1. CASE \E d \in Decisions : Answer(a, d)
  <2>1. PICK d \in Decisions : Answer(a, d)
    BY <1>1
  <2>2. consented \subseteq consented' /\ (d = "approved" => a \in consented')
    BY <2>1 DEF Answer, Hears
  <2>3. /\ UNCHANGED <<item, ctl, sent, task, ans>>
        /\ dec' = [dec EXCEPT ![a] = d] /\ pc' = [pc EXCEPT ![a] = "record"]
    BY <2>1 DEF Answer, Goto, rollout, lanes, answers
  <2> QED BY <2>2, <2>3 DEF Consented, Carries
<1>2. CASE Complete(a)
  <2>1. Outcome(a) = "approved" => a \in consented
    BY DEF Outcome, Consented
  <2>2. /\ UNCHANGED <<item, dec, sent, task, ans, consented>>
        /\ ctl' = [ctl EXCEPT ![a] = None]
        /\ pc' = [pc EXCEPT ![a] = IF Outcome(a) = "approved" THEN "run" ELSE "done"]
    BY <1>2 DEF Complete, Goto, rollout, answers, history
  <2> QED BY <2>1, <2>2 DEF Consented, Carries, None
<1>3. CASE Request(a) /\ ~(\E d \in Decisions : Answer(a, d)) /\ ~Complete(a)
  <2>1. UNCHANGED <<task, ans, sent, consented>>
    BY <1>3 DEF Request, Ask, Checkpoint, Register, Publish, Recovered, GiveIn, RecordCancelled,
       TakeFailed, RecordDecision, Run, RecordResult, answers, waiters, history
  <2>2. \A b \in Asks : pc'[b] # "run" \/ pc[b] = "run"
    BY <1>3 DEF Request, Ask, Checkpoint, Register, Publish, Recovered, GiveIn, RecordCancelled,
       TakeFailed, RecordDecision, Run, RecordResult, Goto
  <2>3. \A b \in Asks : item'[b] \in {item[b], "waiting", "cancelled", dec[b]}
    BY <1>3 DEF Request, Ask, Checkpoint, Register, Publish, Recovered, GiveIn, RecordCancelled,
       TakeFailed, RecordDecision, Run, RecordResult, Persist, rollout
  <2>4. \A b \in Asks : dec'[b] \in {dec[b], ctl[b]} /\ ctl'[b] \in {ctl[b], None}
    BY <1>3 DEF Request, Ask, Checkpoint, Register, Publish, Recovered, GiveIn, RecordCancelled,
       TakeFailed, RecordDecision, Run, RecordResult, lanes, waiters
  <2> QED BY <2>1, <2>2, <2>3, <2>4, NoNewConsent DEF None
<1> QED BY <1>1, <1>2, <1>3

LEMMA TurnConsent ==
    ASSUME ConsentInv, TypeInv', Turn
    PROVE  ConsentInv'
<1> USE DEF ConsentInv, TypeInv
<1>1. UNCHANGED <<item, ctl, dec, sent, consented>>
  BY DEF Turn, StartTurn, Interrupt, Preempt, Stop, CancelSaved, TurnEnds, HardAbort, rollout, lanes,
     waiters, history
<1>2. \A a \in Asks : pc'[a] \in {pc[a], "done"}
  BY DEF Turn, StartTurn, Interrupt, Preempt, Stop, CancelSaved, TurnEnds, HardAbort, Dropped,
     waiters, LaneTypes
<1>3. \A t \in Tasks : task'[t] \in {task[t], None, "sent"} /\ ans'[t] \in {ans[t], None}
  BY DEF Turn, StartTurn, Interrupt, Preempt, Stop, CancelSaved, TurnEnds, HardAbort, Unbind,
     Forgotten, answers, TaskTypes, Tasks
<1> QED BY <1>1, <1>2, <1>3, NoNewConsent DEF None

LEMMA ClientConsent ==
    ASSUME ConsentInv, TypeInv', NEW c \in Clients, NEW a \in Asks, FromClient(c, a)
    PROVE  ConsentInv'
<1> USE DEF ConsentInv, TypeInv, LaneTypes, TaskTypes
<1>1. <<c, a>> \in Tasks /\ <<c, a>>[2] = a
  BY DEF Tasks, Sources
<1>2. CASE Reissue(c, a)
  <2>1. UNCHANGED <<item, ctl, dec, sent, pc, ans, consented>>
    BY <1>2 DEF Reissue, rollout, lanes, waiters, history
  <2>2. \A t \in Tasks : task'[t] \in {task[t], "bound", "sent"}
    BY <1>2 DEF Reissue, Move
  <2> QED BY <2>1, <2>2, NoNewConsent
<1>3. ASSUME NEW d \in Decisions, Reply(c, a, d)
      PROVE  ConsentInv'
  <2>1. consented \subseteq consented' /\ (d = "approved" => a \in consented')
    BY <1>3 DEF Reply, Hears
  <2>2. UNCHANGED <<item, dec, sent, pc>>
    BY <1>3 DEF Reply, rollout, waiters
  <2>3. \A b \in Asks : ctl'[b] = ctl[b] \/ (b = a /\ ctl'[b] = d)
    BY <1>3 DEF Reply
  <2>4. /\ \A t \in Tasks : t # <<c, a>> => task'[t] = task[t] /\ ans'[t] = ans[t]
        /\ task'[<<c, a>>] \in {None, "record"} /\ ans'[<<c, a>>] \in {None, d}
    <3>1. CASE Leave(<<c, a>>)
      BY <1>1, <3>1, LeavesAlone
    <3>2. CASE Move(<<c, a>>, "record") /\ ans' = [ans EXCEPT ![<<c, a>>] = d]
      BY <1>1, <3>2, MovesAlone
    <3> QED BY <1>3, <3>1, <3>2 DEF Reply
  <2>5. \A b \in Asks : Consented(b)'
    BY <2>1, <2>2, <2>3 DEF Consented
  <2>6. \A t \in Tasks : Carries(t)'
    BY <1>1, <2>1, <2>4 DEF Carries, None
  <2> QED BY <2>5, <2>6
<1> QED BY <1>2, <1>3 DEF FromClient

LEMMA ContinuationConsent ==
    ASSUME ConsentInv, TypeInv', NEW t \in Tasks, Continuation(t)
    PROVE  ConsentInv'
<1> USE DEF ConsentInv, TypeInv, LaneTypes, TaskTypes, RolloutTypes
<1>1. t[2] \in Asks /\ Carries(t)
  BY DEF Tasks
<1>2. UNCHANGED <<ctl, dec, pc, consented>>
  BY DEF Continuation, RecordAnswer, TakeLane, Claim, Begin, Check, Execute, Resume, LooseEnds,
     lanes, waiters, history
<1>3. \A a \in Asks : \/ item'[a] = item[a] /\ sent'[a] \in {sent[a], None}
                      \/ a = t[2] /\ {item'[a], sent'[a]} \subseteq {item[a], sent[a], ans[t]}
  BY <1>1 DEF Continuation, RecordAnswer, TakeLane, Claim, Begin, Check, Execute, Resume, LooseEnds,
     Persist, rollout, waiters
<1>4. \A u \in Tasks : u # t => task'[u] = task[u] /\ ans'[u] = ans[u]
  BY DEF Continuation, RecordAnswer, TakeLane, Claim, Begin, Check, Execute, Resume, LooseEnds,
     Move, Leave
<1>5. /\ ans'[t] \in {ans[t], None}
      /\ task'[t] \in {"spawned", "begin", "check", "execute"} =>
            ans[t] = "approved" \/ task[t] \in {"spawned", "begin", "check", "execute"}
  BY DEF Continuation, RecordAnswer, TakeLane, Claim, Begin, Check, Execute, Resume, LooseEnds,
     Move, Leave, None
<1>6. \A a \in Asks : Consented(a)'
  BY <1>1, <1>2, <1>3 DEF Consented, Carries, None
<1>7. \A u \in Tasks : Carries(u)'
  BY <1>1, <1>2, <1>4, <1>5 DEF Carries, None
<1> QED BY <1>6, <1>7

LEMMA ProcessConsent ==
    ASSUME ConsentInv, TypeInv', Process
    PROVE  ConsentInv'
<1> USE DEF ConsentInv, TypeInv
<1>1. UNCHANGED <<item, dec, consented>>
  BY DEF Process, Crash, Shutdown, Unload, Evict, Hydrate, Insert, rollout, waiters, history
<1>2. \A a \in Asks : /\ pc'[a] \in {pc[a], "done"}
                     /\ ctl'[a] \in {ctl[a], None} /\ sent'[a] \in {sent[a], None}
  BY DEF Process, Crash, Shutdown, Unload, Evict, Hydrate, Insert, Dropped, waiters, lanes, LaneTypes
<1>3. CASE Hydrate
  <2>1. \A t \in Tasks : \/ task'[t] = task[t] /\ ans'[t] \in {ans[t], "approved"} /\ (task[t] = "spawned" \/ ans'[t] = ans[t])
                        \/ item[t[2]] = "approved"
    BY <1>3 DEF Hydrate, ApprovedBefore, TaskTypes, Tasks
  <2>2. \A t \in Tasks : t[2] \in Asks
    BY DEF Tasks
  <2>3. \A t \in Tasks : Carries(t)'
    BY <1>1, <2>1, <2>2 DEF Carries, Consented
  <2>4. \A a \in Asks : Consented(a)'
    BY <1>1, <1>2 DEF Consented, None
  <2> QED BY <2>3, <2>4
<1>4. CASE ~Hydrate
  <2>1. \A t \in Tasks : task'[t] \in {task[t], None} /\ ans'[t] \in {ans[t], None}
    BY <1>4 DEF Process, Crash, Shutdown, Unload, Evict, Insert, answers, Tasks
  <2> QED BY <1>1, <1>2, <2>1, NoNewConsent DEF None
<1> QED BY <1>3, <1>4

LEMMA StepConsent == ConsentInv /\ [Next]_vars => ConsentInv'
<1>1. ConsentInv /\ UNCHANGED vars => ConsentInv'
  BY StepTypes DEF vars, rollout, session, lanes, waiters, answers, history, ConsentInv, Consented,
     Carries
<1> QED BY <1>1, StepTypes, RequestConsent, TurnConsent, ClientConsent, ContinuationConsent,
        ProcessConsent DEF Next, Tasks, ConsentInv

\* No call runs unless somebody approved it: not in its wait, nor in a
\* continuation after an answer to a restored lane or after a restart
\* (approval.rs:1061-1160, turn_exec/approval_resume.rs:345-363, 889-917).
THEOREM RunsByConsent == Spec => ConsentBeforeRun
<1>1. ASSUME ConsentInv, NEW a \in Asks, Runs(a)
      PROVE  a \in consented
  <2>1. CASE pc[a] = "run"
    BY <1>1, <2>1 DEF ConsentInv, Consented
  <2>2. ASSUME NEW c \in Sources, task[<<c, a>>] = "execute"
        PROVE  a \in consented
    <3>1. <<c, a>> \in Tasks /\ <<c, a>>[2] = a
      BY DEF Tasks
    <3> QED BY <1>1, <2>2, <3>1 DEF ConsentInv, Carries
  <2> QED BY <1>1, <2>1, <2>2 DEF Runs
<1>2. ConsentInv => (\A a \in Asks : Runs(a) => a \in consented)
  BY <1>1
<1> QED BY <1>2, InitConsent, StepConsent, PTL DEF Spec, ConsentBeforeRun

(***************************************************************************)
(* Answerability.  A lane is given up only after the item it stands for    *)
(* was written again, or could not be.                                     *)
(***************************************************************************)
Fresh(a) ==
    pc[a] = None =>
        /\ item[a] = None /\ lane[a] = None /\ result[a] = None
        /\ \A c \in Sources : task[<<c, a>>] = None

Over(a) == item[a] # "waiting" \/ a \in unwritten

Settled(a) ==
    /\ pc[a] \in {"take", "failTake"} => Over(a)
    /\ \A c \in Sources : task[<<c, a>>] = "take" => Over(a)

Answerable(a) ==
    \/ a \in unwritten \/ loaded = "no" \/ item[a] # "waiting" \/ lane[a] # None
    \/ pc[a] \in {"checkpoint", "register"}

AnswerInv == TypeInv /\ \A a \in Asks : Fresh(a) /\ Settled(a) /\ Answerable(a)

LEMMA InitAnswer == Init => AnswerInv
<1> SUFFICES ASSUME Init
             PROVE  AnswerInv
  OBVIOUS
<1>1. \A c \in Sources, a \in Asks : task[<<c, a>>] = None
  BY DEF Init
<1>2. \A a \in Asks : Fresh(a) /\ Settled(a) /\ Answerable(a)
  BY <1>1 DEF Init, Fresh, Settled, Answerable, None
<1> QED BY <1>2, InitTypes DEF AnswerInv

LEMMA RequestAnswer ==
    ASSUME AnswerInv, TypeInv', NEW b \in Asks, Request(b)
    PROVE  AnswerInv'
<1> USE DEF AnswerInv, TypeInv, LaneTypes, RolloutTypes
<1>1. UNCHANGED <<task, ans, loaded>> /\ unwritten \subseteq unwritten'
  BY DEF Request, Ask, Checkpoint, Register, Publish, Answer, Recovered, GiveIn, RecordCancelled,
     TakeFailed, RecordDecision, Complete, Run, RecordResult, Persist, answers, session, history
<1>2. \A a \in Asks \ {b} : UNCHANGED <<item[a], lane[a], pc[a], result[a]>>
  BY DEF Request, Ask, Checkpoint, Register, Publish, Answer, Recovered, GiveIn, RecordCancelled,
     TakeFailed, RecordDecision, Complete, Run, RecordResult, Persist, Goto, rollout, lanes
<1>3. \A a \in Asks \ {b} : Fresh(a)' /\ Settled(a)' /\ Answerable(a)'
  BY <1>1, <1>2 DEF Fresh, Settled, Over, Answerable
<1>4. pc'[b] # None
  BY DEF Request, Ask, Checkpoint, Register, Publish, Answer, Recovered, GiveIn, RecordCancelled,
     TakeFailed, RecordDecision, Complete, Run, RecordResult, Goto, None
<1>5. CASE Ask(b)
  <2>1. pc[b] = None /\ pc'[b] = "checkpoint"
    BY <1>5 DEF Ask, Goto
  <2>2. \A c \in Sources : task'[<<c, b>>] = None
    BY <1>1, <2>1 DEF Fresh
  <2> QED BY <1>3, <1>4, <2>1, <2>2 DEF Fresh, Settled, Answerable, None
<1>6. CASE Checkpoint(b) \/ Register(b)
  <2>1. \/ pc'[b] = "register" \/ b \in unwritten' \/ lane'[b] = "live"
    BY <1>6 DEF Checkpoint, Register, Goto
  <2>2. pc'[b] \notin {"take", "failTake"} /\ UNCHANGED item
    BY <1>6 DEF Checkpoint, Register, Goto, rollout
  <2>3. Fresh(b)' /\ Settled(b)' /\ Answerable(b)'
    BY <1>1, <1>4, <2>1, <2>2 DEF Fresh, Settled, Over, Answerable, None
  <2> QED BY <1>3, <2>3
<1>7. CASE RecordCancelled(b) \/ RecordDecision(b)
  <2>1. Over(b)'
    BY <1>7 DEF RecordCancelled, RecordDecision, Persist, Over, None, Decisions
  <2>2. Fresh(b)' /\ Settled(b)' /\ Answerable(b)'
    BY <1>4, <2>1 DEF Fresh, Settled, Over, Answerable
  <2> QED BY <1>3, <2>2
<1>8. CASE TakeFailed(b) \/ Complete(b)
  <2>1. Over(b)'
    BY <1>1, <1>8 DEF TakeFailed, Complete, At, Settled, Over, rollout
  <2>2. Fresh(b)' /\ Settled(b)' /\ Answerable(b)'
    BY <1>4, <2>1 DEF Fresh, Settled, Over, Answerable
  <2> QED BY <1>3, <2>2
<1>9. CASE \/ Publish(b) \/ Recovered(b) \/ GiveIn(b) \/ Run(b) \/ RecordResult(b)
           \/ \E d \in Decisions : Answer(b, d)
  <2>1. /\ UNCHANGED <<item, lane>> /\ pc'[b] \notin {"take", "failTake"}
        /\ pc[b] \notin {"checkpoint", "register"}
    BY <1>9 DEF Publish, Recovered, GiveIn, Run, RecordResult, Answer, At, Goto, InWait, rollout,
       lanes
  <2>2. Fresh(b)' /\ Settled(b)' /\ Answerable(b)'
    BY <1>1, <1>4, <2>1 DEF Fresh, Settled, Over, Answerable
  <2> QED BY <1>3, <2>2
<1> QED BY <1>5, <1>6, <1>7, <1>8, <1>9 DEF Request

LEMMA TurnAnswer ==
    ASSUME AnswerInv, TypeInv', Turn
    PROVE  AnswerInv'
<1> USE DEF AnswerInv, TypeInv
<1>1. UNCHANGED <<item, lane, loaded, result>> /\ unwritten \subseteq unwritten'
  BY DEF Turn, StartTurn, Interrupt, Preempt, Stop, CancelSaved, TurnEnds, HardAbort, rollout, lanes,
     history
<1>2. \A a \in Asks : pc'[a] = pc[a] \/ (pc[a] \in Busy /\ pc'[a] = "done")
  BY DEF Turn, StartTurn, Interrupt, Preempt, Stop, CancelSaved, TurnEnds, HardAbort, Dropped,
     waiters, LaneTypes
<1>3. \A a \in Asks : pc[a] \in {"checkpoint", "register"} => a \in unwritten' \/ pc'[a] = pc[a]
  BY DEF Turn, StartTurn, Interrupt, Preempt, Stop, CancelSaved, TurnEnds, HardAbort, Dropped,
     Laneless, waiters, LaneTypes
<1>4. \A t \in Tasks : task'[t] \in {task[t], None} \/ (task[t] = "bound" /\ task'[t] = "sent")
  BY DEF Turn, StartTurn, Interrupt, Preempt, Stop, CancelSaved, TurnEnds, HardAbort, Unbind,
     answers, TaskTypes, Tasks
<1>5. \A c \in Sources, a \in Asks : <<c, a>> \in Tasks
  BY DEF Tasks
<1>6. ASSUME NEW a \in Asks
      PROVE  Fresh(a)' /\ Settled(a)' /\ Answerable(a)'
  BY <1>1, <1>2, <1>3, <1>4, <1>5 DEF Fresh, Settled, Over, Answerable, Busy, None
<1> QED BY <1>6

LEMMA ClientAnswer ==
    ASSUME AnswerInv, TypeInv', NEW c \in Clients, NEW b \in Asks, FromClient(c, b)
    PROVE  AnswerInv'
<1> USE DEF AnswerInv, TypeInv
<1>1. <<c, b>> \in Tasks
  BY DEF Tasks, Sources
<1>2. UNCHANGED <<item, lane, pc, loaded, unwritten, result>>
  BY DEF FromClient, Reissue, Reply, rollout, session, lanes, waiters, history
<1>3. pc[b] # None
  <2>1. CASE Reissue(c, b)
    BY <2>1 DEF Reissue, Fresh
  <2>2. CASE \E d \in Decisions : Reply(c, b, d)
    BY <2>2 DEF Reply, Fresh, Sources, None
  <2> QED BY <2>1, <2>2 DEF FromClient
<1>4. \A t \in Tasks : t # <<c, b>> => task'[t] = task[t]
  BY <1>1 DEF FromClient, Reissue, Reply, Move, Leave, TaskTypes
<1>5. task'[<<c, b>>] # "take"
  BY <1>1 DEF FromClient, Reissue, Reply, Move, Leave, TaskTypes, None
<1>6. \A e \in Sources, a \in Asks : <<e, a>> \in Tasks /\ (a # b => <<e, a>> # <<c, b>>)
  BY DEF Tasks
<1>7. ASSUME NEW a \in Asks
      PROVE  Fresh(a)' /\ Settled(a)' /\ Answerable(a)'
  <2>1. \A e \in Sources : task'[<<e, a>>] = "take" => task[<<e, a>>] = "take"
    BY <1>4, <1>5, <1>6
  <2>2. pc[a] = None => \A e \in Sources : task'[<<e, a>>] = task[<<e, a>>]
    BY <1>3, <1>4, <1>6
  <2> QED BY <1>2, <2>1, <2>2 DEF Fresh, Settled, Over, Answerable
<1> QED BY <1>7

LEMMA ContinuationAnswer ==
    ASSUME AnswerInv, TypeInv', NEW t \in Tasks, Continuation(t)
    PROVE  AnswerInv'
<1> USE DEF AnswerInv, TypeInv
<1>1. t[2] \in Asks /\ t[1] \in Sources /\ t = <<t[1], t[2]>>
  BY DEF Tasks
<1>2. UNCHANGED <<pc, loaded>> /\ unwritten \subseteq unwritten'
  BY DEF Continuation, RecordAnswer, TakeLane, Claim, Begin, Check, Execute, Resume, LooseEnds,
     Persist, session, waiters, history
<1>3. pc[t[2]] # None
  <2>1. task[t] # None
    BY DEF Continuation, RecordAnswer, TakeLane, Claim, Begin, Check, Execute, Resume, LooseEnds, None
  <2> QED BY <1>1, <2>1 DEF Fresh
<1>4. \A u \in Tasks : u # t => task'[u] = task[u]
  BY DEF Continuation, RecordAnswer, TakeLane, Claim, Begin, Check, Execute, Resume, LooseEnds,
     Move, Leave, TaskTypes
<1>5. \A a \in Asks \ {t[2]} : UNCHANGED <<item[a], lane[a], result[a]>>
  BY <1>1 DEF Continuation, RecordAnswer, TakeLane, Claim, Begin, Check, Execute, Resume, LooseEnds,
     Persist, rollout, lanes, RolloutTypes, LaneTypes
<1>6. \A e \in Sources, a \in Asks : <<e, a>> \in Tasks /\ (a # t[2] => <<e, a>> # t)
  BY <1>1 DEF Tasks
<1>7. ASSUME NEW a \in Asks, a # t[2]
      PROVE  Fresh(a)' /\ Settled(a)' /\ Answerable(a)'
  <2>1. \A e \in Sources : task'[<<e, a>>] = task[<<e, a>>]
    BY <1>4, <1>6, <1>7
  <2> QED BY <1>2, <1>5, <1>7, <2>1 DEF Fresh, Settled, Over, Answerable
<1>8. Fresh(t[2])' /\ Settled(t[2])' /\ Answerable(t[2])'
  <2>1. CASE Over(t[2])'
    BY <1>1, <1>2, <1>3, <2>1 DEF Fresh, Settled, Answerable, Over
  <2>2. CASE ~Over(t[2])'
    <3>1. UNCHANGED <<item[t[2]], lane[t[2]]>> /\ task'[t] # "take"
      <4>1. CASE RecordAnswer(t)
        BY <1>1, <2>2, <4>1 DEF RecordAnswer, Persist, Leave, Over, lanes, RolloutTypes, TaskTypes,
           Decisions, None
      <4>2. CASE TakeLane(t)
        BY <1>1, <1>2, <2>2, <4>2 DEF TakeLane, Settled, Over, rollout, history
      <4>3. CASE \/ Claim(t) \/ Begin(t) \/ Check(t) \/ Execute(t) \/ Resume(t) \/ LooseEnds(t)
        BY <4>3 DEF Claim, Begin, Check, Execute, Resume, LooseEnds, Move, Leave, rollout, lanes,
           TaskTypes, None
      <4> QED BY <4>1, <4>2, <4>3 DEF Continuation
    <3>2. ~Over(t[2])
      BY <1>2, <2>2, <3>1 DEF Over
    <3>3. \A e \in Sources : task'[<<e, t[2]>>] # "take"
      BY <1>1, <1>4, <1>6, <3>1, <3>2 DEF Settled
    <3> QED BY <1>1, <1>2, <1>3, <3>1, <3>2, <3>3 DEF Fresh, Settled, Answerable, Over
  <2> QED BY <2>1, <2>2
<1> QED BY <1>7, <1>8

LEMMA ProcessAnswer ==
    ASSUME AnswerInv, TypeInv', Process
    PROVE  AnswerInv'
<1> USE DEF AnswerInv, TypeInv
<1>1. UNCHANGED <<item, unwritten, result>>
  BY DEF Process, Crash, Shutdown, Unload, Evict, Hydrate, Insert, rollout, history
<1>2. \A a \in Asks : pc'[a] = pc[a] \/ (pc[a] \in Busy /\ pc'[a] = "done")
  BY DEF Process, Crash, Shutdown, Unload, Evict, Hydrate, Insert, Dropped, waiters, LaneTypes
<1>3. \A c \in Sources, a \in Asks : <<c, a>> \in Tasks
  BY DEF Tasks
<1>4. CASE Crash \/ Shutdown \/ Evict
  <2>1. loaded' = "no" /\ \A a \in Asks : lane'[a] = None
    BY <1>4 DEF Crash, Shutdown, Unload, Evict
  <2>2. \A t \in Tasks : task'[t] \in {task[t], None}
    BY <1>4 DEF Crash, Shutdown, Unload, Evict, answers, Tasks
  <2>3. ASSUME NEW a \in Asks
        PROVE  Fresh(a)' /\ Settled(a)' /\ Answerable(a)'
    BY <1>1, <1>2, <1>3, <2>1, <2>2 DEF Fresh, Settled, Over, Answerable, Busy, None
  <2> QED BY <2>3
<1>5. CASE Hydrate
  <2>1. \A a \in Asks : lane'[a] = IF item[a] = "waiting" THEN "restored" ELSE None
    BY <1>5 DEF Hydrate, WaitingBefore
  <2>2. \A c \in Sources, a \in Asks :
            \/ task'[<<c, a>>] = task[<<c, a>>]
            \/ task'[<<c, a>>] = "spawned" /\ item[a] = "approved"
    BY <1>5 DEF Hydrate, ApprovedBefore
  <2>3. pc' = pc
    BY <1>5 DEF Hydrate, waiters
  <2>4. ASSUME NEW a \in Asks
        PROVE  Fresh(a)' /\ Settled(a)' /\ Answerable(a)'
    BY <1>1, <2>1, <2>2, <2>3 DEF Fresh, Settled, Over, Answerable, None
  <2> QED BY <2>4
<1>6. CASE Insert
  BY <1>1, <1>6 DEF Insert, lanes, waiters, answers, Fresh, Settled, Over, Answerable
<1> QED BY <1>4, <1>5, <1>6 DEF Process

LEMMA StepAnswer == AnswerInv /\ [Next]_vars => AnswerInv'
<1>1. AnswerInv /\ UNCHANGED vars => AnswerInv'
  BY StepTypes DEF vars, rollout, session, lanes, waiters, answers, history, AnswerInv, Fresh,
     Settled, Over, Answerable
<1> QED BY <1>1, StepTypes, RequestAnswer, TurnAnswer, ClientAnswer, ContinuationAnswer,
        ProcessAnswer DEF Next, Tasks, AnswerInv

\* While a session is loaded, an approval that waits in its rollout has a lane
\* to be answered by, or its request is about to open one; else a line of it
\* was lost (approval.rs:831-879, 959-1003, 1028-1066;
\* turn_exec/approval_resume.rs:258-293, 921-1003).
THEOREM StaysAnswerable == Spec => []WaitingIsAnswerable
<1>1. AnswerInv => WaitingIsAnswerable
  BY DEF AnswerInv, Answerable, WaitingIsAnswerable
<1> QED BY <1>1, InitAnswer, StepAnswer, PTL DEF Spec

(***************************************************************************)
(* Once.  Until a continuation is given up, the registry keeps everyone    *)
(* else from running beside it: one continuation has begun at most, no     *)
(* wait is under way before it comes to its query, and what it has to      *)
(* execute has no result yet.                                              *)
(***************************************************************************)
Under == {"begin"} \cup Continues

LiveWaits == \A a \in Asks : pc[a] \in Busy => live
OneUnder == \A t, u \in Tasks : task[t] \in Under /\ task[u] \in Under => t = u
Claimed == \A t \in Tasks : task[t] \in Under => reg = "cont"
Quiet == live => reg # None /\ \A t \in Tasks : task[t] \in Under => task[t] = "query"
NoResult ==
    /\ \A t \in Tasks : task[t] = "execute" => result[t[2]] # "result"
    /\ \A a \in Asks : pc[a] \in Busy => result[a] # "result"

Alone == loose = {} /\ OneUnder /\ Claimed /\ Quiet /\ NoResult

OnceInv == AnswerInv /\ LiveWaits /\ (gaveUp \/ Alone)

LEMMA InitOnce == Init => OnceInv
<1> SUFFICES ASSUME Init
             PROVE  OnceInv
  OBVIOUS
<1>1. \A t \in Tasks : task[t] = None
  BY DEF Init, Tasks
<1>2. Alone
  BY <1>1 DEF Init, Alone, OneUnder, Claimed, Quiet, NoResult, Under, Continues, None, Busy
<1>3. LiveWaits
  BY DEF Init, LiveWaits, Busy, None
<1> QED BY <1>2, <1>3, InitAnswer DEF OnceInv

LEMMA GaveUpStays == OnceInv /\ [Next]_vars /\ gaveUp => gaveUp'
<1> SUFFICES ASSUME [Next]_vars, gaveUp
             PROVE  gaveUp'
  OBVIOUS
<1>1. CASE \E a \in Asks : Request(a) \/ \E c \in Clients : FromClient(c, a)
  BY <1>1 DEF Request, Ask, Checkpoint, Register, Publish, Answer, Recovered, GiveIn,
     RecordCancelled, TakeFailed, RecordDecision, Complete, Run, RecordResult, FromClient, Reissue,
     Reply, history
<1>2. CASE Turn \/ Process \/ UNCHANGED vars
  BY <1>2 DEF Turn, StartTurn, Interrupt, Preempt, Stop, CancelSaved, TurnEnds, HardAbort, Process,
     Crash, Shutdown, Unload, Evict, Hydrate, Insert, history, vars
<1>3. CASE \E t \in Sources \X Asks : Continuation(t)
  BY <1>3 DEF Continuation, RecordAnswer, TakeLane, Claim, Begin, Check, Execute, Resume, LooseEnds,
     history
<1> QED BY <1>1, <1>2, <1>3 DEF Next

\* A wait is under way only in a query loop that runs.
LEMMA StepLiveWaits == OnceInv /\ [Next]_vars => LiveWaits'
<1> SUFFICES ASSUME OnceInv, [Next]_vars
             PROVE  LiveWaits'
  OBVIOUS
<1> USE DEF OnceInv, AnswerInv, TypeInv, LaneTypes, LiveWaits
<1>1. ASSUME NEW b \in Asks, Request(b)
      PROVE  LiveWaits'
  <2>1. UNCHANGED live /\ \A a \in Asks \ {b} : pc'[a] = pc[a]
    BY <1>1 DEF Request, Ask, Checkpoint, Register, Publish, Answer, Recovered, GiveIn,
       RecordCancelled, TakeFailed, RecordDecision, Complete, Run, RecordResult, Goto, session
  <2>2. live
    BY <1>1 DEF Request, Ask, Checkpoint, Register, Publish, Answer, Recovered, GiveIn,
       RecordCancelled, TakeFailed, RecordDecision, Complete, Run, RecordResult, At
  <2> QED BY <2>1, <2>2
<1>2. CASE Turn
  <2>1. CASE StartTurn \/ Interrupt \/ Preempt \/ CancelSaved
    BY <2>1 DEF StartTurn, Interrupt, Preempt, Stop, CancelSaved, waiters
  <2>2. CASE TurnEnds
    BY <2>2 DEF TurnEnds, Waiting, waiters
  <2>3. CASE HardAbort
    <3>1. CASE pc' = Dropped
      BY <3>1 DEF Dropped, Busy
    <3>2. CASE ~Waiting /\ UNCHANGED pc
      BY <3>2 DEF Waiting
    <3> QED BY <2>3, <3>1, <3>2 DEF HardAbort
  <2> QED BY <1>2, <2>1, <2>2, <2>3 DEF Turn
<1>3. CASE \E c \in Clients, a \in Asks : FromClient(c, a)
  BY <1>3 DEF FromClient, Reissue, Reply, session, waiters
<1>4. ASSUME NEW t \in Tasks, Continuation(t)
      PROVE  LiveWaits'
  <2>1. live => live'
    BY <1>4 DEF Continuation, RecordAnswer, TakeLane, Claim, Begin, Check, Execute, Resume,
       LooseEnds, session
  <2>2. UNCHANGED pc
    BY <1>4 DEF Continuation, RecordAnswer, TakeLane, Claim, Begin, Check, Execute, Resume,
       LooseEnds, waiters
  <2> QED BY <2>1, <2>2
<1>5. CASE Process
  <2>1. CASE Crash \/ Shutdown
    BY <2>1 DEF Crash, Shutdown, Unload, Dropped, Busy
  <2>2. CASE Evict \/ Hydrate \/ Insert
    BY <2>2 DEF Evict, Hydrate, Insert, waiters
  <2> QED BY <1>5, <2>1, <2>2 DEF Process
<1>6. CASE UNCHANGED vars
  BY <1>6 DEF vars, session, waiters
<1> QED BY <1>1, <1>2, <1>3, <1>4, <1>5, <1>6 DEF Next, Tasks

LEMMA RequestAlone ==
    ASSUME OnceInv, Alone, AnswerInv', NEW b \in Asks, Request(b)
    PROVE  Alone'
<1> USE DEF OnceInv, AnswerInv, TypeInv, LaneTypes, RolloutTypes
<1>1. UNCHANGED <<task, loose, live, reg>> /\ live
  BY DEF Request, Ask, Checkpoint, Register, Publish, Answer, Recovered, GiveIn, RecordCancelled,
     TakeFailed, RecordDecision, Complete, Run, RecordResult, At, answers, session
<1>2. \A t \in Tasks : task[t] # "execute"
  BY <1>1 DEF Alone, Quiet, Under, Continues
<1>3. \A a \in Asks \ {b} : pc'[a] = pc[a] /\ result'[a] = result[a]
  BY DEF Request, Ask, Checkpoint, Register, Publish, Answer, Recovered, GiveIn, RecordCancelled,
     TakeFailed, RecordDecision, Complete, Run, RecordResult, Goto, rollout
<1>4. pc'[b] \in Busy => result'[b] # "result"
  <2>1. CASE RecordResult(b)
    BY <2>1 DEF RecordResult, Goto, Busy
  <2>2. CASE Ask(b)
    BY <2>2 DEF Ask, Fresh, None
  <2>3. CASE ~RecordResult(b) /\ ~Ask(b)
    <3>1. pc[b] \in Busy /\ UNCHANGED result
      BY <2>3 DEF Request, Checkpoint, Register, Publish, Answer, Recovered, GiveIn,
         RecordCancelled, TakeFailed, RecordDecision, Complete, Run, At, InWait, Busy, rollout
    <3> QED BY <3>1 DEF Alone, NoResult
  <2> QED BY <2>1, <2>2, <2>3
<1>5. NoResult'
  BY <1>1, <1>2, <1>3, <1>4 DEF Alone, NoResult
<1> QED BY <1>1, <1>5 DEF Alone, OneUnder, Claimed, Quiet

LEMMA TurnAlone ==
    ASSUME OnceInv, Alone, AnswerInv', Turn, ~gaveUp'
    PROVE  Alone'
<1> USE DEF OnceInv, AnswerInv, TypeInv, LaneTypes, TaskTypes
<1>1. \A t \in Tasks : task'[t] = task[t] \/ task'[t] \notin Under
  <2> USE DEF Unbind, Tasks, Under, Continues, None
  <2>1. CASE StartTurn \/ CancelSaved \/ HardAbort
    BY <2>1 DEF StartTurn, CancelSaved, HardAbort, answers
  <2>2. CASE Interrupt \/ Preempt
    BY <2>2 DEF Interrupt, Preempt, Stop
  <2>3. CASE TurnEnds
    <3>1. CASE task' = Unbind("sent")
      BY <3>1
    <3>2. ASSUME NEW u \in Tasks, task' = [Unbind(None) EXCEPT ![u] = None]
          PROVE  \A t \in Tasks : task'[t] = task[t] \/ task'[t] \notin Under
      BY <3>2
    <3> QED BY <2>3, <3>1, <3>2 DEF TurnEnds
  <2> QED BY <2>1, <2>2, <2>3 DEF Turn
<1>2. loose' = {}
  BY DEF Turn, StartTurn, Interrupt, Preempt, Stop, CancelSaved, TurnEnds, HardAbort, answers, Alone
<1>3. \A a \in Asks : pc'[a] \in Busy => pc[a] \in Busy
  BY DEF Turn, StartTurn, Interrupt, Preempt, Stop, CancelSaved, TurnEnds, HardAbort, Dropped, Busy,
     waiters
<1>4. UNCHANGED result
  BY DEF Turn, StartTurn, Interrupt, Preempt, Stop, CancelSaved, TurnEnds, HardAbort, rollout
<1>5. OneUnder' /\ NoResult'
  BY <1>1, <1>3, <1>4 DEF Alone, OneUnder, NoResult, Under, Continues
<1>6. CASE StartTurn
  <2>1. \A t \in Tasks : task'[t] \notin Under
    BY <1>6 DEF StartTurn, answers, Alone, Claimed, None
  <2> QED BY <1>2, <1>5, <1>6, <2>1 DEF StartTurn, Alone, Claimed, Quiet, None
<1>7. CASE Interrupt \/ Preempt \/ CancelSaved
  <2>1. UNCHANGED <<reg, live>>
    BY <1>7 DEF Interrupt, Preempt, Stop, CancelSaved
  <2> QED BY <1>1, <1>2, <1>5, <2>1 DEF Alone, Claimed, Quiet
<1>8. CASE TurnEnds \/ HardAbort
  <2>1. ASSUME \A t \in Tasks : ~Querying(t), live, ~live'
        PROVE  Alone'
    <3>1. \A t \in Tasks : task[t] \notin Under
      BY <2>1 DEF Querying, Alone, Quiet
    <3>2. \A t \in Tasks : task'[t] \notin Under
      BY <1>1, <3>1
    <3> QED BY <1>2, <1>5, <2>1, <3>2 DEF Alone, Claimed, Quiet
  <2>2. ASSUME NEW t \in Tasks, Querying(t), task'[t] = None,
               live' = \E u \in Tasks \ {t} : Querying(u)
        PROVE  Alone'
    <3>1. \A u \in Tasks \ {t} : task[u] \notin Under
      BY <2>2 DEF Querying, Alone, OneUnder, Under, Continues
    <3>2. \A u \in Tasks : task'[u] \notin Under
      BY <1>1, <2>2, <3>1 DEF Under, Continues, None
    <3>3. ~live'
      BY <2>2, <3>1 DEF Querying, Under, Continues
    <3> QED BY <1>2, <1>5, <3>2, <3>3 DEF Alone, Claimed, Quiet
  <2>3. CASE TurnEnds
    <3>1. CASE live /\ ~live' /\ \A t \in Tasks : ~Querying(t)
      BY <2>1, <3>1
    <3>2. ASSUME NEW t \in Tasks, Querying(t), task' = [Unbind(None) EXCEPT ![t] = None],
                 live' = \E u \in Tasks \ {t} : Querying(u)
          PROVE  Alone'
      <4>1. task'[t] = None
        BY <3>2 DEF Unbind, Tasks
      <4> QED BY <2>2, <3>2, <4>1
    <3> QED BY <2>3, <3>1, <3>2 DEF TurnEnds, Tasks
  <2>4. CASE HardAbort
    <3>1. live /\ ~live' /\ \A t \in Tasks : ~Querying(t)
      BY <2>4 DEF HardAbort, Tasks
    <3> QED BY <2>1, <3>1
  <2> QED BY <1>8, <2>3, <2>4
<1> QED BY <1>6, <1>7, <1>8 DEF Turn

LEMMA ClientAlone ==
    ASSUME OnceInv, Alone, NEW c \in Clients, NEW a \in Asks, FromClient(c, a)
    PROVE  Alone'
<1> USE DEF OnceInv, AnswerInv, TypeInv, TaskTypes
<1>1. <<c, a>> \in Tasks
  BY DEF Tasks, Sources
<1>2. UNCHANGED <<result, pc, loose, live, reg>>
  BY DEF FromClient, Reissue, Reply, rollout, session, waiters
<1>3. \A t \in Tasks : t # <<c, a>> => task'[t] = task[t]
  BY <1>1 DEF FromClient, Reissue, Reply, Move, Leave
<1>4. task'[<<c, a>>] \notin Under
  BY <1>1 DEF FromClient, Reissue, Reply, Move, Leave, Under, Continues, None
<1>5. \A t \in Tasks : task'[t] \in Under => task'[t] = task[t]
  BY <1>3, <1>4
<1> QED BY <1>2, <1>5 DEF Alone, OneUnder, Claimed, Quiet, NoResult, Under, Continues

LEMMA ContinuationAlone ==
    ASSUME OnceInv, Alone, AnswerInv', NEW t \in Tasks, Continuation(t)
    PROVE  Alone'
<1> USE DEF OnceInv, AnswerInv, TypeInv, TaskTypes, RolloutTypes
<1>1. t[2] \in Asks
  BY DEF Tasks
<1>2. UNCHANGED <<pc, loose>> /\ ~LooseEnds(t)
  BY DEF Continuation, RecordAnswer, TakeLane, Claim, Begin, Check, Execute, Resume, LooseEnds,
     waiters, Alone
<1>3. \A u \in Tasks : u # t => task'[u] = task[u]
  BY DEF Continuation, RecordAnswer, TakeLane, Claim, Begin, Check, Execute, Resume, LooseEnds,
     Move, Leave
<1>4. CASE task[t] \notin Under /\ task'[t] \notin Under
  <2>1. UNCHANGED <<result, live, reg>>
    BY <1>4 DEF Continuation, RecordAnswer, TakeLane, Claim, Begin, Check, Execute, Resume,
       LooseEnds, rollout, session, Move, Under, Continues
  <2>2. \A u \in Tasks : task'[u] \in Under => task'[u] = task[u]
    BY <1>3, <1>4
  <2> QED BY <1>2, <2>1, <2>2 DEF Alone, OneUnder, Claimed, Quiet, NoResult, Under, Continues
<1>5. CASE Claim(t) /\ Continuable(t)
  <2>1. ~live'
    BY <1>5 DEF Claim, Continuable, Alone, Quiet
  <2>2. reg' = "cont" /\ UNCHANGED result /\ task'[t] = "begin"
    BY <1>5 DEF Claim, Move, rollout
  <2>3. \A u \in Tasks : u # t => task'[u] \notin Under
    BY <1>3, <1>5 DEF Continuable, Alone, Claimed, None
  <2>4. \A u \in Tasks : task'[u] # "execute"
    BY <2>2, <2>3 DEF Under, Continues
  <2>5. NoResult'
    BY <1>2, <2>2, <2>4 DEF Alone, NoResult
  <2> QED BY <1>2, <2>1, <2>2, <2>3, <2>5 DEF Alone, OneUnder, Claimed, Quiet
<1>6. CASE task[t] \in Under
  <2>1. \A u \in Tasks : u # t => task'[u] \notin Under
    BY <1>3, <1>6 DEF Alone, OneUnder
  <2>2. reg = "cont" /\ (task[t] # "query" => ~live)
    BY <1>6 DEF Alone, Claimed, Quiet
  <2>3. task[t] # "query"
    BY <1>2, <1>6 DEF Continuation, RecordAnswer, TakeLane, Claim, Begin, Check, Execute, Resume
  <2>4. \A a \in Asks : pc[a] \notin Busy
    BY <2>2, <2>3 DEF LiveWaits
  <2>5. CASE Begin(t)
    <3>1. /\ ~live' /\ UNCHANGED result
          /\ \/ task'[t] = "check" /\ reg' = reg
             \/ task'[t] = None
      BY <2>2, <2>3, <2>5 DEF Begin, Move, Leave, rollout
    <3> QED BY <1>2, <2>1, <2>2, <3>1
            DEF Alone, OneUnder, Claimed, Quiet, NoResult, Under, Continues, None
  <2>6. CASE Check(t)
    <3>1. /\ UNCHANGED <<result, reg>>
          /\ \/ task'[t] = "query"
             \/ task'[t] = "execute" /\ result[t[2]] # "result" /\ ~live'
      BY <2>2, <2>3, <2>6 DEF Check, Move, rollout
    <3> QED BY <1>2, <2>1, <2>2, <2>4, <3>1
            DEF Alone, OneUnder, Claimed, Quiet, NoResult, Under, Continues, None
  <2>7. CASE Execute(t)
    <3>1. UNCHANGED <<result, reg, live>> /\ task'[t] = "result"
      BY <2>7 DEF Execute, Move, rollout, session
    <3> QED BY <1>2, <2>1, <2>2, <2>3, <3>1
            DEF Alone, OneUnder, Claimed, Quiet, NoResult, Under, Continues, None
  <2>8. CASE Resume(t)
    <3>1. UNCHANGED reg /\ task'[t] = "query"
      BY <2>8 DEF Resume, Move
    <3> QED BY <1>2, <2>1, <2>2, <2>4, <3>1
            DEF Alone, OneUnder, Claimed, Quiet, NoResult, Under, Continues, None
  <2> QED BY <1>2, <1>6, <2>5, <2>6, <2>7, <2>8 DEF Continuation, RecordAnswer, TakeLane, Claim,
          Under, Continues
<1>7. task[t] \in Under \/ (task[t] \notin Under /\ task'[t] \notin Under)
      \/ (Claim(t) /\ Continuable(t))
  BY DEF Continuation, RecordAnswer, TakeLane, Claim, Begin, Check, Execute, Resume, LooseEnds, Move,
     Leave, Under, Continues, None
<1> QED BY <1>4, <1>5, <1>6, <1>7

LEMMA ProcessAlone ==
    ASSUME OnceInv, Alone, Process
    PROVE  Alone'
<1> USE DEF OnceInv, AnswerInv, TypeInv, TaskTypes, LaneTypes
<1>1. UNCHANGED result /\ loose' = {} /\ \A a \in Asks : pc'[a] \in Busy => pc[a] \in Busy
  BY DEF Process, Crash, Shutdown, Unload, Evict, Hydrate, Insert, Dropped, Busy, rollout, waiters,
     answers, Alone
<1>2. CASE Crash \/ Shutdown
  <2>1. ~live' /\ \A t \in Tasks : task'[t] = None
    BY <1>2 DEF Crash, Shutdown, Unload, Tasks
  <2> QED BY <1>1, <2>1 DEF Alone, OneUnder, Claimed, Quiet, NoResult, Under, Continues, None
<1>3. CASE Evict \/ Hydrate \/ Insert
  <2>1. UNCHANGED <<live, reg>>
    BY <1>3 DEF Evict, Hydrate, Insert
  <2>2. \A t \in Tasks : task'[t] \in Under => task'[t] = task[t]
    BY <1>3 DEF Evict, Hydrate, Insert, answers, Tasks, Under, Continues
  <2> QED BY <1>1, <2>1, <2>2 DEF Alone, OneUnder, Claimed, Quiet, NoResult, Under, Continues
<1> QED BY <1>2, <1>3 DEF Process

LEMMA StepOnce == OnceInv /\ [Next]_vars => OnceInv'
<1> SUFFICES ASSUME OnceInv, [Next]_vars
             PROVE  OnceInv'
  OBVIOUS
<1>1. AnswerInv' /\ LiveWaits'
  BY StepAnswer, StepLiveWaits DEF OnceInv
<1>2. CASE gaveUp
  BY <1>1, <1>2, GaveUpStays DEF OnceInv
<1>3. CASE Alone /\ ~gaveUp'
  <2>1. CASE UNCHANGED vars
    <3>1. UNCHANGED <<pc, task, loose, result, live, reg>>
      BY <2>1 DEF vars, rollout, session, waiters, answers
    <3>2. Alone'
      BY <1>3, <3>1 DEF Alone, OneUnder, Claimed, Quiet, NoResult
    <3> QED BY <1>1, <3>2 DEF OnceInv
  <2>2. ASSUME NEW a \in Asks, Request(a)
        PROVE  Alone'
    BY <1>1, <1>3, <2>2, RequestAlone
  <2>3. ASSUME NEW a \in Asks, NEW c \in Clients, FromClient(c, a)
        PROVE  Alone'
    BY <1>3, <2>3, ClientAlone
  <2>4. Turn => Alone'
    BY <1>1, <1>3, TurnAlone
  <2>5. ASSUME NEW t \in Tasks, Continuation(t)
        PROVE  Alone'
    BY <1>1, <1>3, <2>5, ContinuationAlone
  <2>6. Process => Alone'
    BY <1>3, ProcessAlone
  <2>7. Alone' \/ UNCHANGED vars
    BY <2>2, <2>3, <2>4, <2>5, <2>6 DEF Next, Tasks
  <2> QED BY <1>1, <2>1, <2>7 DEF OnceInv
<1> QED BY <1>1, <1>2, <1>3 DEF OnceInv

\* As long as no continuation was given up by an interrupt, no call runs once
\* its result is in the rollout: not by the answer of a second client, nor by
\* a restart that reads the approval back (turn_exec/approval_resume.rs:419-436,
\* 495-510, 612-639).
THEOREM RunsOnce == Spec => RecordedIsNotRepeated
<1>1. ASSUME OnceInv, NEW a \in Asks, Runs(a), result[a] = "result"
      PROVE  gaveUp
  <2>1. CASE pc[a] = "run"
    BY <1>1, <2>1 DEF OnceInv, Alone, NoResult, Busy
  <2>2. ASSUME NEW c \in Sources, task[<<c, a>>] = "execute"
        PROVE  gaveUp
    <3>1. <<c, a>> \in Tasks /\ <<c, a>>[2] = a
      BY DEF Tasks
    <3> QED BY <1>1, <2>2, <3>1 DEF OnceInv, Alone, NoResult
  <2> QED BY <1>1, <2>1, <2>2 DEF Runs
<1>2. OnceInv => (\A a \in Asks : Runs(a) /\ result[a] = "result" => gaveUp)
  BY <1>1
<1> QED BY <1>2, InitOnce, StepOnce, PTL DEF Spec, RecordedIsNotRepeated

=============================================================================
