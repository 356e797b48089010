------------------------ MODULE ScheduleOutboxProofs ------------------------
(***************************************************************************)
(* Proofs about the schedule outbox, for any jobs, prompts and bounds.     *)
(***************************************************************************)
EXTENDS ScheduleOutbox, FiniteSetTheorems, TLAPS

(***************************************************************************)
(* Types.                                                                  *)
(***************************************************************************)
FileTypes ==
    /\ status \in [Jobs -> {"none", "active", "paused", "stopped", "deleted"}]
    /\ run \in [Jobs -> 1..(MaxRuns + 1)]
    /\ due \subseteq {j \in Jobs : status[j] = "active" /\ run[j] <= MaxRuns}

BoxTypes ==
    /\ outbox \subseteq Occ
    /\ attempted \subseteq outbox
    /\ retrying \subseteq outbox
    /\ inflight \in [Occ -> {"none", "fresh", "old"}]
    /\ settled \subseteq Occ

PassTypes ==
    /\ pc \in {"idle", "claim", "next", "load", "history", "snapshot", "pending",
               "decide", "reserve", "deliver", "steerItem"}
    /\ batch \subseteq Occ
    /\ cur \in Occ \cup {NoOcc}
    /\ seen \in {"none", "same", "ended"}
    /\ pc \notin {"idle", "claim", "next"} => cur \in Occ

Texts == {Prompt[j] : j \in Jobs}

SessionTypes ==
    /\ queued \subseteq Occ
    /\ steered \subseteq Occ
    /\ turn \in [runs : Occ \cup {NoOcc, User},
                 phase : {"none", "popped", "active", "running"},
                 texts : SUBSET Texts]
    /\ turn.phase \in {"popped", "active"} => turn.runs \in Occ
    /\ shown \in [Occ -> 0..2]
    /\ exists \in BOOLEAN

HistoryTypes ==
    /\ claimed \subseteq Occ
    /\ budget \in [userTurns : 0..MaxUserTurns, mishaps : 0..MaxMishaps]

TypeInv == FileTypes /\ BoxTypes /\ PassTypes /\ SessionTypes /\ HistoryTypes

LEMMA Bounds == MaxRuns \in Nat /\ MaxUserTurns \in Nat /\ MaxMishaps \in Nat
BY OutboxAssumption

LEMMA OccFacts ==
    ASSUME NEW o \in Occ
    PROVE  Job(o) \in Jobs /\ o[2] \in 1..MaxRuns /\ o # NoOcc /\ o # User /\ Text(o) \in Texts
<1>1. o[1] \in Jobs /\ o[2] \in 1..MaxRuns
  BY DEF Occ
<1> QED BY <1>1, OutboxAssumption DEF Job, Text, Texts

LEMMA InitTypes == Init => TypeInv
BY Bounds DEF Init, TypeInv, FileTypes, BoxTypes, PassTypes, SessionTypes, HistoryTypes, NoTurn

\* An occurrence's fate changes the outbox by its own entry only.
LEMMA BoxStepTypes ==
    ASSUME BoxTypes, NEW o \in Occ,
           \/ Acknowledge(o)
           \/ AcknowledgeOrNot(o)
           \/ \E n \in {0, 1} : RetryLater(o, n)
    PROVE  BoxTypes'
BY DEF BoxTypes, Acknowledge, AcknowledgeOrNot, RetryLater, boxVars

LEMMA MishapTypes ==
    ASSUME TypeInv, NEW n \in Nat, Mishaps(n)
    PROVE  budget' \in [userTurns : 0..MaxUserTurns, mishaps : 0..MaxMishaps]
BY Bounds DEF TypeInv, HistoryTypes, Mishaps

LEMMA RequestTypes ==
    ASSUME TypeInv, NEW j \in Jobs, Request(j)
    PROVE  TypeInv'
<1> USE Bounds DEF TypeInv
<1>1. FileTypes'
  BY DEF FileTypes, Request, Create, Reschedule, Replace, Resume, Pause, Stop, Delete, Renew, Quiet
<1>2. UNCHANGED <<boxVars, passVars, sessionVars, claimed, budget>>
  BY DEF Request, Create, Reschedule, Replace, Resume, Pause, Stop, Delete, Lifecycle
<1>3. BoxTypes' /\ PassTypes' /\ SessionTypes' /\ HistoryTypes'
  BY <1>2 DEF boxVars, passVars, sessionVars, BoxTypes, PassTypes, SessionTypes, HistoryTypes
<1> QED BY <1>1, <1>3

LEMMA ClaimTypes ==
    ASSUME TypeInv, ClaimOutbox \/ ClaimSchedules \/ PassEnds
    PROVE  TypeInv'
<1> USE Bounds DEF TypeInv
<1>1. Fired \subseteq Occ
  BY DEF Fired, Occ, FileTypes
<1>2. CASE ClaimOutbox
  BY <1>1, <1>2 DEF ClaimOutbox, FileTypes, BoxTypes, PassTypes, SessionTypes, HistoryTypes, files,
     sessionVars
<1>3. CASE ClaimSchedules
  <2>1. FileTypes'
    <3>1. \A j \in Jobs : <<j, run[j]>> \in batch => run[j] \in 1..MaxRuns
      BY DEF PassTypes, Occ, FileTypes
    <3>2. CASE UNCHANGED <<run, due>>
      BY <1>3, <3>2 DEF ClaimSchedules, FileTypes
    <3>3. CASE /\ run' = [j \in Jobs |-> IF <<j, run[j]>> \in batch THEN run[j] + 1 ELSE run[j]]
               /\ due' = {j \in due : <<j, run[j]>> \notin batch}
      <4>1. run' \in [Jobs -> 1..(MaxRuns + 1)]
        BY <3>1, <3>3 DEF FileTypes
      <4>2. \A j \in due' : j \in due /\ run'[j] = run[j]
        BY <3>3 DEF FileTypes
      <4> QED BY <1>3, <4>1, <4>2 DEF ClaimSchedules, FileTypes
    <3> QED BY <1>3, <3>2, <3>3 DEF ClaimSchedules
  <2>2. BoxTypes' /\ PassTypes' /\ SessionTypes' /\ claimed' \subseteq Occ
    BY <1>3 DEF ClaimSchedules, BoxTypes, PassTypes, SessionTypes, HistoryTypes, boxVars, sessionVars
  <2>3. HistoryTypes'
    BY <1>3, <2>2, MishapTypes DEF ClaimSchedules, HistoryTypes, Mishap
  <2> QED BY <2>1, <2>2, <2>3
<1>4. CASE PassEnds
  BY <1>4 DEF PassEnds, FileTypes, BoxTypes, PassTypes, SessionTypes, HistoryTypes, files,
     sessionVars, boxVars
<1> QED BY <1>2, <1>3, <1>4

\* The steps of a pass that leave jobs and session alone.
LEMMA ExamineTypes ==
    ASSUME TypeInv, NEW o \in Occ, Examine(o)
    PROVE  TypeInv'
<1> USE DEF TypeInv
<1>1. FileTypes' /\ SessionTypes'
  BY DEF Examine, files, sessionVars, FileTypes, SessionTypes
<1>2. PassTypes'
  BY DEF Examine, PassTypes
<1>3. BoxTypes'
  BY BoxStepTypes DEF Examine, BoxTypes, boxVars
<1>4. HistoryTypes'
  BY MishapTypes DEF Examine, Mishap, HistoryTypes
<1> QED BY <1>1, <1>2, <1>3, <1>4

LEMMA LoadTypes ==
    ASSUME TypeInv, Load
    PROVE  TypeInv'
<1> USE DEF TypeInv
<1>1. cur \in Occ /\ Job(cur) \in Jobs
  BY OccFacts DEF Load, PassTypes
<1>2. FileTypes'
  BY <1>1 DEF Load, files, FileTypes, Quiet
<1>3. SessionTypes' /\ PassTypes'
  BY DEF Load, Visit, Continue, sessionVars, PassTypes, SessionTypes
<1>4. BoxTypes'
  BY <1>1, BoxStepTypes DEF Load, BoxTypes, boxVars
<1>5. HistoryTypes'
  <2>1. CASE UNCHANGED budget
    BY <2>1 DEF Load, HistoryTypes
  <2>2. ASSUME NEW n \in Nat, Mishaps(n)
        PROVE  HistoryTypes'
    BY <2>2, MishapTypes DEF Load, HistoryTypes
  <2>3. \A kept \in SUBSET {"schedules", "outbox"} : Cardinality(kept) \in Nat
    <3>1. IsFiniteSet({"schedules"} \cup {"outbox"})
      BY FS_Singleton, FS_AddElement
    <3>2. {"schedules"} \cup {"outbox"} = {"schedules", "outbox"}
      OBVIOUS
    <3> QED BY <3>1, <3>2, FS_Subset, FS_CardinalityType
  <2> QED BY <2>1, <2>2, <2>3 DEF Load, RetryLater, Mishap
<1> QED BY <1>2, <1>3, <1>4, <1>5

LEMMA ReadTypes ==
    ASSUME TypeInv, ReadHistory \/ ReadSnapshot \/ LookPending \/ Decide \/ Reserve
    PROVE  TypeInv'
<1> USE DEF TypeInv
<1>1. cur \in Occ
  BY DEF ReadHistory, ReadSnapshot, LookPending, Decide, Reserve, PassTypes
<1>2. FileTypes' /\ SessionTypes'
  BY DEF ReadHistory, ReadSnapshot, LookPending, Decide, Reserve, files, sessionVars,
     FileTypes, SessionTypes
<1>3. PassTypes'
  BY <1>1 DEF ReadHistory, ReadSnapshot, LookPending, Decide, Reserve, Visit, Continue,
     RetryUnlessInflight, PassTypes
<1>4. BoxTypes'
  <2>1. CASE ReadHistory
    BY <1>1, <2>1, BoxStepTypes DEF ReadHistory, RetryUnlessInflight, BoxTypes, boxVars
  <2>2. CASE ReadSnapshot
    BY <1>1, <2>2, BoxStepTypes DEF ReadSnapshot, BoxTypes, boxVars
  <2>3. CASE LookPending
    <3>1. CASE \/ UNCHANGED boxVars
               \/ \E n \in {0, 1} : RetryLater(cur, n)
      BY <1>1, <3>1, BoxStepTypes DEF BoxTypes, boxVars
    <3>2. CASE /\ MarkInflight(cur)
               /\ UNCHANGED <<outbox, settled>>
               /\ MarkAttempted(cur) \/ UNCHANGED <<attempted, retrying>>
      BY <1>1, <3>2 DEF MarkInflight, MarkAttempted, BoxTypes
    <3> QED BY <2>3, <3>1, <3>2 DEF LookPending, RetryUnlessInflight
  <2>4. CASE Decide
    BY <1>1, <2>4, BoxStepTypes DEF Decide, BoxTypes, boxVars
  <2>5. CASE Reserve
    <3>1. CASE RetryLater(cur, 1)
      BY <1>1, <3>1, BoxStepTypes
    <3>2. CASE MarkAttempted(cur) /\ MarkInflight(cur) /\ UNCHANGED <<outbox, settled>>
      BY <1>1, <3>2 DEF MarkInflight, MarkAttempted, BoxTypes
    <3> QED BY <2>5, <3>1, <3>2 DEF Reserve
  <2> QED BY <2>1, <2>2, <2>3, <2>4, <2>5
<1>5. HistoryTypes'
  <2>1. CASE UNCHANGED budget
    BY <2>1 DEF ReadHistory, ReadSnapshot, LookPending, Decide, Reserve, HistoryTypes
  <2>2. ASSUME NEW n \in {0, 1, 2}, Mishaps(n)
        PROVE  HistoryTypes'
    BY <2>2, MishapTypes DEF ReadHistory, ReadSnapshot, LookPending, Decide, Reserve, HistoryTypes
  <2> QED BY <2>1, <2>2 DEF ReadHistory, ReadSnapshot, LookPending, Decide, Reserve,
          RetryUnlessInflight, RetryLater, AcknowledgeOrNot, Mishap
<1> QED BY <1>2, <1>3, <1>4, <1>5

LEMMA DeliverTypes ==
    ASSUME TypeInv, Deliver \/ SteerItem
    PROVE  TypeInv'
<1> USE DEF TypeInv
<1>1. cur \in Occ /\ Text(cur) \in Texts
  BY OccFacts DEF Deliver, SteerItem, PassTypes
<1>2. FileTypes' /\ PassTypes'
  BY <1>1 DEF Deliver, SteerItem, PushOutcome, SteerOutcome, Visit, Continue, files, FileTypes,
     PassTypes
<1>3. BoxTypes'
  BY <1>1, BoxStepTypes DEF Deliver, SteerItem, BoxTypes, boxVars
<1>4. SessionTypes'
  <2>1. CASE Deliver
    BY <1>1, <2>1 DEF Deliver, PushOutcome, SteerOutcome, sessionVars, SessionTypes, NoTurn
  <2>2. CASE SteerItem
    BY <1>1, <2>2 DEF SteerItem, SessionTypes
  <2> QED BY <2>1, <2>2
<1>5. HistoryTypes'
  <2>1. CASE UNCHANGED budget
    BY <2>1 DEF Deliver, SteerItem, HistoryTypes
  <2>2. ASSUME NEW n \in {0, 1, 2}, Mishaps(n)
        PROVE  HistoryTypes'
    BY <2>2, MishapTypes DEF Deliver, SteerItem, HistoryTypes
  <2> QED BY <2>1, <2>2 DEF Deliver, SteerItem, RetryLater
<1> QED BY <1>2, <1>3, <1>4, <1>5

\* Time, the session and its surroundings.
LEMMA TimeTypes ==
    ASSUME TypeInv, (\E j \in Jobs : Comes(j)) \/ (\E o \in Occ : Time(o))
    PROVE  TypeInv'
BY DEF TypeInv, Comes, Time, RetryComes, Ages, files, boxVars, passVars, sessionVars,
   FileTypes, BoxTypes, PassTypes, SessionTypes, HistoryTypes

LEMMA SessionStepTypes ==
    ASSUME TypeInv, TurnStep \/ (Environment /\ ~Crash)
    PROVE  TypeInv'
<1> USE DEF TypeInv
<1>1. SessionStep
  BY DEF TurnStep, Environment, Pop, Consume, Activate, Show, TurnEnds, UserTurn, TurnCut,
     PrepareFails, Remove, DeleteSession
<1>2. FileTypes' /\ BoxTypes'
  BY <1>1 DEF SessionStep, files, boxVars, FileTypes, BoxTypes
<1>3. PassTypes'
  BY <1>1 DEF SessionStep, PassTypes, TurnStep, Environment, Pop, Consume, Activate, Show, TurnEnds,
     UserTurn, TurnCut, PrepareFails, Remove, DeleteSession, Ended
<1>4. SessionTypes'
  <2>1. CASE Ended
    BY <2>1 DEF Ended, NoTurn, SessionTypes
  <2>2. ASSUME NEW o \in Occ, Pop(o) \/ Consume(o) \/ Remove(o)
        PROVE  SessionTypes'
    BY <2>2 DEF Pop, Consume, Remove, SessionTypes
  <2>3. CASE Activate
    <3>1. turn.runs \in Occ /\ Text(turn.runs) \in Texts
      BY <2>3, OccFacts DEF Activate, SessionTypes
    <3> QED BY <2>3, <3>1 DEF Activate, SessionTypes
  <2>4. CASE Show
    BY <2>4 DEF Show, SessionTypes
  <2>5. CASE UserTurn
    <3>1. /\ turn' = [runs |-> User, phase |-> "running", texts |-> {}]
          /\ UNCHANGED <<queued, steered, shown, exists>>
      BY <2>5 DEF UserTurn
    <3>2. /\ turn' \in [runs : Occ \cup {NoOcc, User},
                        phase : {"none", "popped", "active", "running"},
                        texts : SUBSET Texts]
          /\ turn'.phase \notin {"popped", "active"}
      BY <3>1
    <3> QED BY <3>1, <3>2 DEF SessionTypes
  <2>6. CASE PrepareFails \/ DeleteSession
    <3>1. /\ turn' = NoTurn
          /\ queued' \subseteq Occ /\ steered' \subseteq Occ
          /\ shown' = shown
          /\ exists' \in BOOLEAN
      BY <2>6 DEF PrepareFails, DeleteSession, SessionTypes
    <3> QED BY <3>1 DEF NoTurn, SessionTypes
  <2> QED BY <2>1, <2>2, <2>3, <2>4, <2>5, <2>6 DEF TurnStep, Environment, TurnEnds, TurnCut
<1>5. HistoryTypes'
  <2>1. CASE UNCHANGED budget
    BY <1>1, <2>1 DEF SessionStep, HistoryTypes
  <2>2. CASE Mishap
    BY <1>1, <2>2, MishapTypes DEF SessionStep, Mishap, HistoryTypes
  <2>3. CASE UserTurn
    BY <1>1, <2>3, Bounds DEF SessionStep, UserTurn, HistoryTypes
  <2> QED BY <2>1, <2>2, <2>3 DEF TurnStep, Environment, Pop, Consume, Activate, Show, TurnEnds,
          TurnCut, PrepareFails, Remove, DeleteSession
<1> QED BY <1>2, <1>3, <1>4, <1>5

LEMMA CrashTypes ==
    ASSUME TypeInv, Crash
    PROVE  TypeInv'
<1> USE DEF TypeInv
<1>1. FileTypes' /\ PassTypes' /\ BoxTypes' /\ SessionTypes'
  BY DEF Crash, Abort, files, FileTypes, BoxTypes, PassTypes, SessionTypes, NoTurn
<1>2. HistoryTypes'
  BY MishapTypes DEF Crash, Mishap, HistoryTypes
<1> QED BY <1>1, <1>2

LEMMA StepTypes == TypeInv /\ [Next]_vars => TypeInv'
<1> SUFFICES ASSUME TypeInv, [Next]_vars
             PROVE  TypeInv'
  OBVIOUS
<1>1. CASE UNCHANGED vars
  BY <1>1 DEF vars, files, boxVars, passVars, sessionVars, TypeInv, FileTypes, BoxTypes, PassTypes,
     SessionTypes, HistoryTypes
<1>2. CASE Next
  BY <1>2, RequestTypes, ClaimTypes, ExamineTypes, LoadTypes, ReadTypes, DeliverTypes, TimeTypes,
     SessionStepTypes, CrashTypes DEF Next, Dispatch, Environment
<1> QED BY <1>1, <1>2

\* Every variable has its type (schedule_store.rs, schedule_store/outbox.rs).
THEOREM TypeCorrect == Spec => []TypeOK
<1>1. TypeInv => TypeOK
  BY DEF TypeInv, TypeOK, FileTypes, BoxTypes, PassTypes, SessionTypes, HistoryTypes, Texts
<1> QED BY <1>1, InitTypes, StepTypes, PTL DEF Spec

(***************************************************************************)
(* Settled for good.  SettledForGood is not inductive: a claim could put   *)
(* back what is settled if its job still had that next_run_at.  The        *)
(* invariant says why it has not: what left the outbox, or is visited, is  *)
(* behind its job's next_run_at or its job is inactive, and a job becomes  *)
(* active again only with a new next_run_at.                               *)
(***************************************************************************)
Behind(o) == o[2] < run[Job(o)] \/ status[Job(o)] # "active"

Known == \A o \in outbox \cup settled : status[Job(o)] # "none" /\ o[2] <= run[Job(o)]

Passed ==
    /\ \A o \in settled : Behind(o)
    /\ \A o \in outbox : Behind(o) \/ Job(o) \in due

\* What the pass is at, and what it has still to visit.
Visits ==
    /\ pc = "idle" => batch = {}
    /\ batch \subseteq outbox
    /\ pc \in {"idle", "claim", "next"} => cur = NoOcc
    /\ pc = "claim" => \A o \in outbox : Behind(o) \/ o \in batch
    /\ pc # "claim" => \A o \in batch : Behind(o)
    /\ cur # NoOcc => cur \in outbox \ batch /\ Behind(cur) /\ status[Job(cur)] = "active"

Kept == claimed \subseteq outbox \cup settled

OutboxInv == TypeInv /\ Known /\ Passed /\ Visits /\ Kept /\ SettledForGood

LEMMA InitOutbox == Init => OutboxInv
BY InitTypes DEF Init, OutboxInv, Known, Passed, Visits, Kept, SettledForGood

\* A lifecycle request finds no pass under way and leaves every occurrence of
\* its job behind (schedule_store.rs:208-242).
LEMMA RequestOutbox ==
    ASSUME OutboxInv, NEW j \in Jobs, Request(j)
    PROVE  OutboxInv'
<1> USE DEF OutboxInv
<1>1. TypeInv'
  BY RequestTypes
<1>2. pc = "idle" /\ UNCHANGED <<outbox, settled, pc, batch, cur, claimed>>
  BY DEF Request, Create, Reschedule, Replace, Resume, Pause, Stop, Delete, Lifecycle, LockFree,
     boxVars, passVars
<1>3. run[j] \in Nat /\ MaxRuns \in Nat
  BY Bounds DEF TypeInv, FileTypes
<1>4. /\ run'[j] \in Nat /\ run[j] <= run'[j]
      /\ status'[j] # "none"
      /\ status[j] # "none" => run[j] < run'[j] \/ status'[j] # "active"
      /\ \A k \in Jobs : k # j => /\ status'[k] = status[k] /\ run'[k] = run[k]
                                  /\ k \in due => k \in due'
  <2>1. CASE Create(j)
    BY <1>3, <2>1 DEF Create, TypeInv, FileTypes
  <2>2. CASE Reschedule(j) \/ Replace(j) \/ Resume(j)
    BY <1>3, <2>2 DEF Reschedule, Replace, Resume, Renew, TypeInv, FileTypes
  <2>3. CASE Pause(j) \/ Stop(j) \/ Delete(j)
    BY <1>3, <2>3 DEF Pause, Stop, Delete, Quiet, TypeInv, FileTypes
  <2> QED BY <2>1, <2>2, <2>3 DEF Request
<1>5. ASSUME NEW o \in outbox \cup settled
      PROVE  /\ status'[Job(o)] # "none" /\ o[2] <= run'[Job(o)]
             /\ Behind(o) => Behind(o)'
             /\ Job(o) \in due => Behind(o)' \/ Job(o) \in due'
  <2>1. Job(o) \in Jobs /\ o[2] \in Nat
    BY OccFacts, <1>3 DEF TypeInv, BoxTypes
  <2>2. status[Job(o)] # "none" /\ o[2] <= run[Job(o)]
    BY DEF Known
  <2>3. CASE Job(o) = j
    BY <1>3, <1>4, <2>1, <2>2, <2>3 DEF Behind
  <2>4. CASE Job(o) # j
    BY <1>4, <2>1, <2>2, <2>4 DEF Behind
  <2> QED BY <2>3, <2>4
<1>6. Known' /\ Passed'
  BY <1>2, <1>5 DEF Known, Passed
<1>7. Visits' /\ Kept' /\ SettledForGood'
  BY <1>2 DEF Visits, Kept, SettledForGood
<1> QED BY <1>1, <1>6, <1>7

\* A claim puts the fires of its due jobs into the outbox: none of them was
\* settled, since their jobs still have that next_run_at.
LEMMA ClaimOutboxKeeps ==
    ASSUME OutboxInv, ClaimOutbox
    PROVE  OutboxInv'
<1> USE DEF OutboxInv
<1>1. TypeInv'
  BY ClaimTypes
<1>2. /\ outbox' = outbox \cup Fired /\ batch' = Fired /\ pc' = "claim"
      /\ UNCHANGED <<status, run, due, cur, settled, claimed>>
      /\ pc = "idle"
  BY DEF ClaimOutbox, files
<1>3. ASSUME NEW o \in Fired
      PROVE  /\ Job(o) \in due /\ o[2] = run[Job(o)]
             /\ status[Job(o)] = "active" /\ run[Job(o)] \in Nat
             /\ o \notin settled
  <2>1. PICK j \in due : o = <<j, run[j]>>
    BY DEF Fired
  <2>2. Job(o) \in due /\ o[2] = run[Job(o)]
    BY <2>1 DEF Job
  <2>3. status[Job(o)] = "active" /\ run[Job(o)] \in Nat
    BY <2>2, Bounds DEF TypeInv, FileTypes
  <2> QED BY <2>2, <2>3 DEF Passed, Behind
<1>4. Known'
  BY <1>2, <1>3 DEF Known
<1>5. Passed'
  BY <1>2, <1>3 DEF Passed, Behind
<1>6. Visits'
  <2>1. ASSUME NEW o \in outbox, Job(o) \in due, ~Behind(o)
        PROVE  o \in Fired
    <3>1. o \in Occ /\ o = <<o[1], o[2]>>
      BY DEF TypeInv, BoxTypes, Occ
    <3>2. o[2] \in Nat /\ run[Job(o)] \in Nat
      BY <2>1, <3>1, OccFacts, Bounds DEF TypeInv, FileTypes
    <3>3. o[2] = run[Job(o)]
      BY <2>1, <3>2 DEF Behind, Known
    <3> QED BY <2>1, <3>1, <3>3 DEF Fired, Job
  <2>2. \A o \in outbox' : Behind(o)' \/ o \in batch'
    BY <1>2, <2>1 DEF Passed, Behind
  <2> QED BY <1>2, <2>2 DEF Visits
<1>7. Kept' /\ SettledForGood'
  BY <1>2, <1>3 DEF Kept, SettledForGood
<1> QED BY <1>1, <1>4, <1>5, <1>6, <1>7

\* When schedules.json has moved on, the whole outbox is behind it.
LEMMA ClaimSchedulesKeeps ==
    ASSUME OutboxInv, ClaimSchedules
    PROVE  OutboxInv'
<1> USE DEF OutboxInv
<1>1. TypeInv'
  BY ClaimTypes
<1>2. /\ pc = "claim" /\ cur = NoOcc
      /\ UNCHANGED <<status, outbox, retrying, settled, cur>>
  BY DEF ClaimSchedules, boxVars, Visits
<1>3. CASE UNCHANGED <<run, due, claimed>> /\ pc' = "idle" /\ batch' = {}
  <2>1. Known' /\ Passed' /\ Kept' /\ SettledForGood'
    BY <1>2, <1>3 DEF Known, Passed, Behind, Kept, SettledForGood
  <2>2. Visits'
    BY <1>2, <1>3 DEF Visits
  <2> QED BY <1>1, <2>1, <2>2
<1>4. CASE /\ run' = [j \in Jobs |-> IF <<j, run[j]>> \in batch THEN run[j] + 1 ELSE run[j]]
           /\ claimed' = claimed \cup batch
           /\ batch' = outbox \ retrying
           /\ pc' = "next"
  <2>1. ASSUME NEW o \in outbox \cup settled
        PROVE  /\ Job(o) \in Jobs /\ o = <<Job(o), o[2]>> /\ o[2] \in Nat
               /\ run[Job(o)] \in Nat
    <3>1. o \in Occ
      BY DEF TypeInv, BoxTypes
    <3>2. o = <<o[1], o[2]>>
      BY <3>1 DEF Occ
    <3> QED BY <3>1, <3>2, OccFacts, Bounds DEF TypeInv, FileTypes, Job
  <2>2. ASSUME NEW o \in outbox \cup settled
        PROVE  /\ o[2] <= run'[Job(o)]
               /\ Behind(o) \/ o \in batch => Behind(o)'
    <3>1. run[Job(o)] <= run'[Job(o)] /\ run'[Job(o)] \in Nat
      BY <1>4, <2>1
    <3>2. o[2] <= run[Job(o)]
      BY DEF Known
    <3>3. o \in batch /\ o[2] = run[Job(o)] => run'[Job(o)] = run[Job(o)] + 1
      BY <1>4, <2>1
    <3> QED BY <1>2, <2>1, <3>1, <3>2, <3>3 DEF Behind
  <2>3. \A o \in outbox \cup settled : Behind(o)'
    BY <1>2, <2>2 DEF Visits, Passed
  <2>4. Known' /\ Passed'
    BY <1>2, <2>2, <2>3 DEF Known, Passed
  <2>5. Visits'
    BY <1>2, <1>4, <2>3 DEF Visits
  <2>6. Kept' /\ SettledForGood'
    BY <1>2, <1>4 DEF Kept, SettledForGood, Visits
  <2> QED BY <1>1, <2>4, <2>5, <2>6
<1> QED BY <1>3, <1>4 DEF ClaimSchedules

\* What leaves the outbox is settled; a job moves no earlier.
LEMMA OutboxShrinks ==
    ASSUME OutboxInv, TypeInv', Visits', UNCHANGED <<run, claimed>>,
           outbox' \subseteq outbox, settled' = settled \cup (outbox \ outbox'),
           \A o \in outbox \ outbox' : Behind(o),
           \A j \in Jobs : status'[j] \in {status[j], "deleted"},
           \A j \in due : j \in due' \/ status'[j] = "deleted"
    PROVE  OutboxInv'
<1> USE DEF OutboxInv
<1>1. \A o \in outbox \cup settled : Job(o) \in Jobs
  BY OccFacts DEF TypeInv, BoxTypes
<1>2. \A o \in outbox \cup settled : Behind(o) => Behind(o)'
  BY <1>1 DEF Behind
<1>3. \A o \in outbox : Job(o) \in due => Job(o) \in due' \/ Behind(o)'
  BY <1>1 DEF Behind
<1>4. Known'
  BY <1>1 DEF Known
<1>5. Passed'
  BY <1>2, <1>3 DEF Passed
<1>6. Kept' /\ SettledForGood'
  BY DEF Kept, SettledForGood
<1> QED BY <1>4, <1>5, <1>6

\* An acknowledgement settles its occurrence; a step that leaves the outbox
\* alone settles nothing.
LEMMA BoxShrinks ==
    ASSUME BoxTypes, NEW o,
           Acknowledge(o) \/ AcknowledgeOrNot(o) \/ UNCHANGED <<outbox, settled>>
    PROVE  /\ outbox' \subseteq outbox /\ settled' = settled \cup (outbox \ outbox')
           /\ outbox \ outbox' \subseteq {o}
BY DEF BoxTypes, Acknowledge, AcknowledgeOrNot, boxVars

\* A pass goes on to its next occurrence.
LEMMA ContinueVisits ==
    ASSUME OutboxInv, Continue, pc \notin {"idle", "claim"}, run' = run,
           \A j \in Jobs : status'[j] \in {status[j], "deleted"},
           outbox' \subseteq outbox, outbox \ outbox' \subseteq {cur}, cur \in Occ
    PROVE  Visits'
<1> USE DEF OutboxInv
<1>1. cur \in outbox \ batch
  BY OutboxAssumption DEF Visits
<1>2. batch' = batch /\ cur' = NoOcc /\ pc' = "next"
  BY DEF Continue
<1>3. \A o \in batch : Behind(o)'
  BY OccFacts DEF Visits, Behind, TypeInv, PassTypes
<1> QED BY <1>1, <1>2, <1>3 DEF Visits

LEMMA ExamineKeeps ==
    ASSUME OutboxInv, NEW o \in Occ, Examine(o)
    PROVE  OutboxInv'
<1> USE DEF OutboxInv
<1>1. TypeInv'
  BY ExamineTypes
<1>2. /\ o \in batch /\ pc = "next" /\ UNCHANGED <<status, run, due, claimed>>
      /\ Behind(o) /\ o \in outbox
  BY DEF Examine, First, files, Visits
<1>3. /\ outbox' \subseteq outbox /\ settled' = settled \cup (outbox \ outbox')
      /\ outbox \ outbox' \subseteq {o}
  BY BoxShrinks DEF Examine, boxVars, TypeInv
<1>4. Visits'
  <2>1. CASE status[Job(o)] = "active" /\ pc' = "load" /\ cur' = o /\ batch' = batch \ {o}
             /\ UNCHANGED boxVars
    BY <1>2, <2>1 DEF Visits, Behind, boxVars
  <2>2. CASE Acknowledge(o) /\ pc' = "next" /\ cur' = NoOcc /\ batch' = batch \ {o}
    BY <1>2, <2>2 DEF Visits, Behind, Acknowledge
  <2>3. CASE pc' = "idle" /\ cur' = NoOcc /\ batch' = {}
    BY <2>3 DEF Visits
  <2> QED BY <2>1, <2>2, <2>3 DEF Examine
<1> HIDE DEF OutboxInv
<1> QED BY <1>1, <1>2, <1>3, <1>4, OutboxShrinks

\* The steps of a visit.
VisitStep == \/ Load \/ ReadHistory \/ ReadSnapshot \/ LookPending \/ Decide \/ Reserve
             \/ Deliver \/ SteerItem

LEMMA VisitKeeps ==
    ASSUME OutboxInv, VisitStep
    PROVE  OutboxInv'
<1>1. TypeInv'
  BY LoadTypes, ReadTypes, DeliverTypes DEF OutboxInv, VisitStep
<1>2. /\ pc \notin {"idle", "claim", "next"} /\ cur \in Occ /\ Behind(cur) /\ cur \in outbox
      /\ UNCHANGED <<run, claimed>>
  BY OutboxAssumption DEF OutboxInv, TypeInv, PassTypes, Visits, VisitStep, Load, ReadHistory,
     ReadSnapshot, LookPending, Decide, Reserve, Deliver, SteerItem, files, Quiet
<1>3. /\ \A j \in Jobs : status'[j] \in {status[j], "deleted"}
      /\ \A j \in due : j \in due' \/ status'[j] = "deleted"
  BY <1>2 DEF OutboxInv, TypeInv, FileTypes, VisitStep, Load, ReadHistory, ReadSnapshot,
     LookPending, Decide, Reserve, Deliver, SteerItem, files, Quiet
<1>4. Acknowledge(cur) \/ AcknowledgeOrNot(cur) \/ UNCHANGED <<outbox, settled>>
  BY DEF VisitStep, Load, ReadHistory, ReadSnapshot, LookPending, Decide, Reserve, Deliver,
     SteerItem, RetryLater, RetryUnlessInflight, boxVars
<1>5. /\ outbox' \subseteq outbox /\ settled' = settled \cup (outbox \ outbox')
      /\ outbox \ outbox' \subseteq {cur}
  BY <1>4, BoxShrinks DEF OutboxInv, TypeInv
<1>6. Visits'
  <2>1. CASE Continue
    BY <1>2, <1>3, <1>5, <2>1, ContinueVisits
  <2>2. CASE ~Continue
    <3>1. /\ pc' \notin {"idle", "claim", "next"}
          /\ UNCHANGED <<batch, cur, status, outbox>>
      BY <2>2 DEF VisitStep, Load, ReadHistory, ReadSnapshot, LookPending, Decide, Reserve,
         Deliver, SteerItem, PushOutcome, SteerOutcome, RetryLater, RetryUnlessInflight, Visit,
         boxVars, files
    <3> QED BY <1>2, <3>1 DEF OutboxInv, Visits, Behind
  <2> QED BY <2>1, <2>2
<1> QED BY <1>1, <1>2, <1>3, <1>5, <1>6, OutboxShrinks

\* Time, the session and a restart settle nothing.
LEMMA OthersKeep ==
    ASSUME OutboxInv,
           \/ PassEnds \/ TurnStep \/ Environment \/ UNCHANGED vars
           \/ (\E j \in Jobs : Comes(j)) \/ (\E o \in Occ : Time(o))
    PROVE  OutboxInv'
<1>1. TypeInv'
  BY StepTypes DEF OutboxInv, Next, Dispatch
<1>2. /\ UNCHANGED <<status, run, outbox, settled, claimed>>
      /\ due \subseteq due'
      /\ \/ UNCHANGED <<pc, batch, cur>>
         \/ pc' = "idle" /\ cur' = NoOcc /\ batch' = {}
  BY DEF PassEnds, TurnStep, Environment, Pop, Consume, Activate, Show, TurnEnds, UserTurn,
     TurnCut, PrepareFails, Remove, DeleteSession, Crash, Abort, Comes, Time, RetryComes, Ages,
     SessionStep, files, boxVars, passVars, vars, OutboxInv, Visits
<1>3. Visits'
  BY <1>2 DEF OutboxInv, Visits, Behind
<1> QED BY <1>1, <1>2, <1>3, OutboxShrinks

LEMMA StepOutbox == OutboxInv /\ [Next]_vars => OutboxInv'
BY RequestOutbox, ClaimOutboxKeeps, ClaimSchedulesKeeps, ExamineKeeps, VisitKeeps, OthersKeep
   DEF Next, Dispatch, VisitStep

\* A fire that schedules.json has moved past stays in the outbox until it is
\* settled (schedule_store.rs:318-323).
THEOREM KeepsFires == Spec => []FiresAreKept
<1>1. OutboxInv => FiresAreKept
  BY DEF OutboxInv, Kept, FiresAreKept
<1> QED BY <1>1, InitOutbox, StepOutbox, PTL DEF Spec

\* What is settled never comes back (schedule_store/outbox.rs:164-179, 205-211).
THEOREM SettlesForGood == Spec => []SettledForGood
<1>1. OutboxInv => SettledForGood
  BY DEF OutboxInv
<1> QED BY <1>1, InitOutbox, StepOutbox, PTL DEF Spec

\* No input of a job enters the session after the request that made it
\* inactive: a visit reads the job under the lock that the request takes
\* (handlers/schedule.rs:218-221, 300-318).
THEOREM QuietIsKept == Spec => QuietWhenInactive
<1>1. OutboxInv => (\A o \in Occ : Accepts(o) => status[Job(o)] = "active")
  BY OutboxAssumption DEF OutboxInv, Visits, Accepts
<1> QED BY <1>1, InitOutbox, StepOutbox, PTL DEF Spec, QuietWhenInactive

(***************************************************************************)
(* Settled for a cause.  Coalescing drops an occurrence whose text is      *)
(* already on its way; that this is never its own input rests on the       *)
(* attempt being written before the input is handed over.                  *)
(***************************************************************************)
AttemptedFirst ==
    /\ \A o \in Occ : Live(o) => o \in attempted \cup settled
    /\ pc \in {"deliver", "steerItem"} => cur \in attempted

LEMMA InitAttempted == Init => AttemptedFirst
BY OutboxAssumption DEF Init, AttemptedFirst, Live, NoTurn

\* An attempt is forgotten only with its occurrence.
LEMMA AttemptsStay ==
    ASSUME OutboxInv, [Next]_vars
    PROVE  attempted \cup settled \subseteq attempted' \cup settled'
<1>1. ASSUME NEW o, Acknowledge(o) \/ AcknowledgeOrNot(o) \/ UNCHANGED <<attempted, settled>>
                    \/ (MarkAttempted(o) /\ UNCHANGED settled)
      PROVE  attempted \cup settled \subseteq attempted' \cup settled'
  BY <1>1 DEF OutboxInv, TypeInv, BoxTypes, Acknowledge, AcknowledgeOrNot, MarkAttempted, boxVars
<1>2. CASE Dispatch
  BY <1>1, <1>2 DEF Dispatch, ClaimOutbox, ClaimSchedules, PassEnds, Examine, Load, ReadHistory,
     ReadSnapshot, LookPending, Decide, Reserve, Deliver, SteerItem, RetryLater,
     RetryUnlessInflight, boxVars
<1>3. CASE \/ TurnStep \/ Environment \/ UNCHANGED vars
           \/ (\E j \in Jobs : Request(j) \/ Comes(j)) \/ (\E o \in Occ : Time(o))
  BY <1>3 DEF TurnStep, Environment, Pop, Consume, Activate, Show, TurnEnds, UserTurn, TurnCut,
     PrepareFails, Remove, DeleteSession, Crash, Comes, Time, RetryComes, Ages, SessionStep,
     Request, Create, Reschedule, Replace, Resume, Pause, Stop, Delete, Lifecycle, boxVars, vars
<1> QED BY <1>2, <1>3 DEF Next

\* Only a delivery brings an input into the session.
LEMMA LiveByDelivery ==
    ASSUME OutboxInv, [Next]_vars, NEW o \in Occ, Live(o)', ~Live(o)
    PROVE  Deliver /\ o = cur
<1>1. CASE Deliver
  BY <1>1, OutboxAssumption DEF Deliver, PushOutcome, SteerOutcome, Live, sessionVars
<1>2. CASE Dispatch /\ ~Deliver
  <2>1. UNCHANGED <<queued, steered>> /\ turn'.runs = turn.runs
    BY <1>2 DEF Dispatch, ClaimOutbox, ClaimSchedules, PassEnds, Examine, Load, ReadHistory,
       ReadSnapshot, LookPending, Decide, Reserve, SteerItem, sessionVars, OutboxInv, TypeInv,
       SessionTypes
  <2> QED BY <2>1 DEF Live
<1>3. CASE \/ UNCHANGED vars \/ (\E j \in Jobs : Request(j) \/ Comes(j))
           \/ (\E p \in Occ : Time(p))
  BY <1>3 DEF Comes, Time, RetryComes, Ages, Request, Create, Reschedule, Replace, Resume, Pause,
     Stop, Delete, Lifecycle, sessionVars, vars, Live
<1>4. CASE TurnStep \/ Environment
  <2>1. queued' \cup steered' \subseteq queued \cup steered
    BY <1>4 DEF TurnStep, Environment, Pop, Consume, Activate, Show, TurnEnds, TurnCut, UserTurn,
       PrepareFails, Remove, DeleteSession, Crash, Ended
  <2>2. turn'.runs \in {turn.runs, NoOcc, User} \cup queued
    <3>1. CASE turn' = NoTurn
      BY <3>1 DEF NoTurn
    <3>2. CASE UserTurn
      BY <3>2 DEF UserTurn
    <3>3. CASE Activate \/ Show
      BY <3>3 DEF Activate, Show, OutboxInv, TypeInv, SessionTypes
    <3>4. ASSUME NEW p \in Occ, Pop(p)
          PROVE  turn'.runs \in queued
      BY <3>4 DEF Pop
    <3>5. ASSUME NEW p \in Occ, Consume(p) \/ Remove(p)
          PROVE  turn' = turn
      BY <3>5 DEF Consume, Remove
    <3> QED BY <1>4, <3>1, <3>2, <3>3, <3>4, <3>5 DEF TurnStep, Environment, TurnEnds, TurnCut,
            PrepareFails, DeleteSession, Crash, Ended
  <2> QED BY <2>1, <2>2, OutboxAssumption DEF Live
<1> QED BY <1>1, <1>2, <1>3, <1>4 DEF Next

LEMMA StepAttempted == OutboxInv /\ AttemptedFirst /\ [Next]_vars => AttemptedFirst'
<1> SUFFICES ASSUME OutboxInv, AttemptedFirst, [Next]_vars
             PROVE  AttemptedFirst'
  OBVIOUS
<1>1. ASSUME NEW o \in Occ, Live(o)'
      PROVE  o \in attempted' \cup settled'
  <2>1. CASE Live(o)
    BY <2>1, AttemptsStay DEF AttemptedFirst
  <2>2. CASE Deliver /\ o = cur
    <3>1. cur \in attempted
      BY <2>2 DEF Deliver, AttemptedFirst
    <3> QED BY <2>2, <3>1, AttemptsStay
  <2> QED BY <1>1, <2>1, <2>2, LiveByDelivery
<1>2. ASSUME pc' \in {"deliver", "steerItem"}
      PROVE  cur' \in attempted'
  <2>1. CASE Reserve
    BY <1>2, <2>1, OutboxAssumption DEF Reserve, Visit, Continue, MarkAttempted, OutboxInv, Visits,
       TypeInv, PassTypes
  <2>2. CASE ~Reserve
    <3>1. /\ pc \in {"deliver", "steerItem"}
          /\ UNCHANGED <<cur, attempted>>
      BY <1>2, <2>2 DEF Next, Dispatch, ClaimOutbox, ClaimSchedules, PassEnds, Examine, Load,
         ReadHistory, ReadSnapshot, LookPending, Decide, Deliver, SteerItem, PushOutcome,
         SteerOutcome, Visit, Continue, RetryUnlessInflight, TurnStep, Environment, Pop, Consume,
         Activate, Show, TurnEnds, UserTurn, TurnCut, PrepareFails, Remove, DeleteSession, Crash,
         Abort, Comes, Time, RetryComes, Ages, SessionStep, Request, Create, Reschedule, Replace,
         Resume, Pause, Stop, Delete, Lifecycle, boxVars, passVars, vars
    <3> QED BY <3>1 DEF AttemptedFirst
  <2> QED BY <2>1, <2>2
<1> QED BY <1>1, <1>2 DEF AttemptedFirst

\* Why an occurrence may leave the outbox.
Cause(o) ==
    \/ shown[o] > 0
    \/ status[Job(o)] # "active"
    \/ ~exists
    \/ \E p \in Occ \ {o} : Text(p) = Text(o) /\ Live(p)
    \/ Text(o) \in turn.texts /\ turn.runs # o

LEMMA LeavesForCause ==
    ASSUME OutboxInv, AttemptedFirst, [Next]_vars, NEW o \in outbox \ outbox'
    PROVE  Cause(o)
<1>1. outbox' # outbox
  OBVIOUS
<1>2. CASE \E p \in Occ : Examine(p)
  BY <1>1, <1>2 DEF Examine, Acknowledge, Cause, boxVars
<1>3. CASE Load
  BY <1>1, <1>3 DEF Load, RetryLater, Cause, boxVars
<1>4. CASE ReadHistory
  BY <1>1, <1>4 DEF ReadHistory, AcknowledgeOrNot, Acknowledge, RetryUnlessInflight, RetryLater,
     Cause, boxVars
<1>5. CASE Decide
  <2>1. o = cur /\ Identical /\ cur \notin attempted
    BY <1>1, <1>5 DEF Decide, Visit, Continue, AcknowledgeOrNot, Acknowledge, boxVars
  <2>2. cur \in Occ /\ ~Live(cur)
    BY <2>1 DEF OutboxInv, TypeInv, BoxTypes, SettledForGood, AttemptedFirst
  <2>3. CASE Text(cur) \in turn.texts
    BY <2>1, <2>2, <2>3 DEF Cause, Live
  <2>4. ASSUME NEW p \in queued \cup steered, Text(p) = Text(cur)
        PROVE  Cause(o)
    <3>1. p \in Occ /\ Live(p)
      BY DEF OutboxInv, TypeInv, SessionTypes, Live
    <3> QED BY <2>1, <2>2, <2>4, <3>1 DEF Cause
  <2> QED BY <2>1, <2>3, <2>4 DEF Identical
<1>6. CASE ~Dispatch \/ ClaimOutbox \/ ClaimSchedules \/ PassEnds \/ ReadSnapshot \/ LookPending
           \/ Reserve \/ Deliver \/ SteerItem
  <2>1. outbox \subseteq outbox'
    BY <1>6 DEF Next, ClaimOutbox, ClaimSchedules, PassEnds, ReadSnapshot, LookPending, Reserve,
       Deliver, SteerItem, RetryUnlessInflight, RetryLater, TurnStep, Environment, Pop, Consume,
       Activate, Show, TurnEnds, UserTurn, TurnCut, PrepareFails, Remove, DeleteSession, Crash,
       Comes, Time, RetryComes, Ages, SessionStep, Request, Create, Reschedule, Replace, Resume,
       Pause, Stop, Delete, Lifecycle, boxVars, vars
  <2> QED BY <2>1
<1> QED BY <1>2, <1>3, <1>4, <1>5, <1>6 DEF Dispatch

\* No occurrence is dropped because of its own input
\* (handlers/schedule.rs:457-511, 536-554).
THEOREM SettlesForCause == Spec => SettledForCause
<1>1. OutboxInv /\ AttemptedFirst /\ [Next]_vars => (\A o \in outbox \ outbox' : Cause(o))
  BY LeavesForCause
<1>2. Spec => [][\A o \in outbox \ outbox' : Cause(o)]_vars
  BY <1>1, InitOutbox, StepOutbox, InitAttempted, StepAttempted, PTL DEF Spec
<1> QED BY <1>2 DEF Cause, SettledForCause

=============================================================================
