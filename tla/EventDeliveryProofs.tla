------------------------ MODULE EventDeliveryProofs ------------------------
(***************************************************************************)
(* Proofs about EventDelivery: types, what a cursor covers, what a live    *)
(* subscription misses, and what the next start of the server finds.       *)
(***************************************************************************)
EXTENDS EventDelivery, SequenceTheorems, TLAPS

(***************************************************************************)
(* The log and the rollout only grow.                                      *)
(***************************************************************************)
LogKept ==
    \A s \in Streams :
       /\ Len(log[s]) <= Len(log'[s])
       /\ \A i \in 1..Len(log[s]) : log'[s][i] = log[s][i]

RolloutKept ==
    /\ Last <= Last'
    /\ \A l \in 1..Last : rollout'[l] = rollout[l]

\* The rows a step adds are rows of line l in streams ss, and were missing.
Adds(l, ss) ==
    \A s \in Streams : \A i \in 1..Len(log'[s]) :
       i > Len(log[s]) => log'[s][i] = l /\ s \in ss /\ l \notin Rows(s)

\* Inserting a line keeps what is there and leaves the line in its streams.
LEMMA InsertFacts ==
    ASSUME log \in [Streams -> Seq(Lines)], NEW l \in Lines, NEW ss, Insert(l, ss)
    PROVE  /\ log' \in [Streams -> Seq(Lines)]
           /\ LogKept /\ Adds(l, ss)
           /\ \A s \in Streams : s \in ss => l \in Rows(s)'
<1>1. ASSUME NEW s \in Streams
      PROVE  /\ log'[s] = IF s \in ss /\ l \notin Rows(s)
                          THEN Append(log[s], l) ELSE log[s]
             /\ log[s] \in Seq(Lines)
             /\ Len(log[s]) \in Nat
  BY DEF Insert
<1>2. ASSUME NEW s \in Streams, s \in ss, l \notin Rows(s)
      PROVE  /\ log'[s] \in Seq(Lines)
             /\ Len(log'[s]) = Len(log[s]) + 1
             /\ \A i \in 1..Len(log[s]) : log'[s][i] = log[s][i]
             /\ log'[s][Len(log[s]) + 1] = l
  <2>1. log'[s] = Append(log[s], l)
    BY <1>1, <1>2
  <2> QED BY <1>1, <2>1, AppendProperties
<1>3. ASSUME NEW s \in Streams, ~(s \in ss /\ l \notin Rows(s))
      PROVE  log'[s] = log[s]
  BY <1>1, <1>3
<1>4. log' \in [Streams -> Seq(Lines)]
  <2>1. ASSUME NEW s \in Streams PROVE log'[s] \in Seq(Lines)
    BY <1>1, <1>2, <1>3
  <2> QED BY <2>1 DEF Insert
<1>5. LogKept
  <2>1. ASSUME NEW s \in Streams
        PROVE  /\ Len(log[s]) <= Len(log'[s])
               /\ \A i \in 1..Len(log[s]) : log'[s][i] = log[s][i]
    <3>1. CASE s \in ss /\ l \notin Rows(s)
      BY <1>1, <1>2, <3>1
    <3>2. CASE ~(s \in ss /\ l \notin Rows(s))
      BY <1>1, <1>3, <3>2
    <3> QED BY <3>1, <3>2
  <2> QED BY <2>1 DEF LogKept
<1>6. Adds(l, ss)
  <2>1. ASSUME NEW s \in Streams, NEW i \in 1..Len(log'[s]), i > Len(log[s])
        PROVE  log'[s][i] = l /\ s \in ss /\ l \notin Rows(s)
    <3>1. s \in ss /\ l \notin Rows(s)
      BY <1>1, <1>3, <2>1
    <3>2. i = Len(log[s]) + 1
      BY <1>1, <1>2, <2>1, <3>1
    <3> QED BY <1>2, <3>1, <3>2
  <2> QED BY <2>1 DEF Adds
<1>7. ASSUME NEW s \in Streams, s \in ss PROVE l \in Rows(s)'
  <2>1. CASE l \notin Rows(s)
    BY <1>1, <1>2, <1>7, <2>1 DEF Rows
  <2>2. CASE l \in Rows(s)
    BY <1>1, <1>3, <2>2 DEF Rows
  <2>3. QED
    BY <2>1, <2>2
<1>8. QED
  BY <1>4, <1>5, <1>6, <1>7

\* A step that leaves the log alone adds nothing to it.
LEMMA SameLog ==
    ASSUME log \in [Streams -> Seq(Lines)], log' = log
    PROVE  LogKept /\ \A l, ss : Adds(l, ss)
<1>1. \A s \in Streams : Len(log[s]) \in Nat
  OBVIOUS
<1>2. QED
  BY <1>1 DEF LogKept, Adds

(***************************************************************************)
(* Types.  The pass and the writer are at a line of the file.              *)
(***************************************************************************)
Placed ==
    /\ writer # "idle" => Last >= 1
    /\ pass = "mark" => at <= Last
    /\ pass = "scan" => at <= Last + 1
    /\ mark <= Last

TypeInv == TypeOK /\ Placed

LEMMA TypeFacts ==
    ASSUME TypeInv
    PROVE  /\ Last \in Nat /\ Last <= MaxLines /\ MaxLines \in Nat
           /\ \A l \in 1..Last : l \in Lines /\ rollout[l] \subseteq Streams
           /\ log \in [Streams -> Seq(Lines)]
           /\ \A s \in Streams : Len(log[s]) \in Nat
           /\ writer # "idle" => Last \in Lines
           /\ \A s \in Streams : \A i \in 1..Len(log[s]) : log[s][i] \in Lines
  BY EventAssumption DEF TypeInv, TypeOK, Placed, Last, Lines

LEMMA TypeInit == Init => TypeInv
<1> SUFFICES ASSUME Init PROVE TypeInv
  OBVIOUS
<1> USE EventAssumption DEF Init
<1>1. rollout \in Seq(LineKinds) /\ Last = 0
  BY DEF Last
<1>2. log \in [Streams -> Seq(Lines)]
  OBVIOUS
<1>3. cursor \in [Clients -> [Streams -> Nat]]
  OBVIOUS
<1>4. /\ selectors \in [Clients -> SUBSET Streams]
      /\ frames \in [Clients -> SUBSET Lines] /\ shed \in [Clients -> SUBSET Lines]
      /\ got \in [Clients -> SUBSET Lines]
  OBVIOUS
<1>5. /\ subs \in [SubIds -> {Nothing} \cup
                     [op : {"live"}, owner : Clients, stream : Streams, from : Nat]]
      /\ answer \in [Clients -> {Nothing} \cup
                      [op : {"answer"}, stream : Streams, seq : Nat, rows : SUBSET Lines]]
      /\ conn \in [Clients -> {"closed", "open", "leaving"}]
  OBVIOUS
<1>6. /\ mark \in 0..MaxLines /\ at \in 1..MaxLines + 1 /\ Last <= MaxLines
      /\ crashes \in 0..MaxCrashes /\ mishaps \in 0..MaxMishaps
  <2>1. mark = 0 /\ at = 1 /\ crashes = 0 /\ mishaps = 0
    OBVIOUS
  <2> QED BY <1>1, <2>1
<1>10. overrun \in BOOLEAN /\ fanout \subseteq Lines /\ silent \subseteq Lines
  OBVIOUS
<1>7. TypeOK
  BY <1>1, <1>2, <1>3, <1>4, <1>5, <1>6, <1>10 DEF TypeOK
<1>8. Placed
  BY <1>1 DEF Placed
<1>9. QED
  BY <1>7, <1>8 DEF TypeInv

\* An append has returned: the line is one of the file.
LEMMA ReturnFacts ==
    ASSUME TypeInv, writer # "idle", Return PROVE fanout' \subseteq Lines
  BY TypeFacts DEF Return, TypeInv, TypeOK

LEMMA TypeStep == TypeInv /\ [Next]_vars => TypeInv'
<1> SUFFICES ASSUME TypeInv, [Next]_vars PROVE TypeInv'
  OBVIOUS
<1> USE EventAssumption, TypeFacts
<1>1. ASSUME NEW k \in LineKinds, AppendLine(k) PROVE TypeInv'
  <2>1. Last' = Last + 1 /\ rollout' \in Seq(LineKinds)
    BY <1>1 DEF AppendLine, Last, TypeInv, TypeOK
  <2> QED BY <1>1, <2>1 DEF AppendLine, TypeInv, TypeOK, Placed, passVars, connVars,
       clientVars, Last
<1>2. CASE Project
  <2>1. log' \in [Streams -> Seq(Lines)]
    BY <1>2, InsertFacts DEF Project
  <2> QED BY <1>2, <2>1 DEF Project, TypeInv, TypeOK, Placed, passVars, connVars,
       clientVars, Last
<1>3. CASE SetMark
  <2>1. fanout' \subseteq Lines /\ writer' = "idle"
    BY <1>3, ReturnFacts DEF SetMark, Return
  <2>2. mark' \in 0..MaxLines /\ mark' <= Last
    BY <1>3 DEF SetMark
  <2>3. overrun' \in BOOLEAN
    BY <1>3 DEF SetMark, TypeInv, TypeOK
  <2>4. QED
    BY <1>3, <2>1, <2>2, <2>3 DEF SetMark, TypeInv, TypeOK, Placed, passVars,
       connVars, clientVars, Last
<1>4. CASE ProjectFails
  <2>1. log' \in [Streams -> Seq(Lines)]
    BY <1>4, InsertFacts DEF ProjectFails
  <2>2. fanout' \subseteq Lines /\ writer' = "idle"
    BY <1>4, ReturnFacts DEF ProjectFails, Return
  <2>3. silent' \subseteq Lines
    BY <1>4 DEF ProjectFails, TypeInv, TypeOK
  <2>4. mishaps' \in 0..MaxMishaps
    BY <1>4 DEF ProjectFails, Mishap, TypeInv, TypeOK
  <2>5. QED
    BY <1>4, <2>1, <2>2, <2>3, <2>4 DEF ProjectFails, TypeInv, TypeOK, Placed,
       passVars, connVars, clientVars, Last
<1>5. CASE ReadMark
  BY <1>5 DEF ReadMark, FirstUnprojected, TypeInv, TypeOK, Placed, fileVars,
     connVars, clientVars, Last
<1>6. CASE Backfill
  <2>1. at \in 1..Last
    BY <1>6 DEF Backfill, TypeInv, TypeOK
  <2>2. log' \in [Streams -> Seq(Lines)]
    BY <1>6, <2>1, InsertFacts DEF Backfill
  <2>3. QED
    BY <1>6, <2>1, <2>2 DEF Backfill, TypeInv, TypeOK, Placed, connVars,
       clientVars, Last
<1>7. CASE MarkBackfilled
  BY <1>7 DEF MarkBackfilled, TypeInv, TypeOK, Placed, connVars, clientVars, Last
<1>8. CASE EndPass
  BY <1>8 DEF EndPass, TypeInv, TypeOK, Placed, fileVars, connVars, clientVars, Last
<1>9. CASE PassFails
  <2>1. PICK ss \in SUBSET (IF pass = "scan" /\ at <= Last THEN rollout[at] ELSE {}) :
           Insert(at, ss)
    BY <1>9 DEF PassFails
  <2>2. log' \in [Streams -> Seq(Lines)]
    <3>1. CASE at \in Lines
      BY <2>1, <3>1, InsertFacts
    <3>2. CASE at \notin Lines
      <4>1. ss = {}
        BY <2>1, <3>2 DEF TypeInv, TypeOK
      <4>2. QED
        BY <2>1, <4>1 DEF Insert
    <3> QED BY <3>1, <3>2
  <2>3. QED
    BY <1>9, <2>2 DEF PassFails, Mishap, TypeInv, TypeOK, Placed, connVars,
       clientVars, Last
<1>10. ASSUME NEW c \in Clients, Connect(c) \/ Unregister(c) \/ DropSubs(c)
       PROVE  TypeInv'
  <2>1. CASE Connect(c)
    BY <2>1 DEF Connect, TypeInv, TypeOK, Placed, fileVars, passVars, clientVars, Last
  <2>2. CASE Unregister(c)
    BY <2>2 DEF Unregister, TypeInv, TypeOK, Placed, fileVars, passVars, Last
  <2>3. CASE DropSubs(c)
    BY <2>3 DEF DropSubs, TypeInv, TypeOK, Placed, fileVars, passVars, clientVars, Last
  <2>4. QED
    BY <1>10, <2>1, <2>2, <2>3
<1>11. ASSUME NEW c \in Clients, NEW u \in SubIds, NEW s \in Streams,
              Create(c, u, s) \/ Update(c, u, s)
       PROVE  TypeInv'
  <2>1. hold' \in [op : {"create", "update"}, client : Clients, sub : SubIds,
                   stream : Streams, barrier : Nat, step : {"replay", "register"},
                   rows : SUBSET Lines]
    BY <1>11 DEF Create, Update, Work
  <2> QED BY <1>11, <2>1 DEF Create, Update, TypeInv, TypeOK, Placed, fileVars, passVars,
       connVars, clientVars, Last
<1>12. CASE ReadRows
  <2>1. {log[hold.stream][i] : i \in After + 1..Len(log[hold.stream])} \in SUBSET Lines
    <3>1. hold.stream \in Streams /\ hold.client \in Clients
      BY <1>12 DEF ReadRows, Free, TypeInv, TypeOK
    <3>2. After \in Nat
      BY <3>1 DEF After, TypeInv, TypeOK
    <3> QED BY <3>1, <3>2
  <2>2. hold' \in [op : {"create", "update"}, client : Clients, sub : SubIds,
                   stream : Streams, barrier : Nat, step : {"replay", "register"},
                   rows : SUBSET Lines]
    BY <1>12, <2>1 DEF ReadRows, Free, TypeInv, TypeOK
  <2>3. QED
    BY <1>12, <2>2 DEF ReadRows, TypeInv, TypeOK, Placed, fileVars, passVars,
       connVars, clientVars, Last
<1>13. CASE ReadFails
  BY <1>13 DEF ReadFails, Mishap, TypeInv, TypeOK, Placed, fileVars, passVars,
     connVars, clientVars, Last
<1>14. CASE Register
  <2>1. hold \in [op : {"create", "update"}, client : Clients, sub : SubIds,
                  stream : Streams, barrier : Nat, step : {"replay", "register"},
                  rows : SUBSET Lines]
    BY <1>14 DEF Register, Free, TypeInv, TypeOK
  <2>2. subs' \in [SubIds -> {Nothing} \cup
                     [op : {"live"}, owner : Clients, stream : Streams, from : Nat]]
    BY <1>14, <2>1 DEF Register, TypeInv, TypeOK
  <2>3. Cached(hold.client) \subseteq Streams
    BY <2>2 DEF Cached, Union, Nothing
  <2>4. answer' \in [Clients -> {Nothing} \cup
                      [op : {"answer"}, stream : Streams, seq : Nat, rows : SUBSET Lines]]
    BY <1>14, <2>1 DEF Register, TypeInv, TypeOK
  <2>5. selectors' \in [Clients -> SUBSET Streams]
    BY <1>14, <2>3 DEF Register, TypeInv, TypeOK
  <2>6. QED
    BY <1>14, <2>2, <2>4, <2>5 DEF Register, TypeInv, TypeOK, Placed, fileVars,
       passVars, Last
<1>15. ASSUME NEW c \in Clients, NEW u \in SubIds, Unsubscribe(c, u)
       PROVE  TypeInv'
  <2>1. subs' \in [SubIds -> {Nothing} \cup
                     [op : {"live"}, owner : Clients, stream : Streams, from : Nat]]
    BY <1>15 DEF Unsubscribe, TypeInv, TypeOK
  <2>2. Cached(c) \subseteq Streams
    BY <2>1 DEF Cached, Union, Nothing
  <2>3. selectors' \in [Clients -> SUBSET Streams]
    <3>1. CASE subs[u].owner = c
      BY <1>15, <2>2, <3>1 DEF Unsubscribe, TypeInv, TypeOK
    <3>2. CASE subs[u].owner # c
      BY <1>15, <3>2 DEF Unsubscribe, TypeInv, TypeOK
    <3> QED BY <3>1, <3>2
  <2>4. QED
    BY <1>15, <2>1, <2>3 DEF Unsubscribe, TypeInv, TypeOK, Placed, fileVars,
       passVars, clientVars, Last
<1>16. ASSUME NEW c \in Clients, Receive(c) PROVE TypeInv'
  <2>1. answer[c] \in [op : {"answer"}, stream : Streams, seq : Nat, rows : SUBSET Lines]
    BY <1>16 DEF Receive, TypeInv, TypeOK
  <2> QED BY <1>16, <2>1 DEF Receive, TypeInv, TypeOK, Placed, fileVars, passVars,
       connVars, Last
<1>17. ASSUME NEW c \in Clients, NEW l \in Lines, Deliver(c, l) \/ Shed(c, l)
       PROVE  TypeInv'
  <2>1. CASE Deliver(c, l)
    BY <1>17, <2>1 DEF Deliver, TypeInv, TypeOK, Placed, fileVars, passVars, Last
  <2>2. CASE Shed(c, l)
    <3>1. mishaps' \in 0..MaxMishaps
      BY <2>2 DEF Shed, Mishap, TypeInv, TypeOK
    <3>2. QED
      BY <1>17, <2>2, <3>1 DEF Shed, TypeInv, TypeOK, Placed, fileVars, passVars,
         clientVars, Last
  <2>3. QED
    BY <1>17, <2>1, <2>2
<1>18. ASSUME NEW l \in Lines, Abort(l) PROVE TypeInv'
  BY <1>18 DEF Abort, Mishap, TypeInv, TypeOK, Placed, fileVars, passVars, connVars,
     clientVars, Last
<1>19. ASSUME NEW l \in Lines, NEW seen \in BOOLEAN, Broadcast(l, seen)
       PROVE  TypeInv'
  BY <1>19 DEF Broadcast, TypeInv, TypeOK, Placed, fileVars, passVars, clientVars, Last
<1>20. CASE Crash
  <2>1. log' \in [Streams -> Seq(Lines)]
    <3>1. CASE writer = "project" /\ \E ss \in SUBSET rollout[Last] : Insert(Last, ss)
      BY <3>1, InsertFacts
    <3>2. CASE pass = "scan" /\ at <= Last /\ \E ss \in SUBSET rollout[at] : Insert(at, ss)
      <4>1. at \in Lines
        BY <3>2 DEF TypeInv, TypeOK, Lines
      <4>2. QED
        BY <3>2, <4>1, InsertFacts
    <3>3. CASE UNCHANGED log
      BY <3>3
    <3>4. QED
      BY <1>20, <3>1, <3>2, <3>3 DEF Crash
  <2> QED BY <1>20, <2>1 DEF Crash, TypeInv, TypeOK, Placed, Last, Lines
<1>21. CASE UNCHANGED vars
  BY <1>21 DEF vars, fileVars, passVars, connVars, clientVars, TypeInv, TypeOK,
     Placed, Last
<1>22. QED
  BY <1>1, <1>2, <1>3, <1>4, <1>5, <1>6, <1>7, <1>8, <1>9, <1>10, <1>11, <1>12,
     <1>13, <1>14, <1>15, <1>16, <1>17, <1>18, <1>19, <1>20, <1>21 DEF Next

LEMMA AlwaysTyped == Spec => []TypeInv
  BY TypeInit, TypeStep, PTL DEF Spec

\* Every variable always has its type.
THEOREM TypeCorrect == Spec => []TypeOK
<1>1. TypeInv => TypeOK
  BY DEF TypeInv
<1>2. QED
  BY AlwaysTyped, <1>1, PTL

-----------------------------------------------------------------------------
(***************************************************************************)
(* The file, the log and the pass.                                         *)
(***************************************************************************)
\* A row is of a line of the file that has an event for its stream.
RowsBelong ==
    \A s \in Streams : \A i \in 1..Len(log[s]) :
       log[s][i] \in 1..Last /\ s \in rollout[log[s][i]]

\* A line that lacks a row is being appended, or nobody fans it out.
Due(l) == writer = "project" /\ l = Last
MissingIsSilent == \A l \in 1..Last : Logged(l) \/ Due(l) \/ l \in silent

\* What the pass has behind it is complete.
PassIsBehind ==
    /\ pass \in {"scan", "mark"} => \A l \in 1..Last : l < at => Logged(l)
    /\ pass = "mark" => Logged(at)

FileInv ==
    /\ TypeInv /\ RowsBelong /\ MissingIsSilent
    /\ overrun \/ PassIsBehind
    /\ MissingIsStillDue

\* The steps that touch the file or the log: an append, and an insert of rows
\* of one line.
Appends == log' = log /\ \E k \in LineKinds : AppendLine(k)
Inserts(l, ss) == rollout' = rollout /\ ss \subseteq rollout[l] /\ Insert(l, ss)
Rests == log' = log /\ rollout' = rollout

LEMMA FileSteps ==
    ASSUME TypeInv, [Next]_vars
    PROVE  Appends \/ Rests \/ \E l \in 1..Last : \E ss : Inserts(l, ss)
<1> USE TypeFacts
<1>1. CASE Project \/ ProjectFails
  <2>1. rollout' = rollout /\ (writer # "idle" => Last \in 1..Last)
    BY <1>1 DEF Project, ProjectFails, TypeInv, Placed
  <2>2. log' = log \/ \E ss : ss \subseteq rollout[Last] /\ Insert(Last, ss)
    BY <1>1 DEF Project, ProjectFails
  <2>3. writer # "idle"
    BY <1>1 DEF Project, ProjectFails
  <2> QED BY <2>1, <2>2, <2>3 DEF Rests, Inserts
<1>2. CASE Backfill
  <2>1. at \in 1..Last /\ Inserts(at, rollout[at])
    BY <1>2 DEF Backfill, Inserts, TypeInv, TypeOK
  <2> QED BY <2>1
<1>3. CASE PassFails
  <2>1. PICK ss \in SUBSET (IF pass = "scan" /\ at <= Last THEN rollout[at] ELSE {}) :
           Insert(at, ss)
    BY <1>3 DEF PassFails
  <2>2. rollout' = rollout
    BY <1>3 DEF PassFails
  <2>3. CASE pass = "scan" /\ at <= Last
    BY <2>1, <2>2, <2>3 DEF Inserts, TypeInv, TypeOK
  <2>4. CASE ~(pass = "scan" /\ at <= Last)
    BY <2>1, <2>2, <2>4 DEF Insert, Rests, TypeInv, TypeOK
  <2> QED BY <2>3, <2>4
<1>4. CASE Crash
  <2>1. rollout' = rollout
    BY <1>4 DEF Crash
  <2>2. CASE writer = "project" /\ \E ss \in SUBSET rollout[Last] : Insert(Last, ss)
    BY <2>1, <2>2 DEF Inserts, TypeInv, Placed
  <2>3. CASE pass = "scan" /\ at <= Last /\ \E ss \in SUBSET rollout[at] : Insert(at, ss)
    BY <2>1, <2>3 DEF Inserts, TypeInv, TypeOK
  <2>4. CASE UNCHANGED log
    BY <2>1, <2>4 DEF Rests
  <2> QED BY <1>4, <2>2, <2>3, <2>4 DEF Crash
<1>5. CASE \E k \in LineKinds : AppendLine(k)
  BY <1>5 DEF Appends, AppendLine
<1>6. CASE \/ SetMark \/ ReadMark \/ MarkBackfilled \/ EndPass \/ ReadRows \/ ReadFails
           \/ Register \/ UNCHANGED vars
  BY <1>6 DEF Rests, SetMark, ReadMark, MarkBackfilled, EndPass, ReadRows, ReadFails, Register,
     vars, fileVars
<1>7. CASE \E c \in Clients :
              \/ Connect(c) \/ Unregister(c) \/ DropSubs(c) \/ Receive(c)
              \/ \E u \in SubIds : \/ Unsubscribe(c, u)
                                   \/ \E s \in Streams : Create(c, u, s) \/ Update(c, u, s)
              \/ \E l \in Lines : Deliver(c, l) \/ Shed(c, l)
  BY <1>7 DEF Rests, Connect, Unregister, DropSubs, Receive, Unsubscribe, Create, Update, Deliver,
     Shed, fileVars
<1>8. CASE \E l \in Lines : Abort(l) \/ \E seen \in BOOLEAN : Broadcast(l, seen)
  BY <1>8 DEF Rests, Abort, Broadcast, fileVars
<1> QED BY <1>1, <1>2, <1>3, <1>4, <1>5, <1>6, <1>7, <1>8 DEF Next

LEMMA AppendFacts ==
    ASSUME TypeInv, NEW k \in LineKinds, AppendLine(k)
    PROVE  /\ Last' = Last + 1
           /\ \A l \in 1..Last : rollout'[l] = rollout[l]
BY DEF AppendLine, Last, TypeInv, TypeOK

LEMMA Grows ==
    ASSUME TypeInv, [Next]_vars
    PROVE  LogKept /\ RolloutKept
<1>1. CASE Appends
  BY <1>1, TypeFacts, AppendFacts, SameLog DEF Appends, RolloutKept
<1>2. CASE Rests
  BY <1>2, TypeFacts, SameLog DEF Rests, RolloutKept, Last
<1>3. CASE \E l \in 1..Last : \E ss : Inserts(l, ss)
  <2>1. PICK l \in 1..Last : \E ss : Inserts(l, ss)
    BY <1>3
  <2>2. l \in Lines /\ log \in [Streams -> Seq(Lines)] /\ Last \in Nat
    BY TypeFacts
  <2> QED BY <2>1, <2>2, InsertFacts DEF Inserts, RolloutKept, Last
<1> QED BY <1>1, <1>2, <1>3, FileSteps

LEMMA BelongStep ==
    ASSUME TypeInv, RowsBelong, [Next]_vars
    PROVE  RowsBelong'
<1>1. SUFFICES ASSUME NEW s \in Streams, NEW i \in 1..Len(log'[s])
               PROVE  log'[s][i] \in 1..Last' /\ s \in rollout'[log'[s][i]]
  BY DEF RowsBelong
<1>2. LogKept /\ RolloutKept /\ Last \in Nat /\ Last' \in Nat /\ Len(log[s]) \in Nat
  <2>1. TypeInv'
    BY TypeStep
  <2>2. Last' \in Nat
    BY <2>1 DEF TypeInv, TypeOK, Last
  <2> QED BY <2>2, Grows, TypeFacts
<1>3. CASE i <= Len(log[s])
  <2>1. i \in 1..Len(log[s]) /\ log'[s][i] = log[s][i]
    BY <1>2, <1>3 DEF LogKept
  <2>2. log[s][i] \in 1..Last /\ s \in rollout[log[s][i]]
    BY <2>1 DEF RowsBelong
  <2> QED BY <1>2, <2>1, <2>2 DEF RolloutKept
<1>4. CASE i > Len(log[s])
  <2>1. PICK l \in 1..Last : \E ss : Inserts(l, ss)
    BY <1>2, <1>4, FileSteps DEF Appends, Rests
  <2>2. PICK ss : Inserts(l, ss)
    BY <2>1
  <2>3. log'[s][i] = l /\ s \in ss
    BY <1>4, <2>2, TypeFacts, InsertFacts DEF Inserts, Adds
  <2> QED BY <1>2, <2>2, <2>3 DEF Inserts, RolloutKept
<1> QED BY <1>2, <1>3, <1>4

LEMMA LoggedKept ==
    ASSUME TypeInv, LogKept, RolloutKept, NEW l \in 1..Last, Logged(l)
    PROVE  Logged(l)'
<1>1. \A s \in Streams : Len(log[s]) \in Nat
  BY TypeFacts
<1>2. \A s \in Streams : l \in Rows(s) => l \in Rows(s)'
  <2>1. SUFFICES ASSUME NEW s \in Streams, NEW i \in 1..Len(log[s]), l = log[s][i]
                 PROVE  \E j \in 1..Len(log'[s]) : l = log'[s][j]
    BY DEF Rows
  <2>2. Len(log[s]) <= Len(log'[s]) /\ log'[s][i] = log[s][i]
    BY DEF LogKept
  <2>3. i \in 1..Len(log'[s])
    BY <1>1, <2>2
  <2> QED BY <2>1, <2>2, <2>3
<1>3. rollout'[l] = rollout[l] /\ rollout[l] \subseteq Streams
  BY TypeFacts DEF RolloutKept
<1> QED BY <1>2, <1>3 DEF Logged

\* The rows of a line are all there once they are inserted.
LEMMA InsertLogs ==
    ASSUME TypeInv, NEW l \in 1..Last, Insert(l, rollout[l]), rollout' = rollout
    PROVE  Logged(l)'
BY TypeFacts, InsertFacts DEF Logged

\* What most steps do with the file, the pass and what nobody fans out.
FileAlone ==
    /\ rollout' = rollout /\ mark' = mark /\ pass' = pass /\ at' = at
    /\ overrun' = overrun /\ writer' = writer /\ silent \subseteq silent'

LEMMA FileAloneKeeps ==
    ASSUME FileInv, LogKept, FileAlone
    PROVE  MissingIsSilent' /\ (overrun \/ PassIsBehind)' /\ MissingIsStillDue'
<1>1. RolloutKept /\ Last' = Last /\ TypeInv /\ Last \in Nat
  BY TypeFacts DEF FileAlone, RolloutKept, Last, FileInv
<1>2. \A l \in 1..Last : Logged(l) => Logged(l)'
  BY <1>1, LoggedKept DEF FileInv
<1>3. MissingIsSilent'
  BY <1>1, <1>2 DEF FileInv, FileAlone, MissingIsSilent, Due
<1>4. (overrun \/ PassIsBehind)'
  <2>1. pass = "mark" => at \in 1..Last
    BY <1>1 DEF TypeInv, TypeOK, Placed
  <2> QED BY <1>1, <1>2, <2>1 DEF FileInv, FileAlone, PassIsBehind
<1>5. MissingIsStillDue'
  BY <1>1, <1>2 DEF FileInv, FileAlone, MissingIsStillDue
<1> QED BY <1>3, <1>4, <1>5

LEMMA AppendFile ==
    ASSUME FileInv, NEW k \in LineKinds, AppendLine(k), LogKept, RolloutKept
    PROVE  MissingIsSilent' /\ (overrun \/ PassIsBehind)' /\ MissingIsStillDue'
<1>1. TypeInv /\ Last' = Last + 1 /\ Last \in Nat
  BY AppendFacts, TypeFacts DEF FileInv
<1>2. \A l \in 1..Last : Logged(l) => Logged(l)'
  BY <1>1, LoggedKept
<1>3. UNCHANGED <<mark, pass, at, overrun, silent>> /\ writer = "idle" /\ writer' = "project"
  BY DEF AppendLine, passVars
<1>4. MissingIsSilent'
  BY <1>1, <1>2, <1>3 DEF FileInv, MissingIsSilent, Due
<1>5. (overrun \/ PassIsBehind)'
  <2>1. /\ pass = "mark" => at \in 1..Last
        /\ pass = "scan" => at <= Last + 1
    BY <1>1 DEF TypeInv, TypeOK, Placed
  <2>2. pass \in {"scan", "mark"} => \A l \in 1..Last + 1 : l < at => l \in 1..Last
    BY <1>1, <2>1 DEF TypeInv, TypeOK
  <2> QED BY <1>1, <1>2, <1>3, <2>1, <2>2 DEF FileInv, PassIsBehind
<1>6. MissingIsStillDue'
  <2>1. mark \in Nat /\ mark <= Last
    BY <1>1 DEF TypeInv, TypeOK, Placed
  <2> QED BY <1>1, <1>2, <1>3, <2>1 DEF FileInv, MissingIsStillDue
<1> QED BY <1>4, <1>5, <1>6

\* The writer and the pass at work.
LEMMA WorkFile ==
    ASSUME FileInv, LogKept, RolloutKept,
           \/ Project \/ SetMark \/ ProjectFails
           \/ ReadMark \/ Backfill \/ MarkBackfilled \/ EndPass \/ PassFails \/ Crash
    PROVE  MissingIsSilent' /\ (overrun \/ PassIsBehind)' /\ MissingIsStillDue'
<1>1. /\ TypeInv /\ Last \in Nat /\ mark \in Nat /\ at \in Nat \ {0} /\ mark <= Last
      /\ pass = "mark" => at <= Last
      /\ writer # "idle" => Last \in 1..Last
  BY TypeFacts DEF FileInv, TypeInv, TypeOK, Placed
<1>2. rollout' = rollout /\ Last' = Last
  BY DEF Project, SetMark, ProjectFails, ReadMark, Backfill, MarkBackfilled, EndPass, PassFails,
     Crash, fileVars, Last
<1>3. \A l \in 1..Last : Logged(l) => Logged(l)'
  BY <1>1, LoggedKept
<1>4. (Project => Logged(Last)') /\ (Backfill => Logged(at)')
  BY <1>1, <1>2, InsertLogs DEF Project, Backfill
<1>5. MissingIsSilent'
  <2>1. CASE Project
    BY <1>1, <1>2, <1>3, <1>4, <2>1 DEF Project, FileInv, MissingIsSilent, Due
  <2>2. CASE Crash
    BY <1>2, <2>2 DEF Crash, MissingIsSilent
  <2>3. CASE SetMark \/ ProjectFails
    <3>1. writer' = "idle" /\ silent \subseteq silent'
      BY <2>3 DEF SetMark, ProjectFails, Return
    <3>2. Due(Last) => Last \in silent'
      BY <2>3 DEF SetMark, ProjectFails, Due
    <3> QED BY <1>2, <1>3, <3>1, <3>2 DEF FileInv, MissingIsSilent, Due
  <2>4. CASE ReadMark \/ Backfill \/ MarkBackfilled \/ EndPass \/ PassFails
    <3>1. writer' = writer /\ silent' = silent
      BY <2>4 DEF ReadMark, Backfill, MarkBackfilled, EndPass, PassFails, fileVars
    <3> QED BY <1>2, <1>3, <3>1 DEF FileInv, MissingIsSilent, Due
  <2> QED BY <2>1, <2>2, <2>3, <2>4
<1>6. (overrun \/ PassIsBehind)'
  <2>1. overrun => overrun'
    BY DEF Project, SetMark, ProjectFails, ReadMark, Backfill, MarkBackfilled, EndPass, PassFails,
       Crash, fileVars
  <2>2. CASE Project \/ SetMark \/ ProjectFails
    <3>1. pass' = pass /\ at' = at
      BY <2>2 DEF Project, SetMark, ProjectFails, passVars
    <3> QED BY <1>1, <1>2, <1>3, <2>1, <3>1 DEF FileInv, PassIsBehind
  <2>3. CASE ReadMark
    <3>1. pass' = "scan" /\ at' = mark + 1
      BY <2>3 DEF ReadMark, FirstUnprojected
    <3>2. overrun \/ \A l \in 1..Last : l <= mark => Logged(l)
      BY <1>1 DEF FileInv, MissingIsStillDue
    <3> QED BY <1>1, <1>2, <1>3, <2>1, <3>1, <3>2 DEF PassIsBehind
  <2>4. CASE Backfill
    <3>1. pass = "scan" /\ pass' = "mark" /\ at' = at
      BY <2>4 DEF Backfill
    <3> QED BY <1>2, <1>3, <1>4, <2>1, <2>4, <3>1 DEF FileInv, PassIsBehind
  <2>5. CASE MarkBackfilled
    <3>1. pass = "mark" /\ pass' = "scan" /\ at' = at + 1
      BY <2>5 DEF MarkBackfilled
    <3> QED BY <1>1, <1>2, <1>3, <2>1, <3>1 DEF FileInv, PassIsBehind
  <2>6. CASE EndPass \/ PassFails \/ Crash
    BY <2>6 DEF EndPass, PassFails, Crash, PassIsBehind
  <2> QED BY <2>2, <2>3, <2>4, <2>5, <2>6
<1>7. MissingIsStillDue'
  <2>1. CASE SetMark
    BY <1>1, <1>2, <1>3, <2>1 DEF SetMark, MissingIsStillDue, FileInv
  <2>2. CASE MarkBackfilled
    <3>1. pass = "mark" /\ mark' = at /\ overrun' = overrun
      BY <2>2 DEF MarkBackfilled
    <3>2. overrun \/ \A l \in 1..Last : l <= at => Logged(l)
      BY <1>1, <3>1 DEF FileInv, PassIsBehind
    <3> QED BY <1>1, <1>2, <1>3, <3>1, <3>2 DEF MissingIsStillDue
  <2>3. CASE Project \/ ProjectFails \/ ReadMark \/ Backfill \/ EndPass \/ PassFails \/ Crash
    <3>1. mark' = mark /\ overrun' = overrun
      BY <2>3 DEF Project, ProjectFails, ReadMark, Backfill, EndPass, PassFails, Crash, fileVars
    <3> QED BY <1>2, <1>3, <3>1 DEF FileInv, MissingIsStillDue
  <2> QED BY <2>1, <2>2, <2>3
<1> QED BY <1>5, <1>6, <1>7

LEMMA FileStep == FileInv /\ [Next]_vars => FileInv'
<1> SUFFICES ASSUME FileInv, [Next]_vars PROVE FileInv'
  OBVIOUS
<1>1. TypeInv' /\ RowsBelong' /\ LogKept /\ RolloutKept
  BY TypeStep, BelongStep, Grows DEF FileInv
<1>2. CASE \E k \in LineKinds : AppendLine(k)
  BY <1>1, <1>2, AppendFile DEF FileInv
<1>3. CASE \/ Project \/ SetMark \/ ProjectFails
           \/ ReadMark \/ Backfill \/ MarkBackfilled \/ EndPass \/ PassFails \/ Crash
  BY <1>1, <1>3, WorkFile DEF FileInv
<1>4. CASE ReadRows \/ ReadFails \/ Register \/ UNCHANGED vars
  <2>1. FileAlone
    BY <1>4 DEF FileAlone, ReadRows, ReadFails, Register, vars, fileVars, passVars
  <2> QED BY <1>1, <2>1, FileAloneKeeps DEF FileInv
<1>5. CASE \E c \in Clients :
              \/ Connect(c) \/ Unregister(c) \/ DropSubs(c) \/ Receive(c)
              \/ \E u \in SubIds : \/ Unsubscribe(c, u)
                                   \/ \E s \in Streams : Create(c, u, s) \/ Update(c, u, s)
              \/ \E l \in Lines : Deliver(c, l) \/ Shed(c, l)
  <2>1. FileAlone
    BY <1>5 DEF FileAlone, Connect, Unregister, DropSubs, Receive, Unsubscribe, Create, Update,
       Deliver, Shed, fileVars, passVars
  <2> QED BY <1>1, <2>1, FileAloneKeeps DEF FileInv
<1>6. CASE \E l \in Lines : Abort(l) \/ \E seen \in BOOLEAN : Broadcast(l, seen)
  <2>1. FileAlone
    BY <1>6 DEF FileAlone, Abort, Broadcast, fileVars, passVars
  <2> QED BY <1>1, <2>1, FileAloneKeeps DEF FileInv
<1> QED BY <1>2, <1>3, <1>4, <1>5, <1>6 DEF Next

LEMMA FileInit == Init => FileInv
<1> SUFFICES ASSUME Init PROVE FileInv
  OBVIOUS
<1>1. TypeInv /\ Last = 0 /\ \A s \in Streams : Len(log[s]) = 0
  BY TypeInit DEF Init, Last
<1> QED BY <1>1 DEF Init, FileInv, RowsBelong, MissingIsSilent, PassIsBehind, MissingIsStillDue

LEMMA AlwaysFile == Spec => []FileInv
BY FileInit, FileStep, PTL DEF Spec

\* A line that lacks a row is beyond the watermark, however crashes, database
\* errors and the pass fall between the appends, save when an append moved the
\* watermark past a missing row (persistence.rs:1226-1238, event_reconcile.rs:3-14).
THEOREM FindsMissing == Spec => []MissingIsStillDue
<1>1. FileInv => MissingIsStillDue
  BY DEF FileInv
<1> QED BY <1>1, AlwaysFile, PTL

-----------------------------------------------------------------------------
(***************************************************************************)
(* What a cursor covers.                                                   *)
(***************************************************************************)
CoveredBy(s, n, ls) == n <= Len(log[s]) /\ \A i \in 1..n : log[s][i] \in ls

\* An answer hands over what its seq stands for, unless the client has it.
AnswerCovers ==
    \A c \in Clients : answer[c] # Nothing =>
       CoveredBy(answer[c].stream, answer[c].seq, got[c] \cup answer[c].rows)

\* So does the work it is made from.
HoldCovers ==
    hold # Nothing =>
       /\ hold.barrier <= Len(log[hold.stream])
       /\ hold.step = "register" =>
             CoveredBy(hold.stream, hold.barrier, got[hold.client] \cup hold.rows)

CoverInv == TypeInv /\ CursorIsCovered /\ AnswerCovers /\ HoldCovers

HoldRecord ==
    [op : {"create", "update"}, client : Clients, sub : SubIds, stream : Streams,
     barrier : Nat, step : {"replay", "register"}, rows : SUBSET Lines]
AnswerRecord == [op : {"answer"}, stream : Streams, seq : Nat, rows : SUBSET Lines]

LEMMA RecordFacts ==
    ASSUME TypeInv
    PROVE  /\ hold # Nothing => hold \in HoldRecord
           /\ \A c \in Clients : answer[c] # Nothing => answer[c] \in AnswerRecord
           /\ \A c \in Clients, s \in Streams : cursor[c][s] \in Nat
BY DEF TypeInv, TypeOK, HoldRecord, AnswerRecord

\* The log only grows, so what is covered stays so.
LEMMA CoverKept ==
    ASSUME TypeInv, LogKept, NEW s \in Streams, NEW n \in Nat, NEW ls, NEW ms, ls \subseteq ms,
           CoveredBy(s, n, ls)
    PROVE  n <= Len(log'[s]) /\ \A i \in 1..n : log'[s][i] \in ms
<1>1. Len(log[s]) \in Nat /\ Len(log[s]) <= Len(log'[s]) /\ n <= Len(log[s])
  BY TypeFacts DEF LogKept, CoveredBy
<1>2. Len(log'[s]) \in Nat \/ Len(log'[s]) >= n
  BY <1>1
<1>3. \A i \in 1..n : i \in 1..Len(log[s]) /\ log'[s][i] = log[s][i]
  BY <1>1 DEF LogKept
<1> QED BY <1>1, <1>3 DEF CoveredBy

LEMMA CursorsKept ==
    ASSUME CoverInv, TypeInv', LogKept, cursor' = cursor,
           \A c \in Clients : got[c] \subseteq got'[c]
    PROVE  CursorIsCovered'
<1>1. SUFFICES ASSUME NEW c \in Clients, NEW s \in Streams
               PROVE  /\ cursor[c][s] <= Len(log'[s])
                      /\ \A i \in 1..cursor[c][s] : log'[s][i] \in got'[c]
  BY DEF CursorIsCovered
<1>2. CoveredBy(s, cursor[c][s], got[c]) /\ cursor[c][s] \in Nat /\ TypeInv
  BY RecordFacts DEF CoverInv, CursorIsCovered, CoveredBy
<1>3. got[c] \subseteq got'[c]
  OBVIOUS
<1> QED BY <1>2, <1>3, CoverKept

LEMMA AnswersKept ==
    ASSUME CoverInv, LogKept, \A c \in Clients : got[c] \subseteq got'[c],
           \A c \in Clients : answer'[c] \in {answer[c], Nothing}
    PROVE  AnswerCovers'
<1>1. SUFFICES ASSUME NEW c \in Clients, answer'[c] # Nothing
               PROVE  CoveredBy(answer[c].stream, answer[c].seq, got[c] \cup answer[c].rows)'
  BY DEF AnswerCovers, CoveredBy
<1>2. /\ answer'[c] = answer[c] /\ answer[c] \in AnswerRecord /\ TypeInv
      /\ CoveredBy(answer[c].stream, answer[c].seq, got[c] \cup answer[c].rows)
  BY <1>1, RecordFacts DEF CoverInv, AnswerCovers
<1>3. answer[c].stream \in Streams /\ answer[c].seq \in Nat
  BY <1>2 DEF AnswerRecord
<1>4. got[c] \cup answer[c].rows \subseteq got'[c] \cup answer[c].rows
  OBVIOUS
<1>5. /\ answer[c].seq <= Len(log'[answer[c].stream])
      /\ \A i \in 1..answer[c].seq :
            log'[answer[c].stream][i] \in got'[c] \cup answer[c].rows
  <2> DEFINE s == answer[c].stream
             n == answer[c].seq
             ls == got[c] \cup answer[c].rows
             ms == got'[c] \cup answer[c].rows
  <2>1. TypeInv /\ s \in Streams /\ n \in Nat /\ ls \subseteq ms /\ CoveredBy(s, n, ls)
    BY <1>2, <1>3, <1>4
  <2> HIDE DEF s, n, ls, ms
  <2>2. n <= Len(log'[s]) /\ \A i \in 1..n : log'[s][i] \in ms
    BY <2>1, CoverKept
  <2> QED BY <2>2 DEF s, n, ms
<1> QED BY <1>2, <1>5 DEF CoveredBy

LEMMA HoldKept ==
    ASSUME CoverInv, LogKept, hold' \in {hold, Nothing},
           \A c \in Clients : got[c] \subseteq got'[c]
    PROVE  HoldCovers'
<1>1. CASE hold' = Nothing
  BY <1>1 DEF HoldCovers
<1>2. CASE hold' = hold /\ hold # Nothing
  <2>1. hold \in HoldRecord /\ TypeInv /\ HoldCovers
    BY <1>2, RecordFacts DEF CoverInv
  <2>2. /\ hold.stream \in Streams /\ hold.barrier \in Nat /\ hold.client \in Clients
        /\ hold.barrier <= Len(log[hold.stream])
    BY <1>2, <2>1 DEF HoldRecord, HoldCovers
  <2>3. hold.barrier <= Len(log'[hold.stream])
    <3>1. Len(log[hold.stream]) \in Nat /\ Len(log[hold.stream]) <= Len(log'[hold.stream])
      BY <2>1, <2>2, TypeFacts DEF LogKept
    <3>2. CoveredBy(hold.stream, hold.barrier, {log[hold.stream][i] : i \in 1..hold.barrier})
      BY <2>2 DEF CoveredBy
    <3> QED BY <2>1, <2>2, <3>2, CoverKept
  <2>4. CASE hold.step = "register"
    <3>1. CoveredBy(hold.stream, hold.barrier, got[hold.client] \cup hold.rows)
      BY <1>2, <2>1, <2>4 DEF HoldCovers
    <3>2. got[hold.client] \cup hold.rows \subseteq got'[hold.client] \cup hold.rows
      BY <2>2
    <3>3. \A i \in 1..hold.barrier :
             log'[hold.stream][i] \in got'[hold.client] \cup hold.rows
      BY <2>1, <2>2, <3>1, <3>2, CoverKept
    <3> QED BY <1>2, <2>3, <3>3 DEF HoldCovers, CoveredBy
  <2>5. CASE hold.step # "register"
    BY <1>2, <2>3, <2>5 DEF HoldCovers
  <2> QED BY <2>4, <2>5
<1> QED BY <1>1, <1>2

\* What most steps do with the clients and the work for them.
CoverAlone ==
    /\ cursor' = cursor /\ hold' \in {hold, Nothing}
    /\ \A c \in Clients : /\ got[c] \subseteq got'[c]
                          /\ answer'[c] \in {answer[c], Nothing}

LEMMA CoverAloneKeeps ==
    ASSUME CoverInv, TypeInv', LogKept, CoverAlone
    PROVE  CoverInv'
BY CursorsKept, AnswersKept, HoldKept DEF CoverAlone, CoverInv

LEMMA SubscribeCovers ==
    ASSUME CoverInv, TypeInv', LogKept, NEW c \in Clients, NEW u \in SubIds, NEW s \in Streams,
           Create(c, u, s) \/ Update(c, u, s)
    PROVE  CoverInv'
<1>1. UNCHANGED <<log, got, cursor, answer>>
  BY DEF Create, Update, fileVars, clientVars
<1>2. hold' = Work(IF hold'.op = "create" THEN "create" ELSE "update", c, u, s)
  BY DEF Create, Update, Work
<1>3. hold'.barrier = Len(log[s]) /\ hold'.stream = s /\ hold'.step = "replay"
  BY DEF Create, Update, Work
<1>4. HoldCovers'
  BY <1>1, <1>3, TypeFacts DEF HoldCovers, CoverInv
<1> QED BY <1>1, <1>4, CursorsKept, AnswersKept DEF CoverInv

\* The rows read and the cursor they are read after cover the barrier.
LEMMA ReadCovers ==
    ASSUME CoverInv, TypeInv', LogKept, ReadRows
    PROVE  CoverInv'
<1>1. UNCHANGED <<log, got, cursor, answer>>
  BY DEF ReadRows, fileVars, clientVars
<1>2. /\ hold \in HoldRecord /\ TypeInv /\ HoldCovers /\ hold # Nothing
      /\ hold.stream \in Streams /\ hold.client \in Clients
  BY RecordFacts DEF ReadRows, Free, CoverInv, HoldRecord
<1>3. /\ hold'.stream = hold.stream /\ hold'.client = hold.client
      /\ hold'.barrier = hold.barrier
      /\ hold'.rows = {log[hold.stream][i] : i \in After + 1..Len(log[hold.stream])}
  BY <1>2 DEF ReadRows, HoldRecord
<1>4. hold.barrier <= Len(log[hold.stream]) /\ Len(log[hold.stream]) \in Nat
      /\ hold.barrier \in Nat
  BY <1>2, TypeFacts DEF HoldCovers, HoldRecord
<1>5. After \in Nat /\ \A i \in 1..After : log[hold.stream][i] \in got[hold.client]
  <2>1. cursor[hold.client][hold.stream] \in Nat
    BY <1>2, RecordFacts
  <2> QED BY <1>2, <2>1 DEF After, CoverInv, CursorIsCovered
<1>6. \A i \in 1..hold.barrier :
         log[hold.stream][i] \in got[hold.client] \cup hold'.rows
  <2>1. SUFFICES ASSUME NEW i \in 1..hold.barrier, i > After
                 PROVE  log[hold.stream][i] \in hold'.rows
    BY <1>4, <1>5
  <2>2. i \in After + 1..Len(log[hold.stream])
    BY <1>4, <1>5, <2>1
  <2> QED BY <1>3, <2>2
<1>7. HoldCovers'
  BY <1>1, <1>3, <1>4, <1>6 DEF HoldCovers, CoveredBy
<1> QED BY <1>1, <1>7, CursorsKept, AnswersKept DEF CoverInv

LEMMA RegisterCovers ==
    ASSUME CoverInv, TypeInv', LogKept, Register
    PROVE  CoverInv'
<1>1. UNCHANGED <<log, got, cursor>> /\ hold' = Nothing
  BY DEF Register, fileVars
<1>2. /\ hold \in HoldRecord /\ TypeInv /\ HoldCovers /\ hold # Nothing
      /\ hold.step = "register" /\ hold.client \in Clients
  BY RecordFacts DEF Register, Free, CoverInv, HoldRecord
<1>3. \A c \in Clients :
         answer'[c] = IF c = hold.client
                      THEN [op |-> "answer", stream |-> hold.stream,
                            seq |-> hold.barrier, rows |-> hold.rows]
                      ELSE answer[c]
  BY <1>2 DEF Register, TypeInv, TypeOK
<1>4. CoveredBy(hold.stream, hold.barrier, got[hold.client] \cup hold.rows)
  BY <1>2 DEF HoldCovers
<1>5. AnswerCovers'
  <2>1. SUFFICES ASSUME NEW c \in Clients, answer'[c] # Nothing
                 PROVE  CoveredBy(answer'[c].stream, answer'[c].seq, got[c] \cup answer'[c].rows)
    BY <1>1 DEF AnswerCovers, CoveredBy
  <2>2. CASE c = hold.client
    <3>1. /\ answer'[c].stream = hold.stream /\ answer'[c].seq = hold.barrier
          /\ answer'[c].rows = hold.rows
      BY <1>3, <2>2
    <3> QED BY <1>4, <2>2, <3>1
  <2>3. CASE c # hold.client
    BY <1>3, <2>1, <2>3 DEF CoverInv, AnswerCovers
  <2> QED BY <2>2, <2>3
<1>6. HoldCovers'
  BY <1>1 DEF HoldCovers
<1> QED BY <1>1, <1>5, <1>6, CursorsKept DEF CoverInv

LEMMA ReceiveCovers ==
    ASSUME CoverInv, TypeInv', LogKept, NEW c \in Clients, Receive(c)
    PROVE  CoverInv'
<1>1. UNCHANGED <<log, hold>>
  BY DEF Receive, fileVars
<1>2. answer[c] \in AnswerRecord /\ answer[c] # Nothing /\ TypeInv
  BY RecordFacts DEF Receive, CoverInv
<1>3. /\ \A d \in Clients : got'[d] = IF d = c THEN got[c] \cup answer[c].rows ELSE got[d]
      /\ \A d \in Clients : answer'[d] \in {answer[d], Nothing}
      /\ \A d \in Clients : d # c => cursor'[d] = cursor[d]
      /\ cursor'[c] = [s \in Streams |-> IF s = answer[c].stream THEN answer[c].seq ELSE 0]
  BY <1>2 DEF Receive, TypeInv, TypeOK
<1>4. \A d \in Clients : got[d] \subseteq got'[d]
  BY <1>3
<1>5. CoveredBy(answer[c].stream, answer[c].seq, got[c] \cup answer[c].rows)
  BY <1>2 DEF CoverInv, AnswerCovers
<1>6. CursorIsCovered'
  <2>1. SUFFICES ASSUME NEW d \in Clients, NEW s \in Streams
                 PROVE  /\ cursor'[d][s] <= Len(log[s])
                        /\ \A i \in 1..cursor'[d][s] : log[s][i] \in got'[d]
    BY <1>1 DEF CursorIsCovered
  <2>2. CASE d # c
    BY <1>3, <1>4, <2>2 DEF CoverInv, CursorIsCovered
  <2>3. CASE d = c /\ s = answer[c].stream
    BY <1>3, <1>5, <2>3 DEF CoveredBy
  <2>4. CASE d = c /\ s # answer[c].stream
    BY <1>2, <1>3, <2>4, TypeFacts
  <2> QED BY <2>2, <2>3, <2>4
<1> QED BY <1>1, <1>3, <1>4, <1>6, AnswersKept, HoldKept DEF CoverInv

LEMMA CoverStep == CoverInv /\ [Next]_vars => CoverInv'
<1> SUFFICES ASSUME CoverInv, [Next]_vars PROVE CoverInv'
  OBVIOUS
<1>1. TypeInv' /\ LogKept
  BY TypeStep, Grows DEF CoverInv
<1>2. ASSUME NEW c \in Clients, NEW u \in SubIds, NEW s \in Streams,
             Create(c, u, s) \/ Update(c, u, s)
      PROVE  CoverInv'
  BY <1>1, <1>2, SubscribeCovers
<1>3. CASE ReadRows \/ Register
  BY <1>1, <1>3, ReadCovers, RegisterCovers
<1>4. ASSUME NEW c \in Clients, Receive(c) PROVE CoverInv'
  BY <1>1, <1>4, ReceiveCovers
<1>5. CASE \/ \E k \in LineKinds : AppendLine(k)
           \/ Project \/ SetMark \/ ProjectFails
           \/ ReadMark \/ Backfill \/ MarkBackfilled \/ EndPass \/ PassFails \/ ReadFails
           \/ UNCHANGED vars
  <2>1. CoverAlone
    BY <1>5 DEF CoverAlone, AppendLine, Project, SetMark, ProjectFails, ReadMark, Backfill,
       MarkBackfilled, EndPass, PassFails, ReadFails, vars, clientVars
  <2> QED BY <1>1, <2>1, CoverAloneKeeps
<1>6. CASE Crash
  <2>1. CoverAlone
    BY <1>6 DEF CoverAlone, Crash
  <2> QED BY <1>1, <2>1, CoverAloneKeeps
<1>7. ASSUME NEW c \in Clients,
             \/ Connect(c) \/ Unregister(c) \/ DropSubs(c)
             \/ \E u \in SubIds : Unsubscribe(c, u)
             \/ \E l \in Lines : Deliver(c, l) \/ Shed(c, l)
      PROVE  CoverInv'
  <2>1. CASE Connect(c) \/ DropSubs(c) \/ (\E u \in SubIds : Unsubscribe(c, u))
             \/ \E l \in Lines : Shed(c, l)
    <3>1. UNCHANGED <<answer, cursor, got, hold>>
      BY <2>1 DEF Connect, DropSubs, Unsubscribe, Shed, clientVars
    <3> QED BY <1>1, <3>1, CoverAloneKeeps DEF CoverAlone
  <2>2. CASE Unregister(c)
    <3>1. \A d \in Clients : answer'[d] \in {answer[d], Nothing}
      BY <2>2 DEF Unregister, CoverInv, TypeInv, TypeOK
    <3>2. UNCHANGED <<cursor, got, hold>>
      BY <2>2 DEF Unregister
    <3> QED BY <1>1, <3>1, <3>2, CoverAloneKeeps DEF CoverAlone
  <2>3. ASSUME NEW l \in Lines, Deliver(c, l) PROVE CoverInv'
    <3>1. \A d \in Clients : got[d] \subseteq got'[d]
      BY <2>3 DEF Deliver, CoverInv, TypeInv, TypeOK
    <3>2. UNCHANGED <<cursor, answer, hold>>
      BY <2>3 DEF Deliver
    <3> QED BY <1>1, <3>1, <3>2, CoverAloneKeeps DEF CoverAlone
  <2> QED BY <1>7, <2>1, <2>2, <2>3
<1>8. CASE \E l \in Lines : Abort(l) \/ \E seen \in BOOLEAN : Broadcast(l, seen)
  <2>1. CoverAlone
    BY <1>8 DEF CoverAlone, Abort, Broadcast, clientVars
  <2> QED BY <1>1, <2>1, CoverAloneKeeps
<1> QED BY <1>2, <1>3, <1>4, <1>5, <1>6, <1>7, <1>8 DEF Next

LEMMA CoverInit == Init => CoverInv
<1> SUFFICES ASSUME Init PROVE CoverInv
  OBVIOUS
<1>1. /\ TypeInv /\ \A c \in Clients : answer[c] = Nothing
      /\ \A c \in Clients, s \in Streams : cursor[c][s] = 0
      /\ \A s \in Streams : Len(log[s]) = 0
      /\ hold = Nothing
  BY TypeInit DEF Init
<1> QED BY <1>1 DEF CoverInv, CursorIsCovered, AnswerCovers, HoldCovers

\* No row is ever inserted behind a cursor: what a client keeps as its cursor
\* was handed over to it, whoever appends, projects or subscribes meanwhile and
\* whatever is lost (db.rs:540-550, subscription.rs:437-479).
THEOREM CoversCursor == Spec => []CursorIsCovered
<1>1. CoverInv => CursorIsCovered
  BY DEF CoverInv
<1> QED BY <1>1, CoverInit, CoverStep, PTL DEF Spec


-----------------------------------------------------------------------------
(***************************************************************************)
(* What a live subscription misses.                                        *)
(***************************************************************************)
\* Its event is not on the way to anybody yet, or never will be.
Quiet(l) == l \in silent \/ Unsent(l)

Told(c, l) == l \in got[c] \cup frames[c] \cup shed[c]

NoGap(c, s, n) == \A i \in n + 1..Len(log[s]) : Told(c, log[s][i]) \/ Quiet(log[s][i])

\* The cached selectors of a connection cover its subscriptions, and a closed
\* one has none left for the next connection to inherit.
OwnerSelects ==
    \A u \in SubIds : subs[u] # Nothing =>
       /\ conn[subs[u].owner] # "closed"
       /\ conn[subs[u].owner] = "open" => subs[u].stream \in selectors[subs[u].owner]

HolderIsOpen == hold # Nothing => conn[hold.client] = "open"

\* While the lock is held nothing is broadcast: no row after the barrier has
\* been sent to the connections that were subscribed before.
HoldMisses ==
    hold # Nothing =>
       \A i \in hold.barrier + 1..Len(log[hold.stream]) : Quiet(log[hold.stream][i])

GapInv == FileInv /\ OwnerSelects /\ HolderIsOpen /\ HoldMisses /\ LiveLeavesNoGap

\* Only its own broadcast ends the quiet of a line that has events.
LEMMA QuietKept ==
    ASSUME TypeInv, [Next]_vars, NEW l \in 1..Last, rollout[l] # {}, Quiet(l),
           \A seen \in BOOLEAN : ~Broadcast(l, seen)
    PROVE  Quiet(l)'
<1>1. CASE \E k \in LineKinds : AppendLine(k)
  BY <1>1 DEF AppendLine, Quiet, Unsent
<1>2. CASE SetMark \/ ProjectFails
  <2>1. rollout' = rollout /\ Return /\ silent \subseteq silent'
    BY <1>2 DEF SetMark, ProjectFails
  <2>2. l = Last => l \in fanout'
    BY <2>1 DEF Return
  <2> QED BY <2>1, <2>2 DEF Return, Quiet, Unsent
<1>3. CASE Project
  BY <1>3 DEF Project, Quiet, Unsent, Last
<1>4. CASE Crash
  BY <1>4 DEF Crash, Quiet
<1>5. CASE \/ ReadMark \/ Backfill \/ MarkBackfilled \/ EndPass \/ PassFails
           \/ ReadRows \/ ReadFails \/ Register \/ UNCHANGED vars
  <2>1. UNCHANGED <<rollout, writer, fanout, silent>>
    BY <1>5 DEF ReadMark, Backfill, MarkBackfilled, EndPass, PassFails, ReadRows, ReadFails,
       Register, vars, fileVars
  <2> QED BY <2>1 DEF Quiet, Unsent, Last
<1>6. CASE \E c \in Clients :
              \/ Connect(c) \/ Unregister(c) \/ DropSubs(c) \/ Receive(c)
              \/ \E u \in SubIds : \/ Unsubscribe(c, u)
                                   \/ \E s \in Streams : Create(c, u, s) \/ Update(c, u, s)
              \/ \E m \in Lines : Deliver(c, m) \/ Shed(c, m)
  <2>1. UNCHANGED <<rollout, writer, fanout, silent>>
    BY <1>6 DEF Connect, Unregister, DropSubs, Receive, Unsubscribe, Create, Update, Deliver,
       Shed, fileVars
  <2> QED BY <2>1 DEF Quiet, Unsent, Last
<1>7. CASE \E m \in Lines : Abort(m) \/ \E seen \in BOOLEAN : Broadcast(m, seen)
  <2>1. UNCHANGED <<rollout, writer>>
    BY <1>7 DEF Abort, Broadcast, fileVars
  <2>2. CASE \E m \in Lines : Abort(m)
    BY <2>1, <2>2 DEF Abort, Quiet, Unsent, Last
  <2>3. CASE \E m \in Lines : \E seen \in BOOLEAN : Broadcast(m, seen)
    <3>1. PICK m \in Lines : \E seen \in BOOLEAN : Broadcast(m, seen)
      BY <2>3
    <3>2. m # l /\ fanout' = fanout \ {m} /\ silent' = silent
      BY <3>1 DEF Broadcast
    <3> QED BY <2>1, <3>2 DEF Quiet, Unsent, Last
  <2> QED BY <1>7, <2>2, <2>3
<1> QED BY <1>1, <1>2, <1>3, <1>4, <1>5, <1>6, <1>7 DEF Next

\* A row that was missing is of a line that nobody has fanned out.
LEMMA NewIsQuiet ==
    ASSUME FileInv, [Next]_vars, NEW s \in Streams, NEW i \in 1..Len(log'[s]), i > Len(log[s])
    PROVE  Quiet(log[s][i])'
<1>1. Len(log[s]) \in Nat /\ TypeInv /\ log \in [Streams -> Seq(Lines)]
  BY TypeFacts DEF FileInv
<1>2. log' # log
  BY <1>1
<1>3. PICK l \in 1..Last : \E ss : Inserts(l, ss)
  BY <1>1, <1>2, FileSteps DEF Appends, Rests
<1>4. PICK ss : Inserts(l, ss)
  BY <1>3
<1>5. l \in Lines
  BY <1>1, TypeFacts
<1>6. log'[s][i] = l /\ s \in rollout[l] /\ l \notin Rows(s)
  BY <1>1, <1>4, <1>5, InsertFacts DEF Inserts, Adds
<1>7. Quiet(l)
  BY <1>6 DEF FileInv, MissingIsSilent, Logged, Due, Quiet, Unsent
<1>8. \A seen \in BOOLEAN : ~Broadcast(l, seen)
  BY <1>2 DEF Broadcast, fileVars
<1>9. Quiet(l)'
  BY <1>1, <1>6, <1>7, <1>8, QuietKept
<1>10. l = (log[s][i])'
  BY <1>6
<1> QED BY <1>9, <1>10 DEF Quiet, Unsent

\* What a connection was told stays so while it is open.
LEMMA ToldKept ==
    ASSUME TypeInv, [Next]_vars, NEW c \in Clients, conn[c] = "open", conn'[c] = "open",
           NEW l, Told(c, l)
    PROVE  Told(c, l)'
<1> USE DEF TypeInv, TypeOK
<1>1. CASE \/ \E k \in LineKinds : AppendLine(k)
           \/ Project \/ SetMark \/ ProjectFails
           \/ ReadMark \/ Backfill \/ MarkBackfilled \/ EndPass \/ PassFails
           \/ ReadRows \/ ReadFails \/ Register \/ UNCHANGED vars
  <2>1. UNCHANGED <<got, frames, shed>>
    BY <1>1 DEF AppendLine, Project, SetMark, ProjectFails, ReadMark, Backfill, MarkBackfilled,
       EndPass, PassFails, ReadRows, ReadFails, Register, vars, connVars, clientVars
  <2> QED BY <2>1 DEF Told
<1>2. CASE Crash
  BY <1>2 DEF Crash
<1>3. ASSUME NEW d \in Clients,
             \/ Connect(d) \/ DropSubs(d)
             \/ \E u \in SubIds : \/ Unsubscribe(d, u)
                                  \/ \E s \in Streams : Create(d, u, s) \/ Update(d, u, s)
      PROVE  Told(c, l)'
  <2>1. UNCHANGED <<got, frames, shed>>
    BY <1>3 DEF Connect, DropSubs, Unsubscribe, Create, Update, connVars, clientVars
  <2> QED BY <2>1 DEF Told
<1>4. ASSUME NEW d \in Clients, Unregister(d)
      PROVE  Told(c, l)'
  <2>1. d # c
    BY <1>4 DEF Unregister
  <2> QED BY <1>4, <2>1 DEF Unregister, Told
<1>5. ASSUME NEW d \in Clients, Receive(d)
      PROVE  Told(c, l)'
  <2>1. UNCHANGED <<frames, shed>> /\ got[c] \subseteq got'[c]
    BY <1>5 DEF Receive, connVars
  <2> QED BY <2>1 DEF Told
<1>6. ASSUME NEW d \in Clients, NEW m \in Lines, Deliver(d, m) \/ Shed(d, m)
      PROVE  Told(c, l)'
  <2>1. CASE Deliver(d, m)
    BY <2>1 DEF Deliver, Told
  <2>2. CASE Shed(d, m)
    BY <2>2 DEF Shed, Told, clientVars
  <2> QED BY <1>6, <2>1, <2>2
<1>7. ASSUME NEW m \in Lines, Abort(m) \/ \E seen \in BOOLEAN : Broadcast(m, seen)
      PROVE  Told(c, l)'
  <2>1. UNCHANGED <<got, shed>>
    BY <1>7 DEF Abort, Broadcast, connVars, clientVars
  <2>2. frames[c] \subseteq frames'[c]
    <3>1. CASE Abort(m)
      BY <3>1 DEF Abort, connVars
    <3>2. CASE \E seen \in BOOLEAN : Broadcast(m, seen)
      BY <3>2 DEF Broadcast
    <3> QED BY <1>7, <3>1, <3>2
  <2> QED BY <2>1, <2>2 DEF Told
<1> QED BY <1>1, <1>2, <1>3, <1>4, <1>5, <1>6, <1>7 DEF Next

\* An open connection that selects a session has no gap in it after a step.
LEMMA NoGapKept ==
    ASSUME FileInv, [Next]_vars, NEW c \in Clients, NEW s \in Sessions, NEW n \in Nat,
           conn[c] = "open", conn'[c] = "open", s \in selectors[c], NoGap(c, s, n)
    PROVE  NoGap(c, s, n)'
<1>1. TypeInv /\ LogKept /\ s \in Streams /\ Len(log[s]) \in Nat
  BY Grows, TypeFacts DEF FileInv, Streams
<1>2. SUFFICES ASSUME NEW i \in n + 1..Len(log'[s])
               PROVE  Told(c, log[s][i])' \/ Quiet(log[s][i])'
  BY DEF NoGap
<1>3. i \in 1..Len(log'[s])
  <2>1. TypeInv'
    BY <1>1, TypeStep
  <2>2. Len(log'[s]) \in Nat
    BY <1>1, <2>1 DEF TypeInv, TypeOK
  <2> QED BY <2>2
<1>4. CASE i > Len(log[s])
  BY <1>1, <1>3, <1>4, NewIsQuiet
<1>5. CASE i <= Len(log[s])
  <2>1. i \in 1..Len(log[s]) /\ i \in n + 1..Len(log[s]) /\ log'[s][i] = log[s][i]
    BY <1>1, <1>3, <1>5 DEF LogKept
  <2>2. PICK l \in 1..Last : l = log[s][i]
    BY <1>1, <2>1 DEF FileInv, RowsBelong
  <2>3. /\ l \in Lines /\ s \in rollout[l] /\ (Told(c, l) \/ Quiet(l))
        /\ (log[s][i])' = l
    BY <1>1, <2>1, <2>2, TypeFacts DEF FileInv, RowsBelong, NoGap
  <2>4. CASE Told(c, l)
    <3>1. Told(c, l)'
      BY <1>1, <2>4, ToldKept
    <3> QED BY <2>3, <3>1 DEF Told
  <2>5. CASE \E seen \in BOOLEAN : Broadcast(l, seen)
    <3>1. PICK seen \in BOOLEAN : Broadcast(l, seen)
      BY <2>5
    <3>2. Matches(c, l, seen)
      BY <2>3, EventAssumption DEF Matches
    <3>3. l \in frames'[c]
      BY <3>1, <3>2 DEF Broadcast
    <3> QED BY <2>3, <3>3 DEF Told
  <2>6. CASE Quiet(l) /\ \A seen \in BOOLEAN : ~Broadcast(l, seen)
    <3>1. Quiet(l)'
      BY <1>1, <2>3, <2>6, QuietKept
    <3> QED BY <2>3, <3>1 DEF Quiet, Unsent
  <2> QED BY <2>3, <2>4, <2>5, <2>6
<1> QED BY <1>1, <1>3, <1>4, <1>5

LEMMA SubFacts ==
    ASSUME TypeInv, NEW u \in SubIds, subs[u] # Nothing
    PROVE  subs[u].owner \in Clients /\ subs[u].stream \in Streams /\ subs[u].from \in Nat
BY DEF TypeInv, TypeOK

\* A subscription that a step does not make was there before it, and the same.
LEMMA SubKept ==
    ASSUME GapInv, [Next]_vars, NEW u \in SubIds,
           subs'[u] # Nothing, subs'[u] = subs[u], conn'[subs[u].owner] = "open"
    PROVE  conn[subs[u].owner] = "open"
<1> DEFINE c == subs[u].owner
<1>1. c \in Clients /\ conn[c] # "closed" /\ conn[c] \in {"closed", "open", "leaving"}
  BY SubFacts DEF GapInv, FileInv, OwnerSelects, TypeInv, TypeOK
<1>2. conn \in [Clients -> {"closed", "open", "leaving"}]
  BY DEF GapInv, FileInv, TypeInv, TypeOK
<1> HIDE DEF c
<1>3. CASE conn' = conn
  BY <1>3
<1>4. CASE Crash
  BY <1>4 DEF Crash
<1>5. ASSUME NEW d \in Clients, Connect(d) \/ Unregister(d) \/ DropSubs(d)
      PROVE  conn[c] = "open"
  BY <1>1, <1>2, <1>5 DEF Connect, Unregister, DropSubs, c
<1>6. CASE \/ \E k \in LineKinds : AppendLine(k)
           \/ Project \/ SetMark \/ ProjectFails
           \/ ReadMark \/ Backfill \/ MarkBackfilled \/ EndPass \/ PassFails
           \/ ReadRows \/ ReadFails \/ Register \/ UNCHANGED vars
  <2>1. conn' = conn
    BY <1>6 DEF AppendLine, Project, SetMark, ProjectFails, ReadMark, Backfill, MarkBackfilled,
       EndPass, PassFails, ReadRows, ReadFails, Register, vars, connVars
  <2> QED BY <2>1, <1>3
<1>7. CASE \E d \in Clients :
              \/ Receive(d)
              \/ \E v \in SubIds : \/ Unsubscribe(d, v)
                                   \/ \E s \in Streams : Create(d, v, s) \/ Update(d, v, s)
              \/ \E l \in Lines : Deliver(d, l) \/ Shed(d, l)
  <2>1. conn' = conn
    BY <1>7 DEF Receive, Unsubscribe, Create, Update, Deliver, Shed, connVars
  <2> QED BY <2>1, <1>3
<1>8. CASE \E l \in Lines : Abort(l) \/ \E seen \in BOOLEAN : Broadcast(l, seen)
  <2>1. conn' = conn
    BY <1>8 DEF Abort, Broadcast, connVars
  <2> QED BY <2>1, <1>3
<1> QED BY <1>4, <1>5, <1>6, <1>7, <1>8 DEF Next, c
LEMMA OwnerStep ==
    ASSUME GapInv, TypeInv', [Next]_vars
    PROVE  OwnerSelects'
<1> SUFFICES ASSUME NEW u \in SubIds, subs'[u] # Nothing
             PROVE  LET c == subs'[u].owner
                    IN  /\ conn'[c] # "closed"
                        /\ conn'[c] = "open" => subs'[u].stream \in selectors'[c]
  BY DEF OwnerSelects
<1>1. TypeInv /\ OwnerSelects /\ HolderIsOpen
  BY DEF GapInv, FileInv
<1>2. /\ conn \in [Clients -> {"closed", "open", "leaving"}]
      /\ selectors \in [Clients -> SUBSET Streams]
  BY <1>1 DEF TypeInv, TypeOK
<1>3. subs'[u].owner \in Clients /\ subs'[u].stream \in Streams
  BY DEF TypeInv, TypeOK
<1>4. CASE UNCHANGED <<conn, selectors, subs>>
  BY <1>1, <1>4 DEF OwnerSelects
<1>5. CASE Crash
  BY <1>5 DEF Crash
<1>6. ASSUME NEW d \in Clients, Connect(d) \/ Unregister(d) \/ DropSubs(d)
      PROVE  LET c == subs'[u].owner
             IN  /\ conn'[c] # "closed"
                 /\ conn'[c] = "open" => subs'[u].stream \in selectors'[c]
  <2>1. CASE Connect(d)
    BY <1>1, <1>2, <1>3, <2>1 DEF Connect, OwnerSelects
  <2>2. CASE Unregister(d)
    BY <1>1, <1>2, <1>3, <2>2 DEF Unregister, OwnerSelects
  <2>3. CASE DropSubs(d)
    <3>1. subs'[u] = subs[u] /\ subs[u].owner # d
      BY <2>3 DEF DropSubs
    <3> QED BY <1>1, <1>2, <1>3, <2>3, <3>1 DEF DropSubs, OwnerSelects
  <2> QED BY <1>6, <2>1, <2>2, <2>3
\* Both handlers that change the registry cache the selectors after it.
<1>7. ASSUME NEW d \in Clients, conn[d] = "open", conn' = conn,
             selectors' = [selectors EXCEPT ![d] = Cached(d)],
             subs'[u] = subs[u] \/ subs'[u].owner = d
      PROVE  LET c == subs'[u].owner
             IN  /\ conn'[c] # "closed"
                 /\ conn'[c] = "open" => subs'[u].stream \in selectors'[c]
  <2>1. CASE subs'[u].owner = d
    <3>1. subs'[u].stream \in Cached(d)
      BY <2>1 DEF Cached, Union
    <3> QED BY <1>2, <1>7, <2>1, <3>1
  <2>2. CASE subs'[u].owner # d
    BY <1>1, <1>2, <1>3, <1>7, <2>2 DEF OwnerSelects
  <2> QED BY <2>1, <2>2
<1>8. CASE Register
  <2>1. hold.client \in Clients /\ hold.sub \in SubIds /\ conn[hold.client] = "open"
    BY <1>1, <1>8, RecordFacts DEF Register, Free, HoldRecord, HolderIsOpen
  <2>2. subs'[u] = subs[u] \/ subs'[u].owner = hold.client
    BY <1>1, <1>8 DEF Register, TypeInv, TypeOK
  <2> QED BY <1>7, <1>8, <2>1, <2>2 DEF Register
<1>9. ASSUME NEW d \in Clients, NEW v \in SubIds, Unsubscribe(d, v)
      PROVE  LET c == subs'[u].owner
             IN  /\ conn'[c] # "closed"
                 /\ conn'[c] = "open" => subs'[u].stream \in selectors'[c]
  <2>1. subs'[u] = subs[u]
    BY <1>1, <1>9 DEF Unsubscribe, TypeInv, TypeOK
  <2>2. conn[d] = "open" /\ conn' = conn
    BY <1>9 DEF Unsubscribe, Calls
  <2>3. CASE selectors' = [selectors EXCEPT ![d] = Cached(d)]
    BY <1>7, <2>1, <2>2, <2>3
  <2>4. CASE selectors' = selectors
    BY <1>1, <2>1, <2>2, <2>4 DEF OwnerSelects
  <2> QED BY <1>9, <2>3, <2>4 DEF Unsubscribe
<1>10. CASE \/ \E k \in LineKinds : AppendLine(k)
            \/ Project \/ SetMark \/ ProjectFails
            \/ ReadMark \/ Backfill \/ MarkBackfilled \/ EndPass \/ PassFails
            \/ ReadRows \/ ReadFails \/ UNCHANGED vars
  <2>1. UNCHANGED <<conn, selectors, subs>>
    BY <1>10 DEF AppendLine, Project, SetMark, ProjectFails, ReadMark, Backfill, MarkBackfilled,
       EndPass, PassFails, ReadRows, ReadFails, vars, connVars
  <2> QED BY <1>4, <2>1
<1>11. CASE \E d \in Clients :
               \/ Receive(d)
               \/ \E v \in SubIds, s \in Streams : Create(d, v, s) \/ Update(d, v, s)
               \/ \E l \in Lines : Deliver(d, l) \/ Shed(d, l)
  <2>1. UNCHANGED <<conn, selectors, subs>>
    BY <1>11 DEF Receive, Create, Update, Deliver, Shed, connVars
  <2> QED BY <1>4, <2>1
<1>12. CASE \E l \in Lines : Abort(l) \/ \E seen \in BOOLEAN : Broadcast(l, seen)
  <2>1. UNCHANGED <<conn, selectors, subs>>
    BY <1>12 DEF Abort, Broadcast, connVars
  <2> QED BY <1>4, <2>1
<1> QED BY <1>5, <1>6, <1>8, <1>9, <1>10, <1>11, <1>12 DEF Next

\* Who holds the lock keeps it, or lets it go: nobody connects, leaves or
\* broadcasts meanwhile.
LEMMA HolderStep ==
    ASSUME GapInv, [Next]_vars
    PROVE  /\ HolderIsOpen'
           /\ \/ hold' = Nothing
              \/ /\ hold # Nothing /\ hold'.stream = hold.stream
                 /\ hold'.barrier = hold.barrier
              \/ /\ log' = log /\ hold'.barrier = Len(log[hold'.stream])
<1> DEFINE Goal ==
      /\ HolderIsOpen'
      /\ \/ hold' = Nothing
         \/ /\ hold # Nothing /\ hold'.stream = hold.stream
            /\ hold'.barrier = hold.barrier
         \/ /\ log' = log /\ hold'.barrier = Len(log[hold'.stream])
<1>1. /\ HolderIsOpen /\ conn \in [Clients -> {"closed", "open", "leaving"}]
      /\ hold # Nothing => hold \in HoldRecord
  BY RecordFacts DEF GapInv, FileInv, TypeInv, TypeOK
<1>2. ASSUME hold' = hold, hold # Nothing => conn' = conn
      PROVE  Goal
  <2>1. CASE hold = Nothing
    BY <1>2, <2>1 DEF HolderIsOpen
  <2>2. CASE hold # Nothing
    BY <1>1, <1>2, <2>2 DEF HolderIsOpen
  <2> QED BY <2>1, <2>2
<1>3. ASSUME NEW c \in Clients, NEW u \in SubIds, NEW s \in Streams,
             Create(c, u, s) \/ Update(c, u, s)
      PROVE  Goal
  <2>1. conn' = conn /\ log' = log /\ conn[c] = "open"
    BY <1>3 DEF Create, Update, Calls, connVars, fileVars
  <2>2. hold'.client = c /\ hold'.stream = s /\ hold'.barrier = Len(log[s])
    BY <1>3 DEF Create, Update, Work
  <2> QED BY <2>1, <2>2 DEF HolderIsOpen
<1>4. CASE ReadRows
  <2>1. hold \in HoldRecord /\ hold # Nothing /\ conn' = conn
    BY <1>1, <1>4 DEF ReadRows, Free, connVars
  <2>2. hold'.client = hold.client /\ hold'.stream = hold.stream /\ hold'.barrier = hold.barrier
    BY <1>4, <2>1 DEF ReadRows, HoldRecord
  <2> QED BY <1>1, <2>1, <2>2 DEF HolderIsOpen
<1>5. CASE ReadFails \/ Register \/ Crash
  BY <1>5 DEF ReadFails, Register, Crash, HolderIsOpen
<1>6. CASE \/ \E k \in LineKinds : AppendLine(k)
           \/ Project \/ SetMark \/ ProjectFails
           \/ ReadMark \/ Backfill \/ MarkBackfilled \/ EndPass \/ PassFails
           \/ UNCHANGED vars
  <2>1. hold' = hold /\ conn' = conn
    BY <1>6 DEF AppendLine, Project, SetMark, ProjectFails, ReadMark, Backfill, MarkBackfilled,
       EndPass, PassFails, vars, connVars
  <2> QED BY <1>2, <2>1
<1>7. CASE \E d \in Clients : Connect(d) \/ Unregister(d)
  <2>1. hold' = hold /\ hold = Nothing
    BY <1>7 DEF Connect, Unregister, Free
  <2> QED BY <1>2, <2>1
<1>8. ASSUME NEW d \in Clients, DropSubs(d)
      PROVE  Goal
  <2>1. hold' = hold /\ conn' = [conn EXCEPT ![d] = "closed"] /\ conn[d] = "leaving"
    BY <1>8 DEF DropSubs
  <2>2. CASE hold # Nothing
    <3>1. conn[hold.client] = "open" /\ hold.client \in Clients
      BY <1>1, <2>2 DEF HolderIsOpen, HoldRecord
    <3>2. conn'[hold.client] = "open"
      BY <1>1, <2>1, <3>1
    <3> QED BY <2>1, <2>2, <3>2 DEF HolderIsOpen
  <2>3. CASE hold = Nothing
    BY <1>2, <2>1, <2>3
  <2> QED BY <2>2, <2>3
<1>9. CASE \E d \in Clients :
              \/ Receive(d) \/ \E u \in SubIds : Unsubscribe(d, u)
              \/ \E l \in Lines : Deliver(d, l) \/ Shed(d, l)
  <2>1. hold' = hold /\ conn' = conn
    BY <1>9 DEF Receive, Unsubscribe, Deliver, Shed, connVars
  <2> QED BY <1>2, <2>1
<1>10. CASE \E l \in Lines : Abort(l) \/ \E seen \in BOOLEAN : Broadcast(l, seen)
  <2>1. hold' = hold /\ conn' = conn
    BY <1>10 DEF Abort, Broadcast, connVars
  <2> QED BY <1>2, <2>1
<1> QED BY <1>3, <1>4, <1>5, <1>6, <1>7, <1>8, <1>9, <1>10 DEF Next

LEMMA HoldMissesStep ==
    ASSUME GapInv, [Next]_vars
    PROVE  HoldMisses'
<1>1. TypeInv /\ TypeInv' /\ LogKept /\ FileInv
  BY Grows, TypeStep DEF GapInv, FileInv
<1>2. SUFFICES ASSUME hold' # Nothing,
                      NEW i \in hold'.barrier + 1..Len(log'[hold'.stream])
               PROVE  Quiet(log[hold.stream][i])'
  BY DEF HoldMisses
<1>3. PICK s \in Streams : s = hold'.stream
  BY <1>1, <1>2 DEF TypeInv, TypeOK
<1>4. hold'.barrier \in Nat
  BY <1>1, <1>2 DEF TypeInv, TypeOK
<1>5. Len(log[s]) \in Nat /\ Len(log'[s]) \in Nat
  BY <1>1, <1>4 DEF TypeInv, TypeOK
<1>6. i \in 1..Len(log'[s])
  BY <1>2, <1>4, <1>5, <1>3
<1>7. hold # Nothing /\ hold.stream = s /\ hold'.barrier = hold.barrier
  BY <1>2, <1>5, <1>4, <1>3, HolderStep
<1>8. CASE i > Len(log[s])
  <2>1. Quiet(log[s][i])'
    BY <1>1, <1>6, <1>8, NewIsQuiet
  <2>2. (log[hold.stream][i])' = (log[s][i])'
    BY <1>3
  <2> QED BY <2>1, <2>2 DEF Quiet, Unsent
<1>9. CASE i <= Len(log[s])
  <2>1. i \in 1..Len(log[s]) /\ i \in hold.barrier + 1..Len(log[s])
    BY <1>2, <1>4, <1>5, <1>6, <1>7, <1>9, <1>3
  <2>2. PICK l \in 1..Last : l = log[s][i] /\ s \in rollout[l]
    BY <1>1, <2>1 DEF FileInv, RowsBelong
  <2>3. Quiet(l)
    BY <1>7, <2>1, <2>2 DEF GapInv, HoldMisses
  <2>4. \A seen \in BOOLEAN : ~Broadcast(l, seen)
    BY <1>7 DEF Broadcast, Free
  <2>5. Quiet(l)'
    BY <1>1, <2>2, <2>3, <2>4, QuietKept
  <2>6. (log[hold.stream][i])' = l
    BY <1>1, <1>3, <2>1, <2>2 DEF LogKept
  <2> QED BY <2>5, <2>6 DEF Quiet, Unsent
<1> QED BY <1>5, <1>6, <1>8, <1>9

LEMMA LiveStep ==
    ASSUME GapInv, [Next]_vars
    PROVE  LiveLeavesNoGap'
<1>1. TypeInv /\ TypeInv' /\ FileInv /\ OwnerSelects /\ HoldMisses /\ LiveLeavesNoGap
  BY TypeStep DEF GapInv, FileInv
<1>2. SUFFICES ASSUME NEW u \in SubIds, subs'[u] # Nothing, conn'[subs'[u].owner] = "open",
                      subs'[u].stream \in Sessions,
                      NEW i \in subs'[u].from + 1..Len(log'[subs'[u].stream])
               PROVE  LET l == log'[subs'[u].stream][i]
                          c == subs'[u].owner
                      IN  \/ l \in got'[c] \cup frames'[c] \cup shed'[c] \cup silent'
                          \/ l \in fanout' \/ (writer' # "idle" /\ l = Last')
  BY DEF LiveLeavesNoGap, Unsent
<1>3. CASE subs'[u] = subs[u]
  <2>1. PICK c \in Clients, s \in Sessions, n \in Nat :
           c = subs[u].owner /\ s = subs[u].stream /\ n = subs[u].from
    BY <1>1, <1>2, <1>3, SubFacts
  <2>2. conn'[c] = "open"
    BY <1>2, <1>3, <2>1
  <2>3. conn[c] = "open"
    BY <1>2, <1>3, <2>1, SubKept
  <2>4. s \in selectors[c]
    BY <1>1, <1>2, <1>3, <2>3, <2>1 DEF OwnerSelects
  <2>5. NoGap(c, s, n)
    BY <1>1, <1>2, <1>3, <2>3, <2>1 DEF LiveLeavesNoGap, NoGap, Told, Quiet
  <2>6. NoGap(c, s, n)'
    BY <1>1, <2>2, <2>3, <2>4, <2>5, NoGapKept
  <2>7. \A j \in subs[u].from + 1..Len(log'[subs[u].stream]) :
           LET l == log'[subs[u].stream][j]
               d == subs[u].owner
           IN  \/ l \in got'[d] \cup frames'[d] \cup shed'[d] \cup silent'
               \/ l \in fanout' \/ (writer' # "idle" /\ l = Last')
    BY <1>3, <2>6, <2>1 DEF NoGap, Told, Quiet, Unsent
  <2> QED BY <1>2, <1>3, <2>7
<1>4. CASE Register /\ subs'[u] # subs[u]
  <2>1. hold # Nothing /\ hold \in HoldRecord
    BY <1>1, <1>4, RecordFacts DEF Register, Free
  <2>2. subs'[u].stream = hold.stream /\ subs'[u].from = hold.barrier
    BY <1>1, <1>4, <2>1 DEF Register, TypeInv, TypeOK
  <2>3. UNCHANGED <<log, rollout, writer, fanout, silent>> /\ Last' = Last
    BY <1>4 DEF Register, fileVars, Last
  <2>4. Quiet(log[hold.stream][i])
    BY <1>1, <1>2, <2>1, <2>2, <2>3 DEF HoldMisses
  <2> QED BY <2>2, <2>3, <2>4 DEF Quiet, Unsent
<1>5. \/ Register
      \/ subs'[u] = subs[u]
  <2>1. CASE \/ \E k \in LineKinds : AppendLine(k)
             \/ Project \/ SetMark \/ ProjectFails
             \/ ReadMark \/ Backfill \/ MarkBackfilled \/ EndPass \/ PassFails
             \/ ReadRows \/ ReadFails \/ UNCHANGED vars
    BY <2>1 DEF AppendLine, Project, SetMark, ProjectFails, ReadMark, Backfill, MarkBackfilled,
       EndPass, PassFails, ReadRows, ReadFails, vars, connVars
  <2>2. CASE Crash
    BY <1>2, <2>2 DEF Crash
  <2>3. ASSUME NEW d \in Clients,
               \/ Connect(d) \/ Unregister(d) \/ Receive(d)
               \/ \E v \in SubIds, s \in Streams : Create(d, v, s) \/ Update(d, v, s)
               \/ \E l \in Lines : Deliver(d, l) \/ Shed(d, l)
        PROVE  subs'[u] = subs[u]
    BY <2>3 DEF Connect, Unregister, Receive, Create, Update, Deliver, Shed, connVars
  <2>4. ASSUME NEW d \in Clients, DropSubs(d) \/ \E v \in SubIds : Unsubscribe(d, v)
        PROVE  subs'[u] = subs[u]
    <3>1. CASE DropSubs(d)
      BY <1>2, <3>1 DEF DropSubs
    <3>2. CASE \E v \in SubIds : Unsubscribe(d, v)
      BY <1>1, <1>2, <3>2 DEF Unsubscribe, TypeInv, TypeOK
    <3> QED BY <2>4, <3>1, <3>2
  <2>5. CASE \E l \in Lines : Abort(l) \/ \E seen \in BOOLEAN : Broadcast(l, seen)
    BY <2>5 DEF Abort, Broadcast, connVars
  <2> QED BY <2>1, <2>2, <2>3, <2>4, <2>5 DEF Next
<1> QED BY <1>3, <1>4, <1>5

LEMMA GapInit == Init => GapInv
<1> SUFFICES ASSUME Init PROVE GapInv
  OBVIOUS
<1>1. FileInv /\ \A u \in SubIds : subs[u] = Nothing
  BY FileInit DEF Init
<1>2. hold = Nothing
  BY DEF Init
<1> QED BY <1>1, <1>2 DEF GapInv, OwnerSelects, HolderIsOpen, HoldMisses, LiveLeavesNoGap

LEMMA GapStep == GapInv /\ [Next]_vars => GapInv'
<1> SUFFICES ASSUME GapInv, [Next]_vars PROVE GapInv'
  OBVIOUS
<1>1. FileInv' /\ TypeInv'
  BY FileStep DEF GapInv, FileInv
<1> QED BY <1>1, OwnerStep, HolderStep, HoldMissesStep, LiveStep DEF GapInv

\* A subscription misses nothing between its barrier and its first live event,
\* for any number of clients, subscriptions and sessions: the lock is held from
\* the barrier to the registration (subscription.rs:4-9, 122-204).
THEOREM LeavesNoGap == Spec => []LiveLeavesNoGap
<1>1. GapInv => LiveLeavesNoGap
  BY DEF GapInv
<1> QED BY <1>1, GapInit, GapStep, PTL DEF Spec
=============================================================================
