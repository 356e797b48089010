---------------------------- MODULE AgentsProofs ----------------------------
(***************************************************************************)
(* Proofs about Agents, for any senders, stops, limit and bounds.          *)
(***************************************************************************)
EXTENDS Agents, SequenceTheorems, TLAPS

(***************************************************************************)
(* Lists.                                                                  *)
(***************************************************************************)
Elems(s) == {s[i] : i \in 1..Len(s)}
Once(s) == \A i, j \in 1..Len(s) : s[i] = s[j] => i = j

LEMMA TailFacts ==
    ASSUME NEW S, NEW s \in Seq(S), s # <<>>
    PROVE  /\ Head(s) \in S /\ Tail(s) \in Seq(S)
           /\ Len(s) > 1 => Tail(s) # <<>>
           /\ Elems(Tail(s)) \subseteq Elems(s) /\ Head(s) \in Elems(s)
           /\ Once(s) => Once(Tail(s)) /\ Head(s) \notin Elems(Tail(s))
<1>1. /\ Head(s) \in S /\ Tail(s) \in Seq(S) /\ Len(Tail(s)) = Len(s) - 1
      /\ \A i \in 1..Len(Tail(s)) : Tail(s)[i] = s[i + 1]
  BY HeadTailProperties
<1>2. Len(s) \in Nat /\ Len(s) >= 1 /\ Head(s) = s[1]
  OBVIOUS
<1>3. Len(s) > 1 => Tail(s) # <<>>
  <2>1. Len(s) > 1 => Len(Tail(s)) # 0
    BY <1>1, <1>2
  <2>2. Len(<<>>) = 0
    OBVIOUS
  <2>3. Tail(s) = <<>> => Len(Tail(s)) = Len(<<>>)
    OBVIOUS
  <2> QED BY <2>1, <2>2, <2>3
<1>4. Elems(Tail(s)) \subseteq Elems(s) /\ Head(s) \in Elems(s)
  BY <1>1, <1>2 DEF Elems
<1>5. ASSUME Once(s)
      PROVE  Once(Tail(s)) /\ Head(s) \notin Elems(Tail(s))
  <2>1. \A i, j \in 1..Len(Tail(s)) : Tail(s)[i] = Tail(s)[j] => i + 1 = j + 1
    BY <1>1, <1>2, <1>5 DEF Once
  <2>2. \A i \in 1..Len(Tail(s)) : Tail(s)[i] # s[1]
    BY <1>1, <1>2, <1>5 DEF Once
  <2> QED BY <1>2, <2>1, <2>2 DEF Once, Elems
<1> QED BY <1>1, <1>3, <1>4, <1>5

LEMMA AppendFacts ==
    ASSUME NEW S, NEW s \in Seq(S), NEW x \in S
    PROVE  /\ Append(s, x) \in Seq(S)
           /\ Elems(Append(s, x)) = Elems(s) \cup {x}
           /\ Once(s) /\ x \notin Elems(s) => Once(Append(s, x))
<1>1. /\ Append(s, x) \in Seq(S) /\ Len(Append(s, x)) = Len(s) + 1 /\ Len(s) \in Nat
      /\ \A i \in 1..Len(s) : Append(s, x)[i] = s[i]
      /\ Append(s, x)[Len(s) + 1] = x
  BY AppendProperties
<1>2. \A i \in 1..(Len(s) + 1) : i \in 1..Len(s) \/ i = Len(s) + 1
  BY <1>1
<1>3. Elems(Append(s, x)) = Elems(s) \cup {x}
  <2>1. Elems(Append(s, x)) \subseteq Elems(s) \cup {x}
    BY <1>1, <1>2 DEF Elems
  <2>2. Elems(s) \cup {x} \subseteq Elems(Append(s, x))
    <3>1. x \in Elems(Append(s, x))
      <4>1. Len(s) + 1 \in 1..Len(Append(s, x))
        BY <1>1
      <4> QED BY <1>1, <4>1 DEF Elems
    <3>2. \A i \in 1..Len(s) : i \in 1..Len(Append(s, x)) /\ s[i] = Append(s, x)[i]
      BY <1>1
    <3> QED BY <3>1, <3>2 DEF Elems
  <2> QED BY <2>1, <2>2
<1>4. ASSUME Once(s), x \notin Elems(s)
      PROVE  Once(Append(s, x))
  BY <1>1, <1>2, <1>4 DEF Once, Elems
<1> QED BY <1>1, <1>3, <1>4

(***************************************************************************)
(* Types.  To type what is taken from the front of a drained list one has  *)
(* to know that it is not empty.                                           *)
(***************************************************************************)
AgentTypes ==
    /\ status \in {"spawning", "running"} \cup Final
    /\ closing \in BOOLEAN
    /\ told \in [Msgs -> Nat] /\ notified \in BOOLEAN
MailTypes == mail \in Seq(Senders) /\ queue \in Seq(Msgs)
ActorTypes == act \in Msgs \cup {None} /\ latest \in Msgs \cup {None}
RegTypes == reg \in Msgs \cup {None} /\ snap \subseteq Msgs /\ cancelled \subseteq Msgs
GateTypes ==
    /\ gate \in Starts \cup {Nobody}
    /\ \A p \in Starts : pc[p] \in {"launch", "chained"} => gate = p
TurnTypes ==
    /\ task \in [Msgs -> {None, "aborted", "over"} \cup Running]
    /\ res \in [Msgs -> {None, "completed", "failed", "interrupted"}]
    /\ token \in [Msgs -> Msgs \cup {None}]
    /\ aborting \subseteq Msgs
Places ==
    {None, "hook", "send", "check", "drain", "chain", "chained", "accept", "reserve", "launch",
     "mark", "list", "fail", "stop", "close", "signal", "force", "take", "tell", "done"}
PcTypes == pc \in [Procs -> Places]
HandTypes == hand \in [Starts -> Seq(Msgs)]
StopTypes ==
    /\ dropped \in [Stoppers -> BOOLEAN]
    /\ was \in [Stoppers -> BOOLEAN] /\ had \in [Stoppers -> BOOLEAN]
    /\ target \in [Stoppers -> Msgs \cup {None}]
    /\ taken \in [Stoppers -> Msgs \cup {None}]
HistTypes ==
    /\ silent \subseteq Msgs /\ orphan \subseteq Msgs
    /\ gaveUp \in BOOLEAN /\ mishaps \in 0..MaxMishaps
Handed ==
    \A p \in Starts : pc[p] \in {"hook", "reserve", "launch", "chained"} => hand[p] # <<>>
Resulted == \A t \in Msgs : task[t] \in {"report", "reportClosed"} => res[t] # None
Chains == \A p \in Starts : pc[p] = "chained" => p \in Posts

TypeInv ==
    /\ AgentTypes /\ MailTypes /\ ActorTypes /\ RegTypes /\ GateTypes /\ TurnTypes /\ PcTypes
    /\ HandTypes /\ StopTypes /\ HistTypes /\ Handed /\ Resulted /\ Chains

LEMMA TypeInvImplies == TypeInv => TypeOK
BY DEF TypeInv, TypeOK, AgentTypes, MailTypes, ActorTypes, RegTypes, GateTypes, TurnTypes,
       PcTypes, HandTypes, StopTypes, HistTypes, Places

Kind ==
    /\ Starts \subseteq Procs /\ Stoppers \subseteq Procs /\ Senders \subseteq Starts
    /\ Starter \in Starts /\ Starter \in Stoppers /\ Starter \in Msgs /\ Senders \subseteq Msgs
    /\ \A t \in Msgs : Post(t) \in Posts /\ Post(t) \in Starts /\ Post(t) # Starter
    /\ Starter \notin Senders /\ Nobody \notin Starts /\ None \notin Msgs

LEMMA Kinds == Kind
BY AgentsAssumption DEF Kind, Msgs, Stoppers, Posts, Drains, Starts, Procs

LEMMA InitTypes == Init => TypeInv
<1> SUFFICES ASSUME Init PROVE TypeInv
  OBVIOUS
<1>0. Kind
  BY Kinds
<1>1. AgentTypes /\ ActorTypes /\ RegTypes
  BY DEF Init, AgentTypes, ActorTypes, RegTypes
<1>8. MailTypes /\ Resulted
  BY DEF Init, MailTypes, Resulted, None
<1>7. TurnTypes
  BY DEF Init, TurnTypes
<1>2. StopTypes /\ HistTypes
  <2>1. MaxMishaps \in 0..MaxMishaps
    BY AgentsAssumption
  <2> QED BY <2>1 DEF Init, StopTypes, HistTypes
<1>3. \A p \in Procs : pc[p] \in {"hook", "send", "stop", None}
  BY DEF Init
<1>4. PcTypes /\ HandTypes
  <2>1. pc \in [Procs -> Places]
    BY <1>3 DEF Init, Places
  <2>2. hand \in [Starts -> Seq(Msgs)]
    BY <1>0 DEF Init, Kind
  <2> QED BY <2>1, <2>2 DEF PcTypes, HandTypes
<1>5. GateTypes /\ Chains
  BY <1>0, <1>3 DEF Init, Kind, GateTypes, Chains, None
<1>6. Handed
  <2>1. \A p \in Starts : pc[p] = "hook" => p = Starter
    BY <1>0 DEF Init, Kind, None
  <2> QED BY <1>0, <1>3, <2>1 DEF Init, Kind, Handed, None
<1> QED BY <1>1, <1>2, <1>4, <1>5, <1>6, <1>7, <1>8 DEF TypeInv

LEMMA SendTypes ==
    ASSUME TypeInv, NEW s \in Senders, Send(s)
    PROVE  TypeInv'
<1>0. Kind
  BY Kinds
<1>1. /\ AgentTypes' /\ ActorTypes' /\ RegTypes' /\ TurnTypes' /\ HandTypes' /\ StopTypes'
      /\ HistTypes' /\ Resulted'
  BY DEF TypeInv, AgentTypes, ActorTypes, RegTypes, TurnTypes, HandTypes, StopTypes, HistTypes,
     Resulted, Send, agent, actor, registry, turns, stops, history
<1>2. MailTypes'
  BY <1>0 DEF Kind, TypeInv, MailTypes, HandTypes, Handed, Send, Goto, agent, actor, registry,
     turns, stops, history
<1>3. GateTypes'
  BY <1>0 DEF Kind, TypeInv, GateTypes, PcTypes, Send, Goto, agent, actor, registry, turns, stops,
     history
<1>4. PcTypes'
  BY <1>0 DEF Kind, TypeInv, PcTypes, HandTypes, Places, None, Send, Goto, agent, actor, registry,
     turns, stops, history
<1>5. Handed'
  BY <1>0 DEF Kind, TypeInv, Handed, HandTypes, PcTypes, MailTypes, Send, Goto, agent, actor,
     registry, turns, stops, history
<1>6. Chains'
  BY <1>0 DEF Kind, TypeInv, Chains, PcTypes, Send, Goto, agent, actor, registry, turns, stops,
     history
<1> QED BY <1>1, <1>2, <1>3, <1>4, <1>5, <1>6 DEF TypeInv

LEMMA CheckTypes ==
    ASSUME TypeInv, NEW s \in Senders, Check(s)
    PROVE  TypeInv'
<1>0. Kind
  BY Kinds
<1>1. /\ AgentTypes' /\ MailTypes' /\ ActorTypes' /\ RegTypes' /\ TurnTypes' /\ HandTypes'
      /\ StopTypes' /\ HistTypes' /\ Resulted'
  BY DEF TypeInv, AgentTypes, MailTypes, ActorTypes, RegTypes, TurnTypes, HandTypes, StopTypes,
     HistTypes, Resulted, Check, agent, actor, registry, turns, stops, history
<1>2. GateTypes'
  BY <1>0 DEF Kind, TypeInv, GateTypes, PcTypes, Check, Goto, agent, actor, registry, turns,
     stops, history
<1>3. PcTypes'
  BY <1>0 DEF Kind, TypeInv, PcTypes, HandTypes, Places, None, Check, Goto, agent, actor,
     registry, turns, stops, history
<1>4. Handed'
  BY <1>0 DEF Kind, TypeInv, Handed, HandTypes, PcTypes, MailTypes, Check, Goto, agent, actor,
     registry, turns, stops, history
<1>5. Chains'
  BY <1>0 DEF Kind, TypeInv, Chains, PcTypes, Check, Goto, agent, actor, registry, turns, stops,
     history
<1> QED BY <1>1, <1>2, <1>3, <1>4, <1>5 DEF TypeInv

LEMMA DrainTypes ==
    ASSUME TypeInv, NEW p \in Starts, Drain(p)
    PROVE  TypeInv'
<1>0. Kind
  BY Kinds
<1>1. /\ AgentTypes' /\ ActorTypes' /\ RegTypes' /\ TurnTypes' /\ StopTypes' /\ HistTypes'
      /\ Resulted'
  BY DEF TypeInv, AgentTypes, ActorTypes, RegTypes, TurnTypes, StopTypes, HistTypes, Resulted,
     Drain, agent, actor, registry, turns, stops, history
<1>2. MailTypes'
  BY <1>0 DEF Kind, TypeInv, MailTypes, HandTypes, Handed, Drain, Goto, agent, actor, registry,
     turns, stops, history
<1>3. GateTypes'
  BY <1>0 DEF Kind, TypeInv, GateTypes, PcTypes, Drain, Goto, agent, actor, registry, turns,
     stops, history
<1>4. PcTypes'
  BY <1>0 DEF Kind, TypeInv, PcTypes, HandTypes, Places, None, Drain, Goto, agent, actor,
     registry, turns, stops, history
<1>5. HandTypes'
  BY <1>0 DEF Kind, TypeInv, HandTypes, MailTypes, Handed, Drain, Goto, agent, actor, registry,
     turns, stops, history
<1>6. Handed'
  BY <1>0 DEF Kind, TypeInv, Handed, HandTypes, PcTypes, MailTypes, Drain, Goto, agent, actor,
     registry, turns, stops, history
<1>7. Chains'
  BY <1>0 DEF Kind, TypeInv, Chains, PcTypes, Drain, Goto, agent, actor, registry, turns, stops,
     history
<1> QED BY <1>1, <1>2, <1>3, <1>4, <1>5, <1>6, <1>7 DEF TypeInv

LEMMA RefuseTypes ==
    ASSUME TypeInv, NEW p \in Starts, Refuse(p)
    PROVE  TypeInv'
<1>0. Kind
  BY Kinds
<1>1. /\ AgentTypes' /\ MailTypes' /\ ActorTypes' /\ RegTypes' /\ TurnTypes' /\ StopTypes'
      /\ Resulted'
  BY DEF TypeInv, AgentTypes, MailTypes, ActorTypes, RegTypes, TurnTypes, StopTypes, Resulted,
     Refuse, agent, actor, registry, turns, stops
<1>2. GateTypes'
  BY <1>0 DEF Kind, TypeInv, GateTypes, PcTypes, Refuse, Unlisted, Refused, agent, actor,
     registry, turns, stops, Goto
<1>3. PcTypes'
  BY <1>0 DEF Kind, TypeInv, PcTypes, HandTypes, Places, None, Refuse, Unlisted, Refused, agent,
     actor, registry, turns, stops, Goto
<1>4. HandTypes'
  BY <1>0 DEF Kind, TypeInv, HandTypes, MailTypes, Handed, Refuse, Unlisted, Refused, agent,
     actor, registry, turns, stops, Goto
<1>5. HistTypes'
  BY <1>0 DEF Kind, TypeInv, HistTypes, ActorTypes, RegTypes, Refuse, Unlisted, Refused, agent,
     actor, registry, turns, stops, Goto
<1>6. Handed'
  BY <1>0 DEF Kind, TypeInv, Handed, HandTypes, PcTypes, MailTypes, Refuse, Unlisted, Refused,
     agent, actor, registry, turns, stops, Goto
<1>7. Chains'
  BY <1>0 DEF Kind, TypeInv, Chains, PcTypes, Refuse, Unlisted, Refused, agent, actor, registry,
     turns, stops, Goto
<1> QED BY <1>1, <1>2, <1>3, <1>4, <1>5, <1>6, <1>7 DEF TypeInv

LEMMA EnqueueTypes ==
    ASSUME TypeInv, NEW p \in Starts, Enqueue(p)
    PROVE  TypeInv'
<1>0. Kind
  BY Kinds
<1>1. ActorTypes' /\ RegTypes' /\ TurnTypes' /\ StopTypes' /\ HistTypes' /\ Resulted'
  BY DEF TypeInv, ActorTypes, RegTypes, TurnTypes, StopTypes, HistTypes, Resulted, Enqueue, actor,
     registry, turns, stops, history
<1>2. AgentTypes'
  BY <1>0 DEF Kind, TypeInv, AgentTypes, StopTypes, TurnTypes, Resulted, None, Final, Enqueue,
     Unlisted, Busy, NextOf, actor, registry, turns, stops, history, Goto
<1>3. MailTypes'
  BY <1>0 DEF Kind, TypeInv, MailTypes, HandTypes, Handed, Enqueue, Unlisted, Busy, NextOf, actor,
     registry, turns, stops, history, Goto
<1>4. GateTypes'
  BY <1>0 DEF Kind, TypeInv, GateTypes, PcTypes, Enqueue, Unlisted, Busy, NextOf, actor, registry,
     turns, stops, history, Goto
<1>5. PcTypes'
  BY <1>0 DEF Kind, TypeInv, PcTypes, HandTypes, Places, None, Enqueue, Unlisted, Busy, NextOf,
     actor, registry, turns, stops, history, Goto
<1>6. HandTypes'
  BY <1>0 DEF Kind, TypeInv, HandTypes, MailTypes, Handed, Enqueue, Unlisted, Busy, NextOf, actor,
     registry, turns, stops, history, Goto
<1>7. Handed'
  <2>1. hand[p] \in Seq(Msgs) /\ hand[p] # <<>>
    BY DEF TypeInv, HandTypes, Handed, Enqueue
  <2>2. Len(hand[p]) > 1 => Tail(hand[p]) # <<>>
    BY <2>1, TailFacts
  <2>3. /\ pc' = [pc EXCEPT ![p] = CASE p = Starter -> "mark"
                                      [] p # Starter /\ Len(hand[p]) > 1 -> "reserve"
                                      [] OTHER -> "done"]
        /\ hand' = [hand EXCEPT ![p] = Tail(@)]
    BY DEF Enqueue, NextOf, Goto
  <2> QED BY <1>0, <2>2, <2>3 DEF Kind, TypeInv, Handed, PcTypes, HandTypes
<1>8. Chains'
  BY <1>0 DEF Kind, TypeInv, Chains, PcTypes, Enqueue, Unlisted, Busy, NextOf, actor, registry,
     turns, stops, history, Goto
<1> QED BY <1>1, <1>2, <1>3, <1>4, <1>5, <1>6, <1>7, <1>8 DEF TypeInv

LEMMA BeginTypes ==
    ASSUME TypeInv, NEW p \in Starts, Begin(p)
    PROVE  TypeInv'
<1>0. Kind
  BY Kinds
<1>1. /\ AgentTypes' /\ MailTypes' /\ RegTypes' /\ TurnTypes' /\ HandTypes' /\ StopTypes'
      /\ Resulted'
  BY DEF TypeInv, AgentTypes, MailTypes, RegTypes, TurnTypes, HandTypes, StopTypes, Resulted,
     Begin, agent, registry, turns, stops
<1>2. ActorTypes'
  BY <1>0 DEF Kind, TypeInv, ActorTypes, HandTypes, MailTypes, Handed, Begin, Unlisted, Busy,
     Held, Activated, Goto, agent, registry, turns, stops, Forget
<1>3. GateTypes'
  BY <1>0 DEF Kind, TypeInv, GateTypes, PcTypes, Begin, Unlisted, Busy, Held, Activated, Goto,
     agent, registry, turns, stops, Forget
<1>4. PcTypes'
  BY <1>0 DEF Kind, TypeInv, PcTypes, HandTypes, Places, None, Begin, Unlisted, Busy, Held,
     Activated, Goto, agent, registry, turns, stops, Forget
<1>5. HistTypes'
  BY <1>0 DEF Kind, TypeInv, HistTypes, ActorTypes, RegTypes, Begin, Unlisted, Busy, Held,
     Activated, Goto, agent, registry, turns, stops, Forget
<1>6. Handed'
  BY <1>0 DEF Kind, TypeInv, Handed, HandTypes, PcTypes, MailTypes, Begin, Unlisted, Busy, Held,
     Activated, Goto, agent, registry, turns, stops, Forget
<1>7. Chains'
  BY <1>0 DEF Kind, TypeInv, Chains, PcTypes, Begin, Unlisted, Busy, Held, Activated, Goto, agent,
     registry, turns, stops, Forget
<1> QED BY <1>1, <1>2, <1>3, <1>4, <1>5, <1>6, <1>7 DEF TypeInv

LEMMA TakeBackTypes ==
    ASSUME TypeInv, NEW p \in Starts, TakeBack(p)
    PROVE  TypeInv'
<1>0. Kind
  BY Kinds
<1>1. AgentTypes' /\ MailTypes' /\ RegTypes' /\ TurnTypes' /\ StopTypes' /\ Resulted'
  BY DEF TypeInv, AgentTypes, MailTypes, RegTypes, TurnTypes, StopTypes, Resulted, TakeBack,
     agent, registry, turns, stops
<1>2. ActorTypes'
  BY <1>0 DEF Kind, TypeInv, ActorTypes, HandTypes, MailTypes, Handed, TakeBack, Refused, Mishap,
     agent, registry, turns, stops, Goto
<1>3. GateTypes'
  BY <1>0 DEF Kind, TypeInv, GateTypes, PcTypes, TakeBack, Refused, Mishap, agent, registry,
     turns, stops, Goto
<1>4. PcTypes'
  BY <1>0 DEF Kind, TypeInv, PcTypes, HandTypes, Places, None, TakeBack, Refused, Mishap, agent,
     registry, turns, stops, Goto
<1>5. HandTypes'
  BY <1>0 DEF Kind, TypeInv, HandTypes, MailTypes, Handed, TakeBack, Refused, Mishap, agent,
     registry, turns, stops, Goto
<1>6. HistTypes'
  BY <1>0, AgentsAssumption DEF Kind, TypeInv, HistTypes, ActorTypes, RegTypes, TakeBack, Refused,
     Mishap, agent, registry, turns, stops, Goto
<1>7. Handed'
  BY <1>0 DEF Kind, TypeInv, Handed, HandTypes, PcTypes, MailTypes, TakeBack, Refused, Mishap,
     agent, registry, turns, stops, Goto
<1>8. Chains'
  BY <1>0 DEF Kind, TypeInv, Chains, PcTypes, TakeBack, Refused, Mishap, agent, registry, turns,
     stops, Goto
<1> QED BY <1>1, <1>2, <1>3, <1>4, <1>5, <1>6, <1>7, <1>8 DEF TypeInv

LEMMA LaunchTypes ==
    ASSUME TypeInv, NEW p \in Starts, Launch(p)
    PROVE  TypeInv'
<1>0. Kind
  BY Kinds
<1>1. MailTypes' /\ ActorTypes' /\ StopTypes'
  BY DEF TypeInv, MailTypes, ActorTypes, StopTypes, Launch, actor, stops
<1>2. AgentTypes'
  BY <1>0 DEF Kind, TypeInv, AgentTypes, StopTypes, TurnTypes, Resulted, None, Final, Launch,
     Launched, NextOf, actor, stops, Deregister, Goto
<1>3. RegTypes'
  BY <1>0 DEF Kind, TypeInv, RegTypes, HandTypes, MailTypes, Handed, Launch, Launched, NextOf,
     actor, stops, Deregister, Goto
<1>4. GateTypes'
  BY <1>0 DEF Kind, TypeInv, GateTypes, PcTypes, Launch, Launched, NextOf, actor, stops,
     Deregister, Goto
<1>5. TurnTypes'
  BY <1>0 DEF Kind, TypeInv, TurnTypes, HandTypes, MailTypes, RegTypes, Handed, Running, Reported,
     None, Launch, Launched, NextOf, actor, stops, Deregister, Goto
<1>6. PcTypes'
  BY <1>0 DEF Kind, TypeInv, PcTypes, HandTypes, Places, None, Launch, Launched, NextOf, actor,
     stops, Deregister, Goto
<1>7. HandTypes'
  BY <1>0 DEF Kind, TypeInv, HandTypes, MailTypes, Handed, Launch, Launched, NextOf, actor, stops,
     Deregister, Goto
<1>8. HistTypes'
  BY <1>0 DEF Kind, TypeInv, HistTypes, ActorTypes, RegTypes, Launch, Launched, NextOf, actor,
     stops, Deregister, Goto
<1>9. Handed'
  <2>1. hand[p] \in Seq(Msgs) /\ hand[p] # <<>>
    BY DEF TypeInv, HandTypes, Handed, Launch
  <2>2. Len(hand[p]) > 1 => Tail(hand[p]) # <<>>
    BY <2>1, TailFacts
  <2>3. /\ pc' = [pc EXCEPT ![p] = CASE p = Starter -> "mark"
                                      [] p # Starter /\ Len(hand[p]) > 1 -> "reserve"
                                      [] OTHER -> "done"]
        /\ hand' = [hand EXCEPT ![p] = Tail(@)]
    BY DEF Launch, NextOf, Goto
  <2> QED BY <1>0, <2>2, <2>3 DEF Kind, TypeInv, Handed, PcTypes, HandTypes
<1>10. Chains'
  BY <1>0 DEF Kind, TypeInv, Chains, PcTypes, Launch, Launched, NextOf, actor, stops, Deregister,
     Goto
<1>11. Resulted'
  BY <1>0 DEF Kind, TypeInv, Resulted, TurnTypes, None, Launch, Launched, NextOf, actor, stops,
     Deregister, Goto
<1> QED BY <1>1, <1>2, <1>3, <1>4, <1>5, <1>6, <1>7, <1>8, <1>9, <1>10, <1>11 DEF TypeInv

LEMMA HookTypes ==
    ASSUME TypeInv, Hook
    PROVE  TypeInv'
<1>0. Kind
  BY Kinds
<1>1. /\ AgentTypes' /\ MailTypes' /\ ActorTypes' /\ RegTypes' /\ TurnTypes' /\ HandTypes'
      /\ StopTypes' /\ HistTypes' /\ Resulted'
  BY DEF TypeInv, AgentTypes, MailTypes, ActorTypes, RegTypes, TurnTypes, HandTypes, StopTypes,
     HistTypes, Resulted, Hook, agent, actor, registry, turns, stops, history
<1>2. GateTypes'
  BY <1>0 DEF Kind, TypeInv, GateTypes, PcTypes, Hook, Goto, agent, actor, registry, turns, stops,
     history
<1>3. PcTypes'
  BY <1>0 DEF Kind, TypeInv, PcTypes, HandTypes, Places, None, Hook, Goto, agent, actor, registry,
     turns, stops, history
<1>4. Handed'
  BY <1>0 DEF Kind, TypeInv, Handed, HandTypes, PcTypes, MailTypes, Hook, Goto, agent, actor,
     registry, turns, stops, history
<1>5. Chains'
  BY <1>0 DEF Kind, TypeInv, Chains, PcTypes, Hook, Goto, agent, actor, registry, turns, stops,
     history
<1> QED BY <1>1, <1>2, <1>3, <1>4, <1>5 DEF TypeInv

LEMMA StartedTypes ==
    ASSUME TypeInv, Started
    PROVE  TypeInv'
<1>0. Kind
  BY Kinds
<1>1. /\ AgentTypes' /\ MailTypes' /\ ActorTypes' /\ RegTypes' /\ TurnTypes' /\ HandTypes'
      /\ StopTypes' /\ HistTypes' /\ Resulted'
  BY DEF TypeInv, AgentTypes, MailTypes, ActorTypes, RegTypes, TurnTypes, HandTypes, StopTypes,
     HistTypes, Resulted, Started, agent, actor, registry, turns, stops, history
<1>2. GateTypes'
  BY <1>0 DEF Kind, TypeInv, GateTypes, PcTypes, Started, Goto, AfterStart, agent, actor,
     registry, turns, stops, history
<1>3. PcTypes'
  BY <1>0 DEF Kind, TypeInv, PcTypes, HandTypes, Places, None, Started, Goto, AfterStart, agent,
     actor, registry, turns, stops, history
<1>4. Handed'
  BY <1>0 DEF Kind, TypeInv, Handed, HandTypes, PcTypes, MailTypes, Started, Goto, AfterStart,
     agent, actor, registry, turns, stops, history
<1>5. Chains'
  BY <1>0 DEF Kind, TypeInv, Chains, PcTypes, Started, Goto, AfterStart, agent, actor, registry,
     turns, stops, history
<1> QED BY <1>1, <1>2, <1>3, <1>4, <1>5 DEF TypeInv

LEMMA ListTypes ==
    ASSUME TypeInv, List
    PROVE  TypeInv'
<1>0. Kind
  BY Kinds
<1>1. /\ MailTypes' /\ ActorTypes' /\ RegTypes' /\ TurnTypes' /\ HandTypes' /\ StopTypes'
      /\ HistTypes' /\ Resulted'
  BY DEF TypeInv, MailTypes, ActorTypes, RegTypes, TurnTypes, HandTypes, StopTypes, HistTypes,
     Resulted, List, actor, registry, turns, stops, history
<1>2. AgentTypes'
  BY <1>0 DEF Kind, TypeInv, AgentTypes, StopTypes, TurnTypes, Resulted, None, Final, List, Goto,
     actor, registry, turns, stops, history
<1>3. GateTypes'
  BY <1>0 DEF Kind, TypeInv, GateTypes, PcTypes, List, Goto, actor, registry, turns, stops,
     history
<1>4. PcTypes'
  BY <1>0 DEF Kind, TypeInv, PcTypes, HandTypes, Places, None, List, Goto, actor, registry, turns,
     stops, history
<1>5. Handed'
  BY <1>0 DEF Kind, TypeInv, Handed, HandTypes, PcTypes, MailTypes, List, Goto, actor, registry,
     turns, stops, history
<1>6. Chains'
  BY <1>0 DEF Kind, TypeInv, Chains, PcTypes, List, Goto, actor, registry, turns, stops, history
<1> QED BY <1>1, <1>2, <1>3, <1>4, <1>5, <1>6 DEF TypeInv

LEMMA FailStartupTypes ==
    ASSUME TypeInv, FailStartup
    PROVE  TypeInv'
<1>0. Kind
  BY Kinds
<1>1. MailTypes' /\ RegTypes' /\ TurnTypes' /\ HandTypes' /\ StopTypes' /\ Resulted'
  BY DEF TypeInv, MailTypes, RegTypes, TurnTypes, HandTypes, StopTypes, Resulted, FailStartup,
     registry, turns, stops
<1>2. AgentTypes'
  BY <1>0 DEF Kind, TypeInv, AgentTypes, StopTypes, TurnTypes, Resulted, None, Final, FailStartup,
     Goto, Forget, registry, turns, stops
<1>3. ActorTypes'
  BY <1>0 DEF Kind, TypeInv, ActorTypes, HandTypes, MailTypes, Handed, FailStartup, Goto, Forget,
     registry, turns, stops
<1>4. GateTypes'
  BY <1>0 DEF Kind, TypeInv, GateTypes, PcTypes, FailStartup, Goto, Forget, registry, turns, stops
<1>5. PcTypes'
  BY <1>0 DEF Kind, TypeInv, PcTypes, HandTypes, Places, None, FailStartup, Goto, Forget,
     registry, turns, stops
<1>6. HistTypes'
  BY <1>0 DEF Kind, TypeInv, HistTypes, ActorTypes, RegTypes, FailStartup, Goto, Forget, registry,
     turns, stops
<1>7. Handed'
  BY <1>0 DEF Kind, TypeInv, Handed, HandTypes, PcTypes, MailTypes, FailStartup, Goto, Forget,
     registry, turns, stops
<1>8. Chains'
  BY <1>0 DEF Kind, TypeInv, Chains, PcTypes, FailStartup, Goto, Forget, registry, turns, stops
<1> QED BY <1>1, <1>2, <1>3, <1>4, <1>5, <1>6, <1>7, <1>8 DEF TypeInv

LEMMA EnterTypes ==
    ASSUME TypeInv, NEW t \in Msgs, Enter(t)
    PROVE  TypeInv'
<1>0. Kind
  BY Kinds
<1>1. /\ AgentTypes' /\ MailTypes' /\ ActorTypes' /\ GateTypes' /\ PcTypes' /\ HandTypes'
      /\ StopTypes' /\ HistTypes' /\ Handed' /\ Chains'
  BY DEF TypeInv, AgentTypes, MailTypes, ActorTypes, GateTypes, PcTypes, HandTypes, StopTypes,
     HistTypes, Handed, Chains, Enter, agent, actor, procs, stops, history
<1>2. RegTypes'
  BY <1>0 DEF Kind, TypeInv, RegTypes, HandTypes, MailTypes, Handed, Enter, Step, agent, actor,
     procs, stops, history
<1>3. TurnTypes'
  BY <1>0 DEF Kind, TypeInv, TurnTypes, HandTypes, MailTypes, RegTypes, Handed, Running, Reported,
     None, Enter, Step, agent, actor, procs, stops, history
<1>4. Resulted'
  BY <1>0 DEF Kind, TypeInv, Resulted, TurnTypes, None, Enter, Step, agent, actor, procs, stops,
     history
<1> QED BY <1>1, <1>2, <1>3, <1>4 DEF TypeInv

LEMMA EndQueryTypes ==
    ASSUME TypeInv, NEW t \in Msgs, EndQuery(t)
    PROVE  TypeInv'
<1>0. Kind
  BY Kinds
<1>1. /\ AgentTypes' /\ MailTypes' /\ ActorTypes' /\ RegTypes' /\ GateTypes' /\ PcTypes'
      /\ HandTypes' /\ StopTypes' /\ Handed' /\ Chains'
  BY DEF TypeInv, AgentTypes, MailTypes, ActorTypes, RegTypes, GateTypes, PcTypes, HandTypes,
     StopTypes, Handed, Chains, EndQuery, agent, actor, registry, procs, stops
<1>2. TurnTypes'
  BY <1>0 DEF Kind, TypeInv, TurnTypes, HandTypes, MailTypes, RegTypes, Handed, Running, Reported,
     None, EndQuery, Step, Mishap, agent, actor, registry, procs, stops
<1>3. HistTypes'
  BY <1>0, AgentsAssumption DEF Kind, TypeInv, HistTypes, ActorTypes, RegTypes, EndQuery, Step,
     Mishap, agent, actor, registry, procs, stops
<1>4. Resulted'
  BY <1>0 DEF Kind, TypeInv, Resulted, TurnTypes, None, EndQuery, Step, Mishap, agent, actor,
     registry, procs, stops
<1> QED BY <1>1, <1>2, <1>3, <1>4 DEF TypeInv

LEMMA ReportTypes ==
    ASSUME TypeInv, NEW t \in Msgs, Report(t)
    PROVE  TypeInv'
<1>0. Kind
  BY Kinds
<1>1. /\ MailTypes' /\ ActorTypes' /\ RegTypes' /\ GateTypes' /\ PcTypes' /\ HandTypes' /\ StopTypes'
      /\ HistTypes' /\ Handed' /\ Chains'
  BY DEF TypeInv, MailTypes, ActorTypes, RegTypes, GateTypes, PcTypes, HandTypes, StopTypes,
     HistTypes, Handed, Chains, Report, actor, registry, procs, stops, history
<1>2. AgentTypes'
  BY <1>0 DEF Kind, TypeInv, AgentTypes, StopTypes, TurnTypes, Resulted, None, Final, Report,
     Step, actor, registry, procs, stops, history
<1>3. TurnTypes'
  BY <1>0 DEF Kind, TypeInv, TurnTypes, HandTypes, MailTypes, RegTypes, Handed, Running, Reported,
     None, Report, Step, actor, registry, procs, stops, history
<1>4. Resulted'
  BY <1>0 DEF Kind, TypeInv, Resulted, TurnTypes, None, Report, Step, actor, registry, procs,
     stops, history
<1> QED BY <1>1, <1>2, <1>3, <1>4 DEF TypeInv

LEMMA MergeTypes ==
    ASSUME TypeInv, NEW t \in Msgs, Merge(t)
    PROVE  TypeInv'
<1>0. Kind
  BY Kinds
<1>1. /\ AgentTypes' /\ MailTypes' /\ RegTypes' /\ GateTypes' /\ PcTypes' /\ HandTypes' /\ StopTypes'
      /\ Handed' /\ Chains'
  BY DEF TypeInv, AgentTypes, MailTypes, RegTypes, GateTypes, PcTypes, HandTypes, StopTypes,
     Handed, Chains, Merge, agent, registry, procs, stops
<1>2. ActorTypes'
  BY <1>0 DEF Kind, TypeInv, ActorTypes, HandTypes, MailTypes, Handed, Merge, Step, Forget, agent,
     registry, procs, stops
<1>3. TurnTypes'
  BY <1>0 DEF Kind, TypeInv, TurnTypes, HandTypes, MailTypes, RegTypes, Handed, Running, Reported,
     None, Merge, Step, Forget, agent, registry, procs, stops
<1>4. HistTypes'
  BY <1>0 DEF Kind, TypeInv, HistTypes, ActorTypes, RegTypes, Merge, Step, Forget, agent,
     registry, procs, stops
<1>5. Resulted'
  BY <1>0 DEF Kind, TypeInv, Resulted, TurnTypes, None, Merge, Step, Forget, agent, registry,
     procs, stops
<1> QED BY <1>1, <1>2, <1>3, <1>4, <1>5 DEF TypeInv

LEMMA ClearHandlesTypes ==
    ASSUME TypeInv, NEW t \in Msgs, ClearHandles(t)
    PROVE  TypeInv'
<1>0. Kind
  BY Kinds
<1>1. AgentTypes' /\ MailTypes' /\ ActorTypes' /\ HandTypes' /\ StopTypes'
  BY DEF TypeInv, AgentTypes, MailTypes, ActorTypes, HandTypes, StopTypes, ClearHandles, agent,
     actor, stops
<1>2. RegTypes'
  BY <1>0 DEF Kind, TypeInv, RegTypes, HandTypes, MailTypes, Handed, ClearHandles, Step,
     Deregister, Unhandled, Goto, agent, actor, stops
<1>3. GateTypes'
  BY <1>0 DEF Kind, TypeInv, GateTypes, PcTypes, ClearHandles, Step, Deregister, Unhandled, Goto,
     agent, actor, stops
<1>4. TurnTypes'
  BY <1>0 DEF Kind, TypeInv, TurnTypes, HandTypes, MailTypes, RegTypes, Handed, Running, Reported,
     None, ClearHandles, Step, Deregister, Unhandled, Goto, agent, actor, stops
<1>5. PcTypes'
  BY <1>0 DEF Kind, TypeInv, PcTypes, HandTypes, Places, None, ClearHandles, Step, Deregister,
     Unhandled, Goto, agent, actor, stops
<1>6. HistTypes'
  BY <1>0 DEF Kind, TypeInv, HistTypes, ActorTypes, RegTypes, ClearHandles, Step, Deregister,
     Unhandled, Goto, agent, actor, stops
<1>7. Handed'
  BY <1>0 DEF Kind, TypeInv, Handed, HandTypes, PcTypes, MailTypes, ClearHandles, Step,
     Deregister, Unhandled, Goto, agent, actor, stops
<1>8. Chains'
  BY <1>0 DEF Kind, TypeInv, Chains, PcTypes, ClearHandles, Step, Deregister, Unhandled, Goto,
     agent, actor, stops
<1>9. Resulted'
  BY <1>0 DEF Kind, TypeInv, Resulted, TurnTypes, None, ClearHandles, Step, Deregister, Unhandled,
     Goto, agent, actor, stops
<1> QED BY <1>1, <1>2, <1>3, <1>4, <1>5, <1>6, <1>7, <1>8, <1>9 DEF TypeInv

LEMMA TaskStopsTypes ==
    ASSUME TypeInv, NEW t \in Msgs, TaskStops(t)
    PROVE  TypeInv'
<1>0. Kind
  BY Kinds
<1>1. /\ AgentTypes' /\ MailTypes' /\ ActorTypes' /\ GateTypes' /\ PcTypes' /\ HandTypes'
      /\ StopTypes' /\ HistTypes' /\ Handed' /\ Chains'
  BY DEF TypeInv, AgentTypes, MailTypes, ActorTypes, GateTypes, PcTypes, HandTypes, StopTypes,
     HistTypes, Handed, Chains, TaskStops, agent, actor, procs, stops, history
<1>2. RegTypes'
  BY <1>0 DEF Kind, TypeInv, RegTypes, HandTypes, MailTypes, Handed, TaskStops, Unhandled, agent,
     actor, procs, stops, history
<1>3. TurnTypes'
  BY <1>0 DEF Kind, TypeInv, TurnTypes, HandTypes, MailTypes, RegTypes, Handed, Running, Reported,
     None, TaskStops, Unhandled, agent, actor, procs, stops, history
<1>4. Resulted'
  BY <1>0 DEF Kind, TypeInv, Resulted, TurnTypes, None, TaskStops, Unhandled, agent, actor, procs,
     stops, history
<1> QED BY <1>1, <1>2, <1>3, <1>4 DEF TypeInv

LEMMA PostTurnTypes ==
    ASSUME TypeInv, NEW t \in Msgs, PostTurn(t)
    PROVE  TypeInv'
<1>0. Kind
  BY Kinds
<1>1. /\ AgentTypes' /\ MailTypes' /\ ActorTypes' /\ RegTypes' /\ TurnTypes' /\ HandTypes'
      /\ StopTypes' /\ Resulted'
  BY DEF TypeInv, AgentTypes, MailTypes, ActorTypes, RegTypes, TurnTypes, HandTypes, StopTypes,
     Resulted, PostTurn, agent, actor, registry, turns, stops
<1>2. GateTypes'
  BY <1>0 DEF Kind, TypeInv, GateTypes, PcTypes, PostTurn, Goto, Saved, agent, actor, registry,
     turns, stops
<1>3. PcTypes'
  BY <1>0 DEF Kind, TypeInv, PcTypes, HandTypes, Places, None, PostTurn, Goto, Saved, agent,
     actor, registry, turns, stops
<1>4. HistTypes'
  BY <1>0 DEF Kind, TypeInv, HistTypes, ActorTypes, RegTypes, PostTurn, Goto, Saved, agent, actor,
     registry, turns, stops
<1>5. Handed'
  BY <1>0 DEF Kind, TypeInv, Handed, HandTypes, PcTypes, MailTypes, PostTurn, Goto, Saved, agent,
     actor, registry, turns, stops
<1>6. Chains'
  BY <1>0 DEF Kind, TypeInv, Chains, PcTypes, PostTurn, Goto, Saved, agent, actor, registry,
     turns, stops
<1> QED BY <1>1, <1>2, <1>3, <1>4, <1>5, <1>6 DEF TypeInv

LEMMA PopNothingTypes ==
    ASSUME TypeInv, NEW t \in Msgs, PopNothing(t)
    PROVE  TypeInv'
<1>0. Kind
  BY Kinds
<1>1. /\ AgentTypes' /\ MailTypes' /\ ActorTypes' /\ RegTypes' /\ TurnTypes' /\ HandTypes'
      /\ StopTypes' /\ HistTypes' /\ Resulted'
  BY DEF TypeInv, AgentTypes, MailTypes, ActorTypes, RegTypes, TurnTypes, HandTypes, StopTypes,
     HistTypes, Resulted, PopNothing, agent, actor, registry, turns, stops, history
<1>2. GateTypes'
  BY <1>0 DEF Kind, TypeInv, GateTypes, PcTypes, PopNothing, Goto, agent, actor, registry, turns,
     stops, history
<1>3. PcTypes'
  BY <1>0 DEF Kind, TypeInv, PcTypes, HandTypes, Places, None, PopNothing, Goto, agent, actor,
     registry, turns, stops, history
<1>4. Handed'
  BY <1>0 DEF Kind, TypeInv, Handed, HandTypes, PcTypes, MailTypes, PopNothing, Goto, agent,
     actor, registry, turns, stops, history
<1>5. Chains'
  BY <1>0 DEF Kind, TypeInv, Chains, PcTypes, PopNothing, Goto, agent, actor, registry, turns,
     stops, history
<1> QED BY <1>1, <1>2, <1>3, <1>4, <1>5 DEF TypeInv

LEMMA PopTypes ==
    ASSUME TypeInv, NEW t \in Msgs, Pop(t)
    PROVE  TypeInv'
<1>0. Kind
  BY Kinds
<1>1. AgentTypes' /\ TurnTypes' /\ StopTypes' /\ Resulted'
  BY DEF TypeInv, AgentTypes, TurnTypes, StopTypes, Resulted, Pop, agent, turns, stops
<1>2. MailTypes'
  BY <1>0 DEF Kind, TypeInv, MailTypes, HandTypes, Handed, Pop, Activated, Goto, agent, turns,
     stops, Forget
<1>3. ActorTypes'
  BY <1>0 DEF Kind, TypeInv, ActorTypes, HandTypes, MailTypes, Handed, Pop, Activated, Goto,
     agent, turns, stops, Forget
<1>4. RegTypes'
  BY <1>0 DEF Kind, TypeInv, RegTypes, HandTypes, MailTypes, Handed, Pop, Activated, Goto, agent,
     turns, stops, Forget
<1>5. GateTypes'
  BY <1>0 DEF Kind, TypeInv, GateTypes, PcTypes, Pop, Activated, Goto, agent, turns, stops, Forget
<1>6. PcTypes'
  BY <1>0 DEF Kind, TypeInv, PcTypes, HandTypes, Places, None, Pop, Activated, Goto, agent, turns,
     stops, Forget
<1>7. HandTypes'
  BY <1>0 DEF Kind, TypeInv, HandTypes, MailTypes, Handed, Pop, Activated, Goto, agent, turns,
     stops, Forget
<1>8. HistTypes'
  BY <1>0 DEF Kind, TypeInv, HistTypes, ActorTypes, RegTypes, Pop, Activated, Goto, agent, turns,
     stops, Forget
<1>9. Handed'
  BY <1>0 DEF Kind, TypeInv, Handed, HandTypes, PcTypes, MailTypes, Pop, Activated, Goto, agent,
     turns, stops, Forget
<1>10. Chains'
  BY <1>0 DEF Kind, TypeInv, Chains, PcTypes, Pop, Activated, Goto, agent, turns, stops, Forget
<1> QED BY <1>1, <1>2, <1>3, <1>4, <1>5, <1>6, <1>7, <1>8, <1>9, <1>10 DEF TypeInv

LEMMA ChainedTypes ==
    ASSUME TypeInv, NEW t \in Msgs, Chained(t)
    PROVE  TypeInv'
<1>0. Kind
  BY Kinds
<1>1. AgentTypes' /\ MailTypes' /\ ActorTypes' /\ StopTypes'
  BY DEF TypeInv, AgentTypes, MailTypes, ActorTypes, StopTypes, Chained, agent, actor, stops
<1>2. RegTypes'
  BY <1>0 DEF Kind, TypeInv, RegTypes, HandTypes, MailTypes, Handed, Chained, Launched, Goto,
     agent, actor, stops, Deregister
<1>3. GateTypes'
  BY <1>0 DEF Kind, TypeInv, GateTypes, PcTypes, Chained, Launched, Goto, agent, actor, stops,
     Deregister
<1>4. TurnTypes'
  BY <1>0 DEF Kind, TypeInv, TurnTypes, HandTypes, MailTypes, RegTypes, Handed, Running, Reported,
     None, Chained, Launched, Goto, agent, actor, stops, Deregister
<1>5. PcTypes'
  BY <1>0 DEF Kind, TypeInv, PcTypes, HandTypes, Places, None, Chained, Launched, Goto, agent,
     actor, stops, Deregister
<1>6. HandTypes'
  BY <1>0 DEF Kind, TypeInv, HandTypes, MailTypes, Handed, Chained, Launched, Goto, agent, actor,
     stops, Deregister
<1>7. HistTypes'
  BY <1>0 DEF Kind, TypeInv, HistTypes, ActorTypes, RegTypes, Chained, Launched, Goto, agent,
     actor, stops, Deregister
<1>8. Handed'
  BY <1>0 DEF Kind, TypeInv, Handed, HandTypes, PcTypes, MailTypes, Chained, Launched, Goto,
     agent, actor, stops, Deregister
<1>9. Chains'
  BY <1>0 DEF Kind, TypeInv, Chains, PcTypes, Chained, Launched, Goto, agent, actor, stops,
     Deregister
<1>10. Resulted'
  BY <1>0 DEF Kind, TypeInv, Resulted, TurnTypes, None, Chained, Launched, Goto, agent, actor,
     stops, Deregister
<1> QED BY <1>1, <1>2, <1>3, <1>4, <1>5, <1>6, <1>7, <1>8, <1>9, <1>10 DEF TypeInv

LEMMA AcceptTypes ==
    ASSUME TypeInv, NEW t \in Msgs, Accept(t)
    PROVE  TypeInv'
<1>0. Kind
  BY Kinds
<1>1. /\ AgentTypes' /\ MailTypes' /\ ActorTypes' /\ RegTypes' /\ TurnTypes' /\ HandTypes'
      /\ StopTypes' /\ Resulted'
  BY DEF TypeInv, AgentTypes, MailTypes, ActorTypes, RegTypes, TurnTypes, HandTypes, StopTypes,
     Resulted, Accept, agent, actor, registry, turns, stops
<1>2. GateTypes'
  BY <1>0 DEF Kind, TypeInv, GateTypes, PcTypes, Accept, Goto, AfterQueue, agent, actor, registry,
     turns, stops, Unlisted
<1>3. PcTypes'
  BY <1>0 DEF Kind, TypeInv, PcTypes, HandTypes, Places, None, Accept, Goto, AfterQueue, agent,
     actor, registry, turns, stops, Unlisted
<1>4. HistTypes'
  BY <1>0 DEF Kind, TypeInv, HistTypes, ActorTypes, RegTypes, Accept, Goto, AfterQueue, agent,
     actor, registry, turns, stops, Unlisted
<1>5. Handed'
  BY <1>0 DEF Kind, TypeInv, Handed, HandTypes, PcTypes, MailTypes, Accept, Goto, AfterQueue,
     agent, actor, registry, turns, stops, Unlisted
<1>6. Chains'
  BY <1>0 DEF Kind, TypeInv, Chains, PcTypes, Accept, Goto, AfterQueue, agent, actor, registry,
     turns, stops, Unlisted
<1> QED BY <1>1, <1>2, <1>3, <1>4, <1>5, <1>6 DEF TypeInv

LEMMA CloseTypes ==
    ASSUME TypeInv, NEW k \in Stoppers, Close(k)
    PROVE  TypeInv'
<1>0. Kind
  BY Kinds
<1>1. /\ MailTypes' /\ ActorTypes' /\ RegTypes' /\ TurnTypes' /\ HandTypes' /\ HistTypes'
      /\ Resulted'
  BY DEF TypeInv, MailTypes, ActorTypes, RegTypes, TurnTypes, HandTypes, HistTypes, Resulted,
     Close, actor, registry, turns, history
<1>2. AgentTypes'
  BY <1>0 DEF Kind, TypeInv, AgentTypes, StopTypes, TurnTypes, Resulted, None, Final, Close, Goto,
     actor, registry, turns, history
<1>3. GateTypes'
  BY <1>0 DEF Kind, TypeInv, GateTypes, PcTypes, Close, Goto, actor, registry, turns, history
<1>4. PcTypes'
  BY <1>0 DEF Kind, TypeInv, PcTypes, HandTypes, Places, None, Close, Goto, actor, registry,
     turns, history
<1>5. StopTypes'
  BY <1>0 DEF Kind, TypeInv, StopTypes, ActorTypes, RegTypes, Close, Goto, actor, registry, turns,
     history
<1>6. Handed'
  BY <1>0 DEF Kind, TypeInv, Handed, HandTypes, PcTypes, MailTypes, Close, Goto, actor, registry,
     turns, history
<1>7. Chains'
  BY <1>0 DEF Kind, TypeInv, Chains, PcTypes, Close, Goto, actor, registry, turns, history
<1> QED BY <1>1, <1>2, <1>3, <1>4, <1>5, <1>6, <1>7 DEF TypeInv

LEMMA InterruptAllTypes ==
    ASSUME TypeInv, NEW k \in Stoppers, InterruptAll(k)
    PROVE  TypeInv'
<1>0. Kind
  BY Kinds
<1>1. /\ AgentTypes' /\ MailTypes' /\ ActorTypes' /\ RegTypes' /\ TurnTypes' /\ HandTypes'
      /\ HistTypes' /\ Resulted'
  BY DEF TypeInv, AgentTypes, MailTypes, ActorTypes, RegTypes, TurnTypes, HandTypes, HistTypes,
     Resulted, InterruptAll, agent, actor, registry, turns, history
<1>2. GateTypes'
  BY <1>0 DEF Kind, TypeInv, GateTypes, PcTypes, InterruptAll, Goto, agent, actor, registry,
     turns, history
<1>3. PcTypes'
  BY <1>0 DEF Kind, TypeInv, PcTypes, HandTypes, Places, None, InterruptAll, Goto, agent, actor,
     registry, turns, history
<1>4. StopTypes'
  BY <1>0 DEF Kind, TypeInv, StopTypes, ActorTypes, RegTypes, InterruptAll, Goto, agent, actor,
     registry, turns, history
<1>5. Handed'
  BY <1>0 DEF Kind, TypeInv, Handed, HandTypes, PcTypes, MailTypes, InterruptAll, Goto, agent,
     actor, registry, turns, history
<1>6. Chains'
  BY <1>0 DEF Kind, TypeInv, Chains, PcTypes, InterruptAll, Goto, agent, actor, registry, turns,
     history
<1> QED BY <1>1, <1>2, <1>3, <1>4, <1>5, <1>6 DEF TypeInv

LEMMA SignalTypes ==
    ASSUME TypeInv, NEW k \in Stoppers, Signal(k)
    PROVE  TypeInv'
<1>0. Kind
  BY Kinds
<1>1. /\ AgentTypes' /\ MailTypes' /\ ActorTypes' /\ TurnTypes' /\ HandTypes' /\ HistTypes'
      /\ Resulted'
  BY DEF TypeInv, AgentTypes, MailTypes, ActorTypes, TurnTypes, HandTypes, HistTypes, Resulted,
     Signal, agent, actor, turns, history
<1>2. RegTypes'
  BY <1>0 DEF Kind, TypeInv, RegTypes, HandTypes, MailTypes, Handed, Signal, CancelledBy, Goto,
     agent, actor, turns, history
<1>3. GateTypes'
  BY <1>0 DEF Kind, TypeInv, GateTypes, PcTypes, Signal, CancelledBy, Goto, agent, actor, turns,
     history
<1>4. PcTypes'
  BY <1>0 DEF Kind, TypeInv, PcTypes, HandTypes, Places, None, Signal, CancelledBy, Goto, agent,
     actor, turns, history
<1>5. StopTypes'
  BY <1>0 DEF Kind, TypeInv, StopTypes, ActorTypes, RegTypes, Signal, CancelledBy, Goto, agent,
     actor, turns, history
<1>6. Handed'
  BY <1>0 DEF Kind, TypeInv, Handed, HandTypes, PcTypes, MailTypes, Signal, CancelledBy, Goto,
     agent, actor, turns, history
<1>7. Chains'
  BY <1>0 DEF Kind, TypeInv, Chains, PcTypes, Signal, CancelledBy, Goto, agent, actor, turns,
     history
<1> QED BY <1>1, <1>2, <1>3, <1>4, <1>5, <1>6, <1>7 DEF TypeInv

LEMMA ForceOutTypes ==
    ASSUME TypeInv, NEW k \in Stoppers, ForceOut(k)
    PROVE  TypeInv'
<1>0. Kind
  BY Kinds
<1>1. AgentTypes' /\ MailTypes' /\ ActorTypes' /\ HandTypes' /\ StopTypes' /\ Resulted'
  BY DEF TypeInv, AgentTypes, MailTypes, ActorTypes, HandTypes, StopTypes, Resulted, ForceOut,
     agent, actor, stops
<1>2. RegTypes'
  BY <1>0 DEF Kind, TypeInv, RegTypes, HandTypes, MailTypes, Handed, ForceOut, Unwound, Mishap,
     Aborted, Goto, agent, actor, stops
<1>3. GateTypes'
  BY <1>0 DEF Kind, TypeInv, GateTypes, PcTypes, ForceOut, Unwound, Mishap, Aborted, Goto, agent,
     actor, stops
<1>4. TurnTypes'
  BY <1>0 DEF Kind, TypeInv, TurnTypes, HandTypes, MailTypes, RegTypes, Handed, Running, Reported,
     None, ForceOut, Unwound, Mishap, Aborted, Goto, agent, actor, stops
<1>5. PcTypes'
  BY <1>0 DEF Kind, TypeInv, PcTypes, HandTypes, Places, None, ForceOut, Unwound, Mishap, Aborted,
     Goto, agent, actor, stops
<1>6. HistTypes'
  <2>1. mishaps' \in 0..MaxMishaps
    BY AgentsAssumption DEF TypeInv, HistTypes, ForceOut, Mishap
  <2> QED BY <2>1 DEF TypeInv, HistTypes, ForceOut
<1>7. Handed'
  BY <1>0 DEF Kind, TypeInv, Handed, HandTypes, PcTypes, MailTypes, ForceOut, Unwound, Mishap,
     Aborted, Goto, agent, actor, stops
<1>8. Chains'
  BY <1>0 DEF Kind, TypeInv, Chains, PcTypes, ForceOut, Unwound, Mishap, Aborted, Goto, agent,
     actor, stops
<1> QED BY <1>1, <1>2, <1>3, <1>4, <1>5, <1>6, <1>7, <1>8 DEF TypeInv

LEMMA TakeTypes ==
    ASSUME TypeInv, NEW k \in Stoppers, Take(k)
    PROVE  TypeInv'
<1>0. Kind
  BY Kinds
<1>1. AgentTypes' /\ MailTypes' /\ RegTypes' /\ TurnTypes' /\ HandTypes' /\ Resulted'
  BY DEF TypeInv, AgentTypes, MailTypes, RegTypes, TurnTypes, HandTypes, Resulted, Take, agent,
     registry, turns
<1>2. ActorTypes'
  BY <1>0 DEF Kind, TypeInv, ActorTypes, HandTypes, MailTypes, Handed, Take, Goto, agent,
     registry, turns
<1>3. GateTypes'
  BY <1>0 DEF Kind, TypeInv, GateTypes, PcTypes, Take, Goto, agent, registry, turns
<1>4. PcTypes'
  BY <1>0 DEF Kind, TypeInv, PcTypes, HandTypes, Places, None, Take, Goto, agent, registry, turns
<1>5. StopTypes'
  BY <1>0 DEF Kind, TypeInv, StopTypes, ActorTypes, RegTypes, Take, Goto, agent, registry, turns
<1>6. HistTypes'
  BY <1>0 DEF Kind, TypeInv, HistTypes, ActorTypes, RegTypes, Take, Goto, agent, registry, turns
<1>7. Handed'
  BY <1>0 DEF Kind, TypeInv, Handed, HandTypes, PcTypes, MailTypes, Take, Goto, agent, registry,
     turns
<1>8. Chains'
  BY <1>0 DEF Kind, TypeInv, Chains, PcTypes, Take, Goto, agent, registry, turns
<1> QED BY <1>1, <1>2, <1>3, <1>4, <1>5, <1>6, <1>7, <1>8 DEF TypeInv

LEMMA InterruptedTypes ==
    ASSUME TypeInv, NEW k \in Stoppers, Interrupted(k)
    PROVE  TypeInv'
<1>0. Kind
  BY Kinds
<1>1. /\ MailTypes' /\ ActorTypes' /\ RegTypes' /\ TurnTypes' /\ HandTypes' /\ HistTypes'
      /\ Resulted'
  BY DEF TypeInv, MailTypes, ActorTypes, RegTypes, TurnTypes, HandTypes, HistTypes, Resulted,
     Interrupted, actor, registry, turns, history
<1>2. AgentTypes'
  BY <1>0 DEF Kind, TypeInv, AgentTypes, StopTypes, TurnTypes, Resulted, None, Final, Interrupted,
     Goto, Settled, actor, registry, turns, history
<1>3. GateTypes'
  BY <1>0 DEF Kind, TypeInv, GateTypes, PcTypes, Interrupted, Goto, Settled, actor, registry,
     turns, history
<1>4. PcTypes'
  BY <1>0 DEF Kind, TypeInv, PcTypes, HandTypes, Places, None, Interrupted, Goto, Settled, actor,
     registry, turns, history
<1>5. StopTypes'
  BY <1>0 DEF Kind, TypeInv, StopTypes, ActorTypes, RegTypes, Interrupted, Goto, Settled, actor,
     registry, turns, history
<1>6. Handed'
  BY <1>0 DEF Kind, TypeInv, Handed, HandTypes, PcTypes, MailTypes, Interrupted, Goto, Settled,
     actor, registry, turns, history
<1>7. Chains'
  BY <1>0 DEF Kind, TypeInv, Chains, PcTypes, Interrupted, Goto, Settled, actor, registry, turns,
     history
<1> QED BY <1>1, <1>2, <1>3, <1>4, <1>5, <1>6, <1>7 DEF TypeInv

LEMMA ClosedTypes ==
    ASSUME TypeInv, NEW k \in Stoppers, Closed(k)
    PROVE  TypeInv'
<1>0. Kind
  BY Kinds
<1>1. /\ MailTypes' /\ ActorTypes' /\ RegTypes' /\ TurnTypes' /\ HandTypes' /\ HistTypes'
      /\ Resulted'
  BY DEF TypeInv, MailTypes, ActorTypes, RegTypes, TurnTypes, HandTypes, HistTypes, Resulted,
     Closed, actor, registry, turns, history
<1>2. AgentTypes'
  <2>1. CASE Tells(k)
    <3>1. taken[k] \in Msgs /\ status' = "closed" /\ UNCHANGED <<closing, notified>>
          /\ told' = [told EXCEPT ![taken[k]] = @ + 1]
      BY <2>1 DEF Closed, Tells, TypeInv, StopTypes
    <3> QED BY <3>1 DEF TypeInv, AgentTypes, Final
  <2>2. CASE ~Tells(k)
    BY <2>2 DEF Closed, TypeInv, AgentTypes
  <2> QED BY <2>1, <2>2
<1>3. GateTypes'
  BY <1>0 DEF Kind, TypeInv, GateTypes, PcTypes, Closed, Tells, Goto, Settled, actor, registry,
     turns, history
<1>4. PcTypes'
  BY <1>0 DEF Kind, TypeInv, PcTypes, HandTypes, Places, None, Closed, Tells, Goto, Settled,
     actor, registry, turns, history
<1>5. StopTypes'
  BY <1>0 DEF Kind, TypeInv, StopTypes, ActorTypes, RegTypes, Closed, Tells, Goto, Settled, actor,
     registry, turns, history
<1>6. Handed'
  BY <1>0 DEF Kind, TypeInv, Handed, HandTypes, PcTypes, MailTypes, Closed, Tells, Goto, Settled,
     actor, registry, turns, history
<1>7. Chains'
  BY <1>0 DEF Kind, TypeInv, Chains, PcTypes, Closed, Tells, Goto, Settled, actor, registry,
     turns, history
<1> QED BY <1>1, <1>2, <1>3, <1>4, <1>5, <1>6, <1>7 DEF TypeInv

LEMMA StutterTypes == ASSUME TypeInv, UNCHANGED vars PROVE TypeInv'
BY DEF TypeInv, AgentTypes, MailTypes, ActorTypes, RegTypes, GateTypes, TurnTypes, PcTypes,
       HandTypes, StopTypes, HistTypes, Handed, Resulted, Chains, vars, agent, actor, registry,
       turns, procs, stops, history

LEMMA StepTypes == ASSUME TypeInv, [Next]_vars PROVE TypeInv'
<1>0. Kind
  BY Kinds
<1>1. CASE \E s \in Senders : Message(s)
  BY <1>1, SendTypes, CheckTypes DEF Message
<1>2. CASE \E p \in Starts : Start(p)
  BY <1>2, DrainTypes, RefuseTypes, EnqueueTypes, BeginTypes, TakeBackTypes, LaunchTypes DEF Start
<1>3. CASE Spawn
  BY <1>3, HookTypes, StartedTypes, ListTypes, FailStartupTypes DEF Spawn
<1>4. CASE \E t \in Msgs : Turn(t)
  BY <1>4, EnterTypes, EndQueryTypes, ReportTypes, MergeTypes, ClearHandlesTypes, TaskStopsTypes
     DEF Turn
<1>5. CASE \E t \in Msgs : Followup(t)
  BY <1>5, PostTurnTypes, PopNothingTypes, PopTypes, ChainedTypes, AcceptTypes DEF Followup
<1>6. CASE \E k \in Stoppers : Stop(k)
  BY <1>6, CloseTypes, InterruptAllTypes, SignalTypes, ForceOutTypes, TakeTypes,
     InterruptedTypes, ClosedTypes DEF Stop
<1>7. CASE Rest \/ UNCHANGED vars
  BY <1>7, StutterTypes DEF Rest
<1> QED BY <1>1, <1>2, <1>3, <1>4, <1>5, <1>6, <1>7 DEF Next

\* Every variable keeps its type, whoever sends, stops or is refused.
THEOREM TypesHold == Spec => []TypeInv
<1>1. Init => TypeInv
  BY InitTypes
<1>2. TypeInv /\ [Next]_vars => TypeInv'
  BY StepTypes
<1> QED BY <1>1, <1>2, PTL DEF Spec

\* So TypeOK, the type invariant the run checks, holds for any senders and bounds.
THEOREM TypeCorrect == Spec => []TypeOK
<1> QED BY TypesHold, TypeInvImplies, PTL

(***************************************************************************)
(* A message waits in one place: in the mailbox, in the queue, or with one *)
(* of those who drained it.  It has no turn while it waits.                *)
(***************************************************************************)
Waits(m) == m \in Elems(mail) \cup Elems(queue) \/ \E p \in Starts : m \in Elems(hand[p])

Placed ==
    /\ Once(mail) /\ Once(queue) /\ \A p \in Starts : Once(hand[p])
    /\ Elems(mail) \cap Elems(queue) = {}
    /\ \A p \in Starts : Elems(hand[p]) \cap (Elems(mail) \cup Elems(queue)) = {}
    /\ \A p, q \in Starts : p # q => Elems(hand[p]) \cap Elems(hand[q]) = {}

Fresh ==
    /\ \A m \in Msgs : Waits(m) => task[m] = None /\ (m \in Senders => pc[m] # "send")
    /\ \A s \in Senders : pc[s] = "send" => task[s] = None

PlacedOnce == Placed /\ Fresh

LEMMA EmptyFacts == Elems(<<>>) = {} /\ Once(<<>>)
BY DEF Elems, Once

LEMMA OneFacts == ASSUME NEW S, NEW x \in S PROVE Elems(<<x>>) = {x} /\ Once(<<x>>) /\ <<x>> \in Seq(S)
BY DEF Elems, Once

LEMMA PlacedKept ==
    ASSUME Placed, UNCHANGED <<mail, queue, hand>>
    PROVE  Placed' /\ \A m : Waits(m)' => Waits(m)
<1>1. /\ Elems(mail)' = Elems(mail) /\ Elems(queue)' = Elems(queue)
      /\ \A p \in Starts : Elems(hand[p])' = Elems(hand[p])
  BY DEF Elems
<1>2. Once(mail)' /\ Once(queue)' /\ \A p \in Starts : Once(hand[p])'
  BY DEF Placed, Once
<1>3. Placed'
  BY <1>1, <1>2 DEF Placed
<1> QED BY <1>1, <1>3 DEF Waits

\* What p has in its hand becomes less.
LEMMA HandShrinks ==
    ASSUME TypeInv, Placed, NEW p \in Starts, NEW h, UNCHANGED <<mail, queue>>,
           hand' = [hand EXCEPT ![p] = h], Elems(h) \subseteq Elems(hand[p]), Once(h)
    PROVE  /\ Placed'
           /\ \A m : Waits(m)' => Waits(m)
           /\ \A m \in Elems(hand[p]) \ Elems(h) : ~Waits(m)'
<1>1. \A q \in Starts : hand'[q] = IF q = p THEN h ELSE hand[q]
  BY DEF TypeInv, HandTypes
<1>2. \A q \in Starts : Elems(hand'[q]) \subseteq Elems(hand[q]) /\ Once(hand'[q])
  BY <1>1 DEF Placed
<1>3. Elems(mail)' = Elems(mail) /\ Elems(queue)' = Elems(queue)
  BY DEF Elems
<1>4. \A q \in Starts : Elems(hand[q])' = Elems(hand'[q])
  BY DEF Elems
<1>5. Once(mail)' /\ Once(queue)' /\ \A q \in Starts : Once(hand[q])'
  BY <1>2 DEF Placed, Once
<1>6. Placed'
  BY <1>2, <1>3, <1>4, <1>5 DEF Placed
<1>7. \A m : Waits(m)' => Waits(m)
  BY <1>2, <1>3, <1>4 DEF Waits
<1>8. \A m \in Elems(hand[p]) \ Elems(h) : ~Waits(m)'
  BY <1>1, <1>3, <1>4 DEF Waits, Placed
<1> QED BY <1>6, <1>7, <1>8

LEMMA FreshKept ==
    ASSUME Fresh,
           \A m \in Msgs : Waits(m)' => Waits(m) /\ (task[m] = None => task'[m] = None),
           \A s \in Senders : pc'[s] = "send" =>
               pc[s] = "send" /\ (task[s] = None => task'[s] = None)
    PROVE  Fresh'
BY DEF Fresh

\* A step that moves no message, and starts no turn.
LEMMA StillPlaced ==
    ASSUME PlacedOnce, UNCHANGED <<mail, queue, hand>>,
           \A m \in Msgs : task[m] = None => task'[m] = None,
           \A s \in Senders : pc'[s] = "send" => pc[s] = "send"
    PROVE  PlacedOnce'
BY PlacedKept, FreshKept, Kinds DEF PlacedOnce, Kind

LEMMA InitPlaced == Init => PlacedOnce
<1> SUFFICES ASSUME Init PROVE PlacedOnce
  OBVIOUS
<1>0. Kind
  BY Kinds
<1>1. \A m \in Msgs : Waits(m) => m = Starter
  BY EmptyFacts, OneFacts, <1>0 DEF Init, Waits, Kind
<1>2. Fresh
  BY <1>0, <1>1 DEF Init, Fresh, Kind
<1>3. Placed
  BY EmptyFacts, OneFacts, <1>0 DEF Init, Placed, Kind
<1> QED BY <1>2, <1>3 DEF PlacedOnce

LEMMA SendPlaced ==
    ASSUME TypeInv, PlacedOnce, NEW s \in Senders, Send(s)
    PROVE  PlacedOnce'
<1>0. Kind
  BY Kinds
<1>1. ~Waits(s) /\ task[s] = None
  BY <1>0 DEF Kind, PlacedOnce, Fresh, Send
<1>2. Elems(mail') = Elems(mail) \cup {s} /\ Once(mail')
  <2>1. mail \in Seq(Senders) /\ s \notin Elems(mail) /\ Once(mail)
    BY <1>1 DEF TypeInv, MailTypes, Waits, PlacedOnce, Placed
  <2> QED BY <2>1, AppendFacts DEF Send
<1>3. Elems(mail)' = Elems(mail') /\ Once(mail)' = Once(mail')
  BY DEF Elems, Once
<1>4. UNCHANGED <<queue, hand, task>>
  BY DEF Send, turns
<1>5. Elems(queue)' = Elems(queue) /\ (Once(queue)' <=> Once(queue))
      /\ \A p \in Starts : Elems(hand[p])' = Elems(hand[p]) /\ (Once(hand[p])' <=> Once(hand[p]))
  BY <1>4 DEF Elems, Once
<1>6. Placed'
  BY <1>1, <1>2, <1>3, <1>5 DEF PlacedOnce, Placed, Waits
<1>7. \A m : Waits(m)' => Waits(m) \/ m = s
  BY <1>2, <1>3, <1>5 DEF Waits
<1>8. \A q \in Senders : pc'[q] = IF q = s THEN "check" ELSE pc[q]
  BY <1>0 DEF Kind, TypeInv, PcTypes, Send, Goto
<1>9. Fresh'
  BY <1>1, <1>4, <1>7, <1>8 DEF PlacedOnce, Fresh
<1> QED BY <1>6, <1>9 DEF PlacedOnce

LEMMA DrainPlaced ==
    ASSUME TypeInv, PlacedOnce, NEW p \in Starts, Drain(p)
    PROVE  PlacedOnce'
<1>0. Kind
  BY Kinds
<1>1. mail' = <<>> /\ UNCHANGED <<queue, task>>
      /\ \A q \in Starts : hand'[q] = IF q = p THEN mail ELSE hand[q]
  BY DEF Drain, turns, TypeInv, HandTypes
<1>2. Elems(mail)' = {} /\ Once(mail)' /\ Elems(queue)' = Elems(queue) /\ Once(queue)'
  BY <1>1, EmptyFacts DEF Elems, Once, PlacedOnce, Placed
<1>3. \A q \in Starts : Elems(hand[q])' = IF q = p THEN Elems(mail) ELSE Elems(hand[q])
  BY <1>1 DEF Elems
<1>4. \A q \in Starts : Once(hand[q])'
  BY <1>1 DEF Once, PlacedOnce, Placed
<1>5. Placed'
  BY <1>2, <1>3, <1>4 DEF PlacedOnce, Placed
<1>6. \A m : Waits(m)' => Waits(m)
  BY <1>2, <1>3 DEF Waits
<1>7. \A s \in Senders : pc'[s] = "send" => pc[s] = "send"
  BY <1>0 DEF Kind, TypeInv, PcTypes, Drain, Goto
<1> QED BY <1>0, <1>1, <1>5, <1>6, <1>7, FreshKept DEF PlacedOnce, Kind

LEMMA RefusedPlaced ==
    ASSUME TypeInv, PlacedOnce, NEW p \in Starts, Refused(p), UNCHANGED <<mail, queue, task>>
    PROVE  PlacedOnce'
<1>0. Kind
  BY Kinds
<1>1. Placed' /\ \A m : Waits(m)' => Waits(m)
  BY HandShrinks, EmptyFacts DEF PlacedOnce, Refused
<1>2. \A s \in Senders : pc'[s] = "send" => pc[s] = "send"
  BY <1>0 DEF Kind, TypeInv, PcTypes, Refused, Goto
<1> QED BY <1>0, <1>1, <1>2, FreshKept DEF PlacedOnce, Kind

LEMMA EnqueuePlaced ==
    ASSUME TypeInv, PlacedOnce, NEW p \in Starts, Enqueue(p)
    PROVE  PlacedOnce'
<1>0. Kind
  BY Kinds
<1> DEFINE x == Head(hand[p])
<1>1. hand[p] \in Seq(Msgs) /\ hand[p] # <<>> /\ Once(hand[p]) /\ queue \in Seq(Msgs)
      /\ Once(queue)
  BY DEF Enqueue, TypeInv, HandTypes, MailTypes, Handed, PlacedOnce, Placed
<1>2. /\ x \in Msgs /\ Elems(Tail(hand[p])) \subseteq Elems(hand[p]) /\ x \in Elems(hand[p])
      /\ Once(Tail(hand[p])) /\ x \notin Elems(Tail(hand[p]))
  BY <1>1, TailFacts
<1>3. x \notin Elems(mail) /\ x \notin Elems(queue)
      /\ \A q \in Starts : q # p => x \notin Elems(hand[q])
  BY <1>2 DEF PlacedOnce, Placed
<1>4. Elems(Append(queue, x)) = Elems(queue) \cup {x} /\ Once(Append(queue, x))
  BY <1>1, <1>2, <1>3, AppendFacts
<1>5. /\ queue' = Append(queue, x) /\ UNCHANGED <<mail, task>>
      /\ \A q \in Starts : hand'[q] = IF q = p THEN Tail(hand[p]) ELSE hand[q]
  BY DEF Enqueue, NextOf, turns, TypeInv, HandTypes
<1>6. Elems(queue)' = Elems(queue) \cup {x} /\ Once(queue)' /\ Elems(mail)' = Elems(mail)
      /\ Once(mail)'
  BY <1>4, <1>5 DEF Elems, Once, PlacedOnce, Placed
<1>7. \A q \in Starts : Elems(hand[q])' = IF q = p THEN Elems(Tail(hand[p])) ELSE Elems(hand[q])
  BY <1>5 DEF Elems
<1>8. \A q \in Starts : Once(hand[q])'
  BY <1>2, <1>5 DEF Once, PlacedOnce, Placed
<1>9. Placed'
  BY <1>2, <1>3, <1>6, <1>7, <1>8 DEF PlacedOnce, Placed
<1>10. \A m : Waits(m)' => Waits(m)
  BY <1>2, <1>6, <1>7 DEF Waits
<1>11. \A s \in Senders : pc'[s] = "send" => pc[s] = "send"
  BY <1>0 DEF Kind, TypeInv, PcTypes, Enqueue, NextOf, Goto
<1> QED BY <1>0, <1>5, <1>9, <1>10, <1>11, FreshKept DEF PlacedOnce, Kind

\* The turn that is launched waits no more, and nothing else changes its place.
LEMMA LaunchedPlaced ==
    ASSUME TypeInv, PlacedOnce, NEW p \in Starts, NEW h, hand[p] # <<>>,
           hand' = [hand EXCEPT ![p] = h], h \in {Tail(hand[p]), <<>>},
           Launched(Head(hand[p])), UNCHANGED <<mail, queue>>,
           \A s \in Senders : pc'[s] = "send" => pc[s] = "send"
    PROVE  PlacedOnce' /\ task[Head(hand[p])] = None /\ Head(hand[p]) \in Msgs
<1>0. Kind
  BY Kinds
<1> DEFINE x == Head(hand[p])
<1>1. hand[p] \in Seq(Msgs) /\ hand[p] # <<>> /\ Once(hand[p])
  BY DEF TypeInv, HandTypes, PlacedOnce, Placed
<1>2. /\ x \in Msgs /\ Elems(Tail(hand[p])) \subseteq Elems(hand[p]) /\ x \in Elems(hand[p])
      /\ Once(Tail(hand[p])) /\ x \notin Elems(Tail(hand[p]))
  BY <1>1, TailFacts
<1>3. Elems(h) \subseteq Elems(hand[p]) /\ Once(h) /\ x \notin Elems(h)
  BY <1>2, EmptyFacts
<1>4. Placed' /\ \A m : Waits(m)' => Waits(m) /\ m # x
  <2>1. /\ Placed'
        /\ \A m : Waits(m)' => Waits(m)
        /\ \A m \in Elems(hand[p]) \ Elems(h) : ~Waits(m)'
    <3> HIDE DEF x
    <3> QED BY <1>3, HandShrinks DEF PlacedOnce
  <2>2. x \in Elems(hand[p]) \ Elems(h)
    BY <1>2, <1>3
  <2> QED BY <2>1, <2>2
<1>5. Waits(x)
  BY <1>2 DEF Waits
<1>6. task[x] = None /\ (x \in Senders => pc[x] # "send")
  BY <1>2, <1>5 DEF PlacedOnce, Fresh
<1>7. \A m \in Msgs : m # x => task'[m] = task[m]
  BY DEF Launched, TypeInv, TurnTypes
<1>8. Fresh'
  <2>1. \A m \in Msgs : Waits(m)' => Waits(m) /\ (task[m] = None => task'[m] = None)
    BY <1>4, <1>7
  <2>2. \A s \in Senders : pc'[s] = "send" =>
            pc[s] = "send" /\ (task[s] = None => task'[s] = None)
    BY <1>0, <1>6, <1>7 DEF Kind
  <2> QED BY <2>1, <2>2, FreshKept DEF PlacedOnce
<1> QED BY <1>2, <1>4, <1>6, <1>8 DEF PlacedOnce

LEMMA LaunchPlaced ==
    ASSUME TypeInv, PlacedOnce, NEW p \in Starts, Launch(p)
    PROVE  PlacedOnce' /\ task[Head(hand[p])] = None /\ Head(hand[p]) \in Msgs
<1>0. Kind
  BY Kinds
<1>1. hand[p] # <<>> /\ hand' = [hand EXCEPT ![p] = Tail(hand[p])] /\ Launched(Head(hand[p]))
      /\ UNCHANGED <<mail, queue>>
  BY DEF Launch, NextOf, TypeInv, Handed
<1>2. \A s \in Senders : pc'[s] = "send" => pc[s] = "send"
  BY <1>0 DEF Kind, TypeInv, PcTypes, Launch, NextOf, Goto
<1> QED BY <1>1, <1>2, LaunchedPlaced

LEMMA ChainedPlaced ==
    ASSUME TypeInv, PlacedOnce, NEW t \in Msgs, Chained(t)
    PROVE  /\ PlacedOnce' /\ task[Head(hand[Post(t)])] = None
           /\ Head(hand[Post(t)]) \in Msgs
<1>0. Kind
  BY Kinds
<1>1. /\ Post(t) \in Starts /\ hand[Post(t)] # <<>> /\ hand' = [hand EXCEPT ![Post(t)] = <<>>]
      /\ Launched(Head(hand[Post(t)])) /\ UNCHANGED <<mail, queue>>
  BY <1>0 DEF Kind, Chained, TypeInv, Handed
<1>2. \A s \in Senders : pc'[s] = "send" => pc[s] = "send"
  BY <1>0 DEF Kind, TypeInv, PcTypes, Chained, Goto
<1> QED BY <1>1, <1>2, LaunchedPlaced

LEMMA PopPlaced ==
    ASSUME TypeInv, PlacedOnce, NEW t \in Msgs, Pop(t)
    PROVE  PlacedOnce'
<1>0. Kind
  BY Kinds
<1> DEFINE x == Head(queue)
           p == Post(t)
<1>1. p \in Starts /\ queue \in Seq(Msgs) /\ queue # <<>> /\ Once(queue)
  BY <1>0 DEF Kind, Pop, TypeInv, MailTypes, PlacedOnce, Placed
<1>2. /\ x \in Msgs /\ Elems(Tail(queue)) \subseteq Elems(queue) /\ x \in Elems(queue)
      /\ Once(Tail(queue)) /\ x \notin Elems(Tail(queue))
  BY <1>1, TailFacts
<1>3. x \notin Elems(mail) /\ \A q \in Starts : x \notin Elems(hand[q])
  BY <1>2 DEF PlacedOnce, Placed
<1>4. /\ queue' = Tail(queue) /\ UNCHANGED <<mail, task>>
      /\ \A q \in Starts : hand'[q] = IF q = p THEN <<x>> ELSE hand[q]
  BY <1>1 DEF Pop, turns, TypeInv, HandTypes
<1>5. Elems(queue)' = Elems(Tail(queue)) /\ Once(queue)' /\ Elems(mail)' = Elems(mail)
      /\ Once(mail)'
  BY <1>2, <1>4 DEF Elems, Once, PlacedOnce, Placed
<1>6. \A q \in Starts : Elems(hand[q])' = IF q = p THEN {x} ELSE Elems(hand[q])
  <2>1. Elems(<<x>>) = {x}
    BY <1>2, OneFacts
  <2> QED BY <1>4, <2>1 DEF Elems
<1>7. \A q \in Starts : Once(hand[q])'
  <2>1. Once(<<x>>)
    BY <1>2, OneFacts
  <2> QED BY <1>4, <2>1 DEF Once, PlacedOnce, Placed
<1>8. Placed'
  BY <1>2, <1>3, <1>5, <1>6, <1>7 DEF PlacedOnce, Placed
<1>9. \A m : Waits(m)' => Waits(m)
  BY <1>2, <1>5, <1>6 DEF Waits
<1>10. \A s \in Senders : pc'[s] = "send" => pc[s] = "send"
  BY <1>0 DEF Kind, TypeInv, PcTypes, Pop, Goto
<1> QED BY <1>0, <1>4, <1>8, <1>9, <1>10, FreshKept DEF PlacedOnce, Kind

\* A task that takes a step was there before.
LEMMA TaskStepPlaced ==
    ASSUME TypeInv, PlacedOnce, NEW t \in Msgs, task[t] # None, NEW to,
           task' = [task EXCEPT ![t] = to], UNCHANGED <<mail, queue, hand>>,
           \A s \in Senders : pc'[s] = "send" => pc[s] = "send"
    PROVE  PlacedOnce'
<1>1. \A m \in Msgs : task[m] = None => task'[m] = None
  BY DEF TypeInv, TurnTypes
<1> QED BY <1>1, StillPlaced

LEMMA TurnPlaced ==
    ASSUME TypeInv, PlacedOnce, NEW t \in Msgs, Turn(t)
    PROVE  PlacedOnce'
<1>0. Kind
  BY Kinds
<1>1. \A s \in Senders : pc'[s] = "send" => pc[s] = "send"
  BY <1>0 DEF Kind, TypeInv, PcTypes, Turn, Enter, EndQuery, Report, Merge, ClearHandles,
              TaskStops, procs, Goto
<1>2. UNCHANGED <<mail, queue, hand>>
  BY DEF Turn, Enter, EndQuery, Report, Merge, ClearHandles, TaskStops, procs
<1>3. task[t] # None /\ \E to : task' = [task EXCEPT ![t] = to]
  BY DEF Turn, Enter, EndQuery, Report, Merge, ClearHandles, TaskStops, Step, Running, Reported,
         None
<1> QED BY <1>1, <1>2, <1>3, TaskStepPlaced

LEMMA StillPlacedSteps ==
    ASSUME TypeInv, PlacedOnce,
           \/ \E s \in Senders : Check(s)
           \/ \E p \in Starts : Begin(p)
           \/ Spawn
           \/ \E t \in Msgs : PostTurn(t) \/ PopNothing(t) \/ Accept(t)
           \/ \E k \in Stoppers : Stop(k)
    PROVE  PlacedOnce'
<1>0. Kind
  BY Kinds
<1>1. UNCHANGED <<mail, queue, hand, task>>
  BY DEF Check, Begin, Spawn, Hook, Started, List, FailStartup, PostTurn, PopNothing, Accept,
         Stop, Close, InterruptAll, Signal, ForceOut, Take, Interrupted, Closed, turns
<1>2. \A s \in Senders : pc'[s] = "send" => pc[s] = "send"
  <2>1. ASSUME NEW q \in Procs, NEW l, l # "send", Goto(q, l)
        PROVE  \A s \in Senders : pc'[s] = "send" => pc[s] = "send"
    BY <1>0, <2>1 DEF Kind, TypeInv, PcTypes, Goto
  <2>2. \E q \in Procs : \E l : l # "send" /\ Goto(q, l)
    BY <1>0 DEF Kind, Check, Begin, Spawn, Hook, Started, AfterStart, List, FailStartup, PostTurn,
         PopNothing, Accept, AfterQueue, Stop, Close, InterruptAll, Signal, ForceOut, Take,
         Interrupted, Closed
  <2> QED BY <2>1, <2>2
<1> QED BY <1>1, <1>2, StillPlaced

LEMMA StepPlaced == ASSUME TypeInv, PlacedOnce, [Next]_vars PROVE PlacedOnce'
<1>1. CASE \E s \in Senders : Message(s)
  BY <1>1, SendPlaced, StillPlacedSteps DEF Message
<1>2. CASE \E p \in Starts : Start(p)
  <2>1. ASSUME NEW p \in Starts, Refuse(p) \/ TakeBack(p)
        PROVE  PlacedOnce'
    BY <2>1, RefusedPlaced DEF Refuse, TakeBack, turns
  <2> QED BY <1>2, <2>1, DrainPlaced, EnqueuePlaced, StillPlacedSteps, LaunchPlaced DEF Start
<1>3. CASE Spawn
  BY <1>3, StillPlacedSteps
<1>4. CASE \E t \in Msgs : Turn(t)
  BY <1>4, TurnPlaced
<1>5. CASE \E t \in Msgs : Followup(t)
  BY <1>5, StillPlacedSteps, PopPlaced, ChainedPlaced DEF Followup
<1>6. CASE \E k \in Stoppers : Stop(k)
  BY <1>6, StillPlacedSteps
<1>7. CASE Rest \/ UNCHANGED vars
  <2>1. UNCHANGED <<mail, queue, hand, task, pc>>
    BY <1>7 DEF Rest, vars, turns, procs
  <2> QED BY <2>1, StillPlaced
<1> QED BY <1>1, <1>2, <1>3, <1>4, <1>5, <1>6, <1>7 DEF Next

\* A message is in one place at most, and never both waiting and a turn's: the
\* drains take the whole mailbox and hand on one message at a time, so that no
\* turn is started twice (coordinator.rs:93).
THEOREM PlacesHold == Spec => []PlacedOnce
<1>1. Init => PlacedOnce
  BY InitPlaced
<1>2. TypeInv /\ PlacedOnce /\ [Next]_vars => PlacedOnce'
  BY StepPlaced
<1> QED BY <1>1, <1>2, TypesHold, PTL DEF Spec

(***************************************************************************)
(* A turn that has a task, or is about to be given one, is the actor's     *)
(* active turn, or the parent has been told about it, or is just being     *)
(* told, or it is one of those it never hears of.                          *)
(***************************************************************************)
Begun(t) == \E p \in Starts : pc[p] \in {"launch", "chained"} /\ t = Head(hand[p])
Known(t) == task[t] # None \/ Begun(t)
Accounted(t) == act = t \/ told[t] > 0 \/ t \in silent \cup orphan \/ Telling(t)

KnownAccounted == \A t \in Msgs : Known(t) => Accounted(t)
ReportedTold == \A t \in Msgs : task[t] \in Reported => told[t] > 0
DroppedSilent ==
    \A k \in Stoppers : pc[k] = "tell" /\ dropped[k] /\ taken[k] # None => taken[k] \in silent

ReportInv == KnownAccounted /\ ReportedTold /\ DroppedSilent

\* A process that goes to where no turn is begun begins none.
LEMMA BegunKept ==
    ASSUME TypeInv, NEW q \in Procs, NEW l, l \notin {"launch", "chained"}, Goto(q, l),
           \A p \in Starts : p # q => hand'[p] = hand[p]
    PROVE  \A t : Begun(t)' => Begun(t)
BY Kinds DEF Kind, TypeInv, PcTypes, Begun, Goto

LEMMA TellingKept ==
    ASSUME TypeInv, NEW q \in Procs, NEW l, Goto(q, l), pc[q] # "tell",
           \A k \in Stoppers : k # q => taken'[k] = taken[k]
    PROVE  \A t : Telling(t) => Telling(t)'
BY Kinds DEF Kind, TypeInv, PcTypes, Telling, Goto

\* A step about none of this.
LEMMA QuietReport ==
    ASSUME TypeInv, ReportInv, NEW q \in Procs, NEW l, l \notin {"launch", "chained", "tell"},
           Goto(q, l), pc[q] # "tell", \A p \in Starts : p # q => hand'[p] = hand[p],
           UNCHANGED <<act, told, silent, orphan, task, taken>>,
           \A k \in Stoppers : k # q => dropped'[k] = dropped[k]
    PROVE  ReportInv'
<1>1. \A t : Begun(t)' => Begun(t)
  BY BegunKept
<1>2. \A t : Telling(t) => Telling(t)'
  BY TellingKept
<1>3. KnownAccounted'
  BY <1>1, <1>2 DEF ReportInv, KnownAccounted, Known, Accounted
<1>4. ReportedTold'
  BY DEF ReportInv, ReportedTold
<1>5. DroppedSilent'
  BY Kinds DEF Kind, TypeInv, PcTypes, ReportInv, DroppedSilent, Goto
<1> QED BY <1>3, <1>4, <1>5 DEF ReportInv

LEMMA InitReport == Init => ReportInv
<1> SUFFICES ASSUME Init PROVE ReportInv
  OBVIOUS
<1>1. \A p \in Starts \cup Stoppers : pc[p] \notin {"launch", "chained", "tell"}
  BY Kinds DEF Kind, Init, None
<1>2. \A t \in Msgs : task[t] = None /\ task[t] \notin Reported
  BY DEF Init, Reported, None
<1> QED BY <1>1, <1>2 DEF ReportInv, KnownAccounted, ReportedTold, DroppedSilent, Known, Begun

LEMMA QuietReportSteps ==
    ASSUME TypeInv, ReportInv,
           \/ \E s \in Senders : Message(s)
           \/ \E p \in Starts : Drain(p) \/ Refuse(p) \/ Enqueue(p)
           \/ Hook \/ Started \/ List
           \/ \E t \in Msgs : PostTurn(t) \/ PopNothing(t) \/ Accept(t)
           \/ \E k \in Stoppers : Close(k) \/ InterruptAll(k) \/ Signal(k) \/ ForceOut(k)
    PROVE  ReportInv'
<1>0. Kind
  BY Kinds
<1>1. UNCHANGED <<act, told, silent, orphan, task, taken>>
  BY DEF Message, Send, Check, Drain, Refuse, Refused, Enqueue, NextOf, Hook, Started, List,
         PostTurn, PopNothing, Accept, Close, InterruptAll, Signal, ForceOut, agent, actor, turns,
         stops, history
<1>2. \E q \in Procs : \E l :
         /\ l \notin {"launch", "chained", "tell"} /\ Goto(q, l) /\ pc[q] # "tell"
         /\ \A p \in Starts : p # q => hand'[p] = hand[p]
         /\ \A k \in Stoppers : k # q => dropped'[k] = dropped[k]
  <2>1. CASE \E s \in Senders : Message(s)
    BY <1>0, <2>1 DEF Kind, Message, Send, Check, stops
  <2>2. CASE \E p \in Starts : Drain(p) \/ Refuse(p) \/ Enqueue(p)
    BY <1>0, <2>2 DEF Kind, TypeInv, HandTypes, Drain, Refuse, Refused, Enqueue, NextOf, stops
  <2>3. CASE Hook \/ Started \/ List
    BY <1>0, <2>3 DEF Kind, Hook, Started, AfterStart, List, stops
  <2>4. CASE \E t \in Msgs : PostTurn(t) \/ PopNothing(t) \/ Accept(t)
    BY <1>0, <2>4 DEF Kind, PostTurn, PopNothing, Accept, AfterQueue, stops
  <2>5. CASE \E k \in Stoppers : Close(k) \/ InterruptAll(k) \/ Signal(k) \/ ForceOut(k)
    BY <1>0, <2>5 DEF Kind, TypeInv, StopTypes, Close, InterruptAll, Signal, ForceOut, stops
  <2> QED BY <2>1, <2>2, <2>3, <2>4, <2>5
<1> QED BY <1>1, <1>2, QuietReport

\* Where no call is about to tell the parent, nothing changes for those who are.
LEMMA DroppedKept ==
    ASSUME TypeInv, ReportInv, NEW q \in Procs, NEW l, Goto(q, l), l # "tell",
           UNCHANGED <<dropped, taken>>, silent \subseteq silent'
    PROVE  DroppedSilent'
BY Kinds DEF Kind, TypeInv, PcTypes, ReportInv, DroppedSilent, Goto

LEMMA BeginReport ==
    ASSUME TypeInv, ReportInv, NEW p \in Starts, Begin(p)
    PROVE  ReportInv'
<1>0. Kind
  BY Kinds
<1>1. /\ UNCHANGED <<told, silent, task, taken, dropped, hand>> /\ Goto(p, "launch")
      /\ act' = Head(hand[p]) /\ act = None /\ pc[p] = "reserve" /\ orphan' = orphan
  BY DEF Begin, Busy, Activated, Forget, agent, turns, stops
<1>2. \A t : Telling(t) => Telling(t)'
  BY <1>0, <1>1, TellingKept DEF Kind
<1>3. \A t : Begun(t)' => Begun(t) \/ t = act'
  BY <1>0, <1>1 DEF Kind, TypeInv, PcTypes, Begun, Goto
<1>4. KnownAccounted'
  BY <1>0, <1>1, <1>2, <1>3 DEF Kind, ReportInv, KnownAccounted, Known, Accounted
<1>5. ReportedTold'
  BY <1>1 DEF ReportInv, ReportedTold
<1>6. DroppedSilent'
  BY <1>0, <1>1, DroppedKept DEF Kind
<1> QED BY <1>4, <1>5, <1>6 DEF ReportInv

\* The turn that is taken back has no task.
LEMMA TakeBackReport ==
    ASSUME TypeInv, PlacedOnce, ReportInv, NEW p \in Starts, TakeBack(p)
    PROVE  ReportInv'
<1>0. Kind
  BY Kinds
<1> DEFINE x == Head(hand[p])
<1>1. /\ UNCHANGED <<told, silent, orphan, task, taken, dropped>> /\ pc[p] = "launch"
      /\ act' = IF act = x THEN None ELSE act
      /\ \A q \in Starts : q # p => hand'[q] = hand[q]
      /\ Goto(p, IF p = Starter THEN "fail" ELSE "done")
  BY DEF TakeBack, Refused, agent, turns, stops, TypeInv, HandTypes
<1>2. \A t : Telling(t) => Telling(t)'
  BY <1>0, <1>1, TellingKept DEF Kind
<1>3. task[x] = None
  <2>1. x \in Msgs /\ x \in Elems(hand[p])
    BY <1>1, TailFacts DEF TypeInv, HandTypes, Handed
  <2> QED BY <2>1 DEF PlacedOnce, Fresh, Waits
<1>4. \A t : ~Begun(t)'
  <2>1. \A q \in Starts : q # p => pc[q] \notin {"launch", "chained"}
    BY <1>1 DEF TypeInv, GateTypes
  <2> QED BY <1>0, <1>1, <2>1 DEF Kind, TypeInv, PcTypes, Begun, Goto
<1>5. KnownAccounted'
  BY <1>1, <1>2, <1>3, <1>4 DEF ReportInv, KnownAccounted, Known, Accounted
<1>6. ReportedTold'
  BY <1>1 DEF ReportInv, ReportedTold
<1>7. DroppedSilent'
  BY <1>0, <1>1, DroppedKept DEF Kind
<1> QED BY <1>5, <1>6, <1>7 DEF ReportInv

\* The turn that is launched was begun.
LEMMA LaunchedReport ==
    ASSUME TypeInv, ReportInv, NEW p \in Starts, pc[p] \in {"launch", "chained"}, NEW l,
           l \notin {"launch", "chained", "tell"}, Goto(p, l), Launched(Head(hand[p])),
           \A q \in Starts : q # p => hand'[q] = hand[q],
           UNCHANGED <<act, told, silent, taken, dropped>>
    PROVE  ReportInv'
<1>0. Kind
  BY Kinds
<1>1. \A t : Telling(t) => Telling(t)'
  BY <1>0, TellingKept DEF Kind
<1>2. \A t : Begun(t)' => Begun(t)
  BY <1>0, BegunKept DEF Kind
<1>3. \A t \in Msgs : task'[t] = IF t = Head(hand[p]) THEN "spawned" ELSE task[t]
  BY DEF Launched, TypeInv, TurnTypes
<1>4. orphan \subseteq orphan'
  BY DEF Launched, Deregister
<1>5. KnownAccounted'
  <2>1. Begun(Head(hand[p]))
    BY DEF Begun
  <2>2. \A t \in Msgs : Known(t)' => Known(t)
    BY <1>2, <1>3, <2>1 DEF Known
  <2> QED BY <1>1, <1>4, <2>2 DEF ReportInv, KnownAccounted, Accounted
<1>6. ReportedTold'
  BY <1>3 DEF ReportInv, ReportedTold, Reported
<1>7. DroppedSilent'
  BY <1>0, DroppedKept DEF Kind
<1> QED BY <1>5, <1>6, <1>7 DEF ReportInv

LEMMA LaunchReport ==
    ASSUME TypeInv, ReportInv, NEW p \in Starts, Launch(p)
    PROVE  ReportInv'
<1>1. \E l : l \notin {"launch", "chained", "tell"} /\ Goto(p, l)
  BY DEF Launch, NextOf
<1>2. /\ Launched(Head(hand[p])) /\ \A q \in Starts : q # p => hand'[q] = hand[q]
      /\ UNCHANGED <<act, told, silent, taken, dropped>> /\ pc[p] = "launch"
  BY DEF Launch, NextOf, actor, stops, TypeInv, HandTypes
<1> QED BY <1>1, <1>2, LaunchedReport

LEMMA ChainedReport ==
    ASSUME TypeInv, ReportInv, NEW t \in Msgs, Chained(t)
    PROVE  ReportInv'
<1> DEFINE p == Post(t)
<1>1. /\ Goto(p, "done") /\ pc[p] = "chained" /\ p \in Starts
      /\ Launched(Head(hand[p])) /\ \A q \in Starts : q # p => hand'[q] = hand[q]
      /\ UNCHANGED <<act, told, silent, taken, dropped>>
  BY Kinds DEF Kind, Chained, agent, actor, stops, TypeInv, HandTypes
<1> HIDE DEF p
<1> QED BY <1>1, LaunchedReport

LEMMA PopReport ==
    ASSUME TypeInv, ReportInv, NEW t \in Msgs, Pop(t)
    PROVE  ReportInv'
<1>0. Kind
  BY Kinds
<1> DEFINE p == Post(t)
<1>1. p \in Starts
  BY <1>0 DEF Kind
<1>2. /\ UNCHANGED <<told, silent, task, taken, dropped>> /\ Goto(p, "chained")
      /\ act' = Head(queue) /\ pc[p] = "chain"
      /\ \A q \in Starts : hand'[q] = IF q = p THEN <<Head(queue)>> ELSE hand[q]
      /\ orphan' = IF act \notin {None, Head(queue)} THEN orphan \cup {act} ELSE orphan
  BY <1>1 DEF Pop, Activated, Forget, agent, turns, stops, TypeInv, HandTypes
<1>3. \A m : Telling(m) => Telling(m)'
  BY <1>0, <1>1, <1>2, TellingKept DEF Kind
<1>4. \A m : Begun(m)' => Begun(m) \/ m = act'
  BY <1>0, <1>1, <1>2 DEF Kind, TypeInv, PcTypes, Begun, Goto
<1>5. KnownAccounted'
  BY <1>0, <1>2, <1>3, <1>4 DEF Kind, ReportInv, KnownAccounted, Known, Accounted
<1>6. ReportedTold'
  BY <1>2 DEF ReportInv, ReportedTold
<1>7. DroppedSilent'
  BY <1>0, <1>1, <1>2, DroppedKept DEF Kind
<1> QED BY <1>5, <1>6, <1>7 DEF ReportInv

LEMMA FailStartupReport ==
    ASSUME TypeInv, ReportInv, FailStartup
    PROVE  ReportInv'
<1>0. Kind
  BY Kinds
<1>1. /\ UNCHANGED <<told, silent, task, taken, dropped, hand>> /\ Goto(Starter, "done")
      /\ pc[Starter] = "fail" /\ orphan \subseteq orphan'
      /\ act \in {None, act'} \cup orphan'
  BY DEF FailStartup, Forget, turns, stops
<1>2. \A t : (Telling(t) => Telling(t)') /\ (Begun(t)' => Begun(t))
  BY <1>0, <1>1, TellingKept, BegunKept DEF Kind
<1>3. KnownAccounted'
  BY <1>0, <1>1, <1>2 DEF Kind, ReportInv, KnownAccounted, Known, Accounted
<1>4. ReportedTold'
  BY <1>1 DEF ReportInv, ReportedTold
<1>5. DroppedSilent'
  BY <1>0, <1>1, DroppedKept DEF Kind
<1> QED BY <1>3, <1>4, <1>5 DEF ReportInv

\* The task of a turn tells before it merges, and merges before it is over.
LEMMA TurnReport ==
    ASSUME TypeInv, ReportInv, NEW t \in Msgs, Turn(t)
    PROVE  ReportInv'
<1>0. Kind
  BY Kinds
<1>1. /\ UNCHANGED <<silent, taken, dropped, hand>> /\ orphan \subseteq orphan'
      /\ task[t] # None /\ \A m \in Msgs : m # t => task'[m] = task[m]
  BY DEF Turn, Enter, EndQuery, Report, Merge, ClearHandles, TaskStops, Step, stops, procs,
         history, Forget, Deregister, Running, Reported, None, TypeInv, TurnTypes
<1>2. \A m \in Msgs : told[m] > 0 => told'[m] > 0
  BY DEF Turn, Enter, EndQuery, Report, Merge, ClearHandles, TaskStops, agent, TypeInv, AgentTypes
<1>3. \A m : (Telling(m) => Telling(m)') /\ (Begun(m)' => Begun(m))
  <2>1. CASE ClearHandles(t)
    <3>1. Goto(Post(t), "check") /\ Post(t) \in Starts
      BY <1>0, <2>1 DEF Kind, ClearHandles
    <3>2. \A m : Begun(m)' => Begun(m)
      BY <1>0, <1>1, <3>1, BegunKept DEF Kind
    <3>3. Post(t) \notin Stoppers
      BY AgentsAssumption DEF Posts
    <3>4. \A k \in Stoppers : pc'[k] = pc[k]
      BY <1>0, <3>1, <3>3 DEF Kind, TypeInv, PcTypes, Goto
    <3> QED BY <1>1, <3>2, <3>4 DEF Telling
  <2>2. CASE ~ClearHandles(t)
    BY <1>1, <2>2 DEF Turn, Enter, EndQuery, Report, Merge, TaskStops, procs, Telling, Begun
  <2> QED BY <2>1, <2>2
<1>4. ReportedTold'
  <2>1. task'[t] \in Reported => told'[t] > 0
    <3>1. CASE Report(t)
      BY <3>1 DEF Report, TypeInv, AgentTypes
    <3>2. CASE ~Report(t)
      <4>1. task'[t] \in Reported => task[t] \in Reported
        BY <3>2 DEF Turn, Enter, EndQuery, Merge, ClearHandles, TaskStops, Step, Reported,
                    TypeInv, TurnTypes
      <4> QED BY <1>2, <4>1 DEF TypeInv, AgentTypes, ReportInv, ReportedTold
    <3> QED BY <3>1, <3>2
  <2>2. \A m \in Msgs : m # t => (task'[m] \in Reported => told'[m] > 0)
    BY <1>1, <1>2 DEF TypeInv, AgentTypes, ReportInv, ReportedTold
  <2> QED BY <2>1, <2>2 DEF ReportedTold
<1>5. \A m \in Msgs : act = m => act' = m \/ told'[m] > 0 \/ m \in orphan'
  <2>1. CASE Merge(t)
    <3>1. told'[t] > 0
      BY <2>1 DEF Merge, Step, agent, ReportInv, ReportedTold, Reported
    <3> QED BY <1>0, <2>1, <3>1 DEF Kind, Merge, Forget
  <2>2. CASE ~Merge(t)
    BY <2>2 DEF Turn, Enter, EndQuery, Report, ClearHandles, TaskStops, actor
  <2> QED BY <2>1, <2>2
<1>6. KnownAccounted'
  <2>1. \A m \in Msgs : Known(m)' => Known(m)
    BY <1>1, <1>3 DEF Known
  <2> QED BY <1>1, <1>2, <1>3, <1>5, <2>1 DEF ReportInv, KnownAccounted, Accounted
<1>7. DroppedSilent'
  <2>1. \A k \in Stoppers : pc'[k] = "tell" => pc[k] = "tell"
    BY <1>0 DEF Kind, Turn, Enter, EndQuery, Report, Merge, ClearHandles, TaskStops, procs, Goto,
                TypeInv, PcTypes
  <2> QED BY <1>1, <2>1 DEF ReportInv, DroppedSilent
<1> QED BY <1>4, <1>6, <1>7 DEF ReportInv

LEMMA TakeReport ==
    ASSUME TypeInv, ReportInv, NEW k \in Stoppers, Take(k)
    PROVE  ReportInv'
<1>0. Kind
  BY Kinds
<1>1. /\ UNCHANGED <<told, orphan, task, dropped, hand>> /\ Goto(k, "tell") /\ pc[k] = "take"
      /\ \A j \in Stoppers : taken'[j] = IF j = k THEN act ELSE taken[j]
      /\ silent' = IF dropped[k] THEN silent \cup ({act} \cap Msgs) ELSE silent
      /\ act \in Msgs \cup {None}
  BY DEF Take, agent, turns, TypeInv, StopTypes, ActorTypes
<1>2. \A j \in Procs : pc'[j] = IF j = k THEN "tell" ELSE pc[j]
  BY <1>1 DEF TypeInv, PcTypes, Goto
<1>3. \A t : (Telling(t) => Telling(t)') /\ (Begun(t)' => Begun(t))
  BY <1>0, <1>1, <1>2 DEF Kind, Telling, Begun
<1>4. KnownAccounted'
  <2>1. \A t \in Msgs : act = t => Telling(t)'
    BY <1>0, <1>1, <1>2 DEF Kind, Telling
  <2> QED BY <1>1, <1>3, <2>1 DEF ReportInv, KnownAccounted, Known, Accounted
<1>5. ReportedTold'
  BY <1>1 DEF ReportInv, ReportedTold
<1>6. DroppedSilent'
  BY <1>0, <1>1, <1>2 DEF Kind, ReportInv, DroppedSilent
<1> QED BY <1>4, <1>5, <1>6 DEF ReportInv

\* The turn a stopper took is told about, unless the parent's interrupt took it.
LEMMA ToldReport ==
    ASSUME TypeInv, ReportInv, NEW k \in Stoppers, Interrupted(k) \/ Closed(k)
    PROVE  ReportInv'
<1>0. Kind
  BY Kinds
<1>1. /\ UNCHANGED <<act, silent, orphan, task, hand>> /\ Goto(k, "done") /\ pc[k] = "tell"
      /\ \A j \in Stoppers : j # k => taken'[j] = taken[j] /\ dropped'[j] = dropped[j]
  BY DEF Interrupted, Closed, Settled, actor, turns, history, TypeInv, StopTypes
<1>2. \A j \in Procs : pc'[j] = IF j = k THEN "done" ELSE pc[j]
  BY <1>1 DEF TypeInv, PcTypes, Goto
<1>3. \A t \in Msgs : told[t] > 0 => told'[t] > 0
  BY DEF Interrupted, Closed, Tells, TypeInv, AgentTypes, StopTypes
<1>4. \A t \in Msgs : t = taken[k] => told'[t] > 0 \/ t \in silent
  <2>1. CASE dropped[k]
    BY <1>0, <1>1, <2>1 DEF Kind, ReportInv, DroppedSilent
  <2>2. CASE ~dropped[k]
    <3> SUFFICES ASSUME taken[k] \in Msgs
                 PROVE  told'[taken[k]] > 0
      OBVIOUS
    <3>1. told' = [told EXCEPT ![taken[k]] = @ + 1]
      BY <1>0, <2>2 DEF Kind, Interrupted, Closed, Tells
    <3> QED BY <3>1 DEF TypeInv, AgentTypes
  <2> QED BY <2>1, <2>2
<1>5. \A t \in Msgs : Telling(t) => Telling(t)' \/ told'[t] > 0 \/ t \in silent
  BY <1>0, <1>1, <1>2, <1>4 DEF Kind, Telling
<1>6. \A t : Begun(t)' => Begun(t)
  BY <1>0, <1>1, BegunKept DEF Kind
<1>7. KnownAccounted'
  BY <1>1, <1>3, <1>5, <1>6 DEF ReportInv, KnownAccounted, Known, Accounted
<1>8. ReportedTold'
  BY <1>1, <1>3 DEF ReportInv, ReportedTold
<1>9. DroppedSilent'
  BY <1>0, <1>1, <1>2 DEF Kind, ReportInv, DroppedSilent
<1> QED BY <1>7, <1>8, <1>9 DEF ReportInv

LEMMA StepReport == ASSUME TypeInv, PlacedOnce, ReportInv, [Next]_vars PROVE ReportInv'
<1>1. CASE \E s \in Senders : Message(s)
  BY <1>1, QuietReportSteps
<1>2. CASE \E p \in Starts : Start(p)
  BY <1>2, QuietReportSteps, BeginReport, TakeBackReport, LaunchReport DEF Start
<1>3. CASE Spawn
  BY <1>3, QuietReportSteps, FailStartupReport DEF Spawn
<1>4. CASE \E t \in Msgs : Turn(t)
  BY <1>4, TurnReport
<1>5. CASE \E t \in Msgs : Followup(t)
  BY <1>5, QuietReportSteps, PopReport, ChainedReport DEF Followup
<1>6. CASE \E k \in Stoppers : Stop(k)
  BY <1>6, QuietReportSteps, TakeReport, ToldReport DEF Stop
<1>7. CASE Rest \/ UNCHANGED vars
  BY <1>7 DEF Rest, vars, agent, actor, turns, procs, stops, history, ReportInv, KnownAccounted,
              ReportedTold, DroppedSilent, Known, Begun, Accounted, Telling
<1> QED BY <1>1, <1>2, <1>3, <1>4, <1>5, <1>6, <1>7 DEF Next

\* Of every turn that is over the parent has heard: the task tells before it is
\* over, and whoever takes the active turn from the actor tells in its place
\* (agents.rs:1014, 1259).
THEOREM OverReported == Spec => []OverIsReported
<1>1. Init => ReportInv
  BY InitReport
<1>2. TypeInv /\ PlacedOnce /\ ReportInv /\ [Next]_vars => ReportInv'
  BY StepReport
<1>3. ReportInv => OverIsReported
  BY DEF ReportInv, KnownAccounted, Known, Accounted, OverIsReported, Over, None
<1> QED BY <1>1, <1>2, <1>3, TypesHold, PlacesHold, PTL DEF Spec

(***************************************************************************)
(* The turn a stopper waits for is past its query, or told to stop, or     *)
(* still registered when the stopper has only signalled it.                *)
(***************************************************************************)
Dead(t) == task[t] \notin {None, "spawned", "query"} \/ t \in aborting \cup orphan

RegHasTask == reg # None => task[reg] # None
Halts(k) ==
    target[k] # None =>
        /\ pc[k] = "force" => Dead(target[k]) \/ reg = target[k]
        /\ pc[k] \in {"take", "tell"} => Dead(target[k])

Halting == RegHasTask /\ \A k \in Stoppers : Halts(k)

\* A turn is given its task once, and never goes back in its query.
LaunchedFrom(p) ==
    /\ p \in Starts /\ Head(hand[p]) \in Msgs /\ task[Head(hand[p])] = None
    /\ Launched(Head(hand[p])) /\ UNCHANGED aborting

LEMMA LaunchesNext ==
    ASSUME TypeInv, PlacedOnce, (\E p \in Starts : Launch(p)) \/ \E t \in Msgs : Chained(t)
    PROVE  \E p \in Starts : LaunchedFrom(p)
<1>1. CASE \E p \in Starts : Launch(p)
  BY <1>1, LaunchPlaced DEF LaunchedFrom, Launch
<1>2. CASE \E t \in Msgs : Chained(t)
  BY <1>2, ChainedPlaced, Kinds DEF Kind, LaunchedFrom, Chained
<1> QED BY <1>1, <1>2

\* What a step that launches no turn may do to tasks and handles.
LEMMA OtherSteps ==
    ASSUME TypeInv, Next, ~\E p \in Starts : Launch(p), ~\E t \in Msgs : Chained(t)
    PROVE  /\ \A t \in Msgs : task[t] = None <=> task'[t] = None
           /\ \A t \in Msgs : task[t] \notin {None, "spawned", "query"} =>
                  task'[t] \notin {None, "spawned", "query"}
           /\ \A t \in aborting \ aborting' : task'[t] \in {"over", "aborted"}
           /\ orphan \subseteq orphan'
           /\ reg' \in {reg, None}
           /\ \A t \in Msgs : reg = t => reg' = t \/ Dead(t)'
<1> DEFINE P == /\ \A t \in Msgs : task[t] = None <=> task'[t] = None
                /\ \A t \in Msgs : task[t] \notin {None, "spawned", "query"} =>
                       task'[t] \notin {None, "spawned", "query"}
                /\ \A t \in aborting \ aborting' : task'[t] \in {"over", "aborted"}
                /\ orphan \subseteq orphan'
                /\ reg' \in {reg, None}
                /\ \A t \in Msgs : reg = t => reg' = t \/ Dead(t)'
<1>0. Kind
  BY Kinds
<1>1. ASSUME UNCHANGED <<task, aborting, reg>>, orphan \subseteq orphan'
      PROVE  P
  BY <1>1
<1>2. CASE \E s \in Senders : Message(s)
  BY <1>1, <1>2 DEF Message, Send, Check, turns, registry, history
<1>3. CASE \E p \in Starts : Start(p)
  BY <1>1, <1>3 DEF Start, Drain, Refuse, Enqueue, Begin, Activated, Forget, TakeBack, turns,
                    registry, history
<1>4. CASE Spawn
  BY <1>1, <1>4 DEF Spawn, Hook, Started, List, FailStartup, Forget, turns, registry, history
<1>5. CASE \E t \in Msgs : Followup(t)
  BY <1>1, <1>5 DEF Followup, PostTurn, PopNothing, Pop, Activated, Forget, Accept, turns,
                    registry, history
<1>6. ASSUME NEW t \in Msgs, Turn(t)
      PROVE  P
  <2>1. CASE ClearHandles(t)
    <3>1. /\ \A m \in Msgs : task'[m] = IF m = t THEN "over" ELSE task[m]
          /\ task[t] = "merged" /\ aborting' = aborting \ {t} /\ reg' = None
          /\ orphan' = IF reg \notin {None, t} THEN orphan \cup {reg} ELSE orphan
      BY <2>1 DEF ClearHandles, Step, Deregister, Unhandled, TypeInv, TurnTypes
    <3>2. \A m \in Msgs : reg = m => m \in orphan' \/ task'[m] = "over"
      BY <1>0, <3>1 DEF Kind
    <3> QED BY <3>1, <3>2 DEF Dead, None
  <2>2. CASE TaskStops(t)
    <3>1. /\ \A m \in Msgs : task'[m] = IF m = t THEN "aborted" ELSE task[m]
          /\ task[t] \in Running /\ aborting' = aborting \ {t} /\ UNCHANGED <<reg, orphan>>
      BY <2>2 DEF TaskStops, Unhandled, history, TypeInv, TurnTypes
    <3> QED BY <3>1 DEF None, Running, Reported
  <2>3. CASE Enter(t) \/ EndQuery(t) \/ Report(t) \/ Merge(t)
    <3>1. /\ UNCHANGED <<reg, aborting>> /\ orphan \subseteq orphan'
          /\ \E to \in {"query", "report", "reportClosed", "recorded", "merged"} :
                 \A m \in Msgs : task'[m] = IF m = t THEN to ELSE task[m]
      BY <2>3 DEF Enter, EndQuery, Report, Merge, Step, Forget, registry, history, TypeInv,
                  TurnTypes
    <3>2. task[t] \in {"spawned", "query", "report", "reportClosed", "recorded"}
          /\ (task'[t] = "query" => task[t] = "spawned")
      BY <2>3 DEF Enter, EndQuery, Report, Merge, Step, TypeInv, TurnTypes
    <3> QED BY <3>1, <3>2 DEF None
  <2> QED BY <1>6, <2>1, <2>2, <2>3 DEF Turn
<1>7. ASSUME NEW k \in Stoppers, Stop(k)
      PROVE  P
  <2>1. CASE ForceOut(k)
    <3>1. UNCHANGED <<task, orphan>> /\ aborting \subseteq aborting' /\ reg' \in {reg, None}
          /\ (reg # reg' => reg \in aborting')
      BY <2>1 DEF ForceOut, Aborted, history
    <3> QED BY <3>1 DEF Dead
  <2>2. CASE ~ForceOut(k)
    BY <1>1, <1>7, <2>2 DEF Stop, Close, InterruptAll, Signal, Take, Interrupted, Closed, turns,
                            registry, history
  <2> QED BY <2>1, <2>2
<1>8. CASE Rest
  BY <1>1, <1>8 DEF Rest, vars, turns, registry, history
<1> QED BY <1>2, <1>3, <1>4, <1>5, <1>6, <1>7, <1>8 DEF Next

LEMMA DeadStays ==
    ASSUME TypeInv, PlacedOnce, Next
    PROVE  /\ \A t \in Msgs : Dead(t) => Dead(t)'
           /\ \A t \in Msgs : reg = t => reg' = t \/ Dead(t)'
           /\ RegHasTask => RegHasTask'
<1>0. Kind
  BY Kinds
<1>1. CASE (\E p \in Starts : Launch(p)) \/ \E t \in Msgs : Chained(t)
  <2>1. PICK p \in Starts : LaunchedFrom(p)
    BY <1>1, LaunchesNext
  <2>2. PICK x \in Msgs : x = Head(hand[p])
    BY <2>1 DEF LaunchedFrom
  <2>3. /\ \A t \in Msgs : task'[t] = IF t = x THEN "spawned" ELSE task[t]
        /\ task[x] = None /\ reg' = x /\ UNCHANGED aborting
        /\ orphan' = IF reg \notin {None, x} THEN orphan \cup {reg} ELSE orphan
    BY <2>1, <2>2 DEF LaunchedFrom, Launched, Deregister, TypeInv, TurnTypes
  <2> QED BY <1>0, <2>3 DEF Kind, Dead, RegHasTask, None
<1>2. CASE ~\E p \in Starts : Launch(p)
  <2>1. CASE ~\E t \in Msgs : Chained(t)
    <3>1. /\ \A t \in Msgs : task[t] = None <=> task'[t] = None
          /\ \A t \in Msgs : task[t] \notin {None, "spawned", "query"} =>
                 task'[t] \notin {None, "spawned", "query"}
          /\ \A t \in aborting \ aborting' : task'[t] \in {"over", "aborted"}
          /\ orphan \subseteq orphan'
          /\ reg' \in {reg, None}
          /\ \A t \in Msgs : reg = t => reg' = t \/ Dead(t)'
      BY <1>2, <2>1, OtherSteps
    <3> QED BY <1>0, <3>1 DEF Kind, Dead, RegHasTask, None, TypeInv, RegTypes
  <2> QED BY <1>1, <2>1
<1> QED BY <1>1, <1>2

LEMMA StopperKept ==
    ASSUME TypeInv, NEW k \in Stoppers, Next, ~Stop(k)
    PROVE  target'[k] = target[k] /\ (pc'[k] \in {"force", "take", "tell"} => pc'[k] = pc[k])
<1>0. Kind
  BY Kinds
<1> DEFINE P == /\ target'[k] = target[k]
                /\ pc'[k] \in {"force", "take", "tell"} => pc'[k] = pc[k]
<1>1. ASSUME NEW q \in Procs, NEW l, l \notin {"force", "take", "tell"}, Goto(q, l),
             UNCHANGED target
      PROVE  P
  BY <1>0, <1>1 DEF Kind, TypeInv, PcTypes, Goto
<1>2. CASE \E s \in Senders : Message(s)
  BY <1>0, <1>1, <1>2 DEF Kind, Message, Send, Check, stops
<1>3. CASE \E p \in Starts : Start(p)
  BY <1>0, <1>1, <1>3 DEF Kind, Start, Drain, Refuse, Refused, Enqueue, NextOf, Begin, TakeBack,
                          Launch, stops
<1>4. CASE Spawn
  BY <1>0, <1>1, <1>4 DEF Kind, Spawn, Hook, Started, AfterStart, List, FailStartup, stops
<1>5. CASE \E t \in Msgs : Followup(t)
  BY <1>0, <1>1, <1>5 DEF Kind, Followup, PostTurn, PopNothing, Pop, Chained, Accept, AfterQueue,
                          stops
<1>6. CASE \E t \in Msgs : Turn(t)
  BY <1>0, <1>1, <1>6 DEF Kind, Turn, Enter, EndQuery, Report, Merge, ClearHandles, TaskStops,
                          stops, procs
<1>7. CASE \E j \in Stoppers : Stop(j)
  <2>1. PICK j \in Stoppers : Stop(j) /\ j # k
    BY <1>7
  <2>2. \E l : Goto(j, l)
    BY <2>1 DEF Stop, Close, InterruptAll, Signal, ForceOut, Take, Interrupted, Closed
  <2>3. target'[k] = target[k]
    BY <2>1 DEF Stop, Close, InterruptAll, Signal, ForceOut, Take, Interrupted, Closed, Settled,
                stops, TypeInv, StopTypes
  <2>4. pc'[k] = pc[k]
    BY <1>0, <2>1, <2>2 DEF Kind, TypeInv, PcTypes, Goto
  <2> QED BY <2>3, <2>4
<1>8. CASE Rest
  BY <1>8 DEF Rest, vars, stops, procs
<1> QED BY <1>2, <1>3, <1>4, <1>5, <1>6, <1>7, <1>8 DEF Next

LEMMA StopHalts ==
    ASSUME TypeInv, PlacedOnce, Halting, NEW k \in Stoppers, Stop(k), Next
    PROVE  Halts(k)'
<1>0. Kind
  BY Kinds
<1>1. target[k] \in Msgs \cup {None} /\ \A t \in Msgs : Dead(t) => Dead(t)'
  BY DeadStays DEF TypeInv, StopTypes
<1>2. ASSUME NEW l, Goto(k, l)
      PROVE  pc'[k] = l
  BY <1>0, <1>2 DEF Kind, TypeInv, PcTypes, Goto
<1>3. CASE Close(k) \/ InterruptAll(k) \/ Interrupted(k) \/ Closed(k)
  <2>1. pc'[k] \in {"signal", "done"}
    BY <1>2, <1>3 DEF Close, InterruptAll, Interrupted, Closed
  <2> QED BY <2>1 DEF Halts
<1>4. CASE Signal(k)
  <2>1. pc'[k] = "force" /\ target'[k] = reg /\ reg' = reg
    BY <1>2, <1>4 DEF Signal, TypeInv, StopTypes
  <2> QED BY <2>1 DEF Halts
<1>5. CASE ForceOut(k)
  <2>1. pc'[k] = "take" /\ pc[k] = "force" /\ target' = target
    BY <1>2, <1>5 DEF ForceOut, stops
  <2>2. ASSUME target[k] # None, reg = target[k]
        PROVE  Dead(target[k])'
    BY <1>5, <2>1, <2>2 DEF ForceOut, Aborted, Dead
  <2> QED BY <1>1, <2>1, <2>2 DEF Halting, Halts
<1>6. CASE Take(k)
  <2>1. pc'[k] = "tell" /\ pc[k] = "take" /\ target' = target
    BY <1>2, <1>6 DEF Take
  <2> QED BY <1>1, <2>1 DEF Halting, Halts
<1> QED BY <1>3, <1>4, <1>5, <1>6 DEF Stop

LEMMA StepHalts == ASSUME TypeInv, PlacedOnce, Halting, [Next]_vars PROVE Halting'
<1>1. CASE Next
  <2>1. RegHasTask'
    BY <1>1, DeadStays DEF Halting
  <2>2. ASSUME NEW k \in Stoppers, ~Stop(k)
        PROVE  Halts(k)'
    <3>1. target[k] \in Msgs \cup {None}
      BY DEF TypeInv, StopTypes
    <3> QED BY <1>1, <2>2, <3>1, DeadStays, StopperKept DEF Halting, Halts
  <2> QED BY <1>1, <2>1, <2>2, StopHalts DEF Halting
<1>2. CASE UNCHANGED vars
  BY <1>2 DEF vars, turns, registry, procs, stops, history, Halting, RegHasTask, Halts, Dead
<1> QED BY <1>1, <1>2

\* A stopper that returns leaves no turn in its query that was there when it
\* looked: it has told it to stop, unless its handle was taken by a later turn
\* (agents/lifecycle.rs:121).
THEOREM StopEnds == Spec => []StopEndsTurn
<1>1. Init => Halting
  BY DEF Init, Halting, RegHasTask, Halts
<1>2. TypeInv /\ PlacedOnce /\ Halting /\ [Next]_vars => Halting'
  BY StepHalts
<1>3. Halting => StopEndsTurn
  BY DEF Halting, Halts, Dead, StopEndsTurn
<1> QED BY <1>1, <1>2, <1>3, TypesHold, PlacesHold, PTL DEF Spec

(***************************************************************************)
(* A child nobody has written to has its first turn at most; and once it   *)
(* is closed, either the spawn task, or a stopper, has yet to come past it, *)
(* or it is at rest.                                                       *)
(***************************************************************************)
Untouched == \A s \in Senders : pc[s] = "send"
RunAborts == \A t \in Msgs : task[t] \in Running => t \in aborting

NothingWaits == mail = <<>> /\ queue = <<>>
FirstOnly ==
    /\ act \in {None, Starter} /\ reg \in {None, Starter} /\ snap \subseteq {Starter}
    /\ \A s \in Senders : task[s] = None
    /\ \A p \in Starts : pc[p] \in {"reserve", "launch", "chained"} => p = Starter
FirstAhead ==
    /\ pc[Starter] \in {"hook", "reserve", "launch"} =>
           hand[Starter] = <<Starter>> /\ task[Starter] = None
    /\ pc[Starter] \in {"hook", "reserve"} => act = None /\ reg = None /\ snap = {}
FirstHeld == task[Starter] \in Running => reg = Starter \/ Starter \in aborting
Alone == NothingWaits /\ FirstOnly /\ FirstAhead /\ FirstHeld

Closes ==
    \/ pc[Starter] \in {"hook", "reserve", "launch", "mark", "close"}
    \/ \E k \in Stoppers : pc[k] \in {"signal", "force"}
    \/ RunAborts /\ (act = None \/ \E k \in Stoppers : pc[k] = "take")

QuietInv == Untouched => Alone /\ (closing => Closes)

LEMMA SentStays ==
    ASSUME TypeInv, Next
    PROVE  \A s \in Senders : pc'[s] = "send" => pc[s] = "send"
<1>0. Kind
  BY Kinds
<1> DEFINE P == \A s \in Senders : pc'[s] = "send" => pc[s] = "send"
<1>1. ASSUME NEW q \in Procs, NEW l, l # "send", Goto(q, l)
      PROVE  P
  BY <1>0, <1>1 DEF Kind, TypeInv, PcTypes, Goto
<1>2. CASE \E s \in Senders : Message(s)
  BY <1>0, <1>1, <1>2 DEF Kind, Message, Send, Check
<1>3. CASE \E p \in Starts : Start(p)
  BY <1>0, <1>1, <1>3 DEF Kind, Start, Drain, Refuse, Refused, Enqueue, NextOf, Begin, TakeBack,
                          Launch
<1>4. CASE Spawn
  BY <1>0, <1>1, <1>4 DEF Kind, Spawn, Hook, Started, AfterStart, List, FailStartup
<1>5. CASE \E t \in Msgs : Followup(t)
  BY <1>0, <1>1, <1>5 DEF Kind, Followup, PostTurn, PopNothing, Pop, Chained, Accept, AfterQueue
<1>6. CASE \E t \in Msgs : Turn(t)
  BY <1>0, <1>1, <1>6 DEF Kind, Turn, Enter, EndQuery, Report, Merge, ClearHandles, TaskStops,
                          procs
<1>7. CASE \E k \in Stoppers : Stop(k)
  BY <1>0, <1>1, <1>7 DEF Kind, Stop, Close, InterruptAll, Signal, ForceOut, Take, Interrupted,
                          Closed
<1>8. CASE Rest
  BY <1>8 DEF Rest, vars, procs
<1> QED BY <1>2, <1>3, <1>4, <1>5, <1>6, <1>7, <1>8 DEF Next

LEMMA Arrives ==
    ASSUME TypeInv, NEW q \in Procs, NEW l, Goto(q, l)
    PROVE  \A r \in Procs : pc'[r] = IF r = q THEN l ELSE pc[r]
BY DEF TypeInv, PcTypes, Goto

\* The first turn is admitted, or refused; post-turn scheduling drains nothing.
LEMMA QuietStart ==
    ASSUME TypeInv, Untouched, Alone, closing => Closes, NEW p \in Starts, Start(p)
    PROVE  Alone' /\ (closing' => Closes')
<1>0. Kind /\ pc[p] # "send" /\ pc[p] \in {"drain", "reserve", "launch"}
  BY Kinds DEF Start, Drain, Refuse, Enqueue, Begin, TakeBack, Launch
<1>1. CASE Drain(p)
  <2>1. /\ mail' = <<>> /\ p # Starter /\ Goto(p, "done") /\ p \in Procs
        /\ UNCHANGED <<queue, act, reg, snap, task, aborting, closing>>
    BY <1>0, <1>1, AgentsAssumption DEF Kind, Drain, Alone, NothingWaits, agent, actor, registry,
                                        turns, Drains, Posts
  <2>2. hand'[Starter] = hand[Starter]
    BY <1>0, <1>1, <2>1 DEF Kind, Drain, TypeInv, HandTypes
  <2>3. /\ \A r \in Procs : pc'[r] = IF r = p THEN "done" ELSE pc[r]
        /\ p \notin Stoppers
    BY <1>0, <1>1, <2>1, Arrives, AgentsAssumption DEF Kind, Drain, Drains, Untouched, Stoppers
  <2> QED BY <1>0, <2>1, <2>2, <2>3 DEF Kind, Alone, NothingWaits, FirstOnly, FirstAhead,
                                       FirstHeld, Closes, RunAborts
<1>2. ASSUME pc[p] \in {"reserve", "launch"}
      PROVE  /\ p = Starter /\ Starter \in Procs /\ hand[Starter] = <<Starter>>
             /\ task[Starter] = None /\ Head(hand[Starter]) = Starter
             /\ \A t \in Msgs : task[t] = None
  BY <1>0, <1>2 DEF Kind, Alone, FirstOnly, FirstAhead, Msgs
<1>3. CASE Refuse(p) \/ TakeBack(p)
  <2>1. /\ p = Starter /\ p \in Procs /\ Goto(Starter, "fail") /\ act' = None
        /\ UNCHANGED <<mail, queue, reg, snap, task, aborting, closing>>
        /\ \A t \in Msgs : task[t] = None
    BY <1>0, <1>2, <1>3 DEF Refuse, TakeBack, Refused, Alone, FirstOnly, FirstAhead, agent, actor,
                            registry, turns
  <2>2. \A r \in Procs : pc'[r] = IF r = Starter THEN "fail" ELSE pc[r]
    BY <2>1, Arrives
  <2>3. RunAborts'
    BY <2>1 DEF RunAborts, Running, Reported, None
  <2> QED BY <1>0, <2>1, <2>2, <2>3 DEF Kind, Alone, NothingWaits, FirstOnly, FirstAhead,
                                       FirstHeld, RunAborts, Closes
<1>4. CASE Enqueue(p)
  BY <1>0, <1>2, <1>4 DEF Enqueue, Busy, Alone, FirstAhead
<1>5. CASE Begin(p)
  <2>1. /\ p = Starter /\ p \in Procs /\ Goto(Starter, "launch") /\ act' = Starter
        /\ UNCHANGED <<mail, queue, reg, snap, task, hand>>
        /\ hand[Starter] = <<Starter>> /\ task[Starter] = None
    BY <1>2, <1>5 DEF Begin, Activated, registry, turns
  <2>2. \A r \in Procs : pc'[r] = IF r = Starter THEN "launch" ELSE pc[r]
    BY <2>1, Arrives
  <2> QED BY <1>0, <2>1, <2>2 DEF Kind, Alone, NothingWaits, FirstOnly, FirstAhead, FirstHeld,
                                 Closes, Running, Reported, None
<1>6. CASE Launch(p)
  <2>1. /\ p = Starter /\ p \in Procs /\ Goto(Starter, "mark") /\ reg' = Starter
        /\ UNCHANGED <<mail, queue, act, snap>>
        /\ task' = [task EXCEPT ![Starter] = "spawned"]
    BY <1>2, <1>6 DEF Launch, NextOf, Launched, actor
  <2>2. \A r \in Procs : pc'[r] = IF r = Starter THEN "mark" ELSE pc[r]
    BY <2>1, Arrives
  <2>3. \A s \in Senders : task'[s] = task[s]
    BY <1>0, <2>1 DEF Kind, TypeInv, TurnTypes
  <2> QED BY <1>0, <2>1, <2>2, <2>3 DEF Kind, Alone, NothingWaits, FirstOnly, FirstAhead,
                                       FirstHeld, Closes
<1> QED BY <1>1, <1>3, <1>4, <1>5, <1>6 DEF Start

LEMMA QuietSpawn ==
    ASSUME TypeInv, Alone, closing => Closes, Spawn
    PROVE  Alone' /\ (closing' => Closes')
<1>0. Kind /\ Starter \in Procs
  BY Kinds DEF Kind
<1>1. /\ UNCHANGED <<mail, queue, reg, snap, task, hand, aborting, closing>>
      /\ act' \in {act, None}
  BY DEF Spawn, Hook, Started, List, FailStartup, agent, actor, registry, turns
<1>2. CASE Hook
  <2>1. /\ \A r \in Procs : pc'[r] = IF r = Starter THEN IF closing THEN "done" ELSE "reserve"
                                                     ELSE pc[r]
        /\ pc[Starter] = "hook" /\ act' = act
    BY <1>0, <1>2, Arrives DEF Hook, actor
  <2>2. \A t \in Msgs : task[t] = None
    BY <2>1 DEF Alone, FirstOnly, FirstAhead, Msgs
  <2>3. RunAborts' /\ act' = None
    BY <1>1, <2>1, <2>2 DEF RunAborts, Running, Reported, None, Alone, FirstAhead
  <2> QED BY <1>0, <1>1, <2>1, <2>3 DEF Kind, Alone, NothingWaits, FirstOnly, FirstAhead,
                                       FirstHeld, Closes, RunAborts
<1>3. CASE Started
  <2>1. /\ \A r \in Procs : pc'[r] = IF r = Starter THEN IF closing THEN "close" ELSE "list"
                                                     ELSE pc[r]
        /\ act' = act
    BY <1>0, <1>3, Arrives DEF Started, AfterStart, actor
  <2> QED BY <1>0, <1>1, <2>1 DEF Kind, Alone, NothingWaits, FirstOnly, FirstAhead, FirstHeld,
                                 Closes
<1>4. CASE List \/ FailStartup
  <2>1. /\ \A r \in Procs : pc'[r] = IF r = Starter THEN "done" ELSE pc[r]
        /\ pc[Starter] \in {"list", "fail"}
    BY <1>0, <1>4, Arrives DEF List, FailStartup
  <2> QED BY <1>0, <1>1, <2>1 DEF Kind, Alone, NothingWaits, FirstOnly, FirstAhead, FirstHeld,
                                 Closes, RunAborts
<1> QED BY <1>2, <1>3, <1>4 DEF Spawn

LEMMA QuietTurn ==
    ASSUME TypeInv, Alone, closing => Closes, NEW t \in Msgs, Turn(t)
    PROVE  Alone' /\ (closing' => Closes')
<1>0. Kind /\ Starter \in Procs
  BY Kinds DEF Kind
<1>1. t = Starter /\ pc[Starter] \notin {"hook", "reserve", "launch"} /\ task[Starter] \in Running
  <2>1. task[t] \in Running
    BY DEF Turn, Enter, EndQuery, Report, Merge, ClearHandles, TaskStops, Step, Running, Reported
  <2> QED BY <2>1 DEF Running, Reported, None, Alone, FirstOnly, FirstAhead, Msgs
<1>2. /\ UNCHANGED <<mail, queue, closing>> /\ act' \in {act, None} /\ reg' \in {reg, None}
      /\ snap' \subseteq snap \cup {Starter}
      /\ \A s \in Senders : task'[s] = task[s]
  BY <1>0, <1>1 DEF Kind, Turn, Enter, EndQuery, Report, Merge, ClearHandles, TaskStops, Step,
                    agent, actor, registry, TypeInv, TurnTypes
<1>3. \A k \in Stoppers : pc'[k] = pc[k]
  <2>1. CASE ClearHandles(t)
    <3>1. Post(t) \in Procs /\ Post(t) \notin Stoppers
      BY <1>0, AgentsAssumption DEF Kind, Posts
    <3> QED BY <1>0, <2>1, <3>1, Arrives DEF Kind, ClearHandles
  <2>2. CASE ~ClearHandles(t)
    BY <2>2 DEF Turn, Enter, EndQuery, Report, Merge, TaskStops, procs
  <2> QED BY <2>1, <2>2
<1>4. \A p \in Starts : pc'[p] \in {"reserve", "launch", "chained"} => pc[p] = pc'[p]
  <2>1. CASE ClearHandles(t)
    BY <1>0, <2>1, Arrives DEF Kind, ClearHandles
  <2>2. CASE ~ClearHandles(t)
    BY <2>2 DEF Turn, Enter, EndQuery, Report, Merge, TaskStops, procs
  <2> QED BY <2>1, <2>2
<1>5. /\ task'[Starter] \in Running => reg' = reg /\ aborting' = aborting
      /\ \A m \in Msgs : m # Starter => task'[m] \notin Running
  <2>1. CASE ClearHandles(t) \/ TaskStops(t)
    <3>1. task'[Starter] \in {"over", "aborted"}
      BY <1>1, <2>1 DEF ClearHandles, TaskStops, Step, TypeInv, TurnTypes
    <3> QED BY <1>2, <3>1 DEF Running, Reported, Alone, FirstOnly, Msgs, None
  <2>2. CASE ~(ClearHandles(t) \/ TaskStops(t))
    <3>1. UNCHANGED <<reg, aborting>>
      BY <2>2 DEF Turn, Enter, EndQuery, Report, Merge, registry
    <3> QED BY <1>2, <3>1 DEF Running, Reported, Alone, FirstOnly, Msgs, None
  <2> QED BY <2>1, <2>2
<1>6. Alone'
  BY <1>0, <1>1, <1>2, <1>3, <1>4, <1>5 DEF Kind, Alone, NothingWaits, FirstOnly, FirstAhead,
                                            FirstHeld
<1>7. RunAborts => RunAborts'
  BY <1>0, <1>1, <1>5 DEF Kind, RunAborts
<1> QED BY <1>0, <1>2, <1>3, <1>6, <1>7 DEF Kind, Closes

LEMMA QuietFollowup ==
    ASSUME TypeInv, Alone, closing => Closes, NEW t \in Msgs, Followup(t)
    PROVE  Alone' /\ (closing' => Closes')
<1>0. Kind /\ Post(t) \in Procs /\ Post(t) \notin Stoppers
  BY Kinds, AgentsAssumption DEF Kind, Posts
<1>1. ~Pop(t) /\ ~Chained(t)
  BY <1>0 DEF Kind, Pop, Chained, Alone, NothingWaits, FirstOnly
<1>2. /\ UNCHANGED <<mail, queue, act, reg, snap, task, hand, aborting, closing>>
      /\ \E l \in {"done", "chain", "accept", "drain"} : Goto(Post(t), l)
  BY <1>1 DEF Followup, PostTurn, PopNothing, Accept, AfterQueue, agent, actor, registry, turns
<1>3. PICK l \in {"done", "chain", "accept", "drain"} : Goto(Post(t), l)
  BY <1>2
<1>4. \A r \in Procs : pc'[r] = IF r = Post(t) THEN l ELSE pc[r]
  BY <1>0, <1>3, Arrives
<1> QED BY <1>0, <1>2, <1>4 DEF Kind, Alone, NothingWaits, FirstOnly, FirstAhead, FirstHeld,
                               Closes, RunAborts

LEMMA QuietStop ==
    ASSUME TypeInv, Alone, closing => Closes, NEW k \in Stoppers, Stop(k)
    PROVE  Alone' /\ (closing' => Closes')
<1>0. Kind /\ k \in Procs
  BY Kinds DEF Kind
<1>1. UNCHANGED <<mail, queue, task, hand>> /\ act' \in {act, None}
  BY DEF Stop, Close, InterruptAll, Signal, ForceOut, Take, Interrupted, Closed, actor, turns
<1>2. /\ pc[k] \in {"stop", "close", "signal", "force", "take", "tell"}
      /\ pc'[k] \in {"signal", "force", "take", "tell", "done"}
      /\ \A r \in Procs : r # k => pc'[r] = pc[r]
  <2>1. \E l \in {"signal", "force", "take", "tell", "done"} : Goto(k, l)
    BY DEF Stop, Close, InterruptAll, Signal, ForceOut, Take, Interrupted, Closed
  <2> QED BY <1>0, <2>1, Arrives DEF Stop, Close, InterruptAll, Signal, ForceOut, Take,
                                     Interrupted, Closed
<1>3. /\ reg' \in {reg, None} /\ snap' \subseteq snap /\ aborting \subseteq aborting'
      /\ (reg' # reg => reg \in aborting')
  BY DEF Stop, Close, InterruptAll, Signal, ForceOut, Aborted, Take, Interrupted, Closed,
         registry, turns
<1>4. Alone'
  BY <1>0, <1>1, <1>2, <1>3 DEF Kind, Alone, NothingWaits, FirstOnly, FirstAhead, FirstHeld
<1>5. CASE Close(k) \/ InterruptAll(k) \/ Signal(k)
  <2>1. pc'[k] \in {"signal", "force"}
    BY <1>0, <1>5, Arrives DEF Close, InterruptAll, Signal
  <2> QED BY <1>4, <2>1 DEF Closes
<1>6. CASE ForceOut(k)
  <2>1. pc'[k] = "take"
    BY <1>0, <1>6, Arrives DEF ForceOut
  <2>2. RunAborts'
    <3>1. task[Starter] \in Running => Starter \in aborting'
      BY <1>0, <1>3, <1>6 DEF Kind, Alone, FirstHeld, ForceOut, Aborted
    <3> QED BY <1>1, <3>1 DEF RunAborts, Alone, FirstOnly, Msgs, Running, Reported, None
  <2> QED BY <1>4, <2>1, <2>2 DEF Closes
<1>7. CASE Take(k) \/ Interrupted(k) \/ Closed(k)
  <2>1. UNCHANGED <<closing, aborting>> /\ pc[k] \in {"take", "tell"}
        /\ (pc[k] = "take" => act' = None) /\ (pc[k] = "tell" => act' = act)
    BY <1>7 DEF Take, Interrupted, Closed, agent, actor, turns
  <2>2. RunAborts => RunAborts'
    BY <1>1, <2>1 DEF RunAborts
  <2> QED BY <1>0, <1>1, <1>2, <1>4, <2>1, <2>2 DEF Kind, Closes
<1> QED BY <1>5, <1>6, <1>7 DEF Stop

LEMMA StepQuiet == ASSUME TypeInv, QuietInv, [Next]_vars PROVE QuietInv'
<1> SUFFICES ASSUME Untouched'
             PROVE  Alone' /\ (closing' => Closes')
  BY DEF QuietInv
<1>0. Kind
  BY Kinds
<1>1. Untouched /\ Alone /\ (closing => Closes)
  BY SentStays DEF Untouched, QuietInv, vars, procs
<1>2. CASE \E s \in Senders : Message(s)
  <2>1. \E s \in Senders : pc'[s] # "send"
    BY <1>0, <1>2, Arrives DEF Kind, Message, Send, Check
  <2> QED BY <2>1 DEF Untouched
<1>3. CASE Rest \/ UNCHANGED vars
  BY <1>1, <1>3 DEF Rest, vars, agent, actor, registry, turns, procs, Alone, NothingWaits,
                    FirstOnly, FirstAhead, FirstHeld, Closes, RunAborts
<1> QED BY <1>1, <1>2, <1>3, QuietStart, QuietSpawn, QuietTurn, QuietFollowup, QuietStop
        DEF Next

LEMMA InitQuiet == Init => QuietInv
<1> SUFFICES ASSUME Init PROVE QuietInv
  OBVIOUS
<1>0. Kind
  BY Kinds
<1>1. /\ \A p \in Starts : pc[p] \notin {"reserve", "launch", "chained"}
      /\ hand[Starter] = <<Starter>> /\ \A t \in Msgs : task[t] = None
      /\ act = None /\ reg = None /\ snap = {} /\ mail = <<>> /\ queue = <<>> /\ ~closing
  BY <1>0 DEF Kind, Init, None
<1> QED BY <1>0, <1>1 DEF Kind, QuietInv, Alone, NothingWaits, FirstOnly, FirstAhead, FirstHeld,
                         Running, Reported, None

\* Whenever the close meets the first turn, before its hook, under its
\* admission or while it runs, one of the two sides sees the other: the child
\* ends with no turn but one that was told to stop (agents.rs:365, 1239).
THEOREM QuietWhenClosed == Spec => []ClosedIsQuiet
<1>1. Init => QuietInv
  BY InitQuiet
<1>2. TypeInv /\ QuietInv /\ [Next]_vars => QuietInv'
  BY StepQuiet
<1>3. QuietInv => ClosedIsQuiet
  BY Kinds DEF Kind, QuietInv, Untouched, Closes, RunAborts, ClosedIsQuiet
<1> QED BY <1>1, <1>2, <1>3, TypesHold, PTL DEF Spec

(***************************************************************************)
(* Until a turn fails, is aborted or is refused, whatever the actor and    *)
(* the registry name has a task that runs, or is about to get one; and     *)
(* what waits is served when a turn ends, or by whoever is on the way.     *)
(***************************************************************************)
RegRuns == reg # None => task[reg] \in Running
ActRuns == act # None => task[act] \in Running \ {"merged"} \/ Begun(act)
SnapRuns == \A t \in snap : task[t] \in Running \/ Begun(t)
Runs == RegRuns /\ ActRuns /\ SnapRuns

Served ==
    \/ \E t \in Msgs : task[t] \in Running \/ pc[Post(t)] \in {"check", "chain"}
    \/ \E p \in Starts : pc[p] \in {"launch", "chained"}
Visited ==
    \/ \E p \in Drains : pc[p] = "drain"
    \/ \E s \in Senders : pc[s] = "check"
    \/ \E t \in Msgs : pc[Post(t)] = "accept"

Relays ==
    /\ aborting = {} /\ Runs
    /\ queue # <<>> => Served
    /\ mail # <<>> => Served \/ Visited

\* Post-turn scheduling follows the turn.
PostsAfter == \A t \in Msgs : pc[Post(t)] # None => task[t] = "over"

RelayInv == PostsAfter /\ (gaveUp \/ (pc[Starter] # "fail" /\ Relays))

LEMMA RunsServed ==
    ASSUME TypeInv, Runs, reg # None \/ act # None \/ snap # {}
    PROVE  Served
BY DEF TypeInv, RegTypes, ActorTypes, Runs, RegRuns, ActRuns, SnapRuns, Begun, Served

LEMMA BegunStays ==
    ASSUME TypeInv, NEW q \in Procs, NEW l, Goto(q, l), pc[q] \notin {"launch", "chained"},
           \A p \in Starts : p # q => hand'[p] = hand[p]
    PROVE  \A t : Begun(t) => Begun(t)'
BY Kinds DEF Kind, TypeInv, PcTypes, Begun, Goto

LEMMA RunsKept ==
    ASSUME TypeInv, Runs, NEW q \in Procs, NEW l, Goto(q, l), pc[q] \notin {"launch", "chained"},
           \A p \in Starts : p # q => hand'[p] = hand[p],
           reg' \in {reg, None}, act' \in {act, None}, snap' \subseteq snap, UNCHANGED task
    PROVE  Runs'
BY BegunStays DEF TypeInv, RegTypes, ActorTypes, Runs, RegRuns, ActRuns, SnapRuns

LEMMA ServedKept ==
    ASSUME TypeInv, Served, NEW q \in Procs, NEW l, Goto(q, l), pc[q] \notin {"launch", "chained"},
           q \in Posts /\ pc[q] \in {"check", "chain"} => l \in {"check", "chain", "chained"},
           \A t \in Msgs : task[t] \in Running => task'[t] \in Running
    PROVE  Served'
<1>0. Kind
  BY Kinds
<1>1. \A r \in Procs : pc'[r] = IF r = q THEN l ELSE pc[r]
  BY Arrives
<1>2. CASE \E t \in Msgs : task[t] \in Running
  BY <1>2 DEF Served
<1>3. ASSUME NEW t \in Msgs, pc[Post(t)] \in {"check", "chain"}
      PROVE  Served'
  BY <1>0, <1>1, <1>3 DEF Kind, Served
<1>4. CASE \E p \in Starts : pc[p] \in {"launch", "chained"}
  BY <1>0, <1>1, <1>4 DEF Kind, Served
<1> QED BY <1>2, <1>3, <1>4 DEF Served

\* A head that is about to be launched has no task yet.
LEMMA BegunFresh ==
    ASSUME TypeInv, PlacedOnce
    PROVE  \A t : Begun(t) => t \in Msgs /\ task[t] = None
<1> SUFFICES ASSUME NEW p \in Starts, pc[p] \in {"launch", "chained"}
             PROVE  Head(hand[p]) \in Msgs /\ task[Head(hand[p])] = None
  BY DEF Begun
<1>1. Head(hand[p]) \in Msgs /\ Head(hand[p]) \in Elems(hand[p])
  BY TailFacts DEF TypeInv, HandTypes, Handed
<1> QED BY <1>1 DEF PlacedOnce, Fresh, Waits

LEMMA RelayMessage ==
    ASSUME TypeInv, Relays, NEW s \in Senders, Message(s)
    PROVE  Relays'
<1>0. Kind /\ s \in Procs /\ s \notin Posts
  BY Kinds, AgentsAssumption DEF Kind
<1>1. /\ UNCHANGED <<queue, act, reg, snap, task, hand, aborting>>
      /\ pc[s] \in {"send", "check"} /\ \E l : Goto(s, l)
  BY DEF Message, Send, Check, actor, registry, turns
<1>2. Runs' /\ aborting' = {}
  BY <1>0, <1>1, RunsKept DEF Relays
<1>3. Served => Served'
  BY <1>0, <1>1, ServedKept
<1>4. mail' # <<>> => Served' \/ Visited'
  <2>1. CASE Send(s)
    <3>1. pc'[s] = "check"
      BY <1>0, <2>1, Arrives DEF Send
    <3> QED BY <3>1 DEF Visited
  <2>2. CASE Check(s)
    <3>1. CASE reg = None /\ act = None
      <4>1. pc'[s] = "drain" /\ s \in Drains
        BY <1>0, <2>2, <3>1, Arrives DEF Check, Drains
      <4> QED BY <4>1 DEF Visited
    <3>2. CASE ~(reg = None /\ act = None)
      BY <1>3, <3>2, RunsServed DEF Relays
    <3> QED BY <3>1, <3>2
  <2> QED BY <2>1, <2>2 DEF Message
<1> QED BY <1>1, <1>2, <1>3, <1>4 DEF Relays

LEMMA RelayDrain ==
    ASSUME TypeInv, Relays, NEW p \in Starts, Drain(p) \/ Enqueue(p)
    PROVE  Relays'
<1>0. Kind /\ p \in Procs
  BY Kinds DEF Kind
<1>1. /\ UNCHANGED <<act, reg, snap, task, aborting>> /\ pc[p] \in {"drain", "reserve"}
      /\ \E l : Goto(p, l)
      /\ \A q \in Starts : q # p => hand'[q] = hand[q]
  BY DEF Drain, Enqueue, NextOf, actor, registry, turns, TypeInv, HandTypes
<1>2. Runs' /\ aborting' = {}
  BY <1>0, <1>1, RunsKept DEF Relays
<1>3. Served => Served'
  BY <1>0, <1>1, ServedKept
<1>4. CASE Drain(p)
  BY <1>2, <1>3, <1>4 DEF Drain, Relays
<1>5. CASE Enqueue(p)
  BY <1>2, <1>3, <1>5, RunsServed DEF Enqueue, Busy, Relays
<1> QED BY <1>4, <1>5

LEMMA RelayBegin ==
    ASSUME TypeInv, Relays, NEW p \in Starts, Begin(p)
    PROVE  Relays'
<1>0. Kind /\ p \in Procs
  BY Kinds DEF Kind
<1>1. /\ UNCHANGED <<reg, snap, task, aborting, hand>> /\ act' = Head(hand[p])
      /\ pc[p] = "reserve" /\ Goto(p, "launch")
  BY DEF Begin, Activated, registry, turns
<1>2. pc'[p] = "launch"
  BY <1>0, <1>1, Arrives
<1>3. Served' /\ Begun(Head(hand[p]))'
  BY <1>0, <1>1, <1>2 DEF Served, Begun
<1>4. \A t : Begun(t) => Begun(t)'
  BY <1>0, <1>1, BegunStays
<1>5. Begun(act)'
  BY <1>1, <1>2 DEF Begun
<1>6. Runs'
  BY <1>1, <1>4, <1>5 DEF Relays, Runs, RegRuns, ActRuns, SnapRuns
<1> QED BY <1>1, <1>3, <1>6 DEF Relays

LEMMA RelayPop ==
    ASSUME TypeInv, Relays, NEW t \in Msgs, Pop(t)
    PROVE  Relays'
<1> DEFINE p == Post(t)
<1>0. Kind /\ p \in Starts /\ p \in Procs
  BY Kinds DEF Kind
<1>1. /\ UNCHANGED <<reg, task, aborting>> /\ act' = Head(queue) /\ snap' = snap \cup {act'}
      /\ pc[p] = "chain" /\ Goto(p, "chained") /\ queue # <<>> /\ queue \in Seq(Msgs)
      /\ \A q \in Starts : hand'[q] = IF q = p THEN <<act'>> ELSE hand[q]
  BY <1>0 DEF Pop, Activated, turns, TypeInv, HandTypes, MailTypes
<1>2. pc'[p] = "chained"
  BY <1>0, <1>1, Arrives
<1>3. Served'
  BY <1>0, <1>2 DEF Served
<1>4. \A m : Begun(m) => Begun(m)'
  BY <1>0, <1>1, BegunStays
<1>5. Begun(act)'
  <2>1. Head(hand'[p]) = act'
    BY <1>0, <1>1
  <2> QED BY <1>0, <1>2, <2>1 DEF Begun
<1>6. Runs'
  BY <1>1, <1>4, <1>5 DEF Relays, Runs, RegRuns, ActRuns, SnapRuns
<1> QED BY <1>1, <1>3, <1>6 DEF Relays

\* The head that is launched runs, and those begun elsewhere stay so.
LEMMA RelayLaunched ==
    ASSUME TypeInv, PlacedOnce, Relays, NEW p \in Starts, pc[p] \in {"launch", "chained"},
           LaunchedFrom(p), UNCHANGED <<act, snap>>, NEW l, Goto(p, l),
           \A q \in Starts : q # p => hand'[q] = hand[q]
    PROVE  Relays'
<1>0. Kind /\ p \in Procs
  BY Kinds DEF Kind
<1>1. PICK x \in Msgs : x = Head(hand[p])
  BY DEF LaunchedFrom
<1>2. /\ \A t \in Msgs : task'[t] = IF t = x THEN "spawned" ELSE task[t]
      /\ reg' = x /\ UNCHANGED aborting
  BY <1>1 DEF LaunchedFrom, Launched, TypeInv, TurnTypes
<1>3. Served'
  BY <1>2 DEF Served, Running
<1>4. \A t : Begun(t) => Begun(t)' \/ t = x
  BY <1>0, <1>1 DEF Kind, TypeInv, PcTypes, Begun, Goto
<1>5. Runs'
  <2>1. x # None /\ task'[x] \in Running \ {"merged"}
    BY <1>0, <1>2 DEF Kind, Running
  <2>2. RegRuns'
    BY <1>2, <2>1 DEF RegRuns
  <2>3. ActRuns'
    BY <1>2, <1>4, <2>1 DEF Relays, Runs, ActRuns, TypeInv, ActorTypes
  <2>4. SnapRuns'
    BY <1>2, <1>4, <2>1 DEF Relays, Runs, SnapRuns, TypeInv, RegTypes
  <2> QED BY <2>2, <2>3, <2>4 DEF Runs
<1> QED BY <1>2, <1>3, <1>5 DEF Relays

LEMMA RelayLaunch ==
    ASSUME TypeInv, PlacedOnce, Relays, NEW p \in Starts, Launch(p)
    PROVE  Relays'
<1>1. LaunchedFrom(p) /\ pc[p] = "launch"
  BY LaunchPlaced DEF LaunchedFrom, Launch
<1>2. /\ UNCHANGED <<act, snap>> /\ \E l : Goto(p, l)
      /\ \A q \in Starts : q # p => hand'[q] = hand[q]
  BY DEF Launch, NextOf, actor, TypeInv, HandTypes
<1> QED BY <1>1, <1>2, RelayLaunched

LEMMA RelayChained ==
    ASSUME TypeInv, PlacedOnce, Relays, NEW t \in Msgs, Chained(t)
    PROVE  Relays'
<1>0. Post(t) \in Starts
  BY Kinds DEF Kind
<1>1. LaunchedFrom(Post(t)) /\ pc[Post(t)] = "chained"
  BY <1>0, ChainedPlaced DEF LaunchedFrom, Chained
<1>2. /\ UNCHANGED <<act, snap>> /\ Goto(Post(t), "done")
      /\ \A q \in Starts : q # Post(t) => hand'[q] = hand[q]
  BY <1>0 DEF Chained, actor, TypeInv, HandTypes
<1> QED BY <1>0, <1>1, <1>2, RelayLaunched

LEMMA RelayFollowup ==
    ASSUME TypeInv, Relays, NEW t \in Msgs, PostTurn(t) \/ PopNothing(t) \/ Accept(t), ~gaveUp'
    PROVE  Relays'
<1> DEFINE p == Post(t)
<1>0. Kind /\ p \in Starts /\ p \in Procs
  BY Kinds DEF Kind
<1>1. /\ UNCHANGED <<mail, queue, act, reg, snap, task, hand, aborting>>
      /\ pc[p] \in {"check", "chain", "accept"} /\ \E l : Goto(p, l)
  BY DEF PostTurn, PopNothing, Accept, actor, registry, turns
<1>2. Runs' /\ aborting' = {}
  BY <1>0, <1>1, RunsKept DEF Relays
<1>3. CASE PostTurn(t)
  <2>1. Goto(p, "chain")
    BY <1>3 DEF PostTurn
  <2>2. pc'[p] = "chain"
    BY <1>0, <2>1, Arrives
  <2> QED BY <1>2, <2>2 DEF Served, Relays
<1>4. CASE PopNothing(t)
  <2>1. pc'[p] = "accept" /\ queue' = <<>>
    BY <1>0, <1>4, Arrives DEF PopNothing
  <2> QED BY <1>2, <2>1 DEF Visited, Relays
<1>5. CASE Accept(t)
  <2>1. Served => Served'
    BY <1>0, <1>1, <1>5, ServedKept DEF Accept
  <2>2. CASE Unlisted
    BY <1>1, <1>2, <2>1, <2>2, RunsServed DEF Unlisted, Relays
  <2>3. CASE ~Unlisted
    <3>1. pc'[p] = "drain" /\ p \in Drains
      BY <1>0, <1>5, <2>3, Arrives DEF Accept, AfterQueue, Drains, Posts
    <3> QED BY <1>1, <1>2, <2>1, <3>1 DEF Visited, Relays
  <2> QED BY <2>2, <2>3
<1> QED BY <1>3, <1>4, <1>5

LEMMA RelayStop ==
    ASSUME TypeInv, Relays, ~gaveUp',
           Hook \/ Started \/ List \/ \E k \in Stoppers : Stop(k)
    PROVE  Relays'
<1>0. Kind
  BY Kinds
<1>1. PICK q \in Stoppers :
        /\ \E l : Goto(q, l)
        /\ pc[q] \in {"hook", "mark", "list", "stop", "close", "signal", "force", "take", "tell"}
  BY <1>0 DEF Kind, Hook, Started, List, Stop, Close, InterruptAll, Signal, ForceOut, Take,
              Interrupted, Closed
<1>2. /\ UNCHANGED <<mail, queue, reg, snap, task, hand, aborting>> /\ act' \in {act, None}
  BY DEF Hook, Started, List, Stop, Close, InterruptAll, Signal, ForceOut, Take, Interrupted,
         Closed, actor, registry, turns
<1>3. Runs' /\ aborting' = {}
  BY <1>0, <1>1, <1>2, RunsKept DEF Kind, Relays
<1>4. Served => Served'
  BY <1>0, <1>1, <1>2, ServedKept DEF Kind
<1>5. Visited => Visited'
  <2>1. \A r \in Procs : r # q => pc'[r] = pc[r]
    BY <1>0, <1>1, Arrives DEF Kind
  <2> QED BY <1>0, <1>1, <2>1 DEF Kind, Visited, Drains, Posts
<1> QED BY <1>2, <1>3, <1>4, <1>5 DEF Relays

LEMMA RelayTurn ==
    ASSUME TypeInv, PlacedOnce, PostsAfter, Relays, NEW t \in Msgs, Turn(t)
    PROVE  Relays'
<1>0. Kind
  BY Kinds
<1>1. ~TaskStops(t)
  BY DEF Relays, TaskStops
<1>2. CASE ClearHandles(t)
  <2>1. /\ \A m \in Msgs : task'[m] = IF m = t THEN "over" ELSE task[m]
        /\ task[t] = "merged" /\ aborting' = aborting \ {t} /\ reg' = None /\ snap' = {}
        /\ UNCHANGED <<mail, queue, act, hand>>
    BY <1>2 DEF ClearHandles, Step, Unhandled, actor, TypeInv, TurnTypes
  <2>2. pc'[Post(t)] = "check" /\ \A r \in Procs : r # Post(t) => pc'[r] = pc[r]
    BY <1>0, <1>2, Arrives DEF Kind, ClearHandles
  <2>3. Served'
    BY <2>2 DEF Served
  <2>4. \A m : Begun(m) => Begun(m)'
    <3>1. pc[Post(t)] = None
      BY <2>1 DEF PostsAfter
    <3> QED BY <1>0, <2>1, <2>2, <3>1 DEF Kind, Begun, None
  <2>5. act # t
    BY <1>0, <2>1, BegunFresh DEF Kind, Relays, Runs, ActRuns, None
  <2>6. Runs'
    BY <2>1, <2>4, <2>5 DEF Relays, Runs, RegRuns, ActRuns, SnapRuns, TypeInv, ActorTypes
  <2> QED BY <2>1, <2>3, <2>6 DEF Relays
<1>3. CASE Enter(t) \/ EndQuery(t) \/ Report(t) \/ Merge(t)
  <2>1. /\ UNCHANGED <<mail, queue, hand, pc, reg, aborting>> /\ snap' \subseteq snap \cup {t}
        /\ \E to \in {"query", "report", "reportClosed", "recorded", "merged"} :
               /\ \A m \in Msgs : task'[m] = IF m = t THEN to ELSE task[m]
               /\ to = "merged" => act' = None
               /\ to # "merged" => act' = act
    BY <1>3 DEF Enter, EndQuery, Report, Merge, Step, actor, registry, procs, TypeInv, TurnTypes
  <2>2. PICK to \in {"query", "report", "reportClosed", "recorded", "merged"} :
          /\ \A m \in Msgs : task'[m] = IF m = t THEN to ELSE task[m]
          /\ to = "merged" => act' = None
          /\ to # "merged" => act' = act
    BY <2>1
  <2>3. \A m : Begun(m) => Begun(m)'
    BY <2>1 DEF Begun
  <2>4. task'[t] \in Running
    BY <2>2 DEF Running, Reported
  <2>5. Served'
    BY <2>4 DEF Served
  <2>6. RegRuns' /\ SnapRuns'
    BY <2>1, <2>2, <2>3, <2>4 DEF Relays, Runs, RegRuns, SnapRuns, TypeInv, RegTypes
  <2>7. ActRuns'
    <3>1. CASE to = "merged"
      BY <2>2, <3>1 DEF ActRuns
    <3>2. CASE to # "merged"
      BY <2>2, <2>3, <2>4, <3>2 DEF Relays, Runs, ActRuns, TypeInv, ActorTypes
    <3> QED BY <3>1, <3>2
  <2> QED BY <2>1, <2>5, <2>6, <2>7 DEF Relays, Runs
<1> QED BY <1>1, <1>2, <1>3 DEF Turn

LEMMA PostsAfterStays == ASSUME TypeInv, PlacedOnce, PostsAfter, Next PROVE PostsAfter'
<1>0. Kind
  BY Kinds
<1>1. \A t \in Msgs : task[t] = "over" => task'[t] = "over"
  <2>1. CASE (\E p \in Starts : Launch(p)) \/ \E t \in Msgs : Chained(t)
    <3>1. PICK p \in Starts : LaunchedFrom(p)
      BY <2>1, LaunchesNext
    <3> QED BY <3>1 DEF LaunchedFrom, Launched, TypeInv, TurnTypes, None
  <2>2. CASE \E t \in Msgs : Turn(t)
    BY <2>2 DEF Turn, Enter, EndQuery, Report, Merge, ClearHandles, TaskStops, Step, Running,
                Reported, TypeInv, TurnTypes
  <2>3. CASE UNCHANGED task
    BY <2>3
  <2>4. CASE \E s \in Senders : Message(s)
    BY <2>3, <2>4 DEF Message, Send, Check, turns
  <2>5. CASE \E p \in Starts : Start(p)
    BY <2>1, <2>3, <2>5 DEF Start, Drain, Refuse, Enqueue, Begin, TakeBack, turns
  <2>6. CASE Spawn
    BY <2>3, <2>6 DEF Spawn, Hook, Started, List, FailStartup, turns
  <2>7. CASE \E t \in Msgs : Followup(t)
    BY <2>1, <2>3, <2>7 DEF Followup, PostTurn, PopNothing, Pop, Accept, turns
  <2>8. CASE \E k \in Stoppers : Stop(k)
    BY <2>3, <2>8 DEF Stop, Close, InterruptAll, Signal, ForceOut, Take, Interrupted, Closed,
                      turns
  <2>9. CASE Rest
    BY <2>3, <2>9 DEF Rest, vars, turns
  <2> QED BY <2>2, <2>4, <2>5, <2>6, <2>7, <2>8, <2>9 DEF Next
<1>2. \A t \in Msgs : pc'[Post(t)] # None => pc[Post(t)] # None \/ task'[t] = "over"
  <2> DEFINE P == \A t \in Msgs : pc'[Post(t)] # None => pc[Post(t)] # None \/ task'[t] = "over"
  <2>1. ASSUME NEW q \in Procs, NEW l, pc[q] # None, Goto(q, l)
        PROVE  P
    BY <1>0, <2>1, Arrives DEF Kind
  <2>2. CASE UNCHANGED pc
    BY <2>2
  <2>3. CASE \E s \in Senders : Message(s)
    BY <1>0, <2>1, <2>3 DEF Kind, Message, Send, Check, None
  <2>4. CASE \E p \in Starts : Start(p)
    BY <1>0, <2>1, <2>4 DEF Kind, Start, Drain, Refuse, Refused, Enqueue, NextOf, Begin, TakeBack,
                            Launch, None
  <2>5. CASE Spawn
    BY <1>0, <2>1, <2>5 DEF Kind, Spawn, Hook, Started, AfterStart, List, FailStartup, None
  <2>6. CASE \E t \in Msgs : Followup(t)
    BY <1>0, <2>1, <2>6 DEF Kind, Followup, PostTurn, PopNothing, Pop, Chained, Accept, None
  <2>7. ASSUME NEW t \in Msgs, Turn(t)
        PROVE  P
    <3>1. CASE ClearHandles(t)
      <4>1. task'[t] = "over" /\ \A m \in Msgs : Post(m) = Post(t) => m = t
        BY <3>1 DEF ClearHandles, Step, TypeInv, TurnTypes, Post
      <4>2. \A r \in Procs : r # Post(t) => pc'[r] = pc[r]
        BY <1>0, <3>1, Arrives DEF Kind, ClearHandles
      <4> QED BY <1>0, <4>1, <4>2 DEF Kind
    <3>2. CASE ~ClearHandles(t)
      BY <2>2, <2>7, <3>2 DEF Turn, Enter, EndQuery, Report, Merge, TaskStops, procs
    <3> QED BY <3>1, <3>2
  <2>8. CASE \E k \in Stoppers : Stop(k)
    BY <1>0, <2>1, <2>8 DEF Kind, Stop, Close, InterruptAll, Signal, ForceOut, Take, Interrupted,
                            Closed, None
  <2>9. CASE Rest
    BY <2>2, <2>9 DEF Rest, vars, procs
  <2> QED BY <2>3, <2>4, <2>5, <2>6, <2>7, <2>8, <2>9 DEF Next
<1> QED BY <1>1, <1>2 DEF PostsAfter

\* The spawn task fails only when its turn was refused.
LEMMA FailsNot ==
    ASSUME TypeInv, Next, ~gaveUp', pc[Starter] # "fail"
    PROVE  pc'[Starter] # "fail"
<1>0. Kind
  BY Kinds
<1>1. ASSUME NEW q \in Procs, NEW l, l # "fail", Goto(q, l)
      PROVE  pc'[Starter] # "fail"
  BY <1>0, <1>1, Arrives DEF Kind
<1>2. CASE \E s \in Senders : Message(s)
  BY <1>0, <1>1, <1>2 DEF Kind, Message, Send, Check
<1>3. CASE \E p \in Starts : Start(p)
  BY <1>0, <1>1, <1>3 DEF Kind, Start, Drain, Refuse, Refused, Enqueue, NextOf, Begin, TakeBack,
                          Launch
<1>4. CASE Spawn
  BY <1>0, <1>1, <1>4 DEF Kind, Spawn, Hook, Started, AfterStart, List, FailStartup
<1>5. CASE \E t \in Msgs : Followup(t)
  BY <1>0, <1>1, <1>5 DEF Kind, Followup, PostTurn, PopNothing, Pop, Chained, Accept, AfterQueue
<1>6. CASE \E t \in Msgs : Turn(t)
  BY <1>0, <1>1, <1>6 DEF Kind, Turn, Enter, EndQuery, Report, Merge, ClearHandles, TaskStops,
                          procs
<1>7. CASE \E k \in Stoppers : Stop(k)
  BY <1>0, <1>1, <1>7 DEF Kind, Stop, Close, InterruptAll, Signal, ForceOut, Take, Interrupted,
                          Closed
<1>8. CASE Rest
  BY <1>8 DEF Rest, vars, procs
<1> QED BY <1>2, <1>3, <1>4, <1>5, <1>6, <1>7, <1>8 DEF Next

LEMMA GaveUpStays == ASSUME TypeInv, [Next]_vars, gaveUp PROVE gaveUp'
BY DEF Next, Message, Send, Check, Start, Drain, Refuse, Refused, Enqueue, Begin, TakeBack, Launch,
       Spawn, Hook, Started, List, FailStartup, Turn, Enter, EndQuery, Report, Merge, ClearHandles,
       TaskStops, Followup, PostTurn, PopNothing, Pop, Chained, Accept, Stop, Close, InterruptAll,
       Signal, ForceOut, Take, Interrupted, Closed, Rest, vars, history

LEMMA StepRelay == ASSUME TypeInv, PlacedOnce, RelayInv, [Next]_vars PROVE RelayInv'
<1>1. CASE UNCHANGED vars
  BY <1>1 DEF vars, actor, registry, turns, procs, history, RelayInv, PostsAfter, Relays, Runs,
              RegRuns, ActRuns, SnapRuns, Served, Visited, Begun
<1>2. CASE Next
  <2>1. PostsAfter'
    BY <1>2, PostsAfterStays DEF RelayInv
  <2>2. ASSUME ~gaveUp'
        PROVE  pc'[Starter] # "fail" /\ Relays'
    <3>1. PostsAfter /\ pc[Starter] # "fail" /\ Relays
      BY <2>2, GaveUpStays DEF RelayInv
    <3>2. pc'[Starter] # "fail"
      BY <1>2, <2>2, <3>1, FailsNot
    <3>3. CASE \E s \in Senders : Message(s)
      BY <3>1, <3>2, <3>3, RelayMessage
    <3>4. CASE \E p \in Starts : Start(p)
      BY <2>2, <3>1, <3>2, <3>4, RelayDrain, RelayBegin, RelayLaunch
         DEF Start, Refuse, TakeBack, Refused
    <3>5. CASE Spawn
      BY <2>2, <3>1, <3>2, <3>5, RelayStop DEF Spawn, FailStartup
    <3>6. CASE \E t \in Msgs : Turn(t)
      BY <3>1, <3>2, <3>6, RelayTurn
    <3>7. CASE \E t \in Msgs : Followup(t)
      BY <2>2, <3>1, <3>2, <3>7, RelayFollowup, RelayPop, RelayChained DEF Followup
    <3>8. CASE \E k \in Stoppers : Stop(k)
      BY <2>2, <3>1, <3>2, <3>8, RelayStop
    <3>9. CASE Rest
      <4>1. UNCHANGED vars
        BY <3>9 DEF Rest
      <4> QED BY <1>1, <2>2, <3>2, <4>1 DEF RelayInv
    <3> QED BY <1>2, <3>2, <3>3, <3>4, <3>5, <3>6, <3>7, <3>8, <3>9 DEF Next
  <2> QED BY <2>1, <2>2 DEF RelayInv
<1> QED BY <1>1, <1>2

LEMMA InitRelay == Init => RelayInv
<1> SUFFICES ASSUME Init PROVE RelayInv
  OBVIOUS
<1>1. \A t \in Msgs : pc[Post(t)] = None
  BY Kinds, AgentsAssumption DEF Kind, Init, Stoppers
<1>2. Relays
  BY DEF Init, Relays, Runs, RegRuns, ActRuns, SnapRuns
<1>3. pc[Starter] # "fail"
  BY Kinds DEF Kind, Init
<1> QED BY <1>1, <1>2, <1>3 DEF RelayInv, PostsAfter

\* Nothing is left in the mailbox or in the queue of a child that could go on:
\* a sender that finds a turn leaves its message to it, and the turn's end to
\* its post-turn scheduling (coordinator.rs:51, turn_exec/mod.rs:165).
THEOREM ServedWhileWaiting == Spec => []WaitingIsServed
<1>1. Init => RelayInv
  BY InitRelay
<1>2. TypeInv /\ PlacedOnce /\ RelayInv /\ [Next]_vars => RelayInv'
  BY StepRelay
<1>3. TypeInv /\ RelayInv => WaitingIsServed
  <2> SUFFICES ASSUME TypeInv, Served \/ Visited
               PROVE  SomebodyComes
    BY DEF RelayInv, Relays, WaitingIsServed
  <2>1. \A p \in Starts : p = Starter \/ p \in Senders \/ \E t \in Msgs : p = Post(t)
    BY DEF Starts, Drains, Posts
  <2>2. CASE Served
    BY <2>1, <2>2, Kinds, AgentsAssumption
       DEF Kind, Served, SomebodyComes, Draining, TypeInv, Chains
  <2>3. CASE Visited
    BY <2>3 DEF Visited, SomebodyComes, Draining, Drains, Posts
  <2> QED BY <2>2, <2>3
<1> QED BY <1>1, <1>2, <1>3, TypesHold, PlacesHold, PTL DEF Spec
=============================================================================
