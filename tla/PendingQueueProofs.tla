------------------------- MODULE PendingQueueProofs -------------------------
(***************************************************************************)
(* Proofs about the pending inputs and their rows, for any number of       *)
(* requests and restarts.                                                  *)
(***************************************************************************)
EXTENDS PendingQueue, SequenceTheorems, FiniteSetTheorems, NaturalsInduction, TLAPS

\* Tasks of different kinds, or of different clients, are different tasks.
LEMMA ProcFacts ==
    /\ \A k \in Client : Req(k) \in Requests /\ Req(k) \in Proc
    /\ \A k \in Item : Kick(k) \in Drainers /\ Kick(k) \in Proc
    /\ \A t \in Item : Post(t) \in Drainers /\ Post(t) \in Proc
    /\ Boot \in Drainers /\ Boot \in Proc
    /\ \A p \in Drainers : p \in Proc /\ p \notin Requests
    /\ \A p \in Requests : p \in Proc /\ p \notin Drainers
    /\ \A i, j \in Client : Req(i) = Req(j) => i = j
    /\ \A i, j \in Item : Kick(i) = Kick(j) => i = j
    /\ \A i, j \in Item : Post(i) = Post(j) => i = j
    /\ \A i, j \in Item : Kick(i) # Post(j) /\ Kick(i) # Boot /\ Post(i) # Boot
    /\ \A i \in Client : \A j \in Item : Req(i) # Kick(j) /\ Req(i) # Post(j)
    /\ \A i \in Client : Req(i) # Boot
    /\ NoProc \notin Proc
    /\ Item \subseteq Client /\ Removers \subseteq Client /\ Editors \subseteq Client
    /\ Pushers \subseteq Item /\ Steerers \subseteq Item
BY DEF Req, Kick, Post, Boot, Requests, Drainers, Proc, NoProc, Client, Item

-----------------------------------------------------------------------------
(***************************************************************************)
(* Facts about the operators.                                              *)
(***************************************************************************)
\* A non-empty set of naturals has a least member.
LEMMA NatMin ==
    ASSUME NEW T \in SUBSET Nat, T # {}
    PROVE  \E n \in T : \A m \in T : n <= m
<1> DEFINE R == OpToRel(<, Nat)
<1>1. IsWellFoundedOn(R, Nat)
  BY NatLessThanWellFounded
<1>2. PICK n \in T : \A m \in T : <<m, n>> \notin R
  <2> HIDE DEF R
  <2> QED BY <1>1, WFMin
<1>3. ASSUME NEW m \in T PROVE n <= m
  <2>1. m \in Nat /\ n \in Nat
    OBVIOUS
  <2>2. m < n => <<m, n>> \in R
    BY <2>1 DEF OpToRel
  <2>3. ~(m < n)
    BY <1>2, <2>2
  <2> HIDE DEF R
  <2> QED BY <2>1, <2>3
<1> QED BY <1>3

\* A bounded one has a greatest, and Max is it.
LEMMA NatMax ==
    ASSUME NEW S \in SUBSET Nat, S # {}, NEW b \in Nat, \A x \in S : x <= b
    PROVE  Max(S) \in S /\ \A x \in S : x <= Max(S)
<1> DEFINE T == {c \in Nat : \A x \in S : x <= c}
<1>1. PICK c \in T : \A d \in T : c <= d
  BY NatMin
<1>2. c \in S
  <2> SUFFICES ASSUME c \notin S PROVE FALSE
    OBVIOUS
  <2>1. \A x \in S : x <= c - 1 /\ c - 1 \in Nat
    BY <1>1
  <2>2. c - 1 \in T
    BY <2>1
  <2> QED BY <1>1, <2>2
<1>3. \E x \in S : \A y \in S : x >= y
  BY <1>1, <1>2
<1> QED BY <1>3 DEF Max

RowsFinite == IsFiniteSet(rows)
PosBounded == \E b \in Nat : \A r \in rows : r.pos <= b
TypeInv == TypeOK /\ RowsFinite /\ PosBounded

\* A new row is a row, and the only one that is new.
LEMMA InsertedFacts ==
    ASSUME TypeInv, NEW i \in Item
    PROVE  /\ Inserted(i, NoItem) \subseteq Row
           /\ IsFiniteSet(Inserted(i, NoItem))
           /\ \E b \in Nat : \A r \in Inserted(i, NoItem) : r.pos <= b
           /\ \E r \in Row : r.item = i /\ Inserted(i, NoItem) = rows \cup {r}
           /\ \E r \in Row : r.item = i /\ r.id = nextRow /\ Inserted(i, NoItem) = rows \cup {r}
<1> DEFINE P == {0} \cup {r.pos : r \in rows}
           r == [item |-> i, pos |-> 1 + Max(P), id |-> nextRow, content |-> NoItem]
<1>1. PICK b \in Nat : \A x \in rows : x.pos <= b
  BY DEF TypeInv, PosBounded
<1>2. P \in SUBSET Nat /\ P # {} /\ \A x \in P : x <= b
  BY <1>1 DEF TypeInv, TypeOK, Row
<1>3. Max(P) \in Nat /\ \A x \in P : x <= Max(P)
  <2>1. Max(P) \in P /\ \A x \in P : x <= Max(P)
    <3> HIDE DEF P
    <3> QED BY <1>2, NatMax
  <2> QED BY <1>2, <2>1
<1> HIDE DEF P
<1>4. r \in Row /\ r.item = i /\ r.id = nextRow /\ r.pos = 1 + Max(P)
  BY <1>3 DEF Row, TypeInv, TypeOK
<1>5. Inserted(i, NoItem) = rows \cup {r}
  BY DEF Inserted, P
<1> HIDE DEF r
<1>6. IsFiniteSet(rows \cup {r})
  BY FS_AddElement DEF TypeInv, RowsFinite
<1>7. \A x \in rows \cup {r} : x.pos <= 1 + Max(P)
  <2>1. \A x \in rows : x.pos \in P
    BY DEF P
  <2>2. \A x \in rows : x.pos <= Max(P) /\ x.pos \in Nat
    BY <1>2, <1>3, <2>1
  <2> QED BY <1>3, <1>4, <2>2
<1>8. 1 + Max(P) \in Nat
  BY <1>3
<1> QED BY <1>4, <1>5, <1>6, <1>7, <1>8 DEF TypeInv, TypeOK

\* Deleting rows leaves rows.
LEMMA FewerRows ==
    ASSUME TypeInv, NEW S \in SUBSET rows
    PROVE  S \subseteq Row /\ IsFiniteSet(S) /\ \E b \in Nat : \A r \in S : r.pos <= b
BY FS_Subset DEF TypeInv, TypeOK, RowsFinite, PosBounded

\* What is left of the queue without an item of it.
LEMMA WithoutFacts ==
    ASSUME queue \in Seq(Item), NEW i \in Item, InQueue(i)
    PROVE  /\ Index(i) \in 1..Len(queue) /\ queue[Index(i)] = i
           /\ Without(i) \in Seq(Item)
           /\ Len(Without(i)) = Len(queue) - 1
           /\ \A m \in 1..Len(Without(i)) :
                  Without(i)[m] = IF m < Index(i) THEN queue[m] ELSE queue[m + 1]
<1> DEFINE n == Index(i)
<1>1. n \in 1..Len(queue) /\ queue[n] = i
  BY DEF InQueue, Index
<1> HIDE DEF n
<1> DEFINE a == SubSeq(queue, 1, n - 1)
           b == SubSeq(queue, n + 1, Len(queue))
<1>2. Len(queue) \in Nat /\ \A m \in 1..Len(queue) : queue[m] \in Item
  BY ElementOfSeq, LenProperties
<1>3. /\ a \in Seq(Item) /\ Len(a) = n - 1
      /\ \A m \in 1..(n - 1) : a[m] = queue[m]
  <2>1. \A m \in 1..(n - 1) : queue[m] \in Item
    BY <1>1, <1>2
  <2>2. n - 1 \in Int /\ 1 \in Int
    BY <1>1, <1>2
  <2> QED BY <1>1, <1>2, <2>1, <2>2, SubSeqProperties
<1>4. /\ b \in Seq(Item) /\ Len(b) = Len(queue) - n
      /\ \A m \in 1..(Len(queue) - n) : b[m] = queue[n + m]
  <2>1. \A m \in (n + 1)..Len(queue) : queue[m] \in Item
    BY <1>1, <1>2
  <2>2. n + 1 \in Int /\ Len(queue) \in Int
    BY <1>1, <1>2
  <2>3. /\ b \in Seq(Item)
        /\ Len(b) = IF n + 1 <= Len(queue) THEN Len(queue) - (n + 1) + 1 ELSE 0
        /\ \A m \in 1..(Len(queue) - (n + 1) + 1) : b[m] = queue[n + 1 + m - 1]
    BY <2>1, <2>2, SubSeqProperties
  <2> QED BY <1>1, <1>2, <2>3
<1>5. Without(i) = a \o b
  BY DEF Without, RemoveAt, n
<1> HIDE DEF a, b
<1>6. /\ a \o b \in Seq(Item) /\ Len(a \o b) = Len(queue) - 1
      /\ \A m \in 1..(Len(queue) - 1) : (a \o b)[m] = IF m < n THEN queue[m] ELSE queue[m + 1]
  BY <1>1, <1>2, <1>3, <1>4, ConcatProperties
<1> QED BY <1>1, <1>5, <1>6 DEF n

\* Moving an item permutes the queue.
LEMMA MovedFacts ==
    ASSUME queue \in Seq(Item), NEW i \in Item, InQueue(i), NEW p \in Nat \ {0}
    PROVE  /\ Moved(i, p) \in Seq(Item) /\ Len(Moved(i, p)) = Len(queue)
           /\ \E n \in 0..(Len(queue) - 1) :
                \A m \in 1..Len(queue) :
                    Moved(i, p)[m] = IF m <= n THEN Without(i)[m]
                                     ELSE IF m = n + 1 THEN i ELSE Without(i)[m - 1]
<1> DEFINE rest == Without(i)
           L == Len(rest)
           n == IF p - 1 < L THEN p - 1 ELSE L
           a == SubSeq(rest, 1, n)
           b == SubSeq(rest, n + 1, L)
<1>1. rest \in Seq(Item) /\ L = Len(queue) - 1 /\ Len(queue) \in Nat /\ L \in Nat
  BY WithoutFacts, LenProperties
<1>2. \A m \in 1..L : rest[m] \in Item
  BY <1>1, ElementOfSeq
<1>3. Moved(i, p) = (a \o <<i>>) \o b
  BY DEF Moved
<1> HIDE DEF rest, L
<1>4. n \in Nat /\ n <= L
  BY <1>1
<1> HIDE DEF n
<1>5. /\ a \in Seq(Item) /\ Len(a) = n
      /\ \A m \in 1..n : a[m] = rest[m]
  <2>1. \A m \in 1..n : rest[m] \in Item
    BY <1>1, <1>2, <1>4
  <2> QED BY <1>1, <1>4, <2>1, SubSeqProperties
<1>6. /\ b \in Seq(Item) /\ Len(b) = L - n
      /\ \A m \in 1..(L - n) : b[m] = rest[n + m]
  <2>1. \A m \in (n + 1)..L : rest[m] \in Item
    BY <1>1, <1>2, <1>4
  <2>2. /\ b \in Seq(Item)
        /\ Len(b) = IF n + 1 <= L THEN L - (n + 1) + 1 ELSE 0
        /\ \A m \in 1..(L - (n + 1) + 1) : b[m] = rest[n + 1 + m - 1]
    <3>1. n + 1 \in Int /\ L \in Int
      BY <1>1, <1>4
    <3> QED BY <2>1, <3>1, SubSeqProperties
  <2> QED BY <1>1, <1>4, <2>2
<1> HIDE DEF a, b
<1> DEFINE c == a \o <<i>>
<1>7. /\ c \in Seq(Item) /\ Len(c) = n + 1
      /\ \A m \in 1..(n + 1) : c[m] = IF m <= n THEN a[m] ELSE i
  BY <1>4, <1>5, ConcatProperties
<1> HIDE DEF c
<1>8. /\ c \o b \in Seq(Item) /\ Len(c \o b) = L + 1
      /\ \A m \in 1..(L + 1) : (c \o b)[m] = IF m <= n + 1 THEN c[m] ELSE b[m - (n + 1)]
  BY <1>1, <1>4, <1>6, <1>7, ConcatProperties
<1>9. \A m \in 1..Len(queue) : (c \o b)[m] = IF m <= n THEN rest[m]
                                             ELSE IF m = n + 1 THEN i ELSE rest[m - 1]
  <2> SUFFICES ASSUME NEW m \in 1..Len(queue)
               PROVE  (c \o b)[m] = IF m <= n THEN rest[m]
                                    ELSE IF m = n + 1 THEN i ELSE rest[m - 1]
    OBVIOUS
  <2>1. CASE m <= n + 1
    BY <1>1, <1>4, <1>5, <1>7, <1>8, <2>1
  <2>2. CASE m > n + 1
    <3>1. m - (n + 1) \in 1..(L - n) /\ n + (m - (n + 1)) = m - 1
      BY <1>1, <1>4, <2>2
    <3>2. b[m - (n + 1)] = rest[m - 1]
      BY <1>6, <3>1
    <3>3. m \in 1..(L + 1)
      BY <1>1
    <3> QED BY <1>4, <1>8, <2>2, <3>2, <3>3
  <2>3. m <= n + 1 \/ m > n + 1
    BY <1>1, <1>4
  <2> QED BY <2>1, <2>2, <2>3
<1>10. n \in 0..(Len(queue) - 1)
  BY <1>1, <1>4
<1>11. Moved(i, p) = c \o b
  BY <1>3 DEF c
<1>12. L + 1 = Len(queue)
  BY <1>1
<1> QED BY <1>8, <1>9, <1>10, <1>11, <1>12 DEF rest

-----------------------------------------------------------------------------
(***************************************************************************)
(* What is in a sequence, and how often, after each way of changing it.    *)
(***************************************************************************)
Occurs(s, j) == \E n \in 1..Len(s) : s[n] = j
AtMostOnce(s, j) == \A m, n \in 1..Len(s) : s[m] = j /\ s[n] = j => m = n

LEMMA EmptyOccurs == \A j : ~Occurs(<<>>, j) /\ AtMostOnce(<<>>, j)
BY DEF Occurs, AtMostOnce

LEMMA AppendOccurs ==
    ASSUME NEW S, NEW s \in Seq(S), NEW e \in S, NEW j
    PROVE  /\ Occurs(Append(s, e), j) <=> Occurs(s, j) \/ j = e
           /\ AtMostOnce(s, j) /\ (j = e => ~Occurs(s, j)) => AtMostOnce(Append(s, e), j)
<1> DEFINE t == Append(s, e)
<1>1. /\ Len(s) \in Nat /\ Len(t) = Len(s) + 1
      /\ \A n \in 1..Len(s) : t[n] = s[n]
      /\ t[Len(s) + 1] = e
  BY AppendProperties, LenProperties
<1> HIDE DEF t
<1>2. \A n \in 1..Len(t) : n \in 1..Len(s) \/ n = Len(s) + 1
  BY <1>1
<1>3. Len(s) + 1 \in 1..Len(t) /\ \A n \in 1..Len(s) : n \in 1..Len(t)
  BY <1>1
<1>4. Occurs(t, j) <=> Occurs(s, j) \/ j = e
  BY <1>1, <1>2, <1>3 DEF Occurs
<1>5. AtMostOnce(s, j) /\ (j = e => ~Occurs(s, j)) => AtMostOnce(t, j)
  BY <1>1, <1>2 DEF AtMostOnce, Occurs
<1> QED BY <1>4, <1>5 DEF t

LEMMA ConcatOccurs ==
    ASSUME NEW S, NEW s \in Seq(S), NEW t \in Seq(S), NEW j
    PROVE  /\ Occurs(s \o t, j) <=> Occurs(s, j) \/ Occurs(t, j)
           /\ /\ AtMostOnce(s, j) /\ AtMostOnce(t, j)
              /\ ~(Occurs(s, j) /\ Occurs(t, j))
              => AtMostOnce(s \o t, j)
<1> DEFINE c == s \o t
<1>1. /\ Len(s) \in Nat /\ Len(t) \in Nat /\ Len(c) = Len(s) + Len(t)
      /\ \A n \in 1..Len(c) : c[n] = IF n <= Len(s) THEN s[n] ELSE t[n - Len(s)]
  BY ConcatProperties, LenProperties
<1> HIDE DEF c
<1>2. ASSUME NEW n \in 1..Len(c)
      PROVE  \/ n \in 1..Len(s) /\ c[n] = s[n]
             \/ n \notin 1..Len(s) /\ n - Len(s) \in 1..Len(t) /\ c[n] = t[n - Len(s)]
  BY <1>1
<1>3. ASSUME NEW n \in 1..Len(s) PROVE n \in 1..Len(c) /\ c[n] = s[n]
  BY <1>1
<1>4. ASSUME NEW n \in 1..Len(t) PROVE n + Len(s) \in 1..Len(c) /\ c[n + Len(s)] = t[n]
  BY <1>1
<1>5. Occurs(c, j) <=> Occurs(s, j) \/ Occurs(t, j)
  <2>1. Occurs(c, j) => Occurs(s, j) \/ Occurs(t, j)
    BY <1>2 DEF Occurs
  <2>2. Occurs(s, j) => Occurs(c, j)
    BY <1>3 DEF Occurs
  <2>3. Occurs(t, j) => Occurs(c, j)
    BY <1>4 DEF Occurs
  <2> QED BY <2>1, <2>2, <2>3
<1>6. ASSUME AtMostOnce(s, j), AtMostOnce(t, j), ~(Occurs(s, j) /\ Occurs(t, j))
      PROVE  AtMostOnce(c, j)
  <2> SUFFICES ASSUME NEW m \in 1..Len(c), NEW n \in 1..Len(c), c[m] = j, c[n] = j
               PROVE  m = n
    BY DEF AtMostOnce
  <2>1. CASE m \in 1..Len(s) /\ n \in 1..Len(s)
    BY <1>1, <1>6, <2>1 DEF AtMostOnce
  <2>2. CASE m \notin 1..Len(s) /\ n \notin 1..Len(s)
    <3>1. m - Len(s) = n - Len(s)
      BY <1>2, <1>6, <2>2 DEF AtMostOnce
    <3> QED BY <1>1, <3>1
  <2>3. CASE ~(m \in 1..Len(s) <=> n \in 1..Len(s))
    BY <1>2, <1>6, <2>3 DEF Occurs
  <2> QED BY <2>1, <2>2, <2>3
<1> QED BY <1>5, <1>6 DEF c

LEMMA TailOccurs ==
    ASSUME NEW S, NEW s \in Seq(S), s # <<>>, NEW j
    PROVE  /\ Occurs(s, j) <=> j = Head(s) \/ Occurs(Tail(s), j)
           /\ AtMostOnce(s, j) => /\ AtMostOnce(Tail(s), j)
                                  /\ j = Head(s) => ~Occurs(Tail(s), j)
<1> DEFINE t == Tail(s)
<1>1. /\ Len(s) \in Nat /\ Len(s) > 0 /\ Len(t) = Len(s) - 1 /\ s[1] = Head(s)
      /\ \A n \in 1..Len(t) : t[n] = s[n + 1]
  BY HeadTailProperties, LenProperties, EmptySeq
<1> HIDE DEF t
<1>2. ASSUME NEW n \in 1..Len(t) PROVE n + 1 \in 1..Len(s) /\ n + 1 # 1 /\ s[n + 1] = t[n]
  BY <1>1
<1>3. ASSUME NEW n \in 1..Len(s), n # 1 PROVE n - 1 \in 1..Len(t) /\ t[n - 1] = s[n]
  BY <1>1, <1>3
<1>4. 1 \in 1..Len(s)
  BY <1>1
<1>5. Occurs(s, j) <=> j = Head(s) \/ Occurs(t, j)
  <2>1. Occurs(t, j) => Occurs(s, j)
    BY <1>2 DEF Occurs
  <2>2. j = Head(s) => Occurs(s, j)
    BY <1>1, <1>4 DEF Occurs
  <2>3. Occurs(s, j) => j = Head(s) \/ Occurs(t, j)
    BY <1>1, <1>3 DEF Occurs
  <2> QED BY <2>1, <2>2, <2>3
<1>6. ASSUME AtMostOnce(s, j) PROVE AtMostOnce(t, j) /\ (j = Head(s) => ~Occurs(t, j))
  <2>1. ASSUME NEW m \in 1..Len(t), NEW n \in 1..Len(t), t[m] = j, t[n] = j PROVE m = n
    <3>1. m + 1 = n + 1
      BY <1>2, <1>6, <2>1 DEF AtMostOnce
    <3> QED BY <3>1
  <2>2. ASSUME j = Head(s), NEW n \in 1..Len(t), t[n] = j PROVE FALSE
    BY <1>1, <1>2, <1>4, <1>6, <2>2 DEF AtMostOnce
  <2> QED BY <2>1, <2>2 DEF AtMostOnce, Occurs
<1> QED BY <1>5, <1>6 DEF t

LEMMA WithoutOccurs ==
    ASSUME queue \in Seq(Item), NEW i \in Item, InQueue(i), NEW j, AtMostOnce(queue, j)
    PROVE  /\ Occurs(Without(i), j) <=> j # i /\ Occurs(queue, j)
           /\ AtMostOnce(Without(i), j)
<1> DEFINE t == Without(i)
           k == Index(i)
<1>1. /\ k \in 1..Len(queue) /\ queue[k] = i
      /\ Len(queue) \in Nat /\ Len(t) = Len(queue) - 1
      /\ \A m \in 1..Len(t) : t[m] = IF m < k THEN queue[m] ELSE queue[m + 1]
  BY WithoutFacts, LenProperties
<1> HIDE DEF t, k
<1>2. ASSUME NEW m \in 1..Len(t), m < k PROVE m \in 1..Len(queue) /\ m # k /\ t[m] = queue[m]
  BY <1>1, <1>2
<1>3. ASSUME NEW m \in 1..Len(t), ~(m < k)
      PROVE  m + 1 \in 1..Len(queue) /\ m + 1 # k /\ t[m] = queue[m + 1]
  BY <1>1, <1>3
<1>4. ASSUME NEW m \in 1..Len(queue), m < k PROVE m \in 1..Len(t) /\ t[m] = queue[m]
  BY <1>1, <1>4
<1>5. ASSUME NEW m \in 1..Len(queue), k < m PROVE m - 1 \in 1..Len(t) /\ t[m - 1] = queue[m]
  <2>1. m - 1 \in 1..Len(t) /\ ~(m - 1 < k) /\ (m - 1) + 1 = m
    BY <1>1, <1>5
  <2> QED BY <1>1, <2>1
<1>6. Occurs(t, j) => j # i /\ Occurs(queue, j)
  <2> SUFFICES ASSUME NEW m \in 1..Len(t), t[m] = j PROVE j # i /\ Occurs(queue, j)
    BY DEF Occurs
  <2>1. CASE m < k
    BY <1>1, <1>2, <2>1 DEF Occurs, AtMostOnce
  <2>2. CASE ~(m < k)
    BY <1>1, <1>3, <2>2 DEF Occurs, AtMostOnce
  <2> QED BY <2>1, <2>2
<1>7. ASSUME j # i, NEW m \in 1..Len(queue), queue[m] = j PROVE Occurs(t, j)
  <2>1. m < k \/ k < m
    BY <1>1, <1>7
  <2> QED BY <1>4, <1>5, <1>7, <2>1 DEF Occurs
<1>8. ASSUME NEW m \in 1..Len(t), NEW n \in 1..Len(t), t[m] = j, t[n] = j
      PROVE  m = n
  <2> DEFINE at(x) == IF x < k THEN x ELSE x + 1
  <2>1. /\ at(m) \in 1..Len(queue) /\ queue[at(m)] = j
        /\ at(n) \in 1..Len(queue) /\ queue[at(n)] = j
    BY <1>2, <1>3, <1>8
  <2>2. at(m) = at(n)
    <3> HIDE DEF at
    <3> QED BY <1>8, <2>1 DEF AtMostOnce
  <2> QED BY <1>1, <2>2
<1> QED BY <1>6, <1>7, <1>8 DEF Occurs, AtMostOnce, t

LEMMA MovedOccurs ==
    ASSUME queue \in Seq(Item), NEW i \in Item, InQueue(i), NEW p \in Nat \ {0},
           NEW j, AtMostOnce(queue, j)
    PROVE  /\ Occurs(Moved(i, p), j) <=> Occurs(queue, j)
           /\ AtMostOnce(Moved(i, p), j)
<1> DEFINE t == Moved(i, p)
           rest == Without(i)
<1>1. PICK k \in 0..(Len(queue) - 1) :
          \A m \in 1..Len(queue) :
              t[m] = IF m <= k THEN rest[m] ELSE IF m = k + 1 THEN i ELSE rest[m - 1]
  BY MovedFacts
<1>2. Len(queue) \in Nat /\ Len(t) = Len(queue) /\ Len(rest) = Len(queue) - 1
  BY WithoutFacts, MovedFacts, LenProperties
<1>3. /\ Occurs(rest, j) <=> j # i /\ Occurs(queue, j)
      /\ AtMostOnce(rest, j)
  BY WithoutOccurs
<1>4. Occurs(queue, i)
  BY DEF InQueue, Occurs
<1> HIDE DEF t, rest
<1>5. ASSUME NEW m \in 1..Len(t), m <= k PROVE m \in 1..Len(rest) /\ t[m] = rest[m]
  BY <1>1, <1>2, <1>5
<1>6. ASSUME NEW m \in 1..Len(t), m > k + 1 PROVE m - 1 \in 1..Len(rest) /\ t[m] = rest[m - 1]
  BY <1>1, <1>2, <1>6
<1>7. k + 1 \in 1..Len(t) /\ t[k + 1] = i
  BY <1>1, <1>2
<1>8. ASSUME NEW m \in 1..Len(rest) PROVE \E n \in 1..Len(t) : t[n] = rest[m]
  <2>1. CASE m <= k
    <3>1. m \in 1..Len(t)
      BY <1>2
    <3> QED BY <1>5, <2>1, <3>1
  <2>2. CASE m > k
    <3>1. m + 1 \in 1..Len(t) /\ m + 1 > k + 1 /\ (m + 1) - 1 = m
      BY <1>2, <2>2
    <3> QED BY <1>6, <3>1
  <2> QED BY <1>2, <2>1, <2>2
<1>9. ASSUME NEW m \in 1..Len(t), t[m] = j PROVE (m = k + 1 /\ j = i) \/ Occurs(rest, j)
  <2>1. m <= k \/ m = k + 1 \/ m > k + 1
    BY <1>2
  <2> QED BY <1>5, <1>6, <1>7, <1>9, <2>1 DEF Occurs
<1>10. Occurs(t, j) <=> Occurs(queue, j)
  <2>1. Occurs(t, j) => Occurs(queue, j)
    BY <1>3, <1>4, <1>9 DEF Occurs
  <2>2. Occurs(rest, j) => Occurs(t, j)
    BY <1>8 DEF Occurs
  <2>3. Occurs(t, i)
    BY <1>7 DEF Occurs
  <2> QED BY <1>3, <2>1, <2>2, <2>3
<1>11. ASSUME NEW m \in 1..Len(t), NEW n \in 1..Len(t), t[m] = j, t[n] = j
       PROVE  m = n
  <2>1. CASE j = i
    <3>1. m = k + 1 /\ n = k + 1
      BY <1>3, <1>9, <1>11, <2>1
    <3> QED BY <3>1
  <2>2. CASE j # i
    <3> DEFINE at(x) == IF x <= k THEN x ELSE x - 1
    <3>1. (m <= k \/ m > k + 1) /\ (n <= k \/ n > k + 1)
      BY <1>2, <1>7, <1>11, <2>2
    <3>2. /\ at(m) \in 1..Len(rest) /\ rest[at(m)] = j
          /\ at(n) \in 1..Len(rest) /\ rest[at(n)] = j
      BY <1>5, <1>6, <1>11, <3>1
    <3>3. at(m) = at(n)
      <4> HIDE DEF at
      <4> QED BY <1>3, <1>11, <3>2 DEF AtMostOnce
    <3> QED BY <1>2, <3>1, <3>3
  <2> QED BY <2>1, <2>2
<1> QED BY <1>10, <1>11 DEF AtMostOnce, t

-----------------------------------------------------------------------------
(***************************************************************************)
(* The inductive invariant.                                                *)
(***************************************************************************)
\* The program counters of each kind of task, and what they go with.
PushPcs == {"new", "admit", "row", "memory", "queued", "started", "rejected", "dropped"}
SteerPcs == {"new", "mismatch", "steerRow", "inbox", "materialize", "degradeRow",
             "degradeMemory", "queued", "injected", "rejected", "dropped"}

PcKinds ==
    /\ \A i \in Pushers : pc[Req(i)] \in PushPcs
    /\ \A s \in Steerers : pc[Req(s)] \in SteerPcs
    /\ \A p \in Drainers : pc[p] \in DrainPcs

HoldersHold ==
    /\ \A p \in Drainers : held[p] # NoItem <=> pc[p] \in {"popRow", "activate"}
    /\ \A r \in Removers : pc[Req(r)] = "removeRow" => held[Req(r)] \in Item
    /\ \A e \in Editors : pc[Req(e)] = "editSnapshot" => held[Req(e)] \in Item

DrainsFollow ==
    /\ \A i \in Item : pc[Kick(i)] # "off" => pc[Req(i)] = "queued"
    /\ \A t \in Item : pc[Post(t)] # "off" => turn[t] # "none"

\* While the session is restored nothing else runs.
DownIsQuiet ==
    /\ server # "up" => /\ crashes # 0 /\ inbox = <<>>
                        /\ \A p \in Drainers : pc[p] = "off"
                        /\ \A k \in Client : pc[Req(k)] \in Answered
                        /\ \A t \in Item : turn[t] \in {"none", "done"} /\ sweep[t] = NoSweep
    /\ server = "down" => queue = <<>>
    /\ server # "requeue" => restoring = <<>>

ProgramInv == TypeInv /\ PcKinds /\ HoldersHold /\ DrainsFollow /\ DownIsQuiet

\* What SQLite, a sweep or a restore has of an item, it has once.
Carries(t, i) == Occurs(sweep[t].drained, i)
Carried(i) == \E t \in Item : Carries(t, i)
Unrecorded(i) == pc[Req(i)] \in {"new", "admit", "row", "mismatch", "steerRow", "degradeRow"}
Recorded(i) == HasRow(i) \/ Occurs(steerRows, i) \/ Occurs(restoring, i) \/ Carried(i)

RowOnce(i) == \A r, q \in rows : r.item = i /\ q.item = i => r = q
CarriedOnce(i) ==
    /\ \A t \in Item : AtMostOnce(sweep[t].drained, i)
    /\ \A t, u \in Item : Carries(t, i) /\ Carries(u, i) => t = u

RecordedOnce(i) ==
    /\ RowOnce(i) /\ AtMostOnce(steerRows, i) /\ AtMostOnce(restoring, i) /\ CarriedOnce(i)
    /\ HasRow(i) => ~Occurs(steerRows, i) /\ ~Occurs(restoring, i) /\ ~Carried(i)
    /\ Occurs(steerRows, i) => ~Occurs(restoring, i) /\ ~Carried(i)
    /\ Unrecorded(i) => ~Recorded(i)

RowsInv == ProgramInv /\ \A i \in Item : RecordedOnce(i)

\* In memory an item is in one place at most, the turn that runs it included.
InInbox(i) == Occurs(inbox, i)
Popped(i) == \E p \in Drainers : held[p] = i
Taken(r, i) == held[Req(r)] = i /\ pc[Req(r)] = "removeRow"
TakenOut(i) == \E r \in Removers : Taken(r, i)
Live(i) == turn[i] \notin {"none", "done"} \/ pc[Post(i)] # "off"
Unplaced(i) == Unrecorded(i) \/ pc[Req(i)] \in {"memory", "inbox", "degradeMemory"}

\* A turn that is under way has no chain yet.
OneChain(t) == turn[t] \notin {"none", "done"} => pc[Post(t)] = "off"

PoppedOnce(i) == \A p, q \in Drainers : held[p] = i /\ held[q] = i => p = q
TakenOnce(i) == \A r, q \in Removers : Taken(r, i) /\ Taken(q, i) => r = q
HeldOnce(i) ==
    AtMostOnce(queue, i) /\ AtMostOnce(inbox, i) /\ PoppedOnce(i) /\ TakenOnce(i)

Exclusive(i) ==
    /\ InQueue(i) => ~InInbox(i) /\ ~Popped(i) /\ ~TakenOut(i) /\ ~Live(i)
    /\ InInbox(i) => ~Popped(i) /\ ~TakenOut(i) /\ ~Live(i)
    /\ Popped(i) => ~TakenOut(i) /\ ~Live(i)
    /\ TakenOut(i) => ~Live(i)
    /\ Unplaced(i) => ~InQueue(i) /\ ~InInbox(i) /\ ~Popped(i) /\ ~TakenOut(i) /\ ~Live(i)

\* What a restore has queued came from a row or is no longer to be restored.
RestoredOnce(i) ==
    /\ server = "steers" /\ InQueue(i) => HasRow(i)
    /\ server = "requeue" /\ InQueue(i) => ~Occurs(restoring, i)

MemoryInv ==
    /\ RowsInv
    /\ \A i \in Item : OneChain(i) /\ HeldOnce(i) /\ Exclusive(i) /\ RestoredOnce(i)

\* The ledger of a pushed input, and of every input before the first crash:
\* it is in one place, and in none until it is placed.
Firm(i) == i \in Pushers \/ crashes = 0
Begun(i) == turn[i] # "none"
PlaceNames == {"queue", "inbox", "drain", "removal", "turn", "consumed", "removed"}

Where(i) ==
    {w \in PlaceNames : \/ w = "queue" /\ InQueue(i)
                        \/ w = "inbox" /\ InInbox(i)
                        \/ w = "drain" /\ Popped(i)
                        \/ w = "removal" /\ TakenOut(i)
                        \/ w = "turn" /\ Begun(i)
                        \/ w = "consumed" /\ i \in consumed
                        \/ w = "removed" /\ i \in removed}

Solo(i) ==
    /\ \A u, w \in Where(i) : u = w
    /\ Unplaced(i) => Where(i) = {}

Accounted(i) == Accepted(i) => Where(i) # {}

\* The row of a pushed input, and its turn.
Mirrored(i) ==
    /\ ~InsertFails /\ (InQueue(i) \/ pc[Req(i)] = "memory") => HasRow(i)
    /\ HasRow(i) => /\ server = "down" \/ InQueue(i) \/ InFlight(i)
                    /\ ~Begun(i) /\ i \notin removed
    /\ starts[i] = IF Begun(i) THEN 1 ELSE 0

QueueInv ==
    /\ MemoryInv
    /\ \A i \in Item : (Firm(i) => Solo(i)) /\ (crashes = 0 => Accounted(i))
    /\ \A i \in Pushers : Mirrored(i)

\* A request that moves on, a drainer that moves on, and a turn that does.
RequestMoves(k, l) ==
    /\ server' = server /\ restoring' = restoring
    /\ pc' = [pc EXCEPT ![Req(k)] = l]
    /\ pc[Req(k)] # "queued"
    /\ k \in Pushers => l \in PushPcs
    /\ k \in Steerers => l \in SteerPcs
    /\ l \in {"removeRow", "editSnapshot"} => held'[Req(k)] \in Item
    /\ \A p \in Drainers : held'[p] = held[p]
    /\ \A j \in Client : j # k => held'[Req(j)] = held[Req(j)]
    /\ \A t \in Item : turn[t] # "none" => turn'[t] # "none"

LEMMA RequestFrame ==
    ASSUME ProgramInv, server = "up", NEW k \in Client, NEW l, RequestMoves(k, l)
    PROVE  PcKinds' /\ HoldersHold' /\ DrainsFollow' /\ DownIsQuiet'
<1> USE DEF RequestMoves
<1>1. /\ pc'[Req(k)] = l
      /\ \A j \in Client : j # k => pc'[Req(j)] = pc[Req(j)]
      /\ \A p \in Drainers : pc'[p] = pc[p]
  <2>1. pc \in [Proc -> ReqPcs \cup DrainPcs]
    BY DEF ProgramInv, TypeInv, TypeOK
  <2> QED BY <2>1, ProcFacts
<1>2. PcKinds'
  BY <1>1, ProcFacts DEF ProgramInv, PcKinds
<1>3. HoldersHold'
  BY <1>1, ProcFacts DEF ProgramInv, HoldersHold
<1>4. DrainsFollow'
  <2>1. \A i \in Item : pc'[Kick(i)] # "off" => pc'[Req(i)] = "queued"
    BY <1>1, ProcFacts DEF ProgramInv, DrainsFollow
  <2>2. \A t \in Item : pc'[Post(t)] # "off" => turn'[t] # "none"
    BY <1>1, ProcFacts DEF ProgramInv, DrainsFollow
  <2> QED BY <2>1, <2>2 DEF DrainsFollow
<1>5. DownIsQuiet'
  BY DEF ProgramInv, DownIsQuiet
<1> QED BY <1>2, <1>3, <1>4, <1>5

\* An input that is queued, with the drain it is given.
LEMMA QueuedType ==
    ASSUME TypeOK, NEW i \in Item, pc' = Queued(i)
    PROVE  /\ pc' \in [Proc -> ReqPcs \cup DrainPcs]
           /\ pc'[Req(i)] = "queued" /\ pc'[Kick(i)] = "check"
           /\ \A k \in Client : k # i => pc'[Req(k)] = pc[Req(k)]
           /\ \A p \in Drainers : p # Kick(i) => pc'[p] = pc[p]
<1>1. i \in Client /\ Req(i) \in Proc /\ Kick(i) \in Proc /\ Req(i) # Kick(i)
  BY ProcFacts
<1>2. pc' \in [Proc -> ReqPcs \cup DrainPcs]
  BY <1>1 DEF TypeOK, Queued, ReqPcs, DrainPcs
<1>3. \A p \in Proc : pc'[p] = IF p = Kick(i) THEN "check"
                               ELSE IF p = Req(i) THEN "queued" ELSE pc[p]
  BY <1>1 DEF TypeOK, Queued
<1> QED BY <1>1, <1>2, <1>3, ProcFacts

QueuedMoves(i) ==
    /\ server' = server /\ restoring' = restoring
    /\ pc[Req(i)] \in {"memory", "degradeMemory"}
    /\ pc' = Queued(i)
    /\ held' = held /\ turn' = turn

LEMMA QueuedFrame ==
    ASSUME ProgramInv, server = "up", NEW i \in Item, QueuedMoves(i)
    PROVE  PcKinds' /\ HoldersHold' /\ DrainsFollow' /\ DownIsQuiet'
<1> USE DEF QueuedMoves
<1>1. /\ pc'[Req(i)] = "queued" /\ pc'[Kick(i)] = "check"
      /\ \A k \in Client : k # i => pc'[Req(k)] = pc[Req(k)]
      /\ \A p \in Drainers : p # Kick(i) => pc'[p] = pc[p]
  BY QueuedType DEF ProgramInv, TypeInv
<1>2. pc[Kick(i)] = "off" /\ held[Kick(i)] = NoItem
  BY ProcFacts DEF ProgramInv, DrainsFollow, HoldersHold
<1>3. PcKinds'
  BY <1>1, ProcFacts DEF ProgramInv, PcKinds, PushPcs, SteerPcs, DrainPcs
<1>4. HoldersHold'
  <2>1. \A p \in Drainers : held'[p] # NoItem <=> pc'[p] \in {"popRow", "activate"}
    BY <1>1, <1>2 DEF ProgramInv, HoldersHold
  <2>2. \A k \in Client :
           pc'[Req(k)] \in {"removeRow", "editSnapshot"} => pc'[Req(k)] = pc[Req(k)]
    BY <1>1, ProcFacts
  <2> QED BY <2>1, <2>2, ProcFacts DEF ProgramInv, HoldersHold
<1>5. DrainsFollow'
  BY <1>1, ProcFacts DEF ProgramInv, DrainsFollow
<1>6. DownIsQuiet'
  BY DEF ProgramInv, DownIsQuiet
<1> QED BY <1>3, <1>4, <1>5, <1>6

DrainMoves(p, l) ==
    /\ server' = server /\ restoring' = restoring
    /\ pc' = [pc EXCEPT ![p] = l] /\ l \in DrainPcs
    /\ pc[p] # "off" \/ \E t \in Item : p = Post(t) /\ turn'[t] # "none"
    /\ held'[p] # NoItem <=> l \in {"popRow", "activate"}
    /\ \A q \in Drainers : q # p => held'[q] = held[q]
    /\ \A k \in Client : held'[Req(k)] = held[Req(k)]
    /\ \A t \in Item : turn[t] # "none" => turn'[t] # "none"

LEMMA DrainFrame ==
    ASSUME ProgramInv, server = "up", NEW p \in Drainers, NEW l, DrainMoves(p, l)
    PROVE  PcKinds' /\ HoldersHold' /\ DrainsFollow' /\ DownIsQuiet'
<1> USE DEF DrainMoves
<1>1. /\ pc'[p] = l
      /\ \A q \in Drainers : q # p => pc'[q] = pc[q]
      /\ \A k \in Client : pc'[Req(k)] = pc[Req(k)]
  <2>1. pc \in [Proc -> ReqPcs \cup DrainPcs]
    BY DEF ProgramInv, TypeInv, TypeOK
  <2> QED BY <2>1, ProcFacts
<1>2. PcKinds'
  BY <1>1, ProcFacts DEF ProgramInv, PcKinds
<1>3. HoldersHold'
  BY <1>1, ProcFacts DEF ProgramInv, HoldersHold
<1>4. DrainsFollow'
  <2>1. \A i \in Item : pc'[Kick(i)] # "off" => pc'[Req(i)] = "queued"
    BY <1>1, ProcFacts DEF ProgramInv, DrainsFollow
  <2>2. \A t \in Item : pc'[Post(t)] # "off" => turn'[t] # "none"
    BY <1>1, ProcFacts DEF ProgramInv, DrainsFollow
  <2> QED BY <2>1, <2>2 DEF DrainsFollow
<1>5. DownIsQuiet'
  BY DEF ProgramInv, DownIsQuiet
<1> QED BY <1>2, <1>3, <1>4, <1>5

LEMMA TurnFrame ==
    ASSUME ProgramInv, server = "up", server' = server, restoring' = restoring,
           pc' = pc, held' = held,
           \A t \in Item : turn[t] # "none" => turn'[t] # "none"
    PROVE  PcKinds' /\ HoldersHold' /\ DrainsFollow' /\ DownIsQuiet'
<1>1. PcKinds' /\ HoldersHold'
  BY DEF ProgramInv, PcKinds, HoldersHold
<1>2. DrainsFollow'
  BY DEF ProgramInv, DrainsFollow
<1>3. DownIsQuiet'
  BY DEF ProgramInv, DownIsQuiet
<1> QED BY <1>1, <1>2, <1>3

LEMMA CountedStart ==
    ASSUME TypeOK, NEW i \in Item, starts' = [starts EXCEPT ![i] = @ + 1]
    PROVE  /\ starts' \in [Item -> Nat] /\ starts'[i] = starts[i] + 1
           /\ \A j \in Item : j # i => starts'[j] = starts[j]
<1>1. starts \in [Item -> Nat]
  BY DEF TypeOK
<1>2. starts[i] + 1 \in Nat
  BY <1>1
<1> QED BY <1>1, <1>2

LEMMA SameRows ==
    ASSUME ProgramInv, rows' = rows
    PROVE  RowsFinite' /\ PosBounded'
BY DEF ProgramInv, TypeInv, RowsFinite, PosBounded

LEMMA RowInserted ==
    ASSUME ProgramInv, NEW i \in Item, Insert(i, NoItem)
    PROVE  /\ rows' \subseteq Row /\ nextRow' \in Nat /\ RowsFinite' /\ PosBounded'
           /\ \E r \in Row : r.item = i /\ r.id = nextRow /\ rows' = rows \cup {r}
<1>1. TypeInv /\ nextRow \in Nat
  BY DEF ProgramInv, TypeInv, TypeOK
<1>2. rows' = Inserted(i, NoItem) /\ nextRow' = nextRow + 1
  BY DEF Insert
<1>3. /\ Inserted(i, NoItem) \subseteq Row /\ IsFiniteSet(Inserted(i, NoItem))
      /\ \E b \in Nat : \A r \in Inserted(i, NoItem) : r.pos <= b
      /\ \E r \in Row : r.item = i /\ r.id = nextRow /\ Inserted(i, NoItem) = rows \cup {r}
  BY <1>1, InsertedFacts
<1>4. nextRow' \in Nat
  BY <1>1, <1>2
<1> QED BY <1>2, <1>3, <1>4 DEF RowsFinite, PosBounded

-----------------------------------------------------------------------------
(***************************************************************************)
(* The types and the program counters: one lemma per kind of task.         *)
(***************************************************************************)
LEMMA PushProgram ==
    ASSUME ProgramInv, server = "up", NEW i \in Pushers, PushStep(i)
    PROVE  ProgramInv'
<1>0. i \in Item /\ i \in Client /\ Req(i) \in Proc /\ i \notin Steerers /\ TypeOK
  BY ProcFacts, ClientAssumption DEF ProgramInv, TypeInv
<1>1. CASE Push(i)
  <2>1. TypeOK' /\ rows' = rows
    BY <1>0, <1>1 DEF TypeOK, ReqPcs, DrainPcs, Push, Goto, serverVars, memVars,
       rowVars, turnVars, ghostVars
  <2>2. RowsFinite' /\ PosBounded'
    BY <2>1, SameRows
  <2>3. \E l : RequestMoves(i, l)
    BY <1>0, <1>1 DEF Push, Goto, RequestMoves, PushPcs, serverVars, turnVars
  <2> QED BY <1>0, <2>1, <2>2, <2>3, RequestFrame DEF ProgramInv, TypeInv
<1>2. CASE PushAdmit(i)
  <2>1. TypeOK' /\ rows' = rows
    <3>1. starts' \in [Item -> Nat]
      BY <1>0, <1>2, CountedStart DEF PushAdmit, TypeOK
    <3>2. pc' \in [Proc -> ReqPcs \cup DrainPcs]
      BY <1>0, <1>2 DEF TypeOK, PushAdmit, Goto, ReqPcs
    <3> QED BY <1>0, <1>2, <3>1, <3>2 DEF TypeOK, PushAdmit, serverVars, memVars, rowVars
  <2>2. RowsFinite' /\ PosBounded'
    BY <2>1, SameRows
  <2>3. \E l : RequestMoves(i, l)
    BY <1>0, <1>2 DEF PushAdmit, Goto, RequestMoves, PushPcs, serverVars, turnVars, TypeOK
  <2> QED BY <1>0, <2>1, <2>2, <2>3, RequestFrame DEF ProgramInv, TypeInv
<1>3. CASE PushRow(i)
  <2>1. /\ rows' \subseteq Row /\ nextRow' \in Nat /\ RowsFinite' /\ PosBounded'
    BY <1>0, <1>3, RowInserted, SameRows DEF PushRow, TypeOK
  <2>2. TypeOK'
    BY <1>0, <1>3, <2>1 DEF TypeOK, ReqPcs, PushRow, Goto, Released, serverVars, memVars,
       turnVars, ghostVars
  <2>3. \E l : RequestMoves(i, l)
    BY <1>0, <1>3 DEF PushRow, Goto, RequestMoves, PushPcs, serverVars, turnVars
  <2> QED BY <1>0, <2>1, <2>2, <2>3, RequestFrame DEF ProgramInv, TypeInv
<1>4. CASE PushMemory(i)
  <2>1. TypeOK' /\ rows' = rows
    BY <1>0, <1>4, QueuedType, AppendProperties DEF TypeOK, PushMemory, Released, serverVars,
       rowVars, turnVars, ghostVars
  <2>2. RowsFinite' /\ PosBounded'
    BY <2>1, SameRows
  <2>3. QueuedMoves(i)
    BY <1>0, <1>4 DEF PushMemory, QueuedMoves, serverVars, turnVars
  <2> QED BY <1>0, <2>1, <2>2, <2>3, QueuedFrame DEF ProgramInv, TypeInv
<1> QED BY <1>1, <1>2, <1>3, <1>4 DEF PushStep

LEMMA SteerProgram ==
    ASSUME ProgramInv, server = "up", NEW s \in Steerers, SteerStep(s)
    PROVE  ProgramInv'
<1>0. s \in Item /\ s \in Client /\ Req(s) \in Proc /\ s \notin Pushers /\ TypeOK
  BY ProcFacts, ClientAssumption DEF ProgramInv, TypeInv
<1>1. ASSUME NEW t \in Item, Steer(s, t) PROVE ProgramInv'
  <2>1. TypeOK' /\ rows' = rows
    BY <1>0, <1>1 DEF TypeOK, Steer, ReqPcs, Goto, serverVars, memVars, rowVars, turnVars,
                      ghostVars
  <2>2. RowsFinite' /\ PosBounded'
    BY <2>1, SameRows
  <2>3. \E l : RequestMoves(s, l)
    <3>1. /\ \A p \in Drainers : held'[p] = held[p]
          /\ \A j \in Client : j # s => held'[Req(j)] = held[Req(j)]
      BY <1>0, <1>1, ProcFacts DEF Steer, TypeOK
    <3> QED BY <1>0, <1>1, <3>1 DEF Steer, Goto, RequestMoves, SteerPcs, serverVars, turnVars
  <2> QED BY <1>0, <2>1, <2>2, <2>3, RequestFrame DEF ProgramInv, TypeInv
<1>2. CASE SteerMismatch(s)
  <2>1. TypeOK' /\ rows' = rows
    BY <1>0, <1>2 DEF TypeOK, SteerMismatch, ReqPcs, Goto, serverVars, memVars, rowVars,
                      turnVars, ghostVars
  <2>2. RowsFinite' /\ PosBounded'
    BY <2>1, SameRows
  <2>3. \E l : RequestMoves(s, l)
    BY <1>0, <1>2 DEF SteerMismatch, Goto, RequestMoves, SteerPcs, serverVars, turnVars
  <2> QED BY <1>0, <2>1, <2>2, <2>3, RequestFrame DEF ProgramInv, TypeInv
<1>3. CASE SteerRow(s)
  <2>1. TypeOK' /\ rows' = rows
    <3>1. steerRows \in Seq(Steerers) /\ Append(steerRows, s) \in Seq(Steerers)
      BY <1>0, AppendProperties DEF TypeOK
    <3> QED BY <1>0, <1>3, <3>1 DEF TypeOK, SteerRow, ReqPcs, Goto, serverVars, memVars,
               turnVars, ghostVars
  <2>2. RowsFinite' /\ PosBounded'
    BY <2>1, SameRows
  <2>3. \E l : RequestMoves(s, l)
    BY <1>0, <1>3 DEF SteerRow, Goto, RequestMoves, SteerPcs, serverVars, turnVars
  <2> QED BY <1>0, <2>1, <2>2, <2>3, RequestFrame DEF ProgramInv, TypeInv
<1>4. CASE SteerInbox(s)
  <2>1. TypeOK' /\ rows' = rows
    BY <1>0, <1>4, AppendProperties
       DEF TypeOK, SteerInbox, ReqPcs, Goto, serverVars, rowVars, turnVars, ghostVars
  <2>2. RowsFinite' /\ PosBounded'
    BY <2>1, SameRows
  <2>3. \E l : RequestMoves(s, l)
    BY <1>0, <1>4 DEF SteerInbox, Goto, RequestMoves, SteerPcs, serverVars, turnVars
  <2> QED BY <1>0, <2>1, <2>2, <2>3, RequestFrame DEF ProgramInv, TypeInv
<1>5. CASE SteerMaterialize(s)
  <2>1. TypeOK' /\ rows' = rows
    BY <1>0, <1>5 DEF TypeOK, SteerMaterialize, ReqPcs, Goto, serverVars, memVars, rowVars,
                      turnVars, ghostVars
  <2>2. RowsFinite' /\ PosBounded'
    BY <2>1, SameRows
  <2>3. \E l : RequestMoves(s, l)
    BY <1>0, <1>5 DEF SteerMaterialize, Goto, RequestMoves, SteerPcs, serverVars, turnVars
  <2> QED BY <1>0, <2>1, <2>2, <2>3, RequestFrame DEF ProgramInv, TypeInv
<1>6. CASE DegradeRow(s)
  <2>1. /\ rows' \subseteq Row /\ nextRow' \in Nat /\ RowsFinite' /\ PosBounded'
    BY <1>0, <1>6, RowInserted, SameRows DEF DegradeRow, TypeOK
  <2>2. TypeOK'
    BY <1>0, <1>6, <2>1 DEF TypeOK, DegradeRow, ReqPcs, Goto, serverVars, memVars, turnVars,
                            ghostVars
  <2>3. \E l : RequestMoves(s, l)
    BY <1>0, <1>6 DEF DegradeRow, Goto, RequestMoves, SteerPcs, serverVars, turnVars
  <2> QED BY <1>0, <2>1, <2>2, <2>3, RequestFrame DEF ProgramInv, TypeInv
<1>7. CASE DegradeMemory(s)
  <2>1. TypeOK' /\ rows' = rows
    BY <1>0, <1>7, QueuedType, AppendProperties DEF TypeOK, DegradeMemory, serverVars,
       rowVars, turnVars, ghostVars
  <2>2. RowsFinite' /\ PosBounded'
    BY <2>1, SameRows
  <2>3. QueuedMoves(s)
    BY <1>0, <1>7 DEF DegradeMemory, QueuedMoves, serverVars, turnVars
  <2> QED BY <1>0, <2>1, <2>2, <2>3, QueuedFrame DEF ProgramInv, TypeInv
<1> QED BY <1>1, <1>2, <1>3, <1>4, <1>5, <1>6, <1>7 DEF SteerStep

LEMMA RemoveProgram ==
    ASSUME ProgramInv, server = "up", NEW r \in Removers, RemoveStep(r)
    PROVE  ProgramInv'
<1>0. /\ r \in Client /\ Req(r) \in Proc /\ r \notin Pushers /\ r \notin Steerers /\ TypeOK
      /\ pc[Req(r)] = "removeRow" => held[Req(r)] \in Item
  BY ProcFacts, ClientAssumption DEF ProgramInv, TypeInv, HoldersHold, Item
<1>1. ASSUME NEW i \in Item, RemoveItem(r, i) PROVE ProgramInv'
  <2>1. queue' \in Seq(Item)
    BY <1>0, <1>1, WithoutFacts DEF TypeOK, RemoveItem
  <2>2. held' \in [Proc -> Item \cup {NoItem}] /\ pc' \in [Proc -> ReqPcs \cup DrainPcs]
    BY <1>0, <1>1 DEF TypeOK, RemoveItem, ReqPcs, Goto
  <2>3. TypeOK' /\ rows' = rows
    BY <1>0, <1>1, <2>1, <2>2 DEF TypeOK, RemoveItem, serverVars, rowVars, turnVars, ghostVars
  <2>4. RowsFinite' /\ PosBounded'
    BY <2>3, SameRows
  <2>5. \E l : RequestMoves(r, l)
    <3>1. /\ \A p \in Drainers : held'[p] = held[p]
          /\ \A j \in Client : j # r => held'[Req(j)] = held[Req(j)]
          /\ InQueue(i) => held'[Req(r)] = i
      BY <1>0, <1>1, ProcFacts DEF RemoveItem, TypeOK
    <3> QED BY <1>0, <1>1, <3>1 DEF RemoveItem, Goto, RequestMoves, serverVars, turnVars
  <2> QED BY <1>0, <2>3, <2>4, <2>5, RequestFrame DEF ProgramInv, TypeInv
<1>2. CASE RemoveRow(r)
  <2>1. rows' \subseteq Row /\ RowsFinite' /\ PosBounded'
    <3>1. WithoutRow(held[Req(r)]) \subseteq rows
      BY DEF WithoutRow
    <3> QED BY <1>2, <3>1, FewerRows DEF RemoveRow, RowsAfterRemove, ProgramInv, RowsFinite,
               PosBounded
  <2>2. TypeOK'
    BY <1>0, <1>2, <2>1 DEF TypeOK, RemoveRow, ReqPcs, Goto, serverVars, memVars, turnVars
  <2>3. \E l : RequestMoves(r, l)
    BY <1>0, <1>2 DEF RemoveRow, Goto, RequestMoves, serverVars, turnVars
  <2> QED BY <1>0, <2>1, <2>2, <2>3, RequestFrame DEF ProgramInv, TypeInv
<1> QED BY <1>1, <1>2 DEF RemoveStep

\* The rows after an update of them one by one.
LEMMA RowsMapped ==
    ASSUME TypeInv, NEW f, NEW b \in Nat,
           f \in [rows -> Row], \A r \in rows : f[r].pos = r.pos \/ f[r].pos <= b
    PROVE  LET S == {f[r] : r \in rows} IN
           S \subseteq Row /\ IsFiniteSet(S) /\ \E c \in Nat : \A r \in S : r.pos <= c
<1> DEFINE S == {f[r] : r \in rows}
<1>1. S \subseteq Row
  OBVIOUS
<1>2. IsFiniteSet(S)
  <2>1. f \in Surjection(rows, S)
    BY DEF Surjection
  <2> QED BY <2>1, FS_Surjection DEF TypeInv, RowsFinite
<1>3. PICK c \in Nat : \A r \in rows : r.pos <= c
  BY DEF TypeInv, PosBounded
<1>4. \A r \in rows : r.pos \in Nat
  BY DEF TypeInv, TypeOK, Row
<1>5. \A r \in rows : f[r].pos <= b + c
  <2> TAKE r \in rows
  <2>1. CASE f[r].pos = r.pos
    BY <1>3, <1>4, <2>1
  <2>2. CASE f[r].pos <= b
    <3>1. f[r].pos \in Nat
      BY DEF Row
    <3> QED BY <1>3, <2>2, <3>1
  <2> QED BY <2>1, <2>2
<1>6. b + c \in Nat /\ \A r \in S : r.pos <= b + c
  BY <1>3, <1>5
<1> QED BY <1>1, <1>2, <1>6

\* Numbering the rows of a list: each gets its place in it.
LEMMA RowsNumbered ==
    ASSUME TypeInv, NEW order \in Seq(Item),
           rows' = {IF \E n \in 1..Len(order) : order[n] = r.item
                    THEN [r EXCEPT !.pos = CHOOSE n \in 1..Len(order) : order[n] = r.item]
                    ELSE r : r \in rows}
    PROVE  /\ rows' \subseteq Row /\ RowsFinite' /\ PosBounded'
           /\ \E f \in [rows -> Row] : /\ \A r \in rows : f[r].item = r.item
                                       /\ rows' = {f[r] : r \in rows}
<1> DEFINE at(r) == CHOOSE n \in 1..Len(order) : order[n] = r.item
           f == [r \in rows |-> IF \E n \in 1..Len(order) : order[n] = r.item
                                THEN [r EXCEPT !.pos = at(r)] ELSE r]
<1>1. Len(order) \in Nat
  BY LenProperties
<1>2. ASSUME NEW r \in rows
      PROVE  f[r] \in Row /\ f[r].item = r.item /\ (f[r].pos = r.pos \/ f[r].pos <= Len(order))
  <2>1. r \in Row
    BY DEF TypeInv, TypeOK
  <2>2. CASE \E n \in 1..Len(order) : order[n] = r.item
    <3>1. at(r) \in 1..Len(order)
      BY <2>2
    <3>2. at(r) \in Nat /\ at(r) <= Len(order)
      BY <1>1, <3>1
    <3>3. f[r] = [r EXCEPT !.pos = at(r)]
      BY <2>2
    <3> HIDE DEF at, f
    <3> QED BY <2>1, <3>2, <3>3 DEF Row
  <2>3. CASE ~\E n \in 1..Len(order) : order[n] = r.item
    BY <2>1, <2>3
  <2> QED BY <2>2, <2>3
<1>3. rows' = {f[r] : r \in rows}
  BY Zenon
<1> HIDE DEF f
<1>4. f \in [rows -> Row]
  <2>1. f = [r \in rows |-> f[r]]
    BY DEF f
  <2> QED BY <1>2, <2>1
<1>5. \A r \in rows : f[r].pos = r.pos \/ f[r].pos <= Len(order)
  BY <1>2
<1>6. LET S == {f[r] : r \in rows} IN
      S \subseteq Row /\ IsFiniteSet(S) /\ \E c \in Nat : \A r \in S : r.pos <= c
  BY <1>1, <1>4, <1>5, RowsMapped
<1>7. rows' \subseteq Row /\ RowsFinite' /\ PosBounded'
  BY <1>3, <1>6 DEF RowsFinite, PosBounded
<1> QED BY <1>2, <1>3, <1>4, <1>7

LEMMA RowsWritten ==
    ASSUME TypeInv, NEW i, NEW c \in {NoItem} \cup Editors,
           rows' = {IF r.item = i THEN [r EXCEPT !.content = c] ELSE r : r \in rows}
    PROVE  /\ rows' \subseteq Row /\ RowsFinite' /\ PosBounded'
           /\ \E f \in [rows -> Row] : /\ \A r \in rows : f[r].item = r.item
                                       /\ rows' = {f[r] : r \in rows}
<1> DEFINE f == [r \in rows |-> IF r.item = i THEN [r EXCEPT !.content = c] ELSE r]
<1>1. ASSUME NEW r \in rows PROVE f[r] \in Row /\ f[r].item = r.item /\ f[r].pos = r.pos
  <2>1. r \in Row
    BY DEF TypeInv, TypeOK
  <2> QED BY <2>1 DEF Row
<1>2. rows' = {f[r] : r \in rows}
  BY Zenon
<1> HIDE DEF f
<1>3. f \in [rows -> Row]
  <2>1. f = [r \in rows |-> f[r]]
    BY DEF f
  <2> QED BY <1>1, <2>1
<1>4. \A r \in rows : f[r].pos = r.pos \/ f[r].pos <= 0
  BY <1>1
<1>5. LET S == {f[r] : r \in rows} IN
      S \subseteq Row /\ IsFiniteSet(S) /\ \E b \in Nat : \A r \in S : r.pos <= b
  BY <1>3, <1>4, RowsMapped
<1>6. rows' \subseteq Row /\ RowsFinite' /\ PosBounded'
  BY <1>2, <1>5 DEF RowsFinite, PosBounded
<1> QED BY <1>1, <1>2, <1>3, <1>6

LEMMA EditProgram ==
    ASSUME ProgramInv, server = "up", NEW e \in Editors, EditStep(e)
    PROVE  ProgramInv'
<1>0. /\ e \in Client /\ Req(e) \in Proc /\ e \notin Pushers /\ e \notin Steerers /\ TypeOK
      /\ pc[Req(e)] = "editSnapshot" => held[Req(e)] \in Item
  BY ProcFacts, ClientAssumption DEF ProgramInv, TypeInv, HoldersHold, Item
<1>1. ASSUME NEW i \in Item, NEW p \in 0..Cardinality(Item), Edit(e, i, p) PROVE ProgramInv'
  <2>1. queue' \in Seq(Item)
    <3>1. CASE p = 0
      BY <1>0, <1>1, <3>1 DEF TypeOK, Edit
    <3>2. CASE p # 0
      <4>1. p \in Nat \ {0}
        BY <3>2
      <4> QED BY <1>0, <1>1, <3>2, <4>1, MovedFacts DEF TypeOK, Edit
    <3> QED BY <3>1, <3>2
  <2>2. content' \in [Item -> {NoItem} \cup Editors]
    BY <1>0, <1>1 DEF TypeOK, Edit
  <2>3. edit' \in [Editors -> [order : Seq(Item), content : {NoItem} \cup Editors,
                               moved : BOOLEAN]]
    <3> DEFINE m == p # 0
    <3>1. m \in BOOLEAN
      OBVIOUS
    <3>2. edit' = [edit EXCEPT ![e].moved = m]
      BY <1>1 DEF Edit
    <3> HIDE DEF m
    <3> QED BY <1>0, <3>1, <3>2 DEF TypeOK
  <2>4. held' \in [Proc -> Item \cup {NoItem}] /\ pc' \in [Proc -> ReqPcs \cup DrainPcs]
    BY <1>0, <1>1 DEF TypeOK, Edit, ReqPcs, Goto
  <2>5. TypeOK' /\ rows' = rows
    BY <1>0, <1>1, <2>1, <2>2, <2>3, <2>4 DEF TypeOK, Edit, serverVars, rowVars, turnVars,
       ghostVars
  <2>6. RowsFinite' /\ PosBounded'
    BY <2>5, SameRows
  <2>7. \E l : RequestMoves(e, l)
    <3>1. /\ \A q \in Drainers : held'[q] = held[q]
          /\ \A j \in Client : j # e => held'[Req(j)] = held[Req(j)]
          /\ held'[Req(e)] = i
      BY <1>0, <1>1, ProcFacts DEF Edit, TypeOK
    <3> QED BY <1>0, <1>1, <3>1 DEF Edit, Goto, RequestMoves, serverVars, turnVars
  <2> QED BY <1>0, <2>5, <2>6, <2>7, RequestFrame DEF ProgramInv, TypeInv
<1>2. ASSUME NEW i \in Item, EditMissing(e, i) PROVE ProgramInv'
  <2>1. TypeOK' /\ rows' = rows
    BY <1>0, <1>2 DEF TypeOK, EditMissing, ReqPcs, Goto, serverVars, memVars, rowVars, turnVars,
       ghostVars
  <2>2. RowsFinite' /\ PosBounded'
    BY <2>1, SameRows
  <2>3. \E l : RequestMoves(e, l)
    BY <1>0, <1>2 DEF EditMissing, Goto, RequestMoves, serverVars, turnVars
  <2> QED BY <1>0, <2>1, <2>2, <2>3, RequestFrame DEF ProgramInv, TypeInv
<1>3. CASE EditSnapshot(e)
  <2>1. edit' \in [Editors -> [order : Seq(Item), content : {NoItem} \cup Editors,
                               moved : BOOLEAN]]
    <3>1. queue \in Seq(Item) /\ content[held[Req(e)]] \in {NoItem} \cup Editors
      BY <1>0, <1>3 DEF TypeOK, EditSnapshot
    <3>2. edit' = [edit EXCEPT ![e].order = queue, ![e].content = content[held[Req(e)]]]
      BY <1>3 DEF EditSnapshot
    <3> QED BY <1>0, <3>1, <3>2 DEF TypeOK
  <2>2. TypeOK' /\ rows' = rows
    BY <1>0, <1>3, <2>1 DEF TypeOK, EditSnapshot, ReqPcs, Goto, serverVars, memVars, rowVars,
       turnVars, ghostVars
  <2>3. RowsFinite' /\ PosBounded'
    BY <2>2, SameRows
  <2>4. \E l : RequestMoves(e, l)
    BY <1>0, <1>3 DEF EditSnapshot, Goto, RequestMoves, serverVars, turnVars
  <2> QED BY <1>0, <2>2, <2>3, <2>4, RequestFrame DEF ProgramInv, TypeInv
<1>4. CASE EditContent(e)
  <2>1. edit[e].content \in {NoItem} \cup Editors
    BY <1>0 DEF TypeOK
  <2>2. rows' \subseteq Row /\ RowsFinite' /\ PosBounded'
    BY <1>4, <2>1, RowsWritten DEF EditContent, ProgramInv
  <2>3. TypeOK'
    BY <1>0, <1>4, <2>2 DEF TypeOK, EditContent, ReqPcs, Goto, serverVars, memVars, turnVars,
       ghostVars
  <2>4. \E l : RequestMoves(e, l)
    BY <1>0, <1>4 DEF EditContent, Goto, RequestMoves, serverVars, turnVars
  <2> QED BY <1>0, <2>2, <2>3, <2>4, RequestFrame DEF ProgramInv, TypeInv
<1>5. CASE EditPositions(e)
  <2>1. edit[e].order \in Seq(Item)
    BY <1>0 DEF TypeOK
  <2>2. rows' \subseteq Row /\ RowsFinite' /\ PosBounded'
    BY <1>5, <2>1, RowsNumbered DEF EditPositions, ProgramInv
  <2>3. TypeOK'
    BY <1>0, <1>5, <2>2 DEF TypeOK, EditPositions, ReqPcs, Goto, serverVars, memVars, turnVars,
       ghostVars
  <2>4. \E l : RequestMoves(e, l)
    BY <1>0, <1>5 DEF EditPositions, Goto, RequestMoves, serverVars, turnVars
  <2> QED BY <1>0, <2>2, <2>3, <2>4, RequestFrame DEF ProgramInv, TypeInv
<1> QED BY <1>1, <1>2, <1>3, <1>4, <1>5 DEF EditStep

LEMMA InboxItems ==
    ASSUME TypeOK
    PROVE  /\ inbox \in Seq(Item)
           /\ queue \o inbox \in Seq(Item)
           /\ \A s \in Seq(Steerers) : s \in Seq(Item)
<1>1. \A s \in Seq(Steerers) : s \in Seq(Item)
  <2> SUFFICES ASSUME NEW s \in Seq(Steerers) PROVE s \in Seq(Item)
    OBVIOUS
  <2>1. Len(s) \in Nat /\ s \in [1..Len(s) -> Steerers]
    BY LenProperties
  <2>2. s \in [1..Len(s) -> Item]
    BY <2>1, ProcFacts
  <2> QED BY <2>1, <2>2, SeqDef
<1> QED BY <1>1, ConcatProperties DEF TypeOK

LEMMA DrainProgram ==
    ASSUME ProgramInv, server = "up", NEW p \in Drainers, DrainStep(p)
    PROVE  ProgramInv'
<1>0. /\ p \in Proc /\ TypeOK
      /\ held[p] # NoItem <=> pc[p] \in {"popRow", "activate"}
  BY ProcFacts DEF ProgramInv, TypeInv, HoldersHold
<1>1. CASE DrainCheck(p)
  <2>1. TypeOK' /\ rows' = rows
    BY <1>0, <1>1 DEF TypeOK, DrainCheck, DrainPcs, Goto, serverVars, memVars, rowVars,
       turnVars, ghostVars
  <2>2. RowsFinite' /\ PosBounded'
    BY <2>1, SameRows
  <2>3. \E l : DrainMoves(p, l)
    BY <1>0, <1>1 DEF DrainCheck, Goto, DrainMoves, DrainPcs, serverVars, turnVars
  <2> QED BY <1>0, <2>1, <2>2, <2>3, DrainFrame DEF ProgramInv, TypeInv
<1>2. CASE DrainGate(p)
  <2>1. TypeOK' /\ rows' = rows
    BY <1>0, <1>2 DEF TypeOK, DrainGate, DrainPcs, Goto, serverVars, memVars, rowVars,
       turnVars, ghostVars
  <2>2. RowsFinite' /\ PosBounded'
    BY <2>1, SameRows
  <2>3. \E l : DrainMoves(p, l)
    BY <1>0, <1>2 DEF DrainGate, Goto, DrainMoves, DrainPcs, serverVars, turnVars
  <2> QED BY <1>0, <2>1, <2>2, <2>3, DrainFrame DEF ProgramInv, TypeInv
<1>3. CASE DrainPop(p)
  <2>1. queue # <<>> => Head(queue) \in Item /\ Tail(queue) \in Seq(Item)
    BY <1>0, HeadTailProperties DEF TypeOK
  <2>2. held' \in [Proc -> Item \cup {NoItem}] /\ pc' \in [Proc -> ReqPcs \cup DrainPcs]
    BY <1>0, <1>3, <2>1 DEF TypeOK, DrainPop, DrainPcs, Goto
  <2>3. TypeOK' /\ rows' = rows
    BY <1>0, <1>3, <2>1, <2>2 DEF TypeOK, DrainPop, serverVars, rowVars, turnVars, ghostVars
  <2>4. RowsFinite' /\ PosBounded'
    BY <2>3, SameRows
  <2>5. \E l : DrainMoves(p, l)
    <3>1. \A q \in Drainers : q # p => held'[q] = held[q]
      BY <1>0, <1>3, ProcFacts DEF DrainPop, TypeOK
    <3>2. \A k \in Client : held'[Req(k)] = held[Req(k)]
      BY <1>0, <1>3, ProcFacts DEF DrainPop, TypeOK
    <3>3. CASE Goto(p, "popRow")
      <4>1. held'[p] \in Item
        BY <1>0, <1>3, <2>1, <3>3 DEF DrainPop, TypeOK, Goto
      <4>2. held'[p] # NoItem
        BY <4>1, ClientAssumption DEF Client
      <4>3. DrainMoves(p, "popRow")
        BY <1>0, <1>3, <3>1, <3>2, <3>3, <4>2
           DEF DrainPop, Goto, DrainMoves, DrainPcs, serverVars, turnVars
      <4> QED BY <4>3
    <3>4. CASE Goto(p, "finished") /\ held' = held
      <4>1. DrainMoves(p, "finished")
        BY <1>0, <1>3, <3>1, <3>2, <3>4
           DEF DrainPop, Goto, DrainMoves, DrainPcs, serverVars, turnVars
      <4> QED BY <4>1
    <3> QED BY <1>3, <3>3, <3>4 DEF DrainPop
  <2> QED BY <1>0, <2>3, <2>4, <2>5, DrainFrame DEF ProgramInv, TypeInv
<1>4. CASE DrainRow(p)
  <2>1. rows' \subseteq Row /\ RowsFinite' /\ PosBounded'
    <3>1. WithoutRow(held[p]) \subseteq rows
      BY DEF WithoutRow
    <3> QED BY <1>4, <3>1, FewerRows
               DEF DrainRow, RowsAfterPop, ProgramInv, RowsFinite, PosBounded
  <2>2. TypeOK'
    BY <1>0, <1>4, <2>1 DEF TypeOK, DrainRow, DrainPcs, Goto, serverVars, memVars, turnVars,
       ghostVars
  <2>3. \E l : DrainMoves(p, l)
    BY <1>0, <1>4 DEF DrainRow, Goto, DrainMoves, DrainPcs, serverVars, turnVars
  <2> QED BY <1>0, <2>1, <2>2, <2>3, DrainFrame DEF ProgramInv, TypeInv
<1>5. CASE DrainActivate(p)
  <2>1. held[p] \in Item
    BY <1>0, <1>5 DEF TypeOK, DrainActivate
  <2>2. starts' \in [Item -> Nat]
    BY <1>0, <1>5, <2>1, CountedStart DEF DrainActivate
  <2>3. /\ held' \in [Proc -> Item \cup {NoItem}] /\ pc' \in [Proc -> ReqPcs \cup DrainPcs]
        /\ held'[p] = NoItem
    BY <1>0, <1>5 DEF TypeOK, DrainActivate, DrainPcs, Goto
  <2>4. turn' = [turn EXCEPT ![held[p]] = "running"] /\ active' = held[p]
    BY <1>5 DEF DrainActivate
  <2>5. TypeOK' /\ rows' = rows
    BY <1>0, <1>5, <2>1, <2>2, <2>3, <2>4
       DEF TypeOK, DrainActivate, serverVars, memVars, rowVars
  <2>6. RowsFinite' /\ PosBounded'
    BY <2>5, SameRows
  <2>7. DrainMoves(p, "finished")
    <3>1. /\ \A q \in Drainers : q # p => held'[q] = held[q]
          /\ \A k \in Client : held'[Req(k)] = held[Req(k)]
      BY <1>0, <1>5, ProcFacts DEF DrainActivate, TypeOK
    <3>2. \A t \in Item : turn[t] # "none" => turn'[t] # "none"
      BY <1>0, <2>4 DEF TypeOK
    <3>3. pc[p] # "off" /\ Goto(p, "finished") /\ server' = server /\ restoring' = restoring
      BY <1>5 DEF DrainActivate, serverVars
    <3> QED BY <2>3, <3>1, <3>2, <3>3 DEF Goto, DrainMoves, DrainPcs
  <2> QED BY <1>0, <2>5, <2>6, <2>7, DrainFrame DEF ProgramInv, TypeInv
<1> QED BY <1>1, <1>2, <1>3, <1>4, <1>5 DEF DrainStep

Stages == {"none", "running", "ended", "swept", "listed", "drained", "recorded", "done"}

LEMMA TurnAt ==
    ASSUME TypeOK, NEW t \in Item, NEW x \in Stages, turn' = [turn EXCEPT ![t] = x]
    PROVE  /\ turn' \in [Item -> Stages] /\ turn'[t] = x
           /\ \A u \in Item : u # t => turn'[u] = turn[u]
BY DEF TypeOK, Stages

SweepTypes == [Item -> [ids : SUBSET Item, drained : Seq(Steerers)]]

LEMMA SweepAt ==
    ASSUME sweep \in SweepTypes, NEW t \in Item, NEW d \in Seq(Steerers),
           sweep' = [sweep EXCEPT ![t].drained = d]
    PROVE  /\ sweep' \in SweepTypes /\ sweep'[t].drained = d
           /\ \A u \in Item : u # t => sweep'[u] = sweep[u]
<1>1. sweep[t] \in [ids : SUBSET Item, drained : Seq(Steerers)]
  BY DEF SweepTypes
<1>2. [sweep[t] EXCEPT !.drained = d] \in [ids : SUBSET Item, drained : Seq(Steerers)]
  BY <1>1
<1>3. sweep' = [sweep EXCEPT ![t] = [sweep[t] EXCEPT !.drained = d]]
  BY DEF SweepTypes
<1>4. sweep'[t] = [sweep[t] EXCEPT !.drained = d]
  BY <1>3 DEF SweepTypes
<1> QED BY <1>1, <1>2, <1>3, <1>4 DEF SweepTypes

LEMMA SweepLists ==
    ASSUME sweep \in SweepTypes, NEW t \in Item, NEW x \in SUBSET Item,
           sweep' = [sweep EXCEPT ![t].ids = x]
    PROVE  /\ sweep' \in SweepTypes
           /\ \A u \in Item : sweep'[u].drained = sweep[u].drained
<1>1. sweep[t] \in [ids : SUBSET Item, drained : Seq(Steerers)]
  BY DEF SweepTypes
<1>2. [sweep[t] EXCEPT !.ids = x] \in [ids : SUBSET Item, drained : Seq(Steerers)]
  BY <1>1
<1>3. sweep' = [sweep EXCEPT ![t] = [sweep[t] EXCEPT !.ids = x]]
  BY DEF SweepTypes
<1>4. sweep'[t] = [sweep[t] EXCEPT !.ids = x]
  BY <1>3 DEF SweepTypes
<1> QED BY <1>1, <1>2, <1>3, <1>4 DEF SweepTypes

LEMMA TurnProgram ==
    ASSUME ProgramInv, server = "up", NEW t \in Item, TurnStep(t), OneChain(t)
    PROVE  ProgramInv'
<1>0. t \in Item /\ TypeOK /\ queue \o inbox \in Seq(Item) /\ <<>> \in Seq(Steerers)
  BY InboxItems, EmptySeq DEF ProgramInv, TypeInv
<1>1. CASE TurnConsume(t)
  <2>1. consumed' \subseteq Steerers
    <3>1. \A n \in 1..Len(inbox) : inbox[n] \in Steerers
      BY <1>0, ElementOfSeq DEF TypeOK
    <3> QED BY <1>0, <1>1, <3>1 DEF TypeOK, TurnConsume
  <2>2. TypeOK' /\ rows' = rows
    BY <1>0, <1>1, <2>1 DEF TypeOK, TurnConsume, serverVars, rowVars, procVars, turnVars
  <2>3. RowsFinite' /\ PosBounded'
    BY <2>2, SameRows
  <2>4. PcKinds' /\ HoldersHold' /\ DrainsFollow' /\ DownIsQuiet'
    BY <1>1, TurnFrame DEF TurnConsume, serverVars, procVars, turnVars
  <2> QED BY <2>2, <2>3, <2>4 DEF ProgramInv, TypeInv
<1>2. CASE TurnEnd(t)
  <2>1. /\ turn' \in [Item -> Stages] /\ turn'[t] = "ended"
        /\ \A u \in Item : u # t => turn'[u] = turn[u]
    BY <1>0, <1>2, TurnAt DEF TurnEnd, Stages
  <2>2. TypeOK' /\ rows' = rows
    BY <1>0, <1>2, <2>1 DEF TypeOK, TurnEnd, Stages, serverVars, rowVars, procVars, ghostVars
  <2>3. RowsFinite' /\ PosBounded'
    BY <2>2, SameRows
  <2>4. PcKinds' /\ HoldersHold' /\ DrainsFollow' /\ DownIsQuiet'
    BY <1>2, <2>1, TurnFrame DEF TurnEnd, serverVars, procVars
  <2> QED BY <2>2, <2>3, <2>4 DEF ProgramInv, TypeInv
<1>3. CASE SweepInbox(t)
  <2>1. /\ turn' \in [Item -> Stages] /\ turn'[t] = "swept"
        /\ \A u \in Item : u # t => turn'[u] = turn[u]
    BY <1>0, <1>3, TurnAt DEF SweepInbox, Stages
  <2>2. TypeOK' /\ rows' = rows
    BY <1>0, <1>3, <2>1 DEF TypeOK, SweepInbox, Swept, Stages, serverVars, rowVars, procVars,
       ghostVars
  <2>3. RowsFinite' /\ PosBounded'
    BY <2>2, SameRows
  <2>4. PcKinds' /\ HoldersHold' /\ DrainsFollow' /\ DownIsQuiet'
    BY <1>3, <2>1, TurnFrame DEF SweepInbox, serverVars, procVars
  <2> QED BY <2>2, <2>3, <2>4 DEF ProgramInv, TypeInv
<1>4. CASE SweepIds(t)
  <2>1. /\ turn' \in [Item -> Stages] /\ turn'[t] = "listed"
        /\ \A u \in Item : u # t => turn'[u] = turn[u]
    BY <1>0, <1>4, TurnAt DEF SweepIds, Stages
  <2>2. sweep' \in [Item -> [ids : SUBSET Item, drained : Seq(Steerers)]]
    <3>1. {i \in Item : InQueue(i)} \in SUBSET Item
      OBVIOUS
    <3> QED BY <1>0, <1>4, <3>1, SweepLists DEF TypeOK, SweepIds, SweepTypes
  <2>3. TypeOK' /\ rows' = rows
    BY <1>0, <1>4, <2>1, <2>2 DEF TypeOK, SweepIds, Stages, serverVars, memVars, rowVars,
       procVars, ghostVars
  <2>4. RowsFinite' /\ PosBounded'
    BY <2>3, SameRows
  <2>5. PcKinds' /\ HoldersHold' /\ DrainsFollow' /\ DownIsQuiet'
    BY <1>4, <2>1, TurnFrame DEF SweepIds, serverVars, procVars
  <2> QED BY <2>3, <2>4, <2>5 DEF ProgramInv, TypeInv
<1>5. CASE SweepRows(t)
  <2>1. /\ turn' \in [Item -> Stages] /\ turn'[t] = "drained"
        /\ \A u \in Item : u # t => turn'[u] = turn[u]
    BY <1>0, <1>5, TurnAt DEF SweepRows, Stages
  <2>2. sweep' \in [Item -> [ids : SUBSET Item, drained : Seq(Steerers)]]
    BY <1>0, <1>5, SweepAt DEF TypeOK, SweepRows, SweepTypes
  <2>3. TypeOK' /\ rows' = rows
    BY <1>0, <1>5, <2>1, <2>2 DEF TypeOK, SweepRows, Stages, serverVars, memVars,
       procVars, ghostVars
  <2>4. RowsFinite' /\ PosBounded'
    BY <2>3, SameRows
  <2>5. PcKinds' /\ HoldersHold' /\ DrainsFollow' /\ DownIsQuiet'
    BY <1>5, <2>1, TurnFrame DEF SweepRows, serverVars, procVars
  <2> QED BY <2>3, <2>4, <2>5 DEF ProgramInv, TypeInv
<1>6. CASE SweepInsert(t)
  <2> DEFINE left == sweep[t].drained
  <2>1. /\ left \in Seq(Steerers) /\ left # <<>> /\ Head(left) \in Item
        /\ Tail(left) \in Seq(Steerers)
    <3>1. left \in Seq(Steerers) /\ left # <<>>
      BY <1>0, <1>6 DEF TypeOK, SweepInsert
    <3> HIDE DEF left
    <3> QED BY <3>1, HeadTailProperties, ProcFacts
  <2>2. sweep' = [sweep EXCEPT ![t].drained = Tail(left)]
    BY <1>6 DEF SweepInsert
  <2>3. sweep' \in [Item -> [ids : SUBSET Item, drained : Seq(Steerers)]]
    BY <1>0, <2>1, <2>2, SweepAt DEF TypeOK, SweepTypes
  <2>4. rows' \subseteq Row /\ nextRow' \in Nat /\ RowsFinite' /\ PosBounded'
    <3>1. Insert(Head(left), NoItem) \/ UNCHANGED <<rows, nextRow>>
      BY <1>6 DEF SweepInsert
    <3> QED BY <1>0, <2>1, <3>1, RowInserted, SameRows DEF TypeOK
  <2>5. TypeOK'
    BY <1>0, <1>6, <2>3, <2>4 DEF TypeOK, SweepInsert, serverVars, memVars, procVars, ghostVars
  <2>6. PcKinds' /\ HoldersHold' /\ DrainsFollow' /\ DownIsQuiet'
    BY <1>6, TurnFrame DEF SweepInsert, serverVars, procVars
  <2> QED BY <2>4, <2>5, <2>6 DEF ProgramInv, TypeInv
<1>7. CASE TurnRecord(t)
  <2>1. /\ turn' \in [Item -> Stages] /\ turn'[t] = "recorded"
        /\ \A u \in Item : u # t => turn'[u] = turn[u]
    BY <1>0, <1>7, TurnAt DEF TurnRecord, Stages
  <2>2. sweep' \in [Item -> [ids : SUBSET Item, drained : Seq(Steerers)]]
    BY <1>0, <1>7 DEF TypeOK, TurnRecord, NoSweep
  <2>3. TypeOK' /\ rows' = rows
    BY <1>0, <1>7, <2>1, <2>2 DEF TypeOK, TurnRecord, Stages, serverVars, memVars, rowVars,
       procVars, ghostVars
  <2>4. RowsFinite' /\ PosBounded'
    BY <2>3, SameRows
  <2>5. PcKinds' /\ HoldersHold' /\ DrainsFollow' /\ DownIsQuiet'
    BY <1>7, <2>1, TurnFrame DEF TurnRecord, serverVars, procVars
  <2> QED BY <2>3, <2>4, <2>5 DEF ProgramInv, TypeInv
<1>8. CASE TurnMerge(t)
  <2>1. /\ turn' \in [Item -> Stages] /\ turn'[t] = "done"
        /\ \A u \in Item : u # t => turn'[u] = turn[u]
    BY <1>0, <1>8, TurnAt DEF TurnMerge, Stages
  <2>2. TypeOK' /\ rows' = rows
    BY <1>0, <1>8, <2>1, ProcFacts DEF TypeOK, TurnMerge, Stages, Goto, DrainPcs, serverVars,
       memVars, rowVars, ghostVars
  <2>3. RowsFinite' /\ PosBounded'
    BY <2>2, SameRows
  <2>4. PcKinds' /\ HoldersHold' /\ DrainsFollow' /\ DownIsQuiet'
    <3>1. Post(t) \in Drainers /\ held[Post(t)] = NoItem
      BY <1>8, ProcFacts DEF TurnMerge, OneChain, ProgramInv, HoldersHold
    <3>2. turn'[t] # "none" /\ \A u \in Item : turn[u] # "none" => turn'[u] # "none"
      BY <2>1
    <3>3. DrainMoves(Post(t), "gate")
      BY <1>8, <3>1, <3>2 DEF TurnMerge, Goto, DrainMoves, DrainPcs, serverVars
    <3> QED BY <3>1, <3>3, DrainFrame
  <2> QED BY <2>2, <2>3, <2>4 DEF ProgramInv, TypeInv
<1> QED BY <1>1, <1>2, <1>3, <1>4, <1>5, <1>6, <1>7, <1>8 DEF TurnStep

LEMMA CrashProgram ==
    ASSUME ProgramInv, Crash
    PROVE  ProgramInv'
<1> DEFINE stay(p) == IF p \in Requests THEN IF pc[p] \in Answered THEN pc[p] ELSE "dropped"
                      ELSE "off"
<1>1. /\ \A k \in Client : pc'[Req(k)] = IF pc[Req(k)] \in Answered THEN pc[Req(k)] ELSE "dropped"
      /\ \A p \in Drainers : pc'[p] = "off"
      /\ \A p \in Proc : held'[p] = NoItem
      /\ \A t \in Item : /\ turn'[t] = IF turn[t] = "none" THEN "none" ELSE "done"
                         /\ sweep'[t] = NoSweep
  <2>1. \A p \in Proc : pc'[p] = stay(p)
    BY DEF Crash
  <2>2. \A p \in Proc : held'[p] = NoItem
    BY DEF Crash
  <2>3. \A t \in Item : /\ turn'[t] = IF turn[t] = "none" THEN "none" ELSE "done"
                        /\ sweep'[t] = NoSweep
    BY DEF Crash
  <2> QED BY <2>1, <2>2, <2>3, ProcFacts
<1>2. TypeOK' /\ rows' = rows
  <2>1. pc' \in [Proc -> ReqPcs \cup DrainPcs]
    <3>1. \A p \in Proc : stay(p) \in ReqPcs \cup DrainPcs
      BY DEF ProgramInv, TypeInv, TypeOK, ReqPcs, DrainPcs
    <3>2. pc' = [p \in Proc |-> stay(p)]
      BY DEF Crash
    <3> HIDE DEF stay
    <3> QED BY <3>1, <3>2
  <2>2. turn' \in [Item -> Stages]
    BY DEF Crash, Stages
  <2>3. held' \in [Proc -> Item \cup {NoItem}]
    BY DEF Crash
  <2>4. sweep' \in SweepTypes
    BY EmptySeq DEF Crash, SweepTypes, NoSweep
  <2>5. edit' \in [Editors -> [order : Seq(Item), content : {NoItem} \cup Editors,
                               moved : BOOLEAN]]
    BY EmptySeq DEF Crash, NoEdit
  <2>6. content' \in [Item -> {NoItem} \cup Editors]
    BY DEF Crash
  <2>7. /\ crashes' \in 0..MaxCrashes /\ queue' \in Seq(Item) /\ inbox' \in Seq(Steerers)
        /\ restoring' \in Seq(Steerers)
    BY EmptySeq, ClientAssumption DEF Crash, ProgramInv, TypeInv, TypeOK
  <2> QED BY <2>1, <2>2, <2>3, <2>4, <2>5, <2>6, <2>7
          DEF Crash, ProgramInv, TypeInv, TypeOK, rowVars, ghostVars, Stages, SweepTypes
<1>3. RowsFinite' /\ PosBounded'
  BY <1>2, SameRows
<1>4. PcKinds'
  BY <1>1, ProcFacts DEF ProgramInv, PcKinds, PushPcs, SteerPcs, DrainPcs
<1>5. HoldersHold'
  BY <1>1, ProcFacts DEF HoldersHold, Answered
<1>6. DrainsFollow'
  BY <1>1, ProcFacts DEF DrainsFollow
<1>7. DownIsQuiet'
  <2>1. crashes' # 0
    BY ClientAssumption DEF Crash, ProgramInv, TypeInv, TypeOK
  <2>2. server' = "down" /\ inbox' = <<>> /\ queue' = <<>> /\ restoring' = <<>>
    BY DEF Crash
  <2>3. \A k \in Client : pc'[Req(k)] \in Answered
    BY <1>1 DEF Answered
  <2> QED BY <1>1, <2>1, <2>2, <2>3 DEF DownIsQuiet
<1> QED BY <1>2, <1>3, <1>4, <1>5, <1>6, <1>7 DEF ProgramInv, TypeInv

\* A restored queue holds the items of the rows.
LEMMA RestoredFacts ==
    ASSUME TypeInv, NEW s \in RowOrders
    PROVE  LET q == [n \in 1..Cardinality(rows) |-> s[n].item] IN
           /\ q \in Seq(Item) /\ Len(q) = Cardinality(rows) /\ Cardinality(rows) \in Nat
           /\ \A n \in 1..Cardinality(rows) : s[n] \in rows /\ q[n] = s[n].item
<1> DEFINE N == Cardinality(rows)
           q == [n \in 1..N |-> s[n].item]
<1>1. N \in Nat
  BY FS_CardinalityType DEF TypeInv, RowsFinite
<1>2. \A n \in 1..N : s[n] \in rows /\ s[n] \in Row
  BY DEF RowOrders, TypeInv, TypeOK
<1> HIDE DEF N
<1>3. q \in [1..N -> Item]
  BY <1>2 DEF Row
<1>4. q \in Seq(Item) /\ Len(q) = N
  BY <1>1, <1>3, SeqDef, LenProperties
<1> QED BY <1>1, <1>2, <1>4 DEF N

LEMMA RestoreProgram ==
    ASSUME ProgramInv, RestoreStep
    PROVE  ProgramInv'
<1>0. TypeOK /\ TypeInv /\ DownIsQuiet /\ server # "up"
  BY DEF ProgramInv, TypeInv, RestoreStep, RestoreQueue, RestoreSteers, RestoreRequeue, Restored
<1>1. CASE RestoreQueue
  <2>1. queue' \in Seq(Item)
    <3>1. PICK s \in RowOrders : queue' = [n \in 1..Cardinality(rows) |-> s[n].item]
      BY <1>1 DEF RestoreQueue
    <3> QED BY <1>0, <3>1, RestoredFacts
  <2>2. content' \in [Item -> {NoItem} \cup Editors]
    <3>1. ASSUME NEW i \in Item, HasRow(i)
          PROVE  (CHOOSE r \in rows : r.item = i).content \in {NoItem} \cup Editors
      <4>1. (CHOOSE r \in rows : r.item = i) \in rows
        BY <3>1 DEF HasRow
      <4> QED BY <1>0, <4>1 DEF TypeOK, Row
    <3> QED BY <1>1, <3>1 DEF RestoreQueue
  <2>3. TypeOK' /\ rows' = rows
    BY <1>0, <1>1, <2>1, <2>2 DEF TypeOK, RestoreQueue, rowVars, procVars, turnVars, ghostVars
  <2>4. RowsFinite' /\ PosBounded'
    BY <2>3, SameRows
  <2>5. PcKinds' /\ HoldersHold' /\ DrainsFollow'
    BY <1>1 DEF RestoreQueue, procVars, turnVars, ProgramInv, PcKinds, HoldersHold, DrainsFollow
  <2>6. DownIsQuiet'
    BY <1>0, <1>1 DEF RestoreQueue, procVars, turnVars, DownIsQuiet
  <2> QED BY <2>3, <2>4, <2>5, <2>6 DEF ProgramInv, TypeInv
<1>2. CASE RestoreSteers
  <2>1. TypeOK' /\ rows' = rows
    BY <1>0, <1>2, EmptySeq DEF TypeOK, RestoreSteers, memVars, procVars, turnVars, ghostVars
  <2>2. RowsFinite' /\ PosBounded'
    BY <2>1, SameRows
  <2>3. PcKinds' /\ HoldersHold' /\ DrainsFollow'
    BY <1>2 DEF RestoreSteers, procVars, turnVars, ProgramInv, PcKinds, HoldersHold, DrainsFollow
  <2>4. DownIsQuiet'
    BY <1>0, <1>2 DEF RestoreSteers, memVars, procVars, turnVars, DownIsQuiet
  <2> QED BY <2>1, <2>2, <2>3, <2>4 DEF ProgramInv, TypeInv
<1>3. CASE RestoreRequeue
  <2>1. restoring \in Seq(Steerers) /\ restoring # <<>>
    BY <1>0, <1>3 DEF TypeOK, RestoreRequeue
  <2>2. Head(restoring) \in Item /\ Tail(restoring) \in Seq(Steerers)
    BY <2>1, HeadTailProperties, ProcFacts
  <2>3. queue' \in Seq(Item)
    <3>1. Append(queue, Head(restoring)) \in Seq(Item)
      BY <1>0, <2>2, AppendProperties DEF TypeOK
    <3> QED BY <1>0, <1>3, <3>1 DEF TypeOK, RestoreRequeue
  <2>4. rows' \subseteq Row /\ nextRow' \in Nat /\ RowsFinite' /\ PosBounded'
    <3>1. Insert(Head(restoring), NoItem) \/ UNCHANGED <<rows, nextRow>>
      BY <1>3 DEF RestoreRequeue
    <3> QED BY <1>0, <2>2, <3>1, RowInserted, SameRows DEF TypeOK
  <2>5. TypeOK'
    BY <1>0, <1>3, <2>2, <2>3, <2>4 DEF TypeOK, RestoreRequeue, procVars, turnVars, ghostVars
  <2>6. PcKinds' /\ HoldersHold' /\ DrainsFollow'
    BY <1>3 DEF RestoreRequeue, procVars, turnVars, ProgramInv, PcKinds, HoldersHold, DrainsFollow
  <2>7. DownIsQuiet'
    BY <1>0, <1>3 DEF RestoreRequeue, procVars, turnVars, DownIsQuiet
  <2> QED BY <2>4, <2>5, <2>6, <2>7 DEF ProgramInv, TypeInv
<1>4. CASE Restored
  <2>1. /\ pc' \in [Proc -> ReqPcs \cup DrainPcs]
        /\ \A k \in Client : pc'[Req(k)] = pc[Req(k)]
        /\ \A p \in Drainers : pc'[p] = IF p = Boot THEN "check" ELSE pc[p]
    BY <1>0, <1>4, ProcFacts DEF TypeOK, Restored, BootOn, DrainPcs
  <2>2. TypeOK' /\ rows' = rows
    BY <1>0, <1>4, <2>1 DEF TypeOK, Restored, memVars, rowVars, turnVars, ghostVars
  <2>3. RowsFinite' /\ PosBounded'
    BY <2>2, SameRows
  <2>4. held' = held /\ turn' = turn /\ server' = "up" /\ restoring' = restoring
        /\ restoring = <<>>
    BY <1>4 DEF Restored, turnVars
  <2>5. PcKinds'
    BY <2>1, ProcFacts DEF ProgramInv, PcKinds, DrainPcs
  <2>6. HoldersHold'
    BY <1>0, <2>1, <2>4, ProcFacts DEF ProgramInv, HoldersHold, DownIsQuiet
  <2>7. DrainsFollow'
    BY <2>1, <2>4, ProcFacts DEF ProgramInv, DrainsFollow
  <2>8. DownIsQuiet'
    BY <2>4 DEF DownIsQuiet
  <2> QED BY <2>2, <2>3, <2>5, <2>6, <2>7, <2>8 DEF ProgramInv, TypeInv
<1> QED BY <1>0, <1>1, <1>2, <1>3, <1>4 DEF RestoreStep

LEMMA SameProgram ==
    ASSUME ProgramInv, UNCHANGED vars
    PROVE  ProgramInv'
BY DEF ProgramInv, TypeInv, TypeOK, RowsFinite, PosBounded, PcKinds, HoldersHold, DrainsFollow,
   DownIsQuiet, vars

LEMMA ProgramStep ==
    ASSUME ProgramInv, \A t \in Item : OneChain(t), [Next]_vars
    PROVE  ProgramInv'
BY PushProgram, SteerProgram, RemoveProgram, EditProgram, DrainProgram, TurnProgram,
   CrashProgram, RestoreProgram, SameProgram DEF Next, Rest

LEMMA ProgramStart ==
    ASSUME Init
    PROVE  ProgramInv
<1>1. TypeOK
  BY EmptySeq, ClientAssumption
     DEF Init, TypeOK, ReqPcs, DrainPcs, NoEdit, NoSweep, Row
<1>2. RowsFinite
  BY FS_EmptySet DEF Init, RowsFinite
<1>3. PosBounded
  BY DEF Init, PosBounded
<1>4. PcKinds
  BY ProcFacts DEF Init, PcKinds, PushPcs, SteerPcs, DrainPcs
<1>5. HoldersHold
  BY ProcFacts DEF Init, HoldersHold
<1>6. DrainsFollow
  BY ProcFacts DEF Init, DrainsFollow
<1>7. DownIsQuiet
  BY DEF Init, DownIsQuiet
<1> QED BY <1>1, <1>2, <1>3, <1>4, <1>5, <1>6, <1>7 DEF ProgramInv, TypeInv

-----------------------------------------------------------------------------
(***************************************************************************)
(* The rows.                                                               *)
(***************************************************************************)
\* No request goes back to where its input has no row, or no place.
LEMMA Onward ==
    ASSUME ProgramInv, [Next]_vars, NEW i \in Item
    PROVE  (Unrecorded(i)' => Unrecorded(i)) /\ (Unplaced(i)' => Unplaced(i))
<1> USE DEF Unrecorded, Unplaced
<1>0. i \in Client /\ TypeOK /\ pc \in [Proc -> ReqPcs \cup DrainPcs] /\ Req(i) \in Proc
  BY ProcFacts DEF ProgramInv, TypeInv, TypeOK
<1>1. ASSUME NEW k \in Client, NEW l, Goto(Req(k), l), k # i \/ l = pc[Req(i)]
      PROVE  pc'[Req(i)] = pc[Req(i)]
  BY <1>0, <1>1, ProcFacts DEF Goto
<1>2. ASSUME NEW p \in Drainers, NEW l, Goto(p, l) PROVE pc'[Req(i)] = pc[Req(i)]
  BY <1>0, <1>2, ProcFacts DEF Goto
<1>3. ASSUME NEW l, Goto(Req(i), l) PROVE pc'[Req(i)] = l
  BY <1>0, <1>3 DEF Goto
<1>4. ASSUME NEW k \in Item, pc' = Queued(k)
      PROVE  pc'[Req(i)] = IF i = k THEN "queued" ELSE pc[Req(i)]
  BY <1>0, <1>4, QueuedType
<1>5. CASE server = "up" /\ \E k \in Pushers : PushStep(k)
  <2> PICK k \in Pushers : PushStep(k)
    BY <1>5
  <2>1. k \in Client /\ k \in Item
    BY ProcFacts
  <2>2. CASE k # i
    BY <2>1, <2>2, <1>1, <1>4 DEF PushStep, Push, PushAdmit, PushRow, PushMemory
  <2>3. CASE k = i
    BY <2>1, <2>3, <1>3, <1>4 DEF PushStep, Push, PushAdmit, PushRow, PushMemory
  <2> QED BY <2>2, <2>3
<1>6. CASE server = "up" /\ \E k \in Steerers : SteerStep(k)
  <2> PICK k \in Steerers : SteerStep(k)
    BY <1>6
  <2>1. k \in Client /\ k \in Item
    BY ProcFacts
  <2>2. CASE k # i
    BY <2>1, <2>2, <1>1, <1>4 DEF SteerStep, Steer, SteerMismatch, SteerRow, SteerInbox,
       SteerMaterialize, DegradeRow, DegradeMemory
  <2>3. CASE k = i
    BY <2>1, <2>3, <1>3, <1>4 DEF SteerStep, Steer, SteerMismatch, SteerRow, SteerInbox,
       SteerMaterialize, DegradeRow, DegradeMemory
  <2> QED BY <2>2, <2>3
<1>7. CASE server = "up" /\ \E k \in Removers : RemoveStep(k)
  <2> PICK k \in Removers : RemoveStep(k)
    BY <1>7
  <2>1. k \in Client /\ k # i
    BY ProcFacts, ClientAssumption
  <2> QED BY <2>1, <1>1 DEF RemoveStep, RemoveItem, RemoveRow
<1>8. CASE server = "up" /\ \E k \in Editors : EditStep(k)
  <2> PICK k \in Editors : EditStep(k)
    BY <1>8
  <2>1. k \in Client /\ k # i
    BY ProcFacts, ClientAssumption
  <2> QED BY <2>1, <1>1 DEF EditStep, Edit, EditMissing, EditSnapshot, EditContent, EditPositions
<1>9. CASE server = "up" /\ \E p \in Drainers : DrainStep(p)
  BY <1>9, <1>2 DEF DrainStep, DrainCheck, DrainGate, DrainPop, DrainRow, DrainActivate
<1>10. CASE server = "up" /\ \E t \in Item : TurnStep(t)
  <2> PICK t \in Item : TurnStep(t)
    BY <1>10
  <2>1. CASE TurnMerge(t)
    BY <2>1, <1>2, ProcFacts DEF TurnMerge
  <2>2. CASE pc' = pc
    BY <2>2
  <2> QED BY <2>1, <2>2 DEF TurnStep, TurnConsume, TurnEnd, SweepInbox, SweepIds, SweepRows,
             SweepInsert, TurnRecord, procVars
<1>11. CASE Crash
  <2>1. pc'[Req(i)] = IF pc[Req(i)] \in Answered THEN pc[Req(i)] ELSE "dropped"
    BY <1>0, <1>11, ProcFacts DEF Crash
  <2> QED BY <2>1
<1>12. CASE RestoreStep
  <2>1. CASE Restored
    BY <1>0, <2>1, ProcFacts DEF Restored, BootOn
  <2>2. CASE pc' = pc
    BY <2>2
  <2> QED BY <1>12, <2>1, <2>2 DEF RestoreStep, RestoreQueue, RestoreSteers, RestoreRequeue,
             procVars
<1>13. CASE UNCHANGED vars
  BY <1>13 DEF vars
<1> QED BY <1>5, <1>6, <1>7, <1>8, <1>9, <1>10, <1>11, <1>12, <1>13 DEF Next, Rest

LEMMA InsertOnce ==
    ASSUME ProgramInv, NEW k \in Item, Insert(k, NoItem), NEW j
    PROVE  /\ HasRow(j)' <=> HasRow(j) \/ j = k
           /\ RowOnce(j) /\ (j = k => ~HasRow(k)) => RowOnce(j)'
<1>1. PICK r \in Row : r.item = k /\ rows' = rows \cup {r}
  BY RowInserted
<1>2. HasRow(j)' <=> HasRow(j) \/ j = k
  BY <1>1 DEF HasRow
<1>3. RowOnce(j) /\ (j = k => ~HasRow(k)) => RowOnce(j)'
  BY <1>1 DEF HasRow, RowOnce
<1> QED BY <1>2, <1>3

LEMMA WithoutOnce ==
    ASSUME NEW k, rows' = WithoutRow(k), NEW j
    PROVE  /\ HasRow(j)' <=> HasRow(j) /\ j # k
           /\ RowOnce(j) => RowOnce(j)'
BY DEF WithoutRow, HasRow, RowOnce

LEMMA MappedOnce ==
    ASSUME NEW f \in [rows -> Row], \A r \in rows : f[r].item = r.item,
           rows' = {f[r] : r \in rows}, NEW j
    PROVE  /\ HasRow(j)' <=> HasRow(j)
           /\ RowOnce(j) => RowOnce(j)'
<1>1. HasRow(j)' <=> HasRow(j)
  BY DEF HasRow
<1>2. RowOnce(j) => RowOnce(j)'
  BY DEF RowOnce
<1> QED BY <1>1, <1>2

LEMMA SameRowOnce ==
    ASSUME rows' = rows, NEW j
    PROVE  (HasRow(j)' <=> HasRow(j)) /\ (RowOnce(j) => RowOnce(j)')
BY DEF HasRow, RowOnce

\* A step that changes no record, or only the rows.
LEMMA RecordFrame ==
    ASSUME RowsInv, NEW i \in Item,
           HasRow(i)' => HasRow(i), RowOnce(i) => RowOnce(i)',
           steerRows' = steerRows, restoring' = restoring,
           \A t \in Item : sweep'[t].drained = sweep[t].drained,
           Unrecorded(i)' => Unrecorded(i)
    PROVE  RecordedOnce(i)'
<1>1. RecordedOnce(i)
  BY DEF RowsInv
<1>2. \A t \in Item : Carries(t, i)' <=> Carries(t, i)
  BY DEF Carries
<1>3. Carried(i)' <=> Carried(i)
  BY <1>2 DEF Carried
<1>4. CarriedOnce(i)'
  BY <1>1, <1>2 DEF CarriedOnce, RecordedOnce
<1>5. /\ Occurs(steerRows, i)' <=> Occurs(steerRows, i)
      /\ Occurs(restoring, i)' <=> Occurs(restoring, i)
      /\ AtMostOnce(steerRows, i)' <=> AtMostOnce(steerRows, i)
      /\ AtMostOnce(restoring, i)' <=> AtMostOnce(restoring, i)
  OBVIOUS
<1> QED BY <1>1, <1>3, <1>4, <1>5 DEF RecordedOnce, Recorded

QuietRecords ==
    /\ rows' = rows /\ steerRows' = steerRows /\ restoring' = restoring
    /\ \A t \in Item : sweep'[t].drained = sweep[t].drained

LEMMA QuietRecorded ==
    ASSUME RowsInv, NEW i \in Item, QuietRecords, Unrecorded(i)' => Unrecorded(i)
    PROVE  RecordedOnce(i)'
BY RecordFrame, SameRowOnce DEF QuietRecords

\* A request that gives its input a row leaves the place where it had none.
LEMMA InsertRecorded ==
    ASSUME RowsInv, NEW i \in Item, NEW k \in Item, Insert(k, NoItem),
           Unrecorded(k), ~Unrecorded(k)', Unrecorded(i)' => Unrecorded(i),
           steerRows' = steerRows, restoring' = restoring, sweep' = sweep
    PROVE  RecordedOnce(i)'
<1>1. ~Recorded(k) /\ RecordedOnce(i)
  BY DEF RowsInv, RecordedOnce
<1>2. /\ HasRow(i)' <=> HasRow(i) \/ i = k
      /\ RowOnce(i) /\ (i = k => ~HasRow(k)) => RowOnce(i)'
  BY InsertOnce DEF RowsInv
<1>3. (Carried(i)' <=> Carried(i)) /\ (CarriedOnce(i)' <=> CarriedOnce(i))
  BY DEF Carried, CarriedOnce, Carries
<1>4. CASE i # k
  BY <1>1, <1>2, <1>3, <1>4 DEF RecordedOnce, Recorded
<1>5. CASE i = k
  BY <1>1, <1>2, <1>3, <1>5 DEF RecordedOnce, Recorded
<1> QED BY <1>4, <1>5

\* Its row is deleted.
LEMMA DeleteRecorded ==
    ASSUME RowsInv, NEW i \in Item, NEW k, rows' = WithoutRow(k),
           Unrecorded(i)' => Unrecorded(i),
           steerRows' = steerRows, restoring' = restoring, sweep' = sweep
    PROVE  RecordedOnce(i)'
<1>1. (HasRow(i)' => HasRow(i)) /\ (RowOnce(i) => RowOnce(i)')
  BY WithoutOnce
<1> QED BY <1>1, RecordFrame

LEMMA PushRows ==
    ASSUME RowsInv, NEW k \in Pushers, PushStep(k), NEW i \in Item,
           Unrecorded(i)' => Unrecorded(i)
    PROVE  RecordedOnce(i)'
<1>0. k \in Item /\ k \in Client /\ Req(k) \in Proc /\ TypeOK
  BY ProcFacts DEF RowsInv, ProgramInv, TypeInv
<1>1. CASE PushRow(k) /\ Insert(k, NoItem)
  <2>1. pc'[Req(k)] \in {"memory", "rejected"} /\ pc[Req(k)] = "row"
    BY <1>0, <1>1 DEF PushRow, Goto, TypeOK
  <2> QED BY <1>0, <1>1, <2>1, InsertRecorded DEF PushRow, Unrecorded, serverVars, turnVars
<1>2. CASE rows' = rows
  BY <1>2, QuietRecorded DEF QuietRecords, PushStep, Push, PushAdmit, PushRow, PushMemory,
                             rowVars, serverVars, turnVars
<1> QED BY <1>1, <1>2 DEF PushStep, Push, PushAdmit, PushRow, PushMemory, rowVars

LEMMA SteerRows ==
    ASSUME RowsInv, NEW k \in Steerers, SteerStep(k), NEW i \in Item,
           Unrecorded(i)' => Unrecorded(i)
    PROVE  RecordedOnce(i)'
<1>0. k \in Item /\ k \in Client /\ Req(k) \in Proc /\ TypeOK
  BY ProcFacts DEF RowsInv, ProgramInv, TypeInv
<1>1. CASE DegradeRow(k) /\ Insert(k, NoItem)
  <2>1. pc'[Req(k)] \in {"degradeMemory", "rejected"} /\ pc[Req(k)] = "degradeRow"
    BY <1>0, <1>1 DEF DegradeRow, Goto, TypeOK
  <2> QED BY <1>0, <1>1, <2>1, InsertRecorded DEF DegradeRow, Unrecorded, serverVars, turnVars
<1>2. CASE SteerRow(k) /\ steerRows' = Append(steerRows, k)
  <2>1. Unrecorded(k) /\ ~Unrecorded(k)'
    BY <1>0, <1>2 DEF SteerRow, Goto, TypeOK, Unrecorded
  <2>2. ~Recorded(k) /\ RecordedOnce(i)
    BY <1>0, <2>1 DEF RowsInv, RecordedOnce
  <2>3. /\ Occurs(steerRows, i)' <=> Occurs(steerRows, i) \/ i = k
        /\ AtMostOnce(steerRows, i) /\ (i = k => ~Occurs(steerRows, i))
             => AtMostOnce(steerRows, i)'
    BY <1>0, <1>2, AppendOccurs DEF TypeOK
  <2>4. rows' = rows /\ restoring' = restoring /\ sweep' = sweep
    BY <1>2 DEF SteerRow, serverVars, turnVars
  <2>5. /\ Carried(i)' <=> Carried(i)
        /\ CarriedOnce(i)' <=> CarriedOnce(i)
        /\ Occurs(restoring, i)' <=> Occurs(restoring, i)
        /\ AtMostOnce(restoring, i)' <=> AtMostOnce(restoring, i)
        /\ HasRow(i)' <=> HasRow(i)
        /\ RowOnce(i) => RowOnce(i)'
    BY <2>4, SameRowOnce DEF Carried, CarriedOnce, Carries
  <2>6. CASE i = k
    BY <2>1, <2>2, <2>3, <2>5, <2>6 DEF RecordedOnce, Recorded
  <2>7. CASE i # k
    BY <2>2, <2>3, <2>5, <2>7 DEF RecordedOnce, Recorded
  <2> QED BY <2>6, <2>7
<1>3. CASE rows' = rows /\ steerRows' = steerRows
  BY <1>3, QuietRecorded DEF QuietRecords, SteerStep, Steer, SteerMismatch, SteerRow, SteerInbox,
     SteerMaterialize, DegradeRow, DegradeMemory, serverVars, turnVars
<1> QED BY <1>1, <1>2, <1>3 DEF SteerStep, Steer, SteerMismatch, SteerRow, SteerInbox,
           SteerMaterialize, DegradeRow, DegradeMemory, rowVars

LEMMA RemoveRows ==
    ASSUME RowsInv, NEW k \in Removers, RemoveStep(k), NEW i \in Item,
           Unrecorded(i)' => Unrecorded(i)
    PROVE  RecordedOnce(i)'
<1>1. CASE RemoveRow(k)
  BY <1>1, DeleteRecorded DEF RemoveRow, RowsAfterRemove, serverVars, turnVars
<1>2. ASSUME NEW j \in Item, RemoveItem(k, j) PROVE RecordedOnce(i)'
  BY <1>2, QuietRecorded DEF QuietRecords, RemoveItem, rowVars, serverVars, turnVars
<1> QED BY <1>1, <1>2 DEF RemoveStep

LEMMA EditRows ==
    ASSUME RowsInv, NEW k \in Editors, EditStep(k), NEW i \in Item,
           Unrecorded(i)' => Unrecorded(i)
    PROVE  RecordedOnce(i)'
<1>0. /\ TypeInv /\ edit[k].content \in {NoItem} \cup Editors /\ edit[k].order \in Seq(Item)
  BY DEF RowsInv, ProgramInv, TypeInv, TypeOK
<1>1. CASE EditContent(k)
  <2>1. \E f \in [rows -> Row] : /\ \A r \in rows : f[r].item = r.item
                                 /\ rows' = {f[r] : r \in rows}
    BY <1>0, <1>1, RowsWritten DEF EditContent
  <2>2. (HasRow(i)' <=> HasRow(i)) /\ (RowOnce(i) => RowOnce(i)')
    BY <2>1, MappedOnce
  <2> QED BY <1>1, <2>2, RecordFrame DEF EditContent, serverVars, turnVars
<1>2. CASE EditPositions(k)
  <2>1. \E f \in [rows -> Row] : /\ \A r \in rows : f[r].item = r.item
                                 /\ rows' = {f[r] : r \in rows}
    BY <1>0, <1>2, RowsNumbered DEF EditPositions
  <2>2. (HasRow(i)' <=> HasRow(i)) /\ (RowOnce(i) => RowOnce(i)')
    BY <2>1, MappedOnce
  <2> QED BY <1>2, <2>2, RecordFrame DEF EditPositions, serverVars, turnVars
<1>3. CASE rows' = rows
  BY <1>3, QuietRecorded DEF QuietRecords, EditStep, Edit, EditMissing, EditSnapshot, EditContent,
     EditPositions, rowVars, serverVars, turnVars
<1> QED BY <1>1, <1>2, <1>3 DEF EditStep, Edit, EditMissing, EditSnapshot, rowVars

LEMMA DrainRows ==
    ASSUME RowsInv, NEW p \in Drainers, DrainStep(p), NEW i \in Item,
           Unrecorded(i)' => Unrecorded(i)
    PROVE  RecordedOnce(i)'
<1>1. CASE DrainRow(p)
  BY <1>1, DeleteRecorded DEF DrainRow, RowsAfterPop, serverVars, turnVars
<1>2. CASE rows' = rows
  BY <1>2, QuietRecorded DEF QuietRecords, DrainStep, DrainCheck, DrainGate, DrainPop, DrainRow,
     DrainActivate, rowVars, serverVars, turnVars
<1> QED BY <1>1, <1>2 DEF DrainStep, DrainCheck, DrainGate, DrainPop, DrainActivate, rowVars

LEMMA TurnRows ==
    ASSUME RowsInv, server = "up", NEW t \in Item, TurnStep(t), NEW i \in Item,
           Unrecorded(i)' => Unrecorded(i)
    PROVE  RecordedOnce(i)'
<1>0. TypeOK /\ ProgramInv /\ sweep \in SweepTypes /\ RecordedOnce(i)
  BY DEF RowsInv, ProgramInv, TypeInv, TypeOK, SweepTypes
<1>1. CASE TurnConsume(t) \/ TurnEnd(t) \/ SweepInbox(t) \/ TurnMerge(t)
  BY <1>1, QuietRecorded DEF QuietRecords, TurnConsume, TurnEnd, SweepInbox, TurnMerge, rowVars,
     serverVars, turnVars
<1>2. CASE SweepIds(t)
  <2>1. {j \in Item : InQueue(j)} \in SUBSET Item
    OBVIOUS
  <2>2. \A u \in Item : sweep'[u].drained = sweep[u].drained
    BY <1>0, <1>2, <2>1, SweepLists DEF SweepIds
  <2> QED BY <1>2, <2>2, QuietRecorded DEF QuietRecords, SweepIds, rowVars, serverVars
<1>3. CASE SweepRows(t)
  <2>1. /\ sweep'[t].drained = steerRows
        /\ \A u \in Item : u # t => sweep'[u] = sweep[u]
    BY <1>0, <1>3, SweepAt DEF SweepRows, TypeOK
  <2>2. rows' = rows /\ restoring' = restoring /\ steerRows' = <<>>
    BY <1>3 DEF SweepRows, serverVars
  <2>3. /\ HasRow(i)' <=> HasRow(i)
        /\ RowOnce(i) => RowOnce(i)'
        /\ ~Occurs(steerRows, i)' /\ AtMostOnce(steerRows, i)'
        /\ Occurs(restoring, i)' <=> Occurs(restoring, i)
        /\ AtMostOnce(restoring, i)' <=> AtMostOnce(restoring, i)
    BY <2>2, SameRowOnce, EmptyOccurs
  <2>4. \A u \in Item : Carries(u, i)' <=> IF u = t THEN Occurs(steerRows, i) ELSE Carries(u, i)
    BY <2>1 DEF Carries
  <2>5. CarriedOnce(i)'
    <3>1. \A u \in Item : AtMostOnce(sweep[u].drained, i)'
      BY <1>0, <2>1 DEF CarriedOnce, RecordedOnce
    <3>2. \A u, v \in Item : Carries(u, i)' /\ Carries(v, i)' => u = v
      BY <1>0, <2>4 DEF CarriedOnce, RecordedOnce, Carried
    <3> QED BY <3>1, <3>2 DEF CarriedOnce
  <2>6. Carried(i)' => Carried(i) \/ Occurs(steerRows, i)
    BY <2>4 DEF Carried
  <2>7. ~Occurs(restoring, i)
    BY <1>0, EmptyOccurs DEF ProgramInv, DownIsQuiet
  <2> QED BY <1>0, <2>3, <2>5, <2>6, <2>7 DEF RecordedOnce, Recorded
<1>4. CASE SweepInsert(t)
  <2> DEFINE left == sweep[t].drained
             k == Head(left)
  <2>1. left \in Seq(Steerers) /\ left # <<>>
    BY <1>4 DEF SweepInsert, TypeOK, SweepTypes, RowsInv, ProgramInv, TypeInv
  <2>2. Tail(left) \in Seq(Steerers) /\ k \in Item
    BY <2>1, HeadTailProperties, ProcFacts
  <2>3. /\ sweep'[t].drained = Tail(left)
        /\ \A u \in Item : u # t => sweep'[u] = sweep[u]
    BY <1>0, <1>4, <2>2, SweepAt DEF SweepInsert
  <2>4. /\ Occurs(left, i) <=> i = k \/ Occurs(Tail(left), i)
        /\ AtMostOnce(left, i) => AtMostOnce(Tail(left), i) /\ (i = k => ~Occurs(Tail(left), i))
    BY <2>1, TailOccurs
  <2>5. restoring' = restoring /\ steerRows' = steerRows
        /\ (Insert(k, NoItem) \/ rows' = rows)
    BY <1>4 DEF SweepInsert, serverVars
  <2>6. AtMostOnce(left, i)
    BY <1>0 DEF RecordedOnce, CarriedOnce
  <2>7. Carries(t, i) <=> Occurs(left, i)
    BY DEF Carries
  <2>8. \A u \in Item : Carries(u, i)' <=> IF u = t THEN Occurs(Tail(left), i) ELSE Carries(u, i)
    BY <2>3 DEF Carries
  <2> HIDE DEF left, k
  <2>9. CarriedOnce(i)'
    <3>1. \A u \in Item : AtMostOnce(sweep[u].drained, i)'
      BY <1>0, <2>3, <2>4, <2>6 DEF CarriedOnce, RecordedOnce
    <3>2. \A u \in Item : Carries(u, i)' => Carries(u, i)
      BY <2>4, <2>7, <2>8
    <3>3. \A u, v \in Item : Carries(u, i)' /\ Carries(v, i)' => u = v
      BY <1>0, <3>2 DEF CarriedOnce, RecordedOnce
    <3> QED BY <3>1, <3>3 DEF CarriedOnce
  <2>10. Carried(i)' => Carried(i) /\ i # k
    <3>1. ASSUME NEW u \in Item, Carries(u, i)' PROVE Carries(u, i) /\ i # k
      <4>1. Carries(u, i)
        BY <2>4, <2>7, <2>8, <3>1
      <4>2. u = t => i # k
        BY <2>4, <2>6, <2>8, <3>1
      <4>3. u # t => ~Carries(t, i)
        BY <1>0, <4>1 DEF RecordedOnce, CarriedOnce
      <4> QED BY <2>4, <2>7, <4>1, <4>2, <4>3
    <3> QED BY <3>1 DEF Carried
  <2>11. i = k => Carried(i)
    BY <2>4, <2>7 DEF Carried
  <2>12. /\ Occurs(steerRows, i)' <=> Occurs(steerRows, i)
         /\ AtMostOnce(steerRows, i)' <=> AtMostOnce(steerRows, i)
         /\ Occurs(restoring, i)' <=> Occurs(restoring, i)
         /\ AtMostOnce(restoring, i)' <=> AtMostOnce(restoring, i)
         /\ ~Occurs(restoring, i)
    BY <1>0, <2>5, EmptyOccurs DEF ProgramInv, DownIsQuiet
  <2>13. CASE Insert(k, NoItem)
    <3>1. /\ HasRow(i)' <=> HasRow(i) \/ i = k
          /\ RowOnce(i) /\ (i = k => ~HasRow(i)) => RowOnce(i)'
      BY <1>0, <2>2, <2>13, InsertOnce
    <3> QED BY <1>0, <2>9, <2>10, <2>11, <2>12, <3>1 DEF RecordedOnce, Recorded
  <2>14. CASE rows' = rows
    <3>1. (HasRow(i)' <=> HasRow(i)) /\ (RowOnce(i) => RowOnce(i)')
      BY <2>14, SameRowOnce
    <3> QED BY <1>0, <2>9, <2>10, <2>12, <3>1 DEF RecordedOnce, Recorded
  <2> QED BY <2>5, <2>13, <2>14
<1>5. CASE TurnRecord(t)
  <2>1. \A u \in Item : sweep'[u].drained = sweep[u].drained
    BY <1>0, <1>5 DEF TurnRecord, SweepTypes, NoSweep
  <2> QED BY <1>5, <2>1, QuietRecorded DEF QuietRecords, TurnRecord, rowVars, serverVars
<1> QED BY <1>1, <1>2, <1>3, <1>4, <1>5 DEF TurnStep

LEMMA CrashRows ==
    ASSUME RowsInv, Crash, NEW i \in Item, Unrecorded(i)' => Unrecorded(i)
    PROVE  RecordedOnce(i)'
<1>0. RecordedOnce(i)
  BY DEF RowsInv
<1>1. rows' = rows /\ steerRows' = steerRows /\ restoring' = <<>>
      /\ \A t \in Item : sweep'[t].drained = <<>>
  BY DEF Crash, rowVars, NoSweep
<1>2. ~Carried(i)' /\ CarriedOnce(i)'
  BY <1>1, EmptyOccurs DEF Carried, CarriedOnce, Carries
<1>3. ~Occurs(restoring, i)' /\ AtMostOnce(restoring, i)'
  BY <1>1, EmptyOccurs
<1>4. /\ HasRow(i)' <=> HasRow(i)
      /\ RowOnce(i) => RowOnce(i)'
      /\ Occurs(steerRows, i)' <=> Occurs(steerRows, i)
      /\ AtMostOnce(steerRows, i)' <=> AtMostOnce(steerRows, i)
  BY <1>1, SameRowOnce
<1> QED BY <1>0, <1>2, <1>3, <1>4 DEF RecordedOnce, Recorded

LEMMA RestoreRows ==
    ASSUME RowsInv, RestoreStep, NEW i \in Item, Unrecorded(i)' => Unrecorded(i)
    PROVE  RecordedOnce(i)'
<1>0. RecordedOnce(i) /\ ProgramInv /\ TypeOK
  BY DEF RowsInv, ProgramInv, TypeInv
<1>1. CASE RestoreQueue \/ Restored
  BY <1>1, QuietRecorded DEF QuietRecords, RestoreQueue, Restored, rowVars, turnVars
<1>2. CASE RestoreSteers
  <2>1. rows' = rows /\ steerRows' = <<>> /\ restoring' = steerRows /\ sweep' = sweep
    BY <1>2 DEF RestoreSteers, turnVars
  <2>2. /\ HasRow(i)' <=> HasRow(i)
        /\ RowOnce(i) => RowOnce(i)'
        /\ ~Occurs(steerRows, i)' /\ AtMostOnce(steerRows, i)'
        /\ Occurs(restoring, i)' <=> Occurs(steerRows, i)
        /\ AtMostOnce(restoring, i)' <=> AtMostOnce(steerRows, i)
        /\ Carried(i)' <=> Carried(i)
        /\ CarriedOnce(i)' <=> CarriedOnce(i)
    BY <2>1, SameRowOnce, EmptyOccurs DEF Carried, CarriedOnce, Carries
  <2> QED BY <1>0, <2>2 DEF RecordedOnce, Recorded
<1>3. CASE RestoreRequeue
  <2> DEFINE k == Head(restoring)
  <2>1. restoring \in Seq(Steerers) /\ restoring # <<>> /\ server # "up"
    BY <1>0, <1>3 DEF RestoreRequeue, TypeOK
  <2>2. k \in Item
    BY <2>1, HeadTailProperties, ProcFacts
  <2>3. /\ Occurs(restoring, i) <=> i = k \/ Occurs(Tail(restoring), i)
        /\ AtMostOnce(restoring, i) => /\ AtMostOnce(Tail(restoring), i)
                                       /\ i = k => ~Occurs(Tail(restoring), i)
    BY <2>1, TailOccurs
  <2>4. /\ restoring' = Tail(restoring) /\ steerRows' = steerRows /\ sweep' = sweep
        /\ Insert(k, NoItem) \/ rows' = rows
    BY <1>3 DEF RestoreRequeue, turnVars
  <2>5. ~Carried(i)
    BY <1>0, <2>1, EmptyOccurs DEF ProgramInv, DownIsQuiet, Carried, Carries, NoSweep
  <2> HIDE DEF k
  <2>6. /\ Occurs(restoring, i)' => Occurs(restoring, i) /\ i # k
        /\ AtMostOnce(restoring, i)'
        /\ i = k => Occurs(restoring, i)
    BY <1>0, <2>3, <2>4 DEF RecordedOnce
  <2>7. /\ Occurs(steerRows, i)' <=> Occurs(steerRows, i)
        /\ AtMostOnce(steerRows, i)' <=> AtMostOnce(steerRows, i)
        /\ Carried(i)' <=> Carried(i)
        /\ CarriedOnce(i)' <=> CarriedOnce(i)
    BY <2>4 DEF Carried, CarriedOnce, Carries
  <2>8. CASE Insert(k, NoItem)
    <3>1. /\ HasRow(i)' <=> HasRow(i) \/ i = k
          /\ RowOnce(i) /\ (i = k => ~HasRow(i)) => RowOnce(i)'
      BY <1>0, <2>2, <2>8, InsertOnce
    <3> QED BY <1>0, <2>5, <2>6, <2>7, <3>1 DEF RecordedOnce, Recorded
  <2>9. CASE rows' = rows
    <3>1. (HasRow(i)' <=> HasRow(i)) /\ (RowOnce(i) => RowOnce(i)')
      BY <2>9, SameRowOnce
    <3> QED BY <1>0, <2>5, <2>6, <2>7, <3>1 DEF RecordedOnce, Recorded
  <2> QED BY <2>4, <2>8, <2>9
<1> QED BY <1>1, <1>2, <1>3 DEF RestoreStep

LEMMA RowsStep ==
    ASSUME RowsInv, \A t \in Item : OneChain(t), [Next]_vars
    PROVE  RowsInv'
<1>1. ProgramInv'
  BY ProgramStep DEF RowsInv
<1>2. ASSUME NEW i \in Item PROVE RecordedOnce(i)'
  <2>1. Unrecorded(i)' => Unrecorded(i)
    BY Onward DEF RowsInv
  <2>2. CASE UNCHANGED vars
    BY <2>1, <2>2, QuietRecorded DEF vars, QuietRecords
  <2> QED BY <2>1, <2>2, PushRows, SteerRows, RemoveRows, EditRows, DrainRows, TurnRows,
             CrashRows,
             RestoreRows DEF Next, Rest
<1> QED BY <1>1, <1>2 DEF RowsInv

LEMMA RowsStart ==
    ASSUME Init
    PROVE  RowsInv
<1>1. ASSUME NEW i \in Item PROVE RecordedOnce(i)
  <2>1. /\ rows = {} /\ steerRows = <<>> /\ restoring = <<>>
        /\ \A t \in Item : sweep[t].drained = <<>>
    BY DEF Init, NoSweep
  <2> QED BY <2>1, EmptyOccurs DEF RecordedOnce, Recorded, HasRow, RowOnce, Carried, CarriedOnce,
             Carries
<1> QED BY <1>1, ProgramStart DEF RowsInv

-----------------------------------------------------------------------------
(***************************************************************************)
(* The places in memory.                                                   *)
(***************************************************************************)
LEMMA QueueOccurs == \A i : InQueue(i) <=> Occurs(queue, i)
BY DEF InQueue, Occurs

\* No drain and no removal takes or gives back an item.
QuietHolds ==
    /\ \A p \in Drainers : held'[p] = held[p]
    /\ \A r \in Removers : \A j : Taken(r, j)' <=> Taken(r, j)

LEMMA SameHolds ==
    ASSUME QuietHolds, NEW i
    PROVE  /\ (Popped(i)' <=> Popped(i)) /\ (TakenOut(i)' <=> TakenOut(i))
           /\ (PoppedOnce(i)' <=> PoppedOnce(i)) /\ (TakenOnce(i)' <=> TakenOnce(i))
BY DEF QuietHolds, Popped, TakenOut, PoppedOnce, TakenOnce

\* No turn begins, and no chain.
QuietTurns ==
    \A t \in Item : (Live(t)' <=> Live(t)) /\ (OneChain(t) => OneChain(t)')

LEMMA SameTurns ==
    ASSUME turn' = turn, \A t \in Item : pc'[Post(t)] = "off" <=> pc[Post(t)] = "off"
    PROVE  QuietTurns
BY DEF QuietTurns, Live, OneChain

\* The requests that are not removals hold nothing that counts.
LEMMA RequestHolds ==
    ASSUME TypeOK, NEW k \in Client, k \notin Removers, NEW l, Goto(Req(k), l),
           \/ held' = held
           \/ \E x : held' = [held EXCEPT ![Req(k)] = x]
    PROVE  /\ QuietHolds
           /\ \A p \in Drainers : pc'[p] = pc[p]
<1>1. /\ \A p \in Drainers : pc'[p] = pc[p] /\ held'[p] = held[p]
      /\ \A j \in Client : j # k => pc'[Req(j)] = pc[Req(j)] /\ held'[Req(j)] = held[Req(j)]
  BY ProcFacts DEF TypeOK, Goto
<1>2. \A r \in Removers : r \in Client /\ r # k
  BY ProcFacts
<1> QED BY <1>1, <1>2 DEF QuietHolds, Taken

LEMMA QueuedHolds ==
    ASSUME TypeOK, NEW k \in Item, pc' = Queued(k), held' = held
    PROVE  /\ QuietHolds
           /\ \A t \in Item : pc'[Post(t)] = pc[Post(t)]
<1>1. /\ \A j \in Client : j # k => pc'[Req(j)] = pc[Req(j)]
      /\ \A p \in Drainers : p # Kick(k) => pc'[p] = pc[p]
  BY QueuedType
<1>2. /\ \A r \in Removers : r \in Client /\ r # k
      /\ \A t \in Item : Post(t) \in Drainers /\ Post(t) # Kick(k)
  BY ProcFacts, ClientAssumption
<1> QED BY <1>1, <1>2 DEF QuietHolds, Taken

LEMMA DrainerHolds ==
    ASSUME TypeOK, NEW p \in Drainers, NEW l, Goto(p, l), held' = held
    PROVE  /\ QuietHolds
           /\ l # "off" /\ pc[p] # "off" =>
                \A t \in Item : pc'[Post(t)] = "off" <=> pc[Post(t)] = "off"
<1>1. /\ \A k \in Client : pc'[Req(k)] = pc[Req(k)]
      /\ \A q \in Drainers : pc'[q] = IF q = p THEN l ELSE pc[q]
  BY ProcFacts DEF TypeOK, Goto
<1>2. \A r \in Removers : r \in Client
  BY ProcFacts
<1> QED BY <1>1, <1>2, ProcFacts DEF QuietHolds, Taken

\* What a step that moves nothing leaves as it was.
Unmoved(i) ==
    /\ (InQueue(i)' <=> InQueue(i)) /\ (AtMostOnce(queue, i) => AtMostOnce(queue, i)')
    /\ (InInbox(i)' <=> InInbox(i)) /\ (AtMostOnce(inbox, i) => AtMostOnce(inbox, i)')

LEMMA SameQueues ==
    ASSUME queue' = queue, inbox' = inbox, NEW i
    PROVE  Unmoved(i)
BY DEF Unmoved, InQueue, InInbox, Occurs, AtMostOnce

HeldWell(i) == OneChain(i) /\ HeldOnce(i) /\ Exclusive(i) /\ RestoredOnce(i)

LEMMA QuietMemory ==
    ASSUME MemoryInv, server' = "up", NEW i \in Item, Unplaced(i)' => Unplaced(i),
           Unmoved(i), QuietHolds, QuietTurns
    PROVE  HeldWell(i)'
<1>1. OneChain(i) /\ HeldOnce(i) /\ Exclusive(i)
  BY DEF MemoryInv
<1>2. /\ (Popped(i)' <=> Popped(i)) /\ (TakenOut(i)' <=> TakenOut(i))
      /\ (PoppedOnce(i)' <=> PoppedOnce(i)) /\ (TakenOnce(i)' <=> TakenOnce(i))
      /\ (Live(i)' <=> Live(i)) /\ (OneChain(i) => OneChain(i)')
  BY SameHolds DEF QuietTurns
<1>3. HeldOnce(i)'
  BY <1>1, <1>2 DEF HeldOnce, Unmoved
<1>4. Exclusive(i)'
  BY <1>1, <1>2 DEF Exclusive, Unmoved
<1>5. RestoredOnce(i)'
  BY DEF RestoredOnce
<1> QED BY <1>1, <1>2, <1>3, <1>4, <1>5 DEF HeldWell

\* A request puts its input at the end of the queue or of the inbox.
LEMMA PlacedMemory ==
    ASSUME MemoryInv, server' = "up", NEW i \in Item, Unplaced(i)' => Unplaced(i),
           NEW k \in Item, Unplaced(k), ~Unplaced(k)', QuietHolds, QuietTurns,
           \/ queue' = Append(queue, k) /\ inbox' = inbox
           \/ k \in Steerers /\ inbox' = Append(inbox, k) /\ queue' = queue
    PROVE  HeldWell(i)'
<1>1. /\ OneChain(i) /\ HeldOnce(i) /\ Exclusive(i) /\ Exclusive(k)
      /\ queue \in Seq(Item) /\ inbox \in Seq(Steerers)
  BY DEF MemoryInv, RowsInv, ProgramInv, TypeInv, TypeOK
<1>2. /\ (Popped(i)' <=> Popped(i)) /\ (TakenOut(i)' <=> TakenOut(i))
      /\ (PoppedOnce(i)' <=> PoppedOnce(i)) /\ (TakenOnce(i)' <=> TakenOnce(i))
      /\ (Live(i)' <=> Live(i)) /\ (OneChain(i) => OneChain(i)')
  BY SameHolds DEF QuietTurns
<1>3. /\ ~InQueue(k) /\ ~InInbox(k) /\ ~Popped(k) /\ ~TakenOut(k) /\ ~Live(k)
  BY <1>1 DEF Exclusive
<1>4. CASE i # k
  <2>1. Unmoved(i)
    <3>1. CASE queue' = Append(queue, k) /\ inbox' = inbox
      <4>1. /\ Occurs(queue', i) <=> Occurs(queue, i)
            /\ AtMostOnce(queue, i) => AtMostOnce(queue', i)
        BY <1>1, <1>4, <3>1, AppendOccurs
      <4> QED BY <3>1, <4>1 DEF Unmoved, InInbox, InQueue, Occurs
    <3>2. CASE k \in Steerers /\ inbox' = Append(inbox, k) /\ queue' = queue
      <4>1. /\ Occurs(inbox', i) <=> Occurs(inbox, i)
            /\ AtMostOnce(inbox, i) => AtMostOnce(inbox', i)
        BY <1>1, <1>4, <3>2, AppendOccurs
      <4> QED BY <3>2, <4>1 DEF Unmoved, InInbox, InQueue, Occurs
    <3> QED BY <3>1, <3>2
  <2> QED BY <2>1, QuietMemory
<1>5. CASE i = k
  <2>1. /\ AtMostOnce(queue, i)' /\ AtMostOnce(inbox, i)'
        /\ ~(InQueue(i)' /\ InInbox(i)')
    <3>1. CASE queue' = Append(queue, k) /\ inbox' = inbox
      <4>1. AtMostOnce(queue, i)'
        BY <1>1, <1>3, <1>5, <3>1, AppendOccurs, QueueOccurs DEF HeldOnce
      <4>2. AtMostOnce(inbox, i)' /\ ~InInbox(i)'
        BY <1>1, <1>3, <1>5, <3>1 DEF HeldOnce, InInbox
      <4> QED BY <4>1, <4>2
    <3>2. CASE k \in Steerers /\ inbox' = Append(inbox, k) /\ queue' = queue
      <4>1. AtMostOnce(inbox, i)'
        BY <1>1, <1>3, <1>5, <3>2, AppendOccurs DEF HeldOnce, InInbox
      <4>2. AtMostOnce(queue, i)' /\ ~InQueue(i)'
        BY <1>1, <1>3, <1>5, <3>2 DEF HeldOnce, InQueue
      <4> QED BY <4>1, <4>2
    <3> QED BY <3>1, <3>2
  <2>2. HeldOnce(i)'
    BY <1>1, <1>2, <2>1 DEF HeldOnce
  <2>3. Exclusive(i)'
    BY <1>2, <1>3, <1>5, <2>1 DEF Exclusive
  <2>4. RestoredOnce(i)'
    BY DEF RestoredOnce
  <2> QED BY <1>1, <1>2, <2>2, <2>3, <2>4 DEF HeldWell
<1> QED BY <1>4, <1>5

LEMMA PushHeld ==
    ASSUME MemoryInv, server = "up", NEW k \in Pushers, PushStep(k),
           NEW i \in Item, Unplaced(i)' => Unplaced(i)
    PROVE  HeldWell(i)'
<1>0. /\ k \in Item /\ k \in Client /\ k \notin Removers /\ Req(k) \in Proc /\ TypeOK
      /\ \A t \in Item : Post(t) \in Drainers
      /\ OneChain(i) /\ HeldOnce(i) /\ Exclusive(i) /\ Exclusive(k)
  BY ProcFacts, ClientAssumption DEF MemoryInv, RowsInv, ProgramInv, TypeInv
<1>1. CASE Push(k) \/ PushRow(k) \/ (PushAdmit(k) /\ turn' = turn)
  <2>1. /\ \E l : Goto(Req(k), l)
        /\ held' = held /\ queue' = queue /\ inbox' = inbox /\ turn' = turn /\ server' = server
    BY <1>1 DEF Push, PushRow, PushAdmit, memVars, turnVars, serverVars
  <2>2. QuietHolds /\ \A p \in Drainers : pc'[p] = pc[p]
    BY <1>0, <2>1, RequestHolds
  <2> QED BY <1>0, <2>1, <2>2, SameTurns, SameQueues, QuietMemory
<1>2. CASE PushAdmit(k) /\ turn' = [turn EXCEPT ![k] = "running"] /\ Goto(Req(k), "started")
  <2>1. /\ held' = held /\ queue' = queue /\ inbox' = inbox /\ server' = "up"
        /\ pc[Req(k)] = "admit"
    BY <1>2 DEF PushAdmit, memVars, serverVars
  <2>2. QuietHolds /\ \A p \in Drainers : pc'[p] = pc[p]
    BY <1>0, <1>2, <2>1, RequestHolds
  <2>3. /\ turn'[k] = "running" /\ \A t \in Item : t # k => turn'[t] = turn[t]
        /\ pc'[Req(k)] = "started"
    BY <1>0, <1>2, TurnAt DEF TypeOK, Goto, Stages
  <2>4. /\ ~InQueue(k) /\ ~InInbox(k) /\ ~Popped(k) /\ ~TakenOut(k) /\ ~Live(k)
    BY <1>0, <2>1 DEF Exclusive, Unplaced, Unrecorded
  <2>5. OneChain(i)' /\ (i # k => (Live(i)' <=> Live(i)))
    BY <1>0, <2>2, <2>3, <2>4 DEF OneChain, Live
  <2>6. /\ (Popped(i)' <=> Popped(i)) /\ (TakenOut(i)' <=> TakenOut(i))
        /\ (PoppedOnce(i)' <=> PoppedOnce(i)) /\ (TakenOnce(i)' <=> TakenOnce(i))
        /\ Unmoved(i)
    BY <2>1, <2>2, SameHolds, SameQueues
  <2>7. i = k => ~Unplaced(i)'
    BY <2>3 DEF Unplaced, Unrecorded
  <2>8. HeldOnce(i)'
    BY <1>0, <2>6 DEF HeldOnce, Unmoved
  <2>9. Exclusive(i)'
    BY <1>0, <2>4, <2>5, <2>6, <2>7 DEF Exclusive, Unmoved
  <2>10. RestoredOnce(i)'
    BY <2>1 DEF RestoredOnce
  <2> QED BY <2>5, <2>8, <2>9, <2>10 DEF HeldWell
<1>3. CASE PushMemory(k)
  <2>1. /\ pc' = Queued(k) /\ held' = held /\ queue' = Append(queue, k) /\ inbox' = inbox
        /\ turn' = turn /\ server' = server /\ pc[Req(k)] = "memory"
    BY <1>3 DEF PushMemory, turnVars, serverVars
  <2>2. QuietHolds /\ \A t \in Item : pc'[Post(t)] = pc[Post(t)]
    BY <1>0, <2>1, QueuedHolds
  <2>3. QuietTurns
    BY <2>1, <2>2, SameTurns
  <2>4. Unplaced(k) /\ ~Unplaced(k)'
    BY <1>0, <2>1, QueuedType DEF Unplaced, Unrecorded
  <2> QED BY <1>0, <2>1, <2>2, <2>3, <2>4, PlacedMemory
<1> QED BY <1>1, <1>2, <1>3 DEF PushStep, PushAdmit

LEMMA SteerHeld ==
    ASSUME MemoryInv, server = "up", NEW k \in Steerers, SteerStep(k),
           NEW i \in Item, Unplaced(i)' => Unplaced(i)
    PROVE  HeldWell(i)'
<1>0. /\ k \in Item /\ k \in Client /\ k \notin Removers /\ Req(k) \in Proc /\ TypeOK
      /\ \A t \in Item : Post(t) \in Drainers
  BY ProcFacts, ClientAssumption DEF MemoryInv, RowsInv, ProgramInv, TypeInv
<1>1. CASE SteerInbox(k)
  <2>1. /\ Goto(Req(k), "materialize") /\ pc[Req(k)] = "inbox" /\ inbox' = Append(inbox, k)
        /\ queue' = queue /\ held' = held /\ turn' = turn /\ server' = server
    BY <1>1 DEF SteerInbox, turnVars, serverVars
  <2>2. QuietHolds /\ \A p \in Drainers : pc'[p] = pc[p]
    BY <1>0, <2>1, RequestHolds
  <2>3. QuietTurns
    BY <1>0, <2>1, <2>2, SameTurns
  <2>4. Unplaced(k) /\ ~Unplaced(k)'
    BY <1>0, <2>1 DEF TypeOK, Goto, Unplaced, Unrecorded
  <2> QED BY <1>0, <2>1, <2>2, <2>3, <2>4, PlacedMemory
<1>2. CASE DegradeMemory(k)
  <2>1. /\ pc' = Queued(k) /\ held' = held /\ queue' = Append(queue, k) /\ inbox' = inbox
        /\ turn' = turn /\ server' = server /\ pc[Req(k)] = "degradeMemory"
    BY <1>2 DEF DegradeMemory, turnVars, serverVars
  <2>2. QuietHolds /\ \A t \in Item : pc'[Post(t)] = pc[Post(t)]
    BY <1>0, <2>1, QueuedHolds
  <2>3. QuietTurns
    BY <2>1, <2>2, SameTurns
  <2>4. Unplaced(k) /\ ~Unplaced(k)'
    BY <1>0, <2>1, QueuedType DEF Unplaced, Unrecorded
  <2> QED BY <1>0, <2>1, <2>2, <2>3, <2>4, PlacedMemory
<1>3. CASE ~SteerInbox(k) /\ ~DegradeMemory(k)
  <2>1. /\ \E l : Goto(Req(k), l)
        /\ held' = held \/ \E x : held' = [held EXCEPT ![Req(k)] = x]
        /\ queue' = queue /\ inbox' = inbox /\ turn' = turn /\ server' = server
    BY <1>3 DEF SteerStep, Steer, SteerMismatch, SteerRow, SteerMaterialize, DegradeRow, memVars,
       turnVars, serverVars
  <2>2. QuietHolds /\ \A p \in Drainers : pc'[p] = pc[p]
    BY <1>0, <2>1, RequestHolds
  <2> QED BY <1>0, <2>1, <2>2, SameTurns, SameQueues, QuietMemory
<1> QED BY <1>1, <1>2, <1>3

\* A removal takes an item out of the queue, ...
LEMMA TakeHolds ==
    ASSUME TypeOK, NEW k \in Removers, pc[Req(k)] = "new", NEW j \in Item, NEW i,
           held' = [held EXCEPT ![Req(k)] = j], Goto(Req(k), "removeRow")
    PROVE  /\ (Popped(i)' <=> Popped(i)) /\ (PoppedOnce(i)' <=> PoppedOnce(i))
           /\ TakenOut(i)' <=> TakenOut(i) \/ i = j
           /\ TakenOnce(i) /\ (i = j => ~TakenOut(j)) => TakenOnce(i)'
           /\ \A p \in Drainers : pc'[p] = pc[p]
<1>0. k \in Client /\ Removers \subseteq Client
  BY ProcFacts
<1>1. /\ \A p \in Drainers : pc'[p] = pc[p] /\ held'[p] = held[p]
      /\ \A r \in Client : r # k => pc'[Req(r)] = pc[Req(r)] /\ held'[Req(r)] = held[Req(r)]
      /\ pc'[Req(k)] = "removeRow" /\ held'[Req(k)] = j
  BY <1>0, ProcFacts DEF TypeOK, Goto
<1>2. \A r \in Removers : Taken(r, i)' <=> IF r = k THEN i = j ELSE Taken(r, i)
  BY <1>0, <1>1 DEF Taken
<1>3. ~Taken(k, i)
  BY DEF Taken
<1>4. (Popped(i)' <=> Popped(i)) /\ (PoppedOnce(i)' <=> PoppedOnce(i))
  BY <1>1 DEF Popped, PoppedOnce
<1>5. TakenOut(i)' <=> TakenOut(i) \/ i = j
  BY <1>2, <1>3 DEF TakenOut
<1>6. TakenOnce(i) /\ (i = j => ~TakenOut(j)) => TakenOnce(i)'
  BY <1>2 DEF TakenOnce, TakenOut
<1> QED BY <1>1, <1>4, <1>5, <1>6

\* ... and is done with it.
LEMMA TakenDone ==
    ASSUME TypeOK, NEW k \in Removers, pc[Req(k)] = "removeRow", NEW i,
           held' = held, Goto(Req(k), "done"), TakenOnce(i)
    PROVE  /\ (Popped(i)' <=> Popped(i)) /\ (PoppedOnce(i)' <=> PoppedOnce(i))
           /\ TakenOut(i)' <=> TakenOut(i) /\ i # held[Req(k)]
           /\ TakenOnce(i)'
           /\ \A p \in Drainers : pc'[p] = pc[p]
<1>0. k \in Client /\ Removers \subseteq Client
  BY ProcFacts
<1>1. /\ \A p \in Drainers : pc'[p] = pc[p]
      /\ \A r \in Client : r # k => pc'[Req(r)] = pc[Req(r)]
      /\ pc'[Req(k)] = "done"
  BY <1>0, ProcFacts DEF TypeOK, Goto
<1>2. \A r \in Removers : Taken(r, i)' <=> r # k /\ Taken(r, i)
  BY <1>0, <1>1 DEF Taken
<1>3. Taken(k, i) <=> i = held[Req(k)]
  BY DEF Taken
<1>4. (Popped(i)' <=> Popped(i)) /\ (PoppedOnce(i)' <=> PoppedOnce(i))
  BY DEF Popped, PoppedOnce
<1>5. TakenOut(i)' <=> TakenOut(i) /\ i # held[Req(k)]
  BY <1>2, <1>3 DEF TakenOut, TakenOnce
<1>6. TakenOnce(i)'
  BY <1>2 DEF TakenOnce
<1> QED BY <1>1, <1>4, <1>5, <1>6

LEMMA RemoveHeld ==
    ASSUME MemoryInv, server = "up", NEW k \in Removers, RemoveStep(k),
           NEW i \in Item, Unplaced(i)' => Unplaced(i)
    PROVE  HeldWell(i)'
<1>0. /\ k \in Client /\ Req(k) \in Proc /\ TypeOK
      /\ \A t \in Item : Post(t) \in Drainers
      /\ OneChain(i) /\ HeldOnce(i) /\ Exclusive(i)
  BY ProcFacts DEF MemoryInv, RowsInv, ProgramInv, TypeInv
<1>1. ASSUME NEW j \in Item, RemoveItem(k, j), InQueue(j) PROVE HeldWell(i)'
  <2>1. /\ pc[Req(k)] = "new" /\ queue' = Without(j) /\ held' = [held EXCEPT ![Req(k)] = j]
        /\ Goto(Req(k), "removeRow") /\ inbox' = inbox /\ turn' = turn /\ server' = "up"
    BY <1>1 DEF RemoveItem, serverVars, turnVars
  <2>2. /\ (Popped(i)' <=> Popped(i)) /\ (PoppedOnce(i)' <=> PoppedOnce(i))
        /\ TakenOut(i)' <=> TakenOut(i) \/ i = j
        /\ TakenOnce(i) /\ (i = j => ~TakenOut(j)) => TakenOnce(i)'
        /\ \A p \in Drainers : pc'[p] = pc[p]
    BY <1>0, <2>1, TakeHolds
  <2>3. QuietTurns
    BY <1>0, <2>1, <2>2, SameTurns
  <2>4. /\ InQueue(i)' <=> i # j /\ InQueue(i)
        /\ AtMostOnce(queue, i)'
    <3>1. queue \in Seq(Item) /\ AtMostOnce(queue, i)
      BY <1>0 DEF TypeOK, HeldOnce
    <3>2. /\ Occurs(queue', i) <=> i # j /\ Occurs(queue, i)
          /\ AtMostOnce(queue', i)
      BY <1>1, <2>1, <3>1, WithoutOccurs
    <3> QED BY <3>2 DEF InQueue, Occurs
  <2>5. (InInbox(i)' <=> InInbox(i)) /\ (AtMostOnce(inbox, i)' <=> AtMostOnce(inbox, i))
    BY <2>1 DEF InInbox
  <2>6. i = j => InQueue(i) /\ ~Unplaced(i)'
    BY <1>0, <1>1 DEF Exclusive
  <2>7. HeldOnce(i)'
    BY <1>0, <2>2, <2>4, <2>5, <2>6 DEF HeldOnce, Exclusive
  <2>8. Exclusive(i)'
    BY <1>0, <2>2, <2>3, <2>4, <2>5, <2>6 DEF Exclusive, QuietTurns
  <2>9. RestoredOnce(i)'
    BY <2>1 DEF RestoredOnce
  <2> QED BY <1>0, <2>3, <2>7, <2>8, <2>9 DEF HeldWell, QuietTurns
<1>2. ASSUME NEW j \in Item, RemoveItem(k, j), ~InQueue(j) PROVE HeldWell(i)'
  <2>1. /\ pc[Req(k)] = "new" /\ Goto(Req(k), "rejected") /\ queue' = queue /\ held' = held
        /\ inbox' = inbox /\ turn' = turn /\ server' = "up"
    BY <1>2 DEF RemoveItem, serverVars, turnVars
  <2>2. /\ \A p \in Drainers : pc'[p] = pc[p]
        /\ \A r \in Client : r # k => pc'[Req(r)] = pc[Req(r)]
        /\ pc'[Req(k)] = "rejected"
    BY <1>0, <2>1, ProcFacts DEF TypeOK, Goto
  <2>3. QuietHolds
    BY <2>1, <2>2, ProcFacts DEF QuietHolds, Taken
  <2> QED BY <1>0, <2>1, <2>2, <2>3, SameTurns, SameQueues, QuietMemory
<1>3. CASE RemoveRow(k)
  <2>1. /\ pc[Req(k)] = "removeRow" /\ held' = held /\ Goto(Req(k), "done") /\ queue' = queue
        /\ inbox' = inbox /\ turn' = turn /\ server' = "up"
    BY <1>3 DEF RemoveRow, memVars, serverVars, turnVars
  <2>2. /\ (Popped(i)' <=> Popped(i)) /\ (PoppedOnce(i)' <=> PoppedOnce(i))
        /\ TakenOut(i)' => TakenOut(i)
        /\ TakenOnce(i)'
        /\ \A p \in Drainers : pc'[p] = pc[p]
    BY <1>0, <2>1, TakenDone DEF HeldOnce
  <2>3. QuietTurns /\ Unmoved(i)
    BY <1>0, <2>1, <2>2, SameTurns, SameQueues
  <2>4. HeldOnce(i)'
    BY <1>0, <2>2, <2>3 DEF HeldOnce, Unmoved
  <2>5. Exclusive(i)'
    BY <1>0, <2>2, <2>3 DEF Exclusive, QuietTurns, Unmoved
  <2>6. RestoredOnce(i)'
    BY <2>1 DEF RestoredOnce
  <2> QED BY <1>0, <2>3, <2>4, <2>5, <2>6 DEF HeldWell, QuietTurns
<1> QED BY <1>1, <1>2, <1>3 DEF RemoveStep

\* An update moves the item within the queue, or nothing.
LEMMA EditUnmoved ==
    ASSUME queue \in Seq(Item), NEW k \in Editors, EditStep(k),
           NEW i \in Item, AtMostOnce(queue, i), inbox' = inbox
    PROVE  Unmoved(i)
<1>1. CASE queue' = queue
  BY <1>1, SameQueues
<1>2. ASSUME NEW j \in Item, InQueue(j), NEW p \in Nat \ {0}, queue' = Moved(j, p)
      PROVE  Unmoved(i)
  <2>1. (Occurs(queue', i) <=> Occurs(queue, i)) /\ AtMostOnce(queue', i)
    BY <1>2, MovedOccurs
  <2> QED BY <2>1 DEF Unmoved, InQueue, InInbox, Occurs
<1>3. ASSUME NEW j \in Item, NEW p \in 0..Cardinality(Item), Edit(k, j, p) PROVE Unmoved(i)
  <2>1. p = 0 \/ p \in Nat \ {0}
    OBVIOUS
  <2> QED BY <1>1, <1>2, <1>3, <2>1 DEF Edit
<1>4. CASE EditSnapshot(k) \/ EditContent(k) \/ EditPositions(k)
           \/ \E j \in Item : EditMissing(k, j)
  BY <1>1, <1>4 DEF EditMissing, EditSnapshot, EditContent, EditPositions, memVars
<1> QED BY <1>3, <1>4 DEF EditStep

LEMMA EditHeld ==
    ASSUME MemoryInv, server = "up", NEW k \in Editors, EditStep(k),
           NEW i \in Item, Unplaced(i)' => Unplaced(i)
    PROVE  HeldWell(i)'
<1>0. /\ k \in Client /\ k \notin Removers /\ Req(k) \in Proc /\ TypeOK
      /\ \A t \in Item : Post(t) \in Drainers
      /\ queue \in Seq(Item) /\ AtMostOnce(queue, i)
  BY ProcFacts, ClientAssumption DEF MemoryInv, RowsInv, ProgramInv, TypeInv, TypeOK, HeldOnce
<1>1. /\ \E l : Goto(Req(k), l)
      /\ held' = held \/ \E x : held' = [held EXCEPT ![Req(k)] = x]
      /\ inbox' = inbox /\ turn' = turn /\ server' = "up"
  BY DEF EditStep, Edit, EditMissing, EditSnapshot, EditContent, EditPositions, memVars, turnVars,
     serverVars
<1>2. QuietHolds /\ \A p \in Drainers : pc'[p] = pc[p]
  BY <1>0, <1>1, RequestHolds
<1>3. QuietTurns
  BY <1>0, <1>1, <1>2, SameTurns
<1>4. Unmoved(i)
  BY <1>0, <1>1, EditUnmoved
<1> QED BY <1>1, <1>2, <1>3, <1>4, QuietMemory

LEMMA DrainHeld ==
    ASSUME MemoryInv, server = "up", NEW p \in Drainers, DrainStep(p),
           NEW i \in Item, Unplaced(i)' => Unplaced(i)
    PROVE  HeldWell(i)'
<1>0. /\ p \in Proc /\ TypeOK
      /\ \A t \in Item : Post(t) \in Drainers
      /\ \A r \in Removers : r \in Client
      /\ held[p] # NoItem <=> pc[p] \in {"popRow", "activate"}
      /\ OneChain(i) /\ HeldOnce(i) /\ Exclusive(i)
      /\ NoItem \notin Item
  BY ProcFacts, ClientAssumption
     DEF MemoryInv, RowsInv, ProgramInv, TypeInv, HoldersHold, Client
<1>1. CASE DrainCheck(p) \/ DrainGate(p) \/ DrainRow(p) \/ (DrainPop(p) /\ held' = held)
  <2>1. /\ \E l : Goto(p, l) /\ l # "off"
        /\ pc[p] # "off" /\ held' = held /\ inbox' = inbox /\ turn' = turn /\ server' = "up"
    BY <1>1 DEF DrainCheck, DrainGate, DrainRow, DrainPop, memVars, turnVars, serverVars
  <2>2. QuietHolds /\ \A t \in Item : pc'[Post(t)] = "off" <=> pc[Post(t)] = "off"
    BY <1>0, <2>1, DrainerHolds
  <2>3. queue' = queue
    <3>1. CASE DrainPop(p) /\ held' = [held EXCEPT ![p] = Head(queue)] /\ queue # <<>>
      <4>1. held[p] = Head(queue) /\ pc[p] = "pop"
        BY <1>0, <1>1, <2>1, <3>1 DEF TypeOK, DrainPop
      <4>2. Head(queue) \in Item
        BY <1>0, <3>1, HeadTailProperties DEF TypeOK
      <4> QED BY <1>0, <4>1, <4>2
    <3> QED BY <1>1, <3>1 DEF DrainCheck, DrainGate, DrainRow, DrainPop, memVars
  <2>4. QuietTurns /\ Unmoved(i)
    BY <2>1, <2>2, <2>3, SameTurns, SameQueues
  <2> QED BY <2>1, <2>2, <2>4, QuietMemory
<1>2. CASE DrainPop(p) /\ queue # <<>> /\ held' = [held EXCEPT ![p] = Head(queue)]
           /\ Goto(p, "popRow") /\ queue' = Tail(queue)
  <2> DEFINE k == Head(queue)
  <2>1. queue \in Seq(Item) /\ k \in Item /\ pc[p] = "pop" /\ held[p] = NoItem
    BY <1>0, <1>2, HeadTailProperties DEF TypeOK, DrainPop
  <2>2. inbox' = inbox /\ turn' = turn /\ server' = "up"
    BY <1>2 DEF DrainPop, serverVars, turnVars
  <2>3. /\ InQueue(i) <=> i = k \/ InQueue(i)'
        /\ AtMostOnce(queue, i)' /\ (i = k => ~InQueue(i)')
    <3>1. AtMostOnce(queue, i)
      BY <1>0 DEF HeldOnce
    <3>2. /\ Occurs(queue, i) <=> i = k \/ Occurs(queue', i)
          /\ AtMostOnce(queue', i) /\ (i = k => ~Occurs(queue', i))
      BY <1>2, <2>1, <3>1, TailOccurs
    <3> QED BY <3>2 DEF InQueue, Occurs
  <2> HIDE DEF k
  <2>4. /\ held'[p] = k /\ \A q \in Drainers : q # p => held'[q] = held[q]
        /\ \A r \in Client : held'[Req(r)] = held[Req(r)] /\ pc'[Req(r)] = pc[Req(r)]
        /\ \A q \in Drainers : pc'[q] = "off" <=> pc[q] = "off"
    BY <1>0, <1>2, <2>1, ProcFacts DEF TypeOK, Goto, k
  <2>5. /\ Popped(i)' <=> Popped(i) \/ i = k
        /\ PoppedOnce(i) /\ (i = k => ~Popped(i)) => PoppedOnce(i)'
    BY <1>0, <2>1, <2>4 DEF Popped, PoppedOnce
  <2>6. (TakenOut(i)' <=> TakenOut(i)) /\ (TakenOnce(i)' <=> TakenOnce(i))
    BY <1>0, <2>4 DEF TakenOut, TakenOnce, Taken
  <2>7. QuietTurns
    BY <1>0, <2>2, <2>4, SameTurns
  <2>8. (InInbox(i)' <=> InInbox(i)) /\ (AtMostOnce(inbox, i)' <=> AtMostOnce(inbox, i))
    BY <2>2 DEF InInbox
  <2>9. HeldOnce(i)'
    BY <1>0, <2>3, <2>5, <2>6, <2>8 DEF HeldOnce, Exclusive
  <2>10. Exclusive(i)'
    BY <1>0, <2>3, <2>5, <2>6, <2>7, <2>8 DEF Exclusive, QuietTurns
  <2>11. RestoredOnce(i)'
    BY <2>2 DEF RestoredOnce
  <2> QED BY <1>0, <2>7, <2>9, <2>10, <2>11 DEF HeldWell, QuietTurns
<1>3. CASE DrainActivate(p)
  <2> DEFINE k == held[p]
  <2>1. /\ k \in Item /\ pc[p] = "activate" /\ held' = [held EXCEPT ![p] = NoItem]
        /\ turn' = [turn EXCEPT ![k] = "running"] /\ Goto(p, "finished")
        /\ queue' = queue /\ inbox' = inbox /\ server' = "up"
    BY <1>0, <1>3 DEF DrainActivate, memVars, serverVars, TypeOK
  <2>2. Popped(k) /\ Exclusive(k) /\ PoppedOnce(k)
    BY <2>1 DEF Popped, MemoryInv, HeldOnce
  <2> HIDE DEF k
  <2>3. /\ held'[p] = NoItem /\ \A q \in Drainers : q # p => held'[q] = held[q]
        /\ \A r \in Client : held'[Req(r)] = held[Req(r)] /\ pc'[Req(r)] = pc[Req(r)]
        /\ \A q \in Drainers : pc'[q] = "off" <=> pc[q] = "off"
    BY <1>0, <2>1, ProcFacts DEF TypeOK, Goto
  <2>4. turn'[k] = "running" /\ \A t \in Item : t # k => turn'[t] = turn[t]
    BY <1>0, <2>1, TurnAt DEF Stages
  <2>5. /\ Popped(i)' <=> Popped(i) /\ i # k
        /\ PoppedOnce(i) => PoppedOnce(i)'
    BY <1>0, <2>2, <2>3 DEF Popped, PoppedOnce, k
  <2>6. (TakenOut(i)' <=> TakenOut(i)) /\ (TakenOnce(i)' <=> TakenOnce(i))
    BY <1>0, <2>3 DEF TakenOut, TakenOnce, Taken
  <2>7. ~InQueue(k) /\ ~InInbox(k) /\ ~TakenOut(k) /\ ~Live(k) /\ ~Unplaced(k)
    BY <2>2 DEF Exclusive
  <2>8. OneChain(i)' /\ (i # k => (Live(i)' <=> Live(i)))
    BY <1>0, <2>3, <2>4, <2>7 DEF OneChain, Live
  <2>9. Unmoved(i)
    BY <2>1, SameQueues
  <2>10. HeldOnce(i)'
    BY <1>0, <2>5, <2>6, <2>9 DEF HeldOnce, Unmoved
  <2>11. Exclusive(i)'
    BY <1>0, <2>5, <2>6, <2>7, <2>8, <2>9 DEF Exclusive, Unmoved
  <2>12. RestoredOnce(i)'
    BY <2>1 DEF RestoredOnce
  <2> QED BY <2>8, <2>10, <2>11, <2>12 DEF HeldWell
<1> QED BY <1>1, <1>2, <1>3 DEF DrainStep, DrainPop

\* The inbox moves to the queue.
LEMMA MovedInbox ==
    ASSUME MemoryInv, NEW i \in Item, queue' = queue \o inbox, inbox' = <<>>
    PROVE  /\ InQueue(i)' <=> InQueue(i) \/ InInbox(i)
           /\ AtMostOnce(queue, i)' /\ ~InInbox(i)' /\ AtMostOnce(inbox, i)'
<1>1. /\ queue \in Seq(Item) /\ inbox \in Seq(Item) /\ HeldOnce(i) /\ Exclusive(i)
  BY InboxItems DEF MemoryInv, RowsInv, ProgramInv, TypeInv, TypeOK
<1>2. ~(Occurs(queue, i) /\ Occurs(inbox, i))
  BY <1>1, QueueOccurs DEF Exclusive, InInbox
<1>3. (Occurs(queue', i) <=> Occurs(queue, i) \/ Occurs(inbox, i)) /\ AtMostOnce(queue', i)
  BY <1>1, <1>2, ConcatOccurs DEF HeldOnce
<1>4. ~InInbox(i)' /\ AtMostOnce(inbox, i)'
  BY EmptyOccurs DEF InInbox
<1> QED BY <1>3, <1>4 DEF InQueue, InInbox, Occurs

LEMMA TurnHeld ==
    ASSUME MemoryInv, server = "up", NEW t \in Item, TurnStep(t),
           NEW i \in Item, Unplaced(i)' => Unplaced(i)
    PROVE  HeldWell(i)'
<1>0. /\ TypeOK /\ OneChain(t)
      /\ \A u \in Item : Post(u) \in Drainers
      /\ \A r \in Removers : r \in Client
      /\ OneChain(i) /\ HeldOnce(i) /\ Exclusive(i)
  BY ProcFacts DEF MemoryInv, RowsInv, ProgramInv, TypeInv
<1>1. server' = "up" /\ held' = held
  BY DEF TurnStep, TurnConsume, TurnEnd, SweepInbox, SweepIds, SweepRows, SweepInsert, TurnRecord,
     TurnMerge, serverVars, procVars
<1>2. QuietHolds
  <2>1. \A r \in Removers : pc'[Req(r)] = pc[Req(r)]
    <3>1. CASE TurnMerge(t)
      BY <1>0, <3>1, ProcFacts DEF TurnMerge, Goto, TypeOK
    <3>2. CASE pc' = pc
      BY <3>2
    <3> QED BY <3>1, <3>2 DEF TurnStep, TurnConsume, TurnEnd, SweepInbox, SweepIds, SweepRows,
               SweepInsert, TurnRecord, procVars
  <2> QED BY <1>1, <2>1 DEF QuietHolds, Taken
<1>3. QuietTurns
  <2>1. CASE TurnConsume(t) \/ SweepInsert(t)
    BY <2>1, SameTurns DEF TurnConsume, SweepInsert, procVars, turnVars
  <2>2. CASE TurnEnd(t) \/ SweepInbox(t) \/ SweepIds(t) \/ SweepRows(t) \/ TurnRecord(t)
    <3>1. /\ \E x \in Stages \ {"none", "done"} : turn' = [turn EXCEPT ![t] = x]
          /\ turn[t] \notin {"none", "done"} /\ pc' = pc
      BY <2>2 DEF TurnEnd, SweepInbox, SweepIds, SweepRows, TurnRecord, procVars, Stages
    <3>2. /\ turn'[t] \notin {"none", "done"} /\ turn[t] \notin {"none", "done"} /\ pc' = pc
          /\ \A u \in Item : u # t => turn'[u] = turn[u]
      BY <1>0, <3>1, TurnAt
    <3> QED BY <3>2 DEF QuietTurns, Live, OneChain
  <2>3. CASE TurnMerge(t)
    <3>1. /\ turn'[t] = "done" /\ turn[t] = "recorded"
          /\ \A u \in Item : u # t => turn'[u] = turn[u]
      BY <1>0, <2>3, TurnAt DEF TurnMerge, Stages
    <3>2. pc'[Post(t)] = "gate" /\ \A u \in Item : u # t => pc'[Post(u)] = pc[Post(u)]
      BY <1>0, <2>3, ProcFacts DEF TurnMerge, Goto, TypeOK
    <3> QED BY <3>1, <3>2 DEF QuietTurns, Live, OneChain
  <2> QED BY <2>1, <2>2, <2>3 DEF TurnStep
<1>4. CASE queue' = queue /\ inbox' = inbox
  BY <1>1, <1>2, <1>3, <1>4, SameQueues, QuietMemory
<1>5. /\ (Popped(i)' <=> Popped(i)) /\ (TakenOut(i)' <=> TakenOut(i))
      /\ (PoppedOnce(i)' <=> PoppedOnce(i)) /\ (TakenOnce(i)' <=> TakenOnce(i))
      /\ (Live(i)' <=> Live(i)) /\ (OneChain(i) => OneChain(i)')
  BY <1>2, <1>3, SameHolds DEF QuietTurns
<1>6. RestoredOnce(i)'
  BY <1>1 DEF RestoredOnce
<1>7. CASE queue' = queue \o inbox /\ inbox' = <<>>
  <2>1. /\ InQueue(i)' <=> InQueue(i) \/ InInbox(i)
        /\ AtMostOnce(queue, i)' /\ ~InInbox(i)' /\ AtMostOnce(inbox, i)'
    BY <1>7, MovedInbox
  <2> QED BY <1>0, <1>5, <1>6, <2>1 DEF HeldWell, HeldOnce, Exclusive
<1>8. CASE queue' = queue /\ inbox' = <<>>
  <2>1. /\ InQueue(i)' <=> InQueue(i)
        /\ AtMostOnce(queue, i)' <=> AtMostOnce(queue, i)
        /\ ~InInbox(i)' /\ AtMostOnce(inbox, i)'
    BY <1>8, EmptyOccurs DEF InQueue, InInbox
  <2> QED BY <1>0, <1>5, <1>6, <2>1 DEF HeldWell, HeldOnce, Exclusive
<1> QED BY <1>4, <1>7, <1>8 DEF TurnStep, TurnConsume, TurnEnd, SweepInbox, Swept, SweepIds,
           SweepRows, SweepInsert, TurnRecord, TurnMerge, memVars

LEMMA CrashHeld ==
    ASSUME MemoryInv, Crash, NEW i \in Item
    PROVE  HeldWell(i)'
<1>0. /\ TypeOK /\ \A r \in Removers : Req(r) \in Proc /\ Req(r) \in Requests
      /\ \A p \in Drainers : p \in Proc /\ p \notin Requests
      /\ Post(i) \in Drainers /\ NoItem \notin Item
  BY ProcFacts, ClientAssumption DEF MemoryInv, RowsInv, ProgramInv, TypeInv, Client
<1>1. /\ queue' = <<>> /\ inbox' = <<>> /\ server' = "down"
      /\ \A p \in Proc : held'[p] = NoItem
      /\ pc'[Post(i)] = "off" /\ turn'[i] \in {"none", "done"}
  BY <1>0 DEF Crash
<1>2. ~InQueue(i)' /\ ~InInbox(i)' /\ AtMostOnce(queue, i)' /\ AtMostOnce(inbox, i)'
  BY <1>1, EmptyOccurs DEF InQueue, InInbox, Occurs
<1>3. ~Popped(i)' /\ PoppedOnce(i)' /\ ~TakenOut(i)' /\ TakenOnce(i)'
  BY <1>0, <1>1 DEF Popped, PoppedOnce, TakenOut, TakenOnce, Taken
<1>4. ~Live(i)' /\ OneChain(i)'
  BY <1>1 DEF Live, OneChain
<1>5. RestoredOnce(i)'
  BY <1>1 DEF RestoredOnce
<1> QED BY <1>2, <1>3, <1>4, <1>5 DEF HeldWell, HeldOnce, Exclusive

\* While the session is restored only the queue holds anything.
LEMMA DownHeld ==
    ASSUME MemoryInv, server # "up", NEW i \in Item
    PROVE  ~InInbox(i) /\ ~Popped(i) /\ ~TakenOut(i) /\ ~Live(i)
<1>1. /\ inbox = <<>> /\ \A p \in Drainers : pc[p] = "off" /\ held[p] = NoItem
      /\ \A k \in Client : pc[Req(k)] \in Answered
      /\ turn[i] \in {"none", "done"} /\ Post(i) \in Drainers
      /\ \A r \in Removers : r \in Client
      /\ NoItem \notin Item
  BY ProcFacts, ClientAssumption
     DEF MemoryInv, RowsInv, ProgramInv, DownIsQuiet, HoldersHold, Client
<1> QED BY <1>1, EmptyOccurs DEF InInbox, Popped, TakenOut, Taken, Live, Answered

LEMMA RestoreHeld ==
    ASSUME MemoryInv, RestoreStep, NEW i \in Item, Unplaced(i)' => Unplaced(i)
    PROVE  HeldWell(i)'
<1>0. /\ TypeOK /\ TypeInv /\ RecordedOnce(i) /\ DownIsQuiet
      /\ OneChain(i) /\ HeldOnce(i) /\ Exclusive(i) /\ RestoredOnce(i)
      /\ ~InInbox(i) /\ ~Popped(i) /\ ~TakenOut(i) /\ ~Live(i)
  BY DownHeld DEF MemoryInv, RowsInv, ProgramInv, TypeInv, RestoreStep, RestoreQueue,
                  RestoreSteers, RestoreRequeue, Restored
<1>1. CASE Restored
  <2>1. /\ \A k \in Client : pc'[Req(k)] = pc[Req(k)]
        /\ \A t \in Item : pc'[Post(t)] = pc[Post(t)]
    BY <1>0, <1>1, ProcFacts DEF TypeOK, Restored, BootOn
  <2>2. held' = held /\ turn' = turn /\ queue' = queue /\ inbox' = inbox /\ server' = "up"
    BY <1>1 DEF Restored, memVars, turnVars
  <2>3. QuietHolds
    BY <2>1, <2>2, ProcFacts DEF QuietHolds, Taken
  <2> QED BY <2>1, <2>2, <2>3, SameTurns, SameQueues, QuietMemory
<1>2. CASE RestoreQueue \/ RestoreSteers \/ RestoreRequeue
  <2>1. pc' = pc /\ held' = held /\ turn' = turn /\ inbox' = inbox
    BY <1>2 DEF RestoreQueue, RestoreSteers, RestoreRequeue, memVars, procVars, turnVars
  <2>2. /\ (InInbox(i)' <=> InInbox(i)) /\ (AtMostOnce(inbox, i)' <=> AtMostOnce(inbox, i))
        /\ (Popped(i)' <=> Popped(i)) /\ (TakenOut(i)' <=> TakenOut(i))
        /\ (PoppedOnce(i)' <=> PoppedOnce(i)) /\ (TakenOnce(i)' <=> TakenOnce(i))
        /\ (Live(i)' <=> Live(i)) /\ (OneChain(i)' <=> OneChain(i))
    BY <2>1 DEF InInbox, Popped, TakenOut, PoppedOnce, TakenOnce, Taken, Live, OneChain
  <2>3. AtMostOnce(queue, i)' /\ (InQueue(i)' => ~Unplaced(i)) /\ RestoredOnce(i)'
    <3>1. CASE RestoreQueue
      <4>1. PICK s \in RowOrders : queue' = [n \in 1..Cardinality(rows) |-> s[n].item]
        BY <3>1 DEF RestoreQueue
      <4>2. /\ Len(queue') = Cardinality(rows) /\ Cardinality(rows) \in Nat
            /\ \A n \in 1..Cardinality(rows) : s[n] \in rows /\ queue'[n] = s[n].item
        BY <1>0, <4>1, RestoredFacts
      <4>3. InQueue(i)' => HasRow(i)
        BY <4>2 DEF InQueue, HasRow
      <4>4. ASSUME NEW m \in 1..Cardinality(rows), NEW n \in 1..Cardinality(rows), m < n
            PROVE  s[m] # s[n]
        <5>1. Before(s[m], s[n])
          BY <4>4 DEF RowOrders
        <5>2. s[n].pos \in Nat /\ s[n].id \in Nat
          BY <1>0, <4>2 DEF TypeOK, Row
        <5> QED BY <5>1, <5>2 DEF Before
      <4>5. AtMostOnce(queue', i)
        <5> SUFFICES ASSUME NEW m \in 1..Len(queue'), NEW n \in 1..Len(queue'),
                            queue'[m] = i, queue'[n] = i
                     PROVE  m = n
          BY DEF AtMostOnce
        <5>1. s[m] = s[n]
          BY <1>0, <4>2 DEF RecordedOnce, RowOnce
        <5>2. ~(m < n) /\ ~(n < m)
          BY <4>2, <4>4, <5>1
        <5> QED BY <4>2, <5>2
      <4>6. server' = "steers" /\ rows' = rows
        BY <3>1 DEF RestoreQueue, rowVars
      <4>7. RestoredOnce(i)'
        BY <4>3, <4>6 DEF RestoredOnce, HasRow
      <4>8. HasRow(i) => ~Unplaced(i)
        <5>1. i \in Client /\ server = "down"
          BY <3>1, ProcFacts DEF RestoreQueue
        <5>2. pc[Req(i)] \in Answered
          BY <1>0, <5>1 DEF DownIsQuiet
        <5> QED BY <1>0, <5>2 DEF RecordedOnce, Recorded, Unplaced, Unrecorded, Answered
      <4> QED BY <4>3, <4>5, <4>7, <4>8
    <3>2. CASE RestoreSteers
      <4>1. queue' = queue /\ restoring' = steerRows /\ server = "steers" /\ server' = "requeue"
        BY <3>2 DEF RestoreSteers, memVars
      <4>2. (InQueue(i)' <=> InQueue(i)) /\ (AtMostOnce(queue, i)' <=> AtMostOnce(queue, i))
        BY <4>1 DEF InQueue
      <4>3. RestoredOnce(i)'
        BY <1>0, <4>1, <4>2 DEF RestoredOnce, RecordedOnce
      <4> QED BY <1>0, <4>2, <4>3 DEF HeldOnce, Exclusive
    <3>3. CASE RestoreRequeue
      <4> DEFINE k == Head(restoring)
      <4>1. /\ restoring \in Seq(Steerers) /\ restoring # <<>> /\ server = "requeue"
            /\ server' = "requeue" /\ restoring' = Tail(restoring)
            /\ queue' = queue \/ queue' = Append(queue, k)
        BY <1>0, <3>3 DEF RestoreRequeue, TypeOK
      <4>2. k \in Item
        BY <4>1, HeadTailProperties, ProcFacts
      <4>3. /\ Occurs(restoring, i) <=> i = k \/ Occurs(restoring', i)
            /\ i = k => ~Occurs(restoring', i)
        BY <1>0, <4>1, TailOccurs DEF RecordedOnce
      <4> HIDE DEF k
      <4>4. InQueue(i) => ~Occurs(restoring, i)
        BY <1>0, <4>1 DEF RestoredOnce
      <4>5. /\ Occurs(queue', i) => Occurs(queue, i) \/ i = k
            /\ AtMostOnce(queue', i)
        <5>1. queue \in Seq(Item) /\ AtMostOnce(queue, i) /\ (i = k => ~Occurs(queue, i))
          BY <1>0, <4>3, <4>4, QueueOccurs DEF TypeOK, HeldOnce
        <5>2. CASE queue' = queue
          BY <5>1, <5>2
        <5>3. CASE queue' = Append(queue, k)
          BY <4>2, <5>1, <5>3, AppendOccurs
        <5> QED BY <4>1, <5>2, <5>3
      <4>6. InQueue(i)' => InQueue(i) \/ i = k
        BY <4>5 DEF InQueue, Occurs
      <4>7. RestoredOnce(i)'
        BY <4>1, <4>3, <4>4, <4>6 DEF RestoredOnce
      <4>8. i = k => ~Unplaced(i)
        <5>1. i \in Client
          BY ProcFacts
        <5>2. pc[Req(i)] \in Answered
          BY <1>0, <4>1, <5>1 DEF DownIsQuiet
        <5> QED BY <1>0, <4>3, <5>2 DEF RecordedOnce, Recorded, Unplaced, Unrecorded, Answered
      <4> QED BY <1>0, <4>5, <4>6, <4>7, <4>8 DEF Exclusive
    <3> QED BY <1>2, <3>1, <3>2, <3>3
  <2>4. HeldOnce(i)'
    BY <1>0, <2>2, <2>3 DEF HeldOnce
  <2>5. Exclusive(i)'
    BY <1>0, <2>2, <2>3 DEF Exclusive
  <2> QED BY <1>0, <2>2, <2>3, <2>4, <2>5 DEF HeldWell
<1> QED BY <1>1, <1>2 DEF RestoreStep

LEMMA MemoryStep ==
    ASSUME MemoryInv, [Next]_vars
    PROVE  MemoryInv'
<1>1. RowsInv'
  BY RowsStep DEF MemoryInv
<1>2. ASSUME NEW i \in Item PROVE HeldWell(i)'
  <2>1. Unplaced(i)' => Unplaced(i)
    BY Onward DEF MemoryInv, RowsInv
  <2>2. CASE UNCHANGED vars
    BY <2>2 DEF vars, MemoryInv, HeldWell, OneChain, HeldOnce, Exclusive, RestoredOnce, InQueue,
       InInbox, Popped, PoppedOnce, TakenOut, TakenOnce, Taken, Live, Unplaced, Unrecorded, HasRow
  <2> QED BY <2>1, <2>2, PushHeld, SteerHeld, RemoveHeld, EditHeld, DrainHeld, TurnHeld,
             CrashHeld,
             RestoreHeld DEF Next, Rest
<1> QED BY <1>1, <1>2 DEF MemoryInv, HeldWell

LEMMA MemoryStart ==
    ASSUME Init
    PROVE  MemoryInv
<1>0. /\ NoItem \notin Item
      /\ \A p \in Drainers : p \in Proc /\ p \notin Requests
      /\ \A t \in Item : Post(t) \in Drainers
      /\ \A r \in Removers : Req(r) \in Proc
  BY ProcFacts, ClientAssumption DEF Client
<1>1. ASSUME NEW i \in Item PROVE HeldWell(i)
  <2>1. /\ queue = <<>> /\ inbox = <<>> /\ server = "up"
        /\ \A p \in Proc : held[p] = NoItem
        /\ pc[Post(i)] = "off" /\ turn[i] = "none"
    BY <1>0 DEF Init
  <2>2. ~InQueue(i) /\ ~InInbox(i) /\ AtMostOnce(queue, i) /\ AtMostOnce(inbox, i)
    BY <2>1, EmptyOccurs DEF InQueue, InInbox, Occurs
  <2>3. ~Popped(i) /\ PoppedOnce(i) /\ ~TakenOut(i) /\ TakenOnce(i)
    BY <1>0, <2>1 DEF Popped, PoppedOnce, TakenOut, TakenOnce, Taken
  <2>4. ~Live(i) /\ OneChain(i) /\ RestoredOnce(i)
    BY <2>1 DEF Live, OneChain, RestoredOnce
  <2> QED BY <2>2, <2>3, <2>4 DEF HeldWell, HeldOnce, Exclusive
<1> QED BY <1>1, RowsStart DEF MemoryInv, HeldWell

-----------------------------------------------------------------------------
(***************************************************************************)
(* The ledger.  A step moves an input from one place to another, gives a   *)
(* place to an input that had none, or leaves it alone.                    *)
(***************************************************************************)
Moves(i) ==
    \/ Where(i)' = Where(i) /\ (Accepted(i)' => Accepted(i))
    \/ \E f \in Where(i), t \in PlaceNames : Where(i)' = (Where(i) \ {f}) \cup {t}
    \/ /\ Unplaced(i) /\ ~Unplaced(i)'
       /\ \E t \in PlaceNames : Where(i)' = Where(i) \cup {t}

LEMMA MovesKeep ==
    ASSUME NEW i, Moves(i), Unplaced(i)' => Unplaced(i)
    PROVE  (Solo(i) => Solo(i)') /\ (Solo(i) /\ Accounted(i) => Accounted(i)')
<1>1. CASE Where(i)' = Where(i) /\ (Accepted(i)' => Accepted(i))
  BY <1>1 DEF Solo, Accounted
<1>2. ASSUME NEW f \in Where(i), NEW t \in PlaceNames, Where(i)' = (Where(i) \ {f}) \cup {t}
      PROVE  (Solo(i) => Solo(i)') /\ Accounted(i)'
  <2>1. Solo(i) => Where(i)' = {t} /\ ~Unplaced(i)
    BY <1>2 DEF Solo
  <2> QED BY <1>2, <2>1 DEF Solo, Accounted
<1>3. ASSUME Unplaced(i), ~Unplaced(i)', NEW t \in PlaceNames, Where(i)' = Where(i) \cup {t}
      PROVE  (Solo(i) => Solo(i)') /\ Accounted(i)'
  <2>1. Solo(i) => Where(i)' = {t}
    BY <1>3 DEF Solo
  <2> QED BY <1>3, <2>1 DEF Solo, Accounted
<1> QED BY <1>1, <1>2, <1>3 DEF Moves

LEMMA QuietWhere ==
    ASSUME NEW i, Unmoved(i), QuietHolds, Begun(i)' <=> Begun(i),
           consumed' = consumed, removed' = removed
    PROVE  Where(i)' = Where(i)
BY SameHolds DEF Unmoved, Where

\* A request that goes on without an answer, or after it.
LEMMA SameAccepted ==
    ASSUME TypeOK, NEW k \in Client, NEW i \in Item, NEW l, Goto(Req(k), l),
           \/ l \notin {"queued", "materialize", "injected"}
           \/ Accepted(k)
    PROVE  Accepted(i)' => Accepted(i)
BY ProcFacts DEF TypeOK, Goto, Accepted

LEMMA PlacedWhere ==
    ASSUME TypeOK, NEW k \in Item, NEW i \in Item, QuietHolds, turn' = turn,
           consumed' = consumed, removed' = removed,
           Unplaced(k), ~Unplaced(k)',
           i # k => pc'[Req(i)] = pc[Req(i)],
           \/ queue' = Append(queue, k) /\ inbox' = inbox
           \/ k \in Steerers /\ inbox' = Append(inbox, k) /\ queue' = queue
    PROVE  Moves(i)
<1>0. queue \in Seq(Item) /\ inbox \in Seq(Steerers)
  BY DEF TypeOK
<1>1. /\ (Popped(i)' <=> Popped(i)) /\ (TakenOut(i)' <=> TakenOut(i))
      /\ (Begun(i)' <=> Begun(i)) /\ (i # k => (Accepted(i)' => Accepted(i)))
  BY SameHolds DEF Begun, Accepted
<1>2. CASE queue' = Append(queue, k) /\ inbox' = inbox
  <2>1. (InQueue(i)' <=> InQueue(i) \/ i = k) /\ (InInbox(i)' <=> InInbox(i))
    <3>1. Occurs(queue', i) <=> Occurs(queue, i) \/ i = k
      BY <1>0, <1>2, AppendOccurs
    <3> QED BY <1>2, <3>1 DEF InQueue, InInbox, Occurs
  <2>2. i # k => Where(i)' = Where(i)
    BY <1>1, <2>1 DEF Where
  <2>3. i = k => Where(i)' = Where(i) \cup {"queue"}
    BY <1>1, <2>1 DEF Where, PlaceNames
  <2>4. "queue" \in PlaceNames
    BY DEF PlaceNames
  <2> QED BY <1>1, <2>2, <2>3, <2>4 DEF Moves
<1>3. CASE k \in Steerers /\ inbox' = Append(inbox, k) /\ queue' = queue
  <2>1. (InQueue(i)' <=> InQueue(i)) /\ (InInbox(i)' <=> InInbox(i) \/ i = k)
    <3>1. Occurs(inbox', i) <=> Occurs(inbox, i) \/ i = k
      BY <1>0, <1>3, AppendOccurs
    <3> QED BY <1>3, <3>1 DEF InQueue, InInbox
  <2>2. i # k => Where(i)' = Where(i)
    BY <1>1, <2>1 DEF Where
  <2>3. i = k => Where(i)' = Where(i) \cup {"inbox"}
    BY <1>1, <2>1 DEF Where, PlaceNames
  <2>4. "inbox" \in PlaceNames
    BY DEF PlaceNames
  <2> QED BY <1>1, <2>2, <2>3, <2>4 DEF Moves
<1> QED BY <1>2, <1>3

LEMMA PushWhere ==
    ASSUME MemoryInv, server = "up", NEW k \in Pushers, PushStep(k), NEW i \in Item
    PROVE  Moves(i)
<1>0. /\ k \in Item /\ k \in Client /\ k \notin Removers /\ TypeOK
      /\ \A j \in Client : Req(j) \in Proc
      /\ Item \subseteq Client
  BY ProcFacts, ClientAssumption DEF MemoryInv, RowsInv, ProgramInv, TypeInv
<1>1. CASE Push(k) \/ PushRow(k) \/ (PushAdmit(k) /\ turn' = turn)
  <2>1. /\ \E l : Goto(Req(k), l) /\ l \notin {"queued", "materialize", "injected"}
        /\ held' = held /\ queue' = queue /\ inbox' = inbox /\ turn' = turn
        /\ consumed' = consumed /\ removed' = removed
    <3>1. CASE Push(k) \/ PushRow(k)
      BY <3>1 DEF Push, PushRow, memVars, turnVars, ghostVars
    <3>2. CASE PushAdmit(k) /\ turn' = turn
      BY <3>2 DEF PushAdmit, memVars
    <3> QED BY <1>1, <3>1, <3>2
  <2>2. QuietHolds /\ (Accepted(i)' => Accepted(i))
    BY <1>0, <2>1, RequestHolds, SameAccepted
  <2>3. Where(i)' = Where(i)
    BY <2>1, <2>2, SameQueues, QuietWhere DEF Begun
  <2> QED BY <2>2, <2>3 DEF Moves
<1>2. CASE PushAdmit(k) /\ turn' = [turn EXCEPT ![k] = "running"] /\ Goto(Req(k), "started")
  <2>1. /\ held' = held /\ queue' = queue /\ inbox' = inbox
        /\ consumed' = consumed /\ removed' = removed /\ pc[Req(k)] = "admit"
    BY <1>2 DEF PushAdmit, memVars
  <2>2. QuietHolds /\ (Accepted(i)' => Accepted(i))
    BY <1>0, <1>2, <2>1, RequestHolds, SameAccepted
  <2>3. /\ turn'[k] = "running" /\ \A t \in Item : t # k => turn'[t] = turn[t]
        /\ pc'[Req(k)] = "started"
    BY <1>0, <1>2, TurnAt DEF TypeOK, Goto, Stages
  <2>4. /\ (Popped(i)' <=> Popped(i)) /\ (TakenOut(i)' <=> TakenOut(i))
        /\ (InQueue(i)' <=> InQueue(i)) /\ (InInbox(i)' <=> InInbox(i))
        /\ (Begun(i)' <=> Begun(i) \/ i = k)
    BY <2>1, <2>2, <2>3, SameHolds DEF InQueue, InInbox, Begun
  <2>5. i # k => Where(i)' = Where(i)
    BY <2>1, <2>4 DEF Where
  <2>6. i = k => Where(i)' = Where(i) \cup {"turn"}
    BY <2>1, <2>4 DEF Where, PlaceNames
  <2>7. "turn" \in PlaceNames /\ Unplaced(k) /\ ~Unplaced(k)'
    BY <2>1, <2>3 DEF PlaceNames, Unplaced, Unrecorded
  <2> QED BY <2>2, <2>5, <2>6, <2>7 DEF Moves
<1>3. CASE PushMemory(k)
  <2>1. /\ pc' = Queued(k) /\ held' = held /\ queue' = Append(queue, k) /\ inbox' = inbox
        /\ turn' = turn /\ consumed' = consumed /\ removed' = removed
        /\ pc[Req(k)] = "memory"
    BY <1>3 DEF PushMemory, turnVars, ghostVars
  <2>2. QuietHolds
    BY <1>0, <2>1, QueuedHolds
  <2>3. /\ Unplaced(k) /\ ~Unplaced(k)'
        /\ i # k => pc'[Req(i)] = pc[Req(i)]
    BY <1>0, <2>1, QueuedType DEF Unplaced, Unrecorded
  <2> QED BY <1>0, <2>1, <2>2, <2>3, PlacedWhere
<1> QED BY <1>1, <1>2, <1>3 DEF PushStep, PushAdmit

LEMMA SteerWhere ==
    ASSUME MemoryInv, server = "up", NEW k \in Steerers, SteerStep(k), NEW i \in Item
    PROVE  Moves(i)
<1>0. /\ k \in Item /\ k \in Client /\ k \notin Removers /\ TypeOK
      /\ \A j \in Client : Req(j) \in Proc
      /\ Item \subseteq Client
  BY ProcFacts, ClientAssumption DEF MemoryInv, RowsInv, ProgramInv, TypeInv
<1>1. CASE SteerInbox(k)
  <2>1. /\ Goto(Req(k), "materialize") /\ pc[Req(k)] = "inbox" /\ inbox' = Append(inbox, k)
        /\ queue' = queue /\ held' = held /\ turn' = turn
        /\ consumed' = consumed /\ removed' = removed
    BY <1>1 DEF SteerInbox, turnVars, ghostVars
  <2>2. QuietHolds
    BY <1>0, <2>1, RequestHolds
  <2>3. /\ Unplaced(k) /\ ~Unplaced(k)'
        /\ i # k => pc'[Req(i)] = pc[Req(i)]
    BY <1>0, <2>1, ProcFacts DEF TypeOK, Goto, Unplaced, Unrecorded
  <2> QED BY <1>0, <2>1, <2>2, <2>3, PlacedWhere
<1>2. CASE DegradeMemory(k)
  <2>1. /\ pc' = Queued(k) /\ held' = held /\ queue' = Append(queue, k) /\ inbox' = inbox
        /\ turn' = turn /\ consumed' = consumed /\ removed' = removed
        /\ pc[Req(k)] = "degradeMemory"
    BY <1>2 DEF DegradeMemory, turnVars, ghostVars
  <2>2. QuietHolds
    BY <1>0, <2>1, QueuedHolds
  <2>3. /\ Unplaced(k) /\ ~Unplaced(k)'
        /\ i # k => pc'[Req(i)] = pc[Req(i)]
    BY <1>0, <2>1, QueuedType DEF Unplaced, Unrecorded
  <2> QED BY <1>0, <2>1, <2>2, <2>3, PlacedWhere
<1>3. CASE ~SteerInbox(k) /\ ~DegradeMemory(k)
  <2>1. /\ held' = held \/ \E x : held' = [held EXCEPT ![Req(k)] = x]
        /\ queue' = queue /\ inbox' = inbox /\ turn' = turn
        /\ consumed' = consumed /\ removed' = removed
    BY <1>3 DEF SteerStep, Steer, SteerMismatch, SteerRow, SteerMaterialize, DegradeRow, memVars,
       turnVars, ghostVars
  <2>2. \E l : /\ Goto(Req(k), l)
               /\ l \notin {"queued", "materialize", "injected"} \/ Accepted(k)
    BY <1>3 DEF SteerStep, Steer, SteerMismatch, SteerRow, SteerMaterialize, DegradeRow, Accepted
  <2>3. QuietHolds /\ (Accepted(i)' => Accepted(i))
    BY <1>0, <2>1, <2>2, RequestHolds, SameAccepted
  <2>4. Where(i)' = Where(i)
    BY <2>1, <2>3, SameQueues, QuietWhere DEF Begun
  <2> QED BY <2>3, <2>4 DEF Moves
<1> QED BY <1>1, <1>2, <1>3

LEMMA RemoveWhere ==
    ASSUME MemoryInv, server = "up", NEW k \in Removers, RemoveStep(k), NEW i \in Item
    PROVE  Moves(i)
<1>0. /\ k \in Client /\ Req(k) \in Proc /\ TypeOK /\ HeldOnce(i) /\ Exclusive(i)
  BY ProcFacts DEF MemoryInv, RowsInv, ProgramInv, TypeInv
<1>1. ASSUME NEW j \in Item, RemoveItem(k, j), InQueue(j) PROVE Moves(i)
  <2>1. /\ pc[Req(k)] = "new" /\ queue' = Without(j) /\ held' = [held EXCEPT ![Req(k)] = j]
        /\ Goto(Req(k), "removeRow") /\ inbox' = inbox /\ turn' = turn
        /\ consumed' = consumed /\ removed' = removed
    BY <1>1 DEF RemoveItem, turnVars, ghostVars
  <2>2. /\ (Popped(i)' <=> Popped(i))
        /\ TakenOut(i)' <=> TakenOut(i) \/ i = j
        /\ (InInbox(i)' <=> InInbox(i)) /\ (Begun(i)' <=> Begun(i))
        /\ Accepted(i)' => Accepted(i)
    BY <1>0, <2>1, TakeHolds, SameAccepted DEF InInbox, Begun
  <2>3. InQueue(i)' <=> i # j /\ InQueue(i)
    <3>1. queue \in Seq(Item) /\ AtMostOnce(queue, i)
      BY <1>0 DEF TypeOK, HeldOnce
    <3>2. Occurs(queue', i) <=> i # j /\ Occurs(queue, i)
      BY <1>1, <2>1, <3>1, WithoutOccurs
    <3> QED BY <3>2 DEF InQueue, Occurs
  <2>4. i # j => Where(i)' = Where(i)
    BY <2>1, <2>2, <2>3 DEF Where
  <2>5. i = j => Where(i)' = (Where(i) \ {"queue"}) \cup {"removal"} /\ "queue" \in Where(i)
    BY <1>1, <2>1, <2>2, <2>3 DEF Where, PlaceNames
  <2>6. "removal" \in PlaceNames
    BY DEF PlaceNames
  <2> QED BY <2>2, <2>4, <2>5, <2>6 DEF Moves
<1>2. ASSUME NEW j \in Item, RemoveItem(k, j), ~InQueue(j) PROVE Moves(i)
  <2>1. /\ pc[Req(k)] = "new" /\ Goto(Req(k), "rejected") /\ queue' = queue /\ held' = held
        /\ inbox' = inbox /\ turn' = turn /\ consumed' = consumed /\ removed' = removed
    BY <1>2 DEF RemoveItem, turnVars, ghostVars
  <2>2. /\ \A r \in Client : r # k => pc'[Req(r)] = pc[Req(r)]
        /\ pc'[Req(k)] = "rejected"
    BY <1>0, <2>1, ProcFacts DEF TypeOK, Goto
  <2>3. QuietHolds
    BY <2>1, <2>2, ProcFacts DEF QuietHolds, Taken
  <2>4. Where(i)' = Where(i) /\ (Accepted(i)' => Accepted(i))
    BY <1>0, <2>1, <2>3, SameQueues, QuietWhere, SameAccepted DEF Begun
  <2> QED BY <2>4 DEF Moves
<1>3. CASE RemoveRow(k)
  <2> DEFINE j == held[Req(k)]
  <2>1. /\ pc[Req(k)] = "removeRow" /\ held' = held /\ Goto(Req(k), "done") /\ queue' = queue
        /\ inbox' = inbox /\ turn' = turn /\ consumed' = consumed /\ removed' = removed \cup {j}
    BY <1>3 DEF RemoveRow, memVars, turnVars
  <2>2. TakenOut(j)
    BY <2>1 DEF TakenOut, Taken
  <2>3. /\ Popped(i)' <=> Popped(i)
        /\ TakenOut(i)' <=> TakenOut(i) /\ i # j
        /\ (InQueue(i)' <=> InQueue(i)) /\ (InInbox(i)' <=> InInbox(i))
        /\ Begun(i)' <=> Begun(i)
        /\ i \in removed' <=> i \in removed \/ i = j
        /\ Accepted(i)' => Accepted(i)
    BY <1>0, <2>1, TakenDone, SameAccepted DEF InQueue, InInbox, Begun, HeldOnce
  <2> HIDE DEF j
  <2>4. i # j => Where(i)' = Where(i)
    BY <2>1, <2>3 DEF Where
  <2>5. i = j => /\ Where(i)' = (Where(i) \ {"removal"}) \cup {"removed"}
                 /\ "removal" \in Where(i)
    BY <2>1, <2>2, <2>3 DEF Where, PlaceNames
  <2>6. "removed" \in PlaceNames
    BY DEF PlaceNames
  <2> QED BY <2>3, <2>4, <2>5, <2>6 DEF Moves
<1> QED BY <1>1, <1>2, <1>3 DEF RemoveStep

LEMMA EditWhere ==
    ASSUME MemoryInv, server = "up", NEW k \in Editors, EditStep(k), NEW i \in Item
    PROVE  Moves(i)
<1>0. /\ k \in Client /\ k \notin Removers /\ Req(k) \in Proc /\ TypeOK
      /\ queue \in Seq(Item) /\ AtMostOnce(queue, i)
  BY ProcFacts, ClientAssumption DEF MemoryInv, RowsInv, ProgramInv, TypeInv, TypeOK, HeldOnce
<1>1. /\ \E l : Goto(Req(k), l) /\ l \notin {"queued", "materialize", "injected"}
      /\ held' = held \/ \E x : held' = [held EXCEPT ![Req(k)] = x]
      /\ inbox' = inbox /\ turn' = turn /\ consumed' = consumed /\ removed' = removed
  BY DEF EditStep, Edit, EditMissing, EditSnapshot, EditContent, EditPositions, memVars, turnVars,
     ghostVars
<1>2. QuietHolds /\ (Accepted(i)' => Accepted(i))
  BY <1>0, <1>1, RequestHolds, SameAccepted
<1>3. Unmoved(i)
  BY <1>0, <1>1, EditUnmoved
<1> QED BY <1>1, <1>2, <1>3, QuietWhere DEF Moves, Begun

LEMMA DrainWhere ==
    ASSUME MemoryInv, server = "up", NEW p \in Drainers, DrainStep(p), NEW i \in Item
    PROVE  Moves(i)
<1>0. /\ p \in Proc /\ TypeOK /\ i \in Client
      /\ \A r \in Client : Req(r) \in Proc /\ Req(r) # p
      /\ \A r \in Removers : r \in Client
      /\ held[p] # NoItem <=> pc[p] \in {"popRow", "activate"}
      /\ HeldOnce(i) /\ Exclusive(i) /\ NoItem \notin Item
  BY ProcFacts, ClientAssumption
     DEF MemoryInv, RowsInv, ProgramInv, TypeInv, HoldersHold, Client
<1>1. /\ Accepted(i)' <=> Accepted(i)
      /\ inbox' = inbox /\ consumed' = consumed /\ removed' = removed
  <2>1. \E l : Goto(p, l)
    BY DEF DrainStep, DrainCheck, DrainGate, DrainPop, DrainRow, DrainActivate
  <2>2. pc'[Req(i)] = pc[Req(i)]
    BY <1>0, <2>1, ProcFacts DEF Goto, TypeOK
  <2>3. inbox' = inbox /\ consumed' = consumed /\ removed' = removed
    BY DEF DrainStep, DrainCheck, DrainGate, DrainPop, DrainRow, DrainActivate, memVars, ghostVars
  <2> QED BY <2>2, <2>3 DEF Accepted
<1>2. CASE held' = held /\ queue' = queue /\ turn' = turn /\ ~DrainActivate(p)
  <2>1. \E l : Goto(p, l)
    BY DEF DrainStep, DrainCheck, DrainGate, DrainPop, DrainRow, DrainActivate
  <2>2. QuietHolds
    BY <1>0, <1>2, <2>1, DrainerHolds
  <2>3. Where(i)' = Where(i)
    BY <1>1, <1>2, <2>2, SameQueues, QuietWhere DEF Begun
  <2> QED BY <1>1, <2>3 DEF Moves
<1>3. CASE DrainPop(p) /\ queue # <<>> /\ held' = [held EXCEPT ![p] = Head(queue)]
           /\ Goto(p, "popRow") /\ queue' = Tail(queue)
  <2> DEFINE k == Head(queue)
  <2>1. queue \in Seq(Item) /\ k \in Item /\ pc[p] = "pop" /\ held[p] = NoItem /\ turn' = turn
    BY <1>0, <1>3, HeadTailProperties DEF TypeOK, DrainPop, turnVars
  <2>2. (InQueue(i) <=> i = k \/ InQueue(i)') /\ (i = k => ~InQueue(i)')
    <3>1. AtMostOnce(queue, i)
      BY <1>0 DEF HeldOnce
    <3>2. (Occurs(queue, i) <=> i = k \/ Occurs(queue', i)) /\ (i = k => ~Occurs(queue', i))
      BY <1>3, <2>1, <3>1, TailOccurs
    <3> QED BY <3>2 DEF InQueue, Occurs
  <2> HIDE DEF k
  <2>3. /\ held'[p] = k /\ \A q \in Drainers : q # p => held'[q] = held[q]
        /\ \A r \in Client : held'[Req(r)] = held[Req(r)] /\ pc'[Req(r)] = pc[Req(r)]
    BY <1>0, <1>3, <2>1, ProcFacts DEF TypeOK, Goto, k
  <2>4. /\ Popped(i)' <=> Popped(i) \/ i = k
        /\ TakenOut(i)' <=> TakenOut(i)
        /\ (InInbox(i)' <=> InInbox(i)) /\ (Begun(i)' <=> Begun(i))
    BY <1>0, <1>1, <2>1, <2>3 DEF Popped, TakenOut, Taken, InInbox, Begun
  <2>5. i # k => Where(i)' = Where(i)
    BY <1>1, <2>2, <2>4 DEF Where
  <2>6. i = k => Where(i)' = (Where(i) \ {"queue"}) \cup {"drain"} /\ "queue" \in Where(i)
    BY <1>1, <2>2, <2>4 DEF Where, PlaceNames
  <2>7. "drain" \in PlaceNames
    BY DEF PlaceNames
  <2> QED BY <1>1, <2>5, <2>6, <2>7 DEF Moves
<1>4. CASE DrainActivate(p)
  <2> DEFINE k == held[p]
  <2>1. /\ k \in Item /\ pc[p] = "activate" /\ held' = [held EXCEPT ![p] = NoItem]
        /\ turn' = [turn EXCEPT ![k] = "running"] /\ Goto(p, "finished") /\ queue' = queue
    BY <1>0, <1>4 DEF DrainActivate, memVars, TypeOK
  <2>2. Popped(k) /\ PoppedOnce(k)
    BY <2>1 DEF Popped, MemoryInv, HeldOnce
  <2>3. /\ held'[p] = NoItem /\ \A q \in Drainers : q # p => held'[q] = held[q]
        /\ \A r \in Client : held'[Req(r)] = held[Req(r)] /\ pc'[Req(r)] = pc[Req(r)]
    BY <1>0, <2>1, ProcFacts DEF TypeOK, Goto
  <2>4. turn'[k] = "running" /\ \A t \in Item : t # k => turn'[t] = turn[t]
    <3>1. "running" \in Stages
      BY DEF Stages
    <3> QED BY <1>0, <2>1, <3>1, TurnAt
  <2>5. Popped(i)' <=> Popped(i) /\ i # k
    BY <1>0, <2>2, <2>3 DEF Popped, PoppedOnce
  <2> HIDE DEF k
  <2>6. /\ TakenOut(i)' <=> TakenOut(i)
        /\ (InQueue(i)' <=> InQueue(i)) /\ (InInbox(i)' <=> InInbox(i))
        /\ Begun(i)' <=> Begun(i) \/ i = k
    BY <1>0, <1>1, <2>1, <2>3, <2>4 DEF TakenOut, Taken, InInbox, InQueue, Begun
  <2>7. i # k => Where(i)' = Where(i)
    BY <1>1, <2>5, <2>6 DEF Where
  <2>8. i = k => Where(i)' = (Where(i) \ {"drain"}) \cup {"turn"} /\ "drain" \in Where(i)
    BY <1>1, <2>2, <2>5, <2>6 DEF Where, PlaceNames
  <2>9. "turn" \in PlaceNames
    BY DEF PlaceNames
  <2> QED BY <1>1, <2>7, <2>8, <2>9 DEF Moves
<1>5. DrainCheck(p) \/ DrainGate(p) \/ DrainRow(p) =>
          held' = held /\ queue' = queue /\ turn' = turn /\ ~DrainActivate(p)
  BY DEF DrainCheck, DrainGate, DrainRow, DrainActivate, memVars, turnVars
<1>6. DrainPop(p) => turn' = turn /\ ~DrainActivate(p)
  BY DEF DrainPop, DrainActivate, turnVars
<1> QED BY <1>2, <1>3, <1>4, <1>5, <1>6 DEF DrainStep, DrainPop

\* A turn that goes on has begun, and no other one begins.
LEMMA TurnBegun ==
    ASSUME TypeOK, NEW t \in Item, TurnStep(t), NEW i \in Item
    PROVE  Begun(i)' <=> Begun(i)
<1>1. CASE TurnConsume(t) \/ SweepInsert(t)
  BY <1>1 DEF TurnConsume, SweepInsert, turnVars, Begun
<1>2. CASE ~TurnConsume(t) /\ ~SweepInsert(t)
  <2>1. /\ \E x \in Stages \ {"none"} : turn' = [turn EXCEPT ![t] = x]
        /\ turn[t] # "none"
    BY <1>2 DEF TurnStep, TurnEnd, SweepInbox, SweepIds, SweepRows, TurnRecord, TurnMerge, Stages
  <2>2. turn'[t] # "none" /\ \A u \in Item : u # t => turn'[u] = turn[u]
    BY <2>1, TurnAt
  <2> QED BY <2>1, <2>2 DEF Begun
<1> QED BY <1>1, <1>2

LEMMA TurnWhere ==
    ASSUME MemoryInv, server = "up", NEW t \in Item, TurnStep(t), NEW i \in Item
    PROVE  Moves(i)
<1>0. /\ TypeOK /\ i \in Client /\ Post(t) \in Drainers /\ Post(t) \in Proc
      /\ \A r \in Client : Req(r) \in Proc /\ Req(r) # Post(t)
      /\ \A r \in Removers : r \in Client
      /\ HeldOnce(i) /\ Exclusive(i)
  BY ProcFacts DEF MemoryInv, RowsInv, ProgramInv, TypeInv
<1>1. /\ held' = held /\ removed' = removed
      /\ \A r \in Client : pc'[Req(r)] = pc[Req(r)]
  <2>1. CASE TurnMerge(t)
    BY <1>0, <2>1 DEF TurnMerge, Goto, TypeOK, ghostVars
  <2>2. CASE pc' = pc
    BY <2>2 DEF TurnStep, TurnConsume, TurnEnd, SweepInbox, SweepIds, SweepRows, SweepInsert,
       TurnRecord, TurnMerge, procVars, ghostVars
  <2> QED BY <2>1, <2>2 DEF TurnStep, TurnConsume, TurnEnd, SweepInbox, SweepIds, SweepRows,
             SweepInsert, TurnRecord, procVars
<1>2. QuietHolds /\ (Accepted(i)' <=> Accepted(i))
  BY <1>0, <1>1 DEF QuietHolds, Taken, Accepted
<1>3. Begun(i)' <=> Begun(i)
  BY <1>0, TurnBegun
<1>4. /\ (Popped(i)' <=> Popped(i)) /\ (TakenOut(i)' <=> TakenOut(i))
  BY <1>2, SameHolds
<1>5. CASE queue' = queue /\ inbox' = inbox /\ consumed' = consumed
  <2>1. Where(i)' = Where(i)
    BY <1>1, <1>2, <1>3, <1>5, SameQueues, QuietWhere
  <2> QED BY <1>2, <2>1 DEF Moves
<1>6. CASE queue' = queue \o inbox /\ inbox' = <<>> /\ consumed' = consumed
  <2>1. (InQueue(i)' <=> InQueue(i) \/ InInbox(i)) /\ ~InInbox(i)'
    BY <1>6, MovedInbox
  <2>2. ~InInbox(i) => Where(i)' = Where(i)
    BY <1>1, <1>3, <1>4, <1>6, <2>1 DEF Where
  <2>3. InInbox(i) => Where(i)' = (Where(i) \ {"inbox"}) \cup {"queue"} /\ "inbox" \in Where(i)
    BY <1>1, <1>3, <1>4, <1>6, <2>1 DEF Where, PlaceNames
  <2>4. "queue" \in PlaceNames
    BY DEF PlaceNames
  <2> QED BY <1>2, <2>2, <2>3, <2>4 DEF Moves
<1>7. CASE TurnConsume(t)
  <2>1. /\ queue' = queue /\ inbox' = <<>>
        /\ consumed' = consumed \cup {inbox[n] : n \in 1..Len(inbox)}
    BY <1>7 DEF TurnConsume
  <2>2. /\ InQueue(i)' <=> InQueue(i)
        /\ ~InInbox(i)'
        /\ i \in consumed' <=> i \in consumed \/ InInbox(i)
    BY <2>1, EmptyOccurs DEF InQueue, InInbox, Occurs
  <2>3. ~InInbox(i) => Where(i)' = Where(i)
    BY <1>1, <1>3, <1>4, <2>2 DEF Where
  <2>4. InInbox(i) => /\ Where(i)' = (Where(i) \ {"inbox"}) \cup {"consumed"}
                      /\ "inbox" \in Where(i)
    BY <1>1, <1>3, <1>4, <2>2 DEF Where, PlaceNames
  <2>5. "consumed" \in PlaceNames
    BY DEF PlaceNames
  <2> QED BY <1>2, <2>3, <2>4, <2>5 DEF Moves
<1> QED BY <1>5, <1>6, <1>7 DEF TurnStep, TurnEnd, SweepInbox, Swept, SweepIds,
           SweepRows, SweepInsert, TurnRecord, TurnMerge, memVars, ghostVars

-----------------------------------------------------------------------------
(***************************************************************************)
(* The mirror.                                                             *)
(***************************************************************************)
Popping(i) == \E p \in Drainers : held[p] = i /\ pc[p] = "popRow"
Pushing(i) == pc[Req(i)] = "memory"

LEMMA Flights == \A i : InFlight(i) <=> Pushing(i) \/ Popping(i) \/ TakenOut(i)
BY DEF InFlight, Pushing, Popping, TakenOut, Taken

\* What a step that does not concern the input leaves as it was.
Aside(i) ==
    /\ (Pushing(i)' <=> Pushing(i)) /\ (Popping(i)' <=> Popping(i))
    /\ (TakenOut(i)' <=> TakenOut(i)) /\ (InQueue(i)' <=> InQueue(i))
    /\ (Begun(i)' <=> Begun(i)) /\ (i \in removed' <=> i \in removed)
    /\ starts'[i] = starts[i]
    /\ server = "down" => server' = "down"

LEMMA AsideMirrored ==
    ASSUME NEW i, Mirrored(i), Aside(i), HasRow(i)' <=> HasRow(i)
    PROVE  Mirrored(i)'
<1>1. InFlight(i)' <=> InFlight(i)
  <2>1. InFlight(i) <=> Pushing(i) \/ Popping(i) \/ TakenOut(i)
    BY Flights
  <2>2. InFlight(i)' <=> Pushing(i)' \/ Popping(i)' \/ TakenOut(i)'
    BY DEF InFlight, Pushing, Popping, TakenOut, Taken
  <2> QED BY <2>1, <2>2 DEF Aside
<1> QED BY <1>1 DEF Mirrored, Aside, Pushing

\* The steps of another request, and the ones of a request that wait for
\* nothing.
LEMMA RequestAside ==
    ASSUME MemoryInv, NEW k \in Client, k \notin Removers, NEW i \in Pushers, NEW l,
           Goto(Req(k), l), i = k => (l = "memory" <=> pc[Req(k)] = "memory"),
           \/ held' = held
           \/ \E x : held' = [held EXCEPT ![Req(k)] = x],
           InQueue(i)' <=> InQueue(i),
           turn' = turn, removed' = removed, starts' = starts, server' = server
    PROVE  Aside(i)
<1>0. /\ TypeOK /\ Req(k) \in Proc /\ i \in Client
      /\ \A r \in Removers : r \in Client
      /\ \A p \in Drainers : Req(k) # p
  BY ProcFacts DEF MemoryInv, RowsInv, ProgramInv, TypeInv
<1>1. QuietHolds /\ \A p \in Drainers : pc'[p] = pc[p]
  BY <1>0, RequestHolds
<1>2. Pushing(i)' <=> Pushing(i)
  BY <1>0, ProcFacts DEF Pushing, Goto, TypeOK
<1>3. (Popping(i)' <=> Popping(i)) /\ (TakenOut(i)' <=> TakenOut(i))
  BY <1>1, SameHolds DEF Popping, QuietHolds
<1> QED BY <1>2, <1>3 DEF Aside, Begun

\* An input that has no place is nowhere.
LEMMA NowhereYet ==
    ASSUME QueueInv, NEW i \in Pushers, Unplaced(i)
    PROVE  /\ ~InQueue(i) /\ ~Popped(i) /\ ~TakenOut(i) /\ ~Begun(i) /\ i \notin removed
           /\ starts[i] = 0 /\ Exclusive(i)
<1>1. i \in Item /\ Firm(i) /\ Mirrored(i)
  BY ProcFacts DEF QueueInv, Firm
<1>2. Where(i) = {} /\ Exclusive(i)
  BY <1>1 DEF QueueInv, Solo, MemoryInv
<1>3. ~Begun(i) /\ i \notin removed
  BY <1>2 DEF Where, PlaceNames
<1> QED BY <1>1, <1>2, <1>3 DEF Exclusive, Mirrored

LEMMA PushMirror ==
    ASSUME QueueInv, server = "up", NEW k \in Pushers, PushStep(k), NEW i \in Pushers
    PROVE  Mirrored(i)'
<1>0. /\ k \in Item /\ k \in Client /\ i \in Item /\ k \notin Removers /\ Req(k) \in Proc
      /\ i \in Client /\ Req(i) \in Proc
      /\ TypeOK /\ MemoryInv /\ ProgramInv /\ Mirrored(i) /\ Mirrored(k) /\ RecordedOnce(k)
  BY ProcFacts, ClientAssumption DEF QueueInv, MemoryInv, RowsInv, ProgramInv, TypeInv
<1>1. CASE Push(k) \/ (PushAdmit(k) /\ turn' = turn) \/ (PushRow(k) /\ rows' = rows /\ i # k)
  <2>1. /\ \E l : Goto(Req(k), l) /\ (i = k => (l = "memory" <=> pc[Req(k)] = "memory"))
        /\ held' = held /\ queue' = queue /\ turn' = turn /\ removed' = removed
        /\ server' = server /\ rows' = rows /\ starts' = starts
    <3>1. CASE Push(k) \/ (PushRow(k) /\ rows' = rows /\ i # k)
      BY <3>1 DEF Push, PushRow, memVars, turnVars, ghostVars, rowVars, serverVars
    <3>2. CASE PushAdmit(k) /\ turn' = turn
      <4>1. ~(starts' = [starts EXCEPT ![k] = @ + 1] /\ turn' = [turn EXCEPT ![k] = "running"])
        <5>1. pc[Req(k)] = "admit"
          BY <3>2 DEF PushAdmit
        <5>2. turn[k] = "none"
          BY <5>1, NowhereYet DEF Unplaced, Unrecorded, Begun
        <5> QED BY <1>0, <3>2, <5>2 DEF TypeOK
      <4> QED BY <3>2, <4>1 DEF PushAdmit, memVars, rowVars, serverVars
    <3> QED BY <1>1, <3>1, <3>2
  <2>2. Aside(i)
    BY <1>0, <2>1, RequestAside DEF InQueue
  <2> QED BY <1>0, <2>1, <2>2, AsideMirrored DEF HasRow
<1>2. CASE PushAdmit(k) /\ turn' = [turn EXCEPT ![k] = "running"] /\ Goto(Req(k), "started")
           /\ starts' = [starts EXCEPT ![k] = @ + 1]
  <2>1. /\ held' = held /\ queue' = queue /\ rows' = rows /\ removed' = removed
        /\ server' = server /\ pc[Req(k)] = "admit"
    BY <1>2 DEF PushAdmit, memVars, rowVars, serverVars
  <2>2. /\ turn'[k] = "running" /\ \A t \in Item : t # k => turn'[t] = turn[t]
        /\ pc'[Req(k)] = "started" /\ \A j \in Client : j # k => pc'[Req(j)] = pc[Req(j)]
    BY <1>0, <1>2, TurnAt, ProcFacts DEF TypeOK, Goto, Stages
  <2>3. starts'[k] = starts[k] + 1 /\ \A j \in Item : j # k => starts'[j] = starts[j]
    BY <1>0, <1>2, CountedStart
  <2>4. QuietHolds /\ \A p \in Drainers : pc'[p] = pc[p]
    BY <1>0, <1>2, <2>1, RequestHolds
  <2>5. Unplaced(k) /\ Unrecorded(k)
    BY <2>1 DEF Unplaced, Unrecorded
  <2>6. CASE i = k
    <3>1. ~InQueue(k) /\ starts[k] = 0 /\ ~HasRow(k)
      BY <1>0, <2>5, NowhereYet DEF RecordedOnce, Recorded
    <3>2. /\ ~InQueue(i)' /\ ~HasRow(i)' /\ pc'[Req(i)] # "memory" /\ Begun(i)'
          /\ starts'[i] = 1
      BY <2>1, <2>2, <2>3, <2>6, <3>1 DEF InQueue, HasRow, Begun
    <3> QED BY <3>2 DEF Mirrored
  <2>7. CASE i # k
    <3>1. (TakenOut(i)' <=> TakenOut(i)) /\ (Popping(i)' <=> Popping(i))
      BY <2>4, SameHolds DEF Popping, QuietHolds
    <3>2. Aside(i)
      BY <1>0, <2>1, <2>2, <2>3, <2>7, <3>1 DEF Aside, Pushing, InQueue, Begun
    <3> QED BY <1>0, <2>1, <3>2, AsideMirrored DEF HasRow
  <2> QED BY <2>6, <2>7
<1>3. CASE PushRow(k) /\ Insert(k, NoItem) /\ Goto(Req(k), "memory")
  <2>1. /\ held' = held /\ queue' = queue /\ turn' = turn /\ removed' = removed
        /\ server' = server /\ starts' = starts /\ pc[Req(k)] = "row"
    BY <1>3 DEF PushRow, memVars, turnVars, ghostVars, serverVars
  <2>2. HasRow(i)' <=> HasRow(i) \/ i = k
    BY <1>0, <1>3, InsertOnce
  <2>3. CASE i # k
    BY <1>0, <1>3, <2>1, <2>2, <2>3, RequestAside, AsideMirrored DEF InQueue
  <2>4. CASE i = k
    <3>1. ~Begun(i) /\ i \notin removed /\ starts[i] = 0
      BY <2>1, <2>4, NowhereYet DEF Unplaced, Unrecorded
    <3>2. pc'[Req(i)] = "memory"
      BY <1>0, <1>3, <2>4 DEF Goto, TypeOK
    <3>3. ~Begun(i)' /\ i \notin removed' /\ starts'[i] = 0 /\ HasRow(i)' /\ InFlight(i)'
      BY <2>1, <2>2, <2>4, <3>1, <3>2 DEF Begun, InFlight
    <3> QED BY <3>3 DEF Mirrored
  <2> QED BY <2>3, <2>4
<1>4. CASE PushRow(k) /\ rows' = rows /\ i = k /\ InsertFails
  <2>1. /\ queue' = queue /\ turn' = turn /\ removed' = removed
        /\ starts' = starts /\ pc[Req(k)] = "row"
    BY <1>4 DEF PushRow, memVars, turnVars, ghostVars
  <2>2. ~Begun(i) /\ i \notin removed /\ starts[i] = 0 /\ ~HasRow(i)
    BY <1>0, <1>4, <2>1, NowhereYet DEF Unplaced, Unrecorded, RecordedOnce, Recorded
  <2>3. ~Begun(i)' /\ starts'[i] = 0 /\ ~HasRow(i)'
    BY <1>4, <2>1, <2>2 DEF Begun, HasRow
  <2> QED BY <1>4, <2>3 DEF Mirrored
<1>5. CASE PushMemory(k)
  <2>1. /\ pc' = Queued(k) /\ held' = held /\ queue' = Append(queue, k)
        /\ turn' = turn /\ removed' = removed /\ server' = server /\ starts' = starts
        /\ rows' = rows /\ pc[Req(k)] = "memory"
    BY <1>5 DEF PushMemory, turnVars, ghostVars, rowVars, serverVars
  <2>2. /\ pc'[Req(k)] = "queued" /\ \A j \in Client : j # k => pc'[Req(j)] = pc[Req(j)]
        /\ pc'[Kick(k)] = "check" /\ \A p \in Drainers : p # Kick(k) => pc'[p] = pc[p]
    BY <1>0, <2>1, QueuedType
  <2>3. QuietHolds
    BY <1>0, <2>1, QueuedHolds
  <2>4. InQueue(i)' <=> InQueue(i) \/ i = k
    <3>1. Occurs(queue', i) <=> Occurs(queue, i) \/ i = k
      BY <1>0, <2>1, AppendOccurs DEF TypeOK
    <3> QED BY <3>1 DEF InQueue, Occurs
  <2>5. CASE i # k
    <3>1. pc[Kick(k)] = "off"
      BY <1>0, <2>1 DEF ProgramInv, DrainsFollow
    <3>2. (TakenOut(i)' <=> TakenOut(i)) /\ (Popping(i)' <=> Popping(i))
      BY <2>2, <2>3, <3>1, SameHolds DEF Popping, QuietHolds
    <3>3. Aside(i)
      BY <1>0, <2>1, <2>2, <2>4, <2>5, <3>2 DEF Aside, Pushing, Begun
    <3> QED BY <1>0, <2>1, <3>3, AsideMirrored DEF HasRow
  <2>6. CASE i = k
    <3>1. InQueue(i)' /\ (HasRow(i)' <=> HasRow(i)) /\ (Begun(i)' <=> Begun(i))
      BY <2>1, <2>4, <2>6 DEF HasRow, Begun
    <3>2. pc[Req(i)] = "memory"
      BY <2>1, <2>6
    <3> QED BY <1>0, <2>1, <3>1, <3>2 DEF Mirrored
  <2> QED BY <2>5, <2>6
<1>6. PushAdmit(k) => turn' = turn \/ /\ turn' = [turn EXCEPT ![k] = "running"]
                                      /\ Goto(Req(k), "started")
                                      /\ starts' = [starts EXCEPT ![k] = @ + 1]
  BY DEF PushAdmit
<1>7. PushRow(k) => \/ Insert(k, NoItem) /\ Goto(Req(k), "memory")
                    \/ rows' = rows /\ InsertFails
  BY DEF PushRow
<1> QED BY <1>1, <1>2, <1>3, <1>4, <1>5, <1>6, <1>7 DEF PushStep

LEMMA SteerMirror ==
    ASSUME QueueInv, server = "up", NEW k \in Steerers, SteerStep(k), NEW i \in Pushers
    PROVE  Mirrored(i)'
<1>0. /\ k \in Item /\ k \in Client /\ i \in Item /\ k \notin Removers /\ i # k
      /\ i \in Client /\ Req(k) \in Proc
      /\ TypeOK /\ MemoryInv /\ ProgramInv /\ Mirrored(i)
  BY ProcFacts, ClientAssumption DEF QueueInv, MemoryInv, RowsInv, ProgramInv, TypeInv
<1>1. turn' = turn /\ removed' = removed /\ server' = server /\ starts' = starts
  BY DEF SteerStep, Steer, SteerMismatch, SteerRow, SteerMaterialize, SteerInbox, DegradeRow,
     DegradeMemory, turnVars, ghostVars, serverVars
<1>2. HasRow(i)' <=> HasRow(i)
  <2>1. CASE DegradeRow(k) /\ Insert(k, NoItem)
    BY <1>0, <2>1, InsertOnce
  <2>2. CASE rows' = rows
    BY <2>2 DEF HasRow
  <2> QED BY <2>1, <2>2 DEF SteerStep, Steer, SteerMismatch, SteerRow, SteerMaterialize,
             SteerInbox, DegradeRow, DegradeMemory, rowVars
<1>3. CASE DegradeMemory(k)
  <2>1. /\ pc' = Queued(k) /\ held' = held /\ queue' = Append(queue, k)
        /\ pc[Req(k)] = "degradeMemory"
    BY <1>3 DEF DegradeMemory
  <2>2. /\ \A j \in Client : j # k => pc'[Req(j)] = pc[Req(j)]
        /\ pc'[Kick(k)] = "check" /\ \A p \in Drainers : p # Kick(k) => pc'[p] = pc[p]
    BY <1>0, <2>1, QueuedType
  <2>3. QuietHolds
    BY <1>0, <2>1, QueuedHolds
  <2>4. InQueue(i)' <=> InQueue(i)
    <3>1. Occurs(queue', i) <=> Occurs(queue, i)
      BY <1>0, <2>1, AppendOccurs DEF TypeOK
    <3> QED BY <3>1 DEF InQueue, Occurs
  <2>5. pc[Kick(k)] = "off"
    BY <1>0, <2>1 DEF ProgramInv, DrainsFollow
  <2>6. (TakenOut(i)' <=> TakenOut(i)) /\ (Popping(i)' <=> Popping(i))
    BY <2>2, <2>3, <2>5, SameHolds DEF Popping, QuietHolds
  <2>7. Aside(i)
    BY <1>0, <1>1, <2>2, <2>4, <2>6 DEF Aside, Pushing, Begun
  <2> QED BY <1>0, <1>2, <2>7, AsideMirrored
<1>4. CASE ~DegradeMemory(k)
  <2>1. /\ \E l : Goto(Req(k), l)
        /\ held' = held \/ \E x : held' = [held EXCEPT ![Req(k)] = x]
        /\ queue' = queue
    BY <1>4 DEF SteerStep, Steer, SteerMismatch, SteerRow, SteerMaterialize, SteerInbox,
       DegradeRow, memVars
  <2>2. Aside(i)
    BY <1>0, <1>1, <2>1, RequestAside DEF InQueue
  <2> QED BY <1>0, <1>2, <2>2, AsideMirrored
<1> QED BY <1>3, <1>4

LEMMA RemoveMirror ==
    ASSUME QueueInv, server = "up", NEW k \in Removers, RemoveStep(k), NEW i \in Pushers
    PROVE  Mirrored(i)'
<1>0. /\ k \in Client /\ i \in Item /\ i # k /\ i \in Client /\ Req(k) \in Proc
      /\ \A r \in Removers : r \in Client
      /\ TypeOK /\ MemoryInv /\ ProgramInv /\ Mirrored(i) /\ HeldOnce(i) /\ Exclusive(i)
  BY ProcFacts, ClientAssumption DEF QueueInv, MemoryInv, RowsInv, ProgramInv, TypeInv
<1>1. /\ \E l : Goto(Req(k), l)
      /\ turn' = turn /\ server' = server /\ starts' = starts
      /\ \A p \in Drainers : held'[p] = held[p]
  <2>1. CASE RemoveRow(k)
    BY <2>1 DEF RemoveRow, turnVars, serverVars
  <2>2. ASSUME NEW j \in Item, RemoveItem(k, j)
        PROVE  /\ \E l : Goto(Req(k), l)
               /\ turn' = turn /\ server' = server /\ starts' = starts
               /\ \A p \in Drainers : held'[p] = held[p]
    BY <1>0, <2>2, ProcFacts DEF RemoveItem, turnVars, serverVars, ghostVars, TypeOK
  <2> QED BY <2>1, <2>2 DEF RemoveStep
<1>2. /\ \A p \in Drainers : pc'[p] = pc[p]
      /\ \A j \in Client : j # k => pc'[Req(j)] = pc[Req(j)]
  BY <1>0, <1>1, ProcFacts DEF Goto, TypeOK
<1>3. /\ (Pushing(i)' <=> Pushing(i)) /\ (Popping(i)' <=> Popping(i))
      /\ (Begun(i)' <=> Begun(i))
  BY <1>0, <1>1, <1>2 DEF Pushing, Popping, Begun
<1>4. ASSUME NEW j \in Item, RemoveItem(k, j), InQueue(j) PROVE Mirrored(i)'
  <2>1. /\ pc[Req(k)] = "new" /\ queue' = Without(j) /\ held' = [held EXCEPT ![Req(k)] = j]
        /\ Goto(Req(k), "removeRow") /\ removed' = removed /\ rows' = rows
    BY <1>4 DEF RemoveItem, ghostVars, rowVars
  <2>2. (TakenOut(i)' <=> TakenOut(i) \/ i = j) /\ (HasRow(i)' <=> HasRow(i))
    BY <1>0, <2>1, TakeHolds DEF HasRow
  <2>3. InQueue(i)' <=> i # j /\ InQueue(i)
    <3>1. queue \in Seq(Item) /\ AtMostOnce(queue, i)
      BY <1>0 DEF TypeOK, HeldOnce
    <3>2. Occurs(queue', i) <=> i # j /\ Occurs(queue, i)
      BY <1>4, <2>1, <3>1, WithoutOccurs
    <3> QED BY <3>2 DEF InQueue, Occurs
  <2>4. CASE i # j
    BY <1>0, <1>1, <1>3, <2>1, <2>2, <2>3, <2>4, AsideMirrored DEF Aside
  <2>5. CASE i = j
    <3>1. TakenOut(i)' => InFlight(i)'
      BY DEF InFlight, TakenOut, Taken
    <3>2. ~Unplaced(i) /\ pc'[Req(i)] # "memory"
      BY <1>0, <1>2, <1>4, <2>5 DEF Exclusive, Unplaced
    <3> QED BY <1>0, <1>1, <1>3, <2>1, <2>2, <2>3, <2>5, <3>1, <3>2 DEF Mirrored
  <2> QED BY <2>4, <2>5
<1>5. ASSUME NEW j \in Item, RemoveItem(k, j), ~InQueue(j) PROVE Mirrored(i)'
  <2>1. /\ pc[Req(k)] = "new" /\ Goto(Req(k), "rejected") /\ queue' = queue /\ held' = held
        /\ removed' = removed /\ rows' = rows
    BY <1>5 DEF RemoveItem, ghostVars, rowVars
  <2>2. TakenOut(i)' <=> TakenOut(i)
    BY <1>0, <1>2, <2>1 DEF TakenOut, Taken, Goto, TypeOK
  <2>3. (InQueue(i)' <=> InQueue(i)) /\ (HasRow(i)' <=> HasRow(i))
    BY <2>1 DEF InQueue, HasRow
  <2> QED BY <1>0, <1>1, <1>3, <2>1, <2>2, <2>3, AsideMirrored DEF Aside
<1>6. CASE RemoveRow(k)
  <2> DEFINE j == held[Req(k)]
  <2>1. /\ pc[Req(k)] = "removeRow" /\ held' = held /\ Goto(Req(k), "done") /\ queue' = queue
        /\ rows' = WithoutRow(j) /\ removed' = removed \cup {j}
    BY <1>6 DEF RemoveRow, RowsAfterRemove, memVars
  <2>2. /\ TakenOut(i)' <=> TakenOut(i) /\ i # j
        /\ HasRow(i)' <=> HasRow(i) /\ i # j
        /\ InQueue(i)' <=> InQueue(i)
        /\ i \in removed' <=> i \in removed \/ i = j
    BY <1>0, <2>1, TakenDone, WithoutOnce DEF InQueue, HeldOnce
  <2>3. TakenOut(j)
    BY <2>1 DEF TakenOut, Taken
  <2> HIDE DEF j
  <2>4. CASE i # j
    BY <1>0, <1>1, <1>3, <2>2, <2>4, AsideMirrored DEF Aside
  <2>5. CASE i = j
    <3>1. ~InQueue(i) /\ ~Unplaced(i) /\ pc'[Req(i)] # "memory"
      BY <1>0, <1>2, <2>3, <2>5 DEF Exclusive, Unplaced
    <3> QED BY <1>0, <1>1, <1>3, <2>2, <2>5, <3>1 DEF Mirrored
  <2> QED BY <2>4, <2>5
<1> QED BY <1>4, <1>5, <1>6 DEF RemoveStep

LEMMA EditMirror ==
    ASSUME QueueInv, server = "up", NEW k \in Editors, EditStep(k), NEW i \in Pushers
    PROVE  Mirrored(i)'
<1>0. /\ k \in Client /\ i \in Item /\ i # k /\ k \notin Removers /\ i \in Client
      /\ queue \in Seq(Item) /\ AtMostOnce(queue, i) /\ TypeInv
      /\ edit[k].content \in {NoItem} \cup Editors /\ edit[k].order \in Seq(Item)
      /\ MemoryInv /\ Mirrored(i)
  <2>1. MemoryInv /\ Mirrored(i) /\ TypeInv /\ TypeOK
    BY DEF QueueInv, MemoryInv, RowsInv, ProgramInv, TypeInv
  <2>2. k \in Client /\ i \in Item /\ i # k /\ k \notin Removers /\ i \in Client
    BY ProcFacts, ClientAssumption
  <2>3. AtMostOnce(queue, i)
    BY <2>1, <2>2 DEF MemoryInv, HeldOnce
  <2>4. /\ queue \in Seq(Item) /\ edit[k].content \in {NoItem} \cup Editors
        /\ edit[k].order \in Seq(Item)
    BY <2>1 DEF TypeOK
  <2> QED BY <2>1, <2>2, <2>3, <2>4
<1>1. /\ \E l : Goto(Req(k), l)
      /\ held' = held \/ \E x : held' = [held EXCEPT ![Req(k)] = x]
      /\ inbox' = inbox /\ turn' = turn /\ removed' = removed /\ starts' = starts
      /\ server' = server
  BY DEF EditStep, Edit, EditMissing, EditSnapshot, EditContent, EditPositions, memVars, turnVars,
     ghostVars, serverVars
<1>2. InQueue(i)' <=> InQueue(i)
  BY <1>0, <1>1, EditUnmoved DEF Unmoved
<1>3. HasRow(i)' <=> HasRow(i)
  <2>1. CASE EditContent(k) \/ EditPositions(k)
    <3>1. \E f \in [rows -> Row] : /\ \A r \in rows : f[r].item = r.item
                                   /\ rows' = {f[r] : r \in rows}
      BY <1>0, <2>1, RowsWritten, RowsNumbered DEF EditContent, EditPositions
    <3> QED BY <3>1, MappedOnce
  <2>2. CASE rows' = rows
    BY <2>2 DEF HasRow
  <2> QED BY <2>1, <2>2 DEF EditStep, Edit, EditMissing, EditSnapshot, rowVars
<1> QED BY <1>0, <1>1, <1>2, <1>3, RequestAside, AsideMirrored

LEMMA DrainMirror ==
    ASSUME QueueInv, server = "up", NEW p \in Drainers, DrainStep(p), NEW i \in Pushers
    PROVE  Mirrored(i)'
<1>0. /\ p \in Proc /\ TypeOK /\ i \in Item /\ i \in Client
      /\ \A r \in Client : Req(r) \in Proc /\ Req(r) # p
      /\ \A r \in Removers : r \in Client
      /\ held[p] # NoItem <=> pc[p] \in {"popRow", "activate"}
      /\ HeldOnce(i) /\ Exclusive(i) /\ NoItem \notin Item
      /\ Mirrored(i) /\ Solo(i)
  BY ProcFacts, ClientAssumption
     DEF QueueInv, Firm, MemoryInv, RowsInv, ProgramInv, TypeInv, HoldersHold, Client
<1>1. ASSUME NEW l, Goto(p, l)
      PROVE  /\ pc'[p] = l /\ \A q \in Drainers : q # p => pc'[q] = pc[q]
             /\ \A r \in Client : pc'[Req(r)] = pc[Req(r)]
  BY <1>0, <1>1, ProcFacts DEF TypeOK, Goto
<1>2. CASE DrainCheck(p) \/ DrainGate(p) \/ (DrainPop(p) /\ held' = held /\ queue' = queue)
  <2>1. /\ \E l : Goto(p, l) /\ l # "popRow"
        /\ pc[p] # "popRow" /\ held' = held /\ queue' = queue /\ turn' = turn /\ rows' = rows
        /\ removed' = removed /\ starts' = starts /\ server' = server
    <3>1. CASE DrainCheck(p) \/ DrainGate(p)
      BY <3>1 DEF DrainCheck, DrainGate, memVars, rowVars, turnVars, ghostVars, serverVars
    <3>2. CASE DrainPop(p) /\ held' = held /\ queue' = queue
      <4>1. ~(held' = [held EXCEPT ![p] = Head(queue)] /\ queue # <<>>)
        <5>1. queue # <<>> => Head(queue) \in Item
          BY <1>0, HeadTailProperties DEF TypeOK
        <5>2. held[p] = NoItem
          BY <1>0, <3>2 DEF DrainPop
        <5> QED BY <1>0, <3>2, <5>1, <5>2 DEF TypeOK
      <4> QED BY <3>2, <4>1 DEF DrainPop, rowVars, turnVars, ghostVars, serverVars
    <3> QED BY <1>2, <3>1, <3>2
  <2>2. /\ (Pushing(i)' <=> Pushing(i)) /\ (Popping(i)' <=> Popping(i))
        /\ (TakenOut(i)' <=> TakenOut(i))
    BY <1>0, <1>1, <2>1 DEF Pushing, Popping, TakenOut, Taken
  <2>3. Aside(i) /\ (HasRow(i)' <=> HasRow(i))
    BY <2>1, <2>2 DEF Aside, InQueue, Begun, HasRow
  <2> QED BY <1>0, <2>3, AsideMirrored
<1>3. CASE DrainPop(p) /\ queue # <<>> /\ held' = [held EXCEPT ![p] = Head(queue)]
           /\ Goto(p, "popRow") /\ queue' = Tail(queue)
  <2> DEFINE k == Head(queue)
  <2>1. /\ queue \in Seq(Item) /\ k \in Item /\ pc[p] = "pop" /\ held[p] = NoItem /\ turn' = turn
        /\ rows' = rows /\ removed' = removed /\ starts' = starts /\ server' = server
    BY <1>0, <1>3, HeadTailProperties
       DEF TypeOK, DrainPop, turnVars, rowVars, ghostVars, serverVars
  <2>2. (InQueue(i) <=> i = k \/ InQueue(i)') /\ (i = k => ~InQueue(i)')
    <3>1. AtMostOnce(queue, i)
      BY <1>0 DEF HeldOnce
    <3>2. (Occurs(queue, i) <=> i = k \/ Occurs(queue', i)) /\ (i = k => ~Occurs(queue', i))
      BY <1>3, <2>1, <3>1, TailOccurs
    <3> QED BY <3>2 DEF InQueue, Occurs
  <2> HIDE DEF k
  <2>3. /\ held'[p] = k /\ \A q \in Drainers : q # p => held'[q] = held[q]
        /\ \A r \in Client : held'[Req(r)] = held[Req(r)]
    BY <1>0, <1>3, <2>1, ProcFacts DEF TypeOK, k
  <2>4. /\ Popping(i)' <=> Popping(i) \/ i = k
        /\ TakenOut(i)' <=> TakenOut(i)
        /\ (Pushing(i)' <=> Pushing(i)) /\ (Begun(i)' <=> Begun(i))
        /\ HasRow(i)' <=> HasRow(i)
    BY <1>0, <1>1, <1>3, <2>1, <2>3 DEF Popping, Pushing, TakenOut, Taken, Begun, HasRow
  <2>5. CASE i # k
    BY <1>0, <2>1, <2>2, <2>4, <2>5, AsideMirrored DEF Aside
  <2>6. CASE i = k
    <3>1. Popping(i)' => InFlight(i)'
      BY DEF InFlight, Popping
    <3>2. ~Unplaced(i)
      BY <1>0, <2>2, <2>6 DEF Exclusive
    <3>3. pc'[Req(i)] # "memory"
      BY <2>4, <3>2 DEF Unplaced, Pushing
    <3> QED BY <1>0, <2>1, <2>2, <2>4, <2>6, <3>1, <3>3 DEF Mirrored
  <2> QED BY <2>5, <2>6
<1>4. CASE DrainRow(p)
  <2> DEFINE k == held[p]
  <2>1. /\ pc[p] = "popRow" /\ rows' = WithoutRow(k) /\ Goto(p, "activate") /\ held' = held
        /\ queue' = queue /\ turn' = turn /\ removed' = removed /\ starts' = starts
        /\ server' = server
    BY <1>4 DEF DrainRow, RowsAfterPop, memVars, turnVars, ghostVars, serverVars
  <2>2. /\ HasRow(i)' <=> HasRow(i) /\ i # k
        /\ (TakenOut(i)' <=> TakenOut(i)) /\ (Pushing(i)' <=> Pushing(i))
        /\ (InQueue(i)' <=> InQueue(i)) /\ (Begun(i)' <=> Begun(i))
    BY <1>0, <1>1, <2>1, WithoutOnce DEF TakenOut, Taken, Pushing, InQueue, Begun
  <2>3. i # k => (Popping(i)' <=> Popping(i))
    BY <1>1, <2>1 DEF Popping
  <2>4. i = k => Popped(i)
    BY DEF Popped
  <2> HIDE DEF k
  <2>5. CASE i # k
    BY <1>0, <2>1, <2>2, <2>3, <2>5, AsideMirrored DEF Aside
  <2>6. CASE i = k
    <3>1. ~InQueue(i)' /\ ~HasRow(i)' /\ pc'[Req(i)] # "memory"
      BY <1>0, <2>2, <2>4, <2>6 DEF Exclusive, Unplaced, Pushing
    <3> QED BY <1>0, <2>1, <2>2, <3>1 DEF Mirrored
  <2> QED BY <2>5, <2>6
<1>5. CASE DrainActivate(p)
  <2> DEFINE k == held[p]
  <2>1. /\ k \in Item /\ pc[p] = "activate" /\ held' = [held EXCEPT ![p] = NoItem]
        /\ turn' = [turn EXCEPT ![k] = "running"] /\ Goto(p, "finished") /\ queue' = queue
        /\ starts' = [starts EXCEPT ![k] = @ + 1] /\ rows' = rows /\ removed' = removed
        /\ server' = server
    BY <1>0, <1>5 DEF DrainActivate, memVars, rowVars, serverVars, TypeOK
  <2>2. /\ held'[p] = NoItem /\ \A q \in Drainers : q # p => held'[q] = held[q]
        /\ \A r \in Client : held'[Req(r)] = held[Req(r)] /\ pc'[Req(r)] = pc[Req(r)]
        /\ \A q \in Drainers : q # p => pc'[q] = pc[q]
    BY <1>0, <1>1, <2>1, ProcFacts DEF TypeOK
  <2>3. turn'[k] = "running" /\ \A t \in Item : t # k => turn'[t] = turn[t]
    <3>1. "running" \in Stages
      BY DEF Stages
    <3> QED BY <1>0, <2>1, <3>1, TurnAt
  <2>4. starts'[k] = starts[k] + 1 /\ \A j \in Item : j # k => starts'[j] = starts[j]
    BY <1>0, <2>1, CountedStart
  <2>5. Popping(i)' <=> Popping(i)
    BY <1>0, <2>1, <2>2 DEF Popping
  <2>6. i = k => Popped(i) /\ ~Popping(i)
    BY <1>0, <2>1 DEF Popped, Popping, HeldOnce, PoppedOnce
  <2> HIDE DEF k
  <2>7. /\ (TakenOut(i)' <=> TakenOut(i)) /\ (Pushing(i)' <=> Pushing(i))
        /\ (InQueue(i)' <=> InQueue(i)) /\ (HasRow(i)' <=> HasRow(i))
        /\ Begun(i)' <=> Begun(i) \/ i = k
    BY <1>0, <2>1, <2>2, <2>3 DEF TakenOut, Taken, Pushing, InQueue, HasRow, Begun
  <2>8. CASE i # k
    BY <1>0, <2>1, <2>4, <2>5, <2>7, <2>8, AsideMirrored DEF Aside
  <2>9. CASE i = k
    <3>1. ~InQueue(i) /\ ~TakenOut(i) /\ ~Unplaced(i) /\ ~Pushing(i)
      BY <1>0, <2>6, <2>9 DEF Exclusive, Unplaced, Pushing
    <3>2. ~HasRow(i)
      <4>1. ~InFlight(i)
        BY <2>6, <2>9, <3>1, Flights
      <4> QED BY <1>0, <3>1, <4>1 DEF Mirrored
    <3>3. ~Begun(i)
      <4>1. "drain" \in Where(i)
        BY <2>6, <2>9 DEF Where, PlaceNames
      <4>2. "turn" \notin Where(i)
        BY <1>0, <4>1 DEF Solo
      <4> QED BY <4>2 DEF Where, PlaceNames
    <3>4. starts'[i] = 1
      BY <1>0, <2>4, <2>9, <3>3 DEF Mirrored
    <3> QED BY <2>7, <2>9, <3>1, <3>2, <3>4 DEF Mirrored, Pushing
  <2> QED BY <2>8, <2>9
<1>6. DrainPop(p) => (held' = held /\ queue' = queue) \/
          (queue # <<>> /\ held' = [held EXCEPT ![p] = Head(queue)]
           /\ Goto(p, "popRow") /\ queue' = Tail(queue))
  BY DEF DrainPop
<1> QED BY <1>2, <1>3, <1>4, <1>5, <1>6 DEF DrainStep

LEMMA TurnMirror ==
    ASSUME QueueInv, server = "up", NEW t \in Item, TurnStep(t), NEW i \in Pushers
    PROVE  Mirrored(i)'
<1>0. /\ TypeOK /\ i \in Item /\ i \in Client /\ Post(t) \in Drainers /\ Post(t) \in Proc
      /\ \A r \in Client : Req(r) \in Proc /\ Req(r) # Post(t)
      /\ \A r \in Removers : r \in Client
      /\ MemoryInv /\ ProgramInv /\ Mirrored(i) /\ i \notin Steerers
      /\ held[Post(t)] = NoItem \/ (pc[Post(t)] # "off" /\ OneChain(t))
      /\ NoItem \notin Item
  BY ProcFacts, ClientAssumption
     DEF QueueInv, MemoryInv, RowsInv, ProgramInv, TypeInv, HoldersHold, Client
<1>1. /\ held' = held /\ removed' = removed /\ starts' = starts /\ server' = server
      /\ \A r \in Client : pc'[Req(r)] = pc[Req(r)]
      /\ \A p \in Drainers : held[p] = i => pc'[p] = pc[p]
  <2>1. CASE TurnMerge(t)
    <3>1. held[Post(t)] = NoItem
      BY <1>0, <2>1 DEF TurnMerge, OneChain
    <3> QED BY <1>0, <2>1, <3>1 DEF TurnMerge, Goto, TypeOK, ghostVars, serverVars
  <2>2. CASE pc' = pc
    BY <2>2 DEF TurnStep, TurnConsume, TurnEnd, SweepInbox, SweepIds, SweepRows, SweepInsert,
       TurnRecord, TurnMerge, procVars, ghostVars, serverVars
  <2> QED BY <2>1, <2>2 DEF TurnStep, TurnConsume, TurnEnd, SweepInbox, SweepIds, SweepRows,
             SweepInsert, TurnRecord, procVars
<1>2. /\ (Pushing(i)' <=> Pushing(i)) /\ (Popping(i)' <=> Popping(i))
      /\ (TakenOut(i)' <=> TakenOut(i))
  BY <1>0, <1>1 DEF Pushing, Popping, TakenOut, Taken
<1>3. Begun(i)' <=> Begun(i)
  BY <1>0, TurnBegun
<1>4. InQueue(i)' <=> InQueue(i)
  <2>1. CASE queue' = queue
    BY <2>1 DEF InQueue
  <2>2. CASE queue' = queue \o inbox /\ inbox' = <<>>
    <3>1. ~InInbox(i)
      BY <1>0, ElementOfSeq DEF TypeOK, InInbox, Occurs
    <3> QED BY <1>0, <2>2, <3>1, MovedInbox
  <2> QED BY <2>1, <2>2 DEF TurnStep, TurnConsume, TurnEnd, SweepInbox, Swept, SweepIds,
             SweepRows, SweepInsert, TurnRecord, TurnMerge, memVars
<1>5. HasRow(i)' <=> HasRow(i)
  <2>1. CASE SweepInsert(t) /\ Insert(Head(sweep[t].drained), NoItem)
    <3>1. Head(sweep[t].drained) \in Steerers
      <4>1. sweep[t].drained \in Seq(Steerers) /\ sweep[t].drained # <<>>
        BY <1>0, <2>1 DEF TypeOK, SweepInsert
      <4> QED BY <4>1, HeadTailProperties
    <3>2. Head(sweep[t].drained) \in Item
      BY <3>1, ProcFacts
    <3> QED BY <1>0, <2>1, <3>1, <3>2, InsertOnce
  <2>2. CASE rows' = rows
    BY <2>2 DEF HasRow
  <2> QED BY <2>1, <2>2 DEF TurnStep, TurnConsume, TurnEnd, SweepInbox, SweepIds, SweepRows,
             SweepInsert, TurnRecord, TurnMerge, rowVars
<1> QED BY <1>0, <1>1, <1>2, <1>3, <1>4, <1>5, AsideMirrored DEF Aside

-----------------------------------------------------------------------------
(***************************************************************************)
(* A restart.                                                              *)
(***************************************************************************)
LEMMA CrashKept ==
    ASSUME QueueInv, Crash, NEW i \in Item, Unplaced(i)' => Unplaced(i)
    PROVE  (Solo(i) => Solo(i)') /\ (i \in Pushers => Mirrored(i)') /\ crashes' # 0
<1>0. /\ TypeOK /\ Req(i) \in Proc /\ Req(i) \in Requests
      /\ \A r \in Removers : Req(r) \in Proc
      /\ \A p \in Drainers : p \in Proc
      /\ NoItem \notin Item
  BY ProcFacts, ClientAssumption DEF QueueInv, MemoryInv, RowsInv, ProgramInv, TypeInv, Client
<1>1. /\ queue' = <<>> /\ inbox' = <<>> /\ server' = "down" /\ rows' = rows
      /\ consumed' = consumed /\ starts' = starts /\ removed' = removed
      /\ \A p \in Proc : held'[p] = NoItem
      /\ turn'[i] = "none" <=> turn[i] = "none"
      /\ pc'[Req(i)] # "memory"
  BY <1>0 DEF Crash, rowVars, ghostVars, Answered
<1>2. ~InQueue(i)' /\ ~InInbox(i)' /\ ~Popped(i)' /\ ~TakenOut(i)'
  BY <1>0, <1>1, EmptyOccurs DEF InQueue, InInbox, Occurs, Popped, TakenOut, Taken
<1>3. (Begun(i)' <=> Begun(i)) /\ (HasRow(i)' <=> HasRow(i))
  BY <1>1 DEF Begun, HasRow
<1>4. Where(i)' \subseteq Where(i)
  BY <1>1, <1>2, <1>3 DEF Where
<1>5. Solo(i) => Solo(i)'
  BY <1>4 DEF Solo
<1>6. i \in Pushers => Mirrored(i)'
  BY <1>1, <1>2, <1>3 DEF QueueInv, Mirrored
<1>7. crashes' # 0
  BY <1>0 DEF TypeOK, Crash
<1> QED BY <1>5, <1>6, <1>7

\* The restored queue has every item that has a row.
LEMMA RestoredQueue ==
    ASSUME TypeInv, RestoreQueue, NEW i \in Item
    PROVE  InQueue(i)' <=> HasRow(i)
<1>1. PICK s \in RowOrders : queue' = [n \in 1..Cardinality(rows) |-> s[n].item]
  BY DEF RestoreQueue
<1>2. /\ Len(queue') = Cardinality(rows)
      /\ \A n \in 1..Cardinality(rows) : s[n] \in rows /\ queue'[n] = s[n].item
  BY <1>1, RestoredFacts
<1>3. InQueue(i)' => HasRow(i)
  BY <1>2 DEF InQueue, HasRow
<1>4. ASSUME NEW r \in rows, r.item = i PROVE InQueue(i)'
  <2>1. PICK n \in 1..Cardinality(rows) : s[n] = r
    BY DEF RowOrders
  <2> QED BY <1>2, <1>4, <2>1 DEF InQueue
<1> QED BY <1>3, <1>4 DEF HasRow

\* Nothing that a restore does concerns where a pushed input is, but for
\* the queue, which it takes from the rows.
LEMMA RestoreKept ==
    ASSUME QueueInv, RestoreStep, NEW i \in Pushers, Unplaced(i)' => Unplaced(i)
    PROVE  Solo(i)' /\ Mirrored(i)'
<1>0. /\ i \in Item /\ i \in Client /\ i \notin Steerers /\ server # "up"
      /\ \A r \in Removers : r \in Client
      /\ TypeOK /\ TypeInv /\ ProgramInv /\ RecordedOnce(i) /\ DownIsQuiet
      /\ Solo(i) /\ Mirrored(i)
      /\ consumed \subseteq Steerers
  BY ProcFacts, ClientAssumption
     DEF QueueInv, Firm, MemoryInv, RowsInv, ProgramInv, TypeInv, TypeOK, RestoreStep,
         RestoreQueue, RestoreSteers, RestoreRequeue, Restored
<1>1. /\ ~InInbox(i) /\ ~Popped(i) /\ ~TakenOut(i) /\ pc[Req(i)] \in Answered
  BY <1>0, DownHeld DEF QueueInv, DownIsQuiet
<1>2. /\ inbox' = inbox /\ held' = held /\ turn' = turn /\ consumed' = consumed
      /\ removed' = removed /\ starts' = starts
  BY DEF RestoreStep, RestoreQueue, RestoreSteers, RestoreRequeue, Restored, memVars, procVars,
     turnVars, ghostVars
<1>3. /\ \A k \in Client : pc'[Req(k)] = pc[Req(k)]
      /\ \A p \in Drainers : held'[p] = held[p]
      /\ \A p \in Drainers : held[p] = i => pc'[p] = pc[p]
  <2>1. CASE Restored
    <3>1. pc[Boot] = "off" /\ Boot \in Drainers
      BY <1>0, ProcFacts DEF DownIsQuiet
    <3>2. \A p \in Drainers : held[p] # i
      BY <1>1 DEF Popped
    <3>3. \A k \in Client : pc'[Req(k)] = pc[Req(k)]
      BY <1>0, <2>1, ProcFacts DEF TypeOK, Restored, BootOn
    <3> QED BY <1>2, <3>2, <3>3
  <2>2. CASE pc' = pc
    BY <1>2, <2>2
  <2> QED BY <2>1, <2>2 DEF RestoreStep, RestoreQueue, RestoreSteers, RestoreRequeue, procVars
<1>4. /\ ~InInbox(i)' /\ ~Popped(i)' /\ ~TakenOut(i)' /\ (Begun(i)' <=> Begun(i))
      /\ (Pushing(i)' <=> Pushing(i)) /\ (Popping(i)' <=> Popping(i))
      /\ (TakenOut(i)' <=> TakenOut(i))
  BY <1>0, <1>1, <1>2, <1>3
     DEF InInbox, Popped, TakenOut, Taken, Begun, Pushing, Popping
<1>5. HasRow(i) => ~Unplaced(i)
  BY <1>0, <1>1 DEF RecordedOnce, Recorded, Unplaced, Unrecorded, Answered
<1>6. CASE RestoreQueue
  <2>1. InQueue(i)' <=> HasRow(i)
    BY <1>0, <1>6, RestoredQueue
  <2>2. HasRow(i)' <=> HasRow(i)
    BY <1>6 DEF RestoreQueue, rowVars, HasRow
  <2>3. ~Pushing(i)
    BY <1>1 DEF Pushing, Answered
  <2>4. Mirrored(i)'
    BY <1>0, <1>2, <1>4, <2>1, <2>2, <2>3 DEF Mirrored, Pushing
  <2>5. i \notin consumed
    BY <1>0
  <2>6. CASE HasRow(i)
    <3>1. ~Begun(i) /\ i \notin removed
      BY <1>0, <2>6 DEF Mirrored
    <3>2. \A w \in Where(i)' : w = "queue"
      BY <1>2, <1>4, <2>5, <3>1 DEF Where
    <3> QED BY <1>5, <2>4, <2>6, <3>2 DEF Solo
  <2>7. CASE ~HasRow(i)
    <3>1. Where(i)' \subseteq Where(i)
      BY <1>2, <1>4, <2>1, <2>7 DEF Where
    <3> QED BY <1>0, <2>4, <3>1 DEF Solo
  <2> QED BY <2>6, <2>7
<1>7. CASE RestoreSteers \/ RestoreRequeue \/ Restored
  <2>1. (InQueue(i)' <=> InQueue(i)) /\ (HasRow(i)' <=> HasRow(i))
    <3>1. CASE RestoreRequeue
      <4> DEFINE s == Head(restoring)
      <4>1. s \in Steerers /\ s \in Item
        <5>1. restoring \in Seq(Steerers) /\ restoring # <<>>
          BY <1>0, <3>1 DEF TypeOK, RestoreRequeue
        <5> QED BY <5>1, HeadTailProperties, ProcFacts
      <4>2. /\ queue' = queue \/ queue' = Append(queue, s)
            /\ rows' = rows \/ Insert(s, NoItem)
        BY <3>1 DEF RestoreRequeue
      <4> HIDE DEF s
      <4>3. Occurs(queue', i) <=> Occurs(queue, i)
        <5>1. queue \in Seq(Item) /\ i # s
          BY <1>0, <4>1 DEF TypeOK
        <5>2. CASE queue' = queue
          BY <5>2
        <5>3. CASE queue' = Append(queue, s)
          BY <4>1, <5>1, <5>3, AppendOccurs
        <5> QED BY <4>2, <5>2, <5>3
      <4>4. HasRow(i)' <=> HasRow(i)
        <5>1. CASE rows' = rows
          BY <5>1 DEF HasRow
        <5>2. CASE Insert(s, NoItem)
          BY <1>0, <4>1, <5>2, InsertOnce
        <5> QED BY <4>2, <5>1, <5>2
      <4> QED BY <4>3, <4>4 DEF InQueue, Occurs
    <3>2. CASE queue' = queue /\ rows' = rows
      BY <3>2 DEF InQueue, HasRow
    <3> QED BY <1>7, <3>1, <3>2 DEF RestoreSteers, Restored, memVars, rowVars
  <2>2. Where(i)' = Where(i)
    BY <1>1, <1>2, <1>4, <2>1 DEF Where
  <2>3. Solo(i)'
    BY <1>0, <2>2 DEF Solo
  <2>4. server # "down"
    BY <1>7 DEF RestoreSteers, RestoreRequeue, Restored
  <2>5. Mirrored(i)'
    BY <1>0, <1>2, <1>4, <2>1, <2>4, AsideMirrored DEF Aside
  <2> QED BY <2>3, <2>5
<1> QED BY <1>6, <1>7 DEF RestoreStep

-----------------------------------------------------------------------------
LEMMA SameLedger ==
    ASSUME UNCHANGED vars, NEW i
    PROVE  /\ (Solo(i)' <=> Solo(i)) /\ (Accounted(i)' <=> Accounted(i))
           /\ Mirrored(i)' <=> Mirrored(i)
<1> USE DEF vars
<1>1. /\ (InQueue(i)' <=> InQueue(i)) /\ (InInbox(i)' <=> InInbox(i))
      /\ (Popped(i)' <=> Popped(i)) /\ (TakenOut(i)' <=> TakenOut(i))
      /\ (Begun(i)' <=> Begun(i)) /\ (Unplaced(i)' <=> Unplaced(i))
      /\ (Accepted(i)' <=> Accepted(i)) /\ (HasRow(i)' <=> HasRow(i))
      /\ (InFlight(i)' <=> InFlight(i))
  BY DEF InQueue, InInbox, Popped, TakenOut, Taken, Begun, Unplaced, Unrecorded, Accepted, HasRow,
     InFlight
<1>2. Where(i)' = Where(i)
  BY <1>1 DEF Where
<1> QED BY <1>1, <1>2 DEF Solo, Accounted, Mirrored

\* One step of the program keeps the ledger and the mirror.
LEMMA QueueStep ==
    ASSUME QueueInv, [Next]_vars
    PROVE  QueueInv'
<1>0. MemoryInv /\ RowsInv /\ ProgramInv
  BY DEF QueueInv, MemoryInv, RowsInv
<1>1. MemoryInv'
  BY <1>0, MemoryStep
<1>2. \A i \in Item : Unplaced(i)' => Unplaced(i)
  BY <1>0, Onward
<1>3. CASE UNCHANGED vars
  BY <1>1, <1>3, SameLedger, ProcFacts DEF QueueInv, Firm, vars
<1>4. CASE Crash
  <2>1. crashes' # 0 \/ Item = {}
    BY <1>2, <1>4, CrashKept
  <2>2. \A i \in Item : (Solo(i) => Solo(i)') /\ (i \in Pushers => Mirrored(i)')
    BY <1>2, <1>4, CrashKept
  <2> QED BY <1>1, <2>1, <2>2, ProcFacts DEF QueueInv, Firm
<1>5. CASE RestoreStep
  <2>1. crashes' # 0
    <3>1. crashes' = crashes /\ server # "up"
      BY <1>5 DEF RestoreStep, RestoreQueue, RestoreSteers, RestoreRequeue, Restored
    <3> QED BY <1>0, <3>1 DEF ProgramInv, DownIsQuiet
  <2>2. \A i \in Pushers : i \in Item /\ Solo(i)' /\ Mirrored(i)'
    BY <1>2, <1>5, RestoreKept, ProcFacts
  <2> QED BY <1>1, <2>1, <2>2 DEF QueueInv, Firm
<1>6. ASSUME server = "up", crashes' = crashes,
             \A i \in Item : Moves(i), \A i \in Pushers : Mirrored(i)'
      PROVE  QueueInv'
  <2>1. ASSUME NEW i \in Item
        PROVE  (Firm(i)' => Solo(i)') /\ (crashes' = 0 => Accounted(i)')
    <3>1. (Firm(i) => Solo(i)) /\ (crashes = 0 => Accounted(i)) /\ (Firm(i)' <=> Firm(i))
      BY <1>6 DEF QueueInv, Firm
    <3>2. (Solo(i) => Solo(i)') /\ (Solo(i) /\ Accounted(i) => Accounted(i)')
      BY <1>2, <1>6, MovesKeep
    <3> QED BY <1>6, <3>1, <3>2 DEF Firm
  <2> QED BY <1>1, <1>6, <2>1 DEF QueueInv
<1>7. ASSUME server = "up", NEW k \in Pushers, PushStep(k) PROVE QueueInv'
  <2>1. crashes' = crashes
    BY <1>7 DEF PushStep, Push, PushAdmit, PushRow, PushMemory, serverVars
  <2> QED BY <1>0, <1>6, <1>7, <2>1, PushWhere, PushMirror
<1>8. ASSUME server = "up", NEW k \in Steerers, SteerStep(k) PROVE QueueInv'
  <2>1. crashes' = crashes
    BY <1>8 DEF SteerStep, Steer, SteerMismatch, SteerRow, SteerInbox, SteerMaterialize,
                DegradeRow, DegradeMemory, serverVars
  <2> QED BY <1>0, <1>6, <1>8, <2>1, SteerWhere, SteerMirror
<1>9. ASSUME server = "up", NEW k \in Removers, RemoveStep(k) PROVE QueueInv'
  <2>1. crashes' = crashes
    BY <1>9 DEF RemoveStep, RemoveItem, RemoveRow, serverVars
  <2> QED BY <1>0, <1>6, <1>9, <2>1, RemoveWhere, RemoveMirror
<1>10. ASSUME server = "up", NEW k \in Editors, EditStep(k) PROVE QueueInv'
  <2>1. crashes' = crashes
    BY <1>10 DEF EditStep, Edit, EditMissing, EditSnapshot, EditContent, EditPositions, serverVars
  <2> QED BY <1>0, <1>6, <1>10, <2>1, EditWhere, EditMirror
<1>11. ASSUME server = "up", NEW p \in Drainers, DrainStep(p) PROVE QueueInv'
  <2>1. crashes' = crashes
    BY <1>11 DEF DrainStep, DrainCheck, DrainGate, DrainPop, DrainRow, DrainActivate, serverVars
  <2> QED BY <1>0, <1>6, <1>11, <2>1, DrainWhere, DrainMirror
<1>12. ASSUME server = "up", NEW t \in Item, TurnStep(t) PROVE QueueInv'
  <2>1. crashes' = crashes
    BY <1>12 DEF TurnStep, TurnConsume, TurnEnd, SweepInbox, SweepIds, SweepRows, SweepInsert,
       TurnRecord, TurnMerge, serverVars
  <2> QED BY <1>0, <1>6, <1>12, <2>1, TurnWhere, TurnMirror
<1> QED BY <1>3, <1>4, <1>5, <1>7, <1>8, <1>9, <1>10, <1>11, <1>12 DEF Next, Rest

LEMMA QueueStart ==
    ASSUME Init
    PROVE  QueueInv
<1>0. /\ NoItem \notin Item
      /\ \A p \in Drainers : p \in Proc
      /\ \A k \in Client : Req(k) \in Proc /\ Req(k) \in Requests
      /\ Item \subseteq Client /\ Removers \subseteq Client
  BY ProcFacts, ClientAssumption DEF Client
<1>1. ASSUME NEW i \in Item PROVE Solo(i) /\ Accounted(i) /\ Mirrored(i)
  <2>1. /\ queue = <<>> /\ inbox = <<>> /\ turn[i] = "none" /\ pc[Req(i)] = "new"
        /\ \A p \in Proc : held[p] = NoItem
        /\ consumed = {} /\ removed = {} /\ starts[i] = 0 /\ rows = {}
    BY <1>0 DEF Init
  <2>2. /\ ~InQueue(i) /\ ~InInbox(i) /\ ~Popped(i) /\ ~TakenOut(i) /\ ~Begun(i)
        /\ ~HasRow(i) /\ ~Accepted(i)
    BY <1>0, <2>1, EmptyOccurs DEF InQueue, InInbox, Occurs, Popped, TakenOut, Taken, Begun,
       HasRow, Accepted
  <2>3. Where(i) = {}
    BY <2>1, <2>2 DEF Where
  <2> QED BY <2>1, <2>2, <2>3 DEF Solo, Accounted, Mirrored
<1> QED BY <1>1, MemoryStart, ProcFacts DEF QueueInv

LEMMA QueueInvariant == Spec => []QueueInv
BY QueueStart, QueueStep, PTL DEF Spec

-----------------------------------------------------------------------------
(***************************************************************************)
(* The theorems.                                                           *)
(***************************************************************************)
\* Each variable keeps to its type, whatever the operations, the sweeps, the
\* drains and the restarts do between each other's steps
\* (handlers/queue.rs, turn_exec/finalize.rs, lifecycle.rs).
THEOREM TypeCorrect == Spec => []TypeOK
<1>1. QueueInv => TypeOK
  BY DEF QueueInv, MemoryInv, RowsInv, ProgramInv, TypeInv
<1> QED BY <1>1, QueueInvariant, PTL

\* While the server runs, a pushed input waits in the queue, or is on its way
\* in or out, exactly when it has a row, unless the insert was refused
\* (lifecycle.rs:154-156, handlers/turn.rs:488-489, handlers/queue.rs:420-431).
THEOREM RowsMirror == Spec => []MirrorIsComplete
<1>1. QueueInv => MirrorIsComplete
  BY DEF QueueInv, Mirrored, MirrorIsComplete
<1> QED BY <1>1, QueueInvariant, PTL

\* However often the server restarts, a pushed input starts at most one turn,
\* and one whose removal was answered starts none and is in no queue and no
\* row (lifecycle.rs:154-163, turn_exec/followup.rs:213-231).
THEOREM HandledAtMostOnce == Spec => []HandledOnce
<1>1. ASSUME QueueInv, NEW i \in Pushers, i \in removed
      PROVE  ~Begun(i) /\ ~InQueue(i)
  <2>1. Solo(i)
    BY <1>1, ProcFacts DEF QueueInv, Firm
  <2>2. "removed" \in Where(i)
    BY <1>1 DEF Where, PlaceNames
  <2>3. "turn" \notin Where(i) /\ "queue" \notin Where(i)
    BY <2>1, <2>2 DEF Solo
  <2> QED BY <2>3 DEF Where, PlaceNames
<1>2. QueueInv => HandledOnce
  BY <1>1 DEF QueueInv, Mirrored, HandledOnce
<1> QED BY <1>2, QueueInvariant, PTL

\* Before the first restart every input that was accepted, pushed or steered,
\* is in exactly one place: neither lost nor there twice
\* (handlers/queue.rs:452-454, turn_exec/finalize.rs:305-328).
THEOREM InOnePlace == Spec => []PlacedOnce
<1>1. ASSUME QueueInv, crashes = 0, NEW i \in Item, Accepted(i)
      PROVE  \E x : Places(i) = {x}
  <2>0. Solo(i) /\ HeldOnce(i) /\ Where(i) # {}
    BY <1>1 DEF QueueInv, Firm, Accounted, MemoryInv
  <2>1. PICK w : Where(i) = {w}
    BY <2>0 DEF Solo
  <2>2. w \in PlaceNames
    BY <2>1 DEF Where
  <2> DEFINE Q == {<<"queue", n>> : n \in {m \in 1..Len(queue) : queue[m] = i}}
             I == {<<"inbox", n>> : n \in {m \in 1..Len(inbox) : inbox[m] = i}}
             D == {p \in Drainers : held[p] = i}
             R == {p \in {Req(r) : r \in Removers} : held[p] = i /\ pc[p] = "removeRow"}
             C == {u \in {<<"consumed", i>>} : i \in consumed}
             T == {u \in {<<"turn", i>>} : turn[i] # "none"}
             X == {u \in {<<"removed", i>>} : i \in removed}
  <2>3. Places(i) = Q \cup I \cup D \cup R \cup C \cup T \cup X
    BY DEF Places
  <2>4. \A x, y \in Q : x = y
    BY <2>0 DEF HeldOnce, AtMostOnce
  <2>5. \A x, y \in I : x = y
    BY <2>0 DEF HeldOnce, AtMostOnce
  <2>6. \A x, y \in D : x = y
    BY <2>0 DEF HeldOnce, PoppedOnce
  <2>7. \A x, y \in R : x = y
    BY <2>0 DEF HeldOnce, TakenOnce, Taken
  <2>8. /\ Q # {} <=> w = "queue"
        /\ I # {} <=> w = "inbox"
        /\ D # {} <=> w = "drain"
        /\ R # {} <=> w = "removal"
        /\ T # {} <=> w = "turn"
        /\ C # {} <=> w = "consumed"
        /\ X # {} <=> w = "removed"
    <3>1. /\ InQueue(i) <=> "queue" \in Where(i)
          /\ InInbox(i) <=> "inbox" \in Where(i)
          /\ Popped(i) <=> "drain" \in Where(i)
          /\ TakenOut(i) <=> "removal" \in Where(i)
          /\ Begun(i) <=> "turn" \in Where(i)
          /\ i \in consumed <=> "consumed" \in Where(i)
          /\ i \in removed <=> "removed" \in Where(i)
      BY DEF Where, PlaceNames
    <3>2. Q # {} <=> InQueue(i)
      BY DEF InQueue
    <3>3. I # {} <=> InInbox(i)
      BY DEF InInbox, Occurs
    <3>4. (D # {} <=> Popped(i)) /\ (R # {} <=> TakenOut(i))
      BY DEF Popped, TakenOut, Taken
    <3>5. T # {} <=> Begun(i)
      BY DEF Begun
    <3> QED BY <2>1, <3>1, <3>2, <3>3, <3>4, <3>5
  <2>9. (\A x, y \in C : x = y) /\ (\A x, y \in T : x = y) /\ (\A x, y \in X : x = y)
    OBVIOUS
  <2> HIDE DEF Q, I, D, R, C, T, X
  <2>10. ASSUME NEW S, S # {}, \A x, y \in S : x = y, Places(i) = S
         PROVE  \E x : Places(i) = {x}
    BY <2>10
  <2>11. CASE w = "queue"
    BY <2>3, <2>4, <2>8, <2>10, <2>11
  <2>12. CASE w = "inbox"
    BY <2>3, <2>5, <2>8, <2>10, <2>12
  <2>13. CASE w = "drain"
    BY <2>3, <2>6, <2>8, <2>10, <2>13
  <2>14. CASE w = "removal"
    BY <2>3, <2>7, <2>8, <2>10, <2>14
  <2>15. CASE w = "turn"
    BY <2>3, <2>8, <2>9, <2>10, <2>15
  <2>16. CASE w \in {"consumed", "removed"}
    BY <2>3, <2>8, <2>9, <2>10, <2>16
  <2> QED BY <2>2, <2>11, <2>12, <2>13, <2>14, <2>15, <2>16 DEF PlaceNames
<1>2. QueueInv => PlacedOnce
  BY <1>1, FS_Singleton DEF PlacedOnce
<1> QED BY <1>2, QueueInvariant, PTL
=============================================================================
