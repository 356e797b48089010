-------------------------- MODULE MCSessionCache --------------------------
EXTENDS SessionCache, TLC

CONSTANTS a, b, s1, s2, l1, l2, l3, e1

TwoDevos == {a, b}
TwoSessions == {s1, s2}
ThreeLoaders == {l1, l2, l3}
OneEditor == {e1}

\* Every request but l3 is served by process a.
Homes == [k \in {l1, l2, l3, e1} |-> IF k = l3 THEN b ELSE a]
HomesOf(tasks) == [k \in tasks |-> Homes[k]]
MixedHome == HomesOf(ThreeLoaders \cup OneEditor)
\* The loaders of process a are alike, and so are the sessions.
Symmetry == Permutations({l1, l2}) \cup Permutations(TwoSessions)

=============================================================================
