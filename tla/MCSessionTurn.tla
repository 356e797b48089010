--------------------------- MODULE MCSessionTurn ---------------------------
EXTENDS SessionTurn, TLC

CONSTANTS s1, q1, q2, q3, i1

NoRequests == {}
OneStart == {s1}
OnePush == {q1}
ThreePushes == {q1, q2, q3}
OneInterrupt == {i1}
Completes == {"Completed"}
PushSymmetry == Permutations({q1, q2, q3})
MayFail == {"Completed", "Failed"}

=============================================================================
