-------------------------- MODULE MCPendingQueue --------------------------
EXTENDS PendingQueue, TLC

CONSTANTS p1, p2, t1, r1, e1

None == {}
TwoPushers == {p1, p2}
OneSteerer == {t1}
OneRemover == {r1}
OneEditor == {e1}

=============================================================================
