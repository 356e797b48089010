---------------------------- MODULE MCApprovals ----------------------------
EXTENDS Approvals, TLC

CONSTANTS a, c1, c2

OneAsk == {a}
TwoClients == {c1, c2}

=============================================================================
