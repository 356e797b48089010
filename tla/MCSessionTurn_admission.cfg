SPECIFICATION Spec
CONSTANTS
    s1 = s1
    q1 = q1
    q2 = q2
    q3 = q3
    i1 = i1
    NoTurn = NoTurn
    Starters <- NoRequests
    Pushers <- ThreePushes
    Interrupters <- NoRequests
    Outcomes <- Completes
SYMMETRY PushSymmetry
INVARIANT TypeOK
 
INVARIANT NoInputLost
PROPERTY InputsAreServed
