SPECIFICATION FairSpec
CONSTANTS
    s1 = s1
    q1 = q1
    q2 = q2
    q3 = q3
    i1 = i1
    NoTurn = NoTurn
    Starters <- OneStart
    Pushers <- OnePush
    Interrupters <- NoRequests
    Outcomes <- MayFail
 
PROPERTY EventuallyReleased
