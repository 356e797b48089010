SPECIFICATION Spec
CONSTANTS
    Starter = start
    Senders = {m1, m2}
    Stops = {stop1, stop2}
    Limit = 2
    MaxCalls = 2
    MaxMishaps = 2
SYMMETRY MCSymmetry
INVARIANTS
    WaitingIsServed
    OverIsReported
    
    StopEndsTurn
