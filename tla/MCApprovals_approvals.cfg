SPECIFICATION FairSpec
CONSTANTS
    a = a
    c1 = c1
    c2 = c2
    Hydration = Hydration
    Asks <- OneAsk
    Clients <- TwoClients
    MaxTurns = 2
    MaxMishaps = 2
CHECK_DEADLOCK FALSE
INVARIANT WaitingIsAnswerable
PROPERTY ConsentBeforeRun
 
PROPERTY StopEndsTurn
