SPECIFICATION Spec
CONSTANTS
    p1 = p1
    p2 = p2
    t1 = t1
    r1 = r1
    e1 = e1
    NoItem = NoItem
    Pushers <- TwoPushers
    Steerers <- OneSteerer
    Removers <- OneRemover
    Editors <- None
    InsertFails = FALSE
    MaxCrashes = 1
INVARIANT TypeOK
INVARIANT PlacedOnce
INVARIANT MirrorIsComplete
INVARIANT HandledOnce
