SPECIFICATION FairSpec
CONSTANTS
    p1 = p1
    p2 = p2
    t1 = t1
    r1 = r1
    e1 = e1
    NoItem = NoItem
    Pushers <- TwoPushers
    Steerers <- None
    Removers <- None
    Editors <- OneEditor
    InsertFails = TRUE
    MaxCrashes = 1
PROPERTY RowIsServed
PROPERTY QueueDrains
