SPECIFICATION Spec
CONSTANTS
    Clients = {c1}
    SubIds = {u1, u2}
    Sessions = {"session"}
    Roster = "roster"
    LineKinds = {{}, {"session", "roster"}}
    MaxLines = 2
    MaxCrashes = 1
    MaxMishaps = 1
INVARIANT CursorIsCovered
INVARIANT LiveLeavesNoGap
INVARIANT MissingIsStillDue
SYMMETRY Symmetry
