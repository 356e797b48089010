SPECIFICATION Spec
CONSTANTS
    Requests = {r1, r2}
    Users = {u1}
    MaxTurns = 3
    MaxMishaps = 1
SYMMETRY MCSymmetry
INVARIANTS
    StoppedGoalsStop
    
    
    
