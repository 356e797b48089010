SPECIFICATION Spec
SYMMETRY Symmetry
CONSTANTS
    a = a
    b = b
    s1 = s1
    s2 = s2
    l1 = l1
    l2 = l2
    l3 = l3
    e1 = e1
    NoTask = NoTask
    NoSession = NoSession
    Devos <- TwoDevos
    Sessions <- TwoSessions
    Loaders <- ThreeLoaders
    Editors <- OneEditor
    Home <- MixedHome
    Mortal <- TwoDevos
    Capacity = 1
    OpenFails = TRUE
INVARIANT TypeOK
INVARIANT OneHydration
INVARIANT ExclusiveOwner
PROPERTY GateFreezesSettings
