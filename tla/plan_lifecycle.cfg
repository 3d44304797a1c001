\* Three Cores evaluate, freeze and start two plans.
CONSTANTS
    Cores = {c1, c2, c3}
    Plans = {p1, p2}
    MaxClock = 4
    NoPlan = NoPlan
SPECIFICATION Spec
SYMMETRY Symmetry
INVARIANTS ToldIsStored LaunchedAsFrozen
PROPERTIES ImplementsPromise
