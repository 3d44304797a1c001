\* The cancel guard frees the client while a result is under way.
CONSTANTS
    Tools = {m1, m2}
    Scoped = {}
    Evidence = {}
    None = None
    MaxCrashes = 0
SPECIFICATION Spec
INVARIANTS NoFabricatedSuccess
