SPECIFICATION Spec
CONSTANTS
    Values = {v0, v1, v2}
    Initial = v0
    None = None
    Torn = Torn
    NoFile = NoFile
    BareName = FALSE
    Faults = {"io", "stat", "crash", "power"}
INVARIANTS TypeOK NeverTorn StoredIsDurable
PROPERTY ImplementsAtomicStore
