SPECIFICATION Spec
CONSTANTS
    Values = {v0, v1, v2}
    Initial = v0
    None = None
    Torn = Torn
    NoFile = NoFile
    BareName = TRUE
    Faults = {}
INVARIANT HealthySaves
