SPECIFICATION Spec
CONSTANTS
    Services = {1, 2}
    Configs = {c1}
    ValidConfigs = {c1}
    NoSpec = NoSpec
    Open = Open
    Free = Free
    GenMax = 1
    AttemptsMax = 1
    Pids = {p1, p2}
    Commands = {"enable", "disable", "pause", "start", "stop", "reconcile"}
    Faults = {"save", "crash", "spawn", "tool"}
INVARIANTS Durability AcceptedIsSettled NoDuplicates
PROPERTIES ImplementsLifecycle
SYMMETRY Interchangeable
