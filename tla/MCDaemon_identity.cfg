SPECIFICATION Spec
CONSTANTS
    Services = {1}
    Configs = {c1, c2, cBad}
    ValidConfigs = {c1, c2}
    NoSpec = NoSpec
    Open = Open
    Free = Free
    GenMax = 3
    AttemptsMax = 1
    Pids = {p1, p2}
    Commands = {"enable", "disable", "pause", "resume", "start", "stop", "query", "reconcile", "shutdown", "unread"}
    Faults = {"tool", "probe", "stop", "spawn", "slow_start", "exit", "crash"}
INVARIANTS TypeOK TrackersCoherent GenerationIdentifies RecordersArePersisted
PROPERTIES GenerationMovesWithConfig TrackersAreFlags ImplementsLifecycle
SYMMETRY Interchangeable
