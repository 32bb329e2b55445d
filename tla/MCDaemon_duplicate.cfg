SPECIFICATION Spec
CONSTANTS
    Services = {1}
    Configs = {c1}
    ValidConfigs = {c1}
    NoSpec = NoSpec
    Open = Open
    Free = Free
    GenMax = 1
    AttemptsMax = 1
    Pids = {p1, p2}
    Commands = {"enable"}
    Faults = {"slow_start"}
INVARIANT NoDuplicates
