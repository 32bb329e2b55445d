SPECIFICATION Spec
CONSTANTS
    Services = {1}
    Configs = {c1}
    ValidConfigs = {c1}
    NoSpec = NoSpec
    Open = Open
    Free = Free
    GenMax = 1
    AttemptsMax = 1
    Pids = {p1}
    Commands = {"enable"}
    Faults = {"save"}
INVARIANT RecordersArePersisted
