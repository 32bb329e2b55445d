SPECIFICATION FairSpec
CONSTANTS
    Services = {1}
    Configs = {c1, c2}
    ValidConfigs = {c1, c2}
    NoSpec = NoSpec
    Open = Open
    Free = Free
    GenMax = 2
    AttemptsMax = 1
    Pids = {p1}
    Commands = {"enable"}
    Faults = {}
PROPERTY ConfigConverges
