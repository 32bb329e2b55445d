SPECIFICATION RepairedSpec
CONSTANTS
    Services = {1}
    Configs = {c1}
    ValidConfigs = {c1}
    NoSpec = NoSpec
    Open = Open
    Free = Free
    GenMax = 1
    AttemptsMax = 1
    Pids = {p1}
    Commands = {"enable", "reconcile"}
    Faults = {"spawn"}
PROPERTY ReconcileRecovers
