SPECIFICATION FairSpec
CONSTANTS
    Services = {1}
    Configs = {c1}
    ValidConfigs = {c1}
    NoSpec = NoSpec
    Open = Open
    Free = Free
    GenMax = 1
    AttemptsMax = 2
    Pids = {p1, p2}
    Commands = {"enable", "disable", "pause", "resume", "start", "stop", "query", "reconcile"}
    Faults = {"slow_start", "spawn", "stop", "exit", "crash", "stat"}
PROPERTIES ConvergesUp ConvergesDown RequestsAnswered
