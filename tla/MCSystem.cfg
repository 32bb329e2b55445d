SPECIFICATION FairSystemSpec
CONSTANTS
    Services = {1}
    Configs = {c1, cBad}
    ValidConfigs = {c1}
    NoSpec = NoSpec
    Open = Open
    Free = Free
    GenMax = 1
    AttemptsMax = 1
    Pids = {p1}
    Commands = {"enable", "disable", "pause", "resume", "start", "stop", "query", "reconcile", "shutdown", "unread"}
    Faults = {"slow_start", "exit", "save", "crash", "tool", "stop", "spawn"}
    Texts = {"control_service"}
    U64s = {"control_timeout_ms"}
    U8s = {}
    F64s = {}
    Defaults <- SmallDefaults
    Unset = Unset
    Garbled = Garbled
    Clients = {k1, k2}
    CallsMax = 1
    ClientCommands <- Commandlines
    Sources <- SmallSources
    ControlService = "ours"
    None = None
INVARIANTS SystemTypeOK OnlyTimeoutsLinger InputErrorsChangeNothing ExitZeroIsDone
PROPERTIES ShutdownEnds WordIsKept ImplementsDaemon
