SPECIFICATION Spec
CONSTANTS
    Texts = {}
    U64s = {"initial_ms", "max_ms", "max_window_ms"}
    U8s = {"jitter_percent"}
    F64s = {"factor"}
    Defaults <- SmallDefaults
    Unset = Unset
    Garbled = Garbled
    Sources <- SmallSources
    Factors <- SmallFactors
    RawDelay <- SmallDelays
    NaN = NaN
    AttemptsMax = 2
    PassGap = 1
    PassTime = 1
    Horizon = 11
    None = None
INVARIANTS TypeOK AsConfigured DegradesInTime AttemptsBounded ReasonFits
PROPERTIES SpawnsSpaced ImplementsFlags
