SPECIFICATION FairSpec
CONSTANTS
    None = None
    Callers = {"t", "o"}
    Orphans = {"o"}
    Calls <- MCCalls
    Configs <- MCConfigs
    Inspected = 2
    PipeCap = 2
    Chunk = 2
    MaxDrain = 3
INVARIANTS RunMeansNoted BlockedNeverRuns NoSilentDrop
PROPERTIES WaitReturns CallsAnswered
