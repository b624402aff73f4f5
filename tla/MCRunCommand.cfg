CONSTANTS
    Configs <- MCConfigs
    Faults = {"args", "fork", "timeout", "launch", "oom", "wait", "raw", "poll", "tmp"}
    MaxTries = 2
    Chunk = 2
    Low = 1
    High = 3
    InCap = 1
    OutCap = 2
SPECIFICATION FairSpec
INVARIANTS NoStraySignal TerminalRestored NothingLeft
PROPERTIES RunEnds PtyFlows
