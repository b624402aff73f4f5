SPECIFICATION FairSpec
CONSTANTS
    c1 = c1
    c2 = c2
    Clients = {c1, c2}
    Configs <- MCConfigs
    MaxConns = 1
    MaxSessions = 1
    UpCap = 2
    DownCap = 2
    InCap = 1
    OutCap = 1
INVARIANTS SlotsExact SessionTrue
PROPERTIES EndIsTold GoneIsCleaned
