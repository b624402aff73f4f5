CONSTANTS
    c1 = c1
    c2 = c2
    None = None
    Commands = {c1, c2}
    Inodes = {1, 2, 3, 4, 5, 6, 7, 8, 9, 10, 11, 12}
    Size = 2
    Tables <- MCTables
    Configs <- MCConfigs
SPECIFICATION FairSpec
INVARIANTS CachedIntact ForceRepairs
PROPERTY NothingRunsOn
CHECK_DEADLOCK FALSE
