SPECIFICATION PlatformSpec
CONSTANTS
    w1 = w1
    w2 = w2
    Sandboxes = {w1, w2}
    LogPipe = 2
    MacConfigs <- MCMacConfigs
    WinConfigs <- MCWinConfigs
    Tree <- MCTree
INVARIANT PermissionsRestored
CHECK_DEADLOCK FALSE
