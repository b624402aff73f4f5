CONSTANTS
    Configs <- MCLiveConfigs
    Faults = {"setup", "pipe", "spawn", "addpid", "layer", "helper", "timeout", "crash"}
    SelfExec = TRUE
SPECIFICATION FairSpec
PROPERTIES CrashEndsSandbox TargetStarts ImplementsFairContract
