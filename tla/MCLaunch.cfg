CONSTANTS
    Configs <- MCConfigs
    Faults = {"sink", "setup", "pipe", "spawn", "addpid", "layer", "helper", "oom", "timeout", "crash"}
    SelfExec = FALSE
SPECIFICATION Spec
INVARIANTS FailClosed OkMeansConfined CgroupCoversSandbox OrphansDoomed ErrGivesBack
