CONSTANTS
    Configs <- MCMandatoryDoc
    Faults = {"sink"}
    SelfExec = FALSE
SPECIFICATION Spec
INVARIANT ErrEndsSandbox
