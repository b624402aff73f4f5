SPECIFICATION FairSpec
CONSTANTS
    p1 = p1
    p2 = p2
    t1 = t1
    t2 = t2
    c1 = c1
    c2 = c2
    Procs = {p1, p2}
    First = p1
    Threads = {t1, t2}
    Calls <- MCCalls
    Unlisted = {"statx", "openat2", "future"}
    Beyond = {"future"}
    MaxOwn = 1
    MaxTraps = 2
    HowShapes <- MCHows
    Conns = {c1, c2}
    MaxConns = 1
    Cap = 1
    Requests <- MCRequests
    Allowlist <- MCAllowlist
    Addresses <- MCAddresses
INVARIANTS ProgramConfined OwnStepsPass EndMeansAll OnlyAllowedDialled
PROPERTIES ReportsExact SlotComesBack
CHECK_DEADLOCK FALSE
