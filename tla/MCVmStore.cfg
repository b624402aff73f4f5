SPECIFICATION RaceSpec
SYMMETRY StartSymmetry
CONSTANTS
    None = None
    Starts = {s1,s2}
    Stops = {t1}
    Lists = {}
    Removes = {r1}
    Prunes = {p1}
    Resets = {}
    Forced = {}
    Interruptible = {}
    MaxTries = 1
INVARIANTS StopMeansStopped OneVmPerLockFile
