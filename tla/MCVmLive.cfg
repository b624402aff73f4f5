SPECIFICATION KeepSpec
CONSTANTS
    None = None
    Starts = {s1, s2}
    Stops = {t1}
    Lists = {l1}
    Removes = {}
    Prunes = {p1}
    Resets = {x1}
    Forced = {t1}
    Interruptible = {s1}
    MaxTries = 1
PROPERTIES SessionsAreSerial KilledVmUnlocks
