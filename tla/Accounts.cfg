CONSTANTS
    Browser = {b1, b2}
    Absent = Absent
    MaxFailures = 2
    Lock = 1
    MaxTries = 2
    Ttl = 1
    Window = 1
    Cooldown = 1
    BackupCodes = 1
    Horizon = 2
    MaxCalls = 5
SPECIFICATION Spec
INVARIANTS GuessesAreCounted CodesWorkOnce 
CHECK_DEADLOCK FALSE
