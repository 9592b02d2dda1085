CONSTANTS
    Process = {p1, p2}
    NoOne = NoOne
    Interval = 5
    MaxPass = 2
    MaxRestarts = 1
    Horizon = 20
SPECIFICATION LeaseSpec
INVARIANTS OverlapOnlyAfterTtl RunsKeepComing
CHECK_DEADLOCK FALSE
