CONSTANTS
    Call = {c1, c2}
    r1 = r1
    r2 = r2
    Request = {r1, r2}
    Minutes <- MCMinutes
    MaxAttempts = 1
    StaffTimes = {0}
    StaffExtras = {0}
    NoRow = NoRow
    MaxLen = 2
    MaxExtra = 2
    MaxOverlaps = 1
SPECIFICATION Spec
SYMMETRY Handlers
INVARIANTS SeatsAreEarned OnlyOverlapsDouble DecisionsAddUp
CHECK_DEADLOCK FALSE
