CONSTANTS
    Value = {v1, v2}
    Request = {r1, r2}
    MaxQuestions = 2
    MaxSections = 3
    MaxItems = 1
    MaxCalls = 6
SPECIFICATION Spec
INVARIANTS HistoryIsTrue StructureIsSound
SYMMETRY Alike
CHECK_DEADLOCK FALSE
