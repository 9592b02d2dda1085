CONSTANTS
    Window = {w1, w2}
    Browser = {laptop, phone}
    Persistent = w1
    Nobody = Nobody
SPECIFICATION SessionFairSpec
INVARIANTS SingleDriver
PROPERTIES SupersededPageLearns NobodyIsLockedOut
CHECK_DEADLOCK FALSE
