CONSTANTS
    Call = {c1, c2}
    q1 = q1
    q2 = q2
    Question = {q1, q2}
    Version <- MCVersion
    First <- MCFirst
    Typed <- MCTyped
    MaxWorth = 1
    Negative = 1
    Passing = 1
    Nothing = Nothing
    Deleted = Deleted
    MaxCalls = 5
SPECIFICATION GradingSpec
SYMMETRY People
INVARIANTS ScoreIsTotal PublishedWhenFinal SignedByDecider
CHECK_DEADLOCK FALSE
