CONSTANTS
    Worker = {w1, w2}
    Answers = {Blank, a1}
    Blank = Blank
    NoAnswers = NoAnswers
    EventType = {other, ip}
    NoEvent = NoEvent
    IpEvent = ip
    Policy <- MixedPolicy
    MaxViolations = 2
    WarnLimit = 1
    HighRiskAfter = 2
    MaxEvents = 3
    MaxAlerts = 1
SYMMETRY WorkerSymmetry
SPECIFICATION Spec
INVARIANTS SubmittedIsGraded CountsBackedByLog TerminationIsEarned HighRiskIsAnnounced
PROPERTIES AnswersWrittenOnce FinishedStaysFinished
CHECK_DEADLOCK FALSE
