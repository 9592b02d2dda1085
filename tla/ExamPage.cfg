CONSTANTS
    MaxEdits = 1
SPECIFICATION FairSpec
INVARIANTS AckedSurvives
PROPERTIES AnswersReachServer TimedSubmitCompletes
