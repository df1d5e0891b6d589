SPECIFICATION FairSpec
CONSTANTS
    Keys = {1, 2, 3}
    Unknown = 9
CHECK_DEADLOCK FALSE
INVARIANTS
    AcceptsExactlySound
    OrderIsTopological
    AnswerIsExact
PROPERTY
    Terminates
