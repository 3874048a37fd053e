SPECIFICATION FairSpec
CONSTANTS
    MaxCalls = 2
    MaxChunks = 1
    MaxForeign = 1
INVARIANTS ShowsOwnOutput AnswerIsWhole
PROPERTIES AnsweredCallEnds
CHECK_DEADLOCK FALSE
