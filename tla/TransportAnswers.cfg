\* Every call, in any order, on one path.
CONSTANT MaxRetries = 2
SPECIFICATION TransportFairSpec
INVARIANTS AnswerIsTrue
PROPERTIES NotFoundIsTrue GoneIsReported
CHECK_DEADLOCK FALSE
