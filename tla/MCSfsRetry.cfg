SPECIFICATION RetrySpec
CONSTANT MaxTries = 10
CHECK_DEADLOCK FALSE
INVARIANT SuccessIsDone
