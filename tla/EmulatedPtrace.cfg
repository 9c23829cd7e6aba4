CONSTANT Sessions <- PassingSessions
SPECIFICATION FairSpec
PROPERTY StopsHonoured
PROPERTY WaitReturns
CHECK_DEADLOCK FALSE
