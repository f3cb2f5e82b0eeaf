SPECIFICATION FairSpec
CONSTANTS
    RetryLimit = 100
    AckNumbers = {0, 1, 2}
INVARIANTS TypeOK ExitNamesFailure GivesUpAfterAllRetries RegisterRdyIsTrue
PROPERTIES RegistersOrExits StartShortens
CHECK_DEADLOCK FALSE
