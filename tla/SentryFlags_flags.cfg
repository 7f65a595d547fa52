SPECIFICATION FairSpec
CONSTANTS
    Jobs <- SomeJobs
    MaxSignals = 2
CHECK_DEADLOCK FALSE
INVARIANT TypeOK
INVARIANT Exclusion
INVARIANT GuardedFlagKept
PROPERTY CommandsEnd
