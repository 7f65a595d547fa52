SPECIFICATION FairSpec
CONSTANTS
    StreamLimit = 3
    MaxDoubled = 2
CHECK_DEADLOCK FALSE
INVARIANT TypeOK
INVARIANT NoCommandLost
INVARIANT PromptReachesUser
PROPERTY LoginSucceeds
PROPERTY ThreadEnds
