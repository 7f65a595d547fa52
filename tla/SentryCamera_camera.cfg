SPECIFICATION FairSpec
CONSTANTS
    ThreadLimit = 3
INVARIANT TypeOK
INVARIANT OneMoreVideo
PROPERTY EvidenceKept
PROPERTY SuspendObeyed
PROPERTY LongVideoEnds
PROPERTY TakeServed
