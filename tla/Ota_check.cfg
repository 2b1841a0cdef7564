CONSTANTS
    Images <- MCImages
    BadImages <- MCBadImages
    Chunks = 2
    Length <- MCLength
    QUEUE_MAX = 1
    MaxAnnouncements = 3
SPECIFICATION FairSpec
INVARIANT DigestFollowsChannel
INVARIANT CallbackVerifiedIsFlashed
PROPERTY PerformEnds
