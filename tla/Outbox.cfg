\* Two workers, a job and a malformed job, two attempts, two disruptions.
SPECIFICATION FairSpec
CONSTANTS
    w1 = w1
    w2 = w2
    Worker = {w1, w2}
    Message <- TwoMessages
    Malformed <- Last
    MaxAttempts = 2
    MaxDisruptions = 2
    None = None
INVARIANTS
    TypeOK
    FencingSound
    PublishedHasEffect
    DeadLetterJustified
    RetryBudget
PROPERTIES
    SettledOnceByLatestClaim
    EventuallySettled
    ImplementsOutboxContract
CHECK_DEADLOCK FALSE
