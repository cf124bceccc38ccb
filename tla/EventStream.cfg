\* One page, up to five events in batches of two, two failures.
SPECIFICATION FairSpec
CONSTANTS
    MaxEvents = 5
    BatchSize = 2
    MaxFailures = 2
INVARIANTS TypeOK ResumesExactly LedgerPrefix CompleteAfterReplay
PROPERTY EveryEventShown
CHECK_DEADLOCK FALSE
