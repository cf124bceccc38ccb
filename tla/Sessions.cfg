\* Two handlers, one account tried from three addresses, a map of two buckets, one failure allowed in a window of two ticks, two tokens, two faults.
SPECIFICATION FairSpec
CONSTANTS
    Handler <- Handlers
    Client <- Clients
    e1 = e1
    Email = {e1}
    Key <- Keys
    Token <- Tokens
    Limit = 1
    MaxBuckets = 2
    Window = 2
    MaxFaults = 2
    None = None
INVARIANTS
    TypeOK
    OverrunBounded
    HandedIsAudited
    LogoutIsFinal
PROPERTY LockoutEnds
ACTION_CONSTRAINT InOrder
CHECK_DEADLOCK FALSE
