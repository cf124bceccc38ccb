\* Progress through lock waits and deadlocks, for a duplicated and an untouched delivery.
SPECIFICATION FairSpec
CONSTANTS
    w1 = w1
    w2 = w2
    Worker = {w1, w2}
    Run <- TwoRuns
    Shape <- RetriedFaults
    e1 = e1
    e2 = e2
    StripeEvent = {e1}
    Content <- Matching
    MaxFailures = 1
    None = None
INVARIANT VerdictIndependentOfRetries
PROPERTY EvidenceArrives
CHECK_DEADLOCK FALSE
