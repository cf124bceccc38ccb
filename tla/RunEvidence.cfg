\* Two workers, two runs that share object and correlation, two events, one failure.
SPECIFICATION Spec
CONSTANTS
    w1 = w1
    w2 = w2
    Worker = {w1, w2}
    Run <- TwoRuns
    Shape <- TwinRuns
    e1 = e1
    e2 = e2
    StripeEvent = {e1, e2}
    Content <- Contents
    MaxFailures = 1
    None = None
INVARIANTS
    TypeOK
    LedgerConsistent
    AssertionsAgree
    MatchedExactlyOnce
    AcknowledgedIsDurable
PROPERTY EvidenceOnlyGrows
SYMMETRY Symmetry
CHECK_DEADLOCK FALSE
