\* SLO.md, against a webhook that is processed before its run commits.
SPECIFICATION Spec
CONSTANTS
    w1 = w1
    w2 = w2
    Worker = {w1, w2}
    Run <- OneRun
    Shape <- TwinRuns
    e1 = e1
    e2 = e2
    StripeEvent = {e1}
    Content <- Matching
    MaxFailures = 1
    None = None
INVARIANT NoRunMissed
CHECK_DEADLOCK FALSE
