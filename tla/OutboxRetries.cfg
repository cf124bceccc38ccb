\* THREAT_MODEL.md's bounded retries, against a worker that dies while it holds a job.
SPECIFICATION Spec
CONSTANTS
    w1 = w1
    w2 = w2
    Worker = {w1, w2}
    Message <- OneMessage
    Malformed <- NoMessage
    MaxAttempts = 2
    MaxDisruptions = 2
    None = None
INVARIANT BoundedRetries
CHECK_DEADLOCK FALSE
