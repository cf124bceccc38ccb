\* STATE.md's honest status, against a reconnect that meets an error status.
SPECIFICATION Spec
CONSTANTS
    MaxEvents = 2
    BatchSize = 2
    MaxFailures = 1
INVARIANT HonestStatus
CHECK_DEADLOCK FALSE
