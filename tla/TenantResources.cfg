\* Three requests on one table, whichever it is, three environments, two runs that arrive meanwhile, two faults.
SPECIFICATION FairSpec
CONSTANTS
    Request <- Requests
    sandbox = sandbox
    local = local
    staging = staging
    Environment = {local, sandbox, staging}
    Selected = sandbox
    Run <- Runs
    Failed <- OneRun
    MaxFaults = 2
    None = None
INVARIANTS
    TypeOK
    OneDefault
    RefusedBehindAnother
    AcknowledgedIsKept
PROPERTY RequestsAnswered
ACTION_CONSTRAINT Contending
CHECK_DEADLOCK FALSE
