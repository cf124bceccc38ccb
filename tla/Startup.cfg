\* An old API process, two new ones and a worker with an edited file; two faults, three seeds.
SPECIFICATION FairSpec
CONSTANTS
    old = old
    new = new
    twin = twin
    worker = worker
    Process = {old, new, twin, worker}
    Api = {old, new, twin}
    Checksum = {"schema", "floor", "edited"}
    Files <- Releases
    FloorAt = 2
    Seeds = 3
    FloorLiteral = 3
    MaxNumber = 5
    MaxFaults = 2
    None = None
INVARIANTS
    TypeOK
    ServesOwnSchema
PROPERTIES
    FloorProtectsSeeds
    EventuallyUp
CHECK_DEADLOCK FALSE
