SPECIFICATION Spec
CONSTANTS
    Events <- MCEvents
    Relays = {"r1", "r2"}
    BatchSize = 2
    RelayAttempts = 2
    NoId = "noid"
    NoTenant = "notenant"
    AttemptCap = 2
    Procs = {"daemon", "once"}
    Daemons = {"daemon"}
    MaxRecords = 2
    PageSize = 1
    Sweeps = 2
    Workloads <- MCWorkloads
    MaxPublished = 2
INVARIANTS TypeOK NothingDropped DecisionsMarked
PROPERTY EventuallySettled
CHECK_DEADLOCK FALSE
