SPECIFICATION ReadsSpec
CONSTANTS
    MaxAdminActions = 2
    SchemaOf <- SchemaEach
    Procs = {p1, p2}
    NEvents = 2
    Workloads <- VerifyWorkloads
    Retries = 1
    MaxFaults = 0
    Overlap = FALSE
    Readers = {r1}
    Scenarios <- VerifyScenarios
    PageSize = 1
    MaxActive = 1
    MaxTrail = 1
SYMMETRY MCReadSymmetry
INVARIANTS VerdictSound
CHECK_DEADLOCK FALSE
