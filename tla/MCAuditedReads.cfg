SPECIFICATION ReadsSpec
CONSTANTS
    MaxAdminActions = 2
    SchemaOf <- SchemaOne
    Procs = {p1, p2}
    NEvents = 2
    Workloads <- MCReadWorkloads
    Retries = 1
    MaxFaults = 1
    Overlap = FALSE
    Readers = {r1, r2}
    Scenarios <- MCScenarios
    PageSize = 1
    MaxActive = 1
    MaxTrail = 1
SYMMETRY MCReadSymmetry
INVARIANTS TypeOK EvidenceReachable  ReadsComplete PagesResolve ServedAudited TrailBounded
PROPERTIES GovernanceKept ImplementsAuditLedger
CHECK_DEADLOCK FALSE
