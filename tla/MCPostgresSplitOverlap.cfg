SPECIFICATION Spec
CONSTANTS
    MaxAdminActions = 2
    SchemaOf <- SchemaOne
    Procs = {p1, p2}
    NEvents = 2
    Workloads <- OverlapWorkloads
    Retries = 1
    MaxFaults = 0
    Overlap = TRUE
SYMMETRY MCSymmetry
PROPERTIES GovernanceKept
CHECK_DEADLOCK FALSE
