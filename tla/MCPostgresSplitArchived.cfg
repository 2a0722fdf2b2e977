SPECIFICATION Spec
CONSTANTS
    MaxAdminActions = 2
    SchemaOf <- SchemaOne
    Procs = {p1, p2}
    NEvents = 2
    Workloads <- ArchiveWorkloads
    Retries = 1
    MaxFaults = 1
    Overlap = FALSE
SYMMETRY MCSymmetry
INVARIANTS EvidenceReadable
CHECK_DEADLOCK FALSE
