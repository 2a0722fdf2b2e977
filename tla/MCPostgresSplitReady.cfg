SPECIFICATION Spec
CONSTANTS
    MaxAdminActions = 2
    SchemaOf <- SchemaOne
    Procs = {p1, p2}
    NEvents = 2
    Workloads <- ReadyWorkloads
    Retries = 1
    MaxFaults = 0
    Overlap = FALSE
SYMMETRY MCSymmetry
PROPERTIES ReadyStays
CHECK_DEADLOCK FALSE
