SPECIFICATION FairSpec
CONSTANTS
    Apis = {"api"}
    Workers = {"worker"}
    Jobs = {1, 2, 3, 4}
    TenantOf <- MCTenantOf
    Holds = {"h"}
    HoldTenant <- MCHoldTenant
    Covers <- MCCovers
    Workloads <- MCWorkloads
    PageSize = 1
    ExportConcurrency = 2
    ExportTenantConcurrency = 1
    MaxPendingExports = 2
    MaxPendingExportsPerTenant = 2
INVARIANTS TypeOK CapacityKept PublishedIsSealed
PROPERTIES TerminalFinal SelectionKept HoldGate 
CHECK_DEADLOCK FALSE
