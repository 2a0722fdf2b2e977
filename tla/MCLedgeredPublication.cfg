SPECIFICATION FairSpec
CONSTANTS
    NEvents = 2
    NTenants = 1
    TenantOf <- MCTenantOf
    PageSize = 1
    BatchSize = 1
    MaxFaults = 1
    MaxCrashes = 1
INVARIANTS TypeOK OnePublisher LoopPublishesUnconfirmed
PROPERTIES IntentsKept ImplementsAtLeastOnce 
