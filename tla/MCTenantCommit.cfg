SPECIFICATION Spec
CONSTANTS
    NEvents = 2
    NStreams = 1
    StreamOf <- MCOneStream
    SegmentSize = 2
    Unarchivable = {1}
    loop = loop
    request = request
    Recoverers = {loop, request}
    VersionBound = 2
    MaxFaults = 2
INVARIANTS TypeOK  ChainContiguous ReportedDurable JournalRecoverable EvidenceReachable SegmentsCover AttestedDurable
PROPERTIES ImplementsAuditLedger
