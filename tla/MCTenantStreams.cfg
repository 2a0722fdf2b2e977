SPECIFICATION Spec
CONSTANTS
    NEvents = 2
    NStreams = 2
    StreamOf <- MCTwoStreams
    SegmentSize = 2
    Unarchivable = {}
    loop = loop
    request = request
    Recoverers = {loop}
    VersionBound = 2
    MaxFaults = 2
INVARIANTS SegmentsCover
PROPERTIES ImplementsAuditLedger
