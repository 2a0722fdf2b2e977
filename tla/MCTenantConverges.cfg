SPECIFICATION FairSpec
CONSTANTS
    NEvents = 1
    NStreams = 1
    StreamOf <- MCOneStream
    SegmentSize = 2
    Unarchivable = {}
    loop = loop
    request = request
    Recoverers = {loop}
    VersionBound = 1
    MaxFaults = 1
PROPERTIES
    PendingSealed
