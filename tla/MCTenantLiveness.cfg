SPECIFICATION FairSpec
CONSTANTS
    NEvents = 2
    NStreams = 1
    StreamOf <- MCOneStream
    SegmentSize = 2
    Unarchivable = {1}
    loop = loop
    request = request
    Recoverers = {loop}
    VersionBound = 1
    MaxFaults = 1
PROPERTIES   SealedUnlessFailed
