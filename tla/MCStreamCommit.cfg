SPECIFICATION SourceSpec
CONSTANTS
    v1 = v1
    Viewers <- MCViewers
    PacketsPerSegment = 2
    MaxPending = 2
    PerPage = 2
    PagesPerRecord = 1
    RetransmitSegments = 1
    MaxSegments = 4
    MaxFailures = 2
CHECK_DEADLOCK FALSE
INVARIANTS
    QueueIsTheUncommittedTail
    HintsLeadAlongTheChain
PROPERTIES
    PublishedNeverChanges
