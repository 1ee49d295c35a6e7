SPECIFICATION FairSpec
CONSTANTS
    v = v
    Viewers <- OnlyViewer
    Viewer = v
    PacketsPerSegment = 1
    MaxPending = 1
    PerPage = 1
    PagesPerRecord = 1
    RetransmitSegments = 1
    MaxSegments = 2
    MaxFailures = 1
    Window = 0
    Ahead = 1
    MaxVerifiers = 1
    MaxAltered = 1
CHECK_DEADLOCK FALSE
INVARIANTS
    ViewerTypeOK
    DataOnce
    VerifiedWithoutGap
    ChainNeverBreaks

    
