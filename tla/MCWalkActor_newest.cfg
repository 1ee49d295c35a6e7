SPECIFICATION Spec
CONSTANTS
    x = x
    Apps <- MCApps
    InboxSize = 2
    WriterSize = 2
    MaxRequests = 2
    MaxPeers = 2
    MaxMerges = 1
    MaxFailures = 1
    MaxPanics = 1
CHECK_DEADLOCK FALSE
INVARIANT NewestIsPublished
