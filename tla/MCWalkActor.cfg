SPECIFICATION FairSpec
CONSTANTS
    x = x
    Apps <- MCApps
    InboxSize = 2
    WriterSize = 2
    MaxRequests = 3
    MaxPeers = 1
    MaxMerges = 1
    MaxFailures = 1
    MaxPanics = 1
CHECK_DEADLOCK FALSE
INVARIANTS
    TypeOK
    
    OneProducerPublishesNewest
PROPERTIES
    ShutdownEnds
    QueuedSearchEnds
