SPECIFICATION FairSpec
CONSTANTS
    NumMessages = 2
    Awaited = {1}
    PairLimit = 1
    CandidatesPerWalk = 2
    ReaderLimit = 2
    MaxFaults = 2
CHECK_DEADLOCK FALSE
INVARIANTS
    TypeOK
    OutboxMatchesOutgoing
PROPERTIES
    
    AcceptedIsDelivered
    ExpiredIsTakenDown
