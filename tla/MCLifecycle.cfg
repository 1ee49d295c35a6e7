SPECIFICATION FairSpec
CONSTANTS
    MaxHooks = 2
    Specs <- MixedSpecs
    WatchdogAction = "Exit"
INVARIANTS
    TypeOK
    TierIsolation
    LiveHooksAreWatched
    
PROPERTIES
    StopEnds
