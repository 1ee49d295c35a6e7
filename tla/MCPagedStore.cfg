SPECIFICATION Spec
CONSTANTS
    NumKeys = 2
    Values = {1}
    NumSubkeys = 5
    PageThreshold = 1
    MaxGeneration = 3
    MaxRestarts = 1
    ReaderPages = 1
    Scenarios <- AloneOrRead
CHECK_DEADLOCK FALSE
INVARIANTS
    TypeOK
    FoundWhereStored
    ForeignSeesOneGeneration
    
PROPERTIES
    ImplementsAtomicStore
