SPECIFICATION Spec
CONSTANTS
    NumKeys = 2
    Values = {1}
    NumSubkeys = 5
    PageThreshold = 1
    MaxGeneration = 2
    MaxRestarts = 0
    ReaderPages = 1
    Scenarios <- Faultless
CHECK_DEADLOCK FALSE
INVARIANT BuildsValidShape
