SPECIFICATION Spec
CONSTANTS
    v1 = v1
    v2 = v2
    v3 = v3
    v4 = v4
    v5 = v5
    Viewers <- MCViewers
    Source = Source
    MaxRelayChildren = 2
    MaxViewers = 4
    MaxDepth = 6
SYMMETRY ViewerSymmetry
INVARIANTS
    TypeOK
    TreeConsistent
    NoRelayCycle
    RelayCapacityRespected
