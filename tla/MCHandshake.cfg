SPECIFICATION Spec
CONSTANTS
    a = a
    b = b
    Peers <- MCPeers
    MaxRetries = 1
    MaxReplays = 1
    MaxResets = 1
    Quarantine = 1
    RestartAfter = 2
    MaxFresh = 2
    MaxEvents = 3
SYMMETRY PeerSymmetry
CHECK_DEADLOCK FALSE
INVARIANTS
    TypeOK
    KeyAgreement
    QuietInQuarantine
PROPERTIES
    HalfOpenHeals
