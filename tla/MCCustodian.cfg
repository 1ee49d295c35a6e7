SPECIFICATION Spec
CONSTANTS
    Recipient <- MCRecipient
    Sender <- MCSender
    Message <- OneOverflow
    Brief <- MCBrief
    ToOf <- MCToOf
    FromOf <- MCFromOf
    InlineLimit = 1
    DemoteLimit = 1
    SenderQuota = 2
    PairQuota = 2
    RecipientQuota = 2
    RecordQuota = 2
    MaxOverflow = 2
    MaxRecords = 2
    MaxFailures = 1
    MaxRestarts = 1
    MaxRepairs = 1
CHECK_DEADLOCK FALSE
INVARIANTS
    TypeOK
    QuotaExact
PROPERTIES
    
    HeldIsReadable
