SPECIFICATION CallFairSpec
CONSTANTS
    Protocols <- MCProtocols
    MaxItems = 2
    MaxChunks = 5
    MaxRetries = 1
    Histories <- MCHistories
INVARIANTS
    RequestKeepsPairs
    ReplyIsFaithful
PROPERTIES
    ImplementsEventStream
    CallEnds
CHECK_DEADLOCK FALSE
