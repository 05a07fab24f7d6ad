CONSTANTS
    Null = Null
    MaxThreads = 3
    MaxStarts = 2
    MaxConns = 3
SPECIFICATION FairSpec
INVARIANTS
    TypeOK
    ReadyBeforeUse
    Balanced
PROPERTIES
    StartReturns
CHECK_DEADLOCK FALSE
