CONSTANTS
    Conns = {c1, c2}
    None = None
    SendBuf = 1
    MaxBytes = 3
SPECIFICATION FairSpec
INVARIANTS
    TypeOK
    WriteInterest
PROPERTIES
    PipeSpec
    Delivered
CHECK_DEADLOCK FALSE
