\* Two clients of every kind, two requests each, both programs.
SPECIFICATION Spec
CONSTANTS
    Clients = {c1, c2}
    RequestLen = 2
    ReplyLen = 2
    ReadMax = 3
    MaxRequests = 2
CHECK_DEADLOCK FALSE
INVARIANTS
    TypeOK
    EchoConserves
    Survives
PROPERTIES
    RequestReplySpec
    EveryRequestAnswered
