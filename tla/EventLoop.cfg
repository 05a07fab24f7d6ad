SPECIFICATION Spec
CONSTANTS
    Callers = {t1, t2}
    LoopThread = io
    Funcs = {f1, f2, f3}
    SockFds = {sock}
    WakeupFd = wakeupFd
    NoThread = NoThread
    NoFunc = NoFunc
    ActiveEventLength = 1
INVARIANTS
    TypeOK
    ExactlyOnce
PROPERTIES
    MailboxSpec
    EveryFunctorRuns
