\* Two timers; the widths are scaled down, so that the time is past the narrow one, as
\* it is today.
CONSTANTS
    Timers = {t1, t2}
    Intervals = {30, 300}
    Start = 100
    Tick = 20
    MaxTime = 180
    Narrow = 64
    Wide = 1024
SPECIFICATION Spec
PROPERTIES
    ExpiryHandled
CHECK_DEADLOCK FALSE
