SPECIFICATION Spec
CONSTANTS
    Values = {"v1"}
    Lengths <- FrameLengths
    EUI64_LEN = 2
    BUILD_LEN = 3
    Calls = 3
    Faults = 1
    ROUND = 4
    HIGH = 3
    Ticks = 14
    TL = 2
    TH = 2
    EXT = 2
    TRIES = 1
    Wraps = 1
    Pending = 2
    Messages = 4
INVARIANTS CallTookEffect Ep0Safe TimerExact CountExact BurstsAddUp RxWhole
\* The bounds are used up.
CHECK_DEADLOCK FALSE
