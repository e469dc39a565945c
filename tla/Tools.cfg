SPECIFICATION Spec
CONSTANTS
    IRQS = {r, e}
    Raises = 3
    N_CHAN = 2
    SWEEPS = 2
    SEQ = 2
    Times = 2
    PORTS = {p, q}
    POINTERS = {m1, m2, m3, m4}
    PLUGS = 1
INVARIANTS WakeupPending RightWave DecisionRight SentAsAsked
PROPERTIES WaitReturns PingGoesOn DeviceFound
\* The programs end, and the bounds are used up.
CHECK_DEADLOCK FALSE
