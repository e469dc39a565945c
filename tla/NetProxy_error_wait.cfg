SPECIFICATION FairSpec
CONSTANTS
    Worker = Worker
    Second = Second
    Clients <- Alone
    Calls <- AloneCalls
    Fails = 1
    Irqs = 0
PROPERTY ErrorEndsWait
\* Programs end, or sit still.
CHECK_DEADLOCK FALSE
