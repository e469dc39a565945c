SPECIFICATION FairSpec
CONSTANTS
    Worker = Worker
    Second = Second
    Clients <- Both
    Calls <- WorkerCalls
    Fails = 1
    Irqs = 1
INVARIANTS KilledHalfWay
PROPERTIES OwnReply  CallReturns NextClientServed
\* Programs end, or sit still.
CHECK_DEADLOCK FALSE
