SPECIFICATION Spec
CONSTANTS
    RX_BUFS = 3
    Sizes <- MCRejectedSizes
    HostWaits = FALSE
    Limit <- Everything
INVARIANTS TypeOK PanicNeedsTx RepeatsBounded
PROPERTIES InFlightUntouched
\* The host may stop, and panic() never returns.
CHECK_DEADLOCK FALSE
