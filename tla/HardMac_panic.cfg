SPECIFICATION Spec
CONSTANTS
    RX_BUFS = 3
    Sizes <- MCSizes
    HostWaits = TRUE
    Limit <- NoReset
INVARIANTS NoPanic
\* The host may stop, and panic() never returns.
CHECK_DEADLOCK FALSE
