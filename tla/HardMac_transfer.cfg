SPECIFICATION Spec
CONSTANTS
    RX_BUFS = 3
    Sizes <- MCSizes
    HostWaits = TRUE
    Limit <- Transfer
INVARIANTS RingNotStranded InOrder
PROPERTIES AnswersMatch
\* The host may stop, and panic() never returns.
CHECK_DEADLOCK FALSE
