SPECIFICATION FairSpec
CONSTANTS
    RX_BUFS = 3
    Sizes <- MCSizes
    HostWaits = TRUE
    Limit <- Irqs
PROPERTIES AnswersDelivered
\* The host may stop, and panic() never returns.
CHECK_DEADLOCK FALSE
