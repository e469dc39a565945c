SPECIFICATION FairSpec
CONSTANTS
    RX_BUFS = 3
    Sizes <- MCSizes
    HostWaits = TRUE
    Limit <- NoReset
PROPERTIES PipeSpec FramesDelivered AnswersDelivered
\* The host may stop, and panic() never returns.
CHECK_DEADLOCK FALSE
