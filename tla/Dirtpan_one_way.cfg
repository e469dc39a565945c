SPECIFICATION Spec
CONSTANTS
    Peer1 = Peer1
    Peer2 = Peer2
    MAX_TRIES = 2
    Sizes <- FullFrames
    Offered <- OneWay
    Late = 2
INVARIANTS TypeOK AckedMeansWritten DiscardedIsRetransmission
PROPERTIES LinkSpec
\* All packets have been handed out.
CHECK_DEADLOCK FALSE
