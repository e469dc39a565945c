SPECIFICATION FairSpec
CONSTANTS
    Peer1 = Peer1
    Peer2 = Peer2
    MAX_TRIES = 2
    Sizes <- LastShort
    Offered <- BothWays
    Late = 1
INVARIANTS NoAssertFails
PROPERTIES AllTaken
\* All packets have been handed out.
CHECK_DEADLOCK FALSE
