SPECIFICATION FairSpec
CONSTANTS
    Files <- ThreeFiles
    BatchSize = 2
INVARIANTS IInv NoPacketDropped NoPacketTwice
PROPERTY FeedingEnds
CHECK_DEADLOCK FALSE
