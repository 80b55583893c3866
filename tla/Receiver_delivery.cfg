SPECIFICATION FairSpec
CONSTANTS
    Log <- Messages
    MaxCrashes = 1
    MaxRefusals = 1
    MaxRebalances = 1
INVARIANTS IInv NoSilentLoss CommittedIsAccounted RedeliveryMakesNoDocument
PROPERTY EveryPacketSettles
CHECK_DEADLOCK FALSE
