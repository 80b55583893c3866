SPECIFICATION Spec
CONSTANTS
    s1 = s1 h1 = h1 h2 = h2
    Sources = {s1}
    Handlers = {h1, h2}
    Packets <- SmallAndLarge
    WindowSize = 5
    SizeThreshold = 2
    RateThreshold = 3
    MaxPackets = 7
SYMMETRY HandlerSymmetry
INVARIANTS TypeOK SumsAreSound SizeAlarmNeedsHistory NoRateAlarmBeforeExpiry EveryPacketIsRated
CHECK_DEADLOCK FALSE
