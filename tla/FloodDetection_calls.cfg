SPECIFICATION FairOverlapSpec
CONSTANTS
    a1 = a1 a2 = a2 a3 = a3 v1 = v1 h1 = h1 h2 = h2 h3 = h3
    Sources = {a1, a2, a3}
    Victims = {v1}
    Handlers = {h1, h2, h3}
    Packets <- EchoPackets
    Threshold = 2
    MaxPackets = 3
    MaxLapses = 1
    MaxRestarts = 1
INVARIANTS IInv ExactUnlessOverlapped
PROPERTIES KeepsPromise FirstAlarmStands FloodIsFlagged
CHECK_DEADLOCK FALSE
