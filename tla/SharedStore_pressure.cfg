SPECIFICATION Spec
CONSTANTS
    a1 = a1 a2 = a2 a3 = a3 v1 = v1 v2 = v2 w1 = w1 h1 = h1 h2 = h2
    Sources = {a1}
    Victims = {v1, v2}
    Windows = {w1}
    Packets <- TwoVictims
    Handlers = {h1, h2}
    Capacity = 4
    ScanThreshold = 1
    FloodThreshold = 2
    DnsThreshold = 2
    RecentTtl = 1
    CounterTtl = 1
    AlarmTtl = 3
    DnsTtl = 3
    Period = 1
    Delay = 1
    MaxPackets = 2
SYMMETRY Symmetry
INVARIANTS TypeOK AlarmsMeetTheScheduler OnlyPressureEvicts
CHECK_DEADLOCK FALSE
