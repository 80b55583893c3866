SPECIFICATION SpecAtOnce
CONSTANTS
    a1 = a1 a2 = a2 a3 = a3 v1 = v1 v2 = v2 w1 = w1 h1 = h1 h2 = h2
    Sources = {a1, a2, a3}
    Victims = {v1}
    Windows = {w1}
    Packets <- OneVictim
    Handlers = {h1}
    Capacity = 9
    ScanThreshold = 0
    FloodThreshold = 2
    DnsThreshold = 1
    RecentTtl = 1
    CounterTtl = 1
    AlarmTtl = 2
    DnsTtl = 2
    Period = 1
    Delay = 0
    MaxPackets = 4
SYMMETRY SymmetrySources
INVARIANTS FloodSurvivesItsSources
CHECK_DEADLOCK FALSE
