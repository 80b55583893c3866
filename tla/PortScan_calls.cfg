SPECIFICATION OverlapSpec
CONSTANTS
    me = me a1 = a1 noPort = noPort h1 = h1 h2 = h2 h3 = h3
    Sources = {me, a1}
    MyAddress = me
    Ports = {1, 2}
    NoPort = noPort
    Handlers = {h1, h2, h3}
    Packets <- ScannerPackets
    PortsThreshold = 1
    ConnectionsThreshold = 2
    MaxPackets = 4
    MaxLapses = 1
SYMMETRY HandlerSymmetry
INVARIANTS ScanIsReal UnbrokenScanIsFlagged
PROPERTY ScanOnlyWidens
CHECK_DEADLOCK FALSE
