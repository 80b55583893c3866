SPECIFICATION FairSpec
CONSTANTS
    s1 = s1 s2 = s2 v1 = v1 v2 = v2 h1 = h1 h2 = h2
    Servers = {s1, s2}
    Victims = {v1, v2}
    Handlers = {h1, h2}
    Packets <- TwoWindows
    SizeThreshold = 512
    Threshold = 2
    Window = 10
    MaxPackets = 4
    MaxLapses = 1
INVARIANTS IInv NoPhantomAmplification EachAnswerAddsOnce
PROPERTY AmplificationIsFlagged
CHECK_DEADLOCK FALSE
