SPECIFICATION FairFatesSpec
CONSTANTS
    ip1 = ip1 d1 = d1 p1 = p1 p2 = p2 r1 = r1 r2 = r2
    Addresses = {ip1}
    Details = {d1}
    Times = {0, 1, 2}
    Raisable <- EveryKind
    Raisers = {p1, p2}
    Runs = {r1, r2}
    MaxRaised = 2
    MaxLapses = 1
    MaxFailures = 1
    MaxRestarts = 1
INVARIANTS IInv NothingForgotten NoDuplicateDocs OpenIsInHand
PROPERTIES KeepsPromise EveryAlarmIsSaved
CHECK_DEADLOCK FALSE
