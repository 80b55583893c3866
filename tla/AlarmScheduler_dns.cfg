SPECIFICATION Spec
CONSTANTS
    ip1 = ip1 d1 = d1 d2 = d2 p1 = p1 r1 = r1
    Addresses = {ip1}
    Details = {d1, d2}
    Times = {0, 1, 2, 10}
    Raisable <- TwoServers
    Raisers = {p1}
    Runs = {r1}
    MaxRaised = 2
    MaxLapses = 0
    MaxFailures = 0
    MaxRestarts = 0
INVARIANT SavedStaysFindable
CHECK_DEADLOCK FALSE
