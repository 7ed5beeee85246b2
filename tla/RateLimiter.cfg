SPECIFICATION Spec
CONSTANTS
    ip1 = ip1
    ip2 = ip2
    IPs = {ip1, ip2}
    Width <- MCWidth
    Limit <- MCLimit
    Cleanup = 2
    MaxTime = 7
SYMMETRY Symmetry
INVARIANTS WindowBound RefusedOnlyWhenFull QuietClientsForgotten
