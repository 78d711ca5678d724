SPECIFICATION FairSpec
CONSTANTS
    e1 = e1
    e2 = e2
    Reqs = {r1, r2}
    EPs = {e1, e2}
    Setups <- LiveSetups
    MaxConn = 1
CHECK_DEADLOCK FALSE
PROPERTY CallsComplete
