SPECIFICATION Spec
CONSTANTS
    e1 = e1
    e2 = e2
    Reqs = {r1}
    EPs = {e1, e2}
    Setups <- SyncSetups
    MaxConn = 2
CHECK_DEADLOCK FALSE
INVARIANT CloseReadsLiveRequest
