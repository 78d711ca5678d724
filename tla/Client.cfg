SPECIFICATION ClientSpec
CONSTANTS
    e1 = e1
    e2 = e2
    Reqs = {r1, r2}
    EPs = {e1, e2}
    Setups <- SafetySetups
    MaxConn = 2
    Threads = {t1, t2}
    Strings <- MCStrings
    Descs <- MCDescs
    ShortNames = {"short"}
    Ports <- MCPorts
    MaxProxy = 2
SYMMETRY Symmetry
CHECK_DEADLOCK FALSE
INVARIANTS FinishedOnce NoOrphan ReturnsResult EndPointAgrees BroadcastCovers ManagerInv
PROPERTY ImplementsRpcCall
