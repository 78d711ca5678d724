SPECIFICATION Spec
CONSTANTS
    t1 = t1
    t2 = t2
    Threads = {t1, t2}
    MaxSocket = 3
    Fds = {1, 2, 3}
    Loads <- SafetyLoads
SYMMETRY Symmetry
INVARIANTS NoLostCommand SocketsApart Armed StreamIsWhole CallbackOrder BacklogSeen
