SPECIFICATION Spec
CONSTANTS
    t1 = t1
    t2 = t2
    Threads = {t1, t2}
    MaxSocket = 2
    Fds = {1}
    Loads <- ReuseLoads
INVARIANT IdleIsUnused
