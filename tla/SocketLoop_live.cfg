SPECIFICATION FairSpec
CONSTANTS
    t1 = t1
    t2 = t2
    Threads = {t1, t2}
    MaxSocket = 3
    Fds = {1, 2}
    Loads <- LiveLoads
PROPERTY CommandsEnd
