SPECIFICATION Spec
CONSTANTS
    Threads = {t1, t2, t3}
    MaxSocket = 3
    MaxId = 3
    MaxConnects = 1
    MaxEarly = 1
SYMMETRY Symmetry
INVARIANTS Exclusive HashInRange NullMeansTaken
