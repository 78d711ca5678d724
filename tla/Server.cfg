SPECIFICATION MCSpec
CONSTANTS
    Procs = {p1, p2, p3}
    OtherUser = {p3}
    OneAtATime = TRUE
    MaxSignal = 2
    Threads = {t1, t2}
    MaxLine = 2
CHECK_DEADLOCK FALSE
INVARIANTS PidFileInv LinesInv
PROPERTIES TermStops LogThreadWorks
