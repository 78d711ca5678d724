SPECIFICATION FairSpec
CONSTANTS
    s1 = s1
    s2 = s2
    a1 = a1
    a2 = a2
    Services = {s1, s2}
    Addrs = {a1, a2}
    Places <- MCPlaces
    Threads = {t1, t2}
    Active = 0
    DbFails = TRUE
    MaxTime = 1
    MaxBeat = 2
INVARIANTS TablesAgree LeftOutIsSilent
PROPERTY BecomesKnown
