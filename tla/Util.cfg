SPECIFICATION MCSpec
CONSTANTS
    Keys = {k1, k2}
    Threads = {t1, t2}
    Timeout = 2
    MaxTime = 5
    TimerIds = 3
    Durations = {0, 1, 2}
    TimerEnd = 3
    Joins <- SomeJoins
    Configs = {"c1", "c2"}
    Handles = {1, 2}
    Capacity = 5
    MaxLen = 7
    Lens = {0, 3, 4}
    MaxPackets = 2
    MaxConns = 2
    MaxFile = 3
    MaxSize = 3
    LineSizes = {1, 2, 4}
    RollReopen = 1
    RollEnd = 2
    RollLines = 6
    MaxKill = 1
    RollFails = 1
    Period = 3
    DayReopen = 1
    Skew = 2
    DayEnd = 6
    DayLines = 4
    DayFails = 1
SYMMETRY Symmetry
CHECK_DEADLOCK FALSE
INVARIANTS MapIsList LateByDelay
           TimersFire TextIsTree StatementsArrive PacketsArrive FilesKeepLines TextsSurvive PathsLead
