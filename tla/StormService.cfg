SPECIFICATION FairSpec
CONSTANTS
    i1 = i1
    i2 = i2
    w1 = w1
    w2 = w2
    Ids = {i1, i2}
    Workers = {w1, w2}
    MaxConnections = 1
    MaxQueueLen = 1
    Loads <- MCLoads
INVARIANTS QueueInv TimeoutsCover HeardInOrder AnswersInOrder HandlesWhileUp
PROPERTY PacketsTaken
CHECK_DEADLOCK FALSE
