CONSTANTS
    MaxChunks = 2
    MaxPackets = 3
SPECIFICATION FairSpec
INVARIANTS TypeOK ExecutedInOrder NoEventLost  ClosedOnReturn
PROPERTIES LeavesForAReason SessionEnds
CHECK_DEADLOCK FALSE
