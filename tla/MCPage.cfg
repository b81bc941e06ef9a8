CONSTANTS
    p1 = p1
    p2 = p2
    Players = {p1, p2}
    Game = Game
    Refusers = {}
    ParamSets <- MCParams
    Configs <- MCConfigs
    Intervals = {0}
    DayBlocks = 8
    MaxBatch = 2
    Genesis = 0
    InitialPool = 0
    U32 = 5
    MaxBlock = 9
    MaxRooms = 1
    MaxDeadline = 1
    PauseValues = {}
    Withdrawals = {}
    IncomingBlocks = 0
    MAX_NUDGES = 2
    Visits <- MCVisits
    Author = p1
CHECK_DEADLOCK FALSE
SPECIFICATION PageFairSpec
INVARIANTS PageTypeOK OffersMatchTheRules AmountsAddUp ClickIsAllOrNothing AsksUntilAnswered
PROPERTY PageCatchesUp
