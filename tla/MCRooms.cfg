CONSTANTS
    p1 = p1
    p2 = p2
    Players = {p1, p2}
    Game = Game
    Refusers = {p2}
    ParamSets <- MCParams
    Configs <- MCConfigs
    Intervals = {0, 2}
    DayBlocks = 8
    MaxBatch = 2
    Genesis = 0
    InitialPool = 3
    U32 = 10
    MaxBlock = 7
    MaxRooms = 2
    MaxDeadline = 1
    PauseValues = {FALSE}
    Withdrawals = {}
SPECIFICATION Spec
CONSTRAINT OneHistory
ACTION_CONSTRAINT SameRules
INVARIANTS OneFate InterceptionsCountedOnce OrdinaryWritesGoThrough DrawsKeepTheCalendar
PROPERTIES PoolFallsOnlyAtAStart
