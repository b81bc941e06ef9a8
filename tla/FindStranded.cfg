CONSTANTS
    Players = {p1, p2}
    Game = Game
    Refusers = {}
    ParamSets <- ShortParams
    Configs <- FreeConfigs
    Intervals = {0}
    DayBlocks = 8
    MaxBatch = 1
    Genesis = 0
    InitialPool = 0
    U32 = 5
    MaxBlock = 4
    MaxRooms = 2
    MaxDeadline = 1
    PauseValues = {}
    Withdrawals = {}
    Rooms = {1, 2}
SPECIFICATION FairSpec
PROPERTIES EveryRoomEnds
