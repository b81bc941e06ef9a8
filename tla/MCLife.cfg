CONSTANTS
    Players = {p1, p2}
    Game = Game
    Refusers = {}
    ParamSets <- MCParams
    Configs <- MCConfigs
    Intervals = {0, 2}
    DayBlocks = 8
    MaxBatch = 1
    Genesis = 0
    InitialPool = 3
    U32 = 8
    MaxBlock = 7
    MaxRooms = 1
    MaxDeadline = 1
    PauseValues = {TRUE}
    Withdrawals = {}
    Rooms = {1}
SPECIFICATION LifeSpec
PROPERTIES EveryRoomEnds EveryWeiLeaves
