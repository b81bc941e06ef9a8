CONSTANTS
    p1 = p1
    p2 = p2
    Players = {p1, p2}
    Game = Game
    Refusers = {}
    ParamSets <- MCParams
    Configs <- MCConfigs
    Intervals = {0, 2}
    DayBlocks = 8
    MaxBatch = 2
    Genesis = 0
    InitialPool = 3
    U32 = 6
    MaxBlock = 4
    MaxRooms = 2
    MaxDeadline = 2
    PauseValues = {}
    Withdrawals = {}
    Authors = {p1}
    Acting = {p1}
    MaxLeaves = 1
    Leavers = {p2}
    Confirmations = 1
    WindowBlocks = 2
    FromBlock = 0
    LiveReadLimit = 1
    PlayerPastLimit = 1
    Histories <- MCHistories
CHECK_DEADLOCK FALSE
SPECIFICATION IndexerSpec
INVARIANTS FoldIsTheChainReplayed DirectoryTellsTheStatus RoundsAddUp BooksBalance
PROPERTIES ReaderCatchesUp
