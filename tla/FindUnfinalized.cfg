CONSTANTS
    p1 = p1
    p2 = p2
    Players = {p1, p2}
    Game = Game
    Refusers = {}
    ParamSets <- MCParams
    Configs <- MCConfigs
    Intervals = {0, 1}
    DayBlocks = 8
    MaxBatch = 2
    Genesis = 0
    InitialPool = 1
    U32 = 5
    MaxBlock = 5
    MaxRooms = 1
    MaxDeadline = 1
    PauseValues = {}
    Withdrawals = {}
    Batch = 2
    SweepBlocks = 3
    Openers = {p1}
    Defending = {p1}
    DefenseBlocks = {2, 3}
    Hitting = {p1}
    Starts <- TwoIncidents
    Browsers = {"unlockRound", "revealAndResolve", "proveDefenses", "cancelLobby", "expireAttack"}
    Rooms = {1}
SPECIFICATION KeeperSpec
INVARIANT NeverMeansNothingLeft
