CONSTANTS
    p1 = p1
    p2 = p2
    Players = {p1, p2}
    Game = Game
    Refusers = {}
    ParamSets <- MCParams
    Configs <- MCConfigs
    Intervals = {0, 1}
    DayBlocks = 8
    MaxBatch = 2
    Genesis = 0
    InitialPool = 1
    U32 = 5
    MaxBlock = 5
    MaxRooms = 2
    MaxDeadline = 1
    PauseValues = {}
    Withdrawals = {}
    Batch = 1
    SweepBlocks = 3
    Openers = {p1}
    Defending = {p1, p2}
    DefenseBlocks = {3}
    Hitting = {p1}
    Starts <- MCStarts
    Browsers = {"unlockRound", "revealAndResolve", "proveDefenses", "cancelLobby", "expireAttack"}
    Rooms = {1, 2}
SPECIFICATION KeeperFairSpec
INVARIANTS NeverMeansNothingToReveal WakesForEveryDeadline
PROPERTIES KeeperEndsEveryRoom
