CONSTANTS
    p1 = p1
    p2 = p2
    Players = {p1, p2}
    Game = Game
    Refusers = {}
    ParamSets <- MCParams
    Configs <- MCConfigs
    Intervals = {0}
    DayBlocks = 8
    MaxBatch = 2
    Genesis = 0
    InitialPool = 0
    U32 = 5
    MaxBlock = 9
    MaxRooms = 1
    MaxDeadline = 1
    PauseValues = {FALSE}
    Withdrawals = {1}
    Quorum = 2
SPECIFICATION Spec
SYMMETRY Symmetry
INVARIANTS TypeOK Solvent ReadingCostsTime CrownIsEarliest
PROPERTIES NoMoveAfterUnlock VerdictIsFinal AnOperationIsWhatWasPromised
