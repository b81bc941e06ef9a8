CONSTANTS
    p1 = p1
    p2 = p2
    Players = {p1, p2}
    Protocol = Protocol
    StartBalance = 9
    InitialBlock = 0
    Configs <- MCConfigs
    Creators = {p1}
    Rejoins = FALSE
    Starts <- MCStarts
    Rooms = {1}
    Quorum = 2
    MaxDeadline = 1
SPECIFICATION FairSpec
INVARIANTS EscrowHoldsWhatIsOwed ReadingChangesNothing ReloadLosesNoMove UpkeepNeverThrows
PROPERTIES PoolFallsOnlyAtAStart AnOperationIsWhatWasPromised EveryRoomEnds
