CONSTANTS
    U32 = 8
    Grids <- MCGrids
    LastDeadline = 80
SPECIFICATION ScheduleSpec
CHECK_DEADLOCK FALSE
INVARIANTS FirstRoomyEpoch BothCopiesAgree
