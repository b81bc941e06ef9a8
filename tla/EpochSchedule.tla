---------------------------- MODULE EpochSchedule ---------------------------
(***************************************************************************)
(* The launch rule of Epochs, tried on every deadline of a grid in turn    *)
(* and compared with what it is for: the first boundary that leaves the    *)
(* closed operation its share of an epoch.                                 *)
(***************************************************************************)
EXTENDS Epochs

CONSTANTS
    Grids,          \* the [epochBlocks, genesis] pairs tried
    LastDeadline    \* bound: the last deadline tried

ASSUME GridsAssumption ==
    /\ Grids \subseteq [epochBlocks : Nat \ {0}, genesis : Nat]
    /\ LastDeadline \in Nat

VARIABLES grid, deadline

scheduleVars == <<grid, deadline>>

ScheduleInit == grid \in Grids /\ deadline = 0

NextDeadline ==
    /\ deadline < LastDeadline
    /\ deadline' = deadline + 1
    /\ UNCHANGED grid

ScheduleSpec == ScheduleInit /\ [][NextDeadline]_scheduleVars

ScheduleTypeOK ==
    /\ grid \in [epochBlocks : Nat \ {0}, genesis : Nat]
    /\ deadline \in Nat

-----------------------------------------------------------------------------
boundary(e) == epochStart(e, grid.epochBlocks, grid.genesis)

roomy(e) == boundary(e) - deadline >= minGap(grid.epochBlocks)

launch == launchEpochOf(deadline, grid.epochBlocks, grid.genesis)

(* Epoch numbers have not reached the top of uint32: the deadline's own    *)
(* epoch is two below it.                                                  *)
representable ==
    deadline < grid.genesis + grid.epochBlocks * (U32 - 2)

(* An operation flies in the first epoch whose start leaves at least 90%   *)
(* of an epoch after applications close: no earlier one would, and none is *)
(* skipped needlessly.                                                     *)
FirstRoomyEpoch ==
    representable =>
        /\ launch \in EpochIds \ {0}
        /\ roomy(launch)
        /\ \A e \in EpochIds \ {0} : roomy(e) => launch <= e

Browser == INSTANCE GameClock

(* The browser works the launch epoch out for itself before a deadline is  *)
(* signed (game/epochs.ts:25: "the two copies have to agree"), in other    *)
(* integers and with another rounding.                                     *)
BothCopiesAgree ==
    representable /\ deadline >= grid.genesis =>
        launch = Browser!launchEpochOf(deadline, grid.epochBlocks, grid.genesis)
=============================================================================
