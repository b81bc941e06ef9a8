------------------------------ MODULE GameClock -----------------------------
(***************************************************************************)
(* The block arithmetic the browser does for itself: game/epochs.ts and    *)
(* game/globalDefense.ts.  It is written a second time, apart from the     *)
(* contract's (module Epochs), in unbounded integers that round down.      *)
(***************************************************************************)
EXTENDS Integers

getEpochFromBlock(b, epochBlocks, genesis) == (b - genesis) \div epochBlocks

getEpochStartBlock(e, epochBlocks, genesis) == genesis + e * epochBlocks

getNextAttackBlock(b, epochBlocks, genesis) ==
    getEpochStartBlock(getEpochFromBlock(b, epochBlocks, genesis) + 1, epochBlocks, genesis)

atLeastOne(n) == IF n < 1 THEN 1 ELSE n

minLaunchGap(epochBlocks) == atLeastOne((epochBlocks * 90) \div 100)

(* A mutant: a gap of exactly nine tenths is taken for too small.          *)
FaultyLaunchEpochOf(deadline, epochBlocks, genesis) ==
    LET candidate == getEpochFromBlock(deadline, epochBlocks, genesis) + 1
        gap       == getEpochStartBlock(candidate, epochBlocks, genesis) - deadline
    IN  IF gap <= minLaunchGap(epochBlocks) THEN candidate + 1 ELSE candidate

launchEpochOf(deadline, epochBlocks, genesis) ==
    LET candidate == getEpochFromBlock(deadline, epochBlocks, genesis) + 1
        gap       == getEpochStartBlock(candidate, epochBlocks, genesis) - deadline
    IN  IF gap < minLaunchGap(epochBlocks) THEN candidate + 1 ELSE candidate

-----------------------------------------------------------------------------
(* A deadline chosen as a moment becomes a block, with whatever the client *)
(* measured a block to last; never the current block.                      *)
deadlineBlockOf(now, deadlineMs, blockNumber, blockTime) ==
    LET ahead == IF deadlineMs > now THEN deadlineMs - now ELSE 0
    IN  blockNumber + atLeastOne((ahead + atLeastOne(blockTime) - 1) \div atLeastOne(blockTime))

predictAttackEpoch(now, deadlineMs, blockNumber, epochBlocks, genesis, blockTime) ==
    launchEpochOf(deadlineBlockOf(now, deadlineMs, blockNumber, blockTime), epochBlocks, genesis)

-----------------------------------------------------------------------------
(* The window a Global Defense draw takes applications in, from the day    *)
(* (preferred, in blocks) or half of an interval shorter than a day.       *)
globalDefenseJoinWindowBlocks(interval, epochBlocks, preferred) ==
    LET intervalBlocks == interval * epochBlocks IN
    IF intervalBlocks < preferred
    THEN atLeastOne((intervalBlocks + 1) \div 2)
    ELSE IF preferred < atLeastOne(intervalBlocks - 1)
         THEN preferred
         ELSE atLeastOne(intervalBlocks - 1)

globalDefenseSchedule(epoch, interval, epochBlocks, genesis, preferred) ==
    LET nextEpoch == (epoch \div interval + 1) * interval
        deadline  == getEpochStartBlock(nextEpoch, epochBlocks, genesis) - 1
        opens     == deadline - globalDefenseJoinWindowBlocks(interval, epochBlocks, preferred)
    IN  [ nextEpoch |-> nextEpoch, deadlineBlock |-> deadline,
          openFromBlock |-> IF opens < 0 THEN 0 ELSE opens ]

isInGlobalDefenseJoinWindow(schedule, b) ==
    schedule.openFromBlock <= b /\ b < schedule.deadlineBlock
=============================================================================
