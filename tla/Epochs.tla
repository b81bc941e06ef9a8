------------------------------- MODULE Epochs -------------------------------
(***************************************************************************)
(* The epoch grid: block arithmetic every schedule of the protocol is      *)
(* derived from (contracts/src/libraries/Epochs.sol).  An epoch is a run   *)
(* of epochBlocks blocks counted from the genesis block; its number is a   *)
(* uint32, so it wraps at U32, which instances scale down.                 *)
(***************************************************************************)
EXTENDS Integers

CONSTANT U32    \* the number of values of a uint32: 2^32 on chain

ASSUME U32Assumption == U32 \in Nat /\ U32 > 2

EpochIds == 0 .. (U32 - 1)

(* Applications must close at least 90/100 of an epoch before the launch.  *)
MinLaunchRemainingNum == 90
MinLaunchRemainingDen == 100

(* A mutant: rounds up.                                                    *)
FaultyEpochOf(b, epochBlocks, genesis) ==
    IF epochBlocks = 0 \/ b < genesis
    THEN 0
    ELSE ((b - genesis + epochBlocks - 1) \div epochBlocks) % U32

epochOf(b, epochBlocks, genesis) ==
    IF epochBlocks = 0 \/ b < genesis
    THEN 0
    ELSE ((b - genesis) \div epochBlocks) % U32

epochStart(epochId, epochBlocks, genesis) == genesis + epochId * epochBlocks

minGap(epochBlocks) ==
    LET share == (epochBlocks * MinLaunchRemainingNum) \div MinLaunchRemainingDen
    IN  IF share = 0 THEN 1 ELSE share

(* A mutant: the epoch after the deadline's, however close its boundary.   *)
FaultyLaunchEpochOf(deadlineBlock, epochBlocks, genesis) ==
    epochOf(deadlineBlock, epochBlocks, genesis) + 1

(* The epoch a player's operation flies in.  The first + 1 is checked and  *)
(* reverts at the top of uint32 (see launchEpochFits); the second wraps.   *)
launchEpochOf(deadlineBlock, epochBlocks, genesis) ==
    LET candidate   == epochOf(deadlineBlock, epochBlocks, genesis) + 1
        launchBlock == epochStart(candidate, epochBlocks, genesis)
        tooClose    == \/ launchBlock <= deadlineBlock
                       \/ launchBlock - deadlineBlock < minGap(epochBlocks)
    IN  IF tooClose THEN (candidate + 1) % U32 ELSE candidate

launchEpochFits(deadlineBlock, epochBlocks, genesis) ==
    epochOf(deadlineBlock, epochBlocks, genesis) + 1 < U32

(* The first draw epoch strictly after the current one.                    *)
nextDrawEpoch(b, interval, epochBlocks, genesis) ==
    (epochOf(b, epochBlocks, genesis) \div interval + 1) * interval

(* The latest draw epoch already begun.                                    *)
lastDrawEpoch(b, interval, epochBlocks, genesis) ==
    (epochOf(b, epochBlocks, genesis) \div interval) * interval
=============================================================================
