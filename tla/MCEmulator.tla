----------------------------- MODULE MCEmulator -----------------------------
(* One operation of two players, and the draw its miss may pay for.        *)
EXTENDS EmulatorProps

CONSTANTS p1, p2

Limits(epochBlocks, interval) ==
    [ minPlayers |-> 2, maxPlayers |-> 2, joinFee |-> 1, epochBlocks |-> epochBlocks,
      freeCount |-> 0, maxCount |-> 1, price |-> 2, interval |-> interval, joinWindow |-> 8 ]

MCConfigs ==
    {[minPlayers |-> 2, maxPlayers |-> 2, entryPrice |-> 4, commission |-> 1, prizePool |-> 2]}

(* A fresh chain with long epochs, where a reading can be used; one with   *)
(* short epochs and a pile, where the draws are played.                    *)
MCStarts ==
    { [limits |-> Limits(4, 0), pile |-> 0, rooms |-> 1, lastBlock |-> 9],
      [limits |-> Limits(2, 2), pile |-> 4, rooms |-> 0, lastBlock |-> 6] }

OneRoom == {[limits |-> Limits(4, 0), pile |-> 0, rooms |-> 1, lastBlock |-> 9]}
=============================================================================
