------------------------------ MODULE MCEpochs ------------------------------
(* Every grid of up to twelve blocks an epoch, from three genesis blocks.  *)
EXTENDS EpochSchedule

MCGrids == [epochBlocks : 1 .. 12, genesis : {0, 1, 5}]
=============================================================================
