------------------------------ MODULE MCKeeper ------------------------------
(* One operation, free to enter, a player's or the protocol's draw, and a   *)
(* keeper that may meet one incident.                                      *)
EXTENDS KeeperProps, TLC

CONSTANTS p1, p2

MCParams ==
    {[ epochBlocks |-> 2, revealGraceBlocks |-> 1, minPlayers |-> 2,
       maxPlayers |-> 2, maxProbesPerPlayer |-> 1, freeProbes |-> 1,
       probePrice |-> 0, protocolJoinFee |-> 0 ]}

MCConfigs ==
    {[ minPlayers |-> 2, maxPlayers |-> 2, entryPrice |-> 0,
       startPrizePool |-> 0, creatorFeeBps |-> 0 ]}

(* One thing may happen to a player's operation, nothing to the draws.     *)
MCStarts == {[interval |-> 0, incidents |-> 1], [interval |-> 1, incidents |-> 0]}
TwoIncidents == {[interval |-> 0, incidents |-> 2]}
=============================================================================
