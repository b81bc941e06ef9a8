------------------------------- MODULE MCLife -------------------------------
(* One operation that must end and pay out: a player's, with no draws      *)
(* beside it, or one of the protocol's own draws.                          *)
EXTENDS AegylaxLiveness

MCParams ==
    {[ epochBlocks |-> 2, revealGraceBlocks |-> 1, minPlayers |-> 2,
       maxPlayers |-> 2, maxProbesPerPlayer |-> 1, freeProbes |-> 1,
       probePrice |-> 1, protocolJoinFee |-> 0 ]}

MCConfigs ==
    {[ minPlayers |-> 2, maxPlayers |-> 2, entryPrice |-> 2,
       startPrizePool |-> 3, creatorFeeBps |-> 5000 ]}

(* For two operations: a flight of one block, nothing to buy.              *)
ShortParams ==
    {[ epochBlocks |-> 1, revealGraceBlocks |-> 1, minPlayers |-> 2,
       maxPlayers |-> 2, maxProbesPerPlayer |-> 1, freeProbes |-> 1,
       probePrice |-> 0, protocolJoinFee |-> 0 ]}

FreeConfigs ==
    {[ minPlayers |-> 2, maxPlayers |-> 2, entryPrice |-> 1,
       startPrizePool |-> 0, creatorFeeBps |-> 0 ]}

(* A cadence keeps the players' operations away, and its absence the draws.*)
OneKind == store.interval = 0 \/ \A l \in LobbyIds : lobbyOf(l).creator = Game

LifeSpec ==
    /\ Init /\ [][Next /\ store'.interval = store.interval /\ OneKind']_vars
    /\ WF_vars(Tick) /\ \A l \in Rooms : sweptByAnybody(l) /\ claimedByItsOwners(l)
=============================================================================
