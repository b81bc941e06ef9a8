------------------------------- MODULE MCRooms ------------------------------
(***************************************************************************)
(* Two histories that several operations share, explored by one run: two   *)
(* operations of the same wallets on one attack, and the protocol's own    *)
(* draws with no operation but them.  The rules in force say which it is,  *)
(* and stay in force.                                                      *)
(***************************************************************************)
EXTENDS AegylaxProps

CONSTANTS p1, p2

(* A flight of one block, free to enter, every operation with a bounty.    *)
TwoRooms ==
    [ epochBlocks |-> 1, revealGraceBlocks |-> 1, minPlayers |-> 2,
      maxPlayers |-> 2, maxProbesPerPlayer |-> 1, freeProbes |-> 1,
      probePrice |-> 1, protocolJoinFee |-> 0 ]

(* Epochs of two blocks, a draw every second one.                          *)
Draws ==
    [ epochBlocks |-> 2, revealGraceBlocks |-> 1, minPlayers |-> 2,
      maxPlayers |-> 2, maxProbesPerPlayer |-> 1, freeProbes |-> 0,
      probePrice |-> 1, protocolJoinFee |-> 0 ]

MCParams == {TwoRooms, Draws}

MCConfigs ==
    {[ minPlayers |-> 2, maxPlayers |-> 2, entryPrice |-> 0,
       startPrizePool |-> 1, creatorFeeBps |-> 0 ]}

LastOfTwoRooms == 4     \* bound: a flight of one block is long over by then

OneHistory ==
    IF store.params = TwoRooms
    THEN store.interval = 0 /\ ~store.paused /\ block <= LastOfTwoRooms
    ELSE \A l \in LobbyIds : lobbyOf(l).creator = Game

SameRules == store'.params = store.params
=============================================================================
