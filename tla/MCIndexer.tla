------------------------------ MODULE MCIndexer -----------------------------
(* Operations of one author, priced and with probes, or the protocol's     *)
(* draws; a reader one block behind a chain that may reorganise once.      *)
EXTENDS IndexerProps

CONSTANTS p1, p2

(* Flights of one block: everything priced, no probe to buy, and rules     *)
(* under which no player's operation is valid, so that only draws are.     *)
Priced ==
    [ epochBlocks |-> 1, revealGraceBlocks |-> 1, minPlayers |-> 2,
      maxPlayers |-> 3, maxProbesPerPlayer |-> 1, freeProbes |-> 0,
      probePrice |-> 1, protocolJoinFee |-> 1 ]

Plain == [Priced EXCEPT !.freeProbes = 1, !.protocolJoinFee = 0]

Drawn == [Plain EXCEPT !.maxPlayers = 2]

MCParams == {Priced, Plain, Drawn}

MCConfigs ==
    {[ minPlayers |-> 2, maxPlayers |-> 3, entryPrice |-> 2,
       startPrizePool |-> 0, creatorFeeBps |-> 5000 ]}

WithBounty ==
    {[ minPlayers |-> 2, maxPlayers |-> 3, entryPrice |-> 2,
       startPrizePool |-> 3, creatorFeeBps |-> 0 ]}

(* The whole of a priced operation; a reader that meets an incident and a  *)
(* reorganisation while one fills and starts; the draws and a reader; two  *)
(* operations that end, for a wallet that is told of one; two that are     *)
(* open, for a reader that asks the contract about one.                    *)
MCHistories ==
    {[params |-> Priced, interval |-> 0, rooms |-> 1, events |-> 99, polls |-> {},
      incidents |-> 0, fork |-> 0],
     [params |-> Plain, interval |-> 0, rooms |-> 1, events |-> 5, polls |-> {3, 4},
      incidents |-> 1, fork |-> 2],
     [params |-> Drawn, interval |-> 2, rooms |-> 1, events |-> 7, polls |-> {4},
      incidents |-> 0, fork |-> 0],
     [params |-> Plain, interval |-> 0, rooms |-> 2, events |-> 5, polls |-> {},
      incidents |-> 0, fork |-> 0],
     [params |-> Plain, interval |-> 0, rooms |-> 2, events |-> 2, polls |-> {4},
      incidents |-> 0, fork |-> 0]}
=============================================================================
