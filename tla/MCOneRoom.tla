------------------------------ MODULE MCOneRoom -----------------------------
(* One operation of two wallets, from creation to the last claim.          *)
EXTENDS AegylaxLife, TLC

CONSTANTS p1, p2

(* Two prices of a probe, which the owner may change mid-operation.        *)
MCParams ==
    [ epochBlocks : {4}, revealGraceBlocks : {1}, minPlayers : {2},
      maxPlayers : {2}, maxProbesPerPlayer : {1}, freeProbes : {0},
      probePrice : {1, 3}, protocolJoinFee : {1} ]

MCConfigs ==
    {[ minPlayers |-> 2, maxPlayers |-> 2, entryPrice |-> 2,
       startPrizePool |-> 3, creatorFeeBps |-> 5000 ]}

Symmetry == Permutations({p1, p2})
=============================================================================
