------------------------------- MODULE MCPage ------------------------------
(* One operation of p1 with two seats, and one tab.  *)
EXTENDS PageProps, TLC

CONSTANTS p1, p2

Params(epochBlocks) ==
    [ epochBlocks |-> epochBlocks, revealGraceBlocks |-> 1, minPlayers |-> 2,
       maxPlayers |-> 2, maxProbesPerPlayer |-> 2, freeProbes |-> 1,
       probePrice |-> 1, protocolJoinFee |-> 0 ]

MCParams == {Params(1), Params(4)}

MCConfigs ==
    {[ minPlayers |-> 2, maxPlayers |-> 2, entryPrice |-> 2,
       startPrizePool |-> 1, creatorFeeBps |-> 5000 ]}

InFlight(rooms, seats, attacks, results) ==
    [h \in Hooks |-> CASE h = "lobby" -> rooms [] h = "seats" -> seats
                       [] h = "attack" -> attacks [] h = "reveal" -> results]

Watch == [ viewer |-> p2, reads |-> InFlight(2, 0, 1, 0), leaves |-> 0, nudging |-> FALSE,
           presses |-> 0, losses |-> 1, probes |-> FALSE, defenders |-> {}, from |-> 2,
           params |-> Params(1), until |-> 4 ]

Play == [Watch EXCEPT !.reads = InFlight(0, 0, 0, 0), !.probes = TRUE, !.viewer = p1,
                      !.defenders = {p1, p2}, !.params = Params(4), !.until = 9]

Reveal == [Watch EXCEPT !.reads = InFlight(1, 0, 1, 1), !.leaves = 1, !.losses = 0, !.nudging = TRUE,
                        !.from = 4]

Collect == [Watch EXCEPT !.reads = InFlight(1, 1, 0, 0), !.viewer = p1, !.presses = 2,
                         !.defenders = {p1}, !.from = 4]

MCVisits == {Watch, Play, Reveal, Collect}
=============================================================================
