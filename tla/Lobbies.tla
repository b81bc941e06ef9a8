------------------------------- MODULE Lobbies ------------------------------
(***************************************************************************)
(* Creating, starting and closing an operation, and the protocol's own     *)
(* Global Defense draw (contracts/src/libraries/Lobbies.sol).              *)
(***************************************************************************)
EXTENDS Settlement

epochNow(s) == epochOf(block, s.params.epochBlocks, Genesis)

-----------------------------------------------------------------------------
(* The epoch's attack, drawn by the first operation into the epoch; every  *)
(* later one binds to what is there.                                       *)

ensureEpochAttack(s, e) ==
    IF s.attacks[e].status # "NONE"
    THEN s
    ELSE LET launch == epochStart(e, s.params.epochBlocks, Genesis)
         IN  [s EXCEPT !.attacks[e] =
                 [NoAttack EXCEPT !.status = "PENDING",
                                  !.launchBlock = launch,
                                  !.impactBlock = launch + s.params.epochBlocks,
                                  !.graceBlocks = s.params.revealGraceBlocks]]

(* A draw flies in the very next epoch: it means to close one block before *)
(* the launch.  A player's operation skips a boundary that is too close.   *)
launchEpoch(s, creator, deadlineBlock) ==
    IF creator = Game
    THEN epochOf(deadlineBlock, s.params.epochBlocks, Genesis) + 1
    ELSE launchEpochOf(deadlineBlock, s.params.epochBlocks, Genesis)

mintFits(s, deadlineBlock) ==
    launchEpochFits(deadlineBlock, s.params.epochBlocks, Genesis)

newLobby(s, config, deadlineBlock, creator) ==
    [ creator |-> creator, status |-> "OPEN", ending |-> "NONE",
      epochId |-> launchEpoch(s, creator, deadlineBlock),
      deadlineBlock |-> deadlineBlock,
      minPlayers |-> config.minPlayers, maxPlayers |-> config.maxPlayers,
      entryPrice |-> config.entryPrice, creatorFeeBps |-> config.creatorFeeBps,
      startPrizePool |-> config.startPrizePool,
      graceBlocks |-> s.params.revealGraceBlocks,
      entryFeesCollected |-> 0, creatorFeeAccrued |-> 0,
      rewardPool |-> config.startPrizePool, rewardsClaimed |-> 0,
      creatorSettled |-> FALSE, validActions |-> 0,
      seats |-> [w \in Players |-> EmptySeat],
      intercepted |-> FALSE, rewardPerWinner |-> 0, resolvedAtBlock |-> 0 ]

mintLobby(s, config, deadlineBlock, creator) ==
    [ensureEpochAttack(s, launchEpoch(s, creator, deadlineBlock)) EXCEPT
        !.lobbies = Append(@, newLobby(s, config, deadlineBlock, creator)),
        !.activeLobbies = @ + 1]

-----------------------------------------------------------------------------
(* Closing a room that never filled.                                       *)

closeUnfilledOK(s, l) == payoutUnplayedOK(s, l)

closeUnfilled(s, l) ==
    LET ended == [s EXCEPT !.lobbies[l] = [s.lobbies[l] EXCEPT !.status = "CANCELLED",
                                                               !.ending = "UNPLAYED"],
                           !.activeLobbies = oneFewer(@)]
    IN  payoutUnplayed(ended, l)

underFilled(lobby) == Cardinality(Joined(lobby)) < lobby.minPlayers

(* The draw of the interval now running, when applications closed on it    *)
(* without a full room; 0 when there is none.                              *)
unfilledPastDraw(s) ==
    IF s.interval = 0
    THEN 0
    ELSE LET e == lastDrawEpoch(block, s.interval, s.params.epochBlocks, Genesis)
             l == s.globalDefenseLobby[e]
         IN  IF /\ e # 0
                /\ l # 0
                /\ s.lobbies[l].status = "OPEN"
                /\ block >= s.lobbies[l].deadlineBlock
                /\ underFilled(s.lobbies[l])
             THEN l
             ELSE 0

maybeCloseDrawOK(s) ==
    unfilledPastDraw(s) # 0 => closeUnfilledOK(s, unfilledPastDraw(s))

maybeCloseDraw(s) ==
    IF unfilledPastDraw(s) = 0 THEN s ELSE closeUnfilled(s, unfilledPastDraw(s))

-----------------------------------------------------------------------------
(* OPEN -> ACTIVE, by whichever call first needs it.                       *)

addToBounty(lobby, amount) ==
    [lobby EXCEPT !.rewardPool = @ + amount, !.startPrizePool = @ + amount]

commitDrawBounty(s, l) ==
    IF s.lobbies[l].creator # Game
    THEN s
    ELSE [s EXCEPT !.globalDefensePool = 0,
                   !.lobbies[l] = addToBounty(s.lobbies[l], s.globalDefensePool)]

activateOK(s, l) ==
    LET lobby == s.lobbies[l] IN
    lobby.status = "OPEN" => block >= lobby.deadlineBlock /\ ~underFilled(lobby)

activate(s, l) ==
    IF s.lobbies[l].status # "OPEN"
    THEN s
    ELSE LET ready == commitDrawBounty(s, l)
         IN  [ready EXCEPT !.lobbies[l] =
                 [ready.lobbies[l] EXCEPT !.rewardPool = @ + s.lobbies[l].entryFeesCollected,
                                          !.status = "ACTIVE"]]

-----------------------------------------------------------------------------
(* The draw's calendar.                                                    *)

drawEpoch(s) == nextDrawEpoch(block, s.interval, s.params.epochBlocks, Genesis)

(* A mutant: closes on the launch block itself.                            *)
FaultyDrawDeadline(s) == epochStart(drawEpoch(s), s.params.epochBlocks, Genesis)

drawDeadline(s) == epochStart(drawEpoch(s), s.params.epochBlocks, Genesis) - 1

joinBlocks(s) ==
    LET intervalBlocks == s.interval * s.params.epochBlocks
        half           == intervalBlocks \div 2
    IN  IF intervalBlocks >= DayBlocks THEN DayBlocks
        ELSE IF half = 0 THEN 1 ELSE half

openFrom(s) ==
    IF drawDeadline(s) > joinBlocks(s) THEN drawDeadline(s) - joinBlocks(s) ELSE 0

(* The guards openDraw reverts on.                                         *)
openDrawOK(s) ==
    /\ s.interval # 0
    /\ drawEpoch(s) < U32
    /\ s.globalDefenseLobby[drawEpoch(s)] = 0
    /\ s.globalDefensePool # 0
    /\ block < drawDeadline(s)
    /\ block >= openFrom(s)
    /\ mintFits(s, drawDeadline(s))

(* Free to enter, no author's commission, no bounty of its own: the pile   *)
(* stays in globalDefensePool until the room starts.                       *)
openDraw(s) ==
    LET config == [ minPlayers |-> s.params.minPlayers,
                    maxPlayers |-> s.params.maxPlayers, entryPrice |-> 0,
                    startPrizePool |-> 0, creatorFeeBps |-> 0 ]
    IN  [mintLobby(s, config, drawDeadline(s), Game) EXCEPT
             !.globalDefenseLobby[drawEpoch(s)] = Len(s.lobbies) + 1]

(* A mutant: the window is not looked at, as openDraw looks at it.         *)
FaultyDrawDue(s) ==
    /\ s.interval # 0
    /\ s.globalDefensePool # 0
    /\ s.globalDefenseLobby[drawEpoch(s)] = 0
    /\ block < drawDeadline(s)

drawDue(s) ==
    /\ s.interval # 0
    /\ s.globalDefensePool # 0
    /\ s.globalDefenseLobby[drawEpoch(s)] = 0
    /\ block < drawDeadline(s)
    /\ block >= openFrom(s)

(* The next draw, while it is minted and has not started; 0 when none.     *)
unlaunchedDraw(s) ==
    IF s.interval = 0
    THEN 0
    ELSE LET l == s.globalDefenseLobby[drawEpoch(s)]
         IN  IF l # 0 /\ s.lobbies[l].status = "OPEN" THEN l ELSE 0

(* A mutant: the pile moves into a room that may never fill.               *)
FaultyTopUpDraw(s) ==
    LET l == unlaunchedDraw(s) IN
    IF s.globalDefensePool = 0 \/ l = 0
    THEN s
    ELSE [s EXCEPT !.globalDefensePool = 0,
                   !.lobbies[l] = addToBounty(s.lobbies[l], s.globalDefensePool)]

(* Later misses join the bounty of a draw that has taken the pile.  An     *)
(* OPEN room of the protocol's own has not, and is left alone.             *)
topUpDraw(s) ==
    LET l     == unlaunchedDraw(s)
        extra == s.globalDefensePool
    IN  IF \/ extra = 0
           \/ l = 0
           \/ s.lobbies[l].creator = Game /\ s.lobbies[l].status = "OPEN"
        THEN s
        ELSE [s EXCEPT !.globalDefensePool = 0,
                       !.lobbies[l] = addToBounty(s.lobbies[l], extra)]

(* What every ordinary write does first.  It reverts the write when the    *)
(* leftover room cannot be paid out or the epoch number overflows.         *)
maybeOpenDrawOK(s) ==
    LET closed == maybeCloseDraw(s) IN
    /\ maybeCloseDrawOK(s)
    /\ (closed.interval # 0 /\ closed.globalDefensePool # 0) => drawEpoch(closed) < U32
    /\ drawDue(topUpDraw(closed)) => openDrawOK(topUpDraw(closed))

maybeOpenDraw(s) ==
    LET ready == topUpDraw(maybeCloseDraw(s))
    IN  IF drawDue(ready) THEN openDraw(ready) ELSE ready

-----------------------------------------------------------------------------
(* Leaving while applications are open: the wallet takes back paidIn, and  *)
(* what is neither probes nor entry was the author's commission.           *)

leaveOK(s, l, w) ==
    LET lobby == s.lobbies[l] IN
    /\ lobby.status = "OPEN"
    /\ block < lobby.deadlineBlock
    /\ lobby.seats[w].joined
    /\ payable(w, lobby.seats[w].paidIn)

(* A mutant: the price of the probes is taken for commission.              *)
FaultyCommissionPaid(seat, entryPrice) ==
    IF seat.paidIn > entryPrice THEN seat.paidIn - entryPrice ELSE 0

commissionPaid(seat, entryPrice) ==
    LET consumed == seat.probesPaid + entryPrice
    IN  IF seat.paidIn > consumed THEN seat.paidIn - consumed ELSE 0

leave(s, l, w) ==
    LET lobby == s.lobbies[l]
        seat  == lobby.seats[w]
        empty == [seat EXCEPT !.joined = FALSE, !.paidIn = 0,
                              !.probesPurchased = 0, !.probesPaid = 0]
    IN  [s EXCEPT !.lobbies[l] =
                      [lobby EXCEPT !.seats[w] = empty,
                                    !.entryFeesCollected = @ - lobby.entryPrice,
                                    !.creatorFeeAccrued = @ - commissionPaid(seat, lobby.entryPrice),
                                    !.rewardPool = @ - seat.probesPaid],
                  !.balance = @ - seat.paidIn]
=============================================================================
