---------------------------- MODULE EmulatorChain ---------------------------
(***************************************************************************)
(* The chain a browser runs by itself when there is no contract:           *)
(* blockchain/EmulatorBlockchainClient.ts and emulatorState.ts, as         *)
(* operators on one record, the EmulatorState.                             *)
(*                                                                         *)
(* Nothing here happens by itself but blocks: whoever reads or writes an   *)
(* operation first settles it, that is, brings it to where the block says  *)
(* it should be.  Sums of ether are floats in the code; instances choose   *)
(* sums that divide, and then a float is an integer.                       *)
(***************************************************************************)
EXTENDS GameClock, Sequences, FiniteSets, FiniteSetsExt

CONSTANTS
    Players,
    Protocol,       \* PROTOCOL_ESCROW_ADDRESS, who owns the draws
    StartBalance,   \* what an account holds when first seen
    InitialBlock    \* the genesis block

PROBE_DELAY_BLOCKS == 3

ASSUME EmulatorAssumption ==
    /\ IsFiniteSet(Players) /\ Protocol \notin Players
    /\ StartBalance \in Nat /\ InitialBlock \in Nat

(* ProtocolLimits, which the client is built with and never changes.       *)
ProtocolLimits ==
    [ minPlayers : Nat, maxPlayers : Nat, joinFee : Nat, epochBlocks : Nat \ {0},
      freeCount : Nat, maxCount : Nat, price : Nat, interval : Nat, joinWindow : Nat ]

NoSeat ==
    [ joined |-> FALSE, paidIn |-> 0, probesPaid |-> 0, purchased |-> 0, actions |-> 0,
      probes |-> 0, lastProbeBlock |-> 0, defendedAt |-> 0, onTarget |-> FALSE,
      payout |-> "NONE", refunded |-> FALSE ]

NoAttack == [status |-> "NONE", launchBlock |-> 0, impactBlock |-> 0]

NoOutcome == [known |-> FALSE, winners |-> {}, rewardPerWinner |-> 0, resolvedAtBlock |-> 0]

createEmulatorState(limits) ==
    [ limits |-> limits, block |-> InitialBlock, wallet |-> [w \in Players |-> StartBalance], escrow |-> 0,
      globalDefensePool |-> 0, globalDefenseLobby |-> [e \in {} |-> 0],
      lobbies |-> <<>> ]

protocolEpoch(s) == getEpochFromBlock(s.block, s.limits.epochBlocks, InitialBlock)

seated(lobby) == {w \in Players : lobby.seats[w].joined}

-----------------------------------------------------------------------------
(* Money moves only between the accounts and the protocol's escrow.        *)

canEscrow(s, w, amount) == s.wallet[w] >= amount

escrow(s, w, amount) ==
    [s EXCEPT !.wallet[w] = @ - amount, !.escrow = @ + amount]

payOut(s, w, amount) ==
    [s EXCEPT !.wallet[w] = @ + amount, !.escrow = @ - amount]

-----------------------------------------------------------------------------
(* Opening an operation: a player's, or the protocol's own draw.           *)

newLobby(s, creator, config, deadlineBlock, epochId) ==
    [ creator |-> creator, status |-> "OPEN", ending |-> "NONE", config |-> config,
      deadlineBlock |-> deadlineBlock, createdAtBlock |-> s.block,
      participantCount |-> 0, seats |-> [w \in Players |-> NoSeat],
      currentEpochId |-> epochId, attack |-> NoAttack, outcome |-> NoOutcome,
      revealed |-> FALSE, startPrizePool |-> config.prizePool,
      entryFeesCollected |-> 0, creatorFeeAccrued |-> 0,
      protocolFeeAccrued |-> IF creator = Protocol THEN 0 ELSE s.limits.joinFee,
      rewardPool |-> config.prizePool, creatorSettled |-> FALSE, drawBounty |-> 0 ]

(* Applications may not be checked against the head: the form picks a      *)
(* moment, and the block it named may be mined before the call applies.    *)
validateLobbyConfig(s, config) ==
    /\ s.limits.minPlayers <= config.minPlayers /\ config.minPlayers <= s.limits.maxPlayers
    /\ config.maxPlayers \in config.minPlayers .. s.limits.maxPlayers
    /\ config.prizePool >= 0 /\ config.entryPrice >= 0

applyCreateLobby(s, w, config, deadlineBlock) ==
    LET epochId == launchEpochOf(deadlineBlock, s.limits.epochBlocks, InitialBlock)
        paid    == escrow(s, w, config.prizePool + s.limits.joinFee)
    IN  [paid EXCEPT !.lobbies = Append(@, newLobby(s, w, config, deadlineBlock, epochId))]

drawSchedule(s) ==
    globalDefenseSchedule(protocolEpoch(s), s.limits.interval, s.limits.epochBlocks,
                          InitialBlock, s.limits.joinWindow)

(* The draw booked under the next epoch due, 0 when there is none: the     *)
(* code's Map has an entry for the epochs that got one.                    *)
bookedDraw(s) ==
    LET e == drawSchedule(s).nextEpoch IN
    IF e \in DOMAIN s.globalDefenseLobby THEN s.globalDefenseLobby[e] ELSE 0

applyOpenGlobalDefenseOK(s) ==
    /\ s.limits.interval > 0
    /\ bookedDraw(s) = 0
    /\ s.globalDefensePool > 0
    /\ s.block < drawSchedule(s).deadlineBlock
    /\ s.block >= drawSchedule(s).openFromBlock

(* Free to enter, and the pile stays in the pool until the room starts.    *)
applyOpenGlobalDefense(s) ==
    LET epochId == drawSchedule(s).nextEpoch
        config  == [ minPlayers |-> s.limits.minPlayers, maxPlayers |-> s.limits.maxPlayers,
                     entryPrice |-> 0, prizePool |-> 0, commission |-> 0 ]
        draw    == [newLobby(s, Protocol, config, drawSchedule(s).deadlineBlock, epochId)
                        EXCEPT !.drawBounty = s.globalDefensePool]
    IN  [s EXCEPT !.lobbies = Append(@, draw),
                  !.globalDefenseLobby = [e \in DOMAIN @ \cup {epochId} |->
                      IF e = epochId THEN Len(s.lobbies) + 1 ELSE @[e]]]

(* A mutant: looks at the deadline and not at the opening.                 *)
FaultyIsGlobalDefenseDue(s) ==
    /\ s.limits.interval > 0 /\ s.globalDefensePool > 0
    /\ bookedDraw(s) = 0
    /\ s.block < drawSchedule(s).deadlineBlock

isGlobalDefenseDue(s) ==
    /\ s.limits.interval > 0 /\ s.globalDefensePool > 0
    /\ bookedDraw(s) = 0
    /\ isInGlobalDefenseJoinWindow(drawSchedule(s), s.block)

maybeOpenGlobalDefense(s) ==
    IF isGlobalDefenseDue(s) THEN applyOpenGlobalDefense(s) ELSE s

addToBounty(s, l, amount) ==
    [s EXCEPT !.globalDefensePool = @ - amount,
              !.lobbies[l] = [s.lobbies[l] EXCEPT !.rewardPool = @ + amount,
                                                  !.startPrizePool = @ + amount]]

(* A mutant: an open draw is topped up like any other.                     *)
FaultyMaybeTopUpGlobalDefense(s) ==
    LET draw == IF s.limits.interval = 0 THEN 0 ELSE bookedDraw(s)
    IN  IF s.globalDefensePool > 0 /\ draw # 0 /\ s.lobbies[draw].status = "OPEN"
        THEN addToBounty(s, draw, s.globalDefensePool)
        ELSE s

(* Tops up a draw already minted and not yet running; one that is still    *)
(* OPEN is left alone when it is the protocol's, as every one booked is.   *)
maybeTopUpGlobalDefense(s) ==
    LET draw == IF s.limits.interval = 0 THEN 0 ELSE bookedDraw(s)
    IN  IF /\ s.globalDefensePool > 0
           /\ draw # 0
           /\ s.lobbies[draw].status \notin {"ACTIVE", "RESOLVED", "CANCELLED"}
           /\ ~(s.lobbies[draw].creator = Protocol /\ s.lobbies[draw].status = "OPEN")
        THEN addToBounty(s, draw, s.globalDefensePool)
        ELSE s

-----------------------------------------------------------------------------
(* settleLobby.                                                            *)

(* Everybody who joined has what they paid back, and the bounty goes to    *)
(* whoever put it up.                                                      *)
payoutUnplayed(s, l) ==
    LET lobby  == s.lobbies[l]
        owed   == {w \in seated(lobby) : ~lobby.seats[w].refunded /\ lobby.seats[w].paidIn > 0}
        bounty == IF lobby.creatorSettled THEN 0 ELSE lobby.startPrizePool
        back   == [w \in Players |-> (IF w \in owed THEN lobby.seats[w].paidIn ELSE 0)
                                     + (IF w = lobby.creator THEN bounty ELSE 0)]
    IN  [s EXCEPT
            !.wallet = [w \in Players |-> @[w] + back[w]],
            !.escrow = @ - MapThenSumSet(LAMBDA w : back[w], Players),
            !.globalDefensePool = IF lobby.creator = Protocol THEN @ + bounty ELSE @,
            !.lobbies[l] = [lobby EXCEPT
                !.seats = [w \in Players |-> [lobby.seats[w] EXCEPT !.refunded = @ \/ w \in owed]],
                !.creatorSettled = TRUE]]

closeApplications(s, l) ==
    LET lobby == s.lobbies[l] IN
    IF lobby.status # "OPEN" \/ s.block < lobby.deadlineBlock THEN s
    ELSE IF lobby.participantCount >= lobby.config.minPlayers
    THEN [s EXCEPT !.lobbies[l].status = "READY"]
    ELSE payoutUnplayed(
            [s EXCEPT !.lobbies[l] =
                [lobby EXCEPT !.status = "CANCELLED", !.ending = "UNPLAYED",
                              !.drawBounty = IF lobby.creator = Protocol
                                             THEN s.globalDefensePool ELSE @]], l)

scheduleAttack(s, lobby) ==
    LET launch == getEpochStartBlock(lobby.currentEpochId, s.limits.epochBlocks, InitialBlock)
    IN  [ status |-> "PENDING", launchBlock |-> launch,
          impactBlock |-> launch + s.limits.epochBlocks ]

startOperation(s, l) ==
    IF s.lobbies[l].status # "READY" THEN s
    ELSE LET funded == IF s.lobbies[l].creator = Protocol
                       THEN addToBounty(s, l, s.globalDefensePool) ELSE s
             lobby  == funded.lobbies[l]
         IN  [funded EXCEPT !.lobbies[l] =
                 [lobby EXCEPT !.rewardPool = @ + lobby.entryFeesCollected,
                               !.status = "ACTIVE", !.attack = scheduleAttack(s, lobby)]]

played(lobby) == \E w \in seated(lobby) : lobby.seats[w].actions > 0

earliestHits(lobby) ==
    LET hits == {w \in seated(lobby) : lobby.seats[w].defendedAt # 0 /\ lobby.seats[w].onTarget}
    IN  {w \in hits : \A v \in hits : lobby.seats[w].defendedAt <= lobby.seats[v].defendedAt}

shareOf(pool, winners) == IF winners = {} THEN 0 ELSE pool \div Cardinality(winners)

resolveAttack(s, l) ==
    LET lobby   == s.lobbies[l]
        winners == earliestHits(lobby)
        judged  == [lobby EXCEPT
                      !.attack.status = "RESOLVED",
                      !.outcome = [ known |-> TRUE, winners |-> winners,
                                    rewardPerWinner |-> shareOf(lobby.rewardPool, winners),
                                    resolvedAtBlock |-> s.block ],
                      !.seats = [w \in Players |-> [lobby.seats[w] EXCEPT
                                    !.payout = IF w \in winners THEN "PENDING" ELSE @]]]
    IN  IF ~played(lobby)
        THEN [s EXCEPT !.lobbies[l] = [judged EXCEPT !.ending = "UNPLAYED", !.status = "CANCELLED"]]
        ELSE IF winners # {}
        THEN [s EXCEPT !.lobbies[l] = [judged EXCEPT !.ending = "COMPLETED", !.status = "RESOLVED"]]
        ELSE maybeTopUpGlobalDefense(
                [s EXCEPT !.globalDefensePool = @ + lobby.rewardPool,
                          !.lobbies[l] = [judged EXCEPT !.ending = "COMPLETED",
                                                        !.status = "RESOLVED",
                                                        !.rewardPool = 0]])

advanceAttack(s, l) ==
    LET attack   == s.lobbies[l].attack
        launched == [s EXCEPT !.lobbies[l].attack.status = "LAUNCHED"]
    IN  IF s.lobbies[l].status # "ACTIVE" THEN s
        ELSE IF s.block >= attack.impactBlock THEN resolveAttack(launched, l)
        ELSE IF s.block >= attack.launchBlock THEN launched
        ELSE s

(* A mutant: an attack is resolved the next time it is looked at, not in   *)
(* the reading that launches it.                                           *)
FaultySettleLobby(s, l) ==
    LET ready == startOperation(closeApplications(s, l), l)
    IN  IF ready.lobbies[l].attack.status = "PENDING" /\ ready.block >= ready.lobbies[l].attack.launchBlock
        THEN [ready EXCEPT !.lobbies[l].attack.status = "LAUNCHED"]
        ELSE advanceAttack(ready, l)

settleLobby(s, l) == advanceAttack(startOperation(closeApplications(s, l), l), l)

(* getGameStats and getGlobalDefenseDraw settle every operation, oldest    *)
(* first, hand back what a cancelled draw still holds, and see to the next.*)
settleAll(s) ==
    LET upTo[l \in 0 .. Len(s.lobbies)] ==
            IF l = 0 THEN s ELSE settleLobby(upTo[l - 1], l)
    IN  upTo[Len(s.lobbies)]

homeless(s) ==
    {l \in DOMAIN s.lobbies : /\ s.lobbies[l].creator = Protocol
                              /\ s.lobbies[l].ending \in {"UNPLAYED", "CANCELLED"}
                              /\ ~s.lobbies[l].creatorSettled
                              /\ s.lobbies[l].startPrizePool > 0}

maybeSettleProtocolDraws(s) ==
    [s EXCEPT
        !.globalDefensePool = @ + MapThenSumSet(LAMBDA l : s.lobbies[l].startPrizePool, homeless(s)),
        !.lobbies = [l \in DOMAIN s.lobbies |->
                        [s.lobbies[l] EXCEPT !.creatorSettled = @ \/ l \in homeless(s)]]]

drawUpkeep(s) == maybeOpenGlobalDefense(maybeTopUpGlobalDefense(s))

readStats(s) == drawUpkeep(maybeSettleProtocolDraws(settleAll(s)))

mineBlock(s) == drawUpkeep([s EXCEPT !.block = @ + 1])
=============================================================================
