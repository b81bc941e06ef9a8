-------------------------------- MODULE Views -------------------------------
(***************************************************************************)
(* What a page makes of the contract it has read: the phase of an          *)
(* operation (frontend game/lobbyPhase.ts, game/lobby.ts), the shapes the  *)
(* client hands it (blockchain/contract/codec.ts) and the money it shows   *)
(* (hooks/useSettlement.ts, game/economics.ts).                            *)
(*                                                                         *)
(* A view is a function of a lobby, an attack and a head block that need   *)
(* not have been read together, so all three are parameters.  Ether is     *)
(* counted in wei here and in a floating number there.                     *)
(***************************************************************************)
EXTENDS AegylaxGame

CONSTANT IncomingBlocks     \* ATTACK_INCOMING_BLOCKS: fifteen

Phases ==
    {"OPEN", "UNDERSUBSCRIBED", "WAITING_FOR_ATTACK", "ATTACK_INCOMING",
     "ATTACK_ACTIVE", "RESULT", "CANCELLED"}

-----------------------------------------------------------------------------
(* The attack as the lens derives it and the client translates it.         *)

derivedStatus(attack, b) ==
    IF attack.status \in {"NONE", "RESOLVED"} THEN attack.status
    ELSE IF b >= attack.impactBlock THEN "COMPLETED"
    ELSE IF b >= attack.launchBlock THEN "LAUNCHED"
    ELSE "PENDING"

(* A mutant: an attack in the air is taken for one that is over.           *)
FaultyToAttackStatus(status) == IF status \in {"NONE", "PENDING"} THEN "PENDING" ELSE "RESOLVED"

toAttackStatus(status) ==
    CASE status = "LAUNCHED" -> "LAUNCHED"
      [] status \in {"COMPLETED", "RESOLVED"} -> "RESOLVED"
      [] OTHER -> "PENDING"

(* Nothing has answered yet.                                               *)
Unloaded == [status |-> "null", launchBlock |-> 0]

toAttack(attack, b) ==
    [status |-> toAttackStatus(derivedStatus(attack, b)), launchBlock |-> attack.launchBlock]

-----------------------------------------------------------------------------
(* The phase.                                                              *)

applicationsClosed(lobby, b) == b >= lobby.deadlineBlock

derivePhaseFromAttack(attack, b) ==
    CASE attack = Unloaded -> "WAITING_FOR_ATTACK"
      [] attack.status = "RESOLVED" -> "RESULT"
      [] attack.status = "LAUNCHED" -> "ATTACK_ACTIVE"
      [] OTHER -> IF attack.launchBlock - b <= IncomingBlocks
                  THEN "ATTACK_INCOMING" ELSE "WAITING_FOR_ATTACK"

deriveLobbyPhase(lobby, attack, b) ==
    CASE lobby.status = "CANCELLED" -> "CANCELLED"
      [] lobby.status = "RESOLVED"  -> "RESULT"
      [] lobby.status = "OPEN" /\ ~applicationsClosed(lobby, b) -> "OPEN"
      [] lobby.status = "OPEN" /\ applicationsClosed(lobby, b) /\ underFilled(lobby) ->
             "UNDERSUBSCRIBED"
      [] OTHER -> derivePhaseFromAttack(attack, b)

isOperationOver(phase) == phase \in {"RESULT", "CANCELLED", "UNDERSUBSCRIBED"}

-----------------------------------------------------------------------------
(* What the page offers.                                                   *)

canJoinLobby(lobby, b) ==
    /\ lobby.status = "OPEN"
    /\ b < lobby.deadlineBlock
    /\ Cardinality(Joined(lobby)) < lobby.maxPlayers

(* A mutant: the climb is a block shorter than the contract's.             *)
FaultyProbeCooldown(lastProbeBlock, b) ==
    lastProbeBlock # 0 /\ b + 1 < lastProbeBlock + DELAY_BLOCKS

(* Is the reading still climbing.                                          *)
probeCooldown(lastProbeBlock, b) ==
    lastProbeBlock # 0 /\ b < lastProbeBlock + DELAY_BLOCKS

owned(seat, params) == params.freeProbes + seat.probesPurchased

(* defenseBlockedReason, with a sector and a point chosen.                 *)
offersDefense(seat, phase, b) ==
    /\ seat.joined
    /\ seat.defendedAt = 0
    /\ phase = "ATTACK_ACTIVE"
    /\ ~probeCooldown(seat.lastProbeBlock, b)

(* reconBlockedReason.                                                     *)
offersProbe(seat, phase, params, b) ==
    /\ seat.joined
    /\ phase = "ATTACK_ACTIVE"
    /\ seat.defendedAt = 0
    /\ seat.probesUsed < owned(seat, params)
    /\ ~probeCooldown(seat.lastProbeBlock, b)

(* probePurchaseBlockedReason.                                             *)
offersPurchase(seat, phase, params) ==
    /\ seat.joined
    /\ ~isOperationOver(phase)
    /\ phase # "ATTACK_ACTIVE"
    /\ owned(seat, params) < params.maxProbesPerPlayer

offersLeave(seat, phase) == seat.joined /\ phase = "OPEN"

(* decideAction of useProtocolAdvance: only the room that did not fill.    *)
offersCancel(lobby, b) ==
    lobby.status = "OPEN" /\ applicationsClosed(lobby, b) /\ underFilled(lobby)

(* The round is finished and its result is not on the chain.               *)
canRevealAttack(phase, loaded, scored) == phase = "RESULT" /\ loaded /\ ~scored

-----------------------------------------------------------------------------
(* Money.  The outcome is read after the lobby, and only once scored.      *)

NoOutcome == [intercepted |-> FALSE, rewardPerWinner |-> 0, winners |-> 0]

toOutcome(lobby) ==
    IF lobby.resolvedAtBlock = 0 THEN NoOutcome
    ELSE [ intercepted |-> lobby.intercepted, rewardPerWinner |-> lobby.rewardPerWinner,
           winners |-> Cardinality(Winners(lobby)) ]

(* A mutant: the remainder of the division stays out of the fee.           *)
FaultyCreatorSettlementOf(lobby, outcome) ==
    CASE lobby.ending \in RefundEndings -> lobby.startPrizePool
      [] lobby.ending = "COMPLETED" -> lobby.creatorFeeAccrued
      [] OTHER -> 0

creatorSettlementOf(lobby, outcome) ==
    CASE lobby.ending \in RefundEndings -> lobby.startPrizePool
      [] lobby.ending = "COMPLETED" ->
             lobby.creatorFeeAccrued
             + IF outcome.intercepted
               THEN Max({0, lobby.rewardPool - outcome.rewardPerWinner * outcome.winners})
               ELSE 0
      [] OTHER -> 0

payoutState(seat) == IF seat.claimed THEN "PAID" ELSE IF seat.isWinner THEN "PENDING" ELSE "NONE"

(* The two parts of the one button a wallet is shown.                      *)
participantShare(lobby, seat) ==
    IF seat.joined /\ lobby.ending \in RefundEndings THEN seat.paidIn ELSE 0

creatorShare(lobby, outcome, w) ==
    IF w = lobby.creator /\ lobby.ending \in RefundEndings
    THEN creatorSettlementOf(lobby, outcome) ELSE 0

prizeDue(outcome, seat) ==
    IF seat.joined /\ outcome.intercepted /\ payoutState(seat) # "NONE"
    THEN outcome.rewardPerWinner ELSE 0

feeDue(lobby, outcome, w) ==
    IF w = lobby.creator /\ lobby.ending \notin RefundEndings
    THEN creatorSettlementOf(lobby, outcome) ELSE 0

(* What of it is not marked collected.                                     *)
toCollect(lobby, outcome, seat, w) ==
    (IF seat.refunded THEN 0 ELSE participantShare(lobby, seat))
    + (IF payoutState(seat) = "PAID" THEN 0 ELSE prizeDue(outcome, seat))
    + (IF lobby.creatorSettled THEN 0
       ELSE creatorShare(lobby, outcome, w) + feeDue(lobby, outcome, w))

(* A button stays lit while either part of it is open.                     *)
refundOffered(lobby, outcome, seat, w) ==
    \/ participantShare(lobby, seat) > 0 /\ ~seat.refunded
    \/ creatorShare(lobby, outcome, w) > 0 /\ ~lobby.creatorSettled

payoutOffered(lobby, outcome, seat, w) ==
    \/ prizeDue(outcome, seat) > 0 /\ payoutState(seat) # "PAID"
    \/ feeDue(lobby, outcome, w) > 0 /\ ~lobby.creatorSettled

calculateParticipantCost(lobby) ==
    lobby.entryPrice + authorCommission(lobby.entryPrice, lobby.creatorFeeBps)

(* The pool on the page counts the seats taken, and no probe sold.         *)
calculatePrizeBalance(lobby) ==
    lobby.startPrizePool + lobby.entryPrice * Cardinality(Joined(lobby))
=============================================================================
