----------------------------- MODULE AegylaxGame ----------------------------
(***************************************************************************)
(* The game contract: one action per entry point of                        *)
(* contracts/src/AegylaxGame.sol, and the block clock.                     *)
(*                                                                         *)
(* A transaction is atomic and either happens whole or reverts, so an      *)
(* action is enabled exactly when its call would not revert.  The amount   *)
(* sent with a payable call is the amount the code demands: any other      *)
(* reverts.  Several transactions may share a block.                       *)
(***************************************************************************)
EXTENDS Scoring

CONSTANTS
    MaxBlock,       \* bound: the last block explored
    MaxRooms,       \* bound: operations after which no player opens another
    MaxDeadline,    \* bound: the latest block a creator closes applications on
    PauseValues,    \* what setPaused may be called with
    Withdrawals     \* amounts the owner withdraws

ASSUME BoundsAssumption ==
    /\ MaxBlock \in Nat /\ MaxRooms \in Nat /\ MaxDeadline \in Nat
    /\ PauseValues \subseteq BOOLEAN /\ Withdrawals \subseteq Nat

vars == <<block, store>>

DELAY_BLOCKS == 3

Init ==
    /\ block = Genesis
    /\ \E p \in ParamSets, i \in Intervals :
        store = [ params |-> p, interval |-> i, paused |-> FALSE,
                  protocolTreasury |-> 0, globalDefensePool |-> InitialPool,
                  balance |-> InitialPool, activeLobbies |-> 0,
                  interceptedAttacks |-> 0, lobbies |-> <<>>,
                  attacks |-> [e \in EpochIds |-> NoAttack],
                  globalDefenseLobby |-> [e \in EpochIds |-> 0] ]

(* Blocks are mined whatever anybody does.                                 *)
Tick ==
    /\ block < MaxBlock
    /\ block' = block + 1
    /\ UNCHANGED store

-----------------------------------------------------------------------------
(* Governance.                                                             *)

setParams(p) ==
    /\ store' = [store EXCEPT !.params = p]
    /\ UNCHANGED block

setGlobalDefenseInterval(i) ==
    /\ store' = [store EXCEPT !.interval = i]
    /\ UNCHANGED block

setPaused(b) ==
    /\ store' = [store EXCEPT !.paused = b]
    /\ UNCHANGED block

(* withdrawProtocolFees and fundEngine: the treasury, and only it.         *)
withdrawProtocolFees(amount) ==
    /\ amount <= store.protocolTreasury
    /\ store' = [store EXCEPT !.protocolTreasury = @ - amount,
                              !.balance = @ - amount]
    /\ UNCHANGED block

-----------------------------------------------------------------------------
(* Seats and money.                                                        *)

validConfig(config, p, deadlineBlock) ==
    /\ config.minPlayers >= p.minPlayers
    /\ config.maxPlayers <= p.maxPlayers
    /\ config.maxPlayers >= config.minPlayers
    /\ deadlineBlock > block

createLobby(w, config, deadlineBlock) ==
    LET s   == maybeOpenDraw(store)
        fee == s.params.protocolJoinFee
    IN  /\ Len(store.lobbies) < MaxRooms
        /\ ~store.paused
        /\ maybeOpenDrawOK(store)
        /\ validConfig(config, s.params, deadlineBlock)
        /\ mintFits(s, deadlineBlock)
        /\ store' = [mintLobby(s, config, deadlineBlock, w) EXCEPT
                        !.protocolTreasury = @ + fee,
                        !.balance = @ + config.startPrizePool + fee]
        /\ UNCHANGED block

registrationOpen(lobby) == lobby.status = "OPEN" /\ block < lobby.deadlineBlock

joinLobby(w, l) ==
    LET s     == maybeOpenDraw(store)
        lobby == s.lobbies[l]
        cost  == joinPayment(lobby.entryPrice, lobby.creatorFeeBps)
    IN  /\ ~store.paused
        /\ maybeOpenDrawOK(store)
        /\ registrationOpen(lobby)
        /\ Cardinality(Joined(lobby)) < lobby.maxPlayers
        /\ ~lobby.seats[w].joined
        /\ store' = [s EXCEPT
                        !.lobbies[l] =
                            [lobby EXCEPT
                                !.seats[w] = [lobby.seats[w] EXCEPT !.joined = TRUE,
                                                                    !.paidIn = cost],
                                !.entryFeesCollected = @ + lobby.entryPrice,
                                !.creatorFeeAccrued = @ + cost - lobby.entryPrice],
                        !.balance = @ + cost]
        /\ UNCHANGED block

leaveLobby(w, l) ==
    /\ leaveOK(store, l, w)
    /\ store' = leave(store, l, w)
    /\ UNCHANGED block

(* Recon is priced and limited by the rules in force now, not by the terms *)
(* the operation froze, and is sold until the threat leaves the ground.    *)
buyProbes(w, l, count) ==
    LET s     == maybeOpenDraw(store)
        lobby == s.lobbies[l]
        seat  == lobby.seats[w]
        cost  == s.params.probePrice * count
    IN  /\ ~store.paused
        /\ maybeOpenDrawOK(store)
        /\ lobby.status \in {"OPEN", "ACTIVE"}
        /\ block < s.attacks[lobby.epochId].launchBlock
        /\ seat.joined
        /\ s.params.freeProbes + seat.probesPurchased + count <= s.params.maxProbesPerPlayer
        /\ store' = [s EXCEPT
                        !.lobbies[l] =
                            [lobby EXCEPT
                                !.seats[w] = [seat EXCEPT !.probesPurchased = @ + count,
                                                          !.probesPaid = @ + cost,
                                                          !.paidIn = @ + cost],
                                !.rewardPool = @ + cost],
                        !.balance = @ + cost]
        /\ UNCHANGED block

startOperation(l) ==
    /\ ~store.paused
    /\ activateOK(store, l)
    /\ store' = activate(store, l)
    /\ UNCHANGED block

openGlobalDefense ==
    /\ ~store.paused
    /\ maybeCloseDrawOK(store)
    /\ openDrawOK(maybeCloseDraw(store))
    /\ store' = openDraw(maybeCloseDraw(store))
    /\ UNCHANGED block

cancelLobby(l) ==
    /\ lobbyOf(l).status = "OPEN"
    /\ block >= lobbyOf(l).deadlineBlock
    /\ underFilled(lobbyOf(l))
    /\ closeUnfilledOK(store, l)
    /\ store' = closeUnfilled(store, l)
    /\ UNCHANGED block

-----------------------------------------------------------------------------
(* Acting in the round.                                                    *)

FaultyInFlight(attack) == attack.launchBlock <= block  \* a mutant: never lands

inFlight(attack) == attack.launchBlock <= block /\ block < attack.impactBlock

(* A mutant: the climb is one block short.                                 *)
FaultyProbeClimbed(seat) ==
    seat.lastProbeBlock # 0 => block >= seat.lastProbeBlock + DELAY_BLOCKS - 1

(* A reading cannot be spent, on a probe or on a defense, before the climb *)
(* of the probe that produced it is over.                                  *)
probeClimbed(seat) ==
    seat.lastProbeBlock # 0 => block >= seat.lastProbeBlock + DELAY_BLOCKS

mayAct(s, l, w) ==
    LET lobby == s.lobbies[l] IN
    /\ lobby.status = "ACTIVE"
    /\ lobby.seats[w].joined
    /\ lobby.seats[w].defendedAt = 0
    /\ inFlight(s.attacks[lobby.epochId])
    /\ probeClimbed(lobby.seats[w])

launched(attack) ==
    IF attack.status = "PENDING" THEN [attack EXCEPT !.status = "LAUNCHED"] ELSE attack

sendProbe(w, l) ==
    LET s     == maybeOpenDraw(store)
        ready == activate(s, l)
        lobby == ready.lobbies[l]
        seat  == lobby.seats[w]
    IN  /\ ~store.paused
        /\ maybeOpenDrawOK(store)
        /\ activateOK(s, l)
        /\ mayAct(ready, l, w)
        /\ seat.probesUsed < ready.params.freeProbes + seat.probesPurchased
        /\ store' = [ready EXCEPT
                        !.lobbies[l] =
                            [lobby EXCEPT
                                !.seats[w] = [seat EXCEPT !.probesUsed = @ + 1,
                                                          !.lastProbeBlock = block],
                                !.validActions = @ + 1],
                        !.attacks[lobby.epochId] = launched(@)]
        /\ UNCHANGED block

submitDefense(w, l) ==
    LET s     == maybeOpenDraw(store)
        ready == activate(s, l)
        lobby == ready.lobbies[l]
    IN  /\ ~store.paused
        /\ maybeOpenDrawOK(store)
        /\ activateOK(s, l)
        /\ mayAct(ready, l, w)
        /\ store' = [ready EXCEPT
                        !.lobbies[l] =
                            [lobby EXCEPT
                                !.seats[w] = [lobby.seats[w] EXCEPT !.defendedAt = block],
                                !.validActions = @ + 1],
                        !.attacks[lobby.epochId] = launched(@)]
        /\ UNCHANGED block

-----------------------------------------------------------------------------
(* Completion, reveal and verdict.                                         *)

completeAttackOK(s, e) ==
    /\ s.attacks[e].status \in {"PENDING", "LAUNCHED"}
    /\ block >= s.attacks[e].impactBlock

completeAttack(e) ==
    /\ completeAttackOK(store, e)
    /\ store' = [store EXCEPT !.attacks[e] =
                     [store.attacks[e] EXCEPT !.status = "COMPLETED",
                                              !.decryptionUnlocked = TRUE]]
    /\ UNCHANGED block

(* The same landing, asked for through an operation; a no-op once done.    *)
unlockRound(l) ==
    IF attackOf(l).decryptionUnlocked
    THEN UNCHANGED vars
    ELSE completeAttack(lobbyOf(l).epochId)

revealOK(s, e) ==
    /\ ~s.attacks[e].revealed
    /\ s.attacks[e].decryptionUnlocked
    /\ s.attacks[e].status = "COMPLETED"

reveal(s, e) ==
    [s EXCEPT !.attacks[e] = [s.attacks[e] EXCEPT !.revealed = TRUE,
                                                  !.status = "RESOLVED"]]

(* The caller brings plaintexts the confidential network has signed; when  *)
(* the network gives none, this action is simply not taken.                *)
revealEpochAttack(e) ==
    /\ revealOK(store, e)
    /\ store' = reveal(store, e)
    /\ UNCHANGED block

resolveLobby(l, hits) ==
    /\ resolveAllOK(store, l, hits)
    /\ store' = resolveAll(store, l, hits)
    /\ UNCHANGED block

proveDefenses(l, subset, hits) ==
    /\ proveOK(store, l, subset)
    /\ store' = prove(store, l, subset, hits)
    /\ UNCHANGED block

finalizeScoring(l) ==
    /\ finalizeIfReadyOK(store, l)
    /\ store' = finalizeIfReady(store, l)
    /\ UNCHANGED block

published(s, e) == IF s.attacks[e].revealed THEN s ELSE reveal(s, e)

(* Publish, and score the team too when the proofs cover all of it.  With  *)
(* no proofs for a team that has attempts, or after the verdict, only the  *)
(* publishing is left.                                                     *)
revealAndResolve(l, withProofs, hits) ==
    LET s == maybeOpenDraw(store)
        e == lobbyOf(l).epochId
        p == published(s, e)
    IN  /\ maybeOpenDrawOK(store)
        /\ s.attacks[e].revealed \/ revealOK(s, e)
        /\ IF p.lobbies[l].resolvedAtBlock # 0 \/ ~withProofs
           THEN /\ p.lobbies[l].resolvedAtBlock = 0 => Defenders(p.lobbies[l]) # {}
                /\ store' = p
           ELSE /\ resolveAllOK(p, l, hits)
                /\ store' = resolveAll(p, l, hits)
        /\ UNCHANGED block

FaultyUnpublished(attack) == ~attack.expired   \* a mutant: the published one too

unpublished(attack) == ~attack.revealed /\ ~attack.expired

(* Nobody revealed and the grace is over: the operation is cancelled.      *)
expireAttack(l) ==
    LET e == lobbyOf(l).epochId
        attack == store.attacks[e]
    IN  /\ unpublished(attack)
        /\ block >= attack.impactBlock + lobbyOf(l).graceBlocks
        /\ store' = [store EXCEPT
                        !.attacks[e] = [attack EXCEPT !.expired = TRUE,
                                                      !.status = "RESOLVED"],
                        !.lobbies[l] = [lobbyOf(l) EXCEPT !.status = "CANCELLED",
                                                          !.ending = "CANCELLED"],
                        !.activeLobbies = oneFewer(@)]
        /\ UNCHANGED block

-----------------------------------------------------------------------------
(* Payouts.                                                                *)

claimReward(w, l) ==
    LET lobby == lobbyOf(l)
        prize == lobby.rewardPerWinner
        fee   == IF w = lobby.creator /\ ~lobby.creatorSettled THEN creatorDue(lobby) ELSE 0
    IN  /\ lobby.status = "RESOLVED"
        /\ lobby.intercepted
        /\ lobby.seats[w].joined
        /\ ~lobby.seats[w].claimed
        /\ lobby.seats[w].isWinner
        /\ payable(w, prize + fee)
        /\ store' = [store EXCEPT
                        !.lobbies[l] =
                            [lobby EXCEPT
                                !.seats[w] = [lobby.seats[w] EXCEPT !.claimed = TRUE],
                                !.rewardsClaimed = @ + prize,
                                !.creatorSettled = @ \/ fee > 0],
                        !.balance = @ - prize - fee]
        /\ UNCHANGED block

claimRefund(w, l) ==
    LET lobby  == lobbyOf(l)
        seat   == lobby.seats[w]
        due    == IF seat.joined /\ ~seat.refunded THEN refundDue(lobby.ending, seat) ELSE 0
        bounty == IF w = lobby.creator /\ ~lobby.creatorSettled
                  THEN creatorRefundDue(lobby) ELSE 0
    IN  /\ due + bounty > 0
        /\ payable(w, due + bounty)
        /\ store' = [store EXCEPT
                        !.lobbies[l] =
                            [lobby EXCEPT
                                !.seats[w] = [seat EXCEPT !.refunded = @ \/ due > 0],
                                !.creatorSettled = @ \/ bounty > 0],
                        !.balance = @ - due - bounty]
        /\ UNCHANGED block

(* The protocol's own draw settles back into the pool, and anybody may ask *)
(* for it; a player's operation pays its creator, who must be the caller.  *)
settleCreator(l) ==
    LET lobby  == lobbyOf(l)
        amount == creatorDue(lobby)
        home   == lobby.creator = Game
    IN  /\ ~lobby.creatorSettled
        /\ lobby.ending # "NONE"
        /\ amount > 0
        /\ home \/ payable(lobby.creator, amount)
        /\ store' = [store EXCEPT
                        !.lobbies[l] = [lobby EXCEPT !.creatorSettled = TRUE],
                        !.globalDefensePool = IF home THEN @ + amount ELSE @,
                        !.balance = IF home THEN @ ELSE @ - amount]
        /\ UNCHANGED block

-----------------------------------------------------------------------------
Governance ==
    \/ \E p \in ParamSets : setParams(p)
    \/ \E i \in Intervals : setGlobalDefenseInterval(i)
    \/ \E b \in PauseValues : setPaused(b)
    \/ \E amount \in Withdrawals : withdrawProtocolFees(amount)

Scored(l) ==
    \/ \E hits \in SUBSET Defenders(lobbyOf(l)) :
        \/ resolveLobby(l, hits)
        \/ \E withProofs \in BOOLEAN : revealAndResolve(l, withProofs, hits)
    \/ \E subset \in SUBSET Defenders(lobbyOf(l)) :
        \E hits \in SUBSET subset : proveDefenses(l, subset, hits)
    \/ finalizeScoring(l)

Lifecycle(l) ==
    \/ startOperation(l)
    \/ cancelLobby(l)
    \/ unlockRound(l)
    \/ expireAttack(l)
    \/ settleCreator(l)
    \/ Scored(l)

Seated(w, l) ==
    \/ joinLobby(w, l)
    \/ leaveLobby(w, l)
    \/ \E count \in 1 .. store.params.maxProbesPerPlayer : buyProbes(w, l, count)
    \/ sendProbe(w, l)
    \/ submitDefense(w, l)
    \/ claimReward(w, l)
    \/ claimRefund(w, l)

Next ==
    \/ Tick
    \/ Governance
    \/ openGlobalDefense
    \/ \E w \in Players, config \in Configs, d \in 0 .. MaxDeadline :
        createLobby(w, config, d)
    \/ \E e \in EpochIds : completeAttack(e) \/ revealEpochAttack(e)
    \/ \E l \in LobbyIds : Lifecycle(l) \/ \E w \in Players : Seated(w, l)

Spec == Init /\ [][Next]_vars
=============================================================================
