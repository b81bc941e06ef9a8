------------------------------ MODULE Emulator ------------------------------
(***************************************************************************)
(* The browser's own chain at work: its writes, its reads, its block timer *)
(* and the copy of it in localStorage.                                     *)
(*                                                                         *)
(* A write waits a moment and is then applied in one go (applyWrite), so   *)
(* an action is one application, with the block it finds.  A write that    *)
(* is refused keeps the settling it did first, and is saved like any       *)
(* other; a read settles too and is not saved.  A page that is reloaded    *)
(* starts from what was saved.                                             *)
(***************************************************************************)
EXTENDS EmulatorChain

CONSTANTS
    Configs,        \* the terms a player may ask for
    Creators,       \* bound: the players who open operations
    Rejoins,        \* whether the page offers a seat to a player who has one
    Starts,         \* where the chain is picked up: its limits, the pile older rounds left,
                    \* and bounds: the operations players then open, the last block
    MaxDeadline     \* bound: the latest block applications close on

ASSUME StartsAssumption ==
    /\ Starts \subseteq [limits : ProtocolLimits, pile : Nat, rooms : Nat, lastBlock : Nat]
    /\ \A s \in Starts : s.lastBlock >= InitialBlock

ASSUME TermsAssumption ==
    /\ Creators \subseteq Players
    /\ Configs \subseteq [minPlayers : Nat, maxPlayers : Nat, entryPrice : Nat,
                          commission : Nat, prizePool : Nat]

VARIABLES chain, disk, start

emulatorVars == <<chain, disk, start>>

(* A fresh chain, or one restored with a pile that older rounds left.  The *)
(* rooms of those rounds, over and paid, are not kept in the model.        *)
Init ==
    /\ start \in Starts
    /\ chain = [createEmulatorState(start.limits) EXCEPT !.globalDefensePool = start.pile,
                                           !.escrow = start.pile]
    /\ disk = chain

LobbyIds == DOMAIN chain.lobbies

(* A mutant: a write is saved only with the next block.                    *)
FaultyPersist(s) == chain' = s /\ UNCHANGED <<disk, start>>

(* saveEmulatorState after a write or a block.                             *)
persist(s) == chain' = s /\ disk' = s /\ UNCHANGED start

-----------------------------------------------------------------------------
Tick == chain.block < start.lastBlock /\ persist(mineBlock(chain))

readLobby(l) == chain' = settleLobby(chain, l) /\ UNCHANGED <<disk, start>>

getGameStats == chain' = readStats(chain) /\ UNCHANGED <<disk, start>>

(* loadOrCreateEmulatorState: whatever this tab had in memory is gone.     *)
Reload == chain' = disk /\ UNCHANGED <<disk, start>>

(* A write that throws after settling.                                     *)
refused(l) == persist(settleLobby(chain, l))

-----------------------------------------------------------------------------
playersRooms == {l \in LobbyIds : chain.lobbies[l].creator # Protocol}

createLobby(w, config, deadlineBlock) ==
    /\ Cardinality(playersRooms) < start.rooms
    /\ deadlineBlock >= chain.block
    /\ validateLobbyConfig(chain, config)
    /\ canEscrow(chain, w, config.prizePool + chain.limits.joinFee)
    /\ persist(applyCreateLobby(chain, w, config, deadlineBlock))

openGlobalDefense ==
    /\ applyOpenGlobalDefenseOK(chain)
    /\ persist(applyOpenGlobalDefense(chain))

(* A mutant: the room's size is all that is looked at.                     *)
FaultyCanJoinLobby(lobby) ==
    lobby.status = "OPEN" /\ lobby.participantCount < lobby.config.maxPlayers

canJoinLobby(lobby) ==
    /\ lobby.status = "OPEN"
    /\ chain.block < lobby.deadlineBlock
    /\ lobby.participantCount < lobby.config.maxPlayers

commissionOf(lobby) == IF lobby.creator = Protocol THEN 0 ELSE lobby.config.commission

(* The only write on an operation that does not settle it first, and one   *)
(* that does not ask whether the player has a seat already.                *)
joinLobby(w, l) ==
    LET lobby == chain.lobbies[l]
        cost  == lobby.config.entryPrice + commissionOf(lobby)
        paid  == escrow(chain, w, cost)
    IN  /\ canJoinLobby(lobby)
        /\ Rejoins \/ ~lobby.seats[w].joined
        /\ canEscrow(chain, w, cost)
        /\ persist([paid EXCEPT !.lobbies[l] =
               [lobby EXCEPT
                   !.seats[w] = [NoSeat EXCEPT !.joined = TRUE, !.paidIn = cost],
                   !.participantCount = @ + 1,
                   !.entryFeesCollected = @ + lobby.config.entryPrice,
                   !.creatorFeeAccrued = @ + commissionOf(lobby)]])

(* A mutant: the price of the probes is taken for commission.              *)
FaultyCommissionPaid(lobby, seat) ==
    IF seat.paidIn > lobby.config.entryPrice THEN seat.paidIn - lobby.config.entryPrice ELSE 0

commissionPaid(lobby, seat) ==
    LET consumed == seat.probesPaid + lobby.config.entryPrice
    IN  IF seat.paidIn > consumed THEN seat.paidIn - consumed ELSE 0

leaveLobby(w, l) ==
    LET s     == settleLobby(chain, l)
        lobby == s.lobbies[l]
        seat  == lobby.seats[w]
    IN  /\ lobby.status = "OPEN"
        /\ seat.joined
        /\ persist(payOut([s EXCEPT !.lobbies[l] =
               [lobby EXCEPT
                   !.seats[w] = NoSeat,
                   !.participantCount = IF @ > 0 THEN @ - 1 ELSE 0,
                   !.entryFeesCollected = @ - lobby.config.entryPrice,
                   !.creatorFeeAccrued = @ - commissionPaid(lobby, seat),
                   !.rewardPool = @ - seat.probesPaid]], w, seat.paidIn))

buyDrone(w, l) ==
    LET s     == settleLobby(chain, l)
        lobby == s.lobbies[l]
        seat  == lobby.seats[w]
    IN  /\ lobby.status \in {"OPEN", "READY", "ACTIVE"}
        /\ seat.joined /\ seat.defendedAt = 0
        /\ chain.limits.freeCount + seat.purchased < chain.limits.maxCount
        /\ canEscrow(s, w, chain.limits.price)
        /\ persist([escrow(s, w, chain.limits.price) EXCEPT !.lobbies[l] =
               [lobby EXCEPT
                   !.seats[w] = [seat EXCEPT !.purchased = @ + 1,
                                             !.paidIn = @ + chain.limits.price,
                                             !.probesPaid = @ + chain.limits.price],
                   !.rewardPool = @ + chain.limits.price]])

-----------------------------------------------------------------------------
(* submitPrivateAction: a probe or the one defense, while the threat flies.*)

mayAct(s, lobby, w) ==
    LET seat == lobby.seats[w] IN
    /\ seat.joined /\ seat.defendedAt = 0
    /\ lobby.attack.status = "LAUNCHED"
    /\ seat.lastProbeBlock # 0 => s.block >= seat.lastProbeBlock + PROBE_DELAY_BLOCKS

sendReconProbe(w, l) ==
    LET s     == settleLobby(chain, l)
        lobby == s.lobbies[l]
        seat  == lobby.seats[w]
    IN  /\ mayAct(s, lobby, w)
        /\ seat.probes < chain.limits.freeCount + seat.purchased
        /\ persist([s EXCEPT !.lobbies[l].seats[w] =
               [seat EXCEPT !.probes = @ + 1, !.lastProbeBlock = s.block, !.actions = @ + 1]])

(* Whether the point will be on the threat's line is fixed by now, since   *)
(* the trajectory was drawn when the operation started.                    *)
submitDefense(w, l, onTarget) ==
    LET s     == settleLobby(chain, l)
        lobby == s.lobbies[l]
        seat  == lobby.seats[w]
    IN  /\ mayAct(s, lobby, w)
        /\ persist([s EXCEPT !.lobbies[l].seats[w] =
               [seat EXCEPT !.defendedAt = s.block, !.onTarget = onTarget, !.actions = @ + 1]])

revealAttack(l) ==
    LET s == settleLobby(chain, l) IN
    /\ s.lobbies[l].attack.status = "RESOLVED" /\ s.lobbies[l].outcome.known
    /\ ~s.lobbies[l].revealed
    /\ persist([s EXCEPT !.lobbies[l].revealed = TRUE])

-----------------------------------------------------------------------------
(* Taking money out.                                                       *)

refundable(lobby) == lobby.ending \in {"UNPLAYED", "CANCELLED"}

completedCreatorDue(lobby) ==
    LET paid == lobby.outcome.rewardPerWinner * Cardinality(lobby.outcome.winners)
        dust == IF lobby.outcome.winners = {} THEN 0 ELSE lobby.rewardPool - paid
    IN  lobby.creatorFeeAccrued + dust

creatorDue(lobby) ==
    IF refundable(lobby) THEN lobby.startPrizePool ELSE completedCreatorDue(lobby)

claimReward(w, l) ==
    LET s     == settleLobby(chain, l)
        lobby == s.lobbies[l]
        seat  == lobby.seats[w]
        fee   == IF w = lobby.creator /\ ~lobby.creatorSettled
                 THEN completedCreatorDue(lobby) ELSE 0
    IN  /\ lobby.outcome.known /\ lobby.attack.status = "RESOLVED"
        /\ seat.joined /\ seat.defendedAt # 0
        /\ w \in lobby.outcome.winners
        /\ seat.payout # "PAID" /\ lobby.outcome.rewardPerWinner > 0
        /\ persist(payOut([s EXCEPT !.lobbies[l] =
               [lobby EXCEPT !.seats[w].payout = "PAID",
                             !.creatorSettled = @ \/ fee > 0]],
               w, lobby.outcome.rewardPerWinner + fee))

claimRefund(w, l) ==
    LET s     == settleLobby(chain, l)
        lobby == s.lobbies[l]
        seat  == lobby.seats[w]
        due   == IF seat.joined /\ ~seat.refunded THEN seat.paidIn ELSE 0
        launch == IF w = lobby.creator /\ ~lobby.creatorSettled THEN lobby.startPrizePool ELSE 0
    IN  /\ refundable(lobby)
        /\ due + launch > 0
        /\ persist(payOut([s EXCEPT !.lobbies[l] =
               [lobby EXCEPT !.seats[w].refunded = @ \/ due > 0,
                             !.creatorSettled = @ \/ launch > 0]], w, due + launch))

(* Marks the operation settled before it looks at the sum: asked for       *)
(* nothing, it throws and leaves the mark.                                 *)
settleCreator(l) ==
    LET s      == settleLobby(chain, l)
        lobby  == s.lobbies[l]
        marked == [s EXCEPT !.lobbies[l].creatorSettled = TRUE]
    IN  /\ lobby.ending # "NONE" /\ ~lobby.creatorSettled
        /\ persist(IF creatorDue(lobby) = 0 THEN marked
                   ELSE IF lobby.creator = Protocol
                   THEN [marked EXCEPT !.globalDefensePool = @ + creatorDue(lobby)]
                   ELSE payOut(marked, lobby.creator, creatorDue(lobby)))

-----------------------------------------------------------------------------
Seated(w, l) ==
    \/ joinLobby(w, l)
    \/ leaveLobby(w, l)
    \/ buyDrone(w, l)
    \/ sendReconProbe(w, l)
    \/ \E onTarget \in BOOLEAN : submitDefense(w, l, onTarget)
    \/ claimReward(w, l)
    \/ claimRefund(w, l)

Lifecycle(l) == readLobby(l) \/ refused(l) \/ revealAttack(l) \/ settleCreator(l)

Next ==
    \/ Tick
    \/ Reload
    \/ getGameStats
    \/ openGlobalDefense
    \/ \E w \in Creators, config \in Configs, d \in 0 .. MaxDeadline : createLobby(w, config, d)
    \/ \E l \in LobbyIds : Lifecycle(l) \/ \E w \in Players : Seated(w, l)

Spec == Init /\ [][Next]_emulatorVars

(* Blocks go on being mined and somebody goes on looking at the page: weak *)
(* fairness of Tick and of getGameStats, their guards in place of ENABLED. *)
BlocksGoOn ==
    []<>(chain.block = start.lastBlock) \/ []<><<Tick>>_emulatorVars

SomebodyLooks ==
    []<>(readStats(chain) = chain) \/ []<><<getGameStats>>_emulatorVars

FairSpec == Spec /\ BlocksGoOn /\ SomebodyLooks
=============================================================================
