---------------------------- MODULE AegylaxProps ----------------------------
(***************************************************************************)
(* What the game contract promises, over every interleaving of its entry   *)
(* points.                                                                 *)
(***************************************************************************)
EXTENDS AegylaxGame

(* Every field of the storage holds a value of its declared type; lobby    *)
(* and epoch references point at something that exists.                    *)
TypeOK ==
    /\ block \in Nat
    /\ store \in GameStorage(store.balance)
    /\ \A e \in EpochIds : store.globalDefenseLobby[e] \in {0} \cup LobbyIds

-----------------------------------------------------------------------------
(* What the contract still owes on one operation.                          *)

owedInPlay(lobby) ==
    lobby.rewardPool + lobby.creatorFeeAccrued
    + IF lobby.status = "OPEN" THEN lobby.entryFeesCollected ELSE 0

owedBack(lobby) ==
    paidInBy(lobby, {w \in Joined(lobby) : ~lobby.seats[w].refunded})
    + IF lobby.creatorSettled THEN 0 ELSE lobby.startPrizePool

owedForTheRound(lobby) ==
    lobby.rewardPerWinner
        * Cardinality({w \in Winners(lobby) : ~lobby.seats[w].claimed})
    + IF lobby.creatorSettled THEN 0 ELSE creatorDue(lobby)

owed(lobby) ==
    CASE lobby.ending = "NONE"          -> owedInPlay(lobby)
      [] lobby.ending \in RefundEndings -> owedBack(lobby)
      [] lobby.ending = "COMPLETED"     -> owedForTheRound(lobby)

(* No sum of ether is ever asked for more than it holds, so no checked     *)
(* subtraction reverts a leave, a verdict, a refund or a claim that the    *)
(* rules allow.                                                            *)
nothingOverdrawn ==
    /\ store.balance >= 0 /\ store.globalDefensePool >= 0
    /\ \A l \in LobbyIds :
          LET lobby == lobbyOf(l) IN
          /\ lobby.entryFeesCollected >= 0 /\ lobby.creatorFeeAccrued >= 0
          /\ lobby.rewardPool >= 0
          /\ lobby.ending = "COMPLETED" => creatorDue(lobby) >= 0

(* The contract holds, to the wei, the treasury, the Global Defense Pool   *)
(* and what every operation still owes: nobody is paid twice, no wei is    *)
(* stranded and none is promised to two places, whatever the order of      *)
(* joins, leaves, probes, verdicts, cancellations and claims.              *)
Solvent ==
    /\ nothingOverdrawn
    /\ store.balance =
          store.protocolTreasury + store.globalDefensePool
          + MapThenSumSet(LAMBDA l : owed(lobbyOf(l)), LobbyIds)

-----------------------------------------------------------------------------
(* An epoch's attack has one fate: its geometry is published or it expires.*)
(* A team is paid by a verdict only on a published one and refunded as     *)
(* failed only on an unpublished one, so no operation is both scored and   *)
(* called off, whichever of the calls raced first.                         *)
OneFate ==
    \A l \in LobbyIds :
        LET attack == attackOf(l) IN
        /\ ~(attack.revealed /\ attack.expired)
        /\ lobbyOf(l).ending = "COMPLETED" =>
              attack.revealed /\ \A w \in Players : ~lobbyOf(l).seats[w].refunded
        /\ lobbyOf(l).ending = "CANCELLED" =>
              attack.expired /\ \A w \in Players : ~lobbyOf(l).seats[w].claimed

(* Once the engine has been told to unlock an attack, no team on it can    *)
(* send a probe or a defense: what is readable can no longer be acted on.  *)
NoMoveAfterUnlock ==
    [][\A l \in LobbyIds :
          attackOf(l).decryptionUnlocked =>
              lobbyOf(l)'.validActions = lobbyOf(l).validActions]_vars

(* A defense comes at least the climb of a probe after the last probe of   *)
(* its sender, so a reading is never spent the moment it is bought.        *)
ReadingCostsTime ==
    \A l \in LobbyIds, w \in Players :
        LET seat == lobbyOf(l).seats[w] IN
        seat.defendedAt # 0 /\ seat.lastProbeBlock # 0 =>
            seat.defendedAt >= seat.lastProbeBlock + DELAY_BLOCKS

-----------------------------------------------------------------------------
inGrace(l) == lobbyOf(l).resolvedAtBlock < attackOf(l).impactBlock + attackOf(l).graceBlocks

(* The crown is the earliest hit, ties sharing it, however the proofs were *)
(* batched and ordered; and a verdict given inside the grace window has    *)
(* judged every defense of the team.                                       *)
CrownIsEarliest ==
    \A l \in LobbyIds :
        LET lobby == lobbyOf(l)
            hits  == {w \in Players : lobby.seats[w].revealed /\ lobby.seats[w].intercepted}
        IN  /\ \A w \in Players :
                  lobby.seats[w].isWinner <=>
                      w \in hits /\ \A v \in hits :
                          ~(lobby.seats[v].defendedAt < lobby.seats[w].defendedAt)
            /\ lobby.resolvedAtBlock # 0 /\ inGrace(l) =>
                  \A w \in Defenders(lobby) : lobby.seats[w].revealed

(* After the verdict nothing about it moves: no later proof, reveal or     *)
(* expiry changes who won or what a share is.                              *)
VerdictIsFinal ==
    [][\A l \in LobbyIds :
          lobbyOf(l).resolvedAtBlock # 0 =>
              /\ Winners(lobbyOf(l))' = Winners(lobbyOf(l))
              /\ lobbyOf(l)'.rewardPerWinner = lobbyOf(l).rewardPerWinner
              /\ lobbyOf(l)'.ending = lobbyOf(l).ending]_vars

(* The planet's tally counts an attack once however many teams stopped it, *)
(* and only attacks some team did stop.                                    *)
InterceptionsCountedOnce ==
    /\ store.interceptedAttacks =
          Cardinality({e \in EpochIds : store.attacks[e].intercepted})
    /\ \A e \in EpochIds :
          store.attacks[e].intercepted <=>
              \E l \in LobbyIds : /\ lobbyOf(l).epochId = e
                                  /\ lobbyOf(l).resolvedAtBlock # 0
                                  /\ Winners(lobbyOf(l)) # {}

-----------------------------------------------------------------------------
(* The protocol's own Global Defense draw.                                 *)

draws == {l \in LobbyIds : lobbyOf(l).creator = Game}

(* The Global Defense Pool falls only when a draw starts, and then the     *)
(* whole pile goes to that room: opening, filling, closing or topping up a *)
(* draw never moves it, so an under-filled room cannot hide the jackpot.   *)
PoolFallsOnlyAtAStart ==
    [][store'.globalDefensePool < store.globalDefensePool =>
          \E l \in draws : /\ lobbyOf(l).status = "OPEN"
                           /\ lobbyOf(l)'.status # "OPEN"
                           /\ lobbyOf(l)'.startPrizePool = store.globalDefensePool]_vars

(* Nothing outside the upkeep stands in its way: the next draw's epoch has *)
(* a number left, and no member of a leftover draw refuses what it paid.   *)
Unhindered ==
    /\ store.interval # 0 => drawEpoch(store) < U32
    /\ unfilledPastDraw(store) # 0 =>
          unpaid(lobbyOf(unfilledPastDraw(store))) \cap Refusers = {}

(* The draw's upkeep rides on every ordinary write, and can revert it: one *)
(* member of a leftover draw who refuses his refund does, for everybody.   *)
(* But for that, and for the last epoch number, the upkeep's own steps     *)
(* never disagree: whenever drawDue says a draw is due, openDraw's guards  *)
(* let it open, and a leftover room's money is there to be paid back.      *)
OrdinaryWritesGoThrough == Unhindered => maybeOpenDrawOK(store)

(* A draw flies in the draw epoch it is booked under, closes before it     *)
(* flies, and no two draws share an attack.                                *)
DrawsKeepTheCalendar ==
    /\ \A e \in EpochIds :
          store.globalDefenseLobby[e] # 0 =>
              /\ store.globalDefenseLobby[e] \in draws
              /\ lobbyOf(store.globalDefenseLobby[e]).epochId = e
              /\ lobbyOf(store.globalDefenseLobby[e]).deadlineBlock
                    < store.attacks[e].launchBlock
    /\ \A l, m \in draws : lobbyOf(l).epochId = lobbyOf(m).epochId => l = m
=============================================================================
