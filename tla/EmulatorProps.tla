---------------------------- MODULE EmulatorProps ---------------------------
(***************************************************************************)
(* What the browser's own chain promises.                                  *)
(***************************************************************************)
EXTENDS Emulator

CONSTANTS
    Rooms,      \* the operations EveryRoomEnds speaks of
    Quorum      \* the fewest players the limits let an operation run with

ASSUME QuorumAssumption ==
    Quorum \in Nat \ {0} /\ \A s \in Starts : s.limits.minPlayers >= Quorum

-----------------------------------------------------------------------------
paidBackLater(lobby) ==
    MapThenSumSet(LAMBDA w : lobby.seats[w].paidIn,
                  {w \in seated(lobby) : ~lobby.seats[w].refunded})
    + IF lobby.creatorSettled THEN 0 ELSE lobby.startPrizePool

wonLater(lobby) ==
    lobby.outcome.rewardPerWinner
        * Cardinality({w \in lobby.outcome.winners : lobby.seats[w].payout # "PAID"})
    + IF lobby.creatorSettled THEN 0 ELSE completedCreatorDue(lobby)

inPlay(lobby) ==
    lobby.rewardPool + lobby.creatorFeeAccrued
    + IF lobby.status = "OPEN" THEN lobby.entryFeesCollected ELSE 0

owed(lobby) ==
    lobby.protocolFeeAccrued
    + CASE lobby.ending = "NONE"      -> inPlay(lobby)
        [] refundable(lobby)          -> paidBackLater(lobby)
        [] lobby.ending = "COMPLETED" -> wonLater(lobby)

(* The escrow holds exactly the Global Defense Pool, the protocol's fees   *)
(* and what each operation owes, however the settling was put off: nobody  *)
(* is paid twice, no claim can find the escrow short.                      *)
EscrowHoldsWhatIsOwed ==
    chain.escrow = chain.globalDefensePool
                   + MapThenSumSet(LAMBDA l : owed(chain.lobbies[l]), LobbyIds)

-----------------------------------------------------------------------------
(* An operation as its players know it: all but the block somebody first   *)
(* looked at its end.                                                      *)
viewOf(s, l) == [settleLobby(s, l).lobbies[l] EXCEPT !.outcome.resolvedAtBlock = 0]

later(s) == [s EXCEPT !.block = start.lastBlock]

(* Reading an operation early or late, block after block or only at the    *)
(* end, brings it to the same place.                                       *)
ReadingChangesNothing ==
    \A l \in playersRooms :
        viewOf(later(settleLobby(chain, l)), l) = viewOf(later(chain), l)

(* What a reload goes back to differs from what the tab had by nothing     *)
(* but readings: no move that was confirmed is lost with the tab.          *)
ReloadLosesNoMove ==
    /\ disk.block = chain.block
    /\ \A l \in playersRooms : l \in DOMAIN disk.lobbies /\ viewOf(disk, l) = viewOf(chain, l)

-----------------------------------------------------------------------------
(* The upkeep that rides on every block finds the draw open to it: were it *)
(* refused, the block timer would throw before it saves.                   *)
UpkeepNeverThrows == isGlobalDefenseDue(chain) => applyOpenGlobalDefenseOK(chain)

(* The pool falls only when a draw starts, and then all of it is that      *)
(* draw's bounty: no other step of this tab moves it, a reload apart.      *)
PoolFallsOnlyAtAStart ==
    [][chain'.globalDefensePool < chain.globalDefensePool /\ chain' # disk =>
          \E l \in LobbyIds \ playersRooms :
              /\ chain.lobbies[l].status = "OPEN"
              /\ chain'.lobbies[l].status # "OPEN"
              /\ chain'.lobbies[l].startPrizePool >= chain.globalDefensePool]_emulatorVars

-----------------------------------------------------------------------------
(* The operation as OperationLife knows it, settled to the current block.  *)

lifePhase(l) ==
    IF l \notin playersRooms THEN "none"
    ELSE LET lobby == viewOf(chain, l) IN
         CASE lobby.ending = "COMPLETED" -> "completed"
           [] lobby.ending = "UNPLAYED"  -> "refunding"
           [] lobby.status = "OPEN"      -> "open"
           [] OTHER                      -> "running"

lifeTeam(l) == IF l \notin playersRooms THEN {} ELSE seated(viewOf(chain, l))

lifePaid(l) ==
    IF l \notin playersRooms THEN {}
    ELSE {w \in Players : LET seat == viewOf(chain, l).seats[w]
                          IN  seat.refunded \/ seat.payout = "PAID"}

FirstLife ==
    INSTANCE OperationLife WITH Members <- Players,
        phase <- lifePhase(1), team <- lifeTeam(1), paid <- lifePaid(1)

(* The first operation lives the life every member is promised, whoever    *)
(* settles it and whenever, through reloads.                               *)
AnOperationIsWhatWasPromised == FirstLife!Spec

(* As long as blocks come and somebody looks, applications close and the   *)
(* attack is judged: no operation stays open or running for good.          *)
impactOf(lobby) ==
    getEpochStartBlock(lobby.currentEpochId, chain.limits.epochBlocks, InitialBlock)
    + chain.limits.epochBlocks

EveryRoomEnds ==
    \A l \in Rooms :
        (l \in LobbyIds /\ impactOf(chain.lobbies[l]) <= start.lastBlock)
            ~> (l \in LobbyIds /\ chain.lobbies[l].ending # "NONE")
=============================================================================
