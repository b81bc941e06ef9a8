--------------------------- MODULE AegylaxLiveness --------------------------
(***************************************************************************)
(* What must eventually happen, and who is counted on for it.              *)
(*                                                                         *)
(* No call here belongs to one party: completing, cancelling, expiring and *)
(* finalizing are open to everybody, and the keeper and every open browser *)
(* sweep them.  Revealing and scoring are not counted on: the confidential *)
(* network may never sign.  Nobody is counted on to play.                  *)
(***************************************************************************)
EXTENDS AegylaxProps

CONSTANT Rooms      \* the operations the assumptions and promises speak of

inBounds(l) ==
    /\ l \in LobbyIds
    /\ attackOf(l).impactBlock + attackOf(l).graceBlocks <= MaxBlock
    /\ attackOf(l).impactBlock + lobbyOf(l).graceBlocks <= MaxBlock

ended(l) == l \in LobbyIds /\ lobbyOf(l).ending # "NONE"

(* Weak fairness of finalizeScoring, its guard in the place of ENABLED.    *)
finalizedByAnybody(l) ==
    \/ []<>~(l \in LobbyIds /\ finalizeIfReadyOK(store, l))
    \/ []<><<l \in LobbyIds /\ finalizeScoring(l)>>_vars

sweptByAnybody(l) ==
    /\ WF_vars(l \in LobbyIds /\ cancelLobby(l))
    /\ WF_vars(l \in LobbyIds /\ unlockRound(l))
    /\ finalizedByAnybody(l)
    /\ WF_vars(l \in LobbyIds /\ expireAttack(l))

(* Those who are owed money come for it.                                   *)
claimedByItsOwners(l) ==
    /\ WF_vars(l \in LobbyIds /\ settleCreator(l))
    /\ \A w \in Players : /\ WF_vars(l \in LobbyIds /\ claimReward(w, l))
                          /\ WF_vars(l \in LobbyIds /\ claimRefund(w, l))

FairSpec ==
    Spec /\ WF_vars(Tick) /\ \A l \in Rooms : sweptByAnybody(l) /\ claimedByItsOwners(l)

-----------------------------------------------------------------------------
(* Every operation ends, whether or not its players act, the attack is     *)
(* ever published, or the game is paused and never resumed.                *)
EveryRoomEnds == \A l \in Rooms : inBounds(l) ~> ended(l)

(* And then every wei it holds can be collected: no ending leaves money    *)
(* behind that no claim, refund or settlement reaches.                     *)
EveryWeiLeaves == \A l \in Rooms : inBounds(l) ~> (ended(l) /\ owed(lobbyOf(l)) = 0)
=============================================================================
