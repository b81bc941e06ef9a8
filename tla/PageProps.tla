------------------------------ MODULE PageProps -----------------------------
(***************************************************************************)
(* What a page may be relied on for by the person in front of it.          *)
(***************************************************************************)
EXTENDS Page

(* Everything on screen was so once, and the chain does not go back: an    *)
(* ending, a launch or a result that is shown has happened, whichever      *)
(* answers overtook one another, and a claim in progress is about an       *)
(* operation that is over (useLobby.ts, useOperation.ts, useReveal.ts).    *)
PageTypeOK ==
    /\ page.head <= block
    /\ loadedLobby => there
    /\ phaseShown \in Phases
    /\ phaseShown = "CANCELLED" => room.ending \in RefundEndings
    /\ phaseShown = "RESULT" => block >= attackOf(1).impactBlock
    /\ phaseShown = "ATTACK_ACTIVE" => block >= attackOf(1).launchBlock
    /\ page.scored => room.resolvedAtBlock # 0
    /\ click.pc # "idle" => room.ending # "NONE"
    /\ nudging.attempts <= MAX_NUDGES /\ (nudging.mine => page.open)

-----------------------------------------------------------------------------
(* The page that has read everything there is in this block.               *)
phaseNow == deriveLobbyPhase(room, toAttack(attackOf(1), block), block)
seatNow  == room.seats[viewer]

(* The page offers what the contract would accept in the block on screen,  *)
(* and nothing else, but for one thing it is stricter about: probes are not*)
(* sold to a room that did not fill.  What the contract refuses to         *)
(* everybody (a pause, a draw it cannot open) no page is told.             *)
(* lobbyPhase.ts:243, 374 and 396, lobby.ts:39, useProtocolAdvance.ts:275. *)
OffersMatchTheRules ==
    (there /\ ~store.paused /\ maybeOpenDrawOK(store)) =>
        /\ (canJoinLobby(room, block) /\ ~seatNow.joined) <=> ENABLED joinLobby(viewer, 1)
        /\ offersLeave(seatNow, phaseNow) <=> ENABLED leaveLobby(viewer, 1)
        /\ offersDefense(seatNow, phaseNow, block) <=> ENABLED submitDefense(viewer, 1)
        /\ offersProbe(seatNow, phaseNow, store.params, block) <=> ENABLED sendProbe(viewer, 1)
        /\ offersPurchase(seatNow, phaseNow, store.params)
              <=> (phaseNow # "UNDERSUBSCRIBED" /\ ENABLED buyProbes(viewer, 1, 1))
        /\ offersCancel(room, block) <=> ENABLED cancelLobby(1)

(* The buttons of an up-to-date page come to exactly what the contract     *)
(* owes, and are lit exactly when it owes anything; a seat that may still  *)
(* leave was paid what joining is quoted at; the pool on screen is never   *)
(* more than there is to win.                                              *)
(* useSettlement.ts:90, codec.ts:414, economics.ts:36, 62 and 71.          *)
AmountsAddUp ==
    there =>
        LET outcome == toOutcome(room) IN
        /\ toCollect(room, outcome, seatNow, viewer) = owedNow
        /\ (owedNow > 0) <=> \/ refundOffered(room, outcome, seatNow, viewer)
                             \/ payoutOffered(room, outcome, seatNow, viewer)
        /\ offersLeave(seatNow, phaseNow) =>
              /\ seatNow.paidIn - seatNow.probesPaid = calculateParticipantCost(room)
        /\ room.ending = "NONE" =>
              calculatePrizeBalance(room) <=
              room.rewardPool + IF room.status = "OPEN" THEN room.entryFeesCollected ELSE 0

-----------------------------------------------------------------------------
(* A click that needs several transactions is not left half done by any of *)
(* its awaits: made on a page that showed all that was owed, it ends with  *)
(* nothing owed, and one that fails has paid nothing or everything (unless *)
(* an answer was lost).  useSettlement.ts:209 and 253.                     *)
ClickIsAllOrNothing ==
    (click.shown >= click.owed) =>
        /\ click.pc = "done" => owedNow = 0
        /\ click.pc = "failed" => click.got = 0 \/ owedNow = 0

-----------------------------------------------------------------------------
(* While a finished round is on screen without its result, the page has a  *)
(* request on its way, another scheduled, or has spent its budget.  The    *)
(* only other ways to stop: the keeper answered that it was done, or a     *)
(* page that was left made the request (useProtocolKeeper.ts:270).         *)
askedAll == nudging.attempts >= MAX_NUDGES

atRest == nudging.job = {} /\ ~nudging.timer /\ nudging.ran = nudging.retry

AsksUntilAnswered ==
    (visit.nudging /\ page.open /\ dueOn(page) /\ atRest) =>
        askedAll \/ nudging.succeeded \/ nudging.orphaned

(* Once nothing more happens to the operation, an open page comes to show  *)
(* it as it is, and stays there: no answer that was overtaken is the last  *)
(* word (useLobby.ts:111, useOperation.ts:107).                            *)
PageCatchesUp ==
    (\A h \in {"lobby", "attack"} : visit.reads[h] > 0)
        => <>[](there /\ page.open /\ block >= visit.from => phaseShown = phaseNow)
=============================================================================
