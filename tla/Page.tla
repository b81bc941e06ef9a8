--------------------------------- MODULE Page -------------------------------
(***************************************************************************)
(* One browser tab with the page of an operation open (pages/LobbyPage.tsx *)
(* and its hooks).  Everything on screen was read some time ago: the head  *)
(* (useEpochClock), the operation (useLobby), its attack (useOperation)    *)
(* and its result (useReveal) are separate reads, each an await, and none  *)
(* is cancelled by a later one.  The page asks the keeper to finish a      *)
(* round (useProtocolKeeper) and collects what is owed (useSettlement),    *)
(* one transaction after another.                                          *)
(***************************************************************************)
EXTENDS Views

CONSTANTS
    MAX_NUDGES,     \* requests the page makes of the keeper for one attack (10)
    Visits,         \* the visits explored
    Author          \* bound: who opens the one operation

Hooks == {"lobby", "seats", "attack", "reveal"}

(* viewer: whose tab it is.  reads: how many reads of each hook may be in  *)
(* flight.  leaves: how often the page is left and opened again; nudging:  *)
(* whether the keeper is asked; presses and losses: claims pressed, and    *)
(* answers lost.  probes: whether the viewer buys and sends them;         *)
(* defenders: who sends a defense.  from: the first block the tab looks at.*)
(* params: the owner's, for the whole visit; until: its last block.        *)
ASSUME PageAssumption ==
    /\ IncomingBlocks \in Nat /\ MAX_NUDGES \in Nat \ {0}
    /\ Author \in Players
    /\ Visits \subseteq
          [ viewer : Players, reads : [Hooks -> Nat], leaves : Nat, nudging : BOOLEAN,
            presses : Nat, losses : Nat, probes : BOOLEAN, defenders : SUBSET Players, from : Nat,
            params : ParamSets, until : 0 .. MaxBlock ]

VARIABLES
    visit,      \* the visit, with what is left of its bounds
    page,       \* the React state
    reads,      \* per hook, the answers in flight
    nudging,    \* the keeper hook's maps, and the mounted instance's timer
    click       \* the claim in progress

pageVars == <<block, store, visit, page, reads, nudging, click>>

viewer == visit.viewer
room == lobbyOf(1)
there == LobbyIds # {}

(* What the page knows before anything has answered.                       *)
NoLobby == [status |-> "null"]

Blank ==
    [ open |-> TRUE, head |-> Genesis, lobby |-> NoLobby, outcome |-> NoOutcome,
      seat |-> EmptySeat, attack |-> Unloaded, loaded |-> FALSE, scored |-> FALSE ]

NotRun == -1

(* The maps outlive the component; the retry counter, its timer and what   *)
(* the effect last ran for belong to the instance on screen.               *)
NoNudge ==
    [ attempts |-> 0, job |-> {}, mine |-> FALSE, succeeded |-> FALSE,
      timer |-> FALSE, retry |-> 0, ran |-> NotRun, orphaned |-> FALSE ]

NoClick ==
    [ pc |-> "idle", kind |-> "none", forSeat |-> FALSE, forCreator |-> FALSE,
      shown |-> 0, owed |-> 0, got |-> 0 ]

PageInit ==
    /\ Init
    /\ visit \in Visits /\ store.params = visit.params
    /\ page = Blank
    /\ reads = [h \in Hooks |-> {}]
    /\ nudging = NoNudge
    /\ click = NoClick

-----------------------------------------------------------------------------
(* The chain without this tab's claims.                                    *)

NextBlock == block < visit.until /\ Tick

Chain ==
    \/ NextBlock
    \/ \E config \in Configs, d \in 0 .. MaxDeadline : createLobby(Author, config, d)
    \/ /\ there
       /\ \/ \E w \in Players : joinLobby(w, 1)
          \/ \E w \in Players : leaveLobby(w, 1)
          \/ visit.probes /\ (buyProbes(viewer, 1, 1) \/ sendProbe(viewer, 1))
          \/ \E w \in visit.defenders : submitDefense(w, 1)
          \/ startOperation(1)
          \/ cancelLobby(1)
          \/ unlockRound(1)
          \/ \E hits \in SUBSET Defenders(room), withProofs \in BOOLEAN :
                revealAndResolve(1, withProofs, hits)
          \/ expireAttack(1)

-----------------------------------------------------------------------------
(* What is on screen.                                                      *)

loadedLobby == page.lobby # NoLobby

phaseShown == deriveLobbyPhase(page.lobby, page.attack, page.head)

dueOn(p) ==
    /\ p.lobby # NoLobby
    /\ canRevealAttack(deriveLobbyPhase(p.lobby, p.attack, p.head), p.loaded, p.scored)

(* React renders: the keeper's effect forgets what it ran for when the     *)
(* facts it depends on change.                                             *)
renders(p) ==
    /\ page' = p
    /\ nudging' = [nudging EXCEPT !.ran = IF dueOn(p) THEN @ ELSE NotRun]

-----------------------------------------------------------------------------
(* Reading.                                                                *)

(* useEpochClock: a head older than the one asked for last is dropped.     *)
HeadHeard ==
    /\ page.head < block
    /\ renders([page EXCEPT !.head = block])
    /\ UNCHANGED <<block, store, visit, reads, click>>

(* What the call of a hook answers if it is served now: the lobby, this    *)
(* wallet's participant, the attack as the lens derives it, and whether    *)
(* this team is scored on a published trajectory.                          *)
readLobby == room
readParticipants == room.seats[viewer]
readAttack == toAttack(attackOf(1), block)
readReveal == attackOf(1).revealed /\ room.resolvedAtBlock # 0

answer(h) ==
    CASE h = "lobby"  -> readLobby
      [] h = "seats"  -> readParticipants
      [] h = "attack" -> readAttack
      [] h = "reveal" -> readReveal

(* A mutant: an attack is read once, and by events after that.             *)
FaultyRefreshes(h) == h = "attack" => page.attack = Unloaded

(* Every hook is refreshed by every block as well as by the events.        *)
refreshes(h) == TRUE

(* An answer that changes nothing is left out where only one is in flight: *)
(* it overtakes no other.                                                  *)
tells(h) ==
    visit.reads[h] = 1 =>
        CASE h = "lobby"  -> page.lobby # answer(h)
          [] h = "seats"  -> page.seat # answer(h)
          [] h = "attack" -> page.attack # answer(h)
          [] h = "reveal" -> ~page.loaded \/ page.scored # answer(h)

(* Participants are read after the lobby; the attack and the result wait   *)
(* for the lobby to name the attack.                                       *)
Ask(h) ==
    /\ there /\ page.open /\ block >= visit.from
    /\ h # "lobby" => loadedLobby
    /\ refreshes(h) /\ tells(h)
    /\ Cardinality(reads[h] \cup {answer(h)}) <= visit.reads[h]
    /\ reads' = [reads EXCEPT ![h] = @ \cup {answer(h)}]
    /\ UNCHANGED <<block, store, visit, page, nudging, click>>

(* Answers land in any order, and each replaces what is there.  The lobby's*)
(* own read goes on to its outcome once the first call has answered; an    *)
(* attack's is dropped while no lobby on screen names one.                 *)
shows(h, read) ==
    CASE h = "lobby"  -> [page EXCEPT !.lobby = read, !.outcome = toOutcome(room)]
      [] h = "seats"  -> [page EXCEPT !.seat = read]
      [] h = "attack" -> IF loadedLobby THEN [page EXCEPT !.attack = read] ELSE page
      [] h = "reveal" -> IF loadedLobby THEN [page EXCEPT !.loaded = TRUE, !.scored = read]
                         ELSE page

Land(h) ==
    \E read \in reads[h] :
        /\ reads' = [reads EXCEPT ![h] = @ \ {read}]
        /\ renders(shows(h, read))
        /\ UNCHANGED <<block, store, visit, click>>

(* A read that failed: without its lobby the page forgets the attack too;  *)
(* a failed read of the result still counts as one.                        *)
ReadFails(h) ==
    /\ visit.losses > 0
    /\ visit' = [visit EXCEPT !.losses = @ - 1]
    /\ \E read \in reads[h] : reads' = [reads EXCEPT ![h] = @ \ {read}]
    /\ renders(CASE h = "lobby"  -> [Blank EXCEPT !.head = page.head]
                 [] h = "reveal" -> [page EXCEPT !.loaded = loadedLobby \/ @]
                 [] OTHER -> page)
    /\ UNCHANGED <<block, store, click>>

-----------------------------------------------------------------------------
(* Asking the keeper for the result.                                       *)

(* The effect: once per change of the facts it depends on.                 *)
AsksTheKeeper ==
    /\ visit.nudging /\ page.open /\ dueOn(page) /\ nudging.ran # nudging.retry
    /\ nudging' =
          IF "auto" \in nudging.job \/ nudging.succeeded \/ nudging.attempts >= MAX_NUDGES
          THEN [nudging EXCEPT !.ran = nudging.retry]
          ELSE [nudging EXCEPT !.ran = nudging.retry, !.attempts = @ + 1,
                               !.job = @ \cup {"auto"}, !.mine = TRUE]
    /\ UNCHANGED <<block, store, visit, page, reads, click>>

(* The Reveal control joins the job in flight, or begins one.              *)
RevealByHand ==
    /\ visit.nudging /\ page.open /\ dueOn(page) /\ "hand" \notin nudging.job
    /\ nudging' = [nudging EXCEPT !.job = @ \cup {"hand"}]
    /\ UNCHANGED <<block, store, visit, page, reads, click>>

(* A mutant: a failed try schedules nothing.                               *)
FaultyAgain(mine, attempts) == FALSE

(* Another try is scheduled by the instance that made this one.            *)
again(mine, attempts) == mine /\ attempts < MAX_NUDGES

(* The keeper's answer, good or not, whatever it did on the chain: an ok   *)
(* says that its pass ended, not that the round is scored.  The page reads *)
(* the result once more before it believes it.                             *)
KeeperAnswers(ok) ==
    /\ nudging.job # {}
    /\ LET auto  == "auto" \in nudging.job
           after == IF ok /\ nudging.mine
                    THEN shows("reveal", answer("reveal")) ELSE page
       IN  /\ page' = after
           /\ nudging' =
                 [nudging EXCEPT
                     !.job = {}, !.mine = FALSE,
                     !.succeeded = @ \/ (auto /\ ok),
                     !.timer = @ \/ (auto /\ ~ok /\ again(nudging.mine, nudging.attempts)),
                     !.orphaned = @ \/ (auto /\ ~ok /\ ~nudging.mine),
                     !.ran = IF dueOn(after) THEN @ ELSE NotRun]
    /\ UNCHANGED <<block, store, visit, reads, click>>

RetryTimerFires ==
    /\ nudging.timer
    /\ nudging' = [nudging EXCEPT !.timer = FALSE, !.retry = @ + 1]
    /\ UNCHANGED <<block, store, visit, page, reads, click>>

(* The component is gone with its state and its timer; the maps, and a     *)
(* request on its way, are not.                                            *)
LeavePage ==
    /\ page.open /\ loadedLobby /\ visit.leaves > 0
    /\ page' = [Blank EXCEPT !.open = FALSE, !.head = page.head]
    /\ reads' = [h \in Hooks |-> {}]
    /\ nudging' = [nudging EXCEPT !.mine = FALSE, !.timer = FALSE, !.retry = 0, !.ran = NotRun]
    /\ visit' = [visit EXCEPT !.leaves = @ - 1]
    /\ UNCHANGED <<block, store, click>>

OpenPage ==
    /\ ~page.open
    /\ page' = [page EXCEPT !.open = TRUE]
    /\ UNCHANGED <<block, store, visit, reads, nudging, click>>

-----------------------------------------------------------------------------
(* Collecting.  A click works on the lobby and the seat that were on       *)
(* screen when it was made.                                                *)

claim == IF click.kind = "refund" THEN claimRefund(viewer, 1) ELSE claimReward(viewer, 1)

(* What the contract still holds for the wallet in this operation.         *)
owedNow ==
    LET seat == room.seats[viewer] IN
    (IF seat.joined /\ ~seat.refunded THEN refundDue(room.ending, seat) ELSE 0)
    + (IF seat.isWinner /\ ~seat.claimed THEN room.rewardPerWinner ELSE 0)
    + (IF room.creator = viewer /\ ~room.creatorSettled THEN creatorDue(room) ELSE 0)

isCreator(lobby) == lobby.creator = viewer

needsSeat(kind, seat) ==
    IF kind = "refund"
    THEN seat.joined /\ seat.paidIn > 0 /\ ~seat.refunded
    ELSE seat.joined /\ payoutState(seat) = "PENDING"

needsCreator(lobby) == isCreator(lobby) /\ ~lobby.creatorSettled

(* A mutant: a prize is settled like a fee.                                *)
FaultyFirstStep(kind, forSeat) == IF kind = "refund" THEN "claim" ELSE "settle"

(* A creator's refund goes through claimRefund whether or not they played. *)
firstStep(kind, forSeat) == IF kind = "refund" \/ forSeat THEN "claim" ELSE "settle"

offered(kind) ==
    IF kind = "refund"
    THEN refundOffered(page.lobby, page.outcome, page.seat, viewer)
    ELSE payoutOffered(page.lobby, page.outcome, page.seat, viewer)

Press(kind) ==
    /\ page.open /\ loadedLobby /\ visit.presses > 0
    /\ click.pc \in {"idle", "done", "failed", "lost"}
    /\ offered(kind)
    /\ click' = [ pc |-> firstStep(kind, needsSeat(kind, page.seat)), kind |-> kind,
                  forSeat |-> needsSeat(kind, page.seat),
                  forCreator |-> needsCreator(page.lobby), owed |-> owedNow, got |-> 0,
                  shown |-> toCollect(page.lobby, page.outcome, page.seat, viewer) ]
    /\ visit' = [visit EXCEPT !.presses = @ - 1]
    /\ UNCHANGED <<block, store, page, reads, nudging>>

goes(pc) == click' = [click EXCEPT !.pc = pc]

(* After the claim: is the creator's part still open?                      *)
afterClaim == IF click.forCreator THEN "look" ELSE "done"

(* isClaimRefundMiss: a creator who did not play is told so, and goes on.  *)
missed ==
    /\ click.kind = "refund" /\ ~click.forSeat /\ click.forCreator
    /\ ~(room.seats[viewer].joined /\ ~room.seats[viewer].refunded)

(* simulateContract; a call that would revert throws.                      *)
Simulates ==
    /\ \/ /\ click.pc = "claim"
          /\ goes(IF ENABLED claim THEN "claimSent" ELSE IF missed THEN "look" ELSE "failed")
       \/ /\ click.pc = "settle"
          /\ goes(IF ENABLED settleCreator(1) THEN "settleSent" ELSE "failed")
    /\ UNCHANGED <<block, store, visit, page, reads, nudging>>

LooksAgain ==
    /\ click.pc = "look"
    /\ goes(IF room.creatorSettled THEN "done" ELSE "settle")
    /\ UNCHANGED <<block, store, visit, page, reads, nudging>>

receives(pc) == click' = [click EXCEPT !.pc = pc, !.got = @ + store.balance - store'.balance]

(* The transaction is mined.  The receipt of one that reverted throws      *)
(* nothing, and the click goes on.                                         *)
claimMined(pc) ==
    /\ click.pc = "claimSent"
    /\ IF ENABLED claim THEN claim ELSE UNCHANGED <<block, store>>
    /\ receives(pc)

settleMined(pc) ==
    /\ click.pc = "settleSent"
    /\ IF ENABLED settleCreator(1) THEN settleCreator(1) ELSE UNCHANGED <<block, store>>
    /\ receives(pc)

(* An answer of the RPC is lost: before anything was sent, or of a receipt.*)
AnswerLost ==
    /\ visit.losses > 0
    /\ \/ click.pc \in {"claim", "look", "settle"} /\ goes("lost") /\ UNCHANGED <<block, store>>
       \/ claimMined("lost") \/ settleMined("lost")
    /\ visit' = [visit EXCEPT !.losses = @ - 1]
    /\ UNCHANGED <<page, reads, nudging>>

Mined ==
    /\ claimMined(afterClaim) \/ settleMined("done")
    /\ UNCHANGED <<visit, page, reads, nudging>>

-----------------------------------------------------------------------------
PageNext ==
    \/ Chain /\ UNCHANGED <<visit, page, reads, nudging, click>>
    \/ HeadHeard
    \/ \E h \in Hooks : Ask(h) \/ Land(h) \/ ReadFails(h)
    \/ AsksTheKeeper \/ RevealByHand \/ RetryTimerFires
    \/ \E ok \in BOOLEAN : KeeperAnswers(ok)
    \/ LeavePage \/ OpenPage
    \/ \E kind \in {"refund", "reward"} : Press(kind)
    \/ Simulates \/ LooksAgain \/ Mined \/ AnswerLost

PageSpec == PageInit /\ [][PageNext]_pageVars

(* Blocks come, and each refreshes every hook; an answer arrives.  Nobody  *)
(* else is counted on: after the last block explored the chain is still,   *)
(* but the feed of blocks goes on.                                         *)
PageFairSpec ==
    /\ PageSpec
    /\ WF_pageVars(NextBlock /\ UNCHANGED <<visit, page, reads, nudging, click>>)
    /\ WF_pageVars(HeadHeard) /\ WF_pageVars(OpenPage)
    /\ \A h \in {"lobby", "attack"} : WF_pageVars(Ask(h)) /\ WF_pageVars(Land(h))
=============================================================================
