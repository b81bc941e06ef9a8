----------------------------- MODULE AegylaxLog -----------------------------
(***************************************************************************)
(* The contract and the log it leaves behind: the events of                *)
(* contracts/src/interfaces/IAegylaxEvents.sol that the indexer folds, in  *)
(* the order each transaction emits them.  An event that moves no record   *)
(* and no row of the directory is left out.                                *)
(***************************************************************************)
EXTENDS AegylaxGame, SequencesExt

CONSTANTS
    Authors,        \* bound: the players who create operations
    Acting,         \* bound: the players who probe and defend
    Leavers,        \* bound: the players who give a seat up
    MaxLeaves       \* bound: seats given up in a history

ASSUME LogAssumption ==
    /\ Authors \subseteq Players /\ Acting \subseteq Players /\ Leavers \subseteq Players
    /\ MaxLeaves \in Nat

VARIABLE
    log             \* every event so far, with the block it landed in

chainVars == <<block, store, log>>

Addresses == Players \cup {Game}

(* who is the address the event names, or all the winners; count is the    *)
(* participantCount or the probes, where the event carries one.            *)
event(name, l, who, amount, count) ==
    [ name |-> name, block |-> block, lobby |-> l, who |-> who,
      amount |-> amount, count |-> count ]

ofOne(name, l, w, amount) == event(name, l, {w}, amount, 0)

ofNobody(name, l) == event(name, l, {}, 0, 0)

-----------------------------------------------------------------------------
(* What the library calls emit, on the storage they are called with.       *)

(* payoutUnplayed and the cancellation after it; a bounty that goes home   *)
(* to the pool names no creator.                                           *)
closedEvents(s, l) ==
    LET lobby == s.lobbies[l]
        paid  == SetToSeq(unpaid(lobby))
        theirs == lobby.creator # Game /\ ~lobby.creatorSettled /\ lobby.startPrizePool > 0
    IN  [i \in DOMAIN paid |-> ofOne("RefundClaimed", l, paid[i], lobby.seats[paid[i]].paidIn)]
        \o (IF theirs THEN <<ofOne("CreatorSettled", l, lobby.creator, lobby.startPrizePool)>>
                      ELSE <<>>)
        \o <<ofNobody("LobbyCancelled", l)>>

(* maybeOpenDraw: the leftover room closed, the next one opened.           *)
upkeepEvents(s) ==
    LET leftover == unfilledPastDraw(s)
        ready    == topUpDraw(maybeCloseDraw(s))
        new      == Len(ready.lobbies) + 1
    IN  (IF leftover = 0 THEN <<>> ELSE closedEvents(s, leftover))
        \o (IF drawDue(ready)
            THEN <<ofOne("LobbyCreated", new, Game, 0),
                   event("GlobalDefenseOpened", new, {}, ready.globalDefensePool, 0)>>
            ELSE <<>>)

startedEvents(s, l) ==
    IF s.lobbies[l].status = "OPEN" THEN <<ofNobody("OperationStarted", l)>> ELSE <<>>

(* finalize, on the storage with the scores in.                            *)
verdictEvents(s, l) ==
    (IF s.lobbies[l].validActions = 0 THEN <<ofNobody("LobbyCancelled", l)>> ELSE <<>>)
    \o <<event("WinnerDetermined", l, Winners(s.lobbies[l]), 0, 0)>>
    \o upkeepEvents(verdict(s, l))

-----------------------------------------------------------------------------
emits(events) == log' = log \o events

seatsTaken(l) == Cardinality(Joined(store'.lobbies[l]))

Created(w, config, d) ==
    /\ w \in Authors
    /\ createLobby(w, config, d)
    /\ emits(upkeepEvents(store)
             \o <<ofOne("LobbyCreated", Len(store'.lobbies), w, 0)>>)

Joins(w, l) ==
    /\ joinLobby(w, l)
    /\ emits(upkeepEvents(store)
             \o <<event("PlayerJoined", l, {w}, store'.lobbies[l].seats[w].paidIn, seatsTaken(l))>>)

Leaves(w, l) ==
    /\ Len(SelectSeq(log, LAMBDA e : e.name = "PlayerLeft")) < MaxLeaves
    /\ w \in Leavers
    /\ leaveLobby(w, l)
    /\ emits(<<event("PlayerLeft", l, {w}, lobbyOf(l).seats[w].paidIn, seatsTaken(l))>>)

Buys(w, l, count) ==
    /\ w \in Acting
    /\ buyProbes(w, l, count)
    /\ emits(upkeepEvents(store) \o
             <<event("ProbesPurchased", l, {w}, store.params.probePrice * count, count)>>)

Acts(w, l) ==
    /\ w \in Acting
    /\ \/ /\ sendProbe(w, l)
          /\ emits(upkeepEvents(store) \o startedEvents(maybeOpenDraw(store), l)
                   \o <<ofOne("ProbeSent", l, w, 0)>>)
       \/ /\ submitDefense(w, l)
          /\ emits(upkeepEvents(store) \o startedEvents(maybeOpenDraw(store), l)
                   \o <<ofOne("DefenseSubmitted", l, w, 0)>>)

Closes(l) ==
    \/ startOperation(l) /\ emits(startedEvents(store, l))
    \/ cancelLobby(l) /\ emits(closedEvents(store, l))
    \/ (unlockRound(l) \/ revealEpochAttack(lobbyOf(l).epochId)) /\ emits(<<>>)
    \/ /\ expireAttack(l)
       /\ emits(<<ofNobody("AttackExpired", l), ofNobody("LobbyCancelled", l)>>)

OpensDraw ==
    /\ openGlobalDefense
    /\ LET closed == maybeCloseDraw(store)
           new    == Len(closed.lobbies) + 1
       IN  emits((IF unfilledPastDraw(store) = 0 THEN <<>>
                  ELSE closedEvents(store, unfilledPastDraw(store)))
                 \o <<ofOne("LobbyCreated", new, Game, 0),
                      event("GlobalDefenseOpened", new, {}, closed.globalDefensePool, 0)>>)

Scores(l) ==
    \/ \E hits \in SUBSET Defenders(lobbyOf(l)) :
        \/ /\ resolveLobby(l, hits)
           /\ emits(startedEvents(store, l) \o verdictEvents(scoreAll(store, l, hits), l))
        \/ /\ revealAndResolve(l, TRUE, hits)
           /\ LET p == published(maybeOpenDraw(store), lobbyOf(l).epochId)
              IN  emits(upkeepEvents(store)
                        \o IF p.lobbies[l].resolvedAtBlock # 0 THEN <<>>
                           ELSE startedEvents(p, l) \o verdictEvents(scoreAll(p, l, hits), l))
    \/ revealAndResolve(l, FALSE, {}) /\ emits(upkeepEvents(store))
    \/ \E subset \in SUBSET Defenders(lobbyOf(l)) : \E hits \in SUBSET subset :
        /\ proveDefenses(l, subset, hits)
        /\ emits(upkeepEvents(store) \o startedEvents(maybeOpenDraw(store), l))
    \/ /\ finalizeScoring(l)
       /\ LET ready == maybeOpenDraw(store)
          IN  emits(upkeepEvents(store) \o startedEvents(ready, l)
                    \o verdictEvents(activate(ready, l), l))

(* A winner who is also the author takes the commission in the same call.  *)
Rewarded(w, l) ==
    LET lobby == lobbyOf(l)
        fee   == IF w = lobby.creator /\ ~lobby.creatorSettled THEN creatorDue(lobby) ELSE 0
    IN  /\ claimReward(w, l)
        /\ emits(<<ofOne("RewardClaimed", l, w, lobby.rewardPerWinner)>>
                 \o IF fee > 0 THEN <<ofOne("CreatorSettled", l, w, fee)>> ELSE <<>>)

(* An author's refund is named twice: alone, and inside the whole amount.  *)
Refunded(w, l) ==
    LET lobby  == lobbyOf(l)
        bounty == IF w = lobby.creator /\ ~lobby.creatorSettled
                  THEN creatorRefundDue(lobby) ELSE 0
    IN  /\ claimRefund(w, l)
        /\ emits((IF bounty > 0 THEN <<ofOne("CreatorSettled", l, w, bounty)>> ELSE <<>>)
                 \o <<ofOne("RefundClaimed", l, w, store.balance - store'.balance)>>)

AuthorPaid(l) ==
    /\ settleCreator(l)
    /\ emits(IF lobbyOf(l).creator = Game THEN <<>>
             ELSE <<ofOne("CreatorSettled", l, lobbyOf(l).creator, creatorDue(lobbyOf(l)))>>)

ChainInit == Init /\ log = <<>>

Transacts ==
    \/ OpensDraw
    \/ \E w \in Players, config \in Configs, d \in 0 .. MaxDeadline : Created(w, config, d)
    \/ \E l \in LobbyIds :
        \/ Closes(l) \/ Scores(l) \/ AuthorPaid(l)
        \/ \E w \in Players :
            \/ Joins(w, l) \/ Leaves(w, l) \/ Acts(w, l) \/ Rewarded(w, l) \/ Refunded(w, l)
            \/ \E count \in 1 .. store.params.maxProbesPerPlayer : Buys(w, l, count)
=============================================================================
