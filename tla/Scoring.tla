------------------------------- MODULE Scoring ------------------------------
(***************************************************************************)
(* Scoring one team against its epoch's published trajectory               *)
(* (contracts/src/libraries/Scoring.sol and Resolution.sol).               *)
(*                                                                         *)
(* Whether a Defense Point was inside the radius at its submit block is    *)
(* geometry fixed by two secrets nobody could read before impact; it is    *)
(* the one free choice here, made when the attempt is first scored.        *)
(***************************************************************************)
EXTENDS Lobbies

revealedHits(lobby) ==
    {w \in Defenders(lobby) : lobby.seats[w].revealed /\ lobby.seats[w].intercepted}

(* The hits of the earliest submit block.  All of them: order within a     *)
(* block never decides money.                                              *)
earliestHits(lobby) ==
    {w \in revealedHits(lobby) :
        \A v \in revealedHits(lobby) :
            lobby.seats[w].defendedAt <= lobby.seats[v].defendedAt}

(* A mutant: a crown once given is never taken back.                       *)
FaultyRecrown(lobby) ==
    [lobby EXCEPT
        !.seats = [w \in Players |->
                      [lobby.seats[w] EXCEPT !.isWinner = @ \/ w \in earliestHits(lobby)]],
        !.intercepted = earliestHits(lobby) # {}]

recrown(lobby) ==
    [lobby EXCEPT
        !.seats = [w \in Players |->
                      [lobby.seats[w] EXCEPT !.isWinner = w \in earliestHits(lobby)]],
        !.intercepted = earliestHits(lobby) # {}]

(* Attempts already scored are skipped; hits says which of the others were *)
(* inside the radius.                                                      *)
scoreSubset(lobby, subset, hits) ==
    recrown([lobby EXCEPT !.seats =
        [w \in Players |->
            IF w \in subset /\ ~lobby.seats[w].revealed
            THEN [lobby.seats[w] EXCEPT !.revealed = TRUE, !.intercepted = w \in hits]
            ELSE lobby.seats[w]]])

-----------------------------------------------------------------------------
FaultyForfeited(lobby) == 0     \* a mutant: a lost round keeps its pool

(* What an unwon round gives up: all of its pool.                          *)
forfeited(lobby) ==
    IF lobby.validActions > 0 /\ Winners(lobby) = {} THEN lobby.rewardPool ELSE 0

(* A mutant: every intercepting team moves the planet's tally.             *)
FaultyFirstToIntercept(attack, won) == won

firstToIntercept(attack, won) == won /\ ~attack.intercepted

(* The verdict and the pool.  A round nobody acted in is UNPLAYED; a round *)
(* that was played and lost gives its pool to the Global Defense Pool.     *)
judged(lobby) ==
    LET winners == Winners(lobby)
        played  == lobby.validActions > 0
    IN  [lobby EXCEPT
            !.resolvedAtBlock = block,
            !.rewardPerWinner =
                IF winners # {} THEN lobby.rewardPool \div Cardinality(winners) ELSE @,
            !.ending = IF played THEN "COMPLETED" ELSE "UNPLAYED",
            !.status = IF played THEN "RESOLVED" ELSE "CANCELLED",
            !.rewardPool = @ - forfeited(lobby)]

verdict(s, l) ==
    LET lobby  == s.lobbies[l]
        attack == s.attacks[lobby.epochId]
        won    == Winners(lobby) # {}
    IN  [s EXCEPT
            !.lobbies[l] = judged(lobby),
            !.globalDefensePool = @ + forfeited(lobby),
            !.activeLobbies = oneFewer(@),
            !.attacks[lobby.epochId] = [attack EXCEPT !.intercepted = @ \/ won],
            !.interceptedAttacks = IF firstToIntercept(attack, won) THEN @ + 1 ELSE @]

finalizeOK(s, l) == maybeOpenDrawOK(verdict(s, l))

finalize(s, l) == maybeOpenDraw(verdict(s, l))

-----------------------------------------------------------------------------
(* A mutant: an operation that has ended may be scored again.              *)
FaultyScorable(s, l) ==
    s.attacks[s.lobbies[l].epochId].revealed /\ activateOK(s, l)

(* Any team may be scored once the geometry is out and until it has been.  *)
scorable(s, l) ==
    /\ s.attacks[s.lobbies[l].epochId].revealed
    /\ s.lobbies[l].resolvedAtBlock = 0
    /\ activateOK(s, l)
    /\ activate(s, l).lobbies[l].status = "ACTIVE"

scoreAll(s, l, hits) ==
    LET started == activate(s, l)
        lobby   == started.lobbies[l]
    IN  [started EXCEPT !.lobbies[l] = scoreSubset(lobby, Defenders(lobby), hits)]

resolveAllOK(s, l, hits) ==
    /\ Cardinality(Defenders(s.lobbies[l])) <= MaxBatch
    /\ scorable(s, l)
    /\ finalizeOK(scoreAll(s, l, hits), l)

resolveAll(s, l, hits) == finalize(scoreAll(s, l, hits), l)

proveOK(s, l, subset) ==
    /\ subset # {}
    /\ Cardinality(subset) <= MaxBatch
    /\ maybeOpenDrawOK(s)
    /\ scorable(maybeOpenDraw(s), l)
    /\ subset \subseteq Defenders(s.lobbies[l])

prove(s, l, subset, hits) ==
    LET started == activate(maybeOpenDraw(s), l)
    IN  [started EXCEPT !.lobbies[l] = scoreSubset(started.lobbies[l], subset, hits)]

(* A mutant: waits for every attempt, however long.                        *)
FaultyScoringComplete(s, l) ==
    \A w \in Defenders(s.lobbies[l]) : s.lobbies[l].seats[w].revealed

(* Every attempt scored, or the grace window over.                         *)
scoringComplete(s, l) ==
    LET lobby  == s.lobbies[l]
        attack == s.attacks[lobby.epochId]
    IN  \/ \A w \in Defenders(lobby) : lobby.seats[w].revealed
        \/ block >= attack.impactBlock + attack.graceBlocks

finalizeIfReadyOK(s, l) ==
    LET ready == maybeOpenDraw(s) IN
    /\ maybeOpenDrawOK(s)
    /\ scorable(ready, l)
    /\ scoringComplete(ready, l)
    /\ finalizeOK(activate(ready, l), l)

finalizeIfReady(s, l) == finalize(activate(maybeOpenDraw(s), l), l)
=============================================================================
