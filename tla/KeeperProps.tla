----------------------------- MODULE KeeperProps ----------------------------
(***************************************************************************)
(* What the keeper promises an operation nobody is looking at.             *)
(***************************************************************************)
EXTENDS Keeper

CONSTANT Rooms      \* the operations KeeperEndsEveryRoom speaks of

landed(l) ==
    /\ attackOf(l).impactBlock + attackOf(l).graceBlocks <= MaxBlock
    /\ attackOf(l).impactBlock + lobbyOf(l).graceBlocks <= MaxBlock

over(l) == l \in LobbyIds /\ lobbyOf(l).ending # "NONE"

(* What the keeper leaves undone (find_unfinalized, find_stranded): an     *)
(* operation whose attack is published and whose defenses are all proven,  *)
(* with no verdict and no call for one on its way (revealAndScore returns  *)
(* at once, keeper.service.ts:427); and one whose attack expired through   *)
(* another operation.                                                      *)
provenOut(l) == attackOf(l).revealed /\ pending(l) = {}

verdictSent(l) ==
    \E j \in Jobs : \E n \in 1 .. Len(jobs[j].sends) :
        jobs[j].sends[n].lobby = l /\ jobs[j].sends[n].fn = "finalizeScoring"

overlooked(l) == provenOut(l) /\ ~verdictSent(l)

stranded(l) == attackOf(l).expired

(* The keeper alone brings every operation as far as that: no page need be *)
(* open, the network may never sign, calls may be lost, other operations   *)
(* may fly against the same attack, and still it is closed or started,     *)
(* unlocked, published and proven or expired, to its end but for those two.*)
KeeperEndsEveryRoom ==
    \A l \in Rooms :
        (l \in LobbyIds /\ landed(l)) ~>
            (over(l) \/ (l \in LobbyIds /\ (overlooked(l) \/ stranded(l))))

(* keeper.service.ts:257: advance answers NEVER of an operation that has   *)
(* nothing left to ask for.  Said while the RPC has answered everything.   *)
NeverMeansNothingLeft ==
    answers => \A l \in DOMAIN wakes : wakes[l] = NEVER => over(l)

(* What is true of it: while the RPC answers, an operation the sweep has   *)
(* no further use for is over, or nothing but its verdict is missing, or   *)
(* its attack expired through another: never one still to start, unlock,   *)
(* publish, prove or expire.                                               *)
NeverMeansNothingToReveal ==
    answers => \A l \in DOMAIN wakes :
        wakes[l] = NEVER => over(l) \/ provenOut(l) \/ stranded(l)

(* The block an operation the last sweep saw waits for.                    *)
deadlineOf(l) ==
    IF lobbyOf(l).status = "OPEN" THEN lobbyOf(l).deadlineBlock ELSE attackOf(l).impactBlock

(* Asleep, the keeper is up for every deadline ahead of the sweep that put *)
(* it to sleep: as many blocks late, at most, as that sweep lasted.        *)
WakesForEveryDeadline ==
    LET sweep == jobs["sweep"] IN
    sweep.pc = "idle" =>
        \A l \in 1 .. sweep.last :
            deadlineOf(l) > sweep.head /\ ~over(l) =>
                timer - deadlineOf(l) <= block - sweep.head
=============================================================================
