---------------------------- MODULE AegylaxLife -----------------------------
(***************************************************************************)
(* The contract implements OperationLife: what an operation of the game    *)
(* contract is, seen from its members.                                     *)
(***************************************************************************)
EXTENDS AegylaxProps

CONSTANT Quorum     \* the fewest players the terms in force let an operation have

ASSUME QuorumAssumption == Quorum \in Nat /\ \A p \in ParamSets : p.minPlayers >= Quorum

phaseOf(l) ==
    IF l \notin LobbyIds THEN "none"
    ELSE CASE lobbyOf(l).ending = "COMPLETED"     -> "completed"
           [] lobbyOf(l).ending \in RefundEndings -> "refunding"
           [] lobbyOf(l).status = "OPEN"          -> "open"
           [] OTHER                               -> "running"

teamOf(l) == IF l \notin LobbyIds THEN {} ELSE Joined(lobbyOf(l))

paidOf(l) ==
    IF l \notin LobbyIds THEN {}
    ELSE {w \in Players : lobbyOf(l).seats[w].claimed \/ lobbyOf(l).seats[w].refunded}

FirstLife ==
    INSTANCE OperationLife WITH Members <- Players,
        phase <- phaseOf(1), team <- teamOf(1), paid <- paidOf(1)

(* The first operation lives the life every member is promised: a team     *)
(* that is fixed and full when it starts, one ending, one payment, through *)
(* whichever of the entry points its transitions come.                     *)
AnOperationIsWhatWasPromised == FirstLife!Spec
=============================================================================
