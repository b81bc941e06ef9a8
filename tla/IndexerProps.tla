---------------------------- MODULE IndexerProps ----------------------------
(***************************************************************************)
(* What a record and a directory folded out of a log promise: to be the    *)
(* chain replayed, and to say of it what the contract itself would say.    *)
(***************************************************************************)
EXTENDS Indexer

(* What the log says of the rows, without what is read beside it.          *)
asLogged(directory) ==
    [l \in known(directory) |->
        LET r == row(directory, l) IN
        [ creator |-> r.creator, members |-> r.members, participants |-> r.participants,
          drawn |-> (r.drawBounty # Unread), status |-> r.status,
          intercepted |-> r.intercepted, createdBlock |-> r.createdBlock,
          startedBlock |-> r.startedBlock, endedBlock |-> r.endedBlock ]]

(* "The store can never disagree with the chain, because it is the chain,  *)
(* replayed": whatever windows the log was read in, whatever read failed,  *)
(* wherever the process was restarted and whatever the chain undid, the    *)
(* memory is the fold of the canonical log up to the cursor, once each.    *)
FoldIsTheChainReplayed ==
    LET replayed == foldedWith(Nothing, eventsOf(FromBlock, reader.cursor - 1)) IN
    /\ memory.ledger = replayed.ledger
    /\ asLogged(memory.directory) = asLogged(replayed.directory)
    /\ memory.directory.byPlayer = replayed.directory.byPlayer

-----------------------------------------------------------------------------
(* What would be told of this very state, were all of it confirmed.        *)
replay == foldedWith(Nothing, log)

statusOf(lobby) ==
    CASE lobby.status = "OPEN"      -> "open"
      [] lobby.status = "ACTIVE"    -> "active"
      [] lobby.status = "RESOLVED"  -> "finished"
      [] lobby.status = "CANCELLED" -> "cancelled"

(* Built from events alone, the directory agrees with the contract about   *)
(* every operation: what became of it, who is in it, who stopped the       *)
(* threat, and whose list it appears on, through every way it may start    *)
(* or end and through seats taken, left and taken again.  A past operation *)
(* is off the list of its players and its author only when the list is     *)
(* full of operations as new or newer.                                     *)
listed(directory, w, l) ==
    LET lists == forPlayer(directory, w)
        entry == [ lobby |-> l, joined |-> w \in Joined(lobbyOf(l)),
                   created |-> w = lobbyOf(l).creator ]
    IN  IF lobbyOf(l).status \in {"OPEN", "ACTIVE"} THEN entry \in lists.live
        ELSE \/ entry \in lists.past
             \/ /\ Cardinality(lists.past) = PlayerPastLimit
                /\ \A other \in lists.past :
                      /\ lobbyOf(other.lobby).ending # "NONE"
                      /\ row(directory, other.lobby).createdBlock
                            >= row(directory, l).createdBlock

DirectoryTellsTheStatus ==
    LET directory == replay.directory IN
    /\ known(directory) = LobbyIds
    /\ \A l \in LobbyIds :
          LET r == row(directory, l) IN
          /\ r.status = statusOf(lobbyOf(l))
          /\ r.members = Joined(lobbyOf(l)) /\ r.participants = Cardinality(r.members)
          /\ r.intercepted = (lobbyOf(l).resolvedAtBlock # 0 /\ lobbyOf(l).intercepted)
          /\ \A w \in Players :
                w \in Joined(lobbyOf(l)) \/ w = lobbyOf(l).creator => listed(directory, w, l)

(* A record scores a wallet once for each operation that was played while  *)
(* it held a seat, and as an interception where the contract crowned it: a *)
(* room nobody acted in, or one it had left, is no round it lost.          *)
RoundsAddUp ==
    \A w \in Players :
        LET record == replay.ledger.players[w]
            contested == {l \in LobbyIds : /\ lobbyOf(l).ending = "COMPLETED"
                                           /\ w \in Joined(lobbyOf(l))}
        IN  /\ record.rounds = Cardinality(contested)
            /\ record.interceptions =
                  Cardinality({l \in contested : w \in Winners(lobbyOf(l))})
            /\ record.streak <= record.best /\ record.best <= record.interceptions

(* Every wei a wallet handed over or was handed is in its record once: the *)
(* contract holds what the records say it took, less what they say it gave *)
(* back, and the bounties, which no record counts as staked.               *)
NoWeiIsCountedTwice ==
    LET players == replay.ledger.players
        net(w)  == LET r == players[w] IN r.staked - r.won - r.fees - r.returned
        bounties == MapThenSumSet(LAMBDA l : IF lobbyOf(l).creator = Game THEN 0
                                             ELSE lobbyOf(l).startPrizePool, LobbyIds)
    IN  store.balance - store.protocolTreasury =
            InitialPool + bounties + MapThenSumSet(net, Players)

(* The books balance in every history without a bounty.                    *)
BooksBalance ==
    (\A l \in LobbyIds : lobbyOf(l).creator # Game => lobbyOf(l).startPrizePool = 0)
        => NoWeiIsCountedTwice

-----------------------------------------------------------------------------
(* Every block that has its confirmations is folded in the end, whatever   *)
(* the reader met on the way, and stays folded, as long as its timer goes  *)
(* on firing.                                                              *)
ReaderCatchesUp == MaxBlock \in plan.polls => <>[](reader.cursor = MaxBlock - Confirmations)
=============================================================================
