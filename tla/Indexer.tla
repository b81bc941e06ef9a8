------------------------------- MODULE Indexer ------------------------------
(***************************************************************************)
(* The indexer (api/indexer): a process that reads the contract's log      *)
(* window by window, some blocks behind the head, and folds it into a      *)
(* record per wallet (ledger.ts) and a row per operation (lobbies.ts).     *)
(* Nothing is stored: a restart begins again from the first block.  Every  *)
(* read is an await, so the chain moves, and reorganises, under it.        *)
(***************************************************************************)
EXTENDS AegylaxLog

CONSTANTS
    Confirmations,  \* how far behind the head to stop (5)
    WindowBlocks,   \* blocks one getLogs may cover (9000)
    FromBlock,      \* the first block read
    LiveReadLimit,  \* live operations read from the contract per sweep (60)
    PlayerPastLimit,\* past operations one wallet is told of (12)
    Histories       \* the histories explored: rules, a draw cadence, the operations
                    \* opened, the events after which nothing happens any more, the blocks the
                    \* reader's timer fires in, the bound on its incidents
                    \* (a failed read, a restart), and the block a
                    \* reorganisation returns to, 0 for none

ASSUME IndexerAssumption ==
    /\ Confirmations \in Nat /\ FromBlock \in Nat /\ WindowBlocks \in Nat \ {0}
    /\ LiveReadLimit \in Nat /\ PlayerPastLimit \in Nat
    /\ Histories \subseteq [ params : ParamSets, interval : Intervals,
                           rooms : Nat, events : Nat, polls : SUBSET Nat, incidents : Nat,
                           fork : {0} \cup {b \in Nat : b > Genesis} ]

VARIABLES
    reader,         \* where the sweep is, and its cursor
    memory,         \* what has been folded
    plan,           \* the history's rooms, polls and events
    budget,         \* incidents left
    fork            \* the block a reorganisation will return to, and the chain there

indexerVars == <<block, store, log, reader, memory, plan, budget, fork>>

-----------------------------------------------------------------------------
(* ledger.ts: what each address did.                                       *)

Blank ==
    [ created |-> 0, joined |-> 0, left |-> 0, probesBought |-> 0, probesSent |-> 0,
      defenses |-> 0, rounds |-> 0, interceptions |-> 0, streak |-> 0, best |-> 0,
      staked |-> 0, won |-> 0, fees |-> 0, returned |-> 0, lastBlock |-> 0 ]

touched(record, b) == [record EXCEPT !.lastBlock = b]

played(record, won) ==
    LET streak == IF won THEN record.streak + 1 ELSE 0
    IN  [record EXCEPT !.rounds = @ + 1,
                       !.interceptions = IF won THEN @ + 1 ELSE @,
                       !.streak = streak,
                       !.best = IF streak > @ THEN streak ELSE @]

(* Who sits where, as pairs of an operation and a wallet.                  *)
seatedAt(ledger, l) == {w \in Addresses : <<l, w>> \in ledger.seats}

vacated(ledger, l) == ledger.seats \ ({l} \X Addresses)

(* A mutant: only the wallets the result names.                            *)
FaultyScored(ledger, e) ==
    IF e.lobby \in ledger.unplayed THEN {} ELSE seatedAt(ledger, e.lobby) \cap e.who

(* Every seat of a round that was played, whether its holder acted or not. *)
scored(ledger, e) ==
    IF e.lobby \in ledger.unplayed THEN {} ELSE seatedAt(ledger, e.lobby)

(* The one event that scores anybody.                                      *)
applyWinnerDetermined(ledger, e) ==
    [ledger EXCEPT
        !.players = [w \in Addresses |->
            IF w \in scored(ledger, e)
            THEN touched(played(ledger.players[w], w \in e.who), e.block)
            ELSE ledger.players[w]],
        !.seats = vacated(ledger, e.lobby),
        !.unplayed = @ \ {e.lobby}]

(* A mutant: a seat given up brings nothing back.                          *)
FaultySeatLeft(record, amount) == [record EXCEPT !.left = @ + 1]

seatLeft(record, amount) == [record EXCEPT !.left = @ + 1, !.returned = @ + amount]

applyToLedger(ledger, e) ==
    LET changed(change(_)) ==      \* the record of everybody the event names
            [ledger EXCEPT !.players =
                [w \in Addresses |->
                    IF w \in e.who THEN touched(change(@[w]), e.block) ELSE @[w]]]
    IN
    CASE e.name = "LobbyCreated" ->
             changed(LAMBDA r : [r EXCEPT !.created = @ + 1])
      [] e.name = "PlayerJoined" ->
             [changed(LAMBDA r : [r EXCEPT !.joined = @ + 1, !.staked = @ + e.amount])
                 EXCEPT !.seats = @ \cup ({e.lobby} \X e.who)]
      [] e.name = "PlayerLeft" ->
             [changed(LAMBDA r : seatLeft(r, e.amount)) EXCEPT
                 !.seats = @ \ ({e.lobby} \X e.who)]
      [] e.name = "ProbesPurchased" ->
             changed(LAMBDA r : [r EXCEPT !.probesBought = @ + e.count, !.staked = @ + e.amount])
      [] e.name = "ProbeSent" ->
             changed(LAMBDA r : [r EXCEPT !.probesSent = @ + 1])
      [] e.name = "DefenseSubmitted" ->
             changed(LAMBDA r : [r EXCEPT !.defenses = @ + 1])
      [] e.name = "LobbyCancelled" ->
             [ledger EXCEPT !.unplayed = @ \cup {e.lobby},
                            !.seats = vacated(ledger, e.lobby)]
      [] e.name = "WinnerDetermined" -> applyWinnerDetermined(ledger, e)
      [] e.name = "RewardClaimed" ->
             changed(LAMBDA r : [r EXCEPT !.won = @ + e.amount])
      [] e.name = "RefundClaimed" ->
             changed(LAMBDA r : [r EXCEPT !.returned = @ + e.amount])
      [] e.name = "CreatorSettled" ->
             changed(LAMBDA r : [r EXCEPT !.fees = @ + e.amount])
      [] OTHER -> ledger

-----------------------------------------------------------------------------
(* lobbies.ts: a row per operation.                                        *)

Unread == -1    \* null, in a field that is only ever read from the contract

newRow(e) ==
    [ creator |-> CHOOSE w \in e.who : TRUE, participants |-> 0, members |-> {},
      maxPlayers |-> Unread, rewardPool |-> Unread, drawBounty |-> Unread,
      status |-> "open", intercepted |-> FALSE, createdBlock |-> e.block,
      startedBlock |-> 0, endedBlock |-> 0 ]

row(directory, l) == directory.lobbies[l]

known(directory) == DOMAIN directory.lobbies

FaultyFinished(r) == "finished"    \* a mutant: the cancellation before it is forgotten

(* A cancelled operation that is then judged stays cancelled.              *)
finished(r) == IF r.status = "cancelled" THEN "cancelled" ELSE "finished"

applyToRow(r, e) ==
    CASE e.name = "GlobalDefenseOpened" -> [r EXCEPT !.drawBounty = e.amount]
      [] e.name = "PlayerJoined" ->
             [r EXCEPT !.members = @ \cup e.who, !.participants = e.count]
      [] e.name = "PlayerLeft" ->
             [r EXCEPT !.members = @ \ e.who, !.participants = e.count]
      [] e.name = "OperationStarted" ->
             [r EXCEPT !.status = "active", !.startedBlock = e.block]
      [] e.name = "WinnerDetermined" ->
             [r EXCEPT !.status = finished(r), !.intercepted = e.who # {},
                       !.endedBlock = e.block]
      [] e.name \in {"LobbyCancelled", "AttackExpired"} ->
             IF e.name = "AttackExpired" /\ r.status = "finished" THEN r
             ELSE [r EXCEPT !.status = "cancelled", !.endedBlock = e.block]
      [] OTHER -> r

opened(directory, e) ==
    [l \in known(directory) \cup {e.lobby} |->
        IF l = e.lobby THEN newRow(e) ELSE row(directory, l)]

updated(directory, e) == [directory.lobbies EXCEPT ![e.lobby] = applyToRow(@, e)]

linked(directory, e) ==
    [w \in Addresses |->
        LET owned == directory.byPlayer[w] IN
        IF w \in e.who /\ e.lobby \notin Range(owned) THEN Append(owned, e.lobby) ELSE owned]

applyToDirectory(directory, e) ==
    IF e.name = "LobbyCreated"
    THEN [lobbies |-> opened(directory, e), byPlayer |-> linked(directory, e)]
    ELSE IF e.lobby \notin known(directory) THEN directory
    ELSE [ lobbies  |-> updated(directory, e),
           byPlayer |-> IF e.name = "PlayerJoined" THEN linked(directory, e)
                        ELSE directory.byPlayer ]

live(r) == r.status \in {"open", "active"}

hasLiveDraw(directory) ==
    \E l \in known(directory) :
        row(directory, l).drawBounty # Unread /\ live(row(directory, l))

liveIds(directory) == {l \in known(directory) : live(row(directory, l))}

(* The limit first of a set, in an order that has no ties.                 *)
firstOf(ids, before(_, _), limit) ==
    {l \in ids : Cardinality({m \in ids : before(m, l)}) < limit}

(* Newest first, operations of one block in the order they were met in.    *)
newer(directory, order(_), k, l) ==
    \/ row(directory, k).createdBlock > row(directory, l).createdBlock
    \/ /\ row(directory, k).createdBlock = row(directory, l).createdBlock
       /\ order(k) < order(l)

opening(l) == l     \* operations are numbered as they were opened

newerRoom(directory, k, l) == newer(directory, opening, k, l)

(* The pool a row shows: the jackpot is added to what the room holds until *)
(* the room is known to have started, and so to hold it.                   *)
drawPool(r) ==
    IF r.drawBounty = Unread \/ r.startedBlock # 0 THEN r.rewardPool
    ELSE r.drawBounty + IF r.rewardPool = Unread THEN 0 ELSE r.rewardPool

(* What the wallet panel asks: the operations of one wallet, and its part  *)
(* in each, the past ones up to a limit.                                   *)
pastOf(ended, newerOfMine(_, _)) == firstOf(ended, newerOfMine, PlayerPastLimit)

forPlayer(directory, w) ==
    LET linkedAt(l) == CHOOSE n \in DOMAIN directory.byPlayer[w] : directory.byPlayer[w][n] = l
        newerOfMine(k, l) == newer(directory, linkedAt, k, l)
        mine  == Range(directory.byPlayer[w]) \cap known(directory)
        of(l) == [ lobby |-> l, joined |-> w \in row(directory, l).members,
                   created |-> row(directory, l).creator = w ]
    IN  [ live |-> {of(l) : l \in mine \cap liveIds(directory)},
          past |-> {of(l) : l \in pastOf(mine \ liveIds(directory), newerOfMine)} ]

-----------------------------------------------------------------------------
(* The two folds, over a stretch of the log in the order it was written.   *)

Nothing ==
    [ ledger    |-> [ players |-> [w \in Addresses |-> Blank],
                      seats |-> {}, unplayed |-> {} ],
      directory |-> [ lobbies |-> <<>>,
                      byPlayer |-> [w \in Addresses |-> <<>>] ] ]

apply(folded, e) ==
    [ ledger    |-> applyToLedger(folded.ledger, e),
      directory |-> applyToDirectory(folded.directory, e) ]

foldedWith(folded, events) == FoldLeft(apply, folded, events)

(* How many events the blocks before b left.                               *)
loggedBefore(b) == Cardinality({i \in DOMAIN log : log[i].block < b})

eventsOf(from, to) == SubSeq(log, loggedBefore(from) + 1, loggedBefore(to + 1))

-----------------------------------------------------------------------------
(* The reader.  pc is what the sweep awaits; target the last block of it;  *)
(* left the live rooms it has still to read.                               *)

Asleep == [pc |-> "asleep", cursor |-> FromBlock, target |-> 0, bounty |-> Unread, left |-> {}]

sleeps == [reader EXCEPT !.pc = "asleep", !.target = 0, !.bounty = Unread, !.left = {}]

NoFork == [at |-> 0]

IndexerInit ==
    /\ ChainInit
    /\ \E h \in Histories :
          /\ store.params = h.params /\ store.interval = h.interval
          /\ plan = [rooms |-> h.rooms, polls |-> h.polls, events |-> h.events]
          /\ budget = h.incidents
          /\ fork = [at |-> h.fork]
    /\ reader = Asleep
    /\ memory = Nothing

(* The blocks that are whole: transactions still join the one under way.   *)
head == block - 1

FaultyTarget == head                \* a mutant: reads up to the tip

target == head - Confirmations

FaultyDue == target > reader.cursor     \* a mutant: waits for one block more

due == target >= reader.cursor

(* tick, sweep and its first read.                                         *)
Wakes ==
    /\ reader.pc = "asleep" /\ block \in plan.polls
    /\ due
    /\ reader' = [reader EXCEPT !.pc = "window", !.target = target]
    /\ UNCHANGED <<memory, budget>>

windowEnd ==
    IF reader.cursor + WindowBlocks - 1 > reader.target THEN reader.target
    ELSE reader.cursor + WindowBlocks - 1

(* The cursor after a window that came back.                               *)
moved(to) == to + 1

(* The live operations refreshLive will read.                              *)
refreshed(directory) ==
    firstOf(liveIds(directory), LAMBDA k, l : newerRoom(directory, k, l), LiveReadLimit)

(* One window came back, and is folded whole.                              *)
Folds ==
    /\ reader.pc = "window"
    /\ memory' = foldedWith(memory, eventsOf(reader.cursor, windowEnd))
    /\ reader' = IF windowEnd < reader.target
                 THEN [reader EXCEPT !.cursor = moved(windowEnd)]
                 ELSE [reader EXCEPT !.cursor = moved(windowEnd),
                                     !.pc = IF hasLiveDraw(memory'.directory)
                                            THEN "bounty" ELSE "rows",
                                     !.left = refreshed(memory'.directory)]
    /\ UNCHANGED budget

(* refreshLive: the idle pool, then each live room, as the head has them.  *)
ReadsBounty ==
    /\ reader.pc = "bounty"
    /\ \/ reader' = [reader EXCEPT !.pc = "rows", !.bounty = store.globalDefensePool]
          /\ UNCHANGED budget
       \/ /\ budget > 0 /\ budget' = budget - 1
          /\ reader' = [reader EXCEPT !.pc = "rows"]
    /\ UNCHANGED memory

(* What enrich writes over a row: a draw's jackpot only while it is OPEN.  *)
enriched(r, lobby, bounty) ==
    LET open == lobby.status = "OPEN" IN
    [r EXCEPT !.maxPlayers = lobby.maxPlayers,
              !.rewardPool = lobby.rewardPool + IF open THEN lobby.entryFeesCollected ELSE 0,
              !.drawBounty = IF open /\ bounty # Unread /\ @ # Unread THEN bounty ELSE @]

newestOf(ids) ==
    CHOOSE l \in ids : \A m \in ids \ {l} : newerRoom(memory.directory, l, m)

ReadsRow ==
    /\ reader.pc = "rows" /\ reader.left # {}
    /\ LET l == newestOf(reader.left) IN
       /\ reader' = [reader EXCEPT !.left = @ \ {l}]
       /\ \/ /\ l \in LobbyIds
             /\ memory' = [memory EXCEPT !.directory.lobbies[l] =
                               enriched(@, lobbyOf(l), reader.bounty)]
             /\ UNCHANGED budget
          \/ /\ budget > 0 /\ budget' = budget - 1
             /\ UNCHANGED memory

Sleeps ==
    /\ reader.pc = "rows" /\ reader.left = {}
    /\ reader' = sleeps
    /\ UNCHANGED <<memory, budget>>

(* A read of the sweep itself fails: the next sweep takes it from there.   *)
Fails ==
    /\ reader.pc = "window" /\ budget > 0
    /\ reader' = sleeps
    /\ budget' = budget - 1
    /\ UNCHANGED memory

(* A mutant: the cursor outlives the memory.                               *)
FaultyRestarted == [Asleep EXCEPT !.cursor = reader.cursor]

restarted == Asleep

(* The process is stopped and started: the whole log is read again.        *)
Restarts ==
    /\ budget > 0
    /\ reader' = restarted
    /\ memory' = Nothing
    /\ budget' = budget - 1

Reads ==
    /\ Wakes \/ Folds \/ ReadsBounty \/ ReadsRow \/ Sleeps \/ Fails \/ Restarts
    /\ UNCHANGED <<block, store, log, plan, fork>>

-----------------------------------------------------------------------------
(* The chain goes on, remembering where its reorganisation will go back to *)
(* as long as no more than the confirmations would be undone.              *)

remembered ==
    CASE fork.at = block' -> [at |-> block', store |-> store, logged |-> Len(log)]
      [] fork.at # 0 /\ fork.at < block' - Confirmations -> NoFork
      [] OTHER -> fork

Mined ==
    /\ Tick /\ UNCHANGED <<log, reader, memory, plan, budget>>
    /\ fork' = remembered

Transacted ==
    /\ Len(log) < plan.events
    /\ Transacts /\ Len(store'.lobbies) <= plan.rooms
    /\ UNCHANGED <<reader, memory, plan, budget, fork>>

(* The blocks since are replaced by an empty chain, to be filled anew.     *)
Reorganised ==
    /\ fork.at # 0 /\ fork.at <= block - 1
    /\ block' = fork.at
    /\ store' = fork.store
    /\ log' = SubSeq(log, 1, fork.logged)
    /\ fork' = NoFork
    /\ UNCHANGED <<reader, memory, plan, budget>>

IndexerNext == Reads \/ Mined \/ Transacted \/ Reorganised

(* Fairness: blocks come, the timer fires whenever a sweep is due, and     *)
(* every read ends, well or badly; what is outside a step stands still.    *)
IndexerStep(A) == A /\ UNCHANGED <<block, store, log, plan, fork>>

BlocksCome == []<>(block = MaxBlock) \/ []<><<Mined>>_indexerVars

TimerFires ==
    []<>~(reader.pc = "asleep" /\ block \in plan.polls /\ due)
        \/ []<><<IndexerStep(Wakes)>>_indexerVars

ReadsEnd ==
    []<>(reader.pc = "asleep")
        \/ []<><<IndexerStep(Folds \/ ReadsBounty \/ ReadsRow \/ Sleeps)>>_indexerVars

IndexerSpec ==
    /\ IndexerInit /\ [][IndexerNext]_indexerVars
    /\ BlocksCome /\ TimerFires /\ ReadsEnd
=============================================================================
