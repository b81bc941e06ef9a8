# A TLA+ model of Aegylax

Aegylax is a game on an EVM chain.  An *epoch* is a run of blocks; each epoch may have one
*attack*, whose geometry is drawn in secret by a confidential engine.  Players form
*operations* (lobbies) on an epoch, pay to enter, send probes that give noisy readings,
and each send one sealed defense point while the threat flies.  After impact the geometry
is published, each team is scored against it, and the earliest hits share the pool.  A
round that is played and lost gives its pool to the *Global Defense Pool*, which the
protocol puts up again in *draws* of its own.

Around the contract run a keeper that sends the transitions nobody owns, an indexer that
folds the contract's log into records and a directory, a faucet for demo wallets, and in
every browser either a client of the contract or a whole copy of the protocol, the
*emulator*.  This directory models all of these; sections 7 to 9 say what is only checked,
what is left out and what comes next.

## 1. Inventory

| Part | State it keeps | Operations | Made correct by |
|---|---|---|---|
| `AegylaxGame.sol` | the storage below; ether | about thirty entry points: governance, seats, moves, reveal, verdict, payouts | solvency, one fate per attack, no move on readable data, the verdict final, everything ends and pays out |
| `AegylaxStorage.sol`, `GameTypes.sol` | one `GameStorage` record | read and written by the libraries | references point at what exists |
| `libraries/Lobbies.sol`, `Settlement.sol`, `Scoring.sol`, `Resolution.sol` | - | mint, start, close, draw; owe, push; score, finalize, crown | the pile moves only into a draw that starts; each wei owed once; the crown is the earliest hits |
| `libraries/Epochs.sol` and `game/epochs.ts` | - | block <-> epoch, launch epoch, twice | first boundary with room; the two copies agree |
| `libraries/ProtocolRules.sol`, `ReconRules.sol`, `DefenseMask.sol`, `Geometry.sol`, `Trig.sol` | - | validation, hints, masking, geometry | limits, accuracy, inverse permutations |
| `AegylaxLens.sol` | - | views, derived status | agrees with what the writes would do |
| confidential engines (3) | handles, permissions, noise | draw, hint, mask, unlock, verify | nobody reads a secret before its time |
| `api/keeper` | last sweep, wake-ups, work in progress | sweeps, nudges; sends what is due | everything ends; it never sleeps past a deadline |
| `api/indexer` | cursor, ledger, directory | windows of events, folded | the memory is the chain replayed, nothing counted twice |
| `api/faucet`, `useFaucet` | memory, wallets in flight; stored cooldowns | one drip a day a wallet | nobody paid twice, nobody kept waiting for nothing |
| `EmulatorBlockchainClient.ts` | a chain in the browser, a copy in `localStorage` | every write of the protocol, blocks, lazy settling, reload | same promises as the contract, whoever looks and whenever |
| `LobbyPage` and its hooks | what was read of head, lobby, attack, result; a request in progress; a claim in progress | reads, nudges, clicks | shows only what was so; offers what would be accepted; a click pays all or nothing |
| `api/chain`, `health`, `config`; the rest of the interface | client, settings; presentation | RPC, HTTP, pages | - |

**How they interact.**  Players, the owner, the keeper and every open browser call the
contract; calls are transactions, atomic and totally ordered, several to a block, and a
call that fails leaves no trace.  The contract calls the engine synchronously and the
engine's network answers later, off chain, with signed plaintexts somebody has to bring.
Nothing calls the contract by itself, so every transition that time brings about waits for
someone's call.  Keeper, indexer and page are asynchronous programs: each read and each
send is an `await`, and the chain moves under it.  The page also asks the keeper, over
HTTP, to finish a round it is looking at.

**What is hard here.**  In the contract, orders of calls: many parties may make the same
transition through different entry points, teams share one attack, settings change between
two calls of one operation, one call carries out another's upkeep.  Around it, the state
read before an await and used after it, answers that overtake one another, processes that
lose their memory, and reads that change what they read (the emulator).  `PROJECT.json`
lists each hazard with its line.

## 2. The modules

| Module | Models | State |
|---|---|---|
| `Epochs` | `libraries/Epochs.sol`, the draw-epoch arithmetic | operators; `U32` scales `uint32` |
| `AegylaxStorage` | `AegylaxStorage.sol`, `GameTypes.sol`, `validateParams` | `block`, `store` |
| `Settlement`, `Lobbies`, `Scoring` | the libraries of those names, `Resolution.sol` | operators on the store |
| `AegylaxGame` | one action per entry point, `Tick`, `Spec` | |
| `AegylaxProps`, `AegylaxLiveness` | what the contract promises; fairness, and what must happen | |
| `OperationLife` | abstract: what a member of an operation is promised | `phase`, `team`, `paid` |
| `AegylaxLife` | the refinement of `OperationLife` by the contract | |
| `AegylaxLog` | the contract with the events each transaction emits | `log` |
| `Keeper`, `KeeperProps` | `api/keeper`, over `AegylaxGame` | `jobs`, `acted`, `timer`, `wakes`, `budget`, `answers` |
| `Indexer`, `IndexerProps` | `api/indexer`, over `AegylaxLog` | `reader`, `memory`, `plan`, `budget`, `fork` |
| `Views` | `lobbyPhase.ts`, `lobby.ts`, `economics.ts`, `codec.ts`, the money of `useSettlement` | operators |
| `Page`, `PageProps` | `LobbyPage.tsx` and its hooks, over `Views` | `visit`, `page`, `reads`, `nudging`, `click` |
| `GameClock` | `game/epochs.ts`, `game/globalDefense.ts` | operators |
| `EmulatorChain`, `Emulator`, `EmulatorProps` | the chain in the browser; its writes, reads, timer and copy on disk; its promises and its refinement of `OperationLife` | `chain`, `disk`, `start` |
| `Faucet`, `FaucetProps` | `api/faucet` and `useFaucet.ts` | `sent`, `recent`, `inFlight`, `requests`, `device`, `stored`, `visit` |
| `EpochSchedule` | the launch rule on every deadline of a grid | `grid`, `deadline` |
| `AegylaxProofs`, `AegylaxStepProofs` | the theorems about the contract: its storage; its steps, its life round by round and its money | |
| `PageProofs` | the theorems about a visit to the page | |
| `KeeperProofs` | the theorems about the keeper: its passes, its calls, its sleep | |
| `EmulatorProofs` | the theorems about the chain in the browser: its money, its readings and reloads, the life of its operations | |
| `IndexerProofs` | the theorem about the indexer, with what a fold of the log is made of | |
| `ClockAndFaucetProofs` | the theorems about the clocks and the faucet | |
| `SumProofs` | lemmas: division and products; sums over finite sets | |
| `MC...` | instances | |

**Correspondence, contract.**  The libraries receive the storage pointer and change what it
points at.  `store` is that storage as one record, `store.balance` the contract's ether, and
a library function is an operator from a storage record to the next; beside it `...OK` says
when it does not revert.  They compose as the calls do, so an action such as `sendProbe` is
the whole handler: upkeep of the draw, start of the operation if it is still open, the
move, the attack marked launched.  An action is enabled exactly when its transaction would
not revert.  Lobby ids are positions in `store.lobbies` (the code hashes a nonce).  A `Seat`
is the `Participant` struct with the one `DefenseAttempt` its `defenseIndex` points at.

**Correspondence, keeper.**  A job (the sweep, or a nudge beside it) is a record with a
program counter; each `await` of `advance`, `unlockRound`, `revealAndScore` and `proveAll`
ends a step, and the next step uses what was read before it.  A send is simulated, sent and
awaited; it may fail at each, and a transaction whose receipt is lost has changed the contract
all the same (`LostSend`).  A read lost inside `revealAndScore` is caught there and any other
throws the pass away (`LostRead`).  The service counts actions in one number, so a send of the
nudge also makes the sweep's pass look active, and the reverse (`acted`, `counted`).  The pages'
own transitions (`Browsers`) are other senders.

**Correspondence, indexer.**  Each action of `AegylaxLog` is one of `AegylaxGame` with its
events appended in order.  The reader takes windows behind the head, folds them
(`ledger.ts`, `lobbies.ts`), then reads the newest `LiveReadLimit` live rooms and the bounty
beside the log; a read may fail, the process may restart from nothing, the chain may reorganise
once.  A wallet is told of its operations in play and of its newest `PlayerPastLimit` ended ones
(`forPlayer`; 12 in the code, 1 in the run).

**Correspondence, page.**  `page` is what the hooks hold; `reads` are requests on their
way, each with what the chain said when it was answered, landing in any order; `nudging`
is `useProtocolKeeper` (attempts, timer, the answer awaited, by which mount); `click` is
`useSettlement`'s chain of transactions.

**Correspondence, emulator.**  `chain` is `EmulatorState`; a function that changes it is an
operator, `settleLobby` and the draw's upkeep included.  A write is one application
(`applyWrite`), refused or not; a read settles and is not saved; `Reload` starts again from
`disk`.

**Correspondence, faucet.**  A request goes from `asked` through the awaits of `drip`
(`explorer`, `balance`, `sending`) to `answered`; dates are kept as distances from now, so
one tick ages the transfers and shortens the waits.  `forgotten` marks a transfer that the
process lost, by a restart or a lost answer, before the explorer had it, and `strayed` a
button whose clock came with an answer for another wallet: both are written by the steps
that bring the situation about and read by nothing but the properties.

**Abstractions.**

- *Hits.*  Whether a defense point was inside the radius is geometry over secrets fixed
  before anybody could read them.  It is chosen freely when an attempt is first scored, and
  never again.
- *The confidential network.*  Signatures and plaintexts are not values here.  A network
  that is late or silent is one whose calls are not taken.
- *Wallets that refuse.*  `Refusers` are wallets whose transfers fail; a call that must pay
  one reverts.  In `rooms` one wallet refuses, elsewhere none does.  The faucet's `Deaf` wallet
  is the same on its side.
- *Amounts.*  A payable call brings the exact amount the code demands; every other amount
  reverts.  `uint128` limits are not modelled.  The emulator's sums are floats; the
  instances choose sums that divide.
- *Strategies.*  `Authors`, `Acting`, `Leavers`, `Defending`, `Creators` bound which wallets
  take part in which way in the composed runs.
- *History before the model.*  `InitialPool` is what earlier operations forfeited.

## 3. Properties

Contract: `TypeOK`; `Solvent`, the balance is exactly the treasury, the pool and what each
operation still owes, and nothing is overdrawn; `OneFate`; `ReadingCostsTime`;
`CrownIsEarliest`; `InterceptionsCountedOnce`; `OrdinaryWritesGoThrough`, the draw's upkeep
reverts no ordinary write while it is `Unhindered` (section 6 says by what);
`DrawsKeepTheCalendar`; the action properties `NoMoveAfterUnlock`, `VerdictIsFinal`,
`PoolFallsOnlyAtAStart`; the liveness properties `EveryRoomEnds`, `EveryWeiLeaves`;
`FirstRoomyEpoch` and `BothCopiesAgree` of the two clocks.

Refinement: `AnOperationIsWhatWasPromised` maps an operation of the contract, and one of the
emulator, onto `OperationLife`: the team is fixed once it runs, a full team is needed to
run, there is one ending, nobody is paid twice.  The same abstract specification is
implemented by both, by different transitions: the contract's are pushed by calls, the
emulator's are what a settling read would make of it now.

Emulator: `EscrowHoldsWhatIsOwed`; `ReadingChangesNothing`, when an operation is looked at
does not change what becomes of it; `ReloadLosesNoMove`; `UpkeepNeverThrows`;
`PoolFallsOnlyAtAStart`; `EveryRoomEnds`.

Keeper: `KeeperEndsEveryRoom`, alone it brings every operation to its end, but for two kinds it
leaves undone: one `overlooked`, its attack published, its defenses all proven and no verdict
asked for, and one `stranded` by another's expiry; `NeverMeansNothingToReveal`, the sweep
answers NEVER of no operation but an ended one or one of those; `WakesForEveryDeadline`.  The
statement of the code's own comment, `NeverMeansNothingLeft`, is false (`find_unfinalized`).

Indexer: `FoldIsTheChainReplayed`, `DirectoryTellsTheStatus`, `RoundsAddUp`,
`BooksBalance`, `ReaderCatchesUp`.  `DirectoryTellsTheStatus` includes the list a wallet finds
an operation on: every one in play, and of those ended the newest, up to the cap.

Page: `PageTypeOK` (whatever is shown has happened), `OffersMatchTheRules` (the controls of
an up-to-date page are lit exactly when the contract would accept), `AmountsAddUp`,
`ClickIsAllOrNothing`, `AsksUntilAnswered`, `PageCatchesUp`.

Faucet: `OnceADay`, `WaitsAreEarned`, `PaidEveryDay`.

Every property has in `PROJECT.json` a mutant of the code that breaks it; the mutants are
the definitions named `Faulty...`.

## 4. Runs

| Run | Instance | Shows |
|---|---|---|
| `one_room` (136k states) | one operation, two wallets, epochs of 4 blocks, grace 1, 9 blocks, probe price 1 or 3 changed at will, entry 2 + 50% commission, bounty 3, withdrawals of 1 | money, delay, crown, verdict, the abstract life |
| `rooms` (80k) | two operations of the same wallets on one attack; or draws every 2 epochs of 2 blocks, cadence turned on and off, pool of 3; one of the wallets refuses payments | fates, the tally, the calendar, the upkeep, the pool |
| `life` (20k) | one operation, a player's or a draw, paused at any time | it ends, every wei leaves |
| `epochs` (2.9k) | every grid of 1 to 12 blocks an epoch, three genesis blocks, deadlines 0 to 80, `U32` = 8 | both copies of the launch rule, up to the top of the range |
| `emulator` (15k) | an operation on epochs of 4 blocks; draws on epochs of 2 with a pile of 4 | the browser's chain |
| `keeper` (191k) | two wallets, a free operation and one incident (a second operation on the attack, another's call, a nudge, a lost send, receipt or read), or draws; batches of 1, sweeps of 3 blocks | the keeper alone ends every operation, but for those of section 3 |
| `page` (135k) | four visits: `Watch` (reads overtake one another), `Play` (controls through a whole flight), `Reveal` (asking the keeper, leaving), `Collect` (claims on a stale screen, lost answers) | one tab |
| `indexer` (80k) | a whole priced operation; a reader with an incident and a reorganisation; draws with a reader; two operations that end, for a list capped at one; two in play, for a reader that reads one | log, folds, reader |
| `faucet` (232k) | one wallet on two devices with two faults; two wallets on one device, one of them deaf, with one fault; cooldown 2, lag 1, three transfers a wallet in memory | both sides of a drip |

**Violation runs.**  Each checks one statement of the repository that its code does not
bear out; the quotations are under "findings" in `PROJECT.json`.

| Run | What happens |
|---|---|
| `find_stranded` | `expireAttack` marks the *attack*, so of two unrevealed operations on one attack only the first can be expired; nothing ends the second, whose money stays |
| `find_unfinalized` | once somebody else has proven every defense of a published attack, the keeper's pass answers NEVER of an operation that still has no verdict (its own lost call, or a second operation, does as well: section 8) |
| `find_double_count` | an author who takes a bounty back through `claimRefund` has it in the record twice |

**Why the bounds are enough.**  Two wallets give ties, an earlier and a later hit, a
winner and a loser, a partly proven team, one refunded and one not.  Entry 2, commission 1,
bounty 3 and probes of 1 or 3 make every pair of sums distinguishable, make pools that do
not divide by two (dust), and let a price rise between two purchases of one seat.  Nine
blocks with epochs of four hold applications, the skipped boundary, launch, the climb of a
probe (3) followed by a defense, impact, grace and the claims after it.  In `rooms`, seven
blocks with draws every four hold a whole draw, its leftover and the next.  `MaxBatch` is 2
or 1, so a team can be larger than a batch.  The keeper's 5 blocks of epochs of 2 hold the
sweep before the deadline, the one at it, the one after impact and the expiry; with batches of
1 a team of two needs two proofs, and either, the publication or the verdict's call is
the one that is lost.  Two incidents on one operation are explored only for safety
(`find_unfinalized`).  The indexer's window is 2 and its lag 1, so four blocks
have two windows, the last of them partial, and a fork may undo what is not confirmed; its
operations have no bounty of their own, since `BooksBalance` is false of one that an author takes
back (`find_double_count`).  The
page's `reads` allow two answers of one hook on their way, the fewest that can overtake one
another.  The faucet's cooldown 2 and lag 1 are the least with `Lag < Cooldown` in which a
transfer can be indexed, remembered, forgotten, expired and paid again; the third transfer
in memory is the one after an expired one and a doubled one.  `MaxBlock`, `MaxRooms` and
`MaxDeadline` bound the clock, the operations players open (draws are not counted) and the
deadlines they choose.  Wallets are symmetric where a run has only safety properties and
treats them alike, which `rooms` does not.  In every run one reveal grace is in force, so an
operation's own and its epoch's are equal; that they may differ is covered by the theorems
(`OneFateForEveryAttack` is for any rules) and by no liveness run.

Deadlock is checked except in `epochs`, which ends at its last deadline, and in `indexer`
and `page`, whose histories end at their last block with nothing left to read.

## 5. Fairness

*Contract* (`FairSpec`): blocks are mined; `cancelLobby`, `unlockRound`, `finalizeScoring`
and `expireAttack` are eventually called while they stay possible; whoever is owed money
eventually asks for it.  The first group is open to everybody, the keeper and each open
browser sweep it, and the contract's comments rely on it.  Nobody is assumed to join, start,
move, reveal or score, and the owner is assumed to do nothing: the runs let the game be
paused and stay so.  `life` also keeps the cadence of the draws that it began with.  The
promises are made for operations whose deadlines lie inside the explored blocks.

*Keeper* (`KeeperFairSpec`): blocks come, its timer fires, its awaits end, and a
network that signed a trajectory signs, sooner or later, the
defenses flown against it.  Nobody else is counted on: `KeeperEndsEveryRoom` derives from
the keeper's own code what `FairSpec` assumes of the swept calls, and shows where it does not
hold: `finalizeScoring` for an `overlooked` operation and `expireAttack` for a `stranded` one
must come from someone else, or cannot.

*Emulator*: its block timer fires and somebody goes on looking at some page of it.
*Indexer*: its timer fires and its reads end, while the chain stands still in between.
*Page*: blocks come and are heard, the page is opened again, the reads of the operation and
its attack are asked for and answered (each head refreshes them).  The keeper is not assumed to
answer.  *Faucet*: time passes, the explorer catches up, whoever is short of ether presses a
lit button, answers arrive, and the process goes on serving what it began.

Fairness is written with guards in the place of `ENABLED` where that is the same formula and
cheaper to evaluate.

## 6. What is proved

`tlapm` checks these for every value of the constants, from the named assumptions of
`Epochs`, `AegylaxStorage`, `AegylaxGame`, `EpochSchedule`, `EmulatorChain`, `Emulator`,
`EmulatorProps`, `Keeper`, `Indexer`, `Page` and `Faucet` (finitely many players,
block counts at least one, a lag shorter than the cooldown, a reorganisation that leaves the
block of the deployment alone, and so on; TLC evaluates them in each run).

| Theorem | States |
|---|---|
| `StorageStaysSound` | `Spec => []IInv`, the invariant of the storage |
| `StorageIsTyped`, `OneFateForEveryAttack`, `AReadingCostsTime` | `TypeOK`, `OneFate`, `ReadingCostsTime` |
| `PlayStaysFair` | `Spec => []FairPlay`, the invariant of the play |
| `TheVerdictIsFinal`, `ReadableIsFrozen` | the action properties `VerdictIsFinal`, `NoMoveAfterUnlock` |
| `TheCrownIsTheEarliestHit`, `EveryInterceptionCountsOnce` | `CrownIsEarliest`, `InterceptionsCountedOnce` |
| `EveryDrawIsBookedOnce`, `TheDrawsKeepTheCalendar` | the calendar's invariant; `DrawsKeepTheCalendar` on one grid |
| `EveryOperationIsWhatWasPromised`, `TheFirstOperationIsWhatWasPromised` | the contract implements `OperationLife`, for every operation; the form the runs check |
| `TheBooksAreKept` | the invariant of the money |
| `TheContractIsSolvent`, `ThePoolIsTakenWhole` | `Solvent`, and the action property `PoolFallsOnlyAtAStart` |
| `TheUpkeepNeverRefuses` | `OrdinaryWritesGoThrough` |
| `TheEmulatorKeepsItsBooks` | the invariant of the emulator's money, in memory and as saved |
| `TheEmulatorIsSolvent`, `TheEmulatorsPoolIsTakenWhole` | `EscrowHoldsWhatIsOwed`, and the emulator's `PoolFallsOnlyAtAStart` |
| `TheUpkeepNeverThrows` | `UpkeepNeverThrows` |
| `ReadingEarlyChangesNothing`, `AReloadLosesNoMove` | `ReadingChangesNothing`, `ReloadLosesNoMove` |
| `EveryBrowserOperationIsWhatWasPromised`, `TheFirstBrowserOperationIsWhatWasPromised` | the emulator implements `OperationLife`, for every operation; the form the run checks |
| `LaunchIsFirstRoomyEpoch`, `TheBrowserNamesTheLaunch` | `FirstRoomyEpoch`, `BothCopiesAgree` |
| `PaidOnceADay`, `NobodyWaitsForNothing` | the faucet's `OnceADay`, `WaitsAreEarned` |
| `TheTabIsOneMoreUser` | `PageSpec => Spec`: a page adds no step to the contract |
| `AVisitIsSound` | `PageSpec => []PInv`, the invariant of a visit |
| `WhatIsShownHasHappened`, `ThePageAsksUntilAnswered` | `PageTypeOK`, `AsksUntilAnswered` |
| `TheKeeperIsOneMoreCaller` | `KeeperSpec => Spec`: the keeper adds no step to the contract |
| `EveryPassKeepsItsPlace` | `KeeperSpec => []KInv`, the invariant of a pass |
| `TheKeeperWakesInTime` | `WakesForEveryDeadline`, on one grid |
| `TheIndexerReplaysTheChain` | `FoldIsTheChainReplayed` |

Some of them have a hypothesis beside the assumptions on the constants.

- `TheDrawsKeepTheCalendar` and `TheKeeperWakesInTime` assume `OneGrid`: the rules governance
  may choose from agree in `epochBlocks`.  The code does not enforce it, and without it the statement is false: an
  attack minted on the old grid keeps its launch block while a later draw of the same
  epoch number closes by the new one.  `EveryDrawIsBookedOnce` is what holds without it.
  The keeper computes the next boundary with the length in force when it goes to sleep, and
  an attack minted on another grid lands off it.
- `OrdinaryWritesGoThrough` carries its own: it is about states that are `Unhindered`, where
  the next draw epoch still has a number in `uint32` and no member of a leftover draw refuses
  its refund (`Settlement.sol:130`).  Either does make the upkeep, and the write it rides on,
  revert; in `rooms` a wallet that refuses takes part in the draws.

- Those about the emulator, but for `TheUpkeepNeverThrows`, assume `~Rejoins`: nobody joins an operation he has a
  seat in.  The emulator does not refuse it (section 8), and a second join overwrites
  what the first one paid.  Sums of ether are natural numbers in the model and a share rounds down,
  while the code's are floats: what the theorems say of money is exact only where the
  floats are.

**The storage.**  `OneFate` is not inductive.  That a judged operation's attack is
published is preserved by `expireAttack` only because a published attack cannot expire, and
that one cannot is preserved by `revealEpochAttack` only because it wants the attack
`COMPLETED` while an expired one is `RESOLVED` (`SoundAttack`).  That nobody is both paid
and refunded needs the status and the ending to agree and each payment to point at the
ending that allows it (`OneStory`), since the entry points test one and the libraries the
other.  `Linked` joins an operation to its attack.  `IInv` is the conjunction, together with
types.  It speaks of the storage alone, so each library operator has a lemma that takes sound
storage to sound storage, and an action follows from the operators it calls, in the order
it calls them.  All writes have a few shapes (`withLobby`, `withNewLobby`, `withAttack`),
whose lemmas carry the record and sequence reasoning once.

**The play.**  A call runs several library operators in a row, each of which writes one
operation.  `AegylaxStepProofs` therefore names the few things that can happen to one
(`RoomMove`: kept, reseated, acted, scored, judged, expired, paid), to an attack
(`AttackMoves`), to the tally (`Quiet`, `Tallied`) and to the calendar (`Calendar`), proves that
these compose, and shows once, in `NextSteps`, that every action is a `StepOf`.  What
follows is then a case analysis over relations, never over the code again.  `CrownIsEarliest` needs
that a scored defense was sent (or an unsent one, at block 0, would be the earliest) and
that only a published, judged operation stands still; `NoMoveAfterUnlock` that an attack is
unlocked only after impact, while a move wants it in flight; the tally that an intercepted attack has
a judged team that stopped it.  `FairPlay` is the conjunction of these with `IInv`.

**The calendar.**  `Calendar` says of a step that a newly drawn attack is on the grid, that
an epoch is booked once, for a room opened in the same step, and that every new draw is booked.
Such an attack flies from the start of its epoch for one epoch (`Flies`).  `drawFlies` does
the arithmetic: `drawDeadline` is one block before the start of `drawEpoch`, so dividing it
back gives the epoch before, and the room flies in the one it was opened for.  `Booked` is
the invariant.

**The life.**  Each `RoomMove`, under `FairPlay`, is a step of `OperationLife` or a
stutter of it; the minimum the abstract specification asks of a team that runs is the
smallest that any rules in force may ask (`QuorumAssumption`).

**The money.**  `Solvent` is not inductive either: that the balance covers what is owed says
nothing of an operation whose ending has yet to decide who is owed.  `Books` adds an account
of each operation (`Banked`): while applications are open each of its sums is the sum of what
its members paid towards it, so that a seat can be given back (`Gathered`); until it ends its
three sums together are what its members and its author put in, so that a refund can return
it all and a verdict can share it (`InPlay`); once completed the winners' shares fit in
the pool (`Shared`); and nothing is negative.  Every operator moves money between accounts and the balance
by the same amount, and `DuesTotal` adds the accounts up.  The sums are the library's
`MapThenSumSet`, a fold that chooses elements in an order of its own; `SumProofs` shows
that it is additive, monotone and independent of that order, by taking the smallest
subset on which it would not be (`SmallestBadSet`).

**The emulator.**  The same account is kept of each of its operations (`Sound`), with two
differences the code makes.  A claim is computed from the seats when it is made, so the
invariant speaks of seats: what a seat paid is the price, the commission and its probes
(`Seats`), which is how `commissionPaid` finds the commission again when somebody leaves.  And
nothing happens on time, so a reading of an operation may close it, start it, launch and
judge its attack at once: each of these rewrites one operation (`Rewrites`), with the escrow
and the pool moved by what it comes to owe, and rewrites compose (`Onward`, `Leads`).
`settleAll` is a run of them as long as the list of operations (`RunKeeps`, by the
shortest run on which it would fail).  `Booked` is needed for the top-up to be idle: what is booked is a draw, and
a draw still open is left alone.  What was saved is an earlier state of the tab, so the
invariant is stated of both copies and a reload swaps one for the other.

**The emulator's readings.**  What settling makes of a player's operation depends on that
operation, the limits and the block alone: `SettlingRoom` computes it as `roomAt`, a function
of one record, and `RoomTwice` shows that `roomAt` at one block and then at a later one is
`roomAt` at the later one, but for the block it was judged at (`seen`).  A reading therefore
leaves each player's operation as it was or as `roomAt` makes it (`Looks`), and readings
compose (`LooksOn`).  Every step is one of five kinds (`EveryStepIsOneOf`): a look, a block, an
operation opened, a reload, or one operation written, and then what changes is said of the
settled operation (`Moves`: nobody moves, one enters, one quits, one is paid).  The
invariant `Kin` is that the tab can be read on from its saved copy, `Looks(disk, chain)`, and
that each operation is `Whole`: as many members as its count says, a minimum no less than
the limits', a launch after its deadline, and payments on one side only.  The launch after the
deadline is why one block never carries an operation past two of its life's phases, so
that each kind of step is one move of `OperationLife` or none (`BlockLives`, `MoveLives`).
`Quorum` is any number of players below which no limits in `Starts` go
(`QuorumAssumption`); that the configured minimum is at least one is what `env.ts` checks.

**The clocks.**  `LaunchIsFirstRoomyEpoch` and `TheBrowserNamesTheLaunch` rest on the order of
boundaries, derived from division and products over the naturals (`SumProofs`).

**The faucet.**  `OnceADay` says nothing of the requests, so it is preserved by a send only
with three more facts (`PayInv`): one request of a wallet is served at a time, and only
while nothing is remembered of it (`ServesOne`); whatever spends a wallet's day is indexed,
remembered for at least as long, or going out now (`SomebodyKnows`); and past the explorer's
answer nothing is left that spends it (`ChecksWereMade`).  The explorer's empty answer gives
the third from the second, since the first leaves no memory and no other send; a restart
keeps the second because what it loses it also marks.  `WaitsAreEarned` adds that a transfer
still going out is no older than the lag (`FreshWhileSending`), which dates the cooldown of
an answer, and that a button not astray wears the stored clock (`WornIsStored`); every step
between two ticks keeps the transfers and writes only earned waits (`WritesEarnedWaits`),
and a tick takes as much from a wait as it adds to an age.

**The page.**  A read is answered in one block and lands in another, behind or ahead of
others, so nothing relates the screen to the contract as it is.  What can be said is that each
answer was true when it was given and says nothing the contract takes back.  `ReadsAreTrue`
says it of the answers on their way, `ScreenIsTrue` of the screen they land on, and `Forward`
is what they rest on: no contract step lowers a block, reopens an operation, moves a launch
or undoes a verdict, which `PlayStaysFair` and `RoomMove` give.  `PInv` adds what the
hook remembers of its requests (`Remembers`): once its effect has run for the retry it has
now, a request is on its way, a timer is set, or it has stopped for good, by its budget or by
one of the two exceptions.  `AsksUntilAnswered` follows, since every answer that is none
leaves a retry or a timer behind.
A click's transactions are calls anybody may make, hence `TheTabIsOneMoreUser`.

**The keeper.**  Between two of its awaits the contract moves, so its invariant says only what
no step takes back (`Onward`: operations, defenses sent and starts stay, deadlines stand).
`KInv` is that a pass works on one operation that exists, past its first read only on one
that has started or whose applications had closed when the pass began (`Late`), and that
its queue holds calls for that operation alone, the last of which ends the pass (`Ends`).  Each
call is then one anybody may make, hence `TheKeeperIsOneMoreCaller`.  For its sleep, each step is one
of four kinds: the pass stays where it is, comes back with an answer, falls asleep, or is thrown
away (`Stays`, `ComesBack`, `FallsAsleep`, `IsThrownAway`).  `Punctual` says that a sweep under
way holds an answer for each operation it has passed, for an open one its deadline (`Waits`),
and that a sleeping keeper is up for the next epoch boundary and for each of those.  An open
operation's deadline is among them; an attack in flight lands on a boundary
(`LandsOnABoundary`, from `Booked`), and there is none before the next.

**The indexer.**  `FoldIsTheChainReplayed` compares the memory with one fold of the whole log up
to the cursor, so a window must add exactly what was missing.  The library's fold is a
recursive function over the sets of positions; `FoldAlike` and `FoldOfJoin` show, by the
first position at which it would fail, that folding two stretches one after the other is folding them
joined.  `Dated` says that the log is written in the order of its blocks, hence that the
stretches of two adjacent ranges of blocks meet (`CutExists`, `StretchesMeet`), and every
transaction keeps it: each library call appends events of one block (`Written`, `Grown`).
`ReaderInPlace` keeps the cursor and the sweep behind the head, and `NothingReadIsUndone`
keeps both behind every block that a reorganisation may still undo: this is where the
confirmations are needed, and one more block of depth than they cover would break it.  What is
read beside the log writes a room's limit, its pool and the amount of a draw's bounty, never
whether it is a draw, and no event reads these: it changes nothing the log says
(`EnrichedSaysTheSame`), and the property, like `Alike` in the invariant, leaves those amounts
out.  `IndexerInv` is the conjunction.

## 7. What is only model-checked

- Every liveness property, and whatever needs `ENABLED`: out of the prover's reach.
- `OffersMatchTheRules` and `ClickIsAllOrNothing` of the page, which compare a button with what
  is `ENABLED`, and `AmountsAddUp`, which needs the bounty, the entries and the shares apart
  where `Books` keeps their sum.
- `NeverMeansNothingToReveal` of the keeper, which needs what each read of a pass said
  remembered to its end.
- `DirectoryTellsTheStatus`, `RoundsAddUp` and `BooksBalance` of the indexer, which compare the
  fold with the contract at an earlier block: they need every transaction's events weighed
  against its change of the storage.

Every safety and action property of the contract, of the two clocks, of the emulator and of
the faucet is a theorem, the refinements of `OperationLife` included, and so is that the keeper
wakes in time on one grid, and that the indexer's memory is the chain, replayed.

## 8. Not modelled

- Geometry and trigonometry (fixed-point over continuous inputs, out of a model checker's
  reach), `DefenseMask`, the sensor board and its hints, reconnaissance readings on screen.
- The engines and their three providers: handles, permissions, encryption; `setEngine` in
  the middle of a round, `setModules`, `collectProbe`.
- Timestamps, price ranges, radii and speeds, statistics nothing reads back.
- The bulk and admin readers of the lens, events nobody folds, the upgrade mechanism, and
  reentrancy (every paying entry point carries the guard, so a call is one atomic step).
- Chain service, health, configuration; forms, wallet sessions, the directory and profile
  pages; interface, guide, assets, tools.  Most of the repository's lines are of this last
  kind, which is why the share of lines modelled is small.
- The change of `epochBlocks` in the middle of the calendar is an action of the contract
  model, but no run explores it.
- Faucet: the amounts, its check at startup, an unconfigured faucet, signing out; a second
  tab is not told of a cooldown that another tab stored.

**Differences met while modelling, without a run.**

- `AegylaxGame`: `expireAttack` on an operation already closed lowers `activeLobbies` a second
  time and turns an `UNPLAYED` ending into `CANCELLED`; a reading costs 3 blocks
  where the README says 8; after `setParams` changes `epochBlocks` an operation can bind to an
  attack of the old grid; a far deadline wraps in `uint32`.
- Clock: `openFromBlock` of the browser rounds half an interval up and the contract's
  `joinBlocks` down.
- `AegylaxGame`: a member of a leftover draw who refuses his refund makes every ordinary write
  revert, since each closes that draw first, until the cadence is turned off or the next
  draw's epoch begins (`unfilledPastDraw` looks at the draw of the current interval alone).
- Keeper: after a publication with no further signatures it never calls `finalizeScoring`; nor
  again once its own call for it was lost (`keeper.service.ts:473`); nor for an operation without
  defenses whose attack another operation published.  In the last two the next pass
  returns at line 427 and answers NEVER, and `KeeperEndsEveryRoom` calls them `overlooked`;
  `nextDelay` is counted from the start of a sweep and the sleep begins at its end, so it
  oversleeps by the sweep's length (`WakesForEveryDeadline` allows it).  A failed read of the epoch
  boundary itself (`nextEpochBoundary`, line 401) is not modelled: the sweep then sleeps by the
  operations' deadlines and the idle cap alone.
- Indexer: between activation and the block in which `OperationStarted` is folded, the
  directory shows the jackpot twice (`lobbies.ts:432`); a finished row need not keep what was
  last read of it; past the newest sixty, live rooms keep what was read of them before.
- Page: `useProtocolKeeper.ts:104` says a nudge that comes back without a result makes the next
  one worth starting, but an `ok` answer is final (lines 249 and 270) and the keeper answers
  `ok` whenever its pass has ended; a page left during its nudge stays silent as well.
  (`AsksUntilAnswered` has these as its two exceptions.)  The page's prize pool leaves probe
  sales out.  `UNDERSUBSCRIBED` flashes on a stale read; `ensureRoundUnlocked` remembers an
  unlock that reverted, as `send` returns a failed receipt without throwing; the rules
  in force are read once and kept.  Of a creator who won with nothing further due, a stale
  page's second transaction reports an error.
- Emulator: `resolvedAtBlock` depends on who looked first (`ReadingChangesNothing` leaves it
  out); a deadline already past is accepted; a second join overwrites `paidIn`, against the
  comment at `EmulatorBlockchainClient.ts:797` (the runs do not join twice); two tabs share
  one copy on disk.
- Faucet: `faucet.service.ts:36` says what a restart forgets "is by then old enough for the
  explorer to have indexed it", which is not so within the lag, nor after a lost answer
  (`forgotten`); line 270 says a reverted transfer "does not spend the day", which `remember`
  (line 168) makes it do within one process; `useFaucet.ts:123` says a wallet's cooldown is not
  carried onto another's button, which an answer that lands after the change does (`strayed`).

## 9. Plan

1. *Done*: contract, draws, liveness; the abstract life and its two refinements; emulator,
   keeper, indexer, page, faucet; the theorems of section 6.
2. `Resolution` as the code computes it: the loop over attempts and its list of winners,
   implementing the set-based `recrown`.
3. `Engine`: handles, permissions, one noise per probed cell, unlocking; `setEngine` in the
   middle of a round.
4. A run in which the grid changes under the calendar; larger teams than batches in `keeper`.
5. `DefenseMask` and the lens's bulk readers as operators against references.
6. Proofs: `AmountsAddUp` of the page, `DirectoryTellsTheStatus` of the indexer.
