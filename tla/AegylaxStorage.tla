---------------------------- MODULE AegylaxStorage --------------------------
(***************************************************************************)
(* The protocol's one storage layout (contracts/src/AegylaxStorage.sol and *)
(* libraries/GameTypes.sol), reduced to what the rules of the game read.   *)
(*                                                                         *)
(* The libraries take the storage pointer $ and change what it points at.  *)
(* Here the storage is one record: a library function is an operator from  *)
(* a storage record to the next one, and beside it stands an operator that *)
(* says when the call does not revert.                                     *)
(***************************************************************************)
EXTENDS Epochs, FiniteSets, Sequences

CONSTANTS
    Players,        \* the wallets
    Game,           \* address(this): the creator of the protocol's own draws
    Refusers,       \* wallets that do not accept a payment (a call that fails)
    ParamSets,      \* the GameParams the owner may put in force
    Configs,        \* the operation terms a creator may choose
    Intervals,      \* the draw cadences the owner may set, 0 for none
    DayBlocks,      \* blocks in a calendar day (43200 on Base)
    MaxBatch,       \* defenses one transaction may score (32 on chain)
    Genesis,        \* the block the epoch grid is measured from
    InitialPool     \* forfeited by the operations played before this history

ASSUME PlayersAssumption == IsFiniteSet(Players) /\ Game \notin Players
                            /\ Refusers \subseteq Players

(* Terms are wei amounts, block counts and head counts.  minPlayers is at  *)
(* least two and epochBlocks at least one, as validateParams requires.     *)
GameParams ==
    [ epochBlocks : Nat \ {0}, revealGraceBlocks : Nat \ {0},
      minPlayers : Nat \ {0, 1}, maxPlayers : Nat \ {0, 1},
      maxProbesPerPlayer : Nat \ {0}, freeProbes : Nat,
      probePrice : Nat, protocolJoinFee : Nat ]

validParams(p) == p.minPlayers <= p.maxPlayers /\ p.freeProbes <= p.maxProbesPerPlayer

BPS == 10000

LobbyConfig ==
    [ minPlayers : Nat, maxPlayers : Nat, entryPrice : Nat,
      startPrizePool : Nat, creatorFeeBps : 0 .. BPS ]

ASSUME ParamsAssumption ==
    /\ ParamSets # {} /\ ParamSets \subseteq GameParams
    /\ \A p \in ParamSets : validParams(p)
    /\ Configs \subseteq LobbyConfig
    /\ Intervals \subseteq EpochIds

ASSUME NumbersAssumption ==
    /\ Genesis \in Nat /\ InitialPool \in Nat
    /\ DayBlocks \in Nat \ {0} /\ MaxBatch \in Nat \ {0}
    /\ Intervals # {}

VARIABLES
    block,      \* block.number
    store       \* GameStorage, with the contract's own ether as .balance

LobbyStatus  == {"OPEN", "ACTIVE", "RESOLVED", "CANCELLED"}
AttackStatus == {"NONE", "PENDING", "LAUNCHED", "COMPLETED", "RESOLVED"}
Endings      == {"NONE", "COMPLETED", "UNPLAYED", "CANCELLED"}

(* One wallet in one operation: the Participant struct, and the one        *)
(* DefenseAttempt its defenseIndex may point at.  defendedAt is the submit *)
(* block, which is the arrival a hit is ranked by; 0 when none was sent.   *)
Seat ==
    [ joined : BOOLEAN, claimed : BOOLEAN, refunded : BOOLEAN,
      paidIn : Nat, probesPaid : Nat,
      probesPurchased : Nat, probesUsed : Nat, lastProbeBlock : Nat,
      defendedAt : Nat, revealed : BOOLEAN, intercepted : BOOLEAN,
      isWinner : BOOLEAN ]

EmptySeat ==
    [ joined |-> FALSE, claimed |-> FALSE, refunded |-> FALSE,
      paidIn |-> 0, probesPaid |-> 0,
      probesPurchased |-> 0, probesUsed |-> 0, lastProbeBlock |-> 0,
      defendedAt |-> 0, revealed |-> FALSE, intercepted |-> FALSE,
      isWinner |-> FALSE ]

(* A sum of ether the code adds to and takes from.  Its subtractions are   *)
(* checked, so going below zero would be a revert; that none does is an    *)
(* invariant of its own.                                                   *)
Wei == Int

(* Lobby, its LobbyConfig, the grace of its frozen lobbyParams, and its    *)
(* Outcome.  Lobby ids are the positions of the nonce they are hashed of.  *)
Lobby ==
    [ creator : Players \cup {Game}, status : LobbyStatus, ending : Endings,
      epochId : EpochIds, deadlineBlock : Nat,
      minPlayers : Nat, maxPlayers : Nat, entryPrice : Nat,
      creatorFeeBps : 0 .. BPS, startPrizePool : Wei, graceBlocks : Nat \ {0},
      entryFeesCollected : Wei, creatorFeeAccrued : Wei, rewardPool : Wei,
      rewardsClaimed : Wei, creatorSettled : BOOLEAN, validActions : Nat,
      seats : [Players -> Seat],
      intercepted : BOOLEAN, rewardPerWinner : Wei, resolvedAtBlock : Nat ]

(* Attack, the grace of its epochParams snapshot, and the revealed and     *)
(* expired mappings, all keyed by the epoch.                               *)
Attack ==
    [ status : AttackStatus, launchBlock : Nat, impactBlock : Nat,
      graceBlocks : Nat, decryptionUnlocked : BOOLEAN, intercepted : BOOLEAN,
      revealed : BOOLEAN, expired : BOOLEAN ]

NoAttack ==
    [ status |-> "NONE", launchBlock |-> 0, impactBlock |-> 0,
      graceBlocks |-> 0, decryptionUnlocked |-> FALSE, intercepted |-> FALSE,
      revealed |-> FALSE, expired |-> FALSE ]

(* The storage beside a balance of what; Solvent says what balance that is. *)
GameStorage(what) ==
    [ params : ParamSets, interval : Intervals, paused : BOOLEAN,
      protocolTreasury : Nat, globalDefensePool : Wei, balance : {what},
      activeLobbies : Nat, interceptedAttacks : Nat,
      lobbies : Seq(Lobby), attacks : [EpochIds -> Attack],
      globalDefenseLobby : [EpochIds -> Nat] ]

(* lobby.participantCount and the lobbyParticipants list, as a set.        *)
Joined(lobby) == {w \in Players : lobby.seats[w].joined}

(* attempts[lobbyId], as the set of wallets that sent one.                 *)
Defenders(lobby) == {w \in Players : lobby.seats[w].defendedAt # 0}

(* outcome.winners.                                                        *)
Winners(lobby) == {w \in Players : lobby.seats[w].isWinner}

(* activeLobbies is moved down at an ending, and never below zero.         *)
FaultyOneFewer(n) == n - 1  \* a mutant: the floor is forgotten

oneFewer(n) == IF n > 0 THEN n - 1 ELSE 0

LobbyIds == 1 .. Len(store.lobbies)

lobbyOf(l) == store.lobbies[l]

attackOf(l) == store.attacks[lobbyOf(l).epochId]
=============================================================================
