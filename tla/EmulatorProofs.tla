---------------------------- MODULE EmulatorProofs --------------------------
(***************************************************************************)
(* The money of the browser's own chain adds up, for every set of players, *)
(* every terms and every bound.                                            *)
(*                                                                         *)
(* Books, the inductive invariant, says of each operation what its members *)
(* put into it and of the escrow that it is what all of them are owed.     *)
(* Reads and writes rewrite one operation at a time, so that each operator *)
(* gets one lemma, about the operation it is handed; a reading of the      *)
(* statistics is a run of them, and the upkeep of the draws comes last.    *)
(***************************************************************************)
EXTENDS EmulatorProps, SumProofs

Seat ==
    [ joined : BOOLEAN, paidIn : Nat, probesPaid : Nat, purchased : Nat, actions : Nat,
      probes : Nat, lastProbeBlock : Int, defendedAt : Int, onTarget : BOOLEAN,
      payout : {"NONE", "PENDING", "PAID"}, refunded : BOOLEAN ]

Config ==
    [ minPlayers : Nat, maxPlayers : Nat, entryPrice : Nat, commission : Nat, prizePool : Nat ]

Attack ==
    [ status : {"NONE", "PENDING", "LAUNCHED", "RESOLVED"}, launchBlock : Int, impactBlock : Int ]

Outcome ==
    [ known : BOOLEAN, winners : SUBSET Players, rewardPerWinner : Nat, resolvedAtBlock : Int ]

Lobby ==
    [ creator : Players \cup {Protocol},
      status : {"OPEN", "READY", "ACTIVE", "RESOLVED", "CANCELLED"},
      ending : {"NONE", "UNPLAYED", "COMPLETED"}, config : Config,
      deadlineBlock : Int, createdAtBlock : Int, participantCount : Int,
      seats : [Players -> Seat], currentEpochId : Int, attack : Attack, outcome : Outcome,
      revealed : BOOLEAN, startPrizePool : Nat, entryFeesCollected : Int,
      creatorFeeAccrued : Int, protocolFeeAccrued : Int, rewardPool : Int,
      creatorSettled : BOOLEAN, drawBounty : Int ]

IsState(s) ==
    s \in [ limits : ProtocolLimits, block : Int, wallet : [Players -> Int], escrow : Int,
            globalDefensePool : Nat,
            globalDefenseLobby : [DOMAIN s.globalDefenseLobby -> Nat],
            lobbies : Seq(Lobby) ]

-----------------------------------------------------------------------------
(* What each player put into an operation, by what it was for, and what    *)
(* they would get back were it called off.                                 *)
paidBy(x)   == [w \in Players |-> x.seats[w].paidIn]
probesBy(x) == [w \in Players |-> x.seats[w].probesPaid]
entryBy(x)  == [w \in Players |-> IF x.seats[w].joined THEN x.config.entryPrice ELSE 0]
feeBy(x)    == [w \in Players |-> IF x.seats[w].joined THEN commissionOf(x) ELSE 0]
backBy(x)   == [w \in Players |-> IF x.seats[w].joined /\ ~x.seats[w].refunded
                                  THEN x.seats[w].paidIn ELSE 0]

Unpaid(x) == {w \in x.outcome.winners : x.seats[w].payout # "PAID"}

(* A seat holds what its player paid, and only a player's seat anything.   *)
Seats(x) ==
    \A w \in Players :
        LET seat == x.seats[w] IN
        /\ ~seat.joined => seat = NoSeat
        /\ seat.joined => seat.paidIn = x.config.entryPrice + commissionOf(x) + seat.probesPaid
        /\ seat.defendedAt # 0 => seat.actions > 0

Story(x) ==
    /\ x.status # "READY"
    /\ x.ending = "NONE" <=> x.status \in {"OPEN", "ACTIVE"}
    /\ x.ending = "COMPLETED" <=> x.status = "RESOLVED"
    /\ x.outcome.winners # {} => x.ending = "COMPLETED"

Untouched(x) ==
    ~x.creatorSettled /\ \A w \in Players : ~x.seats[w].refunded /\ x.seats[w].payout # "PAID"

(* The sums of an operation in play are the sums of what was paid in, so   *)
(* that whoever leaves, and everybody if it is called off, can be paid.    *)
Pooled(x) ==
    x.rewardPool = x.startPrizePool + Total(probesBy(x), Players)
                   + IF x.status = "OPEN" THEN 0 ELSE x.entryFeesCollected

Shared(x) ==
    x.outcome.winners # {} =>
        x.outcome.rewardPerWinner * Cardinality(x.outcome.winners) <= x.rewardPool

Sound(x) ==
    /\ Seats(x) /\ Story(x)
    /\ x.entryFeesCollected = Total(entryBy(x), Players)
    /\ x.creatorFeeAccrued = Total(feeBy(x), Players)
    /\ x.ending = "NONE" => Untouched(x) /\ Pooled(x)
    /\ x.ending = "COMPLETED" => Shared(x)

dues(s) == [l \in DOMAIN s.lobbies |-> owed(s.lobbies[l])]

Booked(s) ==
    \A e \in DOMAIN s.globalDefenseLobby :
        /\ s.globalDefenseLobby[e] \in DOMAIN s.lobbies
        /\ s.lobbies[s.globalDefenseLobby[e]].creator = Protocol

Books(s) ==
    /\ IsState(s) /\ Booked(s)
    /\ \A l \in DOMAIN s.lobbies : Sound(s.lobbies[l])
    /\ s.escrow = s.globalDefensePool + Total(dues(s), DOMAIN s.lobbies)

-----------------------------------------------------------------------------
(* The parts of a state and of an operation.                               *)

LEMMA PlayersFinite == IsFiniteSet(Players) /\ Protocol \notin Players
BY EmulatorAssumption

LEMMA StateFields ==
    ASSUME NEW s, IsState(s)
    PROVE  /\ s.limits \in ProtocolLimits /\ s.block \in Int /\ s.wallet \in [Players -> Int]
           /\ s.escrow \in Int /\ s.globalDefensePool \in Nat /\ s.lobbies \in Seq(Lobby)
           /\ Len(s.lobbies) \in Nat /\ DOMAIN s.lobbies = 1 .. Len(s.lobbies)
           /\ \A l \in DOMAIN s.lobbies : s.lobbies[l] \in Lobby
<1>1. /\ s.limits \in ProtocolLimits /\ s.block \in Int /\ s.wallet \in [Players -> Int]
      /\ s.escrow \in Int /\ s.globalDefensePool \in Nat /\ s.lobbies \in Seq(Lobby)
  BY DEF IsState
<1>2. QED
  BY <1>1

LEMMA LobbyFields ==
    ASSUME NEW x \in Lobby
    PROVE  /\ x.creator \in Players \cup {Protocol} /\ x.config \in Config
           /\ x.status \in {"OPEN", "READY", "ACTIVE", "RESOLVED", "CANCELLED"}
           /\ x.ending \in {"NONE", "UNPLAYED", "COMPLETED"}
           /\ x.seats \in [Players -> Seat] /\ x.attack \in Attack /\ x.outcome \in Outcome
           /\ x.participantCount \in Int /\ x.currentEpochId \in Int
           /\ x.startPrizePool \in Nat /\ x.entryFeesCollected \in Int
           /\ x.creatorFeeAccrued \in Int /\ x.protocolFeeAccrued \in Int
           /\ x.rewardPool \in Int /\ x.creatorSettled \in BOOLEAN /\ x.revealed \in BOOLEAN
           /\ x.outcome.winners \in SUBSET Players /\ x.outcome.rewardPerWinner \in Nat
           /\ x.outcome.known \in BOOLEAN
           /\ x.config.entryPrice \in Nat /\ x.config.commission \in Nat
           /\ x.config.prizePool \in Nat
           /\ commissionOf(x) \in Nat
<1>1. /\ x.creator \in Players \cup {Protocol} /\ x.config \in Config
      /\ x.status \in {"OPEN", "READY", "ACTIVE", "RESOLVED", "CANCELLED"}
      /\ x.ending \in {"NONE", "UNPLAYED", "COMPLETED"}
      /\ x.seats \in [Players -> Seat] /\ x.attack \in Attack /\ x.outcome \in Outcome
      /\ x.participantCount \in Int /\ x.currentEpochId \in Int
      /\ x.startPrizePool \in Nat /\ x.entryFeesCollected \in Int
      /\ x.creatorFeeAccrued \in Int /\ x.protocolFeeAccrued \in Int
      /\ x.rewardPool \in Int /\ x.creatorSettled \in BOOLEAN /\ x.revealed \in BOOLEAN
  BY DEF Lobby
<1>2. /\ x.outcome.winners \in SUBSET Players /\ x.outcome.rewardPerWinner \in Nat
      /\ x.outcome.known \in BOOLEAN
  BY <1>1 DEF Outcome
<1>3. /\ x.config.entryPrice \in Nat /\ x.config.commission \in Nat
      /\ x.config.prizePool \in Nat
  BY <1>1 DEF Config
<1>4. QED
  BY <1>1, <1>2, <1>3 DEF commissionOf

LEMMA SeatFields ==
    ASSUME NEW x \in Lobby, NEW w \in Players
    PROVE  /\ x.seats[w] \in Seat
           /\ x.seats[w].joined \in BOOLEAN /\ x.seats[w].refunded \in BOOLEAN
           /\ x.seats[w].paidIn \in Nat /\ x.seats[w].probesPaid \in Nat
           /\ x.seats[w].payout \in {"NONE", "PENDING", "PAID"}
           /\ x.seats[w].actions \in Nat /\ x.seats[w].purchased \in Nat
           /\ x.seats[w].probes \in Nat
<1>1. x.seats[w] \in Seat
  BY LobbyFields
<1>2. QED
  BY <1>1 DEF Seat

LEMMA MoneyOfASeat ==
    ASSUME NEW x \in Lobby, NEW w \in Players
    PROVE  /\ paidBy(x)[w] = x.seats[w].paidIn /\ probesBy(x)[w] = x.seats[w].probesPaid
           /\ entryBy(x)[w] = IF x.seats[w].joined THEN x.config.entryPrice ELSE 0
           /\ feeBy(x)[w] = IF x.seats[w].joined THEN commissionOf(x) ELSE 0
           /\ backBy(x)[w] = IF x.seats[w].joined /\ ~x.seats[w].refunded
                             THEN x.seats[w].paidIn ELSE 0
           /\ paidBy(x)[w] \in Nat /\ probesBy(x)[w] \in Nat /\ entryBy(x)[w] \in Nat
           /\ feeBy(x)[w] \in Nat /\ backBy(x)[w] \in Nat
BY SeatFields, LobbyFields DEF paidBy, probesBy, entryBy, feeBy, backBy

LEMMA TotalsAreNatural ==
    ASSUME NEW x \in Lobby
    PROVE  /\ Total(paidBy(x), Players) \in Nat /\ Total(probesBy(x), Players) \in Nat
           /\ Total(entryBy(x), Players) \in Nat /\ Total(feeBy(x), Players) \in Nat
           /\ Total(backBy(x), Players) \in Nat
BY MoneyOfASeat, PlayersFinite, TotalNonNegative

(* What was paid in is what it was paid for.                               *)
LEMMA PaidForSomething ==
    ASSUME NEW x \in Lobby, Seats(x)
    PROVE  Total(paidBy(x), Players)
               = Total(probesBy(x), Players) + Total(entryBy(x), Players)
                 + Total(feeBy(x), Players)
<1> DEFINE both == [w \in Players |-> entryBy(x)[w] + feeBy(x)[w]]
<1>1. \A w \in Players : /\ entryBy(x)[w] \in Int /\ feeBy(x)[w] \in Int
                         /\ both[w] = entryBy(x)[w] + feeBy(x)[w]
  BY MoneyOfASeat
<1>2. Total(both, Players) = Total(entryBy(x), Players) + Total(feeBy(x), Players)
  <2> HIDE DEF both
  <2> QED BY <1>1, PlayersFinite, TotalSplits
<1>3. \A w \in Players : /\ probesBy(x)[w] \in Int /\ both[w] \in Int
                         /\ paidBy(x)[w] = probesBy(x)[w] + both[w]
  <2> TAKE w \in Players
  <2>2. x.seats[w].joined =>
            x.seats[w].paidIn = x.config.entryPrice + commissionOf(x) + x.seats[w].probesPaid
    BY DEF Seats
  <2>3. ~x.seats[w].joined => x.seats[w].paidIn = 0 /\ x.seats[w].probesPaid = 0
    BY DEF Seats, NoSeat
  <2>4. both[w] = entryBy(x)[w] + feeBy(x)[w] /\ both[w] \in Int
    BY <1>1
  <2>5. QED
    <3> HIDE DEF both
    <3>1. CASE x.seats[w].joined
      BY <2>2, <2>4, <3>1, MoneyOfASeat, LobbyFields, SeatFields
    <3>2. CASE ~x.seats[w].joined
      BY <2>3, <2>4, <3>2, MoneyOfASeat, LobbyFields, SeatFields
    <3>3. QED
      BY <3>1, <3>2
<1>4. Total(paidBy(x), Players) = Total(probesBy(x), Players) + Total(both, Players)
  <2> HIDE DEF both
  <2> QED BY <1>3, PlayersFinite, TotalSplits
<1> HIDE DEF both
<1>5. QED
  BY <1>2, <1>4, TotalsAreNatural

(* While nobody was refunded, all that was paid in is paid back.           *)
LEMMA AllOfItComesBack ==
    ASSUME NEW x \in Lobby, Seats(x), \A w \in Players : ~x.seats[w].refunded
    PROVE  Total(backBy(x), Players) = Total(paidBy(x), Players)
<1>1. \A w \in Players : backBy(x)[w] = paidBy(x)[w]
  BY MoneyOfASeat DEF Seats, NoSeat
<1>2. QED
  BY <1>1, PlayersFinite, TotalOfEqual

-----------------------------------------------------------------------------
(* The sums of the model are totals.                                       *)

stillIn(x) == {w \in seated(x) : ~x.seats[w].refunded}

LEMMA PaidInTotal ==
    ASSUME NEW x, NEW D \in SUBSET Players
    PROVE  MapThenSumSet(LAMBDA w : x.seats[w].paidIn, D) = Total(paidBy(x), D)
<1> DEFINE Folds(h) ==
              h = [s \in SUBSET D |->
                      IF s = {} THEN 0
                      ELSE x.seats[someOf(s)].paidIn + h[s \ {someOf(s)}]]
           g == CHOOSE h : Folds(h)
<1>1. MapThenSumSet(LAMBDA w : x.seats[w].paidIn, D) = g[D]
  BY DEF MapThenSumSet, MapThenFoldSet, someOf
<1>2. ASSUME NEW h
      PROVE  Folds(h) <=> IsTally(h, paidBy(x), D)
  <2>1. ASSUME NEW s \in SUBSET D, s # {}
        PROVE  paidBy(x)[someOf(s)] = x.seats[someOf(s)].paidIn
    BY <2>1, SomeOf DEF paidBy
  <2>2. [s \in SUBSET D |->
            IF s = {} THEN 0 ELSE x.seats[someOf(s)].paidIn + h[s \ {someOf(s)}]]
        = [s \in SUBSET D |->
            IF s = {} THEN 0 ELSE paidBy(x)[someOf(s)] + h[s \ {someOf(s)}]]
    BY <2>1
  <2>3. QED
    BY <2>2 DEF IsTally
<1>3. IsFiniteSet(D)
  BY PlayersFinite, FS_Subset
<1> HIDE DEF Folds
<1>4. Folds(g)
  <2>1. \E h : Folds(h)
    BY <1>2, <1>3, TallyExists
  <2>2. QED
    BY <2>1
<1> HIDE DEF g
<1>5. QED
  BY <1>1, <1>2, <1>3, <1>4, TallyIsTotal

LEMMA BackTotal ==
    ASSUME NEW x \in Lobby
    PROVE  MapThenSumSet(LAMBDA w : x.seats[w].paidIn,
                         {w \in seated(x) : ~x.seats[w].refunded})
               = Total(backBy(x), Players)
<1>1. stillIn(x) \in SUBSET Players
  BY DEF stillIn, seated
<1>2. MapThenSumSet(LAMBDA w : x.seats[w].paidIn, stillIn(x)) = Total(paidBy(x), stillIn(x))
  BY <1>1, PaidInTotal
<1>3. Total(paidBy(x), stillIn(x)) = Total(backBy(x), stillIn(x))
  <2>1. IsFiniteSet(stillIn(x))
    BY <1>1, PlayersFinite, FS_Subset
  <2>2. \A w \in stillIn(x) : paidBy(x)[w] = backBy(x)[w]
    BY MoneyOfASeat DEF stillIn, seated
  <2>3. QED
    BY <2>1, <2>2, TotalOfEqual
<1>4. Total(backBy(x), Players) = Total(backBy(x), stillIn(x))
  <2>1. \A w \in Players : backBy(x)[w] \in Int
    BY MoneyOfASeat
  <2>2. \A w \in Players \ stillIn(x) : backBy(x)[w] = 0
    BY MoneyOfASeat DEF stillIn, seated
  <2>3. QED
    BY <1>1, <2>1, <2>2, PlayersFinite, TotalIgnoresZeros
<1>5. QED
  BY <1>2, <1>3, <1>4 DEF stillIn

LEMMA WinnersFinite ==
    ASSUME NEW x \in Lobby
    PROVE  /\ IsFiniteSet(x.outcome.winners) /\ IsFiniteSet(Unpaid(x))
           /\ Cardinality(x.outcome.winners) \in Nat /\ Cardinality(Unpaid(x)) \in Nat
           /\ x.outcome.rewardPerWinner * Cardinality(x.outcome.winners) \in Nat
           /\ x.outcome.rewardPerWinner * Cardinality(Unpaid(x)) \in Nat
<1>1. x.outcome.winners \in SUBSET Players /\ Unpaid(x) \in SUBSET Players
  BY LobbyFields DEF Unpaid
<1>2. /\ IsFiniteSet(x.outcome.winners) /\ IsFiniteSet(Unpaid(x))
      /\ Cardinality(x.outcome.winners) \in Nat /\ Cardinality(Unpaid(x)) \in Nat
  BY <1>1, PlayersFinite, FS_Subset, FS_CardinalityType
<1>3. QED
  BY <1>2, LobbyFields, ProductsOfNats

unsettled(x, sum) == IF x.creatorSettled THEN 0 ELSE sum

LEMMA OwedForms ==
    ASSUME NEW x \in Lobby
    PROVE  /\ x.ending = "NONE" =>
                  owed(x) = x.protocolFeeAccrued + x.rewardPool + x.creatorFeeAccrued
                            + IF x.status = "OPEN" THEN x.entryFeesCollected ELSE 0
           /\ x.ending = "UNPLAYED" =>
                  owed(x) = x.protocolFeeAccrued + Total(backBy(x), Players)
                            + unsettled(x, x.startPrizePool)
           /\ x.ending = "COMPLETED" =>
                  owed(x) = x.protocolFeeAccrued
                            + x.outcome.rewardPerWinner * Cardinality(Unpaid(x))
                            + unsettled(x, completedCreatorDue(x))
<1>1. ASSUME x.ending = "NONE"
      PROVE  owed(x) = x.protocolFeeAccrued + inPlay(x)
  BY <1>1 DEF owed, refundable
<1>2. ASSUME x.ending = "UNPLAYED"
      PROVE  owed(x) = x.protocolFeeAccrued + paidBackLater(x)
  BY <1>2 DEF owed, refundable
<1>3. ASSUME x.ending = "COMPLETED"
      PROVE  owed(x) = x.protocolFeeAccrued + wonLater(x)
  BY <1>3 DEF owed, refundable
<1>4. paidBackLater(x) = Total(backBy(x), Players) + unsettled(x, x.startPrizePool)
  BY BackTotal DEF paidBackLater, unsettled
<1>5. wonLater(x) = x.outcome.rewardPerWinner * Cardinality(Unpaid(x))
                    + unsettled(x, completedCreatorDue(x))
  BY DEF wonLater, unsettled, Unpaid
<1>6. /\ unsettled(x, x.startPrizePool) \in Int /\ unsettled(x, completedCreatorDue(x)) \in Int
      /\ x.outcome.rewardPerWinner * Cardinality(Unpaid(x)) \in Int
      /\ Total(backBy(x), Players) \in Int
  <2> DEFINE prizes == x.outcome.rewardPerWinner * Cardinality(x.outcome.winners)
  <2>1. prizes \in Nat
    BY WinnersFinite
  <2> HIDE DEF prizes
  <2>2. completedCreatorDue(x) \in Int
    BY <2>1, LobbyFields DEF completedCreatorDue, prizes
  <2>3. QED
    BY <2>2, LobbyFields, WinnersFinite, TotalsAreNatural DEF unsettled
<1>7. CASE x.ending = "NONE"
  BY <1>1, <1>7, LobbyFields DEF inPlay
<1>8. CASE x.ending = "UNPLAYED"
  <2> DEFINE back == Total(backBy(x), Players)
             left == unsettled(x, x.startPrizePool)
  <2>1. back \in Int /\ left \in Int /\ owed(x) = x.protocolFeeAccrued + (back + left)
    BY <1>2, <1>4, <1>6, <1>8
  <2> HIDE DEF back, left
  <2>2. owed(x) = x.protocolFeeAccrued + back + left
    BY <2>1, LobbyFields
  <2>3. QED
    BY <1>8, <2>2 DEF back, left
<1>9. CASE x.ending = "COMPLETED"
  <2> DEFINE prizes == x.outcome.rewardPerWinner * Cardinality(Unpaid(x))
             left == unsettled(x, completedCreatorDue(x))
  <2>1. prizes \in Int /\ left \in Int /\ owed(x) = x.protocolFeeAccrued + (prizes + left)
    BY <1>3, <1>5, <1>6, <1>9
  <2> HIDE DEF prizes, left
  <2>2. owed(x) = x.protocolFeeAccrued + prizes + left
    BY <2>1, LobbyFields
  <2>3. QED
    BY <1>9, <2>2 DEF prizes, left
<1>10. QED
  BY <1>7, <1>8, <1>9, LobbyFields

LEMMA CreatorDueIsNatural ==
    ASSUME NEW x \in Lobby, Sound(x)
    PROVE  /\ x.entryFeesCollected \in Nat /\ x.creatorFeeAccrued \in Nat
           /\ x.ending = "COMPLETED" => completedCreatorDue(x) \in Nat
           /\ x.ending # "NONE" => creatorDue(x) \in Nat
<1>1. x.entryFeesCollected \in Nat /\ x.creatorFeeAccrued \in Nat
  BY TotalsAreNatural DEF Sound
<1> DEFINE prizes == x.outcome.rewardPerWinner * Cardinality(x.outcome.winners)
<1>2. prizes \in Nat /\ (x.ending = "COMPLETED" /\ x.outcome.winners # {} => prizes <= x.rewardPool)
  BY WinnersFinite DEF Sound, Shared
<1>3. completedCreatorDue(x)
          = x.creatorFeeAccrued
            + IF x.outcome.winners = {} THEN 0 ELSE x.rewardPool - prizes
  BY DEF completedCreatorDue
<1> HIDE DEF prizes
<1>4. x.ending = "COMPLETED" => completedCreatorDue(x) \in Nat
  BY <1>1, <1>2, <1>3, LobbyFields
<1>5. QED
  BY <1>1, <1>4, LobbyFields DEF creatorDue, refundable

LEMMA OwedIsInt ==
    ASSUME NEW x \in Lobby, Sound(x)
    PROVE  owed(x) \in Int
<1> DEFINE prizes == x.outcome.rewardPerWinner * Cardinality(Unpaid(x))
           back == Total(backBy(x), Players)
<1>1. prizes \in Int /\ back \in Int
  BY WinnersFinite, TotalsAreNatural
<1>2. x.ending = "COMPLETED" => completedCreatorDue(x) \in Nat
  BY CreatorDueIsNatural
<1>3. /\ x.ending = "NONE" =>
            owed(x) = x.protocolFeeAccrued + x.rewardPool + x.creatorFeeAccrued
                      + IF x.status = "OPEN" THEN x.entryFeesCollected ELSE 0
      /\ x.ending = "UNPLAYED" =>
            owed(x) = x.protocolFeeAccrued + back + unsettled(x, x.startPrizePool)
      /\ x.ending = "COMPLETED" =>
            owed(x) = x.protocolFeeAccrued + prizes + unsettled(x, completedCreatorDue(x))
  BY OwedForms
<1> HIDE DEF prizes, back
<1>4. QED
  BY <1>1, <1>2, <1>3, LobbyFields DEF unsettled

-----------------------------------------------------------------------------
(* What each thing that can happen to one operation does to its debt.      *)

SameSeats(x, y) ==
    /\ y.config = x.config /\ y.creator = x.creator
    /\ \A w \in Players :
          /\ y.seats[w].joined = x.seats[w].joined /\ y.seats[w].paidIn = x.seats[w].paidIn
          /\ y.seats[w].probesPaid = x.seats[w].probesPaid

SameSums(x, y) ==
    /\ y.startPrizePool = x.startPrizePool /\ y.rewardPool = x.rewardPool
    /\ y.entryFeesCollected = x.entryFeesCollected
    /\ y.creatorFeeAccrued = x.creatorFeeAccrued
    /\ y.protocolFeeAccrued = x.protocolFeeAccrued

LEMMA SameTotals ==
    ASSUME NEW x, NEW y, SameSeats(x, y)
    PROVE  /\ commissionOf(y) = commissionOf(x)
           /\ paidBy(y) = paidBy(x) /\ probesBy(y) = probesBy(x)
           /\ entryBy(y) = entryBy(x) /\ feeBy(y) = feeBy(x)
           /\ (\A w \in Players : y.seats[w].refunded = x.seats[w].refunded)
                 => backBy(y) = backBy(x)
<1>1. commissionOf(y) = commissionOf(x)
  BY DEF SameSeats, commissionOf
<1>2. QED
  BY <1>1 DEF SameSeats, paidBy, probesBy, entryBy, feeBy, backBy

(* A reading or a move: no money.                                          *)
Quiet(x, y) ==
    /\ SameSeats(x, y) /\ SameSums(x, y) /\ Seats(y)
    /\ y.status = x.status /\ y.ending = x.ending /\ y.creatorSettled = x.creatorSettled
    /\ y.outcome = x.outcome
    /\ \A w \in Players : /\ y.seats[w].refunded = x.seats[w].refunded
                          /\ y.seats[w].payout = x.seats[w].payout

LEMMA QuietKeeps ==
    ASSUME NEW x \in Lobby, NEW y \in Lobby, Sound(x), Quiet(x, y)
    PROVE  Sound(y) /\ owed(y) = owed(x)
<1>1. /\ paidBy(y) = paidBy(x) /\ probesBy(y) = probesBy(x) /\ entryBy(y) = entryBy(x)
      /\ feeBy(y) = feeBy(x) /\ backBy(y) = backBy(x)
  BY SameTotals DEF Quiet
<1>2. Story(y)
  BY DEF Sound, Story, Quiet
<1>3. Unpaid(y) = Unpaid(x)
  BY LobbyFields DEF Unpaid, Quiet
<1>4. completedCreatorDue(y) = completedCreatorDue(x)
  BY DEF completedCreatorDue, Quiet, SameSums
<1>5. y.ending = "NONE" => Untouched(y) /\ Pooled(y)
  BY <1>1 DEF Sound, Untouched, Pooled, Quiet, SameSums
<1>6. y.ending = "COMPLETED" => Shared(y)
  BY DEF Sound, Shared, Quiet, SameSums
<1>7. Sound(y)
  BY <1>1, <1>2, <1>5, <1>6 DEF Sound, Quiet, SameSums
<1>8. owed(y) = owed(x)
  BY <1>1, <1>3, <1>4, OwedForms, LobbyFields DEF Quiet, SameSums, unsettled
<1>9. QED
  BY <1>7, <1>8

OneSeat(x, y, w) ==
    /\ y.config = x.config /\ y.creator = x.creator
    /\ \A v \in Players : v # w => y.seats[v] = x.seats[v]

LEMMA OneSeatMoves ==
    ASSUME NEW x \in Lobby, NEW y \in Lobby, NEW w \in Players, OneSeat(x, y, w)
    PROVE  /\ Total(probesBy(y), Players)
                  = Total(probesBy(x), Players) - probesBy(x)[w] + probesBy(y)[w]
           /\ Total(entryBy(y), Players)
                  = Total(entryBy(x), Players) - entryBy(x)[w] + entryBy(y)[w]
           /\ Total(feeBy(y), Players)
                  = Total(feeBy(x), Players) - feeBy(x)[w] + feeBy(y)[w]
           /\ Total(backBy(y), Players)
                  = Total(backBy(x), Players) - backBy(x)[w] + backBy(y)[w]
           /\ commissionOf(y) = commissionOf(x)
<1>1. commissionOf(y) = commissionOf(x)
  BY DEF OneSeat, commissionOf
<1>2. ASSUME NEW v \in Players, v # w
      PROVE  /\ probesBy(y)[v] = probesBy(x)[v] /\ entryBy(y)[v] = entryBy(x)[v]
             /\ feeBy(y)[v] = feeBy(x)[v] /\ backBy(y)[v] = backBy(x)[v]
  BY <1>1, <1>2, MoneyOfASeat DEF OneSeat
<1>3. /\ OneMoved(Players, probesBy(x), probesBy(y), w)
      /\ OneMoved(Players, entryBy(x), entryBy(y), w)
      /\ OneMoved(Players, feeBy(x), feeBy(y), w)
      /\ OneMoved(Players, backBy(x), backBy(y), w)
  BY <1>2, PlayersFinite, MoneyOfASeat DEF OneMoved
<1>4. QED
  BY <1>1, <1>3, TotalMoves

(* A seat of an operation in play, joined, left or given more probes.      *)
LEMMA SeatChangeKeeps ==
    ASSUME NEW x \in Lobby, NEW y \in Lobby, NEW w \in Players, Sound(x), Seats(y),
           OneSeat(x, y, w), x.ending = "NONE",
           x.status = "OPEN" \/ y.seats[w].joined = x.seats[w].joined,
           ~y.seats[w].refunded, y.seats[w].payout # "PAID",
           y.status = x.status, y.ending = x.ending, y.outcome = x.outcome,
           y.creatorSettled = x.creatorSettled, y.startPrizePool = x.startPrizePool,
           y.protocolFeeAccrued = x.protocolFeeAccrued,
           y.entryFeesCollected = x.entryFeesCollected - entryBy(x)[w] + entryBy(y)[w],
           y.creatorFeeAccrued = x.creatorFeeAccrued - feeBy(x)[w] + feeBy(y)[w],
           y.rewardPool = x.rewardPool - probesBy(x)[w] + probesBy(y)[w]
    PROVE  Sound(y) /\ owed(y) = owed(x) - x.seats[w].paidIn + y.seats[w].paidIn
<1>1. /\ y.entryFeesCollected = Total(entryBy(y), Players)
      /\ y.creatorFeeAccrued = Total(feeBy(y), Players)
  BY OneSeatMoves DEF Sound
<1>2. Story(y)
  BY DEF Sound, Story
<1>3. Untouched(y)
  BY DEF Sound, Untouched, OneSeat
<1>4. x.status # "OPEN" => entryBy(y)[w] = entryBy(x)[w] /\ feeBy(y)[w] = feeBy(x)[w]
  BY OneSeatMoves, MoneyOfASeat DEF OneSeat
<1>5. Pooled(y)
  <2>1. Pooled(x)
    BY DEF Sound
  <2>2. Total(probesBy(y), Players)
            = Total(probesBy(x), Players) - probesBy(x)[w] + probesBy(y)[w]
    BY OneSeatMoves
  <2>3. x.status = "OPEN" \/ y.entryFeesCollected = x.entryFeesCollected
    BY <1>4, MoneyOfASeat, LobbyFields
  <2>4. QED
    BY <2>1, <2>2, <2>3, MoneyOfASeat, TotalsAreNatural, LobbyFields DEF Pooled
<1>6. Sound(y)
  BY <1>1, <1>2, <1>3, <1>5 DEF Sound
<1>7. /\ x.seats[w].paidIn = entryBy(x)[w] + feeBy(x)[w] + probesBy(x)[w]
      /\ y.seats[w].paidIn = entryBy(y)[w] + feeBy(y)[w] + probesBy(y)[w]
  <2>1. Seats(x)
    BY DEF Sound
  <2>2. QED
    BY <2>1, MoneyOfASeat, LobbyFields, SeatFields DEF Seats, NoSeat
<1>8. owed(y) = owed(x) - x.seats[w].paidIn + y.seats[w].paidIn
  BY <1>4, <1>7, OwedForms, MoneyOfASeat, LobbyFields
<1>9. QED
  BY <1>6, <1>8

(* Called off at the deadline, and everybody paid back at once.            *)
LEMMA ReturnedOwes ==
    ASSUME NEW x \in Lobby, NEW y \in Lobby, Sound(x), Seats(y), x.status = "OPEN",
           SameSeats(x, y), SameSums(x, y), y.outcome = x.outcome,
           y.status = "CANCELLED", y.ending = "UNPLAYED", y.creatorSettled,
           \A w \in Players :
              x.seats[w].joined /\ x.seats[w].paidIn > 0 => y.seats[w].refunded
    PROVE  /\ Sound(y)
           /\ owed(y) = owed(x) - Total(paidBy(x), Players) - x.startPrizePool
<1>1. x.ending = "NONE" /\ x.outcome.winners = {} /\ Pooled(x)
  BY DEF Sound, Story
<1>2. Story(y)
  BY <1>1 DEF Story
<1>3. Sound(y)
  BY <1>2, SameTotals DEF Sound, SameSums
<1>4. \A w \in Players : backBy(y)[w] = 0
  BY MoneyOfASeat, SeatFields DEF SameSeats
<1>5. Total(backBy(y), Players) = 0
  <2>1. Total(backBy(y), Players) = Total(backBy(y), {})
    <3>1. {} \in SUBSET Players /\ \A w \in Players : backBy(y)[w] \in Int
      BY <1>4
    <3>2. QED
      BY <1>4, <3>1, PlayersFinite, TotalIgnoresZeros
  <2>2. QED
    BY <2>1, PlayersFinite, TotalUnfolds
<1>6. owed(y) = x.protocolFeeAccrued
  BY <1>5, OwedForms, LobbyFields DEF unsettled, SameSums
<1>7. owed(x) = x.protocolFeeAccrued + x.rewardPool + x.creatorFeeAccrued
                + x.entryFeesCollected
  BY <1>1, OwedForms
<1>8. /\ x.rewardPool = x.startPrizePool + Total(probesBy(x), Players)
      /\ x.creatorFeeAccrued = Total(feeBy(x), Players)
      /\ x.entryFeesCollected = Total(entryBy(x), Players)
  BY <1>1, LobbyFields, TotalsAreNatural DEF Sound, Pooled
<1>9. Total(paidBy(x), Players) = Total(probesBy(x), Players) + Total(entryBy(x), Players)
                                  + Total(feeBy(x), Players)
  BY PaidForSomething DEF Sound
<1>10. owed(y) = owed(x) - Total(paidBy(x), Players) - x.startPrizePool
  BY <1>6, <1>7, <1>8, <1>9, LobbyFields, TotalsAreNatural
<1>11. QED
  BY <1>3, <1>10

(* Started, a draw with the pool's money.                                  *)
LEMMA StartedOwes ==
    ASSUME NEW x \in Lobby, NEW y \in Lobby, Sound(x), x.status = "OPEN",
           y.seats = x.seats, y.config = x.config, y.creator = x.creator,
           y.outcome = x.outcome, y.creatorSettled = x.creatorSettled,
           y.status = "ACTIVE", y.ending = x.ending,
           NEW extra \in Nat, y.startPrizePool = x.startPrizePool + extra,
           y.rewardPool = x.rewardPool + extra + x.entryFeesCollected,
           y.entryFeesCollected = x.entryFeesCollected,
           y.creatorFeeAccrued = x.creatorFeeAccrued,
           y.protocolFeeAccrued = x.protocolFeeAccrued
    PROVE  Sound(y) /\ owed(y) = owed(x) + extra
<1>1. x.ending = "NONE" /\ x.outcome.winners = {} /\ Pooled(x) /\ Untouched(x)
  BY DEF Sound, Story
<1>2. SameSeats(x, y) /\ Story(y)
  BY <1>1 DEF SameSeats, Story
<1>3. Seats(y) /\ Untouched(y)
  BY <1>1, <1>2, SameTotals DEF Sound, Seats, Untouched
<1>4. Pooled(y)
  BY <1>1, <1>2, SameTotals, LobbyFields, TotalsAreNatural DEF Pooled
<1>5. Sound(y)
  BY <1>2, <1>3, <1>4, SameTotals, <1>1 DEF Sound
<1>6. owed(y) = owed(x) + extra
  BY <1>1, OwedForms, LobbyFields
<1>7. QED
  BY <1>5, <1>6

(* Judged, and nobody had made a move: everybody may take their part back. *)
LEMMA UnplayedOwes ==
    ASSUME NEW x \in Lobby, NEW y \in Lobby, Sound(x), x.status = "ACTIVE",
           y.seats = x.seats, y.config = x.config, y.creator = x.creator, SameSums(x, y),
           y.outcome.winners = {}, y.creatorSettled = x.creatorSettled,
           y.status = "CANCELLED", y.ending = "UNPLAYED"
    PROVE  Sound(y) /\ owed(y) = owed(x)
<1>1. x.ending = "NONE" /\ Pooled(x) /\ Untouched(x)
  BY DEF Sound, Story
<1>2. SameSeats(x, y) /\ Story(y)
  BY DEF SameSeats, Story
<1>3. Seats(y)
  BY <1>2, SameTotals DEF Sound, Seats
<1>4. Sound(y)
  BY <1>2, <1>3, SameTotals DEF Sound, SameSums
<1>5. Total(backBy(y), Players) = Total(paidBy(x), Players)
  BY <1>1, <1>2, <1>3, AllOfItComesBack, SameTotals DEF Untouched
<1>6. owed(y) = x.protocolFeeAccrued + Total(paidBy(x), Players) + x.startPrizePool
  BY <1>1, <1>5, OwedForms DEF unsettled, Untouched, SameSums
<1>7. owed(x) = x.protocolFeeAccrued + x.rewardPool + x.creatorFeeAccrued
  BY <1>1, OwedForms, LobbyFields
<1>8. /\ x.rewardPool = x.startPrizePool + Total(probesBy(x), Players)
                        + Total(entryBy(x), Players)
      /\ x.creatorFeeAccrued = Total(feeBy(x), Players)
  BY <1>1, LobbyFields, TotalsAreNatural DEF Sound, Pooled
<1>9. Total(paidBy(x), Players) = Total(probesBy(x), Players) + Total(entryBy(x), Players)
                                  + Total(feeBy(x), Players)
  BY PaidForSomething DEF Sound
<1>10. owed(y) = owed(x)
  BY <1>6, <1>7, <1>8, <1>9, LobbyFields, TotalsAreNatural
<1>11. QED
  BY <1>4, <1>10

(* Judged, and won or lost: what is left over is the creator's, and a pool *)
(* nobody won goes where the forfeited pools go.                           *)
LEMMA CompletedOwes ==
    ASSUME NEW x \in Lobby, NEW y \in Lobby, Sound(x), Seats(y), x.status = "ACTIVE",
           SameSeats(x, y), y.creatorSettled = x.creatorSettled,
           \A w \in Players : y.seats[w].payout # "PAID",
           y.status = "RESOLVED", y.ending = "COMPLETED",
           y.startPrizePool = x.startPrizePool,
           y.entryFeesCollected = x.entryFeesCollected,
           y.creatorFeeAccrued = x.creatorFeeAccrued,
           y.protocolFeeAccrued = x.protocolFeeAccrued, Shared(y),
           NEW lost, lost = IF y.outcome.winners = {} THEN x.rewardPool ELSE 0,
           y.rewardPool = x.rewardPool - lost
    PROVE  Sound(y) /\ owed(y) = owed(x) - lost /\ x.rewardPool \in Nat
<1>1. x.ending = "NONE" /\ Pooled(x) /\ Untouched(x)
  BY DEF Sound, Story
<1>2. Story(y)
  BY DEF Story
<1>3. Sound(y)
  BY <1>2, SameTotals DEF Sound
<1>4. x.rewardPool \in Nat
  BY <1>1, LobbyFields, TotalsAreNatural, CreatorDueIsNatural DEF Pooled
<1>5. owed(x) = x.protocolFeeAccrued + x.rewardPool + x.creatorFeeAccrued
  BY <1>1, OwedForms, LobbyFields
<1>6. Unpaid(y) = y.outcome.winners
  BY LobbyFields DEF Unpaid
<1> DEFINE prizes == y.outcome.rewardPerWinner * Cardinality(y.outcome.winners)
<1>7. /\ prizes \in Nat
      /\ owed(y) = y.protocolFeeAccrued + prizes + unsettled(y, completedCreatorDue(y))
  BY <1>6, OwedForms, WinnersFinite
<1>8. unsettled(y, completedCreatorDue(y))
          = x.creatorFeeAccrued + IF y.outcome.winners = {} THEN 0 ELSE y.rewardPool - prizes
  BY <1>1 DEF unsettled, completedCreatorDue, Untouched
<1>9. y.outcome.winners = {} => prizes = 0
  <2>1. y.outcome.winners = {} => Cardinality(y.outcome.winners) = 0
    BY FS_EmptySet
  <2>2. QED
    BY <2>1, LobbyFields
<1> HIDE DEF prizes
<1>10. owed(y) = owed(x) - lost
  BY <1>4, <1>5, <1>7, <1>8, <1>9, LobbyFields
<1>11. QED
  BY <1>3, <1>4, <1>10

(* Money taken out of an operation that is over.                           *)
SameEnding(x, y) ==
    /\ SameSeats(x, y) /\ SameSums(x, y) /\ Seats(y)
    /\ y.status = x.status /\ y.ending = x.ending /\ y.outcome = x.outcome

LEMMA EndingKept ==
    ASSUME NEW x \in Lobby, NEW y \in Lobby, Sound(x), SameEnding(x, y), x.ending # "NONE"
    PROVE  /\ Sound(y) /\ completedCreatorDue(y) = completedCreatorDue(x)
           /\ creatorDue(x) \in Nat
           /\ x.ending = "COMPLETED" => completedCreatorDue(x) = creatorDue(x)
<1>1. Sound(y)
  BY SameTotals DEF Sound, SameEnding, SameSums, Story, Shared
<1>2. QED
  BY <1>1, CreatorDueIsNatural
     DEF completedCreatorDue, creatorDue, refundable, SameEnding, SameSums

LEMMA RewardOwes ==
    ASSUME NEW x \in Lobby, NEW y \in Lobby, Sound(x), SameEnding(x, y),
           x.ending = "COMPLETED", NEW w \in Players, w \in x.outcome.winners,
           x.seats[w].payout # "PAID", y.seats[w].payout = "PAID",
           \A v \in Players : v # w => y.seats[v].payout = x.seats[v].payout,
           NEW fee, fee = 0 \/ (fee = completedCreatorDue(x) /\ ~x.creatorSettled),
           y.creatorSettled = (x.creatorSettled \/ fee > 0)
    PROVE  /\ Sound(y) /\ fee \in Nat
           /\ owed(y) = owed(x) - (x.outcome.rewardPerWinner + fee)
<1>1. /\ Sound(y) /\ completedCreatorDue(y) = completedCreatorDue(x)
      /\ completedCreatorDue(x) \in Nat
  BY EndingKept
<1>2. fee \in Nat
  BY <1>1
<1>3. Unpaid(y) = Unpaid(x) \ {w} /\ w \in Unpaid(x)
  BY LobbyFields DEF Unpaid, SameEnding
<1>4. Cardinality(Unpaid(y)) = Cardinality(Unpaid(x)) - 1
  BY <1>3, WinnersFinite, FS_RemoveElement
<1> DEFINE n == Cardinality(Unpaid(x))
           r == x.outcome.rewardPerWinner
<1>5. n \in Nat /\ r \in Nat /\ r * n \in Nat /\ y.outcome.rewardPerWinner = r
  BY WinnersFinite, LobbyFields DEF SameEnding
<1>6. r * (n - 1) = r * n - r
  <2> HIDE DEF n, r
  <2> QED BY <1>5
<1>7. owed(x) = x.protocolFeeAccrued + r * n + unsettled(x, completedCreatorDue(x))
  BY OwedForms
<1>8. owed(y) = x.protocolFeeAccrued + r * (n - 1) + unsettled(y, completedCreatorDue(x))
  BY <1>1, <1>4, <1>5, OwedForms DEF SameEnding, SameSums
<1>9. unsettled(y, completedCreatorDue(x)) = unsettled(x, completedCreatorDue(x)) - fee
  BY <1>1, <1>2, LobbyFields DEF unsettled
<1>10. unsettled(x, completedCreatorDue(x)) \in Int
  BY <1>1 DEF unsettled
<1> DEFINE prizes == r * n
           left == unsettled(x, completedCreatorDue(x))
<1>11. /\ owed(x) = x.protocolFeeAccrued + prizes + left
       /\ owed(y) = x.protocolFeeAccrued + (prizes - r) + (left - fee)
       /\ prizes \in Nat /\ left \in Int
  BY <1>5, <1>6, <1>7, <1>8, <1>9, <1>10
<1> HIDE DEF prizes, left, r, n
<1>12. owed(y) = owed(x) - (r + fee)
  BY <1>2, <1>5, <1>11, LobbyFields
<1>13. QED
  BY <1>1, <1>2, <1>12 DEF r

LEMMA RefundOwes ==
    ASSUME NEW x \in Lobby, NEW y \in Lobby, Sound(x), SameEnding(x, y),
           x.ending = "UNPLAYED", NEW w \in Players,
           \A v \in Players : v # w => y.seats[v].refunded = x.seats[v].refunded,
           NEW due, due = IF x.seats[w].joined /\ ~x.seats[w].refunded
                          THEN x.seats[w].paidIn ELSE 0,
           y.seats[w].refunded = (x.seats[w].refunded \/ due > 0),
           NEW launch, launch = 0 \/ (launch = x.startPrizePool /\ ~x.creatorSettled),
           y.creatorSettled = (x.creatorSettled \/ launch > 0)
    PROVE  /\ Sound(y) /\ due \in Nat /\ launch \in Nat
           /\ owed(y) = owed(x) - (due + launch)
<1>1. Sound(y)
  BY EndingKept
<1>2. due \in Nat /\ launch \in Nat
  BY SeatFields, LobbyFields
<1>3. /\ OneMoved(Players, backBy(x), backBy(y), w)
      /\ backBy(x)[w] = due /\ backBy(y)[w] = 0
  <2>1. \A v \in Players : v # w => backBy(x)[v] = backBy(y)[v]
    BY MoneyOfASeat DEF SameEnding, SameSeats
  <2>2. backBy(x)[w] = due
    BY MoneyOfASeat
  <2>3. backBy(y)[w] = 0
    BY <1>2, MoneyOfASeat, SeatFields DEF SameEnding, SameSeats
  <2>4. QED
    BY <2>1, <2>2, <2>3, PlayersFinite, MoneyOfASeat DEF OneMoved
<1>4. Total(backBy(y), Players) = Total(backBy(x), Players) - due
  BY <1>2, <1>3, TotalMoves, TotalsAreNatural
<1>5. unsettled(y, y.startPrizePool) = unsettled(x, x.startPrizePool) - launch
  BY <1>2, LobbyFields DEF unsettled, SameEnding, SameSums
<1>6. owed(x) = x.protocolFeeAccrued + Total(backBy(x), Players)
                + unsettled(x, x.startPrizePool)
  BY OwedForms
<1>7. owed(y) = x.protocolFeeAccrued + Total(backBy(y), Players)
                + unsettled(y, y.startPrizePool)
  BY OwedForms DEF SameEnding, SameSums
<1>8. unsettled(x, x.startPrizePool) \in Int
  BY LobbyFields DEF unsettled
<1>9. owed(y) = owed(x) - (due + launch)
  BY <1>2, <1>4, <1>5, <1>6, <1>7, <1>8, TotalsAreNatural, LobbyFields
<1>10. QED
  BY <1>1, <1>2, <1>9

LEMMA SettledOwes ==
    ASSUME NEW x \in Lobby, NEW y \in Lobby, Sound(x), SameEnding(x, y),
           x.ending # "NONE", y.seats = x.seats, ~x.creatorSettled, y.creatorSettled
    PROVE  Sound(y) /\ owed(y) = owed(x) - creatorDue(x) /\ creatorDue(x) \in Nat
<1>1. Sound(y) /\ creatorDue(x) \in Nat
  BY EndingKept
<1>2. CASE x.ending = "UNPLAYED"
  <2>1. backBy(y) = backBy(x)
    BY SameTotals DEF SameEnding
  <2>2. /\ owed(x) = x.protocolFeeAccrued + Total(backBy(x), Players) + x.startPrizePool
        /\ owed(y) = x.protocolFeeAccrued + Total(backBy(x), Players) + 0
    BY <1>2, <2>1, OwedForms DEF unsettled, SameEnding, SameSums
  <2>3. creatorDue(x) = x.startPrizePool
    BY <1>2 DEF creatorDue, refundable
  <2>4. QED
    BY <1>1, <2>2, <2>3, TotalsAreNatural, LobbyFields
<1>3. CASE x.ending = "COMPLETED"
  <2> DEFINE prizes == x.outcome.rewardPerWinner * Cardinality(Unpaid(x))
             due == completedCreatorDue(x)
  <2>1. Unpaid(y) = Unpaid(x)
    BY DEF Unpaid, SameEnding
  <2>2. prizes \in Nat /\ due \in Nat /\ creatorDue(x) = due
    BY <1>1, <1>3, EndingKept, WinnersFinite
  <2>3. owed(x) = x.protocolFeeAccrued + prizes + due
    BY <1>3, OwedForms DEF unsettled
  <2>4. owed(y) = x.protocolFeeAccrued + prizes + 0
    BY <1>3, <2>1, OwedForms DEF unsettled, SameEnding, SameSums
  <2> HIDE DEF prizes, due
  <2>5. QED
    BY <1>1, <2>2, <2>3, <2>4, LobbyFields
<1>4. QED
  BY <1>2, <1>3, LobbyFields

-----------------------------------------------------------------------------
(* One operation rewritten, and all the operations after it.               *)

Alike(s, t) ==
    /\ t.limits = s.limits /\ t.block = s.block
    /\ t.globalDefenseLobby = s.globalDefenseLobby

DrawStarts(s, t, l) ==
    /\ s.lobbies[l].creator = Protocol /\ s.lobbies[l].status = "OPEN"
    /\ t.lobbies[l].status # "OPEN"
    /\ t.lobbies[l].startPrizePool >= s.globalDefensePool

GoesOn(s, t, l) ==
    /\ t.lobbies[l].creator = s.lobbies[l].creator
    /\ s.lobbies[l].status # "OPEN" => t.lobbies[l].status # "OPEN"
    /\ t.lobbies[l].startPrizePool >= s.lobbies[l].startPrizePool

(* An operation written, and the escrow and the pool moved by as much.     *)
Rewrites(s, t, l) ==
    /\ IsState(t) /\ Alike(s, t) /\ Sound(t.lobbies[l]) /\ GoesOn(s, t, l)
    /\ DOMAIN t.lobbies = DOMAIN s.lobbies
    /\ \A k \in DOMAIN s.lobbies : k # l => t.lobbies[k] = s.lobbies[k]
    /\ t.globalDefensePool < s.globalDefensePool => DrawStarts(s, t, l)
    /\ t.escrow - t.globalDefensePool - owed(t.lobbies[l])
           = s.escrow - s.globalDefensePool - owed(s.lobbies[l])

(* What becomes of the operations, and of the pool, from one state to a    *)
(* later one.                                                              *)
Leads(s, t) ==
    /\ DOMAIN s.lobbies \subseteq DOMAIN t.lobbies
    /\ \A l \in DOMAIN s.lobbies : GoesOn(s, t, l)
    /\ t.globalDefensePool < s.globalDefensePool =>
          \E l \in DOMAIN s.lobbies : DrawStarts(s, t, l)

LEMMA DuesFacts ==
    ASSUME NEW s, Books(s)
    PROVE  /\ IsFiniteSet(DOMAIN s.lobbies)
           /\ \A l \in DOMAIN s.lobbies : /\ dues(s)[l] = owed(s.lobbies[l])
                                          /\ owed(s.lobbies[l]) \in Int
           /\ Total(dues(s), DOMAIN s.lobbies) \in Int
<1>1. IsFiniteSet(DOMAIN s.lobbies)
  BY StateFields, FS_Interval DEF Books
<1>2. \A l \in DOMAIN s.lobbies : dues(s)[l] = owed(s.lobbies[l]) /\ owed(s.lobbies[l]) \in Int
  BY StateFields, OwedIsInt DEF Books, dues
<1>3. QED
  BY <1>1, <1>2, TotalIsInt

LEMMA RewritesKeeps ==
    ASSUME NEW s, Books(s), NEW l \in DOMAIN s.lobbies, NEW t, Rewrites(s, t, l)
    PROVE  Books(t) /\ Leads(s, t)
<1> DEFINE D == DOMAIN s.lobbies
<1>1. \A k \in D : Sound(t.lobbies[k]) /\ t.lobbies[k] \in Lobby
  BY StateFields DEF Books, Rewrites
<1>2. Booked(t)
  BY DEF Books, Booked, Rewrites, GoesOn, Alike
<1>3. OneMoved(D, dues(s), dues(t), l)
  <2>1. \A k \in D : dues(t)[k] = owed(t.lobbies[k]) /\ owed(t.lobbies[k]) \in Int
    BY <1>1, OwedIsInt DEF dues, Rewrites
  <2>2. QED
    BY <2>1, DuesFacts DEF OneMoved, Rewrites
<1>4. Total(dues(t), D) = Total(dues(s), D) - owed(s.lobbies[l]) + owed(t.lobbies[l])
  <2>1. dues(t)[l] = owed(t.lobbies[l]) /\ dues(s)[l] = owed(s.lobbies[l])
    BY DEF dues, Rewrites
  <2>2. QED
    BY <1>3, <2>1, TotalMoves
<1>5. t.escrow = t.globalDefensePool + Total(dues(t), DOMAIN t.lobbies)
  <2>1. /\ owed(s.lobbies[l]) \in Int /\ owed(t.lobbies[l]) \in Int
        /\ Total(dues(s), D) \in Int
    BY <1>1, DuesFacts, OwedIsInt
  <2>2. /\ s.escrow \in Int /\ s.globalDefensePool \in Int
        /\ t.escrow \in Int /\ t.globalDefensePool \in Int
    BY StateFields DEF Books, Rewrites
  <2>3. s.escrow = s.globalDefensePool + Total(dues(s), D)
    BY DEF Books
  <2>4. /\ t.escrow - t.globalDefensePool - owed(t.lobbies[l])
               = s.escrow - s.globalDefensePool - owed(s.lobbies[l])
        /\ DOMAIN t.lobbies = D
    BY DEF Rewrites
  <2> HIDE DEF D
  <2>5. QED
    BY <1>4, <2>1, <2>2, <2>3, <2>4
<1>6. Books(t)
  BY <1>1, <1>2, <1>5 DEF Books, Rewrites
<1>7. \A k \in D : GoesOn(s, t, k)
  <2> TAKE k \in D
  <2>1. CASE k = l
    BY <2>1 DEF Rewrites
  <2>2. CASE k # l
    <3>1. s.lobbies[k] \in Lobby
      BY StateFields DEF Books
    <3>2. QED
      BY <2>2, <3>1, LobbyFields DEF Rewrites, GoesOn
  <2>3. QED
    BY <2>1, <2>2
<1>8. QED
  BY <1>6, <1>7 DEF Leads, Rewrites

LEMMA LeadsOn ==
    ASSUME NEW s, NEW t, NEW u, Books(s), Books(t), Books(u),
           Leads(s, t), Leads(t, u), DOMAIN t.lobbies = DOMAIN s.lobbies
    PROVE  Leads(s, u)
<1>1. /\ s.globalDefensePool \in Nat /\ t.globalDefensePool \in Nat
      /\ u.globalDefensePool \in Nat
  BY StateFields DEF Books
<1>2. ASSUME NEW l \in DOMAIN s.lobbies
      PROVE  /\ s.lobbies[l].startPrizePool \in Nat /\ t.lobbies[l].startPrizePool \in Nat
             /\ u.lobbies[l].startPrizePool \in Nat
             /\ GoesOn(s, t, l) /\ GoesOn(t, u, l)
  <2>1. l \in DOMAIN t.lobbies /\ l \in DOMAIN u.lobbies
    BY DEF Leads
  <2>2. s.lobbies[l] \in Lobby /\ t.lobbies[l] \in Lobby /\ u.lobbies[l] \in Lobby
    BY <2>1, StateFields DEF Books
  <2>3. QED
    BY <2>1, <2>2, LobbyFields DEF Leads
<1>3. \A l \in DOMAIN s.lobbies : GoesOn(s, u, l)
  BY <1>2 DEF GoesOn
<1>4. ASSUME u.globalDefensePool < s.globalDefensePool
      PROVE  \E l \in DOMAIN s.lobbies : DrawStarts(s, u, l)
  <2>1. CASE t.globalDefensePool < s.globalDefensePool
    <3>1. PICK l \in DOMAIN s.lobbies : DrawStarts(s, t, l)
      BY <2>1 DEF Leads
    <3>2. DrawStarts(s, u, l)
      BY <1>1, <1>2, <3>1 DEF DrawStarts, GoesOn
    <3>3. QED
      BY <3>2
  <2>2. CASE ~(t.globalDefensePool < s.globalDefensePool)
    <3>1. u.globalDefensePool < t.globalDefensePool
      BY <1>1, <1>4, <2>2
    <3>2. PICK l \in DOMAIN s.lobbies : DrawStarts(t, u, l)
      BY <3>1 DEF Leads
    <3>3. DrawStarts(s, u, l)
      BY <1>1, <1>2, <2>2, <3>2 DEF DrawStarts, GoesOn
    <3>4. QED
      BY <3>3
  <2>3. QED
    BY <2>1, <2>2
<1>5. DOMAIN s.lobbies \subseteq DOMAIN u.lobbies
  BY DEF Leads
<1>6. QED
  BY <1>3, <1>4, <1>5 DEF Leads

-----------------------------------------------------------------------------
(* The ways a state is written.                                            *)

LEMMA WriteLobby ==
    ASSUME NEW s, IsState(s), NEW l \in DOMAIN s.lobbies, NEW y \in Lobby,
           NEW t, t = [s EXCEPT !.lobbies[l] = y]
    PROVE  /\ IsState(t) /\ Alike(s, t)
           /\ t.escrow = s.escrow /\ t.globalDefensePool = s.globalDefensePool
           /\ t.wallet = s.wallet
           /\ DOMAIN t.lobbies = DOMAIN s.lobbies /\ t.lobbies[l] = y
           /\ \A k \in DOMAIN s.lobbies : k # l => t.lobbies[k] = s.lobbies[k]
<1> DEFINE ys == [s.lobbies EXCEPT ![l] = y]
<1>1. /\ ys \in Seq(Lobby) /\ DOMAIN ys = DOMAIN s.lobbies /\ ys[l] = y
      /\ \A k \in DOMAIN s.lobbies : k # l => ys[k] = s.lobbies[k]
  BY StateFields
<1>2. t = [s EXCEPT !.lobbies = ys]
  BY DEF IsState
<1> HIDE DEF ys
<1>3. /\ t.lobbies = ys /\ Alike(s, t)
      /\ t.escrow = s.escrow /\ t.globalDefensePool = s.globalDefensePool
      /\ t.wallet = s.wallet
  BY <1>2 DEF IsState, Alike
<1>4. IsState(t)
  BY <1>1, <1>2 DEF IsState
<1>5. QED
  BY <1>1, <1>3, <1>4

LEMMA PoolFields ==
    ASSUME NEW s, IsState(s), NEW pool \in Nat,
           NEW t, t = [s EXCEPT !.globalDefensePool = pool]
    PROVE  /\ IsState(t) /\ Alike(s, t) /\ t.lobbies = s.lobbies
           /\ t.escrow = s.escrow /\ t.globalDefensePool = pool
BY DEF IsState, Alike

LEMMA PayOutFields ==
    ASSUME NEW s, IsState(s), NEW w \in Players, NEW amount, amount \in Int,
           NEW t, t = payOut(s, w, amount)
    PROVE  /\ IsState(t) /\ Alike(s, t) /\ t.lobbies = s.lobbies
           /\ t.escrow = s.escrow - amount /\ t.globalDefensePool = s.globalDefensePool
<1> DEFINE W == [s.wallet EXCEPT ![w] = @ + amount]
           E == s.escrow - amount
<1>1. W \in [Players -> Int] /\ E \in Int
  BY StateFields
<1>2. t = [s EXCEPT !.wallet = W, !.escrow = E]
  BY DEF payOut, IsState
<1> HIDE DEF W
<1>3. /\ t.lobbies = s.lobbies /\ Alike(s, t)
      /\ t.escrow = E /\ t.globalDefensePool = s.globalDefensePool
  BY <1>2 DEF IsState, Alike
<1>4. IsState(t)
  BY <1>1, <1>2 DEF IsState
<1>5. QED
  BY <1>3, <1>4

LEMMA EscrowFields ==
    ASSUME NEW s, IsState(s), NEW w \in Players, NEW amount, amount \in Int,
           NEW t, t = escrow(s, w, amount)
    PROVE  /\ IsState(t) /\ Alike(s, t) /\ t.lobbies = s.lobbies
           /\ t.escrow = s.escrow + amount /\ t.globalDefensePool = s.globalDefensePool
<1> DEFINE W == [s.wallet EXCEPT ![w] = @ - amount]
           E == s.escrow + amount
<1>1. W \in [Players -> Int] /\ E \in Int
  BY StateFields
<1>2. t = [s EXCEPT !.wallet = W, !.escrow = E]
  BY DEF escrow, IsState
<1> HIDE DEF W
<1>3. /\ t.lobbies = s.lobbies /\ Alike(s, t)
      /\ t.escrow = E /\ t.globalDefensePool = s.globalDefensePool
  BY <1>2 DEF IsState, Alike
<1>4. IsState(t)
  BY <1>1, <1>2 DEF IsState
<1>5. QED
  BY <1>3, <1>4

(* An operation written, in one go with nothing else.                      *)
LEMMA WriteRewrites ==
    ASSUME NEW s, Books(s), NEW l \in DOMAIN s.lobbies, NEW y \in Lobby, Sound(y),
           owed(y) = owed(s.lobbies[l]), y.creator = s.lobbies[l].creator,
           s.lobbies[l].status # "OPEN" => y.status # "OPEN",
           y.startPrizePool = s.lobbies[l].startPrizePool
    PROVE  Rewrites(s, [s EXCEPT !.lobbies[l] = y], l)
<1> DEFINE t == [s EXCEPT !.lobbies[l] = y]
<1>1. /\ IsState(t) /\ Alike(s, t)
      /\ t.escrow = s.escrow /\ t.globalDefensePool = s.globalDefensePool
      /\ DOMAIN t.lobbies = DOMAIN s.lobbies /\ t.lobbies[l] = y
      /\ \A k \in DOMAIN s.lobbies : k # l => t.lobbies[k] = s.lobbies[k]
  BY WriteLobby DEF Books
<1>2. y.startPrizePool \in Nat /\ s.globalDefensePool \in Nat
  BY LobbyFields, StateFields DEF Books
<1> HIDE DEF t
<1>3. GoesOn(s, t, l)
  BY <1>1, <1>2 DEF GoesOn
<1>4. QED
  <2>1. Rewrites(s, t, l)
    BY <1>1, <1>2, <1>3 DEF Rewrites, Alike
  <2>2. QED
    BY <2>1 DEF t

LEMMA NothingRewrites ==
    ASSUME NEW s, Books(s), NEW l \in DOMAIN s.lobbies
    PROVE  Rewrites(s, s, l)
<1>1. s.lobbies[l] \in Lobby /\ Sound(s.lobbies[l]) /\ s.globalDefensePool \in Nat
  BY StateFields DEF Books
<1>2. GoesOn(s, s, l)
  BY <1>1, LobbyFields DEF GoesOn
<1>3. QED
  BY <1>1, <1>2 DEF Rewrites, Books, Alike

LEMMA NothingLeads ==
    ASSUME NEW s, Books(s)
    PROVE  Leads(s, s)
<1>1. s.globalDefensePool \in Nat
  BY StateFields DEF Books
<1>2. ASSUME NEW l \in DOMAIN s.lobbies PROVE GoesOn(s, s, l)
  BY NothingRewrites DEF Rewrites
<1>3. QED
  BY <1>1, <1>2 DEF Leads

-----------------------------------------------------------------------------
(* settleLobby, step by step.                                              *)

LEMMA ProductsOfInts ==
    ASSUME NEW a \in Int, NEW b \in Int
    PROVE  a * b \in Int
OBVIOUS

LEMMA EpochStarts ==
    ASSUME NEW s, IsState(s), NEW e \in Int
    PROVE  /\ s.limits.epochBlocks \in Nat \ {0}
           /\ getEpochStartBlock(e, s.limits.epochBlocks, InitialBlock) \in Int
<1>1. s.limits.epochBlocks \in Nat \ {0}
  BY StateFields DEF ProtocolLimits
<1>2. e * s.limits.epochBlocks \in Int
  BY <1>1, ProductsOfInts
<1>3. QED
  BY <1>1, <1>2, EmulatorAssumption DEF getEpochStartBlock

LEMMA ScheduleType ==
    ASSUME NEW s, IsState(s), NEW x \in Lobby
    PROVE  scheduleAttack(s, x) \in Attack
<1>1. /\ getEpochStartBlock(x.currentEpochId, s.limits.epochBlocks, InitialBlock) \in Int
      /\ s.limits.epochBlocks \in Nat
  BY LobbyFields, EpochStarts
<1>2. QED
  BY <1>1 DEF scheduleAttack, Attack

LEMMA BountyFields ==
    ASSUME NEW s, IsState(s), NEW l \in DOMAIN s.lobbies, NEW amount \in Nat,
           amount <= s.globalDefensePool,
           NEW t, t = addToBounty(s, l, amount), NEW x, x = s.lobbies[l],
           NEW z, z = t.lobbies[l]
    PROVE  /\ z \in Lobby /\ IsState(t) /\ Alike(s, t)
           /\ t.escrow = s.escrow /\ t.globalDefensePool = s.globalDefensePool - amount
           /\ DOMAIN t.lobbies = DOMAIN s.lobbies
           /\ \A k \in DOMAIN s.lobbies : k # l => t.lobbies[k] = s.lobbies[k]
           /\ z.rewardPool = x.rewardPool + amount
           /\ z.startPrizePool = x.startPrizePool + amount
           /\ z.seats = x.seats /\ z.config = x.config /\ z.creator = x.creator
           /\ z.outcome = x.outcome /\ z.creatorSettled = x.creatorSettled
           /\ z.ending = x.ending /\ z.entryFeesCollected = x.entryFeesCollected
           /\ z.creatorFeeAccrued = x.creatorFeeAccrued
           /\ z.protocolFeeAccrued = x.protocolFeeAccrued
<1> DEFINE y == [s.lobbies[l] EXCEPT !.rewardPool = @ + amount, !.startPrizePool = @ + amount]
           p == [s EXCEPT !.globalDefensePool = s.globalDefensePool - amount]
<1>1. s.lobbies[l] \in Lobby /\ s.globalDefensePool - amount \in Nat
  BY StateFields
<1>2. y \in Lobby
  <2>1. x \in Lobby /\ x.rewardPool + amount \in Int /\ x.startPrizePool + amount \in Nat
    BY <1>1, LobbyFields
  <2>2. y = [x EXCEPT !.rewardPool = x.rewardPool + amount,
                      !.startPrizePool = x.startPrizePool + amount]
    BY <2>1 DEF Lobby
  <2> HIDE DEF y
  <2>3. QED
    BY <2>1, <2>2 DEF Lobby
<1>3. /\ IsState(p) /\ Alike(s, p) /\ p.lobbies = s.lobbies
      /\ p.escrow = s.escrow /\ p.globalDefensePool = s.globalDefensePool - amount
  BY <1>1, PoolFields
<1>4. t = [p EXCEPT !.lobbies[l] = y]
  BY DEF addToBounty, IsState
<1>5. /\ y.rewardPool = x.rewardPool + amount
      /\ y.startPrizePool = x.startPrizePool + amount
      /\ y.seats = x.seats /\ y.config = x.config /\ y.creator = x.creator
      /\ y.outcome = x.outcome /\ y.creatorSettled = x.creatorSettled
      /\ y.ending = x.ending /\ y.entryFeesCollected = x.entryFeesCollected
      /\ y.creatorFeeAccrued = x.creatorFeeAccrued
      /\ y.protocolFeeAccrued = x.protocolFeeAccrued
  BY <1>1 DEF Lobby
<1> HIDE DEF p, y
<1>6. /\ IsState(t) /\ Alike(p, t)
      /\ t.escrow = p.escrow /\ t.globalDefensePool = p.globalDefensePool
      /\ DOMAIN t.lobbies = DOMAIN p.lobbies /\ t.lobbies[l] = y
      /\ \A k \in DOMAIN p.lobbies : k # l => t.lobbies[k] = p.lobbies[k]
  BY <1>2, <1>3, <1>4, WriteLobby
<1>7. Alike(s, t)
  BY <1>3, <1>6 DEF Alike
<1>8. QED
  BY <1>2, <1>3, <1>5, <1>6, <1>7

begun(s, l) == startOperation(closeApplications(s, l), l)

(* A player's operation once it runs, and one that was called off.         *)
running(x, limits) ==
    LET launch == getEpochStartBlock(x.currentEpochId, limits.epochBlocks, InitialBlock)
    IN  [x EXCEPT !.rewardPool = @ + x.entryFeesCollected,
                  !.status = "ACTIVE",
                  !.attack = [ status |-> "PENDING", launchBlock |-> launch,
                               impactBlock |-> launch + limits.epochBlocks ]]

toReturn(x) == {w \in seated(x) : ~x.seats[w].refunded /\ x.seats[w].paidIn > 0}

returned(x) ==
    [x EXCEPT
        !.seats = [w \in Players |-> [x.seats[w] EXCEPT !.refunded = @ \/ w \in toReturn(x)]],
        !.creatorSettled = TRUE]

LEMMA FullRoomStarts ==
    ASSUME NEW s, Books(s), NEW l \in DOMAIN s.lobbies, s.lobbies[l].status = "OPEN",
           closeApplications(s, l) = [s EXCEPT !.lobbies[l].status = "READY"]
    PROVE  /\ Rewrites(s, begun(s, l), l)
           /\ s.lobbies[l].creator # Protocol =>
                 begun(s, l).lobbies[l]
                     = running([s.lobbies[l] EXCEPT !.status = "READY"], s.limits)
<1> DEFINE x == s.lobbies[l]
           r == [s EXCEPT !.lobbies[l].status = "READY"]
           xr == [x EXCEPT !.status = "READY"]
           e == IF x.creator = Protocol THEN s.globalDefensePool ELSE 0
           f == IF x.creator = Protocol THEN addToBounty(r, l, s.globalDefensePool) ELSE r
           z == f.lobbies[l]
           y == [z EXCEPT !.rewardPool = @ + z.entryFeesCollected, !.status = "ACTIVE",
                          !.attack = scheduleAttack(r, z)]
           t == [f EXCEPT !.lobbies[l] = y]
<1>1. IsState(s) /\ x \in Lobby /\ Sound(x) /\ e \in Nat /\ e <= s.globalDefensePool
  BY StateFields DEF Books
<1>2. xr \in Lobby
  BY <1>1 DEF Lobby
<1>3. r = [s EXCEPT !.lobbies[l] = xr]
  BY <1>1 DEF IsState
<1>4. /\ IsState(r) /\ Alike(s, r)
      /\ r.escrow = s.escrow /\ r.globalDefensePool = s.globalDefensePool
      /\ DOMAIN r.lobbies = DOMAIN s.lobbies /\ r.lobbies[l] = xr
      /\ \A k \in DOMAIN s.lobbies : k # l => r.lobbies[k] = s.lobbies[k]
  <2> HIDE DEF r, xr
  <2> QED BY <1>1, <1>2, <1>3, WriteLobby
<1>5. begun(s, l) = t
  <2>1. r.lobbies[l].status = "READY" /\ r.lobbies[l].creator = x.creator
    BY <1>1, <1>4 DEF Lobby
  <2>2. closeApplications(s, l) = r
    OBVIOUS
  <2> HIDE DEF r
  <2>3. QED
    BY <1>4, <2>1, <2>2 DEF begun, startOperation
<1>6. /\ IsState(f) /\ Alike(s, f) /\ z \in Lobby
      /\ f.escrow = s.escrow /\ f.globalDefensePool = s.globalDefensePool - e
      /\ DOMAIN f.lobbies = DOMAIN s.lobbies
      /\ \A k \in DOMAIN s.lobbies : k # l => f.lobbies[k] = s.lobbies[k]
      /\ z.rewardPool = x.rewardPool + e /\ z.startPrizePool = x.startPrizePool + e
      /\ z.seats = x.seats /\ z.config = x.config /\ z.creator = x.creator
      /\ z.outcome = x.outcome /\ z.creatorSettled = x.creatorSettled /\ z.ending = x.ending
      /\ z.entryFeesCollected = x.entryFeesCollected
      /\ z.creatorFeeAccrued = x.creatorFeeAccrued
      /\ z.protocolFeeAccrued = x.protocolFeeAccrued
  <2>1. CASE x.creator = Protocol
    <3>1. f = addToBounty(r, l, e)
      BY <2>1
    <3>2. /\ xr.seats = x.seats /\ xr.config = x.config /\ xr.creator = x.creator
          /\ xr.rewardPool = x.rewardPool /\ xr.startPrizePool = x.startPrizePool
          /\ xr.outcome = x.outcome /\ xr.creatorSettled = x.creatorSettled
          /\ xr.ending = x.ending
          /\ xr.entryFeesCollected = x.entryFeesCollected
          /\ xr.creatorFeeAccrued = x.creatorFeeAccrued
          /\ xr.protocolFeeAccrued = x.protocolFeeAccrued
      BY <1>1 DEF Lobby
    <3> HIDE DEF r, xr, f, e, x
    <3>3. /\ z \in Lobby /\ IsState(f) /\ Alike(r, f)
          /\ f.escrow = r.escrow /\ f.globalDefensePool = r.globalDefensePool - e
          /\ DOMAIN f.lobbies = DOMAIN r.lobbies
          /\ \A k \in DOMAIN r.lobbies : k # l => f.lobbies[k] = r.lobbies[k]
          /\ z.rewardPool = xr.rewardPool + e /\ z.startPrizePool = xr.startPrizePool + e
          /\ z.seats = xr.seats /\ z.config = xr.config /\ z.creator = xr.creator
          /\ z.outcome = xr.outcome /\ z.creatorSettled = xr.creatorSettled
          /\ z.ending = xr.ending /\ z.entryFeesCollected = xr.entryFeesCollected
          /\ z.creatorFeeAccrued = xr.creatorFeeAccrued
          /\ z.protocolFeeAccrued = xr.protocolFeeAccrued
      BY <1>1, <1>4, <3>1, BountyFields
    <3>4. Alike(s, f)
      BY <1>4, <3>3 DEF Alike
    <3>5. QED
      BY <1>4, <3>2, <3>3, <3>4
  <2>2. CASE x.creator # Protocol
    <3>1. f = r /\ e = 0
      BY <2>2
    <3>2. /\ xr.rewardPool = x.rewardPool + 0 /\ xr.startPrizePool = x.startPrizePool + 0
          /\ xr.seats = x.seats /\ xr.config = x.config /\ xr.creator = x.creator
          /\ xr.outcome = x.outcome /\ xr.creatorSettled = x.creatorSettled
          /\ xr.ending = x.ending
          /\ xr.entryFeesCollected = x.entryFeesCollected
          /\ xr.creatorFeeAccrued = x.creatorFeeAccrued
          /\ xr.protocolFeeAccrued = x.protocolFeeAccrued
      BY <1>1 DEF Lobby
    <3>3. s.globalDefensePool \in Nat
      BY <1>1, StateFields
    <3>4. z = xr
      BY <1>4, <3>1
    <3>5. s.globalDefensePool = s.globalDefensePool - e
      BY <3>1, <3>3
    <3>6. /\ IsState(f) /\ Alike(s, f) /\ f.escrow = s.escrow
          /\ f.globalDefensePool = s.globalDefensePool - e
          /\ DOMAIN f.lobbies = DOMAIN s.lobbies
          /\ \A k \in DOMAIN s.lobbies : k # l => f.lobbies[k] = s.lobbies[k]
      <4> HIDE DEF r, f, e
      <4> QED BY <1>4, <3>1, <3>5
    <3>7. z.rewardPool = x.rewardPool + e /\ z.startPrizePool = x.startPrizePool + e
      <4> HIDE DEF xr, e, z, x
      <4> QED BY <3>1, <3>2, <3>4
    <3> HIDE DEF r, xr, f, e, z, x
    <3>8. QED
      BY <1>2, <3>2, <3>4, <3>6, <3>7
  <2>3. QED
    BY <2>1, <2>2
<1> HIDE DEF r, f, xr, z
<1>7. /\ y \in Lobby /\ y.status = "ACTIVE" /\ y.ending = x.ending
      /\ y.rewardPool = x.rewardPool + e + x.entryFeesCollected
      /\ y.startPrizePool = x.startPrizePool + e
      /\ y.seats = x.seats /\ y.config = x.config /\ y.creator = x.creator
      /\ y.outcome = x.outcome /\ y.creatorSettled = x.creatorSettled
      /\ y.entryFeesCollected = x.entryFeesCollected
      /\ y.creatorFeeAccrued = x.creatorFeeAccrued
      /\ y.protocolFeeAccrued = x.protocolFeeAccrued
  <2>1. scheduleAttack(r, z) \in Attack
    BY <1>4, <1>6, ScheduleType
  <2>2. z.rewardPool + z.entryFeesCollected \in Int
    BY <1>6, LobbyFields
  <2> HIDE DEF x, e
  <2>3. y \in Lobby
    BY <1>6, <2>1, <2>2 DEF Lobby
  <2>4. QED
    BY <1>6, <2>3 DEF Lobby
<1>8. Sound(y) /\ owed(y) = owed(x) + e
  <2> HIDE DEF x, y, e
  <2> QED BY <1>1, <1>7, StartedOwes DEF x
<1> HIDE DEF y
<1>9. /\ IsState(t) /\ Alike(f, t)
      /\ t.escrow = f.escrow /\ t.globalDefensePool = f.globalDefensePool
      /\ DOMAIN t.lobbies = DOMAIN f.lobbies /\ t.lobbies[l] = y
      /\ \A k \in DOMAIN f.lobbies : k # l => t.lobbies[k] = f.lobbies[k]
  BY <1>6, <1>7, WriteLobby
<1> HIDE DEF t
<1>10. GoesOn(s, t, l)
  BY <1>1, <1>7, <1>9, LobbyFields DEF GoesOn
<1>11. ASSUME t.globalDefensePool < s.globalDefensePool
       PROVE  DrawStarts(s, t, l)
  <2>1. s.globalDefensePool \in Nat /\ x.startPrizePool \in Nat
    BY <1>1, StateFields, LobbyFields
  <2>2. t.globalDefensePool = s.globalDefensePool - e
    BY <1>6, <1>9
  <2>3. x.creator = Protocol /\ e = s.globalDefensePool
    BY <1>11, <2>1, <2>2
  <2>4. y.startPrizePool >= s.globalDefensePool
    BY <1>7, <2>1, <2>3
  <2>5. QED
    BY <1>7, <1>9, <2>3, <2>4 DEF DrawStarts
<1>12. t.escrow - t.globalDefensePool - owed(y) = s.escrow - s.globalDefensePool - owed(x)
  <2>1. owed(x) \in Int /\ s.escrow \in Int /\ s.globalDefensePool \in Int
    BY <1>1, OwedIsInt, StateFields
  <2> HIDE DEF x, e
  <2>2. QED
    BY <1>1, <1>6, <1>8, <1>9, <2>1
<1>13. Rewrites(s, t, l)
  BY <1>6, <1>8, <1>9, <1>10, <1>11, <1>12 DEF Rewrites, Alike
<1>14. ASSUME x.creator # Protocol
       PROVE  t.lobbies[l] = running(xr, s.limits)
  <2>1. z = xr
    BY <1>4, <1>14 DEF z, f
  <2>2. r.limits = s.limits
    BY <1>4 DEF Alike
  <2>3. y = running(xr, s.limits)
    BY <2>1, <2>2 DEF y, running, scheduleAttack
  <2>4. QED
    BY <1>9, <2>3
<1>15. QED
  BY <1>5, <1>13, <1>14 DEF xr

LEMMA EmptyRoomReturns ==
    ASSUME NEW s, Books(s), NEW l \in DOMAIN s.lobbies, s.lobbies[l].status = "OPEN",
           NEW m, m = [s EXCEPT !.lobbies[l] =
                          [s.lobbies[l] EXCEPT
                              !.status = "CANCELLED", !.ending = "UNPLAYED",
                              !.drawBounty = IF s.lobbies[l].creator = Protocol
                                             THEN s.globalDefensePool ELSE @]],
           closeApplications(s, l) = payoutUnplayed(m, l)
    PROVE  /\ Rewrites(s, begun(s, l), l)
           /\ begun(s, l).lobbies[l] =
                 returned([s.lobbies[l] EXCEPT
                              !.status = "CANCELLED", !.ending = "UNPLAYED",
                              !.drawBounty = IF s.lobbies[l].creator = Protocol
                                             THEN s.globalDefensePool ELSE @])
<1> DEFINE x == s.lobbies[l]
           b == IF x.creator = Protocol THEN s.globalDefensePool ELSE x.drawBounty
           xm == [x EXCEPT !.status = "CANCELLED", !.ending = "UNPLAYED", !.drawBounty = b]
           z == m.lobbies[l]
           unpaid == {w \in seated(z) : ~z.seats[w].refunded /\ z.seats[w].paidIn > 0}
           bounty == IF z.creatorSettled THEN 0 ELSE z.startPrizePool
           back == [w \in Players |-> (IF w \in unpaid THEN z.seats[w].paidIn ELSE 0)
                                      + (IF w = z.creator THEN bounty ELSE 0)]
           seats == [w \in Players |-> [z.seats[w] EXCEPT !.refunded = @ \/ w \in unpaid]]
           y == [z EXCEPT !.seats = seats, !.creatorSettled = TRUE]
           t == payoutUnplayed(m, l)
<1>1. /\ IsState(s) /\ x \in Lobby /\ Sound(x) /\ x.ending = "NONE" /\ Untouched(x)
      /\ Seats(x) /\ s.globalDefensePool \in Nat /\ s.escrow \in Int
  BY StateFields DEF Books, Sound, Story
<1>2. /\ xm \in Lobby /\ xm.seats = x.seats /\ xm.creator = x.creator
      /\ xm.config = x.config /\ xm.outcome = x.outcome
      /\ xm.startPrizePool = x.startPrizePool /\ xm.rewardPool = x.rewardPool
      /\ xm.entryFeesCollected = x.entryFeesCollected
      /\ xm.creatorFeeAccrued = x.creatorFeeAccrued
      /\ xm.protocolFeeAccrued = x.protocolFeeAccrued
      /\ xm.creatorSettled = x.creatorSettled
      /\ xm.status = "CANCELLED" /\ xm.ending = "UNPLAYED"
  <2>1. x \in Lobby /\ b \in Int
    BY <1>1 DEF Lobby
  <2> HIDE DEF x, b
  <2>2. QED
    BY <2>1 DEF Lobby
<1>3. /\ IsState(m) /\ Alike(s, m) /\ z = xm
      /\ m.escrow = s.escrow /\ m.globalDefensePool = s.globalDefensePool
      /\ DOMAIN m.lobbies = DOMAIN s.lobbies
      /\ \A k \in DOMAIN s.lobbies : k # l => m.lobbies[k] = s.lobbies[k]
  <2>1. m = [s EXCEPT !.lobbies[l] = xm]
    OBVIOUS
  <2> HIDE DEF xm
  <2>2. QED
    BY <1>1, <1>2, <2>1, WriteLobby
<1>4. t = [m EXCEPT
              !.wallet = [w \in Players |-> @[w] + back[w]],
              !.escrow = @ - MapThenSumSet(LAMBDA w : back[w], Players),
              !.globalDefensePool = IF z.creator = Protocol THEN @ + bounty ELSE @,
              !.lobbies[l] = y]
  BY DEF payoutUnplayed
<1> HIDE DEF xm, z
<1>5. /\ z \in Lobby /\ z.seats = x.seats /\ z.creator = x.creator /\ bounty = x.startPrizePool
      /\ x.startPrizePool \in Nat /\ x.seats \in [Players -> Seat]
  <2>1. ~x.creatorSettled
    BY <1>1 DEF Untouched
  <2> HIDE DEF x
  <2>2. QED
    BY <1>1, <1>2, <1>3, <2>1, LobbyFields
<1>6. \A w \in Players :
          /\ seats[w] \in Seat
          /\ seats[w].joined = x.seats[w].joined /\ seats[w].paidIn = x.seats[w].paidIn
          /\ seats[w].probesPaid = x.seats[w].probesPaid
          /\ seats[w].defendedAt = x.seats[w].defendedAt
          /\ seats[w].actions = x.seats[w].actions
          /\ x.seats[w].joined /\ x.seats[w].paidIn > 0 => seats[w].refunded
          /\ ~x.seats[w].joined => seats[w] = x.seats[w]
  <2> TAKE w \in Players
  <2>1. x.seats[w] \in Seat
    BY <1>5
  <2>2. seats[w] = [x.seats[w] EXCEPT !.refunded = @ \/ w \in unpaid]
    BY <1>5
  <2>3. w \in unpaid <=> x.seats[w].joined /\ ~x.seats[w].refunded /\ x.seats[w].paidIn > 0
    BY <1>5 DEF seated
  <2> HIDE DEF seats, unpaid, x
  <2>4. /\ seats[w] \in Seat
        /\ seats[w].refunded = (x.seats[w].refunded \/ w \in unpaid)
        /\ seats[w].joined = x.seats[w].joined /\ seats[w].paidIn = x.seats[w].paidIn
        /\ seats[w].probesPaid = x.seats[w].probesPaid
        /\ seats[w].defendedAt = x.seats[w].defendedAt
        /\ seats[w].actions = x.seats[w].actions
    BY <2>1, <2>2 DEF Seat
  <2>5. ASSUME ~x.seats[w].joined
        PROVE  seats[w] = x.seats[w]
    <3>1. seats[w] = [x.seats[w] EXCEPT !.refunded = x.seats[w].refunded]
      BY <2>1, <2>2, <2>3, <2>5 DEF Seat
    <3>2. QED
      BY <2>1, <3>1 DEF Seat
  <2>6. QED
    BY <2>3, <2>4, <2>5
<1>7. y \in Lobby /\ y.seats = seats /\ y.creatorSettled /\ y.status = "CANCELLED"
      /\ y.ending = "UNPLAYED" /\ y.config = x.config /\ y.creator = x.creator
      /\ y.outcome = x.outcome /\ SameSums(x, y)
  <2>1. seats \in [Players -> Seat]
    BY <1>6
  <2>2. z \in Lobby /\ z = xm
    BY <1>3, <1>5
  <2> HIDE DEF seats, x
  <2>3. /\ y \in Lobby /\ y.seats = seats /\ y.creatorSettled /\ y.status = z.status
        /\ y.ending = z.ending /\ y.config = z.config /\ y.creator = z.creator
        /\ y.outcome = z.outcome /\ SameSums(z, y)
    BY <2>1, <2>2 DEF Lobby, SameSums
  <2>4. QED
    BY <1>2, <2>2, <2>3 DEF SameSums
<1>8. SameSeats(x, y) /\ Seats(y)
  <2>1. commissionOf(y) = commissionOf(x)
    BY <1>7 DEF commissionOf
  <2> HIDE DEF x, y, seats
  <2>2. QED
    BY <1>1, <1>6, <1>7, <2>1 DEF SameSeats, Seats
<1>9. Sound(y) /\ owed(y) = owed(x) - Total(paidBy(x), Players) - x.startPrizePool
  <2> HIDE DEF x, y, seats
  <2> QED BY <1>1, <1>6, <1>7, <1>8, ReturnedOwes DEF x
<1> DEFINE bountyBy == [w \in Players |-> IF w = x.creator THEN x.startPrizePool ELSE 0]
           given == IF x.creator = Protocol THEN 0 ELSE x.startPrizePool
<1>10. \A w \in Players : /\ bountyBy[w] \in Int /\ paidBy(x)[w] \in Int
                          /\ back[w] = paidBy(x)[w] + bountyBy[w]
  <2> TAKE w \in Players
  <2>1. (IF w \in unpaid THEN z.seats[w].paidIn ELSE 0) = paidBy(x)[w]
    <3>1. ~x.seats[w].refunded /\ (~x.seats[w].joined => x.seats[w].paidIn = 0)
      BY <1>1 DEF Untouched, Seats, NoSeat
    <3>2. x.seats[w].paidIn \in Nat /\ paidBy(x)[w] = x.seats[w].paidIn
      BY <1>1, SeatFields, MoneyOfASeat
    <3>3. w \in unpaid <=> x.seats[w].joined /\ ~x.seats[w].refunded /\ x.seats[w].paidIn > 0
      BY <1>5 DEF seated
    <3> HIDE DEF x, unpaid
    <3>4. QED
      BY <1>5, <3>1, <3>2, <3>3
  <2>2. back[w] = paidBy(x)[w] + bountyBy[w]
    <3> HIDE DEF x, unpaid
    <3> QED BY <1>5, <2>1
  <2>3. paidBy(x)[w] \in Int /\ bountyBy[w] \in Int
    BY <1>1, <1>5, MoneyOfASeat
  <2>4. QED
    BY <2>2, <2>3
<1>11. Total(bountyBy, Players) = given
  <2>1. CASE x.creator = Protocol
    <3>1. \A w \in Players : bountyBy[w] = 0
      BY <2>1, PlayersFinite
    <3>2. given = 0
      BY <2>1
    <3> HIDE DEF bountyBy, given
    <3>3. QED
      BY <3>1, <3>2, PlayersFinite, TotalOfZeros
  <2>2. CASE x.creator # Protocol
    <3>1. x.creator \in Players
      BY <1>1, <2>2, LobbyFields
    <3>2. /\ \A w \in Players : w # x.creator => bountyBy[w] = 0
          /\ bountyBy[x.creator] = given /\ given \in Int
      BY <1>5, <2>2, <3>1
    <3> HIDE DEF bountyBy, given, x
    <3>3. QED
      BY <3>1, <3>2, PlayersFinite, TotalOfOne
  <2>3. QED
    BY <2>1, <2>2
<1>12. Total(back, Players) = Total(paidBy(x), Players) + given
  <2> HIDE DEF back, bountyBy, given, x
  <2> QED BY <1>10, <1>11, PlayersFinite, TotalSplits
<1>13. \A w \in Players : back[w] \in Int
  <2> HIDE DEF back, bountyBy, x
  <2> QED BY <1>10
<1>14. Total(paidBy(x), Players) \in Int /\ given \in Int
  BY <1>1, <1>5, TotalsAreNatural
<1> DEFINE W == [w \in Players |-> m.wallet[w] + back[w]]
           E == m.escrow - Total(back, Players)
           P == IF x.creator = Protocol THEN s.globalDefensePool + x.startPrizePool
                ELSE s.globalDefensePool
           ys == [m.lobbies EXCEPT ![l] = y]
<1>15. t = [m EXCEPT !.wallet = W, !.escrow = E, !.globalDefensePool = P, !.lobbies = ys]
  <2>1. MapThenSumSet(LAMBDA w : back[w], Players) = Total(back, Players)
    BY DEF Total
  <2> HIDE DEF x, y, back, t, bounty
  <2>2. m.globalDefensePool = s.globalDefensePool
    BY <1>3
  <2>3. QED
    BY <1>3, <1>4, <1>5, <2>1, <2>2 DEF IsState
<1>16. /\ W \in [Players -> Int] /\ E \in Int /\ P \in Nat /\ ys \in Seq(Lobby)
       /\ DOMAIN ys = DOMAIN s.lobbies /\ ys[l] = y
       /\ \A k \in DOMAIN s.lobbies : k # l => ys[k] = s.lobbies[k]
  <2>1. /\ m.wallet \in [Players -> Int] /\ m.escrow \in Int /\ m.lobbies \in Seq(Lobby)
        /\ l \in DOMAIN m.lobbies /\ Total(back, Players) \in Int
    <3>1. Total(back, Players) \in Int
      <4> HIDE DEF x, back, given
      <4> QED BY <1>12, <1>14
    <3> HIDE DEF x, y, back, given, z
    <3>2. QED
      BY <1>3, <3>1, StateFields
  <2> HIDE DEF x, y, back, given
  <2>2. W \in [Players -> Int]
    BY <1>13, <2>1
  <2>3. E \in Int /\ P \in Nat
    BY <1>1, <1>5, <2>1
  <2>4. /\ ys \in Seq(Lobby) /\ DOMAIN ys = DOMAIN m.lobbies /\ ys[l] = y
        /\ \A k \in DOMAIN m.lobbies : k # l => ys[k] = m.lobbies[k]
    BY <1>7, <2>1
  <2>5. QED
    BY <1>3, <2>2, <2>3, <2>4
<1>17. /\ IsState(t) /\ Alike(s, t) /\ t.lobbies = ys /\ t.escrow = E
       /\ t.globalDefensePool = P
  <2> HIDE DEF W, E, P, ys, t, y, x
  <2>1. t = [ limits |-> m.limits, block |-> m.block, wallet |-> W, escrow |-> E,
              globalDefensePool |-> P, globalDefenseLobby |-> m.globalDefenseLobby,
              lobbies |-> ys ]
    BY <1>3, <1>15 DEF IsState
  <2>2. /\ m.limits \in ProtocolLimits /\ m.block \in Int
        /\ m.globalDefenseLobby \in [DOMAIN m.globalDefenseLobby -> Nat]
    BY <1>3 DEF IsState
  <2>3. IsState(t)
    BY <1>16, <2>1, <2>2 DEF IsState
  <2>4. QED
    BY <1>3, <2>1, <2>3 DEF Alike
<1>18. begun(s, l) = t
  <2>1. t.lobbies[l].status = "CANCELLED"
    BY <1>7, <1>16, <1>17
  <2> HIDE DEF t
  <2>2. closeApplications(s, l) = t
    BY DEF t
  <2>3. QED
    BY <2>1, <2>2 DEF begun, startOperation
<1>19. t.lobbies[l] = y /\ DOMAIN t.lobbies = DOMAIN s.lobbies
       /\ \A k \in DOMAIN s.lobbies : k # l => t.lobbies[k] = s.lobbies[k]
  <2> HIDE DEF t, ys, y
  <2> QED BY <1>16, <1>17
<1>20. GoesOn(s, t, l)
  <2> HIDE DEF t, y
  <2> QED BY <1>5, <1>7, <1>19 DEF GoesOn, SameSums
<1>21. ~(t.globalDefensePool < s.globalDefensePool)
  <2> HIDE DEF t, x
  <2> QED BY <1>1, <1>5, <1>17
<1>22. t.escrow - t.globalDefensePool - owed(y) = s.escrow - s.globalDefensePool - owed(x)
  <2>1. owed(x) \in Int
    BY <1>1, OwedIsInt
  <2>2. t.escrow = s.escrow - (Total(paidBy(x), Players) + given)
    <3> HIDE DEF t, x, y, back, given
    <3> QED BY <1>3, <1>12, <1>17
  <2>3. t.globalDefensePool = s.globalDefensePool + (x.startPrizePool - given)
    <3> HIDE DEF t, x
    <3> QED BY <1>1, <1>5, <1>17
  <2> HIDE DEF t, x, y, given
  <2>4. QED
    BY <1>1, <1>5, <1>9, <1>14, <2>1, <2>2, <2>3
<1>23. Rewrites(s, t, l)
  <2> HIDE DEF t, y
  <2> QED BY <1>9, <1>17, <1>19, <1>20, <1>21, <1>22 DEF Rewrites, Alike
<1>24. y = returned(xm)
  <2>1. y = returned(z)
    BY DEF returned, toReturn
  <2>2. QED
    BY <1>3, <2>1
<1>25. QED
  <2> HIDE DEF t, y
  <2>1. begun(s, l).lobbies[l] = returned(xm)
    BY <1>18, <1>19, <1>24
  <2>2. QED
    BY <1>18, <1>23, <2>1 DEF xm

LEMMA BegunRewrites ==
    ASSUME NEW s, Books(s), NEW l \in DOMAIN s.lobbies
    PROVE  Rewrites(s, begun(s, l), l)
<1> DEFINE x == s.lobbies[l]
<1>1. x.status # "READY"
  BY DEF Books, Sound, Story
<1>2. CASE x.status # "OPEN" \/ s.block < x.deadlineBlock
  <2>1. begun(s, l) = s
    BY <1>1, <1>2 DEF begun, closeApplications, startOperation
  <2>2. QED
    BY <2>1, NothingRewrites
<1>3. CASE /\ x.status = "OPEN" /\ ~(s.block < x.deadlineBlock)
           /\ x.participantCount >= x.config.minPlayers
  <2>1. closeApplications(s, l) = [s EXCEPT !.lobbies[l].status = "READY"]
    BY <1>3 DEF closeApplications
  <2>2. QED
    BY <1>3, <2>1, FullRoomStarts
<1>4. CASE /\ x.status = "OPEN" /\ ~(s.block < x.deadlineBlock)
           /\ ~(x.participantCount >= x.config.minPlayers)
  <2> DEFINE m == [s EXCEPT !.lobbies[l] =
                      [x EXCEPT !.status = "CANCELLED", !.ending = "UNPLAYED",
                                !.drawBounty = IF x.creator = Protocol
                                               THEN s.globalDefensePool ELSE @]]
  <2>1. closeApplications(s, l) = payoutUnplayed(m, l)
    BY <1>4 DEF closeApplications
  <2> HIDE DEF m
  <2>2. m = [s EXCEPT !.lobbies[l] =
                [s.lobbies[l] EXCEPT
                    !.status = "CANCELLED", !.ending = "UNPLAYED",
                    !.drawBounty = IF s.lobbies[l].creator = Protocol
                                   THEN s.globalDefensePool ELSE @]]
    BY DEF m
  <2>3. QED
    BY <1>4, <2>1, <2>2, EmptyRoomReturns
<1>5. QED
  BY <1>2, <1>3, <1>4

(* A draw booked is the protocol's and, once read, open, running or over:  *)
(* the code that would top one up has nothing to do.                       *)
LEMMA TopUpIsIdle ==
    ASSUME NEW s, Books(s)
    PROVE  maybeTopUpGlobalDefense(s) = s
<1> DEFINE d == IF s.limits.interval = 0 THEN 0 ELSE bookedDraw(s)
<1>1. ASSUME d # 0
      PROVE  /\ s.lobbies[d].creator = Protocol
             /\ s.lobbies[d].status \in {"OPEN", "ACTIVE", "RESOLVED", "CANCELLED"}
  <2>1. \E e \in DOMAIN s.globalDefenseLobby : d = s.globalDefenseLobby[e]
    BY <1>1 DEF bookedDraw
  <2>2. d \in DOMAIN s.lobbies /\ s.lobbies[d].creator = Protocol
    BY <2>1 DEF Books, Booked
  <2>3. s.lobbies[d] \in Lobby /\ Sound(s.lobbies[d])
    BY <2>2, StateFields DEF Books
  <2>4. s.lobbies[d].status # "READY"
    BY <2>3 DEF Sound, Story
  <2>5. QED
    BY <2>2, <2>3, <2>4, LobbyFields
<1> HIDE DEF d
<1>2. QED
  BY <1>1 DEF maybeTopUpGlobalDefense, d

launched(s, l) == [s EXCEPT !.lobbies[l].attack.status = "LAUNCHED"]

LEMMA LaunchedRewrites ==
    ASSUME NEW s, Books(s), NEW l \in DOMAIN s.lobbies
    PROVE  /\ Rewrites(s, launched(s, l), l)
           /\ launched(s, l).lobbies[l].status = s.lobbies[l].status
           /\ launched(s, l).lobbies[l] = [s.lobbies[l] EXCEPT !.attack.status = "LAUNCHED"]
<1> DEFINE x == s.lobbies[l]
           y == [x EXCEPT !.attack.status = "LAUNCHED"]
<1>1. IsState(s) /\ x \in Lobby /\ Sound(x) /\ x.attack \in Attack
  BY StateFields, LobbyFields DEF Books
<1>2. launched(s, l) = [s EXCEPT !.lobbies[l] = y]
  BY <1>1 DEF launched, IsState, Lobby
<1>3. [x.attack EXCEPT !.status = "LAUNCHED"] \in Attack
  BY <1>1 DEF Attack
<1>4. y = [x EXCEPT !.attack = [x.attack EXCEPT !.status = "LAUNCHED"]]
  BY <1>1 DEF Lobby
<1> HIDE DEF x
<1>5. y \in Lobby /\ y.status = x.status /\ y.creator = x.creator
      /\ y.startPrizePool = x.startPrizePool /\ Quiet(x, y)
  <2>1. /\ y \in Lobby /\ y.status = x.status /\ y.creator = x.creator /\ y.seats = x.seats
        /\ y.config = x.config /\ y.ending = x.ending /\ y.outcome = x.outcome
        /\ y.creatorSettled = x.creatorSettled /\ SameSums(x, y)
    BY <1>1, <1>3, <1>4 DEF Lobby, SameSums
  <2>2. commissionOf(y) = commissionOf(x)
    BY <2>1 DEF commissionOf
  <2> HIDE DEF y
  <2>3. Seats(y)
    BY <1>1, <2>1, <2>2 DEF Sound, Seats
  <2>4. SameSeats(x, y)
    BY <2>1 DEF SameSeats
  <2>5. \A w \in Players : /\ y.seats[w].refunded = x.seats[w].refunded
                           /\ y.seats[w].payout = x.seats[w].payout
    BY <2>1
  <2>6. Quiet(x, y)
    BY <2>1, <2>3, <2>4, <2>5 DEF Quiet
  <2>7. y.creator = x.creator /\ y.startPrizePool = x.startPrizePool
    BY <2>1 DEF SameSums
  <2>8. QED
    BY <2>1, <2>6, <2>7
<1> HIDE DEF y
<1>6. Sound(y) /\ owed(y) = owed(x)
  BY <1>1, <1>5, QuietKeeps
<1>7. Rewrites(s, [s EXCEPT !.lobbies[l] = y], l)
  BY <1>1, <1>5, <1>6, WriteRewrites DEF x
<1>8. launched(s, l).lobbies[l] = y
  BY <1>1, <1>2, <1>5, WriteLobby
<1>9. QED
  BY <1>2, <1>5, <1>7, <1>8 DEF x, y

LEMMA ShareFits ==
    ASSUME NEW pool \in Nat, NEW W \in SUBSET Players
    PROVE  /\ shareOf(pool, W) \in Nat
           /\ W # {} => shareOf(pool, W) * Cardinality(W) <= pool
<1>1. CASE W = {}
  BY <1>1 DEF shareOf
<1>2. CASE W # {}
  <2>1. IsFiniteSet(W) /\ Cardinality(W) \in Nat
    BY PlayersFinite, FS_Subset, FS_CardinalityType
  <2>2. Cardinality(W) # 0
    BY <1>2, <2>1, FS_EmptySet
  <2> DEFINE n == Cardinality(W)
  <2>3. n \in Nat \ {0} /\ shareOf(pool, W) = pool \div n
    BY <1>2, <2>1, <2>2 DEF shareOf
  <2> HIDE DEF n
  <2>4. shareOf(pool, W) \in Nat /\ shareOf(pool, W) * n <= pool
    BY <2>3, DivFacts
  <2>5. QED
    BY <2>4 DEF n
<1>3. QED
  BY <1>1, <1>2

LEMMA PoolIsNatural ==
    ASSUME NEW x \in Lobby, Sound(x), x.ending = "NONE"
    PROVE  x.rewardPool \in Nat
BY LobbyFields, TotalsAreNatural, CreatorDueIsNatural DEF Sound, Pooled

judgedAt(x, b) ==
    [x EXCEPT
        !.attack.status = "RESOLVED",
        !.outcome = [ known |-> TRUE, winners |-> earliestHits(x),
                      rewardPerWinner |-> shareOf(x.rewardPool, earliestHits(x)),
                      resolvedAtBlock |-> b ],
        !.seats = [w \in Players |-> [x.seats[w] EXCEPT
                      !.payout = IF w \in earliestHits(x) THEN "PENDING" ELSE @]]]

resolved(x, b) ==
    LET j == judgedAt(x, b) IN
    IF ~played(x) THEN [j EXCEPT !.ending = "UNPLAYED", !.status = "CANCELLED"]
    ELSE IF earliestHits(x) # {} THEN [j EXCEPT !.ending = "COMPLETED", !.status = "RESOLVED"]
    ELSE [j EXCEPT !.ending = "COMPLETED", !.status = "RESOLVED", !.rewardPool = 0]

LEMMA JudgedFields ==
    ASSUME NEW x \in Lobby, Sound(x), x.status = "ACTIVE", NEW b \in Int,
           NEW y, y = judgedAt(x, b)
    PROVE  /\ y \in Lobby /\ SameSeats(x, y) /\ SameSums(x, y) /\ Seats(y)
           /\ y.status = x.status /\ y.creatorSettled = x.creatorSettled
           /\ y.outcome.winners = earliestHits(x)
           /\ y.outcome.rewardPerWinner = shareOf(x.rewardPool, earliestHits(x))
           /\ \A w \in Players : y.seats[w].payout # "PAID"
           /\ ~played(x) => earliestHits(x) = {} /\ y.seats = x.seats
<1> DEFINE W == earliestHits(x)
           seats == [w \in Players |-> [x.seats[w] EXCEPT !.payout = IF w \in W THEN "PENDING" ELSE @]]
           o == [ known |-> TRUE, winners |-> W, rewardPerWinner |-> shareOf(x.rewardPool, W),
                  resolvedAtBlock |-> b ]
           a == [x.attack EXCEPT !.status = "RESOLVED"]
<1>1. x.ending = "NONE" /\ Untouched(x) /\ Seats(x) /\ x.rewardPool \in Nat
  BY PoolIsNatural DEF Sound, Story
<1>2. W \in SUBSET Players
  BY DEF earliestHits, seated
<1>3. o \in Outcome /\ a \in Attack
  BY <1>1, <1>2, ShareFits, LobbyFields DEF Outcome, Attack
<1>4. \A w \in Players :
          /\ seats[w] \in Seat
          /\ seats[w].joined = x.seats[w].joined /\ seats[w].paidIn = x.seats[w].paidIn
          /\ seats[w].probesPaid = x.seats[w].probesPaid
          /\ seats[w].defendedAt = x.seats[w].defendedAt
          /\ seats[w].actions = x.seats[w].actions
          /\ seats[w].payout # "PAID"
          /\ w \notin W => seats[w] = x.seats[w]
  <2> TAKE w \in Players
  <2>1. x.seats[w] \in Seat /\ x.seats[w].payout # "PAID"
    BY <1>1, SeatFields DEF Untouched
  <2>2. seats[w] = [x.seats[w] EXCEPT !.payout = IF w \in W THEN "PENDING" ELSE @]
    OBVIOUS
  <2> HIDE DEF seats, W
  <2>3. QED
    BY <2>1, <2>2 DEF Seat
<1>5. seats \in [Players -> Seat]
  BY <1>4
<1>6. y = [x EXCEPT !.attack = a, !.outcome = o, !.seats = seats]
  BY DEF judgedAt, Lobby
<1> HIDE DEF a, o, seats, W
<1>7. /\ y \in Lobby /\ y.seats = seats /\ y.outcome = o /\ y.config = x.config
      /\ y.creator = x.creator /\ y.status = x.status /\ y.creatorSettled = x.creatorSettled
      /\ SameSums(x, y)
  BY <1>3, <1>5, <1>6, ZenonT(40) DEF Lobby, SameSums
<1>8. commissionOf(y) = commissionOf(x)
  BY <1>7 DEF commissionOf
<1>9. SameSeats(x, y)
  BY <1>4, <1>7 DEF SameSeats
<1>10. Seats(y)
  <2> SUFFICES ASSUME NEW w \in Players
               PROVE  /\ ~y.seats[w].joined => y.seats[w] = NoSeat
                      /\ y.seats[w].joined =>
                            y.seats[w].paidIn = y.config.entryPrice + commissionOf(y)
                                                + y.seats[w].probesPaid
                      /\ y.seats[w].defendedAt # 0 => y.seats[w].actions > 0
    BY DEF Seats
  <2>1. ~x.seats[w].joined => w \notin W
    BY DEF W, earliestHits, seated
  <2>2. QED
    BY <1>1, <1>4, <1>7, <1>8, <2>1 DEF Seats
<1>11. y.outcome.winners = W /\ y.outcome.rewardPerWinner = shareOf(x.rewardPool, W)
  BY <1>7 DEF o
<1>12. ASSUME ~played(x)
       PROVE  W = {} /\ y.seats = x.seats
  <2>1. W = {}
    <3>1. \A w \in seated(x) : x.seats[w].defendedAt = 0
      <4> TAKE w \in seated(x)
      <4>1. w \in Players /\ ~(x.seats[w].actions > 0)
        BY <1>12 DEF played, seated
      <4>2. QED
        BY <1>1, <4>1 DEF Seats
    <3>2. QED
      BY <3>1 DEF W, earliestHits
  <2>2. x.seats \in [Players -> Seat]
    BY LobbyFields
  <2>3. QED
    BY <1>4, <1>5, <1>7, <2>1, <2>2
<1>13. QED
  BY <1>4, <1>7, <1>9, <1>10, <1>11, <1>12 DEF W

LEMMA AttackRewrites ==
    ASSUME NEW s, Books(s), NEW l \in DOMAIN s.lobbies, s.lobbies[l].status = "ACTIVE"
    PROVE  /\ Rewrites(s, resolveAttack(s, l), l)
           /\ resolveAttack(s, l).lobbies[l] = resolved(s.lobbies[l], s.block)
<1> DEFINE x == s.lobbies[l]
           W == earliestHits(x)
           j == judgedAt(x, s.block)
           called == [j EXCEPT !.ending = "UNPLAYED", !.status = "CANCELLED"]
           won == [j EXCEPT !.ending = "COMPLETED", !.status = "RESOLVED"]
           lost == [j EXCEPT !.ending = "COMPLETED", !.status = "RESOLVED", !.rewardPool = 0]
           m == [s EXCEPT !.globalDefensePool = @ + x.rewardPool, !.lobbies[l] = lost]
<1>1. /\ IsState(s) /\ x \in Lobby /\ Sound(x) /\ x.ending = "NONE" /\ s.block \in Int
      /\ x.rewardPool \in Nat /\ s.globalDefensePool \in Nat /\ s.escrow \in Int
      /\ Untouched(x) /\ x.startPrizePool \in Nat
  <2>1. IsState(s) /\ x \in Lobby /\ Sound(x) /\ x.ending = "NONE" /\ Untouched(x)
    BY StateFields DEF Books, Sound, Story
  <2> HIDE DEF x
  <2>2. QED
    BY <2>1, StateFields, LobbyFields, PoolIsNatural
<1>2. resolveAttack(s, l) =
          IF ~played(x) THEN [s EXCEPT !.lobbies[l] = called]
          ELSE IF W # {} THEN [s EXCEPT !.lobbies[l] = won]
          ELSE maybeTopUpGlobalDefense(m)
  BY DEF resolveAttack, judgedAt
<1> HIDE DEF j, x
<1>3. /\ j \in Lobby /\ SameSeats(x, j) /\ SameSums(x, j) /\ Seats(j)
      /\ j.creatorSettled = x.creatorSettled /\ j.outcome.winners = W
      /\ j.outcome.rewardPerWinner = shareOf(x.rewardPool, W)
      /\ \A w \in Players : j.seats[w].payout # "PAID"
      /\ ~played(x) => W = {} /\ j.seats = x.seats
  BY <1>1, JudgedFields DEF j, x
<1> HIDE DEF W
<1>4. W \in SUBSET Players
  BY <1>3, LobbyFields
<1>5. /\ shareOf(x.rewardPool, W) \in Nat
      /\ W # {} => shareOf(x.rewardPool, W) * Cardinality(W) <= x.rewardPool
  BY <1>1, <1>4, ShareFits
<1>6. CASE ~played(x)
  <2>1. /\ called \in Lobby /\ called.status = "CANCELLED" /\ called.ending = "UNPLAYED"
        /\ called.seats = x.seats /\ called.config = x.config /\ called.creator = x.creator
        /\ called.outcome.winners = {} /\ called.creatorSettled = x.creatorSettled
        /\ SameSums(x, called)
    BY <1>3, <1>6 DEF Lobby, SameSeats, SameSums
  <2> HIDE DEF called
  <2>2. Sound(called) /\ owed(called) = owed(x)
    BY <1>1, <2>1, UnplayedOwes DEF x
  <2>3. Rewrites(s, [s EXCEPT !.lobbies[l] = called], l)
    BY <2>1, <2>2, WriteRewrites DEF x, SameSums
  <2>4. [s EXCEPT !.lobbies[l] = called].lobbies[l] = called
    BY <1>1, <2>1, WriteLobby
  <2>5. QED
    BY <1>2, <1>6, <2>3, <2>4 DEF called, j, x, resolved
<1>7. CASE played(x) /\ W # {}
  <2>1. /\ won \in Lobby /\ won.status = "RESOLVED" /\ won.ending = "COMPLETED"
        /\ won.seats = j.seats /\ won.config = j.config /\ won.creator = x.creator
        /\ won.outcome = j.outcome /\ won.creatorSettled = x.creatorSettled
        /\ SameSums(x, won)
    BY <1>3 DEF Lobby, SameSeats, SameSums
  <2> HIDE DEF won
  <2>2. SameSeats(x, won) /\ Seats(won) /\ \A w \in Players : won.seats[w].payout # "PAID"
    <3>1. SameSeats(x, won)
      BY <1>3, <2>1 DEF SameSeats
    <3>2. commissionOf(won) = commissionOf(j)
      BY <1>3, <2>1 DEF commissionOf, SameSeats
    <3>3. QED
      BY <1>3, <2>1, <3>1, <3>2 DEF Seats
  <2>3. Shared(won) /\ won.outcome.winners # {}
    BY <1>3, <1>5, <1>7, <2>1 DEF Shared, SameSums
  <2>4. Sound(won) /\ owed(won) = owed(x)
    <3>1. won.rewardPool = x.rewardPool - 0
      BY <1>1, <2>1 DEF SameSums
    <3>2. Sound(won) /\ owed(won) = owed(x) - 0
      BY <1>1, <2>1, <2>2, <2>3, <3>1, CompletedOwes DEF SameSums, x
    <3>3. QED
      BY <1>1, <3>2, OwedIsInt
  <2>5. Rewrites(s, [s EXCEPT !.lobbies[l] = won], l)
    BY <2>1, <2>4, WriteRewrites DEF x, SameSums
  <2>6. [s EXCEPT !.lobbies[l] = won].lobbies[l] = won
    BY <1>1, <2>1, WriteLobby
  <2>7. QED
    BY <1>2, <1>7, <2>5, <2>6 DEF won, j, x, W, resolved
<1>8. CASE played(x) /\ W = {}
  <2>1. /\ lost \in Lobby /\ lost.status = "RESOLVED" /\ lost.ending = "COMPLETED"
        /\ lost.seats = j.seats /\ lost.config = j.config /\ lost.creator = x.creator
        /\ lost.outcome = j.outcome /\ lost.creatorSettled = x.creatorSettled
        /\ lost.rewardPool = 0
        /\ lost.startPrizePool = x.startPrizePool
        /\ lost.entryFeesCollected = x.entryFeesCollected
        /\ lost.creatorFeeAccrued = x.creatorFeeAccrued
        /\ lost.protocolFeeAccrued = x.protocolFeeAccrued
    <3>1. lost \in Lobby /\ lost.status = "RESOLVED" /\ lost.ending = "COMPLETED"
      <4> DEFINE none == 0
      <4>1. none \in Int
        OBVIOUS
      <4>2. lost = [j EXCEPT !.ending = "COMPLETED", !.status = "RESOLVED", !.rewardPool = none]
        OBVIOUS
      <4> HIDE DEF none, lost
      <4>3. QED
        BY <1>3, <4>1, <4>2 DEF Lobby
    <3>2. /\ lost.seats = j.seats /\ lost.config = j.config /\ lost.creator = j.creator
          /\ lost.outcome = j.outcome /\ lost.creatorSettled = j.creatorSettled
          /\ lost.rewardPool = 0 /\ lost.startPrizePool = j.startPrizePool
      BY <1>3 DEF Lobby
    <3>3. /\ lost.entryFeesCollected = j.entryFeesCollected
          /\ lost.creatorFeeAccrued = j.creatorFeeAccrued
          /\ lost.protocolFeeAccrued = j.protocolFeeAccrued
      BY <1>3 DEF Lobby
    <3> HIDE DEF lost
    <3>4. QED
      BY <1>3, <3>1, <3>2, <3>3 DEF SameSeats, SameSums
  <2> DEFINE p == [s EXCEPT !.globalDefensePool = s.globalDefensePool + x.rewardPool]
  <2>2. m = [p EXCEPT !.lobbies[l] = lost]
    BY <1>1 DEF IsState
  <2> HIDE DEF m, lost
  <2>3. SameSeats(x, lost) /\ Seats(lost) /\ \A w \in Players : lost.seats[w].payout # "PAID"
    <3>1. SameSeats(x, lost)
      BY <1>3, <2>1 DEF SameSeats
    <3>2. commissionOf(lost) = commissionOf(j)
      BY <1>3, <2>1 DEF commissionOf, SameSeats
    <3>3. QED
      BY <1>3, <2>1, <3>1, <3>2 DEF Seats
  <2>4. Shared(lost) /\ lost.outcome.winners = {}
    BY <1>3, <1>8, <2>1 DEF Shared
  <2>5. Sound(lost) /\ owed(lost) = owed(x) - x.rewardPool
    <3>1. lost.rewardPool = x.rewardPool - x.rewardPool
      BY <1>1, <2>1
    <3>2. QED
      BY <1>1, <2>1, <2>3, <2>4, <3>1, CompletedOwes DEF x
  <2>6. /\ IsState(p) /\ Alike(s, p) /\ p.lobbies = s.lobbies /\ p.escrow = s.escrow
        /\ p.globalDefensePool = s.globalDefensePool + x.rewardPool
    <3>1. s.globalDefensePool + x.rewardPool \in Nat
      BY <1>1
    <3>2. QED
      BY <1>1, <3>1, PoolFields
  <2> HIDE DEF p
  <2>7. /\ IsState(m) /\ Alike(p, m)
        /\ m.escrow = p.escrow /\ m.globalDefensePool = p.globalDefensePool
        /\ DOMAIN m.lobbies = DOMAIN p.lobbies /\ m.lobbies[l] = lost
        /\ \A k \in DOMAIN p.lobbies : k # l => m.lobbies[k] = p.lobbies[k]
    BY <2>1, <2>2, <2>6, WriteLobby
  <2>8. Rewrites(s, m, l)
    <3>1. GoesOn(s, m, l)
      BY <1>1, <2>1, <2>7 DEF GoesOn, x
    <3>2. ~(m.globalDefensePool < s.globalDefensePool)
      BY <1>1, <2>6, <2>7
    <3>3. m.escrow - m.globalDefensePool - owed(lost)
              = s.escrow - s.globalDefensePool - owed(x)
      BY <1>1, <2>5, <2>6, <2>7, OwedIsInt
    <3>4. QED
      BY <2>5, <2>6, <2>7, <3>1, <3>2, <3>3 DEF Rewrites, Alike, x
  <2>9. maybeTopUpGlobalDefense(m) = m
    <3> HIDE DEF x
    <3>1. Books(m)
      BY <2>8, RewritesKeeps
    <3>2. QED
      BY <3>1, TopUpIsIdle
  <2>10. QED
    BY <1>2, <1>8, <2>7, <2>8, <2>9 DEF lost, j, x, W, resolved
<1>9. QED
  BY <1>6, <1>7, <1>8

(* What a reading or a write makes of the whole chain.                     *)
Onward(s, t) == Books(t) /\ Leads(s, t) /\ DOMAIN t.lobbies = DOMAIN s.lobbies

LEMMA OnwardIsKept ==
    ASSUME NEW s, NEW t, NEW u, Books(s), Onward(s, t), Onward(t, u)
    PROVE  Onward(s, u)
BY LeadsOn DEF Onward

LEMMA RewritesGoOnward ==
    ASSUME NEW s, Books(s), NEW l \in DOMAIN s.lobbies, NEW t, Rewrites(s, t, l)
    PROVE  Onward(s, t)
BY RewritesKeeps DEF Onward, Rewrites

LEMMA SettlingKeeps ==
    ASSUME NEW s, Books(s), NEW l \in DOMAIN s.lobbies
    PROVE  Onward(s, settleLobby(s, l))
<1> DEFINE b == begun(s, l)
           f == launched(b, l)
           r == resolveAttack(f, l)
<1>1. Onward(s, b)
  BY BegunRewrites, RewritesGoOnward
<1>2. settleLobby(s, l) = advanceAttack(b, l)
  BY DEF settleLobby, begun
<1> HIDE DEF b
<1>3. Books(b) /\ l \in DOMAIN b.lobbies
  BY <1>1 DEF Onward
<1>4. Onward(b, b)
  BY <1>3, NothingLeads DEF Onward
<1>5. /\ Onward(b, f) /\ f.lobbies[l].status = b.lobbies[l].status
      /\ Books(f) /\ l \in DOMAIN f.lobbies
  <2>1. Onward(b, f) /\ f.lobbies[l].status = b.lobbies[l].status
    BY <1>3, LaunchedRewrites, RewritesGoOnward
  <2> HIDE DEF f
  <2>2. QED
    BY <1>3, <2>1 DEF Onward
<1>6. advanceAttack(b, l) = IF b.lobbies[l].status # "ACTIVE" THEN b
                            ELSE IF b.block >= b.lobbies[l].attack.impactBlock THEN r
                            ELSE IF b.block >= b.lobbies[l].attack.launchBlock THEN f
                            ELSE b
  BY DEF advanceAttack, launched
<1> HIDE DEF f
<1>7. ASSUME b.lobbies[l].status = "ACTIVE"
      PROVE  Onward(b, r)
  <2>1. Onward(f, r)
    BY <1>5, <1>7, AttackRewrites, RewritesGoOnward
  <2> HIDE DEF r
  <2>2. QED
    BY <1>3, <1>5, <2>1, OnwardIsKept
<1> HIDE DEF r
<1>8. Onward(b, advanceAttack(b, l))
  BY <1>4, <1>5, <1>6, <1>7
<1>9. QED
  BY <1>1, <1>2, <1>8, OnwardIsKept

-----------------------------------------------------------------------------
(* settleAll: as many of them as there are operations, one after another.  *)

IsRun(h, s, n) ==
    h = [l \in 0 .. n |-> IF l = 0 THEN s ELSE settleLobby(h[l - 1], l)]

LEMMA RunExists ==
    ASSUME NEW s, NEW n \in Nat
    PROVE  \E h : IsRun(h, s, n)
<1> DEFINE Bad == {0 .. k : k \in {j \in 0 .. n : ~\E h : IsRun(h, s, j)}}
<1> SUFFICES ASSUME ~\E h : IsRun(h, s, n) PROVE FALSE
  OBVIOUS
<1>1. Bad # {} /\ Bad \in SUBSET SUBSET (0 .. n)
  OBVIOUS
<1>2. IsFiniteSet(0 .. n)
  BY FS_Interval
<1>3. PICK T \in Bad : \A U \in SUBSET T : U # T => U \notin Bad
  <2> HIDE DEF Bad
  <2> QED BY <1>1, <1>2, SmallestBadSet
<1>4. PICK k \in 0 .. n : T = 0 .. k /\ ~\E h : IsRun(h, s, k)
  BY <1>3
<1>5. CASE k = 0
  <2> DEFINE h == [l \in 0 .. 0 |-> s]
  <2>1. h = [l \in 0 .. 0 |-> IF l = 0 THEN s ELSE settleLobby(h[l - 1], l)]
    OBVIOUS
  <2>2. QED
    BY <1>4, <1>5, <2>1 DEF IsRun
<1>6. CASE k # 0
  <2>1. k - 1 \in 0 .. n /\ k \in Nat
    BY <1>4, <1>6
  <2>2. 0 .. (k - 1) \in SUBSET T /\ 0 .. (k - 1) # T
    <3>1. k \in 0 .. k /\ k \notin 0 .. (k - 1)
      BY <2>1
    <3>2. QED
      BY <1>4, <2>1, <3>1
  <2>3. 0 .. (k - 1) \notin Bad
    BY <1>3, <2>2
  <2>4. PICK h : IsRun(h, s, k - 1)
    BY <2>1, <2>3
  <2> DEFINE g == [l \in 0 .. k |-> IF l = k THEN settleLobby(h[k - 1], k) ELSE h[l]]
  <2>5. ASSUME NEW l \in 0 .. k
        PROVE  g[l] = IF l = 0 THEN s ELSE settleLobby(g[l - 1], l)
    <3>1. l # 0 => l - 1 \in 0 .. (k - 1)
      BY <1>6, <2>1, <2>5
    <3>2. l # 0 => g[l - 1] = h[l - 1]
      BY <2>1, <3>1
    <3>3. l # k => l \in 0 .. (k - 1)
      BY <2>1
    <3>4. l # k => h[l] = IF l = 0 THEN s ELSE settleLobby(h[l - 1], l)
      BY <2>4, <3>3 DEF IsRun
    <3>5. g[l] = IF l = k THEN settleLobby(h[k - 1], k) ELSE h[l]
      OBVIOUS
    <3> HIDE DEF g
    <3>6. QED
      BY <1>6, <3>2, <3>4, <3>5
  <2>6. g = [l \in 0 .. k |-> g[l]]
    OBVIOUS
  <2> HIDE DEF g
  <2>7. g = [l \in 0 .. k |-> IF l = 0 THEN s ELSE settleLobby(g[l - 1], l)]
    BY <2>5, <2>6
  <2>8. QED
    BY <1>4, <2>7 DEF IsRun
<1>7. QED
  BY <1>5, <1>6

LEMMA RunKeeps ==
    ASSUME NEW s, Books(s), NEW h, IsRun(h, s, Len(s.lobbies))
    PROVE  Onward(s, h[Len(s.lobbies)])
<1> DEFINE n == Len(s.lobbies)
           Bad == {0 .. k : k \in {j \in 0 .. n : ~Onward(s, h[j])}}
<1> SUFFICES ASSUME ~Onward(s, h[n]) PROVE FALSE
  OBVIOUS
<1>1. n \in Nat /\ DOMAIN s.lobbies = 1 .. n
  BY StateFields DEF Books
<1>2. IsRun(h, s, n)
  OBVIOUS
<1> HIDE DEF n
<1>3. Bad # {} /\ Bad \in SUBSET SUBSET (0 .. n)
  BY <1>1
<1>4. IsFiniteSet(0 .. n)
  BY <1>1, FS_Interval
<1>5. PICK T \in Bad : \A U \in SUBSET T : U # T => U \notin Bad
  <2> HIDE DEF Bad
  <2> QED BY <1>3, <1>4, SmallestBadSet
<1>6. PICK k \in 0 .. n : T = 0 .. k /\ ~Onward(s, h[k])
  BY <1>5
<1>7. h[k] = IF k = 0 THEN s ELSE settleLobby(h[k - 1], k)
  BY <1>2, <1>6 DEF IsRun
<1>8. k # 0
  BY <1>6, <1>7, NothingLeads DEF Onward
<1>9. k - 1 \in 0 .. n /\ k \in Nat /\ k \in 1 .. n
  BY <1>1, <1>6, <1>8
<1>10. 0 .. (k - 1) \in SUBSET T /\ 0 .. (k - 1) # T
  <2>1. k \in 0 .. k /\ k \notin 0 .. (k - 1)
    BY <1>9
  <2>2. QED
    BY <1>6, <1>9, <2>1
<1>11. 0 .. (k - 1) \notin Bad
  BY <1>5, <1>10
<1>12. Onward(s, h[k - 1])
  BY <1>9, <1>11
<1>13. Onward(h[k - 1], h[k])
  BY <1>1, <1>7, <1>8, <1>9, <1>12, SettlingKeeps DEF Onward
<1>14. QED
  BY <1>6, <1>12, <1>13, OnwardIsKept

LEMMA SettlingAllKeeps ==
    ASSUME NEW s, Books(s)
    PROVE  Onward(s, settleAll(s))
<1> DEFINE h == CHOOSE g : IsRun(g, s, Len(s.lobbies))
<1>1. settleAll(s) = h[Len(s.lobbies)]
  BY DEF settleAll, IsRun
<1>2. Len(s.lobbies) \in Nat
  BY StateFields DEF Books
<1>3. IsRun(h, s, Len(s.lobbies))
  BY <1>2, RunExists
<1> HIDE DEF h
<1>4. QED
  BY <1>1, <1>3, RunKeeps

-----------------------------------------------------------------------------
(* The sums over operations are totals.                                    *)

prizes(s) == [l \in DOMAIN s.lobbies |-> s.lobbies[l].startPrizePool]

LEMMA PrizesTotal ==
    ASSUME NEW s, NEW D \in SUBSET DOMAIN s.lobbies, IsFiniteSet(D)
    PROVE  MapThenSumSet(LAMBDA l : s.lobbies[l].startPrizePool, D) = Total(prizes(s), D)
<1> DEFINE Folds(h) ==
              h = [u \in SUBSET D |->
                      IF u = {} THEN 0
                      ELSE s.lobbies[someOf(u)].startPrizePool + h[u \ {someOf(u)}]]
           g == CHOOSE h : Folds(h)
<1>1. MapThenSumSet(LAMBDA l : s.lobbies[l].startPrizePool, D) = g[D]
  BY DEF MapThenSumSet, MapThenFoldSet, someOf
<1>2. ASSUME NEW h
      PROVE  Folds(h) <=> IsTally(h, prizes(s), D)
  <2>1. ASSUME NEW u \in SUBSET D, u # {}
        PROVE  prizes(s)[someOf(u)] = s.lobbies[someOf(u)].startPrizePool
    BY <2>1, SomeOf DEF prizes
  <2>2. [u \in SUBSET D |->
            IF u = {} THEN 0
            ELSE s.lobbies[someOf(u)].startPrizePool + h[u \ {someOf(u)}]]
        = [u \in SUBSET D |->
            IF u = {} THEN 0 ELSE prizes(s)[someOf(u)] + h[u \ {someOf(u)}]]
    BY <2>1
  <2>3. QED
    BY <2>2 DEF IsTally
<1> HIDE DEF Folds
<1>3. Folds(g)
  <2>1. \E h : Folds(h)
    BY <1>2, TallyExists
  <2>2. QED
    BY <2>1
<1> HIDE DEF g
<1>4. QED
  BY <1>1, <1>2, <1>3, TallyIsTotal

LEMMA DuesTotal ==
    ASSUME NEW s, NEW D, D = DOMAIN s.lobbies, IsFiniteSet(D)
    PROVE  MapThenSumSet(LAMBDA l : owed(s.lobbies[l]), D) = Total(dues(s), D)
<1> DEFINE Folds(h) ==
              h = [u \in SUBSET D |->
                      IF u = {} THEN 0
                      ELSE owed(s.lobbies[someOf(u)]) + h[u \ {someOf(u)}]]
           g == CHOOSE h : Folds(h)
<1>1. MapThenSumSet(LAMBDA l : owed(s.lobbies[l]), D) = g[D]
  BY DEF MapThenSumSet, MapThenFoldSet, someOf
<1>2. ASSUME NEW h
      PROVE  Folds(h) <=> IsTally(h, dues(s), D)
  <2>1. ASSUME NEW u \in SUBSET D, u # {}
        PROVE  dues(s)[someOf(u)] = owed(s.lobbies[someOf(u)])
    BY <2>1, SomeOf DEF dues
  <2>2. [u \in SUBSET D |->
            IF u = {} THEN 0 ELSE owed(s.lobbies[someOf(u)]) + h[u \ {someOf(u)}]]
        = [u \in SUBSET D |->
            IF u = {} THEN 0 ELSE dues(s)[someOf(u)] + h[u \ {someOf(u)}]]
    BY <2>1
  <2>3. QED
    BY <2>2 DEF IsTally
<1> HIDE DEF Folds
<1>3. Folds(g)
  <2>1. \E h : Folds(h)
    BY <1>2, TallyExists
  <2>2. QED
    BY <2>1
<1> HIDE DEF g
<1>4. QED
  BY <1>1, <1>2, <1>3, TallyIsTotal

-----------------------------------------------------------------------------
(* A draw called off gives the pool its bounty back.                       *)

givenBack(s) ==
    [l \in DOMAIN s.lobbies |-> [s.lobbies[l] EXCEPT !.creatorSettled = @ \/ l \in homeless(s)]]

LEMMA GivenBackOwes ==
    ASSUME NEW s, Books(s), NEW l \in DOMAIN s.lobbies,
           NEW x, x = s.lobbies[l], NEW y, y = givenBack(s)[l]
    PROVE  /\ y \in Lobby /\ Sound(y) /\ y.creator = x.creator /\ y.status = x.status
           /\ y.startPrizePool = x.startPrizePool
           /\ owed(x) = owed(y) + IF l \in homeless(s) THEN x.startPrizePool ELSE 0
<1>1. x \in Lobby /\ Sound(x) /\ x.startPrizePool \in Nat /\ owed(x) \in Int
      /\ x.creatorSettled \in BOOLEAN
  BY StateFields, LobbyFields, OwedIsInt DEF Books
<1>2. y = [x EXCEPT !.creatorSettled = @ \/ l \in homeless(s)]
  BY DEF givenBack
<1>3. CASE l \notin homeless(s)
  <2>1. y = [x EXCEPT !.creatorSettled = x.creatorSettled]
    BY <1>1, <1>2, <1>3 DEF Lobby
  <2>2. y = x
    BY <1>1, <2>1 DEF Lobby
  <2>3. QED
    BY <1>1, <1>3, <2>2
<1>4. CASE l \in homeless(s)
  <2>1. /\ y \in Lobby /\ y.creatorSettled /\ y.seats = x.seats /\ y.config = x.config
        /\ y.creator = x.creator /\ y.status = x.status /\ y.ending = x.ending
        /\ y.outcome = x.outcome /\ SameSums(x, y)
    BY <1>1, <1>2, <1>4, ZenonT(40) DEF Lobby, SameSums
  <2>2. ~x.creatorSettled /\ x.ending = "UNPLAYED"
    <3>1. ~x.creatorSettled /\ x.ending \in {"UNPLAYED", "CANCELLED"}
      BY <1>4 DEF homeless
    <3>2. QED
      BY <1>1, <3>1, LobbyFields
  <2>3. SameSeats(x, y)
    BY <2>1 DEF SameSeats
  <2>4. commissionOf(y) = commissionOf(x)
    BY <2>1 DEF commissionOf
  <2>5. Seats(y)
    BY <1>1, <2>1, <2>4 DEF Sound, Seats
  <2>6. SameEnding(x, y)
    BY <2>1, <2>3, <2>5 DEF SameEnding
  <2>7. Sound(y) /\ owed(y) = owed(x) - creatorDue(x)
    BY <1>1, <2>1, <2>2, <2>6, SettledOwes
  <2>8. creatorDue(x) = x.startPrizePool
    BY <2>2 DEF creatorDue, refundable
  <2>9. QED
    BY <1>1, <1>4, <2>1, <2>7, <2>8 DEF SameSums
<1>5. QED
  BY <1>3, <1>4

LEMMA GivingBackKeeps ==
    ASSUME NEW s, Books(s)
    PROVE  Onward(s, maybeSettleProtocolDraws(s))
<1> DEFINE D == DOMAIN s.lobbies
           H == homeless(s)
           ys == givenBack(s)
           given == Total(prizes(s), H)
           P == s.globalDefensePool + given
           t == maybeSettleProtocolDraws(s)
           toPool == [l \in D |-> IF l \in H THEN prizes(s)[l] ELSE 0]
<1>1. /\ IsState(s) /\ IsFiniteSet(D) /\ s.globalDefensePool \in Nat /\ s.escrow \in Int
      /\ s.lobbies \in Seq(Lobby) /\ D = 1 .. Len(s.lobbies) /\ Len(s.lobbies) \in Nat
      /\ s.escrow = s.globalDefensePool + Total(dues(s), D)
  BY StateFields, DuesFacts DEF Books
<1>2. H \in SUBSET D /\ IsFiniteSet(H)
  <2>1. H \in SUBSET D
    BY DEF homeless
  <2>2. QED
    BY <1>1, <2>1, FS_Subset
<1>3. \A l \in D : prizes(s)[l] \in Nat /\ prizes(s)[l] = s.lobbies[l].startPrizePool
  BY <1>1, StateFields, LobbyFields DEF prizes
<1>4. given \in Nat /\ P \in Nat /\ s.globalDefensePool <= P
  <2>1. given \in Nat
    BY <1>2, <1>3, TotalNonNegative
  <2> HIDE DEF given
  <2>2. QED
    BY <1>1, <2>1
<1>5. Total(toPool, D) = given
  <2>1. \A l \in D : toPool[l] \in Int
    BY <1>3
  <2>2. \A l \in D \ H : toPool[l] = 0
    OBVIOUS
  <2>3. \A l \in H : toPool[l] = prizes(s)[l]
    BY <1>2
  <2> HIDE DEF toPool, D, H
  <2>4. Total(toPool, D) = Total(toPool, H)
    BY <1>1, <1>2, <2>1, <2>2, TotalIgnoresZeros, ZenonT(40)
  <2>5. QED
    BY <1>2, <2>3, <2>4, TotalOfEqual
<1>6. t = [s EXCEPT !.globalDefensePool = P, !.lobbies = ys]
  <2>1. MapThenSumSet(LAMBDA l : s.lobbies[l].startPrizePool, H) = given
    BY <1>2, PrizesTotal
  <2>2. QED
    BY <1>1, <2>1 DEF maybeSettleProtocolDraws, givenBack, IsState
<1>7. \A l \in D : /\ ys[l] \in Lobby /\ Sound(ys[l]) /\ ys[l].creator = s.lobbies[l].creator
                   /\ ys[l].status = s.lobbies[l].status
                   /\ ys[l].startPrizePool = s.lobbies[l].startPrizePool
                   /\ owed(s.lobbies[l]) = owed(ys[l]) + toPool[l]
                   /\ toPool[l] \in Int /\ owed(ys[l]) \in Int
                   /\ s.lobbies[l].startPrizePool \in Nat
  <2> TAKE l \in D
  <2>1. toPool[l] = IF l \in homeless(s) THEN s.lobbies[l].startPrizePool ELSE 0
    BY <1>3
  <2>2. toPool[l] \in Int /\ s.lobbies[l].startPrizePool \in Nat
    BY <1>3
  <2> HIDE DEF toPool
  <2>3. QED
    BY <2>1, <2>2, GivenBackOwes, OwedIsInt
<1>8. ys \in Seq(Lobby) /\ DOMAIN ys = D
  <2>1. DOMAIN ys = D /\ ys = [l \in 1 .. Len(s.lobbies) |-> ys[l]]
    BY <1>1 DEF givenBack
  <2>2. \A l \in 1 .. Len(s.lobbies) : ys[l] \in Lobby
    BY <1>1, <1>7
  <2> HIDE DEF ys, D
  <2>3. ys \in [1 .. Len(s.lobbies) -> Lobby]
    BY <2>1, <2>2
  <2>4. QED
    BY <1>1, <2>1, <2>3
<1> HIDE DEF P, t, ys
<1>9. /\ IsState(t) /\ t.lobbies = ys /\ t.escrow = s.escrow /\ t.globalDefensePool = P
      /\ t.globalDefenseLobby = s.globalDefenseLobby
  <2>1. t = [ limits |-> s.limits, block |-> s.block, wallet |-> s.wallet,
              escrow |-> s.escrow, globalDefensePool |-> P,
              globalDefenseLobby |-> s.globalDefenseLobby, lobbies |-> ys ]
    BY <1>1, <1>6 DEF IsState
  <2>2. QED
    BY <1>1, <1>4, <1>8, <2>1 DEF IsState
<1>10. Total(dues(s), D) = Total(dues(t), D) + given
  <2>1. \A l \in D : /\ dues(t)[l] \in Int /\ toPool[l] \in Int
                     /\ dues(s)[l] = dues(t)[l] + toPool[l]
    BY <1>7, <1>8, <1>9 DEF dues
  <2> HIDE DEF toPool, D, given
  <2>2. Total(dues(s), D) = Total(dues(t), D) + Total(toPool, D)
    BY <1>1, <2>1, TotalSplits
  <2>3. QED
    BY <1>5, <2>2
<1>11. Books(t)
  <2>1. Booked(t)
    BY <1>7, <1>8, <1>9 DEF Books, Booked
  <2>2. Total(dues(t), D) \in Int
    <3>1. \A l \in D : dues(t)[l] \in Int
      BY <1>7, <1>8, <1>9 DEF dues
    <3>2. QED
      BY <1>1, <3>1, TotalIsInt
  <2>3. t.escrow = t.globalDefensePool + Total(dues(t), DOMAIN t.lobbies)
    <3> HIDE DEF D, given
    <3>1. DOMAIN t.lobbies = D
      BY <1>8, <1>9
    <3>2. QED
      BY <1>1, <1>4, <1>9, <1>10, <2>2, <3>1 DEF P
  <2>4. QED
    BY <1>7, <1>8, <1>9, <2>1, <2>3 DEF Books
<1>12. Leads(s, t)
  <2>1. \A l \in D : GoesOn(s, t, l)
    <3> TAKE l \in D
    <3> HIDE DEF toPool, D
    <3>1. QED
      BY <1>7, <1>9 DEF GoesOn
  <2>2. ~(t.globalDefensePool < s.globalDefensePool)
    BY <1>1, <1>4, <1>9
  <2>3. QED
    BY <1>8, <1>9, <2>1, <2>2 DEF Leads
<1>13. QED
  BY <1>8, <1>9, <1>11, <1>12 DEF Onward, t

-----------------------------------------------------------------------------
(* An operation opened.                                                    *)

(* An operation nobody has joined yet.                                     *)
fresh(creator, config, d, now, e, fee, b) ==
    [ creator |-> creator, status |-> "OPEN", ending |-> "NONE", config |-> config,
      deadlineBlock |-> d, createdAtBlock |-> now, participantCount |-> 0,
      seats |-> [w \in Players |-> NoSeat], currentEpochId |-> e, attack |-> NoAttack,
      outcome |-> NoOutcome, revealed |-> FALSE, startPrizePool |-> config.prizePool,
      entryFeesCollected |-> 0, creatorFeeAccrued |-> 0, protocolFeeAccrued |-> fee,
      rewardPool |-> config.prizePool, creatorSettled |-> FALSE, drawBounty |-> b ]

LEMMA FreshOwes ==
    ASSUME NEW creator \in Players \cup {Protocol}, NEW config \in Config,
           NEW d, NEW now, NEW e, NEW fee, NEW b,
           d \in Int /\ now \in Int /\ e \in Int /\ fee \in Nat /\ b \in Int,
           NEW x, x = fresh(creator, config, d, now, e, fee, b)
    PROVE  /\ x \in Lobby /\ Sound(x) /\ x.creator = creator
           /\ owed(x) = config.prizePool + fee /\ config.prizePool \in Nat
<1> DEFINE seats == [w \in Players |-> NoSeat]
           zero == 0
           prize == config.prizePool
<1>1. prize \in Nat /\ zero \in Int
  BY DEF Config
<1>2. NoSeat \in Seat /\ NoAttack \in Attack /\ NoOutcome \in Outcome
  BY DEF NoSeat, NoAttack, NoOutcome, Seat, Attack, Outcome
<1>3. seats \in [Players -> Seat]
  BY <1>2
<1>4. x = [ creator |-> creator, status |-> "OPEN", ending |-> "NONE", config |-> config,
            deadlineBlock |-> d, createdAtBlock |-> now, participantCount |-> zero,
            seats |-> seats, currentEpochId |-> e, attack |-> NoAttack,
            outcome |-> NoOutcome, revealed |-> FALSE, startPrizePool |-> prize,
            entryFeesCollected |-> zero, creatorFeeAccrued |-> zero,
            protocolFeeAccrued |-> fee, rewardPool |-> prize,
            creatorSettled |-> FALSE, drawBounty |-> b ]
  BY DEF fresh
<1> HIDE DEF seats, zero, prize
<1>5. x \in Lobby
  BY <1>1, <1>2, <1>3, <1>4 DEF Lobby
<1>6. /\ x.creator = creator /\ x.status = "OPEN" /\ x.ending = "NONE" /\ x.seats = seats
      /\ x.startPrizePool = prize /\ x.rewardPool = prize
      /\ x.entryFeesCollected = 0 /\ x.creatorFeeAccrued = 0 /\ x.protocolFeeAccrued = fee
      /\ ~x.creatorSettled /\ x.outcome = NoOutcome
  BY <1>4 DEF zero
<1>7. \A w \in Players : x.seats[w] = NoSeat
  BY <1>6 DEF seats
<1>8. Seats(x) /\ Untouched(x)
  BY <1>6, <1>7 DEF Seats, Untouched, NoSeat
<1>9. Story(x)
  BY <1>6 DEF Story, NoOutcome
<1>10. \A w \in Players : probesBy(x)[w] = 0 /\ entryBy(x)[w] = 0 /\ feeBy(x)[w] = 0
  <2> TAKE w \in Players
  <2>1. ~x.seats[w].joined /\ x.seats[w].probesPaid = 0
    BY <1>7 DEF NoSeat
  <2>2. QED
    BY <1>5, <2>1, MoneyOfASeat
<1>11. /\ Total(probesBy(x), Players) = 0 /\ Total(entryBy(x), Players) = 0
       /\ Total(feeBy(x), Players) = 0
  BY <1>10, PlayersFinite, TotalOfZeros
<1>12. Sound(x)
  <2>1. Pooled(x)
    BY <1>1, <1>6, <1>11 DEF Pooled
  <2>2. QED
    BY <1>6, <1>8, <1>9, <1>11, <2>1 DEF Sound
<1>13. owed(x) = prize + fee
  <2>1. owed(x) = x.protocolFeeAccrued + x.rewardPool + x.creatorFeeAccrued
                  + IF x.status = "OPEN" THEN x.entryFeesCollected ELSE 0
    BY <1>5, <1>6, OwedForms
  <2>2. owed(x) = fee + prize + 0 + 0
    BY <1>6, <2>1
  <2>3. QED
    BY <1>1, <2>2
<1>14. QED
  BY <1>1, <1>5, <1>6, <1>12, <1>13 DEF prize

opened(s, creator, config, d, e, b) ==
    [newLobby(s, creator, config, d, e) EXCEPT !.drawBounty = b]

LEMMA NewLobbyOwes ==
    ASSUME NEW s, IsState(s), NEW creator \in Players \cup {Protocol}, NEW config \in Config,
           NEW d, NEW e, NEW b, d \in Int /\ e \in Int /\ b \in Int,
           NEW x, x = opened(s, creator, config, d, e, b)
    PROVE  /\ x \in Lobby /\ Sound(x) /\ x.creator = creator
           /\ owed(x) = config.prizePool + (IF creator = Protocol THEN 0 ELSE s.limits.joinFee)
           /\ config.prizePool \in Nat /\ s.limits.joinFee \in Nat
<1> DEFINE fee == IF creator = Protocol THEN 0 ELSE s.limits.joinFee
           now == s.block
<1>1. s.limits.joinFee \in Nat /\ fee \in Nat /\ now \in Int
  BY StateFields DEF ProtocolLimits
<1>2. x = fresh(creator, config, d, now, e, fee, b)
  BY ZenonT(40) DEF opened, newLobby, fresh
<1> HIDE DEF fee, now
<1>3. /\ x \in Lobby /\ Sound(x) /\ x.creator = creator
      /\ owed(x) = config.prizePool + fee /\ config.prizePool \in Nat
  BY <1>1, <1>2, FreshOwes
<1>4. QED
  BY <1>1, <1>3 DEF fee

LEMMA NewDrawOwes ==
    ASSUME NEW s, IsState(s), NEW config \in Config, config.prizePool = 0,
           NEW d, NEW e, NEW b, d \in Int /\ e \in Int /\ b \in Int,
           NEW x, x = opened(s, Protocol, config, d, e, b)
    PROVE  x \in Lobby /\ Sound(x) /\ x.creator = Protocol /\ owed(x) = 0
<1> DEFINE creator == Protocol
<1>1. creator \in Players \cup {Protocol} /\ creator = Protocol
  OBVIOUS
<1>2. x = opened(s, creator, config, d, e, b)
  OBVIOUS
<1> HIDE DEF creator
<1>3. /\ x \in Lobby /\ Sound(x) /\ x.creator = creator
      /\ owed(x) = config.prizePool + (IF creator = Protocol THEN 0 ELSE s.limits.joinFee)
  BY <1>1, <1>2, NewLobbyOwes
<1>4. QED
  BY <1>1, <1>3

LEMMA OpeningKeeps ==
    ASSUME NEW s, Books(s), NEW y \in Lobby, Sound(y), NEW t, IsState(t), Booked(t),
           t.lobbies = Append(s.lobbies, y),
           t.globalDefensePool = s.globalDefensePool,
           t.escrow = s.escrow + owed(y)
    PROVE  Books(t) /\ Leads(s, t)
<1> DEFINE D == DOMAIN s.lobbies
           n == Len(s.lobbies)
<1>1. /\ IsState(s) /\ n \in Nat /\ D = 1 .. n /\ IsFiniteSet(D) /\ s.lobbies \in Seq(Lobby)
      /\ s.globalDefensePool \in Nat /\ s.escrow \in Int /\ Total(dues(s), D) \in Int
      /\ s.escrow = s.globalDefensePool + Total(dues(s), D)
  BY StateFields, DuesFacts DEF Books
<1>2. /\ DOMAIN t.lobbies = D \cup {n + 1} /\ n + 1 \notin D /\ t.lobbies[n + 1] = y
      /\ \A k \in D : t.lobbies[k] = s.lobbies[k]
  BY <1>1
<1>3. owed(y) \in Int
  BY OwedIsInt
<1>4. \A k \in D : /\ dues(t)[k] = dues(s)[k] /\ dues(s)[k] \in Int
                   /\ Sound(s.lobbies[k]) /\ s.lobbies[k] \in Lobby
  <2>1. \A k \in D : dues(t)[k] = owed(t.lobbies[k])
    BY <1>2 DEF dues
  <2>2. QED
    BY <1>2, <2>1, DuesFacts, StateFields, SMTT(30) DEF Books
<1>5. dues(t)[n + 1] = owed(y)
  BY <1>2 DEF dues
<1> HIDE DEF D, n
<1>6. Total(dues(t), D) = Total(dues(s), D)
  BY <1>1, <1>4, TotalOfEqual
<1>7. Total(dues(t), D \cup {n + 1}) = owed(y) + Total(dues(t), D)
  <2>1. \A k \in D \cup {n + 1} : dues(t)[k] \in Int
    BY <1>3, <1>4, <1>5
  <2> DEFINE a == n + 1
  <2>2. a \notin D /\ \A k \in D \cup {a} : dues(t)[k] \in Int
    BY <1>2, <2>1
  <2> HIDE DEF a
  <2>3. Total(dues(t), D \cup {a}) = dues(t)[a] + Total(dues(t), D)
    BY <1>1, <2>2, TotalAdds
  <2>4. QED
    BY <1>5, <2>3 DEF a
<1>8. t.escrow = t.globalDefensePool + Total(dues(t), DOMAIN t.lobbies)
  BY <1>1, <1>2, <1>3, <1>6, <1>7
<1>9. \A k \in DOMAIN t.lobbies : Sound(t.lobbies[k])
  BY <1>2, <1>4
<1>10. \A k \in D : GoesOn(s, t, k)
  BY <1>2, <1>4, LobbyFields DEF GoesOn
<1>11. ~(t.globalDefensePool < s.globalDefensePool)
  BY <1>1
<1>12. QED
  BY <1>2, <1>8, <1>9, <1>10, <1>11 DEF Books, Leads, D

LEMMA DivIsInt ==
    ASSUME NEW a \in Int, NEW n \in Nat \ {0}
    PROVE  a \div n \in Int
OBVIOUS

LEMMA DrawScheduleType ==
    ASSUME NEW s, IsState(s), s.limits.interval > 0
    PROVE  drawSchedule(s).nextEpoch \in Int /\ drawSchedule(s).deadlineBlock \in Int
<1> DEFINE e == protocolEpoch(s)
           i == s.limits.interval
           next == (e \div i + 1) * i
<1>1. s.block \in Int /\ s.limits.epochBlocks \in Nat \ {0} /\ i \in Nat \ {0}
      /\ InitialBlock \in Nat
  BY StateFields, EmulatorAssumption DEF ProtocolLimits
<1>2. e \in Int
  <2> DEFINE b == s.block - InitialBlock
  <2>1. b \in Int
    BY <1>1
  <2>2. e = b \div s.limits.epochBlocks
    BY DEF protocolEpoch, getEpochFromBlock
  <2> HIDE DEF b
  <2>3. QED
    BY <1>1, <2>1, <2>2, DivIsInt
<1> HIDE DEF e, i
<1>3. next \in Int
  <2> DEFINE q == e \div i
  <2>1. q \in Int
    BY <1>1, <1>2, DivIsInt
  <2> HIDE DEF q
  <2>2. q + 1 \in Int
    BY <2>1
  <2>3. QED
    BY <1>1, <2>2, ProductsOfInts DEF q
<1>4. /\ drawSchedule(s).nextEpoch = next
      /\ drawSchedule(s).deadlineBlock
             = getEpochStartBlock(next, s.limits.epochBlocks, InitialBlock) - 1
  BY DEF drawSchedule, globalDefenseSchedule, e, i
<1> HIDE DEF next
<1>5. getEpochStartBlock(next, s.limits.epochBlocks, InitialBlock) \in Int
  BY <1>3, EpochStarts
<1>6. QED
  BY <1>3, <1>4, <1>5

LEMMA DrawOpeningKeeps ==
    ASSUME NEW s, Books(s), s.limits.interval > 0
    PROVE  Books(applyOpenGlobalDefense(s)) /\ Leads(s, applyOpenGlobalDefense(s))
<1> DEFINE e == drawSchedule(s).nextEpoch
           n == Len(s.lobbies)
           config == [ minPlayers |-> s.limits.minPlayers, maxPlayers |-> s.limits.maxPlayers,
                       entryPrice |-> 0, prizePool |-> 0, commission |-> 0 ]
           y == [newLobby(s, Protocol, config, drawSchedule(s).deadlineBlock, e)
                     EXCEPT !.drawBounty = s.globalDefensePool]
           booked == [k \in DOMAIN s.globalDefenseLobby \cup {e} |->
                         IF k = e THEN n + 1 ELSE s.globalDefenseLobby[k]]
           ys == Append(s.lobbies, y)
           t == applyOpenGlobalDefense(s)
<1>1. /\ IsState(s) /\ n \in Nat /\ s.lobbies \in Seq(Lobby) /\ s.globalDefensePool \in Int
      /\ s.escrow \in Int /\ DOMAIN s.lobbies = 1 .. n
  BY StateFields DEF Books
<1>2. e \in Int /\ drawSchedule(s).deadlineBlock \in Int
  BY <1>1, DrawScheduleType
<1>3. config \in Config /\ config.prizePool = 0
  BY <1>1, StateFields DEF Config, ProtocolLimits
<1>4. t = [s EXCEPT !.lobbies = ys, !.globalDefenseLobby = booked]
  BY <1>1 DEF applyOpenGlobalDefense, IsState
<1> HIDE DEF config, e, t
<1>5. y \in Lobby /\ Sound(y) /\ y.creator = Protocol /\ owed(y) = 0
  <2> DEFINE d == drawSchedule(s).deadlineBlock
             b == s.globalDefensePool
  <2>1. y = opened(s, Protocol, config, d, e, b)
    BY DEF opened
  <2>2. d \in Int /\ e \in Int /\ b \in Int /\ Protocol \in Players \cup {Protocol}
    BY <1>1, <1>2
  <2> HIDE DEF y, d, b
  <2>3. QED
    BY <1>1, <1>3, <2>1, <2>2, NewDrawOwes
<1> HIDE DEF y
<1>6. /\ ys \in Seq(Lobby) /\ DOMAIN ys = 1 .. n + 1 /\ ys[n + 1] = y
      /\ \A k \in 1 .. n : ys[k] = s.lobbies[k]
  BY <1>1, <1>5
<1>7. booked \in [DOMAIN booked -> Nat]
  <2>1. s.globalDefenseLobby \in [DOMAIN s.globalDefenseLobby -> Nat] /\ n + 1 \in Nat
    BY <1>1 DEF IsState
  <2> HIDE DEF n
  <2>2. QED
    BY <2>1
<1>8. \A k \in DOMAIN booked : booked[k] \in DOMAIN ys /\ ys[booked[k]].creator = Protocol
  <2> TAKE k \in DOMAIN booked
  <2>1. CASE k = e
    BY <1>1, <1>5, <1>6, <2>1
  <2>2. CASE k # e
    <3>1. k \in DOMAIN s.globalDefenseLobby /\ booked[k] = s.globalDefenseLobby[k]
      BY <2>2
    <3>2. booked[k] \in 1 .. n /\ s.lobbies[booked[k]].creator = Protocol
      BY <1>1, <3>1 DEF Books, Booked
    <3> HIDE DEF booked, ys
    <3>3. QED
      BY <1>1, <1>6, <3>2
  <2>3. QED
    BY <2>1, <2>2
<1> HIDE DEF booked, ys
<1>9. /\ IsState(t) /\ t.lobbies = ys /\ t.escrow = s.escrow
      /\ t.globalDefensePool = s.globalDefensePool /\ t.globalDefenseLobby = booked
  <2>1. t = [ limits |-> s.limits, block |-> s.block, wallet |-> s.wallet,
              escrow |-> s.escrow, globalDefensePool |-> s.globalDefensePool,
              globalDefenseLobby |-> booked, lobbies |-> ys ]
    BY <1>1, <1>4 DEF IsState
  <2>2. QED
    BY <1>1, <1>6, <1>7, <2>1 DEF IsState
<1>10. Booked(t)
  BY <1>8, <1>9 DEF Booked
<1>11. t.escrow = s.escrow + owed(y)
  BY <1>1, <1>5, <1>9
<1>12. QED
  BY <1>5, <1>9, <1>10, <1>11, OpeningKeeps DEF ys, t

LEMMA UpkeepKeeps ==
    ASSUME NEW s, Books(s)
    PROVE  Books(drawUpkeep(s)) /\ Leads(s, drawUpkeep(s))
<1>1. drawUpkeep(s) = IF isGlobalDefenseDue(s) THEN applyOpenGlobalDefense(s) ELSE s
  BY TopUpIsIdle DEF drawUpkeep, maybeOpenGlobalDefense
<1>2. isGlobalDefenseDue(s) => s.limits.interval > 0
  BY DEF isGlobalDefenseDue
<1>3. QED
  BY <1>1, <1>2, DrawOpeningKeeps, NothingLeads

LEMMA StatsKeep ==
    ASSUME NEW s, Books(s)
    PROVE  Books(readStats(s)) /\ Leads(s, readStats(s))
<1> DEFINE a == settleAll(s)
           t == maybeSettleProtocolDraws(a)
<1>1. Onward(s, a)
  BY SettlingAllKeeps
<1> HIDE DEF a
<1>2. Onward(a, t)
  BY <1>1, GivingBackKeeps DEF Onward
<1> HIDE DEF t
<1>3. Onward(s, t)
  BY <1>1, <1>2, OnwardIsKept
<1>4. Books(drawUpkeep(t)) /\ Leads(t, drawUpkeep(t))
  BY <1>3, UpkeepKeeps DEF Onward
<1>5. readStats(s) = drawUpkeep(t)
  BY DEF readStats, t, a
<1>6. QED
  BY <1>3, <1>4, <1>5, LeadsOn DEF Onward

LEMMA BlockKeeps ==
    ASSUME NEW s, Books(s)
    PROVE  Books(mineBlock(s)) /\ Leads(s, mineBlock(s))
<1> DEFINE b == s.block + 1
           t == [s EXCEPT !.block = b]
<1>1. IsState(s) /\ b \in Int
  BY StateFields DEF Books
<1>2. mineBlock(s) = drawUpkeep(t)
  BY <1>1 DEF mineBlock, IsState
<1> HIDE DEF b
<1>3. /\ t.lobbies = s.lobbies /\ t.escrow = s.escrow
      /\ t.globalDefensePool = s.globalDefensePool
      /\ t.globalDefenseLobby = s.globalDefenseLobby
  BY <1>1 DEF IsState
<1>4. IsState(t)
  <2>1. t = [ limits |-> s.limits, block |-> b, wallet |-> s.wallet,
              escrow |-> s.escrow, globalDefensePool |-> s.globalDefensePool,
              globalDefenseLobby |-> s.globalDefenseLobby, lobbies |-> s.lobbies ]
    BY <1>1 DEF IsState
  <2>2. QED
    BY <1>1, <2>1 DEF IsState
<1> HIDE DEF t
<1>5. Books(t)
  BY <1>3, <1>4 DEF Books, Booked, dues
<1>6. Leads(s, t)
  BY <1>3, NothingLeads DEF Leads, GoesOn, DrawStarts
<1>7. Books(drawUpkeep(t)) /\ Leads(t, drawUpkeep(t))
  BY <1>5, UpkeepKeeps
<1>8. QED
  BY <1>2, <1>3, <1>5, <1>6, <1>7, LeadsOn

-----------------------------------------------------------------------------
(* An operation written together with a payment into it or out of it.      *)

LEMMA PaidOutRewrites ==
    ASSUME NEW s, Books(s), NEW l \in DOMAIN s.lobbies, NEW y \in Lobby, Sound(y),
           NEW w \in Players, NEW amount, amount \in Int,
           owed(y) = owed(s.lobbies[l]) - amount, y.creator = s.lobbies[l].creator,
           y.status = s.lobbies[l].status, y.startPrizePool = s.lobbies[l].startPrizePool,
           NEW t, t = payOut([s EXCEPT !.lobbies[l] = y], w, amount)
    PROVE  Rewrites(s, t, l)
<1> DEFINE x == s.lobbies[l]
           m == [s EXCEPT !.lobbies[l] = y]
<1>1. /\ IsState(s) /\ owed(x) \in Int /\ s.escrow \in Int /\ s.globalDefensePool \in Nat
      /\ x.startPrizePool \in Nat
  BY StateFields, LobbyFields, DuesFacts DEF Books
<1>2. /\ IsState(m) /\ Alike(s, m)
      /\ m.escrow = s.escrow /\ m.globalDefensePool = s.globalDefensePool
      /\ DOMAIN m.lobbies = DOMAIN s.lobbies /\ m.lobbies[l] = y
      /\ \A k \in DOMAIN s.lobbies : k # l => m.lobbies[k] = s.lobbies[k]
  BY <1>1, WriteLobby
<1> HIDE DEF x, m
<1>3. /\ IsState(t) /\ Alike(m, t) /\ t.lobbies = m.lobbies
      /\ t.escrow = m.escrow - amount /\ t.globalDefensePool = m.globalDefensePool
  <2>1. t = payOut(m, w, amount)
    BY DEF m
  <2>2. QED
    BY <1>2, <2>1, PayOutFields
<1>4. GoesOn(s, t, l)
  BY <1>1, <1>2, <1>3 DEF GoesOn, x
<1>5. t.escrow - t.globalDefensePool - owed(y) = s.escrow - s.globalDefensePool - owed(x)
  <2>1. owed(y) = owed(x) - amount
    BY DEF x
  <2>2. QED
    BY <1>1, <1>2, <1>3, <2>1
<1>6. ~(t.globalDefensePool < s.globalDefensePool)
  BY <1>1, <1>2, <1>3
<1>7. QED
  BY <1>2, <1>3, <1>4, <1>5, <1>6 DEF Rewrites, Alike, x

LEMMA PaidInRewrites ==
    ASSUME NEW s, Books(s), NEW l \in DOMAIN s.lobbies, NEW y \in Lobby, Sound(y),
           NEW w \in Players, NEW amount, amount \in Int,
           owed(y) = owed(s.lobbies[l]) + amount, y.creator = s.lobbies[l].creator,
           y.status = s.lobbies[l].status, y.startPrizePool = s.lobbies[l].startPrizePool,
           NEW t, t = [escrow(s, w, amount) EXCEPT !.lobbies[l] = y]
    PROVE  Rewrites(s, t, l)
<1> DEFINE x == s.lobbies[l]
           m == escrow(s, w, amount)
<1>1. /\ IsState(s) /\ owed(x) \in Int /\ s.escrow \in Int /\ s.globalDefensePool \in Nat
      /\ x.startPrizePool \in Nat
  BY StateFields, LobbyFields, DuesFacts DEF Books
<1> HIDE DEF x, m
<1>2. /\ IsState(m) /\ Alike(s, m) /\ m.lobbies = s.lobbies
      /\ m.escrow = s.escrow + amount /\ m.globalDefensePool = s.globalDefensePool
  <2>1. IsState(s) /\ w \in Players /\ amount \in Int
    BY <1>1
  <2>2. m = escrow(s, w, amount)
    BY DEF m
  <2>3. QED
    BY ONLY <2>1, <2>2, EscrowFields
<1>3. /\ IsState(t) /\ Alike(m, t)
      /\ t.escrow = m.escrow /\ t.globalDefensePool = m.globalDefensePool
      /\ DOMAIN t.lobbies = DOMAIN m.lobbies /\ t.lobbies[l] = y
      /\ \A k \in DOMAIN m.lobbies : k # l => t.lobbies[k] = m.lobbies[k]
  <2> DEFINE u == [m EXCEPT !.lobbies[l] = y]
  <2>1. t = u
    BY DEF m
  <2>2. IsState(m) /\ l \in DOMAIN m.lobbies /\ y \in Lobby
    BY <1>2
  <2>3. /\ IsState(u) /\ Alike(m, u)
        /\ u.escrow = m.escrow /\ u.globalDefensePool = m.globalDefensePool
        /\ DOMAIN u.lobbies = DOMAIN m.lobbies /\ u.lobbies[l] = y
        /\ \A k \in DOMAIN m.lobbies : k # l => u.lobbies[k] = m.lobbies[k]
    BY <2>2, WriteLobby
  <2> HIDE DEF u
  <2>4. QED
    BY <2>1, <2>3
<1>4. GoesOn(s, t, l)
  BY <1>1, <1>2, <1>3 DEF GoesOn, x
<1>5. t.escrow - t.globalDefensePool - owed(y) = s.escrow - s.globalDefensePool - owed(x)
  <2>1. owed(y) = owed(x) + amount
    BY DEF x
  <2>2. QED
    BY <1>1, <1>2, <1>3, <2>1
<1>6. ~(t.globalDefensePool < s.globalDefensePool)
  BY <1>1, <1>2, <1>3
<1>7. QED
  BY <1>2, <1>3, <1>4, <1>5, <1>6 DEF Rewrites, Alike, x

-----------------------------------------------------------------------------
(* The writes.  Kept is what each of them, and each read, makes sure of.   *)

Kept == Books(chain') /\ Leads(chain, chain') /\ disk' \in {disk, chain'}

LEMMA WrittenIsKept ==
    ASSUME NEW s, Books(s), NEW l \in DOMAIN s.lobbies, NEW t, Rewrites(s, t, l),
           Books(chain), Onward(chain, s), persist(t)
    PROVE  Kept
<1>1. Onward(s, t)
  BY RewritesGoOnward
<1>2. Onward(chain, t)
  BY <1>1, OnwardIsKept
<1>3. QED
  BY <1>2 DEF Kept, Onward, persist

LEMMA CreatingKeeps ==
    ASSUME Books(chain), NEW w \in Creators, NEW config \in Configs, NEW d \in 0 .. MaxDeadline,
           createLobby(w, config, d)
    PROVE  Kept
<1> DEFINE e == launchEpochOf(d, chain.limits.epochBlocks, InitialBlock)
           amount == config.prizePool + chain.limits.joinFee
           m == escrow(chain, w, amount)
           y == newLobby(chain, w, config, d, e)
           ys == Append(chain.lobbies, y)
           t == [m EXCEPT !.lobbies = ys]
<1>1. /\ IsState(chain) /\ chain.lobbies \in Seq(Lobby) /\ chain.limits.epochBlocks \in Nat \ {0}
      /\ chain.limits.joinFee \in Nat /\ chain.escrow \in Int
  BY StateFields DEF Books, ProtocolLimits
<1>2. w \in Players /\ w # Protocol /\ config \in Config /\ config.prizePool \in Nat
  BY TermsAssumption, PlayersFinite DEF Config
<1>3. persist(t)
  <2>1. t = applyCreateLobby(chain, w, config, d)
    <3>1. m.lobbies = chain.lobbies
      BY <1>1 DEF escrow, IsState
    <3>2. QED
      BY <3>1 DEF applyCreateLobby
  <2>2. QED
    BY <2>1 DEF createLobby
<1>4. e \in Int
  <2> DEFINE b == d - InitialBlock
             q == b \div chain.limits.epochBlocks
  <2>1. b \in Int
    BY EmulatorAssumption
  <2> HIDE DEF b
  <2>2. q \in Int
    BY <1>1, <2>1, DivIsInt
  <2>3. e \in {q + 1, q + 1 + 1}
    BY DEF launchEpochOf, getEpochFromBlock, b
  <2> HIDE DEF q, e
  <2>4. QED
    BY <2>2, <2>3
<1> HIDE DEF e, amount
<1>5. y \in Lobby /\ Sound(y) /\ owed(y) = amount
  <2> DEFINE zero == 0
             now == chain.block
             fee == chain.limits.joinFee
  <2>1. y = fresh(w, config, d, now, e, fee, zero)
    BY <1>2 DEF fresh, newLobby
  <2>2. /\ d \in Int /\ now \in Int /\ e \in Int /\ fee \in Nat /\ zero \in Int
        /\ w \in Players \cup {Protocol}
    BY <1>1, <1>2, <1>4, StateFields
  <2> HIDE DEF y, zero, now, fee
  <2>3. y \in Lobby /\ Sound(y) /\ owed(y) = config.prizePool + fee
    BY <1>2, <2>1, <2>2, FreshOwes
  <2>4. QED
    BY <2>3 DEF amount, fee
<1>6. amount \in Int
  BY <1>1, <1>2 DEF amount
<1> HIDE DEF m, y
<1>7. /\ IsState(m) /\ Alike(chain, m) /\ m.lobbies = chain.lobbies
      /\ m.escrow = chain.escrow + amount /\ m.globalDefensePool = chain.globalDefensePool
  <2>1. IsState(chain) /\ w \in Players /\ amount \in Int
    BY <1>1, <1>2, <1>6
  <2>2. m = escrow(chain, w, amount)
    BY DEF m
  <2>3. QED
    BY ONLY <2>1, <2>2, EscrowFields
<1>8. ys \in Seq(Lobby)
  BY <1>1, <1>5
<1> HIDE DEF ys
<1>9. /\ IsState(t) /\ t.lobbies = ys /\ t.escrow = m.escrow
      /\ t.globalDefensePool = m.globalDefensePool
      /\ t.globalDefenseLobby = m.globalDefenseLobby
  <2>1. t = [ limits |-> m.limits, block |-> m.block, wallet |-> m.wallet,
              escrow |-> m.escrow, globalDefensePool |-> m.globalDefensePool,
              globalDefenseLobby |-> m.globalDefenseLobby, lobbies |-> ys ]
    BY <1>7 DEF IsState
  <2>2. QED
    BY <1>7, <1>8, <2>1 DEF IsState
<1> HIDE DEF t
<1>10. Booked(t)
  <2>1. t.globalDefenseLobby = chain.globalDefenseLobby
    BY <1>7, <1>9 DEF Alike
  <2>2. \A k \in DOMAIN chain.lobbies : k \in DOMAIN ys /\ ys[k] = chain.lobbies[k]
    BY <1>1 DEF ys
  <2>3. QED
    BY <1>9, <2>1, <2>2 DEF Books, Booked
<1>11. Books(t) /\ Leads(chain, t)
  BY <1>5, <1>7, <1>9, <1>10, OpeningKeeps DEF ys
<1>12. QED
  BY <1>3, <1>11 DEF Kept, persist

(* A seat written keeps the rest of them what they were.                   *)
LEMMA SeatsStay ==
    ASSUME NEW x \in Lobby, Seats(x), NEW y \in Lobby, NEW w \in Players, OneSeat(x, y, w),
           ~y.seats[w].joined => y.seats[w] = NoSeat,
           y.seats[w].joined =>
               y.seats[w].paidIn = x.config.entryPrice + commissionOf(x) + y.seats[w].probesPaid,
           y.seats[w].defendedAt # 0 => y.seats[w].actions > 0
    PROVE  Seats(y)
<1>1. commissionOf(y) = commissionOf(x) /\ y.config = x.config
  BY DEF OneSeat, commissionOf
<1>2. QED
  BY <1>1 DEF Seats, OneSeat

LEMMA JoiningKeeps ==
    ASSUME Books(chain), ~Rejoins, NEW l \in LobbyIds, NEW w \in Players, joinLobby(w, l)
    PROVE  Kept
<1> DEFINE x == chain.lobbies[l]
           cost == x.config.entryPrice + commissionOf(x)
           seat == [NoSeat EXCEPT !.joined = TRUE, !.paidIn = cost]
           seats == [x.seats EXCEPT ![w] = seat]
           y == [x EXCEPT !.seats = seats, !.participantCount = @ + 1,
                          !.entryFeesCollected = @ + x.config.entryPrice,
                          !.creatorFeeAccrued = @ + commissionOf(x)]
           t == [escrow(chain, w, cost) EXCEPT !.lobbies[l] = y]
<1>1. /\ x \in Lobby /\ Sound(x) /\ Seats(x) /\ x.config.entryPrice \in Nat
      /\ commissionOf(x) \in Nat /\ x.participantCount \in Int
      /\ x.entryFeesCollected \in Int /\ x.creatorFeeAccrued \in Int
  <2>1. x \in Lobby /\ Sound(x) /\ Seats(x)
    BY StateFields DEF Books, Sound, LobbyIds
  <2> HIDE DEF x
  <2>2. QED
    BY <2>1, LobbyFields
<1>2. x.status = "OPEN" /\ x.ending = "NONE" /\ x.seats[w] = NoSeat /\ l \in DOMAIN chain.lobbies
  <2>1. x.status = "OPEN" /\ ~x.seats[w].joined
    BY DEF joinLobby, canJoinLobby
  <2>2. QED
    BY <1>1, <2>1 DEF Sound, Story, Seats, LobbyIds
<1>3. Untouched(x)
  BY <1>1, <1>2 DEF Sound
<1>4. persist(t)
  <2>1. y = [x EXCEPT !.seats[w] = seat, !.participantCount = @ + 1,
                      !.entryFeesCollected = @ + x.config.entryPrice,
                      !.creatorFeeAccrued = @ + commissionOf(x)]
    BY <1>1 DEF Lobby
  <2>2. QED
    BY <2>1 DEF joinLobby
<1> HIDE DEF x, t
<1>5. cost \in Nat
  BY <1>1
<1> HIDE DEF cost
<1>6. /\ seat \in Seat /\ seat.joined /\ seat.paidIn = cost /\ seat.probesPaid = 0
      /\ seat.defendedAt = 0 /\ ~seat.refunded /\ seat.payout = "NONE"
  <2>1. NoSeat \in Seat
    BY DEF NoSeat, Seat
  <2>2. /\ seat \in Seat /\ seat.joined /\ seat.paidIn = cost
        /\ seat.probesPaid = NoSeat.probesPaid /\ seat.defendedAt = NoSeat.defendedAt
        /\ seat.refunded = NoSeat.refunded /\ seat.payout = NoSeat.payout
    BY <1>5, <2>1 DEF Seat
  <2> HIDE DEF seat
  <2>3. /\ NoSeat.probesPaid = 0 /\ NoSeat.defendedAt = 0 /\ ~NoSeat.refunded
        /\ NoSeat.payout = "NONE"
    BY DEF NoSeat
  <2>4. QED
    BY <2>2, <2>3
<1> HIDE DEF seat
<1>7. /\ seats \in [Players -> Seat] /\ seats[w] = seat
      /\ \A v \in Players : v # w => seats[v] = x.seats[v]
  <2>1. x.seats \in [Players -> Seat]
    BY <1>1, LobbyFields
  <2>2. QED
    BY <1>6, <2>1
<1> HIDE DEF seats
<1>8. /\ y \in Lobby /\ y.seats = seats /\ y.config = x.config /\ y.creator = x.creator
      /\ y.status = x.status /\ y.ending = x.ending /\ y.outcome = x.outcome
      /\ y.creatorSettled = x.creatorSettled /\ y.startPrizePool = x.startPrizePool
      /\ y.protocolFeeAccrued = x.protocolFeeAccrued /\ y.rewardPool = x.rewardPool
      /\ y.entryFeesCollected = x.entryFeesCollected + x.config.entryPrice
      /\ y.creatorFeeAccrued = x.creatorFeeAccrued + commissionOf(x)
  <2> DEFINE p == x.participantCount + 1
             n == x.entryFeesCollected + x.config.entryPrice
             f == x.creatorFeeAccrued + commissionOf(x)
  <2>1. p \in Int /\ n \in Int /\ f \in Int
    BY <1>1
  <2>2. y = [x EXCEPT !.seats = seats, !.participantCount = p,
                      !.entryFeesCollected = n, !.creatorFeeAccrued = f]
    BY <1>1 DEF Lobby
  <2> HIDE DEF p, n, f, y
  <2>3. y.entryFeesCollected = n /\ y.creatorFeeAccrued = f
    BY <1>1, <2>2 DEF Lobby
  <2>4. y \in Lobby
    BY <1>1, <1>7, <2>1, <2>2 DEF Lobby
  <2>5. QED
    BY <1>1, <2>2, <2>3, <2>4 DEF Lobby, n, f
<1> HIDE DEF y
<1>9. OneSeat(x, y, w)
  BY <1>7, <1>8 DEF OneSeat
<1>10. Seats(y)
  BY <1>1, <1>6, <1>7, <1>8, <1>9, SeatsStay DEF cost
<1>11. /\ entryBy(x)[w] = 0 /\ feeBy(x)[w] = 0 /\ probesBy(x)[w] = 0
       /\ entryBy(y)[w] = x.config.entryPrice /\ feeBy(y)[w] = commissionOf(x)
       /\ probesBy(y)[w] = 0 /\ x.seats[w].paidIn = 0 /\ x.rewardPool \in Int
  <2>1. commissionOf(y) = commissionOf(x)
    BY <1>8 DEF commissionOf
  <2>2. ~x.seats[w].joined /\ x.seats[w].probesPaid = 0 /\ x.seats[w].paidIn = 0
    BY <1>2 DEF NoSeat
  <2>3. QED
    BY <1>1, <1>6, <1>7, <1>8, <2>1, <2>2, MoneyOfASeat, LobbyFields
<1>12. Sound(y) /\ owed(y) = owed(x) + cost
  <2>1. /\ y.entryFeesCollected = x.entryFeesCollected - entryBy(x)[w] + entryBy(y)[w]
        /\ y.creatorFeeAccrued = x.creatorFeeAccrued - feeBy(x)[w] + feeBy(y)[w]
        /\ y.rewardPool = x.rewardPool - probesBy(x)[w] + probesBy(y)[w]
    BY <1>1, <1>8, <1>11
  <2>2. ~y.seats[w].refunded /\ y.seats[w].payout # "PAID" /\ y.seats[w].paidIn = cost
    BY <1>6, <1>7, <1>8
  <2>3. Sound(y) /\ owed(y) = owed(x) - x.seats[w].paidIn + y.seats[w].paidIn
    BY <1>1, <1>2, <1>8, <1>9, <1>10, <2>1, <2>2, SeatChangeKeeps
  <2>4. owed(x) \in Int
    BY <1>1, OwedIsInt
  <2>5. QED
    BY <1>5, <1>11, <2>2, <2>3, <2>4
<1>13. Rewrites(chain, t, l)
  <2>1. t = [escrow(chain, w, cost) EXCEPT !.lobbies[l] = y] /\ cost \in Int
    BY <1>5 DEF t
  <2>2. QED
    BY <1>2, <1>8, <1>12, <2>1, PaidInRewrites DEF x
<1>14. Onward(chain, chain)
  BY NothingLeads DEF Onward
<1>15. QED
  BY <1>2, <1>4, <1>13, <1>14, WrittenIsKept

(* What every write but a join does first.                                 *)
LEMMA SettledFirst ==
    ASSUME Books(chain), NEW l \in LobbyIds
    PROVE  LET s == settleLobby(chain, l) IN
           /\ Books(s) /\ Onward(chain, s) /\ l \in DOMAIN s.lobbies
           /\ s.lobbies[l] \in Lobby /\ Sound(s.lobbies[l]) /\ Seats(s.lobbies[l])
           /\ IsState(s) /\ s.block \in Int
<1> DEFINE s == settleLobby(chain, l)
<1>1. Onward(chain, s)
  BY SettlingKeeps DEF LobbyIds
<1> HIDE DEF s
<1>2. Books(s) /\ l \in DOMAIN s.lobbies
  BY <1>1 DEF Onward, LobbyIds
<1>3. IsState(s) /\ s.lobbies[l] \in Lobby /\ Sound(s.lobbies[l]) /\ s.block \in Int
  BY <1>2, StateFields DEF Books
<1>4. QED
  BY <1>1, <1>2, <1>3 DEF s, Sound

LEMMA LeavingKeeps ==
    ASSUME Books(chain), NEW l \in LobbyIds, NEW w \in Players, leaveLobby(w, l)
    PROVE  Kept
<1> DEFINE s == settleLobby(chain, l)
           x == s.lobbies[l]
           seat == x.seats[w]
           seats == [x.seats EXCEPT ![w] = NoSeat]
           fee == commissionPaid(x, seat)
           y == [x EXCEPT !.seats = seats,
                          !.participantCount = IF @ > 0 THEN @ - 1 ELSE 0,
                          !.entryFeesCollected = @ - x.config.entryPrice,
                          !.creatorFeeAccrued = @ - fee,
                          !.rewardPool = @ - seat.probesPaid]
           t == payOut([s EXCEPT !.lobbies[l] = y], w, seat.paidIn)
<1>1. /\ Books(s) /\ Onward(chain, s) /\ l \in DOMAIN s.lobbies
      /\ x \in Lobby /\ Sound(x) /\ Seats(x)
  BY SettledFirst
<1>2. x.status = "OPEN" /\ seat.joined /\ persist(t)
  <2>1. y = [x EXCEPT !.seats[w] = NoSeat,
                      !.participantCount = IF @ > 0 THEN @ - 1 ELSE 0,
                      !.entryFeesCollected = @ - x.config.entryPrice,
                      !.creatorFeeAccrued = @ - fee,
                      !.rewardPool = @ - seat.probesPaid]
    BY <1>1 DEF Lobby
  <2>2. QED
    BY <2>1 DEF leaveLobby
<1> HIDE DEF s
<1>3. x.ending = "NONE"
  BY <1>1, <1>2 DEF Sound, Story
<1>4. /\ x.config.entryPrice \in Nat /\ commissionOf(x) \in Nat /\ x.participantCount \in Int
      /\ x.entryFeesCollected \in Int /\ x.creatorFeeAccrued \in Int /\ x.rewardPool \in Int
      /\ seat.paidIn \in Nat /\ seat.probesPaid \in Nat /\ x.seats \in [Players -> Seat]
  <2> HIDE DEF x
  <2> QED BY <1>1, LobbyFields, SeatFields
<1>5. seat.paidIn = x.config.entryPrice + commissionOf(x) + seat.probesPaid
  BY <1>1, <1>2 DEF Seats
<1> HIDE DEF x, t
<1>6. fee = commissionOf(x)
  <2> HIDE DEF seat
  <2> QED BY <1>4, <1>5 DEF commissionPaid
<1> HIDE DEF fee
<1>7. /\ seats \in [Players -> Seat] /\ seats[w] = NoSeat
      /\ \A v \in Players : v # w => seats[v] = x.seats[v]
  <2>1. NoSeat \in Seat
    BY DEF NoSeat, Seat
  <2>2. QED
    BY <1>4, <2>1
<1> HIDE DEF seats
<1>8. /\ y \in Lobby /\ y.seats = seats /\ y.config = x.config /\ y.creator = x.creator
      /\ y.status = x.status /\ y.ending = x.ending /\ y.outcome = x.outcome
      /\ y.creatorSettled = x.creatorSettled /\ y.startPrizePool = x.startPrizePool
      /\ y.protocolFeeAccrued = x.protocolFeeAccrued
      /\ y.rewardPool = x.rewardPool - seat.probesPaid
      /\ y.entryFeesCollected = x.entryFeesCollected - x.config.entryPrice
      /\ y.creatorFeeAccrued = x.creatorFeeAccrued - commissionOf(x)
  <2> DEFINE p == IF x.participantCount > 0 THEN x.participantCount - 1 ELSE 0
             n == x.entryFeesCollected - x.config.entryPrice
             f == x.creatorFeeAccrued - commissionOf(x)
             r == x.rewardPool - seat.probesPaid
  <2>1. p \in Int /\ n \in Int /\ f \in Int /\ r \in Int
    <3> HIDE DEF seat
    <3> QED BY <1>4
  <2>2. y = [x EXCEPT !.seats = seats, !.participantCount = p,
                      !.entryFeesCollected = n, !.creatorFeeAccrued = f, !.rewardPool = r]
    BY <1>1, <1>6 DEF Lobby
  <2> HIDE DEF p, n, f, r, y
  <2>3. y.entryFeesCollected = n /\ y.creatorFeeAccrued = f /\ y.rewardPool = r
    BY <1>1, <2>2 DEF Lobby
  <2>4. y \in Lobby
    BY <1>1, <1>7, <2>1, <2>2 DEF Lobby
  <2>5. QED
    BY <1>1, <2>2, <2>3, <2>4 DEF Lobby, n, f, r
<1> HIDE DEF y
<1>9. OneSeat(x, y, w)
  BY <1>7, <1>8 DEF OneSeat
<1>10. y.seats[w] = NoSeat /\ ~NoSeat.joined /\ NoSeat.defendedAt = 0 /\ ~NoSeat.refunded
       /\ NoSeat.payout = "NONE" /\ NoSeat.paidIn = 0 /\ NoSeat.probesPaid = 0
  BY <1>7, <1>8 DEF NoSeat
<1>11. Seats(y)
  BY <1>1, <1>8, <1>9, <1>10, SeatsStay
<1>12. /\ entryBy(x)[w] = x.config.entryPrice /\ feeBy(x)[w] = commissionOf(x)
       /\ probesBy(x)[w] = seat.probesPaid
       /\ entryBy(y)[w] = 0 /\ feeBy(y)[w] = 0 /\ probesBy(y)[w] = 0
  BY <1>1, <1>2, <1>8, <1>10, MoneyOfASeat
<1>13. Sound(y) /\ owed(y) = owed(x) - seat.paidIn
  <2>1. /\ y.entryFeesCollected = x.entryFeesCollected - entryBy(x)[w] + entryBy(y)[w]
        /\ y.creatorFeeAccrued = x.creatorFeeAccrued - feeBy(x)[w] + feeBy(y)[w]
        /\ y.rewardPool = x.rewardPool - probesBy(x)[w] + probesBy(y)[w]
    <3> HIDE DEF seat
    <3> QED BY <1>4, <1>8, <1>12
  <2>2. ~y.seats[w].refunded /\ y.seats[w].payout # "PAID" /\ y.seats[w].paidIn = 0
    BY <1>10
  <2>3. Sound(y) /\ owed(y) = owed(x) - x.seats[w].paidIn + y.seats[w].paidIn
    BY <1>1, <1>2, <1>3, <1>8, <1>9, <1>11, <2>1, <2>2, SeatChangeKeeps
  <2>4. owed(x) \in Int
    BY <1>1, OwedIsInt
  <2>5. QED
    BY <1>4, <2>2, <2>3, <2>4
<1>14. Rewrites(s, t, l)
  <2> DEFINE amount == seat.paidIn
  <2>1. amount \in Int /\ owed(y) = owed(s.lobbies[l]) - amount
    BY <1>4, <1>13 DEF x
  <2>2. t = payOut([s EXCEPT !.lobbies[l] = y], w, amount)
    BY DEF t
  <2> HIDE DEF amount
  <2>3. QED
    BY <1>1, <1>8, <1>13, <2>1, <2>2, PaidOutRewrites DEF x
<1>15. QED
  BY <1>1, <1>2, <1>14, WrittenIsKept

LEMMA BuyingKeeps ==
    ASSUME Books(chain), NEW l \in LobbyIds, NEW w \in Players, buyDrone(w, l)
    PROVE  Kept
<1> DEFINE s == settleLobby(chain, l)
           x == s.lobbies[l]
           price == chain.limits.price
           seat == [x.seats[w] EXCEPT !.purchased = @ + 1, !.paidIn = @ + price,
                                      !.probesPaid = @ + price]
           seats == [x.seats EXCEPT ![w] = seat]
           y == [x EXCEPT !.seats = seats, !.rewardPool = @ + price]
           t == [escrow(s, w, price) EXCEPT !.lobbies[l] = y]
<1>1. /\ Books(s) /\ Onward(chain, s) /\ l \in DOMAIN s.lobbies
      /\ x \in Lobby /\ Sound(x) /\ Seats(x)
  BY SettledFirst
<1>2. /\ x.status \in {"OPEN", "READY", "ACTIVE"} /\ x.seats[w].joined
      /\ x.seats[w].defendedAt = 0 /\ persist(t)
  <2>1. y = [x EXCEPT !.seats[w] = seat, !.rewardPool = @ + price]
    BY <1>1 DEF Lobby
  <2>2. QED
    BY <2>1 DEF buyDrone
<1> HIDE DEF s
<1>3. x.ending = "NONE" /\ Untouched(x)
  BY <1>1, <1>2 DEF Sound, Story
<1>4. price \in Nat
  BY StateFields DEF Books, ProtocolLimits
<1> HIDE DEF price
<1>5. /\ x.rewardPool \in Int /\ x.seats[w] \in Seat /\ x.seats \in [Players -> Seat]
      /\ x.seats[w].paidIn \in Nat /\ x.seats[w].probesPaid \in Nat
      /\ x.seats[w].purchased \in Nat /\ x.config.entryPrice \in Nat
      /\ commissionOf(x) \in Nat
  <2> HIDE DEF x
  <2> QED BY <1>1, LobbyFields, SeatFields
<1>6. x.seats[w].paidIn = x.config.entryPrice + commissionOf(x) + x.seats[w].probesPaid
  BY <1>1, <1>2 DEF Seats
<1> HIDE DEF x, t
<1>7. /\ seat \in Seat /\ seat.joined /\ seat.paidIn = x.seats[w].paidIn + price
      /\ seat.probesPaid = x.seats[w].probesPaid + price /\ seat.defendedAt = 0
      /\ seat.refunded = x.seats[w].refunded /\ seat.payout = x.seats[w].payout
  <2> DEFINE old == x.seats[w]
             n == old.purchased + 1
             p == old.paidIn + price
             q == old.probesPaid + price
  <2>1. n \in Nat /\ p \in Nat /\ q \in Nat /\ old \in Seat
    <3> HIDE DEF x
    <3> QED BY <1>4, <1>5
  <2>2. seat = [old EXCEPT !.purchased = n, !.paidIn = p, !.probesPaid = q]
    BY <2>1 DEF Seat
  <2>3. old.joined /\ old.defendedAt = 0
    BY <1>2
  <2> HIDE DEF n, p, q, seat, old
  <2>4. seat \in Seat /\ seat.paidIn = p /\ seat.probesPaid = q
    BY <2>1, <2>2 DEF Seat
  <2>5. /\ seat.joined = old.joined /\ seat.defendedAt = old.defendedAt
        /\ seat.refunded = old.refunded /\ seat.payout = old.payout
    BY <2>1, <2>2 DEF Seat
  <2>6. QED
    BY <2>3, <2>4, <2>5 DEF p, q, old
<1> HIDE DEF seat
<1>8. /\ seats \in [Players -> Seat] /\ seats[w] = seat
      /\ \A v \in Players : v # w => seats[v] = x.seats[v]
  BY <1>5, <1>7
<1> HIDE DEF seats
<1>9. /\ y \in Lobby /\ y.seats = seats /\ y.config = x.config /\ y.creator = x.creator
      /\ y.status = x.status /\ y.ending = x.ending /\ y.outcome = x.outcome
      /\ y.creatorSettled = x.creatorSettled /\ y.startPrizePool = x.startPrizePool
      /\ y.protocolFeeAccrued = x.protocolFeeAccrued
      /\ y.rewardPool = x.rewardPool + price
      /\ y.entryFeesCollected = x.entryFeesCollected
      /\ y.creatorFeeAccrued = x.creatorFeeAccrued
  <2> DEFINE r == x.rewardPool + price
  <2>1. r \in Int
    BY <1>4, <1>5
  <2>2. y = [x EXCEPT !.seats = seats, !.rewardPool = r]
    BY <1>1 DEF Lobby
  <2> HIDE DEF r, y
  <2>3. y \in Lobby /\ y.rewardPool = r
    BY <1>1, <1>8, <2>1, <2>2 DEF Lobby
  <2>4. QED
    BY <1>1, <2>2, <2>3 DEF Lobby, r
<1> HIDE DEF y
<1>10. OneSeat(x, y, w) /\ y.seats[w] = seat /\ commissionOf(y) = commissionOf(x)
  BY <1>8, <1>9 DEF OneSeat, commissionOf
<1>11. Seats(y)
  <2>1. seat.paidIn = x.config.entryPrice + commissionOf(x) + seat.probesPaid
    BY <1>4, <1>5, <1>6, <1>7
  <2>2. QED
    BY <1>1, <1>7, <1>9, <1>10, <2>1, SeatsStay
<1>12. /\ entryBy(y)[w] = entryBy(x)[w] /\ feeBy(y)[w] = feeBy(x)[w]
       /\ entryBy(x)[w] \in Nat /\ feeBy(x)[w] \in Nat
       /\ probesBy(x)[w] = x.seats[w].probesPaid
       /\ probesBy(y)[w] = x.seats[w].probesPaid + price
  BY <1>1, <1>2, <1>7, <1>9, <1>10, MoneyOfASeat
<1>13. Sound(y) /\ owed(y) = owed(x) + price
  <2>1. /\ y.entryFeesCollected = x.entryFeesCollected - entryBy(x)[w] + entryBy(y)[w]
        /\ y.creatorFeeAccrued = x.creatorFeeAccrued - feeBy(x)[w] + feeBy(y)[w]
        /\ y.rewardPool = x.rewardPool - probesBy(x)[w] + probesBy(y)[w]
    <3>1. x.entryFeesCollected \in Int /\ x.creatorFeeAccrued \in Int
      BY <1>1, LobbyFields
    <3>2. QED
      BY <1>4, <1>5, <1>9, <1>12, <3>1
  <2>2. ~y.seats[w].refunded /\ y.seats[w].payout # "PAID"
    BY <1>3, <1>7, <1>10 DEF Untouched
  <2>3. y.seats[w].joined = x.seats[w].joined
    BY <1>1, <1>2, <1>7, <1>9, <1>10, SeatFields
  <2>4. Sound(y) /\ owed(y) = owed(x) - x.seats[w].paidIn + y.seats[w].paidIn
    BY <1>1, <1>3, <1>9, <1>10, <1>11, <2>1, <2>2, <2>3, SeatChangeKeeps
  <2>5. owed(x) \in Int
    BY <1>1, OwedIsInt
  <2>6. QED
    BY <1>4, <1>5, <1>7, <1>10, <2>4, <2>5
<1>14. Rewrites(s, t, l)
  <2>1. t = [escrow(s, w, price) EXCEPT !.lobbies[l] = y] /\ price \in Int
    BY <1>4 DEF t
  <2>2. QED
    BY <1>1, <1>9, <1>13, <2>1, PaidInRewrites DEF x
<1>15. QED
  BY <1>1, <1>2, <1>14, WrittenIsKept

LEMMA QuietRewrites ==
    ASSUME NEW s, Books(s), NEW l \in DOMAIN s.lobbies, NEW y \in Lobby,
           Quiet(s.lobbies[l], y)
    PROVE  Rewrites(s, [s EXCEPT !.lobbies[l] = y], l)
<1>1. s.lobbies[l] \in Lobby /\ Sound(s.lobbies[l])
  BY StateFields DEF Books
<1>2. Sound(y) /\ owed(y) = owed(s.lobbies[l])
  BY <1>1, QuietKeeps
<1>3. /\ y.creator = s.lobbies[l].creator /\ y.status = s.lobbies[l].status
      /\ y.startPrizePool = s.lobbies[l].startPrizePool
  BY DEF Quiet, SameSeats, SameSums
<1>4. QED
  BY <1>2, <1>3, WriteRewrites

(* A probe or a defense.                                                   *)
LEMMA MoveRewrites ==
    ASSUME NEW s, Books(s), NEW l \in DOMAIN s.lobbies, NEW w \in Players,
           NEW seat \in Seat, NEW old, old = s.lobbies[l].seats[w], old.joined,
           seat.joined, seat.paidIn = old.paidIn, seat.probesPaid = old.probesPaid,
           seat.payout = old.payout, seat.refunded = old.refunded, seat.actions > 0
    PROVE  Rewrites(s, [s EXCEPT !.lobbies[l].seats[w] = seat], l)
<1> DEFINE x == s.lobbies[l]
           seats == [x.seats EXCEPT ![w] = seat]
           y == [x EXCEPT !.seats = seats]
<1>1. IsState(s) /\ x \in Lobby /\ Sound(x) /\ Seats(x)
  BY StateFields DEF Books, Sound
<1>2. [s EXCEPT !.lobbies[l].seats[w] = seat] = [s EXCEPT !.lobbies[l] = y]
  BY <1>1 DEF IsState, Lobby
<1>3. old = x.seats[w]
  OBVIOUS
<1> HIDE DEF x
<1>4. /\ seats \in [Players -> Seat] /\ seats[w] = seat
      /\ \A v \in Players : v # w => seats[v] = x.seats[v]
  <2>1. x.seats \in [Players -> Seat]
    BY <1>1, LobbyFields
  <2>2. QED
    BY <2>1
<1> HIDE DEF seats
<1>5. /\ y \in Lobby /\ y.seats = seats /\ y.config = x.config /\ y.creator = x.creator
      /\ y.status = x.status /\ y.ending = x.ending /\ y.outcome = x.outcome
      /\ y.creatorSettled = x.creatorSettled /\ SameSums(x, y)
  BY <1>1, <1>4 DEF Lobby, SameSums
<1> HIDE DEF y
<1>6. OneSeat(x, y, w) /\ y.seats[w] = seat
  BY <1>4, <1>5 DEF OneSeat
<1>7. Seats(y)
  <2>1. seat.paidIn = x.config.entryPrice + commissionOf(x) + seat.probesPaid
    BY <1>1, <1>3 DEF Seats
  <2>2. QED
    BY <1>1, <1>5, <1>6, <2>1, SeatsStay
<1>8. \A v \in Players :
          /\ y.seats[v].joined = x.seats[v].joined /\ y.seats[v].paidIn = x.seats[v].paidIn
          /\ y.seats[v].probesPaid = x.seats[v].probesPaid
          /\ y.seats[v].refunded = x.seats[v].refunded
          /\ y.seats[v].payout = x.seats[v].payout
  <2> TAKE v \in Players
  <2>1. CASE v # w
    BY <1>6, <2>1 DEF OneSeat
  <2>2. CASE v = w
    <3>1. seat.joined \in BOOLEAN /\ old.joined \in BOOLEAN
      BY <1>1, <1>3, SeatFields DEF Seat
    <3>2. QED
      BY <1>3, <1>6, <2>2, <3>1
  <2>3. QED
    BY <2>1, <2>2
<1>9. Quiet(x, y)
  BY <1>5, <1>7, <1>8 DEF Quiet, SameSeats
<1>10. Rewrites(s, [s EXCEPT !.lobbies[l] = y], l)
  BY <1>5, <1>9, QuietRewrites DEF x
<1>11. QED
  BY <1>2, <1>10

LEMMA ProbingKeeps ==
    ASSUME Books(chain), NEW l \in LobbyIds, NEW w \in Players, sendReconProbe(w, l)
    PROVE  Kept
<1> DEFINE s == settleLobby(chain, l)
           old == s.lobbies[l].seats[w]
           seat == [old EXCEPT !.probes = @ + 1, !.lastProbeBlock = s.block, !.actions = @ + 1]
           t == [s EXCEPT !.lobbies[l].seats[w] = seat]
<1>1. /\ Books(s) /\ Onward(chain, s) /\ l \in DOMAIN s.lobbies /\ s.lobbies[l] \in Lobby
      /\ s.block \in Int
  BY SettledFirst
<1>2. old.joined /\ persist(t)
  BY DEF sendReconProbe, mayAct
<1> HIDE DEF s
<1>3. old \in Seat /\ old.probes \in Nat /\ old.actions \in Nat
  BY <1>1, SeatFields
<1> HIDE DEF old
<1>4. /\ seat \in Seat /\ seat.joined /\ seat.paidIn = old.paidIn
      /\ seat.probesPaid = old.probesPaid /\ seat.payout = old.payout
      /\ seat.refunded = old.refunded /\ seat.actions > 0
  <2> DEFINE n == old.probes + 1
             a == old.actions + 1
             b == s.block
  <2>1. n \in Nat /\ a \in Nat /\ a > 0 /\ b \in Int
    BY <1>1, <1>3
  <2>2. seat = [old EXCEPT !.probes = n, !.lastProbeBlock = b, !.actions = a]
    BY <1>3 DEF Seat
  <2> HIDE DEF n, a, b, seat
  <2>3. QED
    BY <1>2, <1>3, <2>1, <2>2 DEF Seat
<1> HIDE DEF seat
<1>5. Rewrites(s, t, l)
  BY <1>1, <1>2, <1>4, MoveRewrites DEF old
<1>6. QED
  BY <1>1, <1>2, <1>5, WrittenIsKept

LEMMA DefendingKeeps ==
    ASSUME Books(chain), NEW l \in LobbyIds, NEW w \in Players, NEW onTarget \in BOOLEAN,
           submitDefense(w, l, onTarget)
    PROVE  Kept
<1> DEFINE s == settleLobby(chain, l)
           old == s.lobbies[l].seats[w]
           seat == [old EXCEPT !.defendedAt = s.block, !.onTarget = onTarget, !.actions = @ + 1]
           t == [s EXCEPT !.lobbies[l].seats[w] = seat]
<1>1. /\ Books(s) /\ Onward(chain, s) /\ l \in DOMAIN s.lobbies /\ s.lobbies[l] \in Lobby
      /\ s.block \in Int
  BY SettledFirst
<1>2. old.joined /\ persist(t)
  BY DEF submitDefense, mayAct
<1> HIDE DEF s
<1>3. old \in Seat /\ old.actions \in Nat
  BY <1>1, SeatFields
<1> HIDE DEF old
<1>4. /\ seat \in Seat /\ seat.joined /\ seat.paidIn = old.paidIn
      /\ seat.probesPaid = old.probesPaid /\ seat.payout = old.payout
      /\ seat.refunded = old.refunded /\ seat.actions > 0
  <2> DEFINE a == old.actions + 1
             b == s.block
  <2>1. a \in Nat /\ a > 0 /\ b \in Int
    BY <1>1, <1>3
  <2>2. seat = [old EXCEPT !.defendedAt = b, !.onTarget = onTarget, !.actions = a]
    BY <1>3 DEF Seat
  <2> HIDE DEF a, b, seat
  <2>3. QED
    BY <1>2, <1>3, <2>1, <2>2 DEF Seat
<1> HIDE DEF seat
<1>5. Rewrites(s, t, l)
  BY <1>1, <1>2, <1>4, MoveRewrites DEF old
<1>6. QED
  BY <1>1, <1>2, <1>5, WrittenIsKept

LEMMA RevealingKeeps ==
    ASSUME Books(chain), NEW l \in LobbyIds, revealAttack(l)
    PROVE  Kept
<1> DEFINE s == settleLobby(chain, l)
           x == s.lobbies[l]
           y == [x EXCEPT !.revealed = TRUE]
           t == [s EXCEPT !.lobbies[l] = y]
<1>1. /\ Books(s) /\ Onward(chain, s) /\ l \in DOMAIN s.lobbies /\ x \in Lobby /\ Seats(x)
      /\ IsState(s)
  BY SettledFirst
<1>2. persist(t)
  <2>1. t = [s EXCEPT !.lobbies[l].revealed = TRUE]
    BY <1>1 DEF IsState
  <2>2. QED
    BY <2>1 DEF revealAttack
<1> HIDE DEF s, x
<1>3. /\ y \in Lobby /\ y.seats = x.seats /\ y.config = x.config /\ y.creator = x.creator
      /\ y.status = x.status /\ y.ending = x.ending /\ y.outcome = x.outcome
      /\ y.creatorSettled = x.creatorSettled /\ SameSums(x, y)
  BY <1>1 DEF Lobby, SameSums
<1> HIDE DEF y
<1>4. commissionOf(y) = commissionOf(x)
  BY <1>3 DEF commissionOf
<1>5. Seats(y) /\ SameSeats(x, y)
  BY <1>1, <1>3, <1>4 DEF Seats, SameSeats
<1>6. Quiet(x, y)
  BY <1>3, <1>5 DEF Quiet
<1>7. Rewrites(s, t, l)
  BY <1>1, <1>3, <1>6, QuietRewrites DEF x
<1>8. QED
  BY <1>1, <1>2, <1>7, WrittenIsKept

(* A seat marked as paid, and the creator as settled or not.               *)
LEMMA MarkedSeat ==
    ASSUME NEW x \in Lobby, Seats(x), NEW y \in Lobby, NEW w \in Players, OneSeat(x, y, w),
           y.seats[w].joined = x.seats[w].joined, y.seats[w].paidIn = x.seats[w].paidIn,
           y.seats[w].probesPaid = x.seats[w].probesPaid,
           y.seats[w].defendedAt = x.seats[w].defendedAt,
           y.seats[w].actions = x.seats[w].actions,
           ~y.seats[w].joined => y.seats[w] = x.seats[w],
           SameSums(x, y), y.status = x.status, y.ending = x.ending, y.outcome = x.outcome
    PROVE  SameEnding(x, y)
<1>1. commissionOf(y) = commissionOf(x)
  BY DEF OneSeat, commissionOf
<1>2. \A v \in Players :
          /\ y.seats[v].joined = x.seats[v].joined /\ y.seats[v].paidIn = x.seats[v].paidIn
          /\ y.seats[v].probesPaid = x.seats[v].probesPaid
          /\ y.seats[v].defendedAt = x.seats[v].defendedAt
          /\ y.seats[v].actions = x.seats[v].actions
          /\ ~x.seats[v].joined => y.seats[v] = x.seats[v]
  BY DEF OneSeat
<1>3. Seats(y)
  BY <1>1, <1>2 DEF Seats, OneSeat
<1>4. SameSeats(x, y)
  BY <1>2 DEF SameSeats, OneSeat
<1>5. QED
  BY <1>3, <1>4 DEF SameEnding

LEMMA RewardingKeeps ==
    ASSUME Books(chain), NEW l \in LobbyIds, NEW w \in Players, claimReward(w, l)
    PROVE  Kept
<1> DEFINE s == settleLobby(chain, l)
           x == s.lobbies[l]
           fee == IF w = x.creator /\ ~x.creatorSettled THEN completedCreatorDue(x) ELSE 0
           settled == x.creatorSettled \/ fee > 0
           seat == [x.seats[w] EXCEPT !.payout = "PAID"]
           seats == [x.seats EXCEPT ![w] = seat]
           y == [x EXCEPT !.seats = seats, !.creatorSettled = settled]
           amount == x.outcome.rewardPerWinner + fee
           t == payOut([s EXCEPT !.lobbies[l] = y], w, amount)
<1>1. /\ Books(s) /\ Onward(chain, s) /\ l \in DOMAIN s.lobbies
      /\ x \in Lobby /\ Sound(x) /\ Seats(x)
  BY SettledFirst
<1>2. /\ x.seats[w].joined /\ w \in x.outcome.winners /\ x.seats[w].payout # "PAID"
      /\ persist(t)
  <2>1. y = [x EXCEPT !.seats[w].payout = "PAID", !.creatorSettled = @ \/ fee > 0]
    <3>1. x.seats \in [Players -> Seat]
      BY <1>1 DEF Lobby
    <3>2. [x.seats EXCEPT ![w].payout = "PAID"] = seats
      BY <3>1
    <3>3. QED
      BY <1>1, <3>2 DEF Lobby
  <2>2. QED
    BY <2>1 DEF claimReward
<1> HIDE DEF s
<1>3. x.ending = "COMPLETED"
  BY <1>1, <1>2 DEF Sound, Story
<1>4. /\ x.seats[w] \in Seat /\ x.creatorSettled \in BOOLEAN
      /\ x.outcome.rewardPerWinner \in Nat
  <2> HIDE DEF x
  <2> QED BY <1>1, LobbyFields, SeatFields
<1>5. /\ seat \in Seat /\ seat.joined = x.seats[w].joined /\ seat.paidIn = x.seats[w].paidIn
      /\ seat.probesPaid = x.seats[w].probesPaid
      /\ seat.defendedAt = x.seats[w].defendedAt /\ seat.actions = x.seats[w].actions
      /\ seat.joined /\ seat.payout = "PAID"
  <2> HIDE DEF x
  <2> QED BY <1>2, <1>4 DEF Seat
<1> HIDE DEF x, seat, t
<1>6. fee = 0 \/ (fee = completedCreatorDue(x) /\ ~x.creatorSettled)
  OBVIOUS
<1> HIDE DEF fee
<1>7. settled \in BOOLEAN /\ settled = (x.creatorSettled \/ fee > 0)
  BY <1>4
<1> HIDE DEF settled
<1>8. /\ y \in Lobby /\ SameEnding(x, y) /\ y.seats[w] = seat /\ y.creatorSettled = settled
      /\ \A v \in Players : v # w => y.seats[v] = x.seats[v]
  <2>1. /\ seats \in [Players -> Seat] /\ seats[w] = seat
        /\ \A v \in Players : v # w => seats[v] = x.seats[v]
    <3>1. x.seats \in [Players -> Seat]
      BY <1>1, LobbyFields
    <3>2. QED
      BY <1>5, <3>1
  <2> HIDE DEF seats
  <2>2. /\ y \in Lobby /\ y.seats = seats /\ y.config = x.config /\ y.creator = x.creator
        /\ y.status = x.status /\ y.ending = x.ending /\ y.outcome = x.outcome
        /\ y.creatorSettled = settled /\ SameSums(x, y)
    BY <1>1, <1>7, <2>1 DEF Lobby, SameSums
  <2> HIDE DEF y
  <2>3. OneSeat(x, y, w) /\ y.seats[w] = seat
    BY <2>1, <2>2 DEF OneSeat
  <2>4. SameEnding(x, y)
    BY <1>1, <1>5, <2>2, <2>3, MarkedSeat
  <2>5. QED
    BY <2>1, <2>2, <2>4
<1> HIDE DEF y
<1>9. Sound(y) /\ fee \in Nat /\ owed(y) = owed(x) - amount
  <2>1. \A v \in Players : v # w => y.seats[v].payout = x.seats[v].payout
    BY <1>8
  <2>2. QED
    BY <1>1, <1>2, <1>3, <1>5, <1>6, <1>7, <1>8, <2>1, RewardOwes
<1>10. amount \in Int
  BY <1>4, <1>9
<1> HIDE DEF amount
<1>11. Rewrites(s, t, l)
  <2>1. t = payOut([s EXCEPT !.lobbies[l] = y], w, amount)
    BY DEF t
  <2>2. QED
    BY <1>1, <1>8, <1>9, <1>10, <2>1, PaidOutRewrites
       DEF x, SameEnding, SameSeats, SameSums
<1>12. QED
  BY <1>1, <1>2, <1>11, WrittenIsKept

LEMMA RefundingKeeps ==
    ASSUME Books(chain), NEW l \in LobbyIds, NEW w \in Players, claimRefund(w, l)
    PROVE  Kept
<1> DEFINE s == settleLobby(chain, l)
           x == s.lobbies[l]
           due == IF x.seats[w].joined /\ ~x.seats[w].refunded THEN x.seats[w].paidIn ELSE 0
           launch == IF w = x.creator /\ ~x.creatorSettled THEN x.startPrizePool ELSE 0
           settled == x.creatorSettled \/ launch > 0
           seat == [x.seats[w] EXCEPT !.refunded = @ \/ due > 0]
           seats == [x.seats EXCEPT ![w] = seat]
           y == [x EXCEPT !.seats = seats, !.creatorSettled = settled]
           amount == due + launch
           t == payOut([s EXCEPT !.lobbies[l] = y], w, amount)
<1>1. /\ Books(s) /\ Onward(chain, s) /\ l \in DOMAIN s.lobbies
      /\ x \in Lobby /\ Sound(x) /\ Seats(x)
  BY SettledFirst
<1>2. refundable(x) /\ persist(t)
  <2>1. y = [x EXCEPT !.seats[w].refunded = @ \/ due > 0,
                      !.creatorSettled = @ \/ launch > 0]
    <3>1. x.seats \in [Players -> Seat]
      BY <1>1 DEF Lobby
    <3>2. [x.seats EXCEPT ![w].refunded = @ \/ due > 0] = seats
      BY <3>1
    <3>3. QED
      BY <1>1, <3>2 DEF Lobby
  <2>2. QED
    BY <2>1 DEF claimRefund
<1> HIDE DEF s
<1>3. /\ x.seats[w] \in Seat /\ x.creatorSettled \in BOOLEAN
      /\ x.seats[w].refunded \in BOOLEAN /\ x.ending \in {"NONE", "UNPLAYED", "COMPLETED"}
  <2> HIDE DEF x
  <2> QED BY <1>1, LobbyFields, SeatFields
<1>4. x.ending = "UNPLAYED"
  BY <1>2, <1>3 DEF refundable
<1> HIDE DEF x, t
<1>5. /\ due = IF x.seats[w].joined /\ ~x.seats[w].refunded THEN x.seats[w].paidIn ELSE 0
      /\ ~x.seats[w].joined => due = 0
      /\ launch = 0 \/ (launch = x.startPrizePool /\ ~x.creatorSettled)
  OBVIOUS
<1> HIDE DEF due, launch
<1>6. /\ seat \in Seat /\ seat.joined = x.seats[w].joined /\ seat.paidIn = x.seats[w].paidIn
      /\ seat.probesPaid = x.seats[w].probesPaid
      /\ seat.defendedAt = x.seats[w].defendedAt /\ seat.actions = x.seats[w].actions
      /\ seat.refunded = (x.seats[w].refunded \/ due > 0)
      /\ ~seat.joined => seat = x.seats[w]
  <2> DEFINE old == x.seats[w]
             paid == old.refunded \/ due > 0
  <2>1. old \in Seat /\ paid \in BOOLEAN /\ (~old.joined => paid = old.refunded)
    BY <1>3, <1>5
  <2>2. seat = [old EXCEPT !.refunded = paid]
    BY <1>3 DEF Seat
  <2>3. paid = (x.seats[w].refunded \/ due > 0)
    OBVIOUS
  <2> HIDE DEF seat, paid, old
  <2>4. /\ seat \in Seat /\ seat.joined = old.joined /\ seat.paidIn = old.paidIn
        /\ seat.probesPaid = old.probesPaid
        /\ seat.defendedAt = old.defendedAt /\ seat.actions = old.actions
        /\ seat.refunded = paid
    BY <2>1, <2>2 DEF Seat
  <2>5. paid = old.refunded => seat = old
    BY <2>1, <2>2 DEF Seat
  <2>6. QED
    BY <2>1, <2>3, <2>4, <2>5 DEF old
<1> HIDE DEF seat
<1>7. settled \in BOOLEAN /\ settled = (x.creatorSettled \/ launch > 0)
  BY <1>3
<1> HIDE DEF settled
<1>8. /\ y \in Lobby /\ SameEnding(x, y) /\ y.seats[w] = seat /\ y.creatorSettled = settled
      /\ \A v \in Players : v # w => y.seats[v] = x.seats[v]
  <2>1. /\ seats \in [Players -> Seat] /\ seats[w] = seat
        /\ \A v \in Players : v # w => seats[v] = x.seats[v]
    <3>1. x.seats \in [Players -> Seat]
      BY <1>1, LobbyFields
    <3>2. QED
      BY <1>6, <3>1
  <2> HIDE DEF seats
  <2>2. /\ y \in Lobby /\ y.seats = seats /\ y.config = x.config /\ y.creator = x.creator
        /\ y.status = x.status /\ y.ending = x.ending /\ y.outcome = x.outcome
        /\ y.creatorSettled = settled /\ SameSums(x, y)
    BY <1>1, <1>7, <2>1 DEF Lobby, SameSums
  <2> HIDE DEF y
  <2>3. OneSeat(x, y, w) /\ y.seats[w] = seat
    BY <2>1, <2>2 DEF OneSeat
  <2>4. SameEnding(x, y)
    BY <1>1, <1>6, <2>2, <2>3, MarkedSeat
  <2>5. QED
    BY <2>1, <2>2, <2>4
<1> HIDE DEF y
<1>9. Sound(y) /\ due \in Nat /\ launch \in Nat /\ owed(y) = owed(x) - amount
  <2>1. \A v \in Players : v # w => y.seats[v].refunded = x.seats[v].refunded
    BY <1>8
  <2>2. QED
    BY <1>1, <1>4, <1>5, <1>6, <1>7, <1>8, <2>1, RefundOwes
<1>10. amount \in Int
  BY <1>9
<1> HIDE DEF amount
<1>11. Rewrites(s, t, l)
  <2>1. t = payOut([s EXCEPT !.lobbies[l] = y], w, amount)
    BY DEF t
  <2>2. QED
    BY <1>1, <1>8, <1>9, <1>10, <2>1, PaidOutRewrites
       DEF x, SameEnding, SameSeats, SameSums
<1>12. QED
  BY <1>1, <1>2, <1>11, WrittenIsKept

LEMMA SettlingTheCreatorKeeps ==
    ASSUME Books(chain), NEW l \in LobbyIds, settleCreator(l)
    PROVE  Kept
<1> DEFINE s == settleLobby(chain, l)
           x == s.lobbies[l]
           due == creatorDue(x)
           y == [x EXCEPT !.creatorSettled = TRUE]
           m == [s EXCEPT !.lobbies[l] = y]
           pooled == [m EXCEPT !.globalDefensePool = @ + due]
           t == IF due = 0 THEN m
                ELSE IF x.creator = Protocol THEN pooled ELSE payOut(m, x.creator, due)
<1>1. /\ Books(s) /\ Onward(chain, s) /\ l \in DOMAIN s.lobbies /\ IsState(s)
      /\ x \in Lobby /\ Sound(x) /\ Seats(x)
  BY SettledFirst
<1>2. x.ending # "NONE" /\ ~x.creatorSettled /\ persist(t)
  <2>1. m = [s EXCEPT !.lobbies[l].creatorSettled = TRUE]
    BY <1>1 DEF IsState
  <2> HIDE DEF m
  <2>2. QED
    BY <2>1 DEF settleCreator
<1> HIDE DEF s
<1>3. /\ x.creator \in Players \cup {Protocol} /\ x.startPrizePool \in Nat
      /\ s.globalDefensePool \in Nat /\ s.escrow \in Int
  <2> HIDE DEF x
  <2> QED BY <1>1, LobbyFields, StateFields
<1> HIDE DEF x
<1>4. /\ y \in Lobby /\ y.seats = x.seats /\ y.config = x.config /\ y.creator = x.creator
      /\ y.status = x.status /\ y.ending = x.ending /\ y.outcome = x.outcome
      /\ y.creatorSettled /\ SameSums(x, y)
  BY <1>1 DEF Lobby, SameSums
<1> HIDE DEF y
<1>5. commissionOf(y) = commissionOf(x)
  BY <1>4 DEF commissionOf
<1>6. SameEnding(x, y)
  BY <1>1, <1>4, <1>5 DEF SameEnding, SameSeats, Seats
<1>7. Sound(y) /\ owed(y) = owed(x) - due /\ due \in Nat /\ owed(x) \in Int
  BY <1>1, <1>2, <1>4, <1>6, SettledOwes, OwedIsInt
<1> HIDE DEF due
<1>8. y.startPrizePool = x.startPrizePool
  BY <1>4 DEF SameSums
<1>9. CASE due = 0
  <2>1. owed(y) = owed(s.lobbies[l])
    BY <1>7, <1>9 DEF x
  <2>2. Rewrites(s, m, l)
    BY <1>1, <1>4, <1>7, <1>8, <2>1, WriteRewrites DEF x
  <2> HIDE DEF m
  <2>3. QED
    BY <1>1, <1>2, <1>9, <2>2, WrittenIsKept
<1>10. CASE due # 0 /\ x.creator # Protocol
  <2> DEFINE w == x.creator
             u == payOut(m, w, due)
  <2>1. w \in Players
    BY <1>3, <1>10
  <2>2. owed(y) = owed(s.lobbies[l]) - due /\ due \in Int
    BY <1>7 DEF x
  <2>3. u = payOut([s EXCEPT !.lobbies[l] = y], w, due)
    OBVIOUS
  <2>4. t = u
    BY <1>10
  <2> HIDE DEF u, w, m
  <2>5. Rewrites(s, u, l)
    BY <1>1, <1>4, <1>7, <1>8, <2>1, <2>2, <2>3, PaidOutRewrites DEF x
  <2> HIDE DEF t
  <2>6. QED
    BY <1>1, <1>2, <2>4, <2>5, WrittenIsKept
<1>11. CASE due # 0 /\ x.creator = Protocol
  <2> DEFINE P == m.globalDefensePool + due
  <2>1. /\ IsState(m) /\ Alike(s, m)
        /\ m.escrow = s.escrow /\ m.globalDefensePool = s.globalDefensePool
        /\ DOMAIN m.lobbies = DOMAIN s.lobbies /\ m.lobbies[l] = y
        /\ \A k \in DOMAIN s.lobbies : k # l => m.lobbies[k] = s.lobbies[k]
    BY <1>1, <1>4, WriteLobby
  <2>2. t = pooled /\ pooled = [m EXCEPT !.globalDefensePool = P]
    BY <1>11, <2>1 DEF IsState
  <2> HIDE DEF m, pooled
  <2>3. P \in Nat /\ P = s.globalDefensePool + due
    BY <1>3, <1>7, <2>1
  <2> HIDE DEF P
  <2>4. /\ IsState(pooled) /\ Alike(m, pooled) /\ pooled.lobbies = m.lobbies
        /\ pooled.escrow = m.escrow /\ pooled.globalDefensePool = P
    BY <2>1, <2>2, <2>3 DEF IsState, Alike
  <2>5. GoesOn(s, pooled, l)
    BY <1>3, <1>4, <1>8, <2>1, <2>4 DEF GoesOn, x
  <2>6. ~(pooled.globalDefensePool < s.globalDefensePool)
    BY <1>3, <1>7, <2>3, <2>4
  <2>7. pooled.escrow - pooled.globalDefensePool - owed(y)
            = s.escrow - s.globalDefensePool - owed(x)
    BY <1>3, <1>7, <2>1, <2>3, <2>4
  <2>8. Rewrites(s, pooled, l)
    BY <1>7, <2>1, <2>4, <2>5, <2>6, <2>7 DEF Rewrites, Alike, x
  <2> HIDE DEF t
  <2>9. QED
    BY <1>1, <1>2, <2>2, <2>8, WrittenIsKept
<1>12. QED
  BY <1>9, <1>10, <1>11

-----------------------------------------------------------------------------
(* The steps that are no write on an operation, and all of them together.  *)

LEMMA StartedBooks ==
    ASSUME Init
    PROVE  Books(chain) /\ Books(disk)
<1> DEFINE limits == start.limits
           pile == start.pile
           wallet == [w \in Players |-> StartBalance]
           none == [e \in {} |-> 0]
           s == [ limits |-> limits, block |-> InitialBlock, wallet |-> wallet,
                  escrow |-> pile, globalDefensePool |-> pile,
                  globalDefenseLobby |-> none, lobbies |-> <<>> ]
<1>1. limits \in ProtocolLimits /\ pile \in Nat
  BY StartsAssumption DEF Init
<1>2. chain = s /\ disk = chain
  BY DEF Init, createEmulatorState
<1>3. wallet \in [Players -> Int] /\ InitialBlock \in Int
  BY EmulatorAssumption
<1>4. none = [e \in {} |-> none[e]] /\ DOMAIN none = {} /\ none \in [DOMAIN none -> Nat]
  OBVIOUS
<1> HIDE DEF limits, pile, wallet, none
<1>5. /\ s.lobbies = <<>> /\ s.escrow = pile /\ s.globalDefensePool = pile
      /\ s.globalDefenseLobby = none
  OBVIOUS
<1>6. IsState(s)
  <2>1. <<>> \in Seq(Lobby)
    OBVIOUS
  <2>2. QED
    BY <1>1, <1>3, <1>4, <2>1 DEF IsState
<1>7. DOMAIN s.lobbies = {}
  BY <1>5
<1>8. Total(dues(s), {}) = 0
  BY TotalUnfolds, FS_EmptySet
<1> HIDE DEF s
<1>9. s.escrow = s.globalDefensePool + Total(dues(s), DOMAIN s.lobbies)
  BY <1>1, <1>5, <1>7, <1>8
<1>10. Books(s)
  BY <1>4, <1>5, <1>6, <1>7, <1>9 DEF Books, Booked
<1>11. QED
  BY <1>2, <1>10

LEMMA SeatedKeeps ==
    ASSUME Books(chain), ~Rejoins, NEW l \in LobbyIds, NEW w \in Players, Seated(w, l)
    PROVE  Kept
<1>1. CASE joinLobby(w, l)
  BY <1>1, JoiningKeeps
<1>2. CASE leaveLobby(w, l)
  BY <1>2, LeavingKeeps
<1>3. CASE buyDrone(w, l)
  BY <1>3, BuyingKeeps
<1>4. CASE sendReconProbe(w, l)
  BY <1>4, ProbingKeeps
<1>5. CASE \E onTarget \in BOOLEAN : submitDefense(w, l, onTarget)
  BY <1>5, DefendingKeeps
<1>6. CASE claimReward(w, l)
  BY <1>6, RewardingKeeps
<1>7. CASE claimRefund(w, l)
  BY <1>7, RefundingKeeps
<1>8. QED
  BY <1>1, <1>2, <1>3, <1>4, <1>5, <1>6, <1>7 DEF Seated

LEMMA LifecycleKeeps ==
    ASSUME Books(chain), NEW l \in LobbyIds, Lifecycle(l)
    PROVE  Kept
<1>1. Onward(chain, settleLobby(chain, l))
  BY SettlingKeeps DEF LobbyIds
<1>2. CASE readLobby(l)
  BY <1>1, <1>2 DEF readLobby, Kept, Onward
<1>3. CASE refused(l)
  BY <1>1, <1>3 DEF refused, persist, Kept, Onward
<1>4. CASE revealAttack(l)
  BY <1>4, RevealingKeeps
<1>5. CASE settleCreator(l)
  BY <1>5, SettlingTheCreatorKeeps
<1>6. QED
  BY <1>2, <1>3, <1>4, <1>5 DEF Lifecycle

(* Any step keeps the books of what this tab has, a reload apart, which    *)
(* goes back to the books that were saved.                                 *)
LEMMA EveryStepKeeps ==
    ASSUME Books(chain), ~Rejoins, [Next]_emulatorVars
    PROVE  Kept \/ (chain' = disk /\ disk' = disk)
<1>1. CASE Tick
  BY <1>1, BlockKeeps DEF Tick, persist, Kept
<1>2. CASE Reload
  BY <1>2 DEF Reload
<1>3. CASE getGameStats
  BY <1>3, StatsKeep DEF getGameStats, Kept
<1>4. CASE openGlobalDefense
  BY <1>4, DrawOpeningKeeps DEF openGlobalDefense, applyOpenGlobalDefenseOK, persist, Kept
<1>5. CASE \E w \in Creators, config \in Configs, d \in 0 .. MaxDeadline :
               createLobby(w, config, d)
  BY <1>5, CreatingKeeps
<1>6. CASE \E l \in LobbyIds : Lifecycle(l) \/ \E w \in Players : Seated(w, l)
  BY <1>6, LifecycleKeeps, SeatedKeeps
<1>7. CASE UNCHANGED emulatorVars
  BY <1>7, NothingLeads DEF emulatorVars, Kept
<1>8. QED
  BY <1>1, <1>2, <1>3, <1>4, <1>5, <1>6, <1>7 DEF Next

LEMMA StepKeepsTheBooks ==
    ASSUME Books(chain) /\ Books(disk), ~Rejoins, [Next]_emulatorVars
    PROVE  Books(chain') /\ Books(disk')
BY EveryStepKeeps DEF Kept

-----------------------------------------------------------------------------
(* What this says of the chain in the browser.                             *)

(* Whatever is clicked, in whatever order, however often the tab is closed *)
(* and opened again: the books of what it has in memory and of what it     *)
(* saved are right, as long as the page offers no seat to who has one.     *)
THEOREM TheEmulatorKeepsItsBooks ==
    ASSUME ~Rejoins
    PROVE  Spec => [](Books(chain) /\ Books(disk))
<1>1. Init => Books(chain) /\ Books(disk)
  BY StartedBooks
<1>2. (Books(chain) /\ Books(disk)) /\ [Next]_emulatorVars => (Books(chain) /\ Books(disk))'
  BY StepKeepsTheBooks
<1>3. QED
  BY <1>1, <1>2, PTL DEF Spec

(* The emulator's escrow is the Global Defense Pool and what every         *)
(* operation still owes: nothing is paid twice, no claim finds it short.   *)
THEOREM TheEmulatorIsSolvent ==
    ASSUME ~Rejoins
    PROVE  Spec => []EscrowHoldsWhatIsOwed
<1>1. Books(chain) => EscrowHoldsWhatIsOwed
  BY DuesFacts, DuesTotal DEF Books, EscrowHoldsWhatIsOwed, LobbyIds
<1>2. QED
  BY <1>1, TheEmulatorKeepsItsBooks, PTL

(* The Global Defense Pool falls only when an open draw starts, and that   *)
(* draw's bounty is then all of it; a reload goes back to what was saved.  *)
THEOREM TheEmulatorsPoolIsTakenWhole ==
    ASSUME ~Rejoins
    PROVE  Spec => PoolFallsOnlyAtAStart
<1> DEFINE Falls ==
        chain'.globalDefensePool < chain.globalDefensePool /\ chain' # disk =>
          \E l \in LobbyIds \ playersRooms :
              /\ chain.lobbies[l].status = "OPEN"
              /\ chain'.lobbies[l].status # "OPEN"
              /\ chain'.lobbies[l].startPrizePool >= chain.globalDefensePool
<1>1. ASSUME Books(chain), [Next]_emulatorVars
      PROVE  Falls
  <2>1. Kept \/ chain' = disk
    BY <1>1, EveryStepKeeps
  <2>2. CASE Kept
    BY <2>2 DEF Kept, Leads, DrawStarts, LobbyIds, playersRooms
  <2>3. CASE chain' = disk
    BY <2>3
  <2>4. QED
    BY <2>1, <2>2, <2>3
<1>2. Books(chain) /\ [Next]_emulatorVars => [Falls]_emulatorVars
  BY <1>1
<1>3. Spec => [](Books(chain) /\ Books(disk))
  BY TheEmulatorKeepsItsBooks
<1> HIDE DEF Falls
<1>4. Spec => [][Falls]_emulatorVars
  BY <1>2, <1>3, PTL DEF Spec
<1>5. QED
  BY <1>4 DEF PoolFallsOnlyAtAStart, Falls

(* The draw that a block or a reading opens is one openGlobalDefense would *)
(* not refuse: the block timer does not throw before it saves.             *)
THEOREM TheUpkeepNeverThrows == Spec => []UpkeepNeverThrows
<1>1. UpkeepNeverThrows
  BY DEF UpkeepNeverThrows, isGlobalDefenseDue, applyOpenGlobalDefenseOK,
         isInGlobalDefenseJoinWindow
<1>2. QED
  BY <1>1, PTL

-----------------------------------------------------------------------------
(* A player's operation is settled by itself: what becomes of it depends   *)
(* on it, the limits and the block, and on nothing else of the chain.      *)

closedAt(x, limits, b) ==
    IF x.status # "OPEN" \/ b < x.deadlineBlock THEN x
    ELSE IF x.participantCount >= x.config.minPlayers
    THEN running([x EXCEPT !.status = "READY"], limits)
    ELSE returned([x EXCEPT !.status = "CANCELLED", !.ending = "UNPLAYED",
                            !.drawBounty = x.drawBounty])

flown(y, b) ==
    IF b >= y.attack.impactBlock THEN resolved([y EXCEPT !.attack.status = "LAUNCHED"], b)
    ELSE IF b >= y.attack.launchBlock THEN [y EXCEPT !.attack.status = "LAUNCHED"]
    ELSE y

roomAt(x, limits, b) ==
    LET y == closedAt(x, limits, b) IN IF y.status = "ACTIVE" THEN flown(y, b) ELSE y

(* One operation moved, and nothing else but money.                        *)
Touches(s, t, l) ==
    /\ Alike(s, t)
    /\ DOMAIN t.lobbies = DOMAIN s.lobbies
    /\ \A k \in DOMAIN s.lobbies : k # l => t.lobbies[k] = s.lobbies[k]
    /\ t.lobbies[l].creator = s.lobbies[l].creator

LEMMA RewritesTouches ==
    ASSUME NEW s, NEW t, NEW l, Rewrites(s, t, l)
    PROVE  Touches(s, t, l)
BY DEF Rewrites, GoesOn, Touches

LEMMA TouchesAgain ==
    ASSUME NEW s, NEW t, NEW u, NEW l, Touches(s, t, l), Touches(t, u, l)
    PROVE  Touches(s, u, l)
BY DEF Touches, Alike

LEMMA BegunRoom ==
    ASSUME NEW s, Books(s), NEW l \in DOMAIN s.lobbies, s.lobbies[l].creator # Protocol
    PROVE  begun(s, l).lobbies[l] = closedAt(s.lobbies[l], s.limits, s.block)
<1> DEFINE x == s.lobbies[l]
<1>1. x.status # "READY" /\ x \in Lobby
  BY StateFields DEF Books, Sound, Story
<1>2. CASE x.status # "OPEN" \/ s.block < x.deadlineBlock
  <2>1. begun(s, l) = s
    BY <1>1, <1>2 DEF begun, closeApplications, startOperation
  <2>2. QED
    BY <1>2, <2>1 DEF closedAt
<1>3. CASE /\ x.status = "OPEN" /\ ~(s.block < x.deadlineBlock)
           /\ x.participantCount >= x.config.minPlayers
  <2>1. closeApplications(s, l) = [s EXCEPT !.lobbies[l].status = "READY"]
    BY <1>3 DEF closeApplications
  <2>2. QED
    BY <1>3, <2>1, FullRoomStarts DEF closedAt
<1>4. CASE /\ x.status = "OPEN" /\ ~(s.block < x.deadlineBlock)
           /\ ~(x.participantCount >= x.config.minPlayers)
  <2> DEFINE m == [s EXCEPT !.lobbies[l] =
                      [x EXCEPT !.status = "CANCELLED", !.ending = "UNPLAYED",
                                !.drawBounty = IF x.creator = Protocol
                                               THEN s.globalDefensePool ELSE @]]
  <2>1. closeApplications(s, l) = payoutUnplayed(m, l)
    BY <1>4 DEF closeApplications
  <2> HIDE DEF m
  <2>2. m = [s EXCEPT !.lobbies[l] =
                [s.lobbies[l] EXCEPT
                    !.status = "CANCELLED", !.ending = "UNPLAYED",
                    !.drawBounty = IF s.lobbies[l].creator = Protocol
                                   THEN s.globalDefensePool ELSE @]]
    BY DEF m
  <2>3. begun(s, l).lobbies[l] =
            returned([x EXCEPT !.status = "CANCELLED", !.ending = "UNPLAYED",
                               !.drawBounty = IF x.creator = Protocol
                                              THEN s.globalDefensePool ELSE @])
    BY <1>4, <2>1, <2>2, EmptyRoomReturns
  <2>4. [x EXCEPT !.status = "CANCELLED", !.ending = "UNPLAYED",
                  !.drawBounty = IF x.creator = Protocol THEN s.globalDefensePool ELSE @]
        = [x EXCEPT !.status = "CANCELLED", !.ending = "UNPLAYED",
                    !.drawBounty = x.drawBounty]
    BY <1>1 DEF Lobby
  <2>5. QED
    BY <1>4, <2>3, <2>4 DEF closedAt
<1>5. QED
  BY <1>2, <1>3, <1>4

LEMMA SettlingRoom ==
    ASSUME NEW s, Books(s), NEW l \in DOMAIN s.lobbies
    PROVE  /\ Touches(s, settleLobby(s, l), l)
           /\ s.lobbies[l].creator # Protocol =>
                 settleLobby(s, l).lobbies[l] = roomAt(s.lobbies[l], s.limits, s.block)
<1> DEFINE b == begun(s, l)
           f == launched(b, l)
           r == resolveAttack(f, l)
           y == b.lobbies[l]
<1>1. Rewrites(s, b, l) /\ Touches(s, b, l) /\ Books(b) /\ l \in DOMAIN b.lobbies
  BY BegunRewrites, RewritesKeeps, RewritesTouches DEF Rewrites
<1>2. settleLobby(s, l) = advanceAttack(b, l)
  BY DEF settleLobby, begun
<1>3. s.lobbies[l].creator # Protocol => y = closedAt(s.lobbies[l], s.limits, s.block)
  BY BegunRoom
<1>4. b.block = s.block
  BY <1>1 DEF Touches, Alike
<1> HIDE DEF b
<1>5. /\ Touches(b, f, l) /\ f.lobbies[l] = [y EXCEPT !.attack.status = "LAUNCHED"]
      /\ Books(f) /\ l \in DOMAIN f.lobbies /\ f.lobbies[l].status = y.status
  <2>1. Rewrites(b, f, l) /\ f.lobbies[l] = [y EXCEPT !.attack.status = "LAUNCHED"]
        /\ f.lobbies[l].status = y.status
    BY <1>1, LaunchedRewrites
  <2> HIDE DEF f, y
  <2>2. QED
    BY <1>1, <2>1, RewritesKeeps, RewritesTouches DEF Rewrites
<1>6. advanceAttack(b, l) = IF y.status # "ACTIVE" THEN b
                            ELSE IF b.block >= y.attack.impactBlock THEN r
                            ELSE IF b.block >= y.attack.launchBlock THEN f
                            ELSE b
  BY DEF advanceAttack, launched
<1> HIDE DEF f
<1>7. ASSUME y.status = "ACTIVE"
      PROVE  Touches(b, r, l) /\ r.lobbies[l] = resolved(f.lobbies[l], s.block)
  <2>1. Rewrites(f, r, l) /\ r.lobbies[l] = resolved(f.lobbies[l], f.block)
    BY <1>5, <1>7, AttackRewrites
  <2>2. f.block = s.block
    BY <1>4, <1>5 DEF Touches, Alike
  <2> HIDE DEF r
  <2>3. QED
    BY <1>5, <2>1, <2>2, RewritesTouches, TouchesAgain
<1> HIDE DEF r
<1>8. Touches(b, b, l)
  BY DEF Touches, Alike
<1>9. /\ Touches(b, advanceAttack(b, l), l)
      /\ advanceAttack(b, l).lobbies[l] = IF y.status = "ACTIVE" THEN flown(y, s.block) ELSE y
  BY <1>4, <1>5, <1>6, <1>7, <1>8 DEF flown
<1>10. Touches(s, settleLobby(s, l), l)
  BY <1>1, <1>2, <1>9, TouchesAgain
<1> HIDE DEF y
<1>11. QED
  BY <1>2, <1>3, <1>9, <1>10 DEF roomAt, y

-----------------------------------------------------------------------------
(* What settling makes of an operation, at a block and at a later one.     *)

(* All of an operation but the block somebody first looked at its end.     *)
seen(x) == [x EXCEPT !.outcome.resolvedAtBlock = 0]

(* There is nothing to settle at this block.                               *)
Still(y, b) ==
    /\ y.status # "READY"
    /\ y.status = "OPEN" => b < y.deadlineBlock
    /\ y.status = "ACTIVE" => /\ b < y.attack.impactBlock
                              /\ b >= y.attack.launchBlock => y.attack.status = "LAUNCHED"

LEMMA StillRoom ==
    ASSUME NEW y \in Lobby, NEW limits, NEW b \in Int, Still(y, b)
    PROVE  roomAt(y, limits, b) = y
<1>1. closedAt(y, limits, b) = y
  BY DEF closedAt, Still
<1>2. y.attack \in Attack /\ y.attack.impactBlock \in Int /\ y.attack.launchBlock \in Int
  BY LobbyFields DEF Attack
<1>3. CASE y.status = "ACTIVE" /\ b >= y.attack.launchBlock
  <2>1. [y EXCEPT !.attack.status = "LAUNCHED"] = y
    <3>1. [y.attack EXCEPT !.status = "LAUNCHED"] = y.attack
      BY <1>2, <1>3 DEF Still, Attack
    <3>2. QED
      BY <3>1 DEF Lobby
  <2>2. QED
    BY <1>1, <1>2, <1>3, <2>1 DEF roomAt, flown, Still
<1>4. CASE ~(y.status = "ACTIVE" /\ b >= y.attack.launchBlock)
  BY <1>1, <1>2, <1>4 DEF roomAt, flown, Still
<1>5. QED
  BY <1>3, <1>4

LEMMA RunningFields ==
    ASSUME NEW x \in Lobby, NEW limits \in ProtocolLimits, NEW y, y = running(x, limits)
    PROVE  /\ y \in Lobby /\ y.status = "ACTIVE" /\ y.seats = x.seats /\ y.ending = x.ending
           /\ y.attack.status = "PENDING" /\ y.creator = x.creator /\ y.config = x.config
           /\ y.deadlineBlock = x.deadlineBlock /\ y.currentEpochId = x.currentEpochId
           /\ y.participantCount = x.participantCount /\ y.outcome = x.outcome
           /\ y.attack.launchBlock =
                 getEpochStartBlock(x.currentEpochId, limits.epochBlocks, InitialBlock)
           /\ y.attack.impactBlock = y.attack.launchBlock + limits.epochBlocks
<1> DEFINE launch == getEpochStartBlock(x.currentEpochId, limits.epochBlocks, InitialBlock)
           attack == [ status |-> "PENDING", launchBlock |-> launch,
                       impactBlock |-> launch + limits.epochBlocks ]
           pool == x.rewardPool + x.entryFeesCollected
<1>1. limits.epochBlocks \in Nat /\ x.currentEpochId \in Int /\ pool \in Int
  BY LobbyFields DEF ProtocolLimits
<1>2. launch \in Int
  <2>1. x.currentEpochId * limits.epochBlocks \in Int
    BY <1>1, ProductsOfInts
  <2>2. QED
    BY <1>1, <2>1, EmulatorAssumption DEF getEpochStartBlock
<1>3. y = [x EXCEPT !.rewardPool = pool, !.status = "ACTIVE", !.attack = attack]
  BY DEF running, Lobby
<1> HIDE DEF launch, pool
<1>4. attack \in Attack
  BY <1>1, <1>2 DEF Attack
<1>5. /\ attack.status = "PENDING" /\ attack.launchBlock = launch
      /\ attack.impactBlock = launch + limits.epochBlocks
  OBVIOUS
<1> HIDE DEF attack
<1>6. QED
  BY <1>1, <1>3, <1>4, <1>5, ZenonT(40) DEF Lobby, launch

LEMMA ReturnedFields ==
    ASSUME NEW x \in Lobby, NEW y, y = returned(x)
    PROVE  /\ y \in Lobby /\ y.status = x.status /\ y.ending = x.ending
           /\ y.creator = x.creator /\ y.config = x.config /\ y.outcome = x.outcome
           /\ y.attack = x.attack
           /\ y.deadlineBlock = x.deadlineBlock /\ y.currentEpochId = x.currentEpochId
           /\ y.participantCount = x.participantCount
           /\ \A w \in Players : /\ y.seats[w].joined = x.seats[w].joined
                                 /\ y.seats[w].payout = x.seats[w].payout
                                 /\ y.seats[w].refunded => x.seats[w].refunded \/ w \in seated(x)
<1> DEFINE seats == [w \in Players |-> [x.seats[w] EXCEPT !.refunded = @ \/ w \in toReturn(x)]]
<1>1. \A w \in Players : /\ seats[w] \in Seat
                         /\ seats[w].joined = x.seats[w].joined
                         /\ seats[w].payout = x.seats[w].payout
                         /\ seats[w].refunded => x.seats[w].refunded \/ w \in seated(x)
  <2> TAKE w \in Players
  <2>1. x.seats[w] \in Seat
    BY SeatFields
  <2>2. seats[w] = [x.seats[w] EXCEPT !.refunded = @ \/ w \in toReturn(x)]
    OBVIOUS
  <2>3. w \in toReturn(x) => w \in seated(x)
    BY DEF toReturn
  <2> HIDE DEF seats
  <2>4. QED
    BY <2>1, <2>2, <2>3 DEF Seat
<1>2. seats \in [Players -> Seat]
  BY <1>1
<1>3. y = [x EXCEPT !.seats = seats, !.creatorSettled = TRUE]
  BY DEF returned
<1> HIDE DEF seats
<1>4. QED
  BY <1>1, <1>2, <1>3, ZenonT(40) DEF Lobby

LEMMA ClosedRoom ==
    ASSUME NEW x \in Lobby, x.status # "READY", NEW limits \in ProtocolLimits, NEW b \in Int,
           NEW y, y = closedAt(x, limits, b)
    PROVE  /\ y \in Lobby /\ y.status # "READY"
           /\ y.status = "OPEN" => y = x /\ b < y.deadlineBlock
           /\ y.status = "ACTIVE" /\ x.status # "ACTIVE" =>
                 /\ x.status = "OPEN" /\ y.attack.status = "PENDING"
                 /\ x.participantCount >= x.config.minPlayers
<1>1. CASE x.status # "OPEN" \/ b < x.deadlineBlock
  BY <1>1 DEF closedAt
<1>2. CASE ~(x.status # "OPEN" \/ b < x.deadlineBlock) /\ x.participantCount >= x.config.minPlayers
  <2> DEFINE z == [x EXCEPT !.status = "READY"]
  <2>1. z \in Lobby
    BY DEF Lobby
  <2>2. y = running(z, limits)
    BY <1>2 DEF closedAt
  <2> HIDE DEF z
  <2>3. QED
    BY <1>2, <2>1, <2>2, RunningFields
<1>3. CASE /\ ~(x.status # "OPEN" \/ b < x.deadlineBlock)
           /\ ~(x.participantCount >= x.config.minPlayers)
  <2> DEFINE z == [x EXCEPT !.status = "CANCELLED", !.ending = "UNPLAYED",
                            !.drawBounty = x.drawBounty]
  <2>1. z \in Lobby /\ z.status = "CANCELLED"
    BY DEF Lobby
  <2>2. y = returned(z)
    BY <1>3 DEF closedAt
  <2> HIDE DEF z
  <2>3. QED
    BY <1>3, <2>1, <2>2, ReturnedFields
<1>4. QED
  BY <1>1, <1>2, <1>3

LEMMA LaunchedRoom ==
    ASSUME NEW x \in Lobby, NEW y, y = [x EXCEPT !.attack.status = "LAUNCHED"]
    PROVE  /\ y \in Lobby /\ y.attack.status = "LAUNCHED"
           /\ y.status = x.status /\ y.ending = x.ending /\ y.seats = x.seats
           /\ y.creator = x.creator /\ y.config = x.config /\ y.outcome = x.outcome
           /\ y.deadlineBlock = x.deadlineBlock /\ y.currentEpochId = x.currentEpochId
           /\ y.participantCount = x.participantCount
           /\ y.attack.launchBlock = x.attack.launchBlock
           /\ y.attack.impactBlock = x.attack.impactBlock
           /\ [y EXCEPT !.attack.status = "LAUNCHED"] = y
<1> DEFINE a == [x.attack EXCEPT !.status = "LAUNCHED"]
<1>1. /\ a \in Attack /\ a.status = "LAUNCHED" /\ a.launchBlock = x.attack.launchBlock
      /\ a.impactBlock = x.attack.impactBlock /\ [a EXCEPT !.status = "LAUNCHED"] = a
  <2>1. x.attack \in Attack
    BY LobbyFields
  <2>2. QED
    BY <2>1 DEF Attack
<1>2. y = [x EXCEPT !.attack = a]
  BY DEF Lobby
<1> HIDE DEF a
<1>3. y.attack = a /\ y \in Lobby
  BY <1>1, <1>2 DEF Lobby
<1>4. [y EXCEPT !.attack.status = "LAUNCHED"] = y
  BY <1>1, <1>3 DEF Lobby
<1>5. QED
  BY <1>1, <1>2, <1>3, <1>4 DEF Lobby

(* An attack judged ends the operation, and for its players it is the same *)
(* whenever it is judged.                                                  *)
LEMMA ResolvedRoom ==
    ASSUME NEW x \in Lobby, NEW b, NEW y, y = resolved(x, b)
    PROVE  /\ y.status \in {"CANCELLED", "RESOLVED"} /\ y.creator = x.creator
           /\ y.config = x.config /\ y.deadlineBlock = x.deadlineBlock
           /\ y.currentEpochId = x.currentEpochId
           /\ y.participantCount = x.participantCount
           /\ y.ending = IF played(x) THEN "COMPLETED" ELSE "UNPLAYED"
           /\ \A w \in Players :
                 /\ y.seats[w].joined = x.seats[w].joined
                 /\ y.seats[w].refunded = x.seats[w].refunded
                 /\ y.seats[w].payout = "PAID" => x.seats[w].payout = "PAID"
<1> DEFINE j == judgedAt(x, b)
           seats == [w \in Players |-> [x.seats[w] EXCEPT
                        !.payout = IF w \in earliestHits(x) THEN "PENDING" ELSE @]]
           o == [ known |-> TRUE, winners |-> earliestHits(x),
                  rewardPerWinner |-> shareOf(x.rewardPool, earliestHits(x)),
                  resolvedAtBlock |-> b ]
           a == [x.attack EXCEPT !.status = "RESOLVED"]
<1>1. j = [x EXCEPT !.attack = a, !.outcome = o, !.seats = seats]
  BY DEF judgedAt, Lobby
<1>2. \A w \in Players : /\ seats[w].joined = x.seats[w].joined
                         /\ seats[w].refunded = x.seats[w].refunded
                         /\ seats[w].payout = "PAID" => x.seats[w].payout = "PAID"
  <2> TAKE w \in Players
  <2>1. x.seats[w] \in Seat
    BY SeatFields
  <2>2. seats[w] = [x.seats[w] EXCEPT !.payout = IF w \in earliestHits(x) THEN "PENDING" ELSE @]
    OBVIOUS
  <2> HIDE DEF seats
  <2>3. QED
    BY <2>1, <2>2 DEF Seat
<1> HIDE DEF a, o, seats
<1>3. DOMAIN j = DOMAIN x /\ x = [x EXCEPT !.status = x.status] /\ j.seats = seats
      /\ j.creator = x.creator
      /\ j.config = x.config /\ j.deadlineBlock = x.deadlineBlock
      /\ j.currentEpochId = x.currentEpochId /\ j.participantCount = x.participantCount
  BY <1>1 DEF Lobby
<1>4. y = IF ~played(x) THEN [j EXCEPT !.ending = "UNPLAYED", !.status = "CANCELLED"]
          ELSE IF earliestHits(x) # {} THEN [j EXCEPT !.ending = "COMPLETED", !.status = "RESOLVED"]
          ELSE [j EXCEPT !.ending = "COMPLETED", !.status = "RESOLVED", !.rewardPool = 0]
  BY DEF resolved
<1>5. /\ y.status = IF played(x) THEN "RESOLVED" ELSE "CANCELLED"
      /\ y.ending = IF played(x) THEN "COMPLETED" ELSE "UNPLAYED"
  BY <1>1, <1>4 DEF Lobby
<1>6. /\ y.seats = j.seats /\ y.creator = j.creator
      /\ y.config = j.config /\ y.deadlineBlock = j.deadlineBlock
      /\ y.currentEpochId = j.currentEpochId /\ y.participantCount = j.participantCount
  BY <1>1, <1>4 DEF Lobby
<1> HIDE DEF j
<1>7. QED
  BY <1>2, <1>3, <1>5, <1>6

LEMMA OutcomeUnread ==
    ASSUME NEW p, NEW W, NEW r, NEW k, NEW zero,
           NEW o, o = [ known |-> p, winners |-> W, rewardPerWinner |-> r,
                        resolvedAtBlock |-> k ]
    PROVE  [o EXCEPT !.resolvedAtBlock = zero]
               = [ known |-> p, winners |-> W, rewardPerWinner |-> r, resolvedAtBlock |-> zero ]
OBVIOUS

LEMMA ResolvedSeen ==
    ASSUME NEW x \in Lobby, NEW b, NEW c
    PROVE  seen(resolved(x, b)) = seen(resolved(x, c))
<1> DEFINE seats == [w \in Players |-> [x.seats[w] EXCEPT
                        !.payout = IF w \in earliestHits(x) THEN "PENDING" ELSE @]]
           hits == earliestHits(x)
           share == shareOf(x.rewardPool, hits)
           o(k) == [ known |-> TRUE, winners |-> hits, rewardPerWinner |-> share,
                     resolvedAtBlock |-> k ]
           a == [x.attack EXCEPT !.status = "RESOLVED"]
           j(k) == [x EXCEPT !.attack = a, !.outcome = o(k), !.seats = seats]
           status == IF played(x) THEN "RESOLVED" ELSE "CANCELLED"
           ending == IF played(x) THEN "COMPLETED" ELSE "UNPLAYED"
           pool == IF played(x) /\ earliestHits(x) = {} THEN 0 ELSE x.rewardPool
<1>1. ASSUME NEW k
      PROVE  seen(resolved(x, k)) =
                 [x EXCEPT !.attack = a, !.outcome = o(0), !.seats = seats,
                           !.ending = ending, !.status = status, !.rewardPool = pool]
  <2>1. judgedAt(x, k) = j(k)
    BY DEF judgedAt, Lobby
  <2>2. [o(k) EXCEPT !.resolvedAtBlock = 0] = o(0)
    <3> DEFINE zero == 0
               p == TRUE
               ok == [ known |-> p, winners |-> hits, rewardPerWinner |-> share,
                       resolvedAtBlock |-> k ]
    <3>1. ok = o(k) /\ o(0) = [ known |-> p, winners |-> hits, rewardPerWinner |-> share,
                                resolvedAtBlock |-> zero ]
      OBVIOUS
    <3> HIDE DEF zero, p, hits, share
    <3>2. [ok EXCEPT !.resolvedAtBlock = zero]
              = [ known |-> p, winners |-> hits, rewardPerWinner |-> share,
                  resolvedAtBlock |-> zero ]
      BY OutcomeUnread
    <3> HIDE DEF ok, o
    <3>3. QED
      BY <3>1, <3>2 DEF zero
  <2> DEFINE r == resolved(x, k)
             ok == o(k)
             o0 == o(0)
  <2>3. r = IF ~played(x) THEN [j(k) EXCEPT !.ending = "UNPLAYED", !.status = "CANCELLED"]
            ELSE IF earliestHits(x) # {}
                 THEN [j(k) EXCEPT !.ending = "COMPLETED", !.status = "RESOLVED"]
            ELSE [j(k) EXCEPT !.ending = "COMPLETED", !.status = "RESOLVED", !.rewardPool = 0]
    BY <2>1 DEF resolved
  <2>4. j(k) = [x EXCEPT !.attack = a, !.outcome = ok, !.seats = seats]
    OBVIOUS
  <2>5. [ok EXCEPT !.resolvedAtBlock = 0] = o0
    BY <2>2
  <2> HIDE DEF a, o, seats, ok, o0
  <2>6. r = [x EXCEPT !.attack = a, !.outcome = ok, !.seats = seats,
                      !.ending = ending, !.status = status, !.rewardPool = pool]
    BY <2>3, <2>4, ZenonT(40) DEF Lobby
  <2> HIDE DEF ending, status, pool, r
  <2>7. seen(r) = [r EXCEPT !.outcome = [r.outcome EXCEPT !.resolvedAtBlock = 0]]
    BY <2>6 DEF seen, Lobby
  <2>8. r.outcome = ok
    BY <2>6 DEF Lobby
  <2>9. seen(r) = [r EXCEPT !.outcome = o0]
    BY <2>5, <2>7, <2>8
  <2>10. seen(r) = [x EXCEPT !.attack = a, !.outcome = o0, !.seats = seats,
                            !.ending = ending, !.status = status, !.rewardPool = pool]
    BY <2>6, <2>9 DEF Lobby
  <2>11. QED
    BY <2>10 DEF r, o0
<1> HIDE DEF a, o, seats, ending, status, pool
<1>2. QED
  BY <1>1

LEMMA FlownRoom ==
    ASSUME NEW x \in Lobby, x.status = "ACTIVE", NEW b \in Int, NEW y, y = flown(x, b)
    PROVE  \/ y.status \in {"CANCELLED", "RESOLVED"}
           \/ y \in Lobby /\ y.status = "ACTIVE" /\ Still(y, b)
<1> DEFINE z == [x EXCEPT !.attack.status = "LAUNCHED"]
<1>1. x.attack \in Attack /\ x.attack.impactBlock \in Int /\ x.attack.launchBlock \in Int
  BY LobbyFields DEF Attack
<1>2. /\ z \in Lobby /\ z.attack.status = "LAUNCHED" /\ z.status = x.status
      /\ z.attack.launchBlock = x.attack.launchBlock
      /\ z.attack.impactBlock = x.attack.impactBlock
  BY LaunchedRoom
<1>3. y = IF b >= x.attack.impactBlock THEN resolved(z, b)
          ELSE IF b >= x.attack.launchBlock THEN z ELSE x
  BY DEF flown
<1>4. resolved(z, b).status \in {"CANCELLED", "RESOLVED"}
  BY <1>2, ResolvedRoom
<1> HIDE DEF z
<1>5. QED
  BY <1>1, <1>2, <1>3, <1>4 DEF Still

LEMMA FlownLater ==
    ASSUME NEW x \in Lobby, x.status = "ACTIVE", NEW limits, NEW b \in Int, NEW c \in Int, b <= c
    PROVE  seen(roomAt(flown(x, b), limits, c)) = seen(flown(x, c))
<1> DEFINE z == [x EXCEPT !.attack.status = "LAUNCHED"]
<1>1. x.attack \in Attack /\ x.attack.impactBlock \in Int /\ x.attack.launchBlock \in Int
  BY LobbyFields DEF Attack
<1>2. /\ z \in Lobby /\ z.attack.status = "LAUNCHED" /\ z.status = x.status
      /\ z.attack.launchBlock = x.attack.launchBlock
      /\ z.attack.impactBlock = x.attack.impactBlock
      /\ [z EXCEPT !.attack.status = "LAUNCHED"] = z
  BY LaunchedRoom, ZenonT(40)
<1>3. ASSUME NEW k \in Int
      PROVE  flown(x, k) = IF k >= x.attack.impactBlock THEN resolved(z, k)
                           ELSE IF k >= x.attack.launchBlock THEN z ELSE x
  BY DEF flown
<1> HIDE DEF z
<1>4. CASE b >= x.attack.impactBlock
  <2>1. flown(x, b) = resolved(z, b) /\ flown(x, c) = resolved(z, c)
    BY <1>1, <1>3, <1>4
  <2>2. resolved(z, b).status \in {"CANCELLED", "RESOLVED"}
    BY <1>2, ResolvedRoom
  <2>3. roomAt(resolved(z, b), limits, c) = resolved(z, b)
    BY <2>2 DEF roomAt, closedAt
  <2>4. QED
    BY <1>2, <2>1, <2>3, ResolvedSeen
<1>5. CASE ~(b >= x.attack.impactBlock) /\ b >= x.attack.launchBlock
  <2>1. flown(x, b) = z /\ c >= x.attack.launchBlock
    BY <1>1, <1>3, <1>5
  <2>2. roomAt(z, limits, c) = flown(z, c)
    BY <1>2 DEF roomAt, closedAt
  <2>3. flown(z, c) = IF c >= x.attack.impactBlock THEN resolved(z, c) ELSE z
    BY <1>2, <2>1 DEF flown
  <2>4. QED
    BY <1>3, <2>1, <2>2, <2>3
<1>6. CASE ~(b >= x.attack.impactBlock) /\ ~(b >= x.attack.launchBlock)
  BY <1>3, <1>6 DEF roomAt, closedAt
<1>7. QED
  BY <1>4, <1>5, <1>6

(* Settled at one block and then at a later one, an operation is to its    *)
(* players what it is settled at the later one alone.                      *)
LEMMA RoomTwice ==
    ASSUME NEW x \in Lobby, x.status # "READY", NEW limits \in ProtocolLimits,
           NEW b \in Int, NEW c \in Int, b <= c
    PROVE  seen(roomAt(roomAt(x, limits, b), limits, c)) = seen(roomAt(x, limits, c))
<1> DEFINE y == closedAt(x, limits, b)
<1>1. /\ y \in Lobby /\ y.status # "READY"
      /\ y.status = "OPEN" => y = x
  BY ClosedRoom
<1>2. CASE x.status # "OPEN" \/ b < x.deadlineBlock
  <2>1. y = x
    BY <1>2 DEF closedAt
  <2>2. CASE x.status = "ACTIVE"
    <3>1. roomAt(x, limits, b) = flown(x, b) /\ roomAt(x, limits, c) = flown(x, c)
      BY <2>2 DEF roomAt, closedAt
    <3>2. QED
      BY <2>2, <3>1, FlownLater
  <2>3. CASE x.status # "ACTIVE"
    BY <2>1, <2>3 DEF roomAt
  <2>4. QED
    BY <2>2, <2>3
<1>3. CASE ~(x.status # "OPEN" \/ b < x.deadlineBlock)
  <2>1. x.deadlineBlock \in Int
    BY DEF Lobby
  <2>2. closedAt(x, limits, c) = y
    BY <1>3, <2>1 DEF closedAt
  <2>3. y.status # "OPEN"
    BY <1>1, <1>3, ClosedRoom
  <2> HIDE DEF y
  <2>4. CASE y.status = "ACTIVE"
    <3>1. roomAt(x, limits, b) = flown(y, b) /\ roomAt(x, limits, c) = flown(y, c)
      BY <2>2, <2>4 DEF roomAt, y
    <3>2. QED
      BY <1>1, <2>4, <3>1, FlownLater
  <2>5. CASE y.status # "ACTIVE"
    <3>1. roomAt(x, limits, b) = y /\ roomAt(x, limits, c) = y
      BY <2>2, <2>5 DEF roomAt, y
    <3>2. roomAt(y, limits, c) = y
      BY <2>3, <2>5 DEF roomAt, closedAt
    <3>3. QED
      BY <3>1, <3>2
  <2>6. QED
    BY <2>4, <2>5
<1>4. QED
  BY <1>2, <1>3

(* What has just been settled is still.                                    *)
LEMMA SettledStill ==
    ASSUME NEW x \in Lobby, x.status # "READY", NEW limits \in ProtocolLimits,
           NEW b \in Int
    PROVE  Still(roomAt(x, limits, b), b)
<1> DEFINE y == closedAt(x, limits, b)
<1>1. /\ y \in Lobby /\ y.status # "READY"
      /\ y.status = "OPEN" => b < y.deadlineBlock
  BY ClosedRoom
<1>2. roomAt(x, limits, b) = IF y.status = "ACTIVE" THEN flown(y, b) ELSE y
  BY DEF roomAt
<1> HIDE DEF y
<1>3. QED
  BY <1>1, <1>2, FlownRoom DEF Still

-----------------------------------------------------------------------------
(* A reading: players' operations are left alone or settled, draws opened. *)

roomOf(s, l) == roomAt(s.lobbies[l], s.limits, s.block)

Looks(s, t) ==
    /\ t.limits = s.limits /\ t.block = s.block
    /\ DOMAIN s.lobbies \subseteq DOMAIN t.lobbies
    /\ \A l \in DOMAIN t.lobbies \ DOMAIN s.lobbies : t.lobbies[l].creator = Protocol
    /\ \A l \in DOMAIN s.lobbies :
           /\ t.lobbies[l].creator = s.lobbies[l].creator
           /\ s.lobbies[l].creator # Protocol => t.lobbies[l] \in {s.lobbies[l], roomOf(s, l)}

LEMMA RoomFacts ==
    ASSUME NEW s, Books(s), NEW l \in DOMAIN s.lobbies, s.lobbies[l].creator # Protocol
    PROVE  /\ s.lobbies[l] \in Lobby /\ s.lobbies[l].status # "READY" /\ Sound(s.lobbies[l])
           /\ roomOf(s, l) \in Lobby /\ roomOf(s, l).status # "READY" /\ Sound(roomOf(s, l))
           /\ roomOf(s, l).creator = s.lobbies[l].creator
           /\ Still(roomOf(s, l), s.block)
           /\ roomAt(roomOf(s, l), s.limits, s.block) = roomOf(s, l)
           /\ viewOf(s, l) = seen(roomOf(s, l))
           /\ s.limits \in ProtocolLimits /\ s.block \in Int
<1> DEFINE t == settleLobby(s, l)
<1>1. /\ s.lobbies[l] \in Lobby /\ s.lobbies[l].status # "READY" /\ Sound(s.lobbies[l])
      /\ s.limits \in ProtocolLimits /\ s.block \in Int
  BY StateFields DEF Books, Sound, Story
<1>2. Touches(s, t, l) /\ t.lobbies[l] = roomOf(s, l)
  BY SettlingRoom DEF roomOf
<1>3. viewOf(s, l) = seen(t.lobbies[l])
  BY DEF viewOf, seen
<1>4. Books(t)
  BY SettlingKeeps DEF Onward
<1> HIDE DEF t
<1>5. /\ roomOf(s, l) \in Lobby /\ roomOf(s, l).creator = s.lobbies[l].creator
      /\ roomOf(s, l).status # "READY" /\ Sound(roomOf(s, l))
  <2>1. l \in DOMAIN t.lobbies
    BY <1>2 DEF Touches
  <2>2. t.lobbies[l] \in Lobby /\ Sound(t.lobbies[l])
    BY <1>4, <2>1, StateFields DEF Books
  <2>3. QED
    BY <1>2, <2>2 DEF Touches, Sound, Story
<1>6. Still(roomOf(s, l), s.block)
  BY <1>1, SettledStill DEF roomOf
<1>7. roomAt(roomOf(s, l), s.limits, s.block) = roomOf(s, l)
  BY <1>1, <1>5, <1>6, StillRoom
<1>8. QED
  BY <1>1, <1>2, <1>3, <1>5, <1>6, <1>7

LEMMA LooksOn ==
    ASSUME NEW s, Books(s), NEW t, NEW u, Looks(s, t), Looks(t, u)
    PROVE  Looks(s, u)
<1>1. ASSUME NEW l \in DOMAIN s.lobbies, s.lobbies[l].creator # Protocol
      PROVE  u.lobbies[l] \in {s.lobbies[l], roomOf(s, l)}
  <2>1. roomAt(roomOf(s, l), s.limits, s.block) = roomOf(s, l)
    BY <1>1, RoomFacts
  <2>2. /\ t.lobbies[l] \in {s.lobbies[l], roomOf(s, l)}
        /\ t.lobbies[l].creator # Protocol /\ l \in DOMAIN t.lobbies
    BY <1>1 DEF Looks
  <2>3. u.lobbies[l] \in {t.lobbies[l], roomOf(t, l)}
    BY <2>2 DEF Looks
  <2>4. roomOf(t, l) = roomAt(t.lobbies[l], s.limits, s.block)
    BY DEF roomOf, Looks
  <2>5. roomOf(t, l) = roomOf(s, l)
    BY <2>1, <2>2, <2>4 DEF roomOf
  <2>6. QED
    BY <2>2, <2>3, <2>5
<1>2. QED
  BY <1>1 DEF Looks

LEMMA NothingLooks ==
    ASSUME NEW s
    PROVE  Looks(s, s)
BY DEF Looks

LEMMA SettlingLooks ==
    ASSUME NEW s, Books(s), NEW l \in DOMAIN s.lobbies
    PROVE  Looks(s, settleLobby(s, l))
<1> DEFINE t == settleLobby(s, l)
<1>1. /\ Touches(s, t, l)
      /\ s.lobbies[l].creator # Protocol => t.lobbies[l] = roomOf(s, l)
  BY SettlingRoom DEF roomOf
<1> HIDE DEF t
<1>2. QED
  BY <1>1 DEF Looks, Touches, Alike, t

LEMMA RunLooks ==
    ASSUME NEW s, Books(s), NEW h, IsRun(h, s, Len(s.lobbies))
    PROVE  Looks(s, h[Len(s.lobbies)])
<1> DEFINE n == Len(s.lobbies)
           Fine(j) == Onward(s, h[j]) /\ Looks(s, h[j])
           Bad == {0 .. k : k \in {j \in 0 .. n : ~Fine(j)}}
<1> SUFFICES ASSUME ~Fine(n) PROVE FALSE
  OBVIOUS
<1>1. n \in Nat /\ DOMAIN s.lobbies = 1 .. n
  BY StateFields DEF Books
<1>2. IsRun(h, s, n)
  OBVIOUS
<1> HIDE DEF n, Fine
<1>3. Bad # {} /\ Bad \in SUBSET SUBSET (0 .. n)
  BY <1>1
<1>4. IsFiniteSet(0 .. n)
  BY <1>1, FS_Interval
<1>5. PICK T \in Bad : \A U \in SUBSET T : U # T => U \notin Bad
  <2> HIDE DEF Bad
  <2> QED BY <1>3, <1>4, SmallestBadSet
<1>6. PICK k \in 0 .. n : T = 0 .. k /\ ~Fine(k)
  BY <1>5
<1>7. h[k] = IF k = 0 THEN s ELSE settleLobby(h[k - 1], k)
  BY <1>2, <1>6 DEF IsRun
<1>8. k # 0
  BY <1>6, <1>7, NothingLeads, NothingLooks DEF Onward, Fine
<1>9. k - 1 \in 0 .. n /\ k \in Nat /\ k \in 1 .. n
  BY <1>1, <1>6, <1>8
<1>10. 0 .. (k - 1) \in SUBSET T /\ 0 .. (k - 1) # T
  <2>1. k \in 0 .. k /\ k \notin 0 .. (k - 1)
    BY <1>9
  <2>2. QED
    BY <1>6, <1>9, <2>1
<1>11. 0 .. (k - 1) \notin Bad
  BY <1>5, <1>10
<1>12. Onward(s, h[k - 1]) /\ Looks(s, h[k - 1])
  BY <1>9, <1>11 DEF Fine
<1>13. Books(h[k - 1]) /\ k \in DOMAIN h[k - 1].lobbies
  BY <1>1, <1>9, <1>12 DEF Onward
<1>14. Onward(h[k - 1], h[k]) /\ Looks(h[k - 1], h[k])
  BY <1>7, <1>8, <1>13, SettlingKeeps, SettlingLooks
<1>15. QED
  BY <1>6, <1>12, <1>14, OnwardIsKept, LooksOn DEF Fine

LEMMA SettlingAllLooks ==
    ASSUME NEW s, Books(s)
    PROVE  Looks(s, settleAll(s))
<1> DEFINE h == CHOOSE g : IsRun(g, s, Len(s.lobbies))
<1>1. settleAll(s) = h[Len(s.lobbies)]
  BY DEF settleAll, IsRun
<1>2. Len(s.lobbies) \in Nat
  BY StateFields DEF Books
<1>3. IsRun(h, s, Len(s.lobbies))
  BY <1>2, RunExists
<1> HIDE DEF h
<1>4. QED
  BY <1>1, <1>3, RunLooks

LEMMA GivingBackLooks ==
    ASSUME NEW s, Books(s)
    PROVE  Looks(s, maybeSettleProtocolDraws(s))
<1> DEFINE t == maybeSettleProtocolDraws(s)
<1>1. t.limits = s.limits /\ t.block = s.block /\ t.lobbies = givenBack(s)
  BY DEF maybeSettleProtocolDraws, givenBack, Books, IsState
<1> HIDE DEF t
<1>2. DOMAIN t.lobbies = DOMAIN s.lobbies
  BY <1>1 DEF givenBack
<1>3. ASSUME NEW l \in DOMAIN s.lobbies
      PROVE  /\ t.lobbies[l].creator = s.lobbies[l].creator
             /\ s.lobbies[l].creator # Protocol => t.lobbies[l] = s.lobbies[l]
  <2> DEFINE x == s.lobbies[l]
  <2>1. x \in Lobby /\ x.creatorSettled \in BOOLEAN
    BY StateFields, LobbyFields DEF Books
  <2>2. t.lobbies[l] = [x EXCEPT !.creatorSettled = @ \/ l \in homeless(s)]
    BY <1>1 DEF givenBack
  <2>3. x.creator # Protocol => l \notin homeless(s)
    BY DEF homeless
  <2> HIDE DEF x
  <2>4. l \notin homeless(s) => t.lobbies[l] = x
    <3>1. l \notin homeless(s) => t.lobbies[l] = [x EXCEPT !.creatorSettled = x.creatorSettled]
      BY <2>1, <2>2 DEF Lobby
    <3>2. QED
      BY <2>1, <3>1 DEF Lobby
  <2>5. t.lobbies[l].creator = x.creator
    BY <2>1, <2>2 DEF Lobby
  <2>6. QED
    BY <2>3, <2>4, <2>5 DEF x
<1>4. QED
  BY <1>1, <1>2, <1>3 DEF Looks, t

(* A draw is opened behind the operations there are.                       *)
LEMMA DrawOpeningLooks ==
    ASSUME NEW s, Books(s), s.limits.interval > 0
    PROVE  Looks(s, applyOpenGlobalDefense(s))
<1> DEFINE t == applyOpenGlobalDefense(s)
           n == Len(s.lobbies)
           config == [ minPlayers |-> s.limits.minPlayers, maxPlayers |-> s.limits.maxPlayers,
                       entryPrice |-> 0, prizePool |-> 0, commission |-> 0 ]
           d == drawSchedule(s).deadlineBlock
           e == drawSchedule(s).nextEpoch
           y == [newLobby(s, Protocol, config, d, e) EXCEPT !.drawBounty = s.globalDefensePool]
<1>1. s.lobbies \in Seq(Lobby) /\ n \in Nat /\ DOMAIN s.lobbies = 1 .. n
  BY StateFields DEF Books
<1>2. /\ t.limits = s.limits /\ t.block = s.block
      /\ t.lobbies = Append(s.lobbies, y)
  BY DEF applyOpenGlobalDefense, Books, IsState
<1>3. y.creator = Protocol
  BY DEF newLobby
<1> HIDE DEF t, y, config
<1>4. DOMAIN t.lobbies = 1 .. n + 1 /\ t.lobbies[n + 1] = y
      /\ \A k \in 1 .. n : t.lobbies[k] = s.lobbies[k]
  BY <1>1, <1>2
<1> HIDE DEF n
<1>5. \A l \in DOMAIN t.lobbies \ DOMAIN s.lobbies : l = n + 1
  BY <1>1, <1>4
<1>6. DOMAIN s.lobbies \subseteq DOMAIN t.lobbies
  BY <1>1, <1>4
<1>7. QED
  BY <1>1, <1>2, <1>3, <1>4, <1>5, <1>6 DEF Looks, t

LEMMA UpkeepLooks ==
    ASSUME NEW s, Books(s)
    PROVE  Looks(s, drawUpkeep(s))
<1>1. drawUpkeep(s) = IF isGlobalDefenseDue(s) THEN applyOpenGlobalDefense(s) ELSE s
  BY TopUpIsIdle DEF drawUpkeep, maybeOpenGlobalDefense
<1>2. isGlobalDefenseDue(s) => s.limits.interval > 0
  BY DEF isGlobalDefenseDue
<1>3. QED
  BY <1>1, <1>2, DrawOpeningLooks, NothingLooks

LEMMA StatsLook ==
    ASSUME NEW s, Books(s)
    PROVE  Looks(s, readStats(s))
<1> DEFINE a == settleAll(s)
           t == maybeSettleProtocolDraws(a)
<1>1. Onward(s, a) /\ Looks(s, a)
  BY SettlingAllKeeps, SettlingAllLooks
<1> HIDE DEF a
<1>2. Onward(a, t) /\ Looks(a, t)
  BY <1>1, GivingBackKeeps, GivingBackLooks DEF Onward
<1> HIDE DEF t
<1>3. Looks(t, drawUpkeep(t))
  BY <1>2, UpkeepLooks DEF Onward
<1>4. readStats(s) = drawUpkeep(t)
  BY DEF readStats, t, a
<1>5. QED
  BY <1>1, <1>2, <1>3, <1>4, LooksOn DEF Onward

-----------------------------------------------------------------------------
(* What a write does to the one operation it is about.                     *)

SameRoom(x, y) ==
    /\ y.creator = x.creator /\ y.config = x.config
    /\ y.status = x.status /\ y.ending = x.ending /\ y.attack = x.attack
    /\ y.deadlineBlock = x.deadlineBlock /\ y.currentEpochId = x.currentEpochId

SameMember(x, y, v) ==
    /\ y.seats[v].joined = x.seats[v].joined
    /\ y.seats[v].refunded = x.seats[v].refunded
    /\ y.seats[v].payout = x.seats[v].payout

OthersStay(x, y, w) == \A v \in Players : v # w => SameMember(x, y, v)

(* Nobody comes, goes or is paid.                                          *)
Idles(x, y) ==
    y.participantCount = x.participantCount /\ \A v \in Players : SameMember(x, y, v)

Enters(x, y, w) ==
    /\ x.status = "OPEN" /\ ~x.seats[w].joined
    /\ y.seats[w] = [NoSeat EXCEPT !.joined = TRUE, !.paidIn = y.seats[w].paidIn]
    /\ y.participantCount = x.participantCount + 1

Quits(x, y, w) ==
    /\ x.status = "OPEN" /\ x.seats[w].joined
    /\ y.seats[w] = NoSeat
    /\ y.participantCount = IF x.participantCount > 0 THEN x.participantCount - 1 ELSE 0

Rewarded(x, y, w) ==
    /\ x.ending = "COMPLETED" /\ x.seats[w].joined /\ y.seats[w].joined
    /\ x.seats[w].payout # "PAID" /\ y.seats[w].payout = "PAID"
    /\ y.seats[w].refunded = x.seats[w].refunded
    /\ y.participantCount = x.participantCount

Refunded(x, y, w) ==
    /\ x.ending = "UNPLAYED" /\ x.seats[w].joined /\ y.seats[w].joined
    /\ ~x.seats[w].refunded /\ y.seats[w].refunded
    /\ y.seats[w].payout = x.seats[w].payout
    /\ y.participantCount = x.participantCount

Moves(x, y) ==
    /\ SameRoom(x, y)
    /\ \/ Idles(x, y)
       \/ \E w \in Players :
             /\ OthersStay(x, y, w)
             /\ Enters(x, y, w) \/ Quits(x, y, w) \/ Rewarded(x, y, w) \/ Refunded(x, y, w)

Put(s, t, l, y) ==
    /\ t.lobbies = [s.lobbies EXCEPT ![l] = y]
    /\ Alike(s, t)

Written(l) ==
    /\ disk' = chain' /\ start' = start
    /\ Touches(chain, chain', l)
    /\ chain.lobbies[l].creator # Protocol => Moves(roomOf(chain, l), chain'.lobbies[l])

LEMMA PutTouches ==
    ASSUME NEW s, Books(s), NEW l \in DOMAIN s.lobbies, NEW y, NEW t, Put(s, t, l, y),
           y.creator = s.lobbies[l].creator
    PROVE  Touches(s, t, l) /\ t.lobbies[l] = y
<1>1. s.lobbies \in Seq(Lobby)
  BY StateFields DEF Books
<1>2. QED
  BY <1>1 DEF Put, Touches

LEMMA SettledThenPut ==
    ASSUME Books(chain), NEW l \in LobbyIds, NEW s, s = settleLobby(chain, l),
           NEW y, NEW t, Put(s, t, l, y), persist(t), Moves(s.lobbies[l], y)
    PROVE  Written(l)
<1>1. /\ Touches(chain, s, l) /\ Books(s) /\ l \in DOMAIN s.lobbies
      /\ chain.lobbies[l].creator # Protocol => s.lobbies[l] = roomOf(chain, l)
  BY SettledFirst, SettlingRoom DEF LobbyIds, roomOf
<1>2. y.creator = s.lobbies[l].creator
  BY DEF Moves, SameRoom
<1>3. Touches(s, t, l) /\ t.lobbies[l] = y
  BY <1>1, <1>2, PutTouches
<1>4. Touches(chain, t, l)
  BY <1>1, <1>3, TouchesAgain
<1>5. chain' = t /\ disk' = t /\ start' = start
  BY DEF persist
<1>6. QED
  BY <1>1, <1>3, <1>4, <1>5 DEF Written

LEMMA JoiningMoves ==
    ASSUME Books(chain), ~Rejoins, NEW l \in LobbyIds, NEW w \in Players, joinLobby(w, l)
    PROVE  Written(l)
<1> DEFINE x == chain.lobbies[l]
           cost == x.config.entryPrice + commissionOf(x)
           seat == [NoSeat EXCEPT !.joined = TRUE, !.paidIn = cost]
           y == [x EXCEPT !.seats[w] = seat, !.participantCount = @ + 1,
                          !.entryFeesCollected = @ + x.config.entryPrice,
                          !.creatorFeeAccrued = @ + commissionOf(x)]
           t == [escrow(chain, w, cost) EXCEPT !.lobbies[l] = y]
<1>1. x \in Lobby /\ x.seats \in [Players -> Seat] /\ IsState(chain) /\ l \in DOMAIN chain.lobbies
  BY StateFields, LobbyFields DEF Books, LobbyIds
<1>2. /\ x.status = "OPEN" /\ chain.block < x.deadlineBlock /\ ~x.seats[w].joined
      /\ persist(t)
  BY DEF joinLobby, canJoinLobby
<1>3. roomOf(chain, l) = x
  BY <1>2 DEF roomOf, roomAt, closedAt
<1> HIDE DEF x, cost
<1>4. t.lobbies = [chain.lobbies EXCEPT ![l] = y] /\ Alike(chain, t)
  <2> HIDE DEF y
  <2> QED BY <1>1 DEF escrow, IsState, Alike
<1>5. seat.paidIn = cost
  BY DEF NoSeat
<1> HIDE DEF seat
<1>6. /\ SameRoom(x, y) /\ y.participantCount = x.participantCount + 1
      /\ y.seats = [x.seats EXCEPT ![w] = seat]
  BY <1>1 DEF Lobby, SameRoom
<1> HIDE DEF y
<1>7. Moves(x, y)
  <2>1. y.seats[w] = seat /\ \A v \in Players : v # w => y.seats[v] = x.seats[v]
    BY <1>1, <1>6
  <2>2. OthersStay(x, y, w)
    BY <2>1 DEF OthersStay, SameMember
  <2>3. Enters(x, y, w)
    BY <1>2, <1>5, <1>6, <2>1 DEF Enters, seat
  <2>4. QED
    BY <1>6, <2>2, <2>3 DEF Moves
<1>8. Touches(chain, t, l) /\ t.lobbies[l] = y
  BY <1>1, <1>4, <1>6, PutTouches, ZenonT(40) DEF Put, SameRoom, x
<1>9. QED
  BY <1>2, <1>3, <1>7, <1>8 DEF persist, Written

LEMMA LeavingMoves ==
    ASSUME Books(chain), NEW l \in LobbyIds, NEW w \in Players, leaveLobby(w, l)
    PROVE  Written(l)
<1> DEFINE s == settleLobby(chain, l)
           x == s.lobbies[l]
           seat == x.seats[w]
           fee == commissionPaid(x, seat)
           y == [x EXCEPT !.seats[w] = NoSeat,
                          !.participantCount = IF @ > 0 THEN @ - 1 ELSE 0,
                          !.entryFeesCollected = @ - x.config.entryPrice,
                          !.creatorFeeAccrued = @ - fee,
                          !.rewardPool = @ - seat.probesPaid]
           t == payOut([s EXCEPT !.lobbies[l] = y], w, seat.paidIn)
<1>1. x \in Lobby /\ x.seats \in [Players -> Seat] /\ IsState(s)
  BY SettledFirst, LobbyFields
<1>2. x.status = "OPEN" /\ seat.joined /\ persist(t)
  BY DEF leaveLobby
<1> HIDE DEF s
<1>3. Put(s, t, l, y)
  <2> HIDE DEF y
  <2> QED BY <1>1 DEF payOut, IsState, Put, Alike
<1> HIDE DEF x, t, fee
<1>4. /\ SameRoom(x, y)
      /\ y.participantCount = IF x.participantCount > 0 THEN x.participantCount - 1 ELSE 0
      /\ y.seats = [x.seats EXCEPT ![w] = NoSeat]
  BY <1>1 DEF Lobby, SameRoom
<1> HIDE DEF y
<1>5. y.seats[w] = NoSeat /\ \A v \in Players : v # w => y.seats[v] = x.seats[v]
  BY <1>1, <1>4
<1>6. OthersStay(x, y, w) /\ Quits(x, y, w)
  BY <1>2, <1>4, <1>5 DEF OthersStay, SameMember, Quits
<1>7. Moves(x, y)
  BY <1>4, <1>6 DEF Moves
<1>8. QED
  BY <1>2, <1>3, <1>7, SettledThenPut DEF x, s

(* A seat written without anybody coming, going or being paid.             *)
LEMMA SeatWritten ==
    ASSUME NEW x \in Lobby, NEW y, NEW w \in Players, NEW seat, SameRoom(x, y),
           y.participantCount = x.participantCount,
           y.seats = [x.seats EXCEPT ![w] = seat],
           seat.joined = x.seats[w].joined, seat.refunded = x.seats[w].refunded,
           seat.payout = x.seats[w].payout
    PROVE  Moves(x, y)
<1>1. x.seats \in [Players -> Seat]
  BY LobbyFields
<1>2. y.seats[w] = seat /\ \A v \in Players : v # w => y.seats[v] = x.seats[v]
  BY <1>1
<1>3. Idles(x, y)
  BY <1>2 DEF Idles, SameMember
<1>4. QED
  BY <1>3 DEF Moves

LEMMA BuyingMoves ==
    ASSUME Books(chain), NEW l \in LobbyIds, NEW w \in Players, buyDrone(w, l)
    PROVE  Written(l)
<1> DEFINE s == settleLobby(chain, l)
           x == s.lobbies[l]
           price == chain.limits.price
           seat == [x.seats[w] EXCEPT !.purchased = @ + 1, !.paidIn = @ + price,
                                      !.probesPaid = @ + price]
           y == [x EXCEPT !.seats[w] = seat, !.rewardPool = @ + price]
           t == [escrow(s, w, price) EXCEPT !.lobbies[l] = y]
<1>1. x \in Lobby /\ x.seats \in [Players -> Seat] /\ x.seats[w] \in Seat /\ IsState(s)
  BY SettledFirst, LobbyFields
<1>2. persist(t)
  BY DEF buyDrone
<1> HIDE DEF s
<1>3. Put(s, t, l, y)
  <2> HIDE DEF y
  <2> QED BY <1>1 DEF escrow, IsState, Put, Alike
<1> HIDE DEF x, t, price
<1>4. /\ seat.joined = x.seats[w].joined /\ seat.refunded = x.seats[w].refunded
      /\ seat.payout = x.seats[w].payout
  BY <1>1 DEF Seat
<1> HIDE DEF seat
<1>5. /\ SameRoom(x, y) /\ y.participantCount = x.participantCount
      /\ y.seats = [x.seats EXCEPT ![w] = seat]
  BY <1>1 DEF Lobby, SameRoom
<1> HIDE DEF y
<1>6. Moves(x, y)
  BY <1>1, <1>4, <1>5, SeatWritten
<1>7. QED
  BY <1>2, <1>3, <1>6, SettledThenPut DEF x, s

LEMMA ProbingMoves ==
    ASSUME Books(chain), NEW l \in LobbyIds, NEW w \in Players, sendReconProbe(w, l)
    PROVE  Written(l)
<1> DEFINE s == settleLobby(chain, l)
           x == s.lobbies[l]
           b == s.block
           seat == [x.seats[w] EXCEPT !.probes = @ + 1, !.lastProbeBlock = b, !.actions = @ + 1]
           y == [x EXCEPT !.seats[w] = seat]
           t == [s EXCEPT !.lobbies[l].seats[w] = seat]
<1>1. x \in Lobby /\ x.seats \in [Players -> Seat] /\ x.seats[w] \in Seat /\ IsState(s)
  BY SettledFirst, LobbyFields
<1>2. persist(t)
  BY DEF sendReconProbe
<1> HIDE DEF s, b
<1>3. /\ seat.joined = x.seats[w].joined /\ seat.refunded = x.seats[w].refunded
      /\ seat.payout = x.seats[w].payout
  <2> HIDE DEF x
  <2> QED BY <1>1 DEF Seat
<1> HIDE DEF seat
<1>4. Put(s, t, l, y)
  BY <1>1 DEF IsState, Put, Alike
<1> HIDE DEF x, t
<1>5. /\ SameRoom(x, y) /\ y.participantCount = x.participantCount
      /\ y.seats = [x.seats EXCEPT ![w] = seat]
  BY <1>1 DEF Lobby, SameRoom
<1> HIDE DEF y
<1>6. Moves(x, y)
  BY <1>1, <1>3, <1>5, SeatWritten
<1>7. QED
  BY <1>2, <1>4, <1>6, SettledThenPut DEF x, s

LEMMA DefendingMoves ==
    ASSUME Books(chain), NEW l \in LobbyIds, NEW w \in Players, NEW onTarget \in BOOLEAN,
           submitDefense(w, l, onTarget)
    PROVE  Written(l)
<1> DEFINE s == settleLobby(chain, l)
           x == s.lobbies[l]
           b == s.block
           seat == [x.seats[w] EXCEPT !.defendedAt = b, !.onTarget = onTarget, !.actions = @ + 1]
           y == [x EXCEPT !.seats[w] = seat]
           t == [s EXCEPT !.lobbies[l].seats[w] = seat]
<1>1. x \in Lobby /\ x.seats \in [Players -> Seat] /\ x.seats[w] \in Seat /\ IsState(s)
  BY SettledFirst, LobbyFields
<1>2. persist(t)
  BY DEF submitDefense
<1> HIDE DEF s, b
<1>3. /\ seat.joined = x.seats[w].joined /\ seat.refunded = x.seats[w].refunded
      /\ seat.payout = x.seats[w].payout
  <2> HIDE DEF x
  <2> QED BY <1>1 DEF Seat
<1> HIDE DEF seat
<1>4. Put(s, t, l, y)
  BY <1>1 DEF IsState, Put, Alike
<1> HIDE DEF x, t
<1>5. /\ SameRoom(x, y) /\ y.participantCount = x.participantCount
      /\ y.seats = [x.seats EXCEPT ![w] = seat]
  BY <1>1 DEF Lobby, SameRoom
<1> HIDE DEF y
<1>6. Moves(x, y)
  BY <1>1, <1>3, <1>5, SeatWritten
<1>7. QED
  BY <1>2, <1>4, <1>6, SettledThenPut DEF x, s

LEMMA RevealingMoves ==
    ASSUME Books(chain), NEW l \in LobbyIds, revealAttack(l)
    PROVE  Written(l)
<1> DEFINE s == settleLobby(chain, l)
           x == s.lobbies[l]
           y == [x EXCEPT !.revealed = TRUE]
           t == [s EXCEPT !.lobbies[l].revealed = TRUE]
<1>1. x \in Lobby /\ IsState(s)
  BY SettledFirst
<1>2. persist(t)
  BY DEF revealAttack
<1> HIDE DEF s
<1>3. Put(s, t, l, y)
  BY <1>1 DEF IsState, Put, Alike
<1> HIDE DEF x, t
<1>4. SameRoom(x, y) /\ y.participantCount = x.participantCount /\ y.seats = x.seats
  BY <1>1 DEF Lobby, SameRoom
<1> HIDE DEF y
<1>5. Moves(x, y)
  BY <1>4 DEF Moves, Idles, SameMember
<1>6. QED
  BY <1>2, <1>3, <1>5, SettledThenPut DEF x, s

LEMMA RewardingMoves ==
    ASSUME Books(chain), NEW l \in LobbyIds, NEW w \in Players, claimReward(w, l)
    PROVE  Written(l)
<1> DEFINE s == settleLobby(chain, l)
           x == s.lobbies[l]
           fee == IF w = x.creator /\ ~x.creatorSettled THEN completedCreatorDue(x) ELSE 0
           marked == fee > 0
           seat == [x.seats[w] EXCEPT !.payout = "PAID"]
           y == [x EXCEPT !.seats[w].payout = "PAID", !.creatorSettled = @ \/ marked]
           amount == x.outcome.rewardPerWinner + fee
           t == payOut([s EXCEPT !.lobbies[l] = y], w, amount)
<1>1. /\ x \in Lobby /\ x.seats \in [Players -> Seat] /\ x.seats[w] \in Seat /\ IsState(s)
      /\ Sound(x)
  BY SettledFirst, LobbyFields
<1>2. /\ persist(t) /\ x.seats[w].joined /\ x.seats[w].payout # "PAID"
      /\ w \in x.outcome.winners
  BY DEF claimReward
<1>3. x.ending = "COMPLETED"
  BY <1>1, <1>2 DEF Sound, Story
<1> HIDE DEF s, amount
<1>4. Put(s, t, l, y)
  <2> HIDE DEF y
  <2> QED BY <1>1 DEF payOut, IsState, Put, Alike
<1> HIDE DEF x, t, marked
<1>5. /\ SameRoom(x, y) /\ y.participantCount = x.participantCount
      /\ y.seats = [x.seats EXCEPT ![w] = seat]
  BY <1>1 DEF Lobby, SameRoom
<1>6. /\ seat.joined = x.seats[w].joined /\ seat.refunded = x.seats[w].refunded
      /\ seat.payout = "PAID"
  BY <1>1 DEF Seat
<1> HIDE DEF y, seat
<1>7. y.seats[w] = seat /\ \A v \in Players : v # w => y.seats[v] = x.seats[v]
  BY <1>1, <1>5
<1>8. OthersStay(x, y, w) /\ Rewarded(x, y, w)
  BY <1>2, <1>3, <1>5, <1>6, <1>7 DEF OthersStay, SameMember, Rewarded
<1>9. Moves(x, y)
  BY <1>5, <1>8 DEF Moves
<1>10. QED
  BY <1>2, <1>4, <1>9, SettledThenPut DEF x, s

LEMMA RefundingMoves ==
    ASSUME Books(chain), NEW l \in LobbyIds, NEW w \in Players, claimRefund(w, l)
    PROVE  Written(l)
<1> DEFINE s == settleLobby(chain, l)
           x == s.lobbies[l]
           old == x.seats[w]
           due == IF old.joined /\ ~old.refunded THEN old.paidIn ELSE 0
           launch == IF w = x.creator /\ ~x.creatorSettled THEN x.startPrizePool ELSE 0
           paid == due > 0
           marked == launch > 0
           seat == [old EXCEPT !.refunded = @ \/ paid]
           y == [x EXCEPT !.seats[w].refunded = @ \/ paid, !.creatorSettled = @ \/ marked]
           amount == due + launch
           t == payOut([s EXCEPT !.lobbies[l] = y], w, amount)
<1>1. /\ x \in Lobby /\ x.seats \in [Players -> Seat] /\ x.seats[w] \in Seat /\ IsState(s)
      /\ Sound(x)
  BY SettledFirst, LobbyFields
<1>2. persist(t) /\ refundable(x)
  BY DEF claimRefund
<1>3. x.ending = "UNPLAYED"
  BY <1>1, <1>2, LobbyFields DEF refundable
<1>4. paid => old.joined /\ ~old.refunded
  OBVIOUS
<1> HIDE DEF s, amount
<1>5. Put(s, t, l, y)
  <2> HIDE DEF y
  <2> QED BY <1>1 DEF payOut, IsState, Put, Alike
<1> HIDE DEF x, t, marked, paid
<1>6. /\ SameRoom(x, y) /\ y.participantCount = x.participantCount
      /\ y.seats = [x.seats EXCEPT ![w] = seat]
  BY <1>1 DEF Lobby, SameRoom
<1>7. /\ seat.joined = old.joined /\ seat.refunded = (old.refunded \/ paid)
      /\ seat.payout = old.payout
  BY <1>1 DEF Seat
<1> HIDE DEF y, seat
<1>8. CASE paid
  <2>1. y.seats[w] = seat /\ \A v \in Players : v # w => y.seats[v] = x.seats[v]
    BY <1>1, <1>6
  <2>2. OthersStay(x, y, w) /\ Refunded(x, y, w)
    BY <1>3, <1>4, <1>6, <1>7, <1>8, <2>1 DEF OthersStay, SameMember, Refunded
  <2>3. Moves(x, y)
    BY <1>6, <2>2 DEF Moves
  <2>4. QED
    BY <1>2, <1>5, <2>3, SettledThenPut DEF x, s
<1>9. CASE ~paid
  <2>1. old.refunded \in BOOLEAN
    BY <1>1, SeatFields
  <2>2. seat.refunded = old.refunded
    BY <1>7, <1>9, <2>1
  <2>3. Moves(x, y)
    BY <1>1, <1>6, <1>7, <2>2, SeatWritten
  <2>4. QED
    BY <1>2, <1>5, <2>3, SettledThenPut DEF x, s
<1>10. QED
  BY <1>8, <1>9

LEMMA SettlingTheCreatorMoves ==
    ASSUME Books(chain), NEW l \in LobbyIds, settleCreator(l)
    PROVE  Written(l)
<1> DEFINE s == settleLobby(chain, l)
           x == s.lobbies[l]
           due == creatorDue(x)
           y == [x EXCEPT !.creatorSettled = TRUE]
           m == [s EXCEPT !.lobbies[l].creatorSettled = TRUE]
           t == IF due = 0 THEN m
                ELSE IF x.creator = Protocol
                THEN [m EXCEPT !.globalDefensePool = @ + due] ELSE payOut(m, x.creator, due)
<1>1. x \in Lobby /\ IsState(s)
  BY SettledFirst
<1>2. persist(t)
  BY DEF settleCreator
<1> HIDE DEF s, due
<1>3. Put(s, t, l, y)
  <2>1. m.lobbies = [s.lobbies EXCEPT ![l] = y] /\ Alike(s, m) /\ DOMAIN m = DOMAIN s
    BY <1>1 DEF IsState, Alike
  <2>2. t.lobbies = m.lobbies /\ t.limits = m.limits /\ t.block = m.block
        /\ t.globalDefenseLobby = m.globalDefenseLobby
    <3>1. DOMAIN m = { "limits", "block", "wallet", "escrow", "globalDefensePool",
                       "globalDefenseLobby", "lobbies" }
      BY <1>1, <2>1 DEF IsState
    <3> HIDE DEF m, x
    <3>2. QED
      BY <3>1 DEF payOut
  <2> HIDE DEF t, m, y
  <2>3. QED
    BY <2>1, <2>2 DEF Put, Alike
<1> HIDE DEF x, t
<1>4. SameRoom(x, y) /\ y.participantCount = x.participantCount /\ y.seats = x.seats
  BY <1>1 DEF Lobby, SameRoom
<1> HIDE DEF y
<1>5. Moves(x, y)
  BY <1>4 DEF Moves, Idles, SameMember
<1>6. QED
  BY <1>2, <1>3, <1>5, SettledThenPut DEF x, s

-----------------------------------------------------------------------------
(* What holds of a player's operation besides its books.                   *)

epochStart(x, limits) == getEpochStartBlock(x.currentEpochId, limits.epochBlocks, InitialBlock)

Whole(x, limits) ==
    x.creator # Protocol =>
        /\ x.participantCount = Cardinality(seated(x))
        /\ x.config.minPlayers >= limits.minPlayers
        /\ epochStart(x, limits) > x.deadlineBlock
        /\ x.ending = "COMPLETED" => \A w \in Players : ~x.seats[w].refunded
        /\ x.ending = "UNPLAYED" => \A w \in Players : x.seats[w].payout # "PAID"

Wholes(s) == \A l \in DOMAIN s.lobbies : Whole(s.lobbies[l], s.limits)

(* The same operation with the same members.                               *)
SameTeam(x, y) ==
    /\ y.creator = x.creator /\ y.config = x.config
    /\ y.participantCount = x.participantCount
    /\ y.deadlineBlock = x.deadlineBlock /\ y.currentEpochId = x.currentEpochId
    /\ \A w \in Players : y.seats[w].joined = x.seats[w].joined

Unpaying(x) == \A w \in Players : ~x.seats[w].refunded /\ x.seats[w].payout # "PAID"

LEMMA TeamKept ==
    ASSUME NEW x, NEW y, SameTeam(x, y), NEW limits
    PROVE  /\ seated(y) = seated(x) /\ epochStart(y, limits) = epochStart(x, limits)
BY DEF SameTeam, seated, epochStart

LEMMA PlayedUnpaid ==
    ASSUME NEW x, Sound(x), x.status \in {"OPEN", "ACTIVE"}
    PROVE  Unpaying(x) /\ x.ending = "NONE"
BY DEF Sound, Story, Untouched, Unpaying

LEMMA ClosedWhole ==
    ASSUME NEW x \in Lobby, Sound(x), NEW limits \in ProtocolLimits, NEW b \in Int,
           NEW y, y = closedAt(x, limits, b)
    PROVE  /\ SameTeam(x, y)
           /\ y.status = "ACTIVE" => Unpaying(y) /\ y.ending = "NONE"
           /\ Whole(x, limits) => Whole(y, limits)
           /\ x.status = "OPEN" /\ y.status \notin {"OPEN", "ACTIVE"} =>
                 /\ y.ending = "UNPLAYED"
                 /\ \A w \in Players : /\ y.seats[w].payout # "PAID"
                                       /\ y.seats[w].refunded => w \in seated(x)
           /\ x.status = "OPEN" /\ y.status = "ACTIVE" =>
                 /\ y.attack.launchBlock = epochStart(x, limits)
                 /\ y.attack.impactBlock = y.attack.launchBlock + limits.epochBlocks
<1>1. CASE x.status # "OPEN" \/ b < x.deadlineBlock
  <2>1. y = x
    BY <1>1 DEF closedAt
  <2>2. x.status = "ACTIVE" => Unpaying(x) /\ x.ending = "NONE"
    BY PlayedUnpaid
  <2>3. QED
    BY <1>1, <2>1, <2>2 DEF SameTeam, closedAt
<1>2. CASE ~(x.status # "OPEN" \/ b < x.deadlineBlock) /\ x.participantCount >= x.config.minPlayers
  <2> DEFINE z == [x EXCEPT !.status = "READY"]
  <2>1. /\ z \in Lobby /\ z.seats = x.seats /\ z.creator = x.creator /\ z.config = x.config
        /\ z.participantCount = x.participantCount /\ z.deadlineBlock = x.deadlineBlock
        /\ z.currentEpochId = x.currentEpochId /\ z.ending = x.ending
    BY DEF Lobby
  <2>2. y = running(z, limits)
    BY <1>2 DEF closedAt
  <2>3. Unpaying(x) /\ x.ending = "NONE"
    BY <1>2, PlayedUnpaid
  <2> HIDE DEF z
  <2>4. /\ y.status = "ACTIVE" /\ y.seats = z.seats /\ y.ending = z.ending
        /\ y.creator = z.creator /\ y.config = z.config
        /\ y.deadlineBlock = z.deadlineBlock /\ y.currentEpochId = z.currentEpochId
        /\ y.participantCount = z.participantCount
        /\ y.attack.launchBlock = epochStart(z, limits)
        /\ y.attack.impactBlock = y.attack.launchBlock + limits.epochBlocks
    BY <2>1, <2>2, RunningFields DEF epochStart
  <2>5. SameTeam(x, y) /\ Unpaying(y) /\ y.ending = "NONE"
        /\ y.attack.launchBlock = epochStart(x, limits)
    BY <2>1, <2>3, <2>4 DEF SameTeam, Unpaying, epochStart
  <2>6. Whole(x, limits) => Whole(y, limits)
    BY <2>5, TeamKept DEF Whole, SameTeam
  <2>7. QED
    BY <2>4, <2>5, <2>6
<1>3. CASE /\ ~(x.status # "OPEN" \/ b < x.deadlineBlock)
           /\ ~(x.participantCount >= x.config.minPlayers)
  <2> DEFINE z == [x EXCEPT !.status = "CANCELLED", !.ending = "UNPLAYED",
                            !.drawBounty = x.drawBounty]
  <2>1. /\ z \in Lobby /\ z.status = "CANCELLED" /\ z.ending = "UNPLAYED"
        /\ z.seats = x.seats /\ z.creator = x.creator /\ z.config = x.config
        /\ z.participantCount = x.participantCount /\ z.deadlineBlock = x.deadlineBlock
        /\ z.currentEpochId = x.currentEpochId
    BY DEF Lobby
  <2>2. y = returned(z)
    BY <1>3 DEF closedAt
  <2>3. Unpaying(x)
    BY <1>3, PlayedUnpaid
  <2> HIDE DEF z
  <2>4. /\ y.status = z.status /\ y.ending = z.ending
        /\ y.creator = z.creator /\ y.config = z.config
        /\ y.deadlineBlock = z.deadlineBlock /\ y.currentEpochId = z.currentEpochId
        /\ y.participantCount = z.participantCount
        /\ \A w \in Players : /\ y.seats[w].joined = z.seats[w].joined
                              /\ y.seats[w].payout = z.seats[w].payout
                              /\ y.seats[w].refunded => z.seats[w].refunded \/ w \in seated(z)
    BY <2>1, <2>2, ReturnedFields
  <2>5. SameTeam(x, y) /\ seated(z) = seated(x)
    BY <2>1, <2>4 DEF SameTeam, seated
  <2>6. \A w \in Players : /\ y.seats[w].payout # "PAID"
                           /\ y.seats[w].refunded => w \in seated(x)
    BY <2>1, <2>3, <2>4, <2>5 DEF Unpaying
  <2>7. Whole(x, limits) => Whole(y, limits)
    BY <2>1, <2>4, <2>5, <2>6, TeamKept DEF Whole, SameTeam
  <2>8. QED
    BY <2>1, <2>4, <2>5, <2>6, <2>7
<1>4. QED
  BY <1>1, <1>2, <1>3

LEMMA FlownWhole ==
    ASSUME NEW x \in Lobby, x.status = "ACTIVE", x.ending = "NONE", Unpaying(x),
           NEW limits, NEW b \in Int, NEW y, y = flown(x, b)
    PROVE  /\ SameTeam(x, y)
           /\ Whole(x, limits) => Whole(y, limits)
           /\ Unpaying(y)
           /\ y.status # "OPEN"
           /\ y.ending \in {"NONE", "COMPLETED", "UNPLAYED"}
<1> DEFINE z == [x EXCEPT !.attack.status = "LAUNCHED"]
           r == resolved(z, b)
<1>1. /\ z \in Lobby /\ z.status = x.status /\ z.seats = x.seats /\ z.ending = x.ending
      /\ SameTeam(x, z)
  BY LaunchedRoom DEF SameTeam
<1>2. y \in {r, z, x}
  BY DEF flown
<1> HIDE DEF z
<1>3. Unpaying(z)
  BY <1>1 DEF Unpaying
<1>4. /\ r.status \in {"CANCELLED", "RESOLVED"} /\ r.ending \in {"COMPLETED", "UNPLAYED"}
      /\ SameTeam(z, r) /\ Unpaying(r)
  <2> HIDE DEF r
  <2> QED BY <1>1, <1>3, ResolvedRoom DEF r, SameTeam, Unpaying
<1> HIDE DEF r
<1>5. SameTeam(x, r) /\ SameTeam(x, x)
  BY <1>1, <1>4 DEF SameTeam
<1>6. SameTeam(x, y) /\ Unpaying(y)
  BY <1>1, <1>2, <1>3, <1>4, <1>5
<1>7. Whole(x, limits) => Whole(y, limits)
  BY <1>6, TeamKept DEF Whole, SameTeam, Unpaying
<1>8. QED
  BY <1>1, <1>2, <1>4, <1>6, <1>7

LEMMA SettledWhole ==
    ASSUME NEW x \in Lobby, Sound(x), NEW limits \in ProtocolLimits, NEW b \in Int,
           NEW y, y = roomAt(x, limits, b)
    PROVE  SameTeam(x, y) /\ (Whole(x, limits) => Whole(y, limits))
<1> DEFINE z == closedAt(x, limits, b)
<1>1. /\ SameTeam(x, z) /\ (Whole(x, limits) => Whole(z, limits))
      /\ z.status = "ACTIVE" => Unpaying(z) /\ z.ending = "NONE"
  BY ClosedWhole
<1>2. z \in Lobby
  BY ClosedRoom DEF Sound, Story
<1>3. y = IF z.status = "ACTIVE" THEN flown(z, b) ELSE z
  BY DEF roomAt
<1> HIDE DEF z
<1>4. CASE z.status = "ACTIVE"
  <2>1. SameTeam(z, y) /\ (Whole(z, limits) => Whole(y, limits))
    BY <1>1, <1>2, <1>3, <1>4, FlownWhole
  <2>2. QED
    BY <1>1, <2>1 DEF SameTeam
<1>5. CASE z.status # "ACTIVE"
  BY <1>1, <1>3, <1>5
<1>6. QED
  BY <1>4, <1>5

-----------------------------------------------------------------------------
(* An operation as OperationLife knows it, and the steps it takes there.   *)

phaseOf(x) ==
    CASE x.ending = "COMPLETED" -> "completed"
      [] x.ending = "UNPLAYED"  -> "refunding"
      [] x.status = "OPEN"      -> "open"
      [] OTHER                  -> "running"

paidOf(x) == {w \in Players : x.seats[w].refunded \/ x.seats[w].payout = "PAID"}

SameLife(x, y) == phaseOf(y) = phaseOf(x) /\ seated(y) = seated(x) /\ paidOf(y) = paidOf(x)

Starting(x, y) ==
    /\ phaseOf(x) = "open" /\ Cardinality(seated(x)) >= Quorum
    /\ phaseOf(y) = "running" /\ seated(y) = seated(x) /\ paidOf(y) = paidOf(x)

CallingOff(x, y) ==
    /\ phaseOf(x) \in {"open", "running"} /\ phaseOf(y) = "refunding"
    /\ paidOf(y) \in SUBSET seated(x) /\ seated(y) = seated(x)

Finishing(x, y) ==
    /\ phaseOf(x) = "running" /\ phaseOf(y) = "completed"
    /\ seated(y) = seated(x) /\ paidOf(y) = paidOf(x)

Joining(x, y, w) ==
    /\ phaseOf(x) = "open" /\ w \notin seated(x) /\ seated(y) = seated(x) \cup {w}
    /\ phaseOf(y) = phaseOf(x) /\ paidOf(y) = paidOf(x)

Leaving(x, y, w) ==
    /\ phaseOf(x) = "open" /\ w \in seated(x) /\ seated(y) = seated(x) \ {w}
    /\ phaseOf(y) = phaseOf(x) /\ paidOf(y) = paidOf(x)

Paying(x, y, w) ==
    /\ phaseOf(x) \in {"completed", "refunding"} /\ w \in seated(x) \ paidOf(x)
    /\ paidOf(y) = paidOf(x) \cup {w}
    /\ phaseOf(y) = phaseOf(x) /\ seated(y) = seated(x)

Lives(x, y) ==
    \/ SameLife(x, y) \/ Starting(x, y) \/ CallingOff(x, y) \/ Finishing(x, y)
    \/ \E w \in Players : Joining(x, y, w) \/ Leaving(x, y, w) \/ Paying(x, y, w)

LEMMA LifeOfSeen ==
    ASSUME NEW x \in Lobby
    PROVE  /\ phaseOf(seen(x)) = phaseOf(x) /\ seated(seen(x)) = seated(x)
           /\ paidOf(seen(x)) = paidOf(x)
<1> DEFINE y == seen(x)
<1>1. y.ending = x.ending /\ y.status = x.status /\ y.seats = x.seats
  BY DEF seen, Lobby
<1> HIDE DEF y
<1>2. phaseOf(y) = phaseOf(x) /\ seated(y) = seated(x) /\ paidOf(y) = paidOf(x)
  BY <1>1 DEF phaseOf, seated, paidOf
<1>3. QED
  BY <1>2 DEF y

LEMMA UnpayingPaid ==
    ASSUME NEW x, Unpaying(x)
    PROVE  paidOf(x) = {}
BY DEF Unpaying, paidOf

(* What one more block makes of an operation that was settled.             *)
LEMMA BlockLives ==
    ASSUME NEW x \in Lobby, Sound(x), x.creator # Protocol,
           NEW limits \in ProtocolLimits, limits.minPlayers >= Quorum, Whole(x, limits),
           NEW b \in Int, Still(x, b), NEW y, y = roomAt(x, limits, b + 1)
    PROVE  Lives(x, y)
<1> DEFINE z == closedAt(x, limits, b + 1)
<1>1. b + 1 \in Int /\ x.status # "READY"
  BY DEF Still
<1>2. /\ z \in Lobby /\ SameTeam(x, z)
      /\ z.status = "OPEN" => z = x
      /\ z.status = "ACTIVE" => Unpaying(z) /\ z.ending = "NONE"
      /\ z.status = "ACTIVE" /\ x.status # "ACTIVE" => x.participantCount >= x.config.minPlayers
      /\ x.status = "OPEN" /\ z.status \notin {"OPEN", "ACTIVE"} =>
            /\ z.ending = "UNPLAYED"
            /\ \A w \in Players : /\ z.seats[w].payout # "PAID"
                                  /\ z.seats[w].refunded => w \in seated(x)
      /\ x.status = "OPEN" /\ z.status = "ACTIVE" =>
            /\ z.attack.launchBlock = epochStart(x, limits)
            /\ z.attack.impactBlock = z.attack.launchBlock + limits.epochBlocks
  BY <1>1, ClosedRoom, ClosedWhole
<1>3. y = IF z.status = "ACTIVE" THEN flown(z, b + 1) ELSE z
  BY DEF roomAt
<1>4. x.status \in {"CANCELLED", "RESOLVED", "ACTIVE"} => z = x
  BY DEF closedAt
<1>5. x.status \in {"OPEN", "ACTIVE"} => Unpaying(x) /\ x.ending = "NONE"
  BY PlayedUnpaid
<1> HIDE DEF z
<1>6. seated(z) = seated(x)
  BY <1>2, TeamKept
<1>7. CASE x.status \in {"CANCELLED", "RESOLVED"}
  BY <1>3, <1>4, <1>7 DEF Lives, SameLife
<1>8. CASE x.status = "ACTIVE"
  <2>1. y = flown(x, b + 1)
    BY <1>3, <1>4, <1>8
  <2>2. /\ SameTeam(x, y) /\ Unpaying(y) /\ y.status # "OPEN"
        /\ y.ending \in {"NONE", "COMPLETED", "UNPLAYED"}
    BY <1>1, <1>5, <1>8, <2>1, FlownWhole
  <2>3. seated(y) = seated(x) /\ paidOf(y) = {} /\ paidOf(x) = {}
    BY <1>5, <1>8, <2>2, TeamKept, UnpayingPaid
  <2>4. phaseOf(x) = "running"
    BY <1>5, <1>8 DEF phaseOf
  <2>5. phaseOf(y) \in {"running", "completed", "refunding"}
    BY <2>2 DEF phaseOf
  <2>6. QED
    BY <2>3, <2>4, <2>5 DEF Lives, SameLife, CallingOff, Finishing
<1>9. CASE x.status = "OPEN"
  <2>1. phaseOf(x) = "open" /\ paidOf(x) = {}
    BY <1>5, <1>9, UnpayingPaid DEF phaseOf
  <2>2. CASE z.status = "OPEN"
    BY <1>2, <1>3, <2>2 DEF Lives, SameLife
  <2>3. CASE z.status = "ACTIVE"
    <3>1. /\ b < x.deadlineBlock /\ epochStart(x, limits) > x.deadlineBlock
          /\ x.deadlineBlock \in Int /\ epochStart(x, limits) \in Int
          /\ limits.epochBlocks \in Nat
      <4>1. x.deadlineBlock \in Int /\ x.currentEpochId \in Int /\ limits.epochBlocks \in Nat
        BY DEF Lobby, ProtocolLimits
      <4>2. x.currentEpochId * limits.epochBlocks \in Int
        BY <4>1, ProductsOfInts
      <4>3. epochStart(x, limits) \in Int
        BY <4>2, EmulatorAssumption DEF epochStart, getEpochStartBlock
      <4>4. QED
        BY <1>9, <4>1, <4>3 DEF Still, Whole
    <3>2. ~(b + 1 >= z.attack.launchBlock) /\ ~(b + 1 >= z.attack.impactBlock)
      BY <1>2, <1>9, <2>3, <3>1
    <3>3. y = z
      BY <1>3, <2>3, <3>2 DEF flown
    <3>4. phaseOf(y) = "running" /\ paidOf(y) = {}
      BY <1>2, <2>3, <3>3, UnpayingPaid DEF phaseOf
    <3>5. Cardinality(seated(x)) >= Quorum
      <4>1. /\ x.participantCount = Cardinality(seated(x))
            /\ x.config.minPlayers >= limits.minPlayers
            /\ x.participantCount >= x.config.minPlayers
        BY <1>2, <1>9, <2>3 DEF Whole
      <4>2. /\ x.participantCount \in Int /\ x.config.minPlayers \in Int
            /\ limits.minPlayers \in Int /\ Quorum \in Int
        BY LobbyFields, QuorumAssumption DEF Config, ProtocolLimits
      <4>3. QED
        BY <4>1, <4>2
    <3>6. QED
      BY <1>6, <2>1, <3>3, <3>4, <3>5 DEF Lives, Starting
  <2>4. CASE z.status \notin {"OPEN", "ACTIVE"}
    <3>1. y = z /\ phaseOf(y) = "refunding"
      BY <1>2, <1>3, <1>9, <2>4 DEF phaseOf
    <3>2. paidOf(y) \in SUBSET seated(x)
      BY <1>2, <1>9, <2>4, <3>1 DEF paidOf
    <3>3. QED
      BY <1>6, <2>1, <3>1, <3>2 DEF Lives, CallingOff
  <2>5. QED
    BY <2>2, <2>3, <2>4
<1>10. QED
  BY <1>1, <1>7, <1>8, <1>9, LobbyFields

(* What a write makes of one.                                              *)
LEMMA MoveLives ==
    ASSUME NEW x \in Lobby, Sound(x), x.creator # Protocol, NEW limits, Whole(x, limits),
           NEW b, Still(x, b), NEW y \in Lobby, Moves(x, y)
    PROVE  Lives(x, y) /\ Still(y, b) /\ Whole(y, limits)
<1>1. Still(y, b)
  BY DEF Moves, SameRoom, Still
<1>2. /\ y.creator = x.creator /\ y.config = x.config /\ y.ending = x.ending
      /\ y.deadlineBlock = x.deadlineBlock /\ epochStart(y, limits) = epochStart(x, limits)
      /\ phaseOf(y) = phaseOf(x)
  BY DEF Moves, SameRoom, epochStart, phaseOf
<1>3. IsFiniteSet(seated(x)) /\ Cardinality(seated(x)) \in Nat /\ seated(x) \in SUBSET Players
  <2>1. seated(x) \in SUBSET Players
    BY DEF seated
  <2>2. QED
    BY <2>1, PlayersFinite, FS_Subset, FS_CardinalityType
<1>4. CASE Idles(x, y)
  <2>1. seated(y) = seated(x) /\ paidOf(y) = paidOf(x)
    BY <1>4 DEF Idles, SameMember, seated, paidOf
  <2>2. Lives(x, y)
    BY <1>2, <2>1 DEF Lives, SameLife
  <2>3. Whole(y, limits)
    BY <1>2, <1>4, <2>1 DEF Whole, Idles, SameMember
  <2>4. QED
    BY <1>1, <2>2, <2>3
<1>5. ASSUME NEW w \in Players, OthersStay(x, y, w), Enters(x, y, w)
      PROVE  Joining(x, y, w) /\ Whole(y, limits)
  <2>1. phaseOf(x) = "open" /\ x.ending = "NONE" /\ Unpaying(x)
    BY <1>5, PlayedUnpaid DEF Enters, phaseOf
  <2>2. y.seats[w].joined /\ ~y.seats[w].refunded /\ y.seats[w].payout = "NONE"
    <3> DEFINE seat == [NoSeat EXCEPT !.joined = TRUE, !.paidIn = y.seats[w].paidIn]
    <3>1. seat.joined /\ ~seat.refunded /\ seat.payout = "NONE"
      BY DEF NoSeat
    <3>2. y.seats[w] = seat
      BY <1>5 DEF Enters
    <3> HIDE DEF seat
    <3>3. QED
      BY <3>1, <3>2
  <2>3. w \notin seated(x) /\ seated(y) = seated(x) \cup {w}
    BY <1>5, <2>2 DEF Enters, OthersStay, SameMember, seated
  <2>4. paidOf(y) = paidOf(x)
    BY <1>5, <2>1, <2>2 DEF OthersStay, SameMember, paidOf, Unpaying
  <2>5. Cardinality(seated(y)) = Cardinality(seated(x)) + 1
    BY <1>3, <2>3, FS_AddElement
  <2>6. Whole(y, limits)
    BY <1>2, <1>5, <2>1, <2>5 DEF Whole, Enters
  <2>7. QED
    BY <1>2, <2>1, <2>3, <2>4, <2>6 DEF Joining
<1>6. ASSUME NEW w \in Players, OthersStay(x, y, w), Quits(x, y, w)
      PROVE  Leaving(x, y, w) /\ Whole(y, limits)
  <2>1. phaseOf(x) = "open" /\ x.ending = "NONE" /\ Unpaying(x)
    BY <1>6, PlayedUnpaid DEF Quits, phaseOf
  <2>2. ~y.seats[w].joined /\ ~y.seats[w].refunded /\ y.seats[w].payout = "NONE"
    BY <1>6 DEF Quits, NoSeat
  <2>3. w \in seated(x) /\ seated(y) = seated(x) \ {w}
    BY <1>6, <2>2 DEF Quits, OthersStay, SameMember, seated
  <2>4. paidOf(y) = paidOf(x)
    BY <1>6, <2>1, <2>2 DEF OthersStay, SameMember, paidOf, Unpaying
  <2>5. Cardinality(seated(y)) = Cardinality(seated(x)) - 1
    <3>1. Cardinality(seated(x) \ {w})
            = IF w \in seated(x) THEN Cardinality(seated(x)) - 1 ELSE Cardinality(seated(x))
      BY <1>3, FS_RemoveElement
    <3>2. QED
      BY <2>3, <3>1
  <2>6. Cardinality(seated(x)) > 0
    BY <1>3, <2>3, FS_EmptySet
  <2>7. Whole(y, limits)
    BY <1>2, <1>3, <1>6, <2>1, <2>5, <2>6 DEF Whole, Quits
  <2>8. QED
    BY <1>2, <2>1, <2>3, <2>4, <2>7 DEF Leaving
<1>7. ASSUME NEW w \in Players, OthersStay(x, y, w), Rewarded(x, y, w)
      PROVE  Paying(x, y, w) /\ Whole(y, limits)
  <2>1. phaseOf(x) = "completed" /\ \A v \in Players : ~x.seats[v].refunded
    <3>1. x.ending = "COMPLETED" /\ x.status # "OPEN"
      BY <1>7, PlayedUnpaid DEF Rewarded
    <3>2. phaseOf(x) = "completed"
      BY <3>1 DEF phaseOf
    <3>3. QED
      BY <3>1, <3>2 DEF Whole
  <2>2. seated(y) = seated(x) /\ w \in seated(x)
    BY <1>7 DEF Rewarded, OthersStay, SameMember, seated
  <2>3. w \notin paidOf(x) /\ paidOf(y) = paidOf(x) \cup {w}
    BY <1>7, <2>1 DEF Rewarded, OthersStay, SameMember, paidOf
  <2>4. Whole(y, limits)
    BY <1>2, <1>7, <2>1, <2>2 DEF Whole, Rewarded, OthersStay, SameMember
  <2>5. QED
    BY <1>2, <2>1, <2>2, <2>3, <2>4 DEF Paying
<1>8. ASSUME NEW w \in Players, OthersStay(x, y, w), Refunded(x, y, w)
      PROVE  Paying(x, y, w) /\ Whole(y, limits)
  <2>1. phaseOf(x) = "refunding" /\ \A v \in Players : x.seats[v].payout # "PAID"
    <3>1. x.ending = "UNPLAYED" /\ x.status # "OPEN"
      BY <1>8, PlayedUnpaid DEF Refunded
    <3>2. phaseOf(x) = "refunding"
      BY <3>1 DEF phaseOf
    <3>3. QED
      BY <3>1, <3>2 DEF Whole
  <2>2. seated(y) = seated(x) /\ w \in seated(x)
    BY <1>8 DEF Refunded, OthersStay, SameMember, seated
  <2>3. w \notin paidOf(x) /\ paidOf(y) = paidOf(x) \cup {w}
    BY <1>8, <2>1 DEF Refunded, OthersStay, SameMember, paidOf
  <2>4. Whole(y, limits)
    BY <1>2, <1>8, <2>1, <2>2 DEF Whole, Refunded, OthersStay, SameMember
  <2>5. QED
    BY <1>2, <2>1, <2>2, <2>3, <2>4 DEF Paying
<1>9. QED
  BY <1>1, <1>4, <1>5, <1>6, <1>7, <1>8 DEF Moves, Lives

-----------------------------------------------------------------------------
(* The steps by what they do to players' operations.                       *)

(* An operation a player has just opened; it launches after its deadline,  *)
(* in the epoch that follows or the one after that.                        *)
Unjoined(y, limits, b) ==
    /\ y.creator \in Players /\ y.status = "OPEN" /\ y.ending = "NONE"
    /\ y.participantCount = 0 /\ \A w \in Players : y.seats[w] = NoSeat
    /\ y.config.minPlayers >= limits.minPlayers
    /\ y.deadlineBlock >= b
    /\ epochStart(y, limits) > y.deadlineBlock

Created ==
    \E y \in Lobby :
        /\ Unjoined(y, chain.limits, chain.block)
        /\ chain'.lobbies = Append(chain.lobbies, y)
        /\ chain'.limits = chain.limits /\ chain'.block = chain.block
        /\ disk' = chain' /\ start' = start

Ticked ==
    /\ chain.block < start.lastBlock /\ disk' = chain' /\ start' = start
    /\ \E s : /\ Books(s) /\ s.lobbies = chain.lobbies
              /\ s.limits = chain.limits /\ s.block = chain.block + 1
              /\ Looks(s, chain')

Looked == Looks(chain, chain') /\ disk' \in {disk, chain'} /\ start' = start

WentBack == chain' = disk /\ disk' = disk /\ start' = start

LEMMA EpochAfter ==
    ASSUME NEW a \in Int, NEW n \in Nat \ {0}
    PROVE  a \div n \in Int /\ (a \div n + 1) * n > a /\ (a \div n + 1 + 1) * n > a
OBVIOUS

LEMMA LaunchAfterDeadline ==
    ASSUME NEW d \in Int, NEW n \in Nat \ {0}
    PROVE  /\ launchEpochOf(d, n, InitialBlock) \in Int
           /\ getEpochStartBlock(launchEpochOf(d, n, InitialBlock), n, InitialBlock) > d
<1> DEFINE a == d - InitialBlock
           q == a \div n
           e == launchEpochOf(d, n, InitialBlock)
           p == e * n
<1>1. a \in Int /\ InitialBlock \in Int /\ d = a + InitialBlock
  BY EmulatorAssumption
<1>2. e \in {q + 1, q + 1 + 1}
  BY DEF launchEpochOf, getEpochFromBlock
<1> HIDE DEF a, e
<1>3. q \in Int /\ (q + 1) * n > a /\ (q + 1 + 1) * n > a
  BY <1>1, EpochAfter
<1> HIDE DEF q
<1>4. e \in Int /\ p > a
  BY <1>2, <1>3
<1>5. p \in Int
  BY <1>4, ProductsOfInts
<1>6. getEpochStartBlock(e, n, InitialBlock) = InitialBlock + p
  BY DEF getEpochStartBlock
<1> HIDE DEF p
<1>7. InitialBlock + p > d
  BY <1>1, <1>4, <1>5
<1>8. QED
  BY <1>4, <1>6, <1>7 DEF e

LEMMA CreatingCreates ==
    ASSUME Books(chain), NEW w \in Creators, NEW config \in Configs, NEW d \in 0 .. MaxDeadline,
           createLobby(w, config, d)
    PROVE  Created
<1> DEFINE e == launchEpochOf(d, chain.limits.epochBlocks, InitialBlock)
           amount == config.prizePool + chain.limits.joinFee
           m == escrow(chain, w, amount)
           y == newLobby(chain, w, config, d, e)
           ys == Append(chain.lobbies, y)
           t == [m EXCEPT !.lobbies = ys]
<1>1. /\ IsState(chain) /\ chain.lobbies \in Seq(Lobby) /\ chain.limits.epochBlocks \in Nat \ {0}
      /\ chain.limits.joinFee \in Nat
  BY StateFields DEF Books, ProtocolLimits
<1>2. w \in Players /\ w # Protocol /\ config \in Config /\ config.prizePool \in Nat /\ d \in Int
  BY TermsAssumption, PlayersFinite DEF Config
<1>3. persist(t)
  <2>1. t = applyCreateLobby(chain, w, config, d)
    <3>1. m.lobbies = chain.lobbies
      BY <1>1 DEF escrow, IsState
    <3>2. QED
      BY <3>1 DEF applyCreateLobby
  <2>2. QED
    BY <2>1 DEF createLobby
<1>4. e \in Int /\ getEpochStartBlock(e, chain.limits.epochBlocks, InitialBlock) > d
  BY <1>1, <1>2, LaunchAfterDeadline
<1>5. config.minPlayers >= chain.limits.minPlayers /\ d >= chain.block
  <2>1. chain.limits.minPlayers <= config.minPlayers /\ d >= chain.block
    BY DEF createLobby, validateLobbyConfig
  <2>2. chain.limits.minPlayers \in Int /\ config.minPlayers \in Int
    BY <1>1, <1>2, StateFields DEF Config, ProtocolLimits
  <2>3. QED
    BY <2>1, <2>2
<1> HIDE DEF e, amount
<1>6. y \in Lobby
  <2> DEFINE zero == 0
             now == chain.block
             fee == chain.limits.joinFee
  <2>1. y = fresh(w, config, d, now, e, fee, zero)
    BY <1>2 DEF fresh, newLobby
  <2>2. /\ d \in Int /\ now \in Int /\ e \in Int /\ fee \in Nat /\ zero \in Int
        /\ w \in Players \cup {Protocol}
    BY <1>1, <1>2, <1>4, StateFields
  <2> HIDE DEF y, zero, now, fee
  <2>3. QED
    BY <1>2, <2>1, <2>2, FreshOwes
<1>7. /\ y.creator = w /\ y.status = "OPEN" /\ y.ending = "NONE" /\ y.participantCount = 0
      /\ y.seats = [v \in Players |-> NoSeat] /\ y.config = config /\ y.deadlineBlock = d
      /\ y.currentEpochId = e
  BY DEF newLobby
<1> HIDE DEF y
<1>8. Unjoined(y, chain.limits, chain.block)
  BY <1>2, <1>4, <1>5, <1>7 DEF Unjoined, epochStart
<1> HIDE DEF ys
<1>9. t.lobbies = ys /\ t.limits = chain.limits /\ t.block = chain.block
  BY <1>1 DEF IsState, escrow
<1> HIDE DEF t
<1>10. chain' = t /\ disk' = t /\ start' = start
  BY <1>3 DEF persist
<1>11. QED
  BY <1>6, <1>8, <1>9, <1>10 DEF Created, ys

LEMMA BlockTicks ==
    ASSUME Books(chain), Tick
    PROVE  Ticked
<1> DEFINE b == chain.block + 1
           t == [chain EXCEPT !.block = b]
<1>1. IsState(chain) /\ b \in Int
  BY StateFields DEF Books
<1>2. mineBlock(chain) = drawUpkeep(t)
  BY <1>1 DEF mineBlock, IsState
<1>3. b = chain.block + 1
  OBVIOUS
<1> HIDE DEF b
<1>4. /\ t.lobbies = chain.lobbies /\ t.escrow = chain.escrow /\ t.limits = chain.limits
      /\ t.globalDefensePool = chain.globalDefensePool /\ t.block = b
      /\ t.globalDefenseLobby = chain.globalDefenseLobby
  BY <1>1 DEF IsState
<1>5. IsState(t)
  <2>1. t = [ limits |-> chain.limits, block |-> b, wallet |-> chain.wallet,
              escrow |-> chain.escrow, globalDefensePool |-> chain.globalDefensePool,
              globalDefenseLobby |-> chain.globalDefenseLobby, lobbies |-> chain.lobbies ]
    BY <1>1 DEF IsState
  <2>2. QED
    BY <1>1, <2>1 DEF IsState
<1> HIDE DEF t
<1>6. Books(t)
  BY <1>4, <1>5 DEF Books, Booked, dues
<1>7. Looks(t, drawUpkeep(t))
  BY <1>6, UpkeepLooks
<1>8. chain.block < start.lastBlock /\ chain' = drawUpkeep(t) /\ disk' = chain' /\ start' = start
  BY <1>2 DEF Tick, persist
<1>9. QED
  BY <1>3, <1>4, <1>6, <1>7, <1>8 DEF Ticked

LEMMA SeatedMoves ==
    ASSUME Books(chain), ~Rejoins, NEW l \in LobbyIds, NEW w \in Players, Seated(w, l)
    PROVE  Written(l)
<1>1. CASE joinLobby(w, l)
  BY <1>1, JoiningMoves
<1>2. CASE leaveLobby(w, l)
  BY <1>2, LeavingMoves
<1>3. CASE buyDrone(w, l)
  BY <1>3, BuyingMoves
<1>4. CASE sendReconProbe(w, l)
  BY <1>4, ProbingMoves
<1>5. CASE \E onTarget \in BOOLEAN : submitDefense(w, l, onTarget)
  BY <1>5, DefendingMoves
<1>6. CASE claimReward(w, l)
  BY <1>6, RewardingMoves
<1>7. CASE claimRefund(w, l)
  BY <1>7, RefundingMoves
<1>8. QED
  BY <1>1, <1>2, <1>3, <1>4, <1>5, <1>6, <1>7 DEF Seated

LEMMA LifecycleSteps ==
    ASSUME Books(chain), NEW l \in LobbyIds, Lifecycle(l)
    PROVE  Looked \/ Written(l)
<1>1. Looks(chain, settleLobby(chain, l))
  BY SettlingLooks DEF LobbyIds
<1>2. CASE readLobby(l)
  BY <1>1, <1>2 DEF readLobby, Looked
<1>3. CASE refused(l)
  BY <1>1, <1>3 DEF refused, persist, Looked
<1>4. CASE revealAttack(l)
  BY <1>4, RevealingMoves
<1>5. CASE settleCreator(l)
  BY <1>5, SettlingTheCreatorMoves
<1>6. QED
  BY <1>2, <1>3, <1>4, <1>5 DEF Lifecycle

LEMMA EveryStepIsOneOf ==
    ASSUME Books(chain), ~Rejoins, [Next]_emulatorVars
    PROVE  Looked \/ Ticked \/ Created \/ WentBack \/ \E l \in LobbyIds : Written(l)
<1>1. CASE Tick
  BY <1>1, BlockTicks
<1>2. CASE Reload
  BY <1>2 DEF Reload, WentBack
<1>3. CASE getGameStats
  BY <1>3, StatsLook DEF getGameStats, Looked
<1>4. CASE openGlobalDefense
  BY <1>4, DrawOpeningLooks DEF openGlobalDefense, applyOpenGlobalDefenseOK, persist, Looked
<1>5. CASE \E w \in Creators, config \in Configs, d \in 0 .. MaxDeadline :
               createLobby(w, config, d)
  BY <1>5, CreatingCreates
<1>6. CASE \E l \in LobbyIds : Lifecycle(l) \/ \E w \in Players : Seated(w, l)
  BY <1>6, LifecycleSteps, SeatedMoves
<1>7. CASE UNCHANGED emulatorVars
  BY <1>7, NothingLooks DEF emulatorVars, Looked
<1>8. QED
  BY <1>1, <1>2, <1>3, <1>4, <1>5, <1>6, <1>7 DEF Next

LEMMA LooksRoom ==
    ASSUME NEW s, Books(s), NEW t, Looks(s, t), NEW l \in DOMAIN s.lobbies,
           s.lobbies[l].creator # Protocol
    PROVE  l \in DOMAIN t.lobbies /\ t.lobbies[l].creator # Protocol /\ roomOf(t, l) = roomOf(s, l)
<1>1. roomAt(roomOf(s, l), s.limits, s.block) = roomOf(s, l)
  BY RoomFacts
<1>2. /\ l \in DOMAIN t.lobbies /\ t.lobbies[l].creator # Protocol
      /\ t.lobbies[l] \in {s.lobbies[l], roomOf(s, l)}
      /\ t.limits = s.limits /\ t.block = s.block
  BY DEF Looks
<1>3. roomOf(t, l) = roomAt(t.lobbies[l], s.limits, s.block)
  BY <1>2 DEF roomOf
<1>4. CASE t.lobbies[l] = s.lobbies[l]
  BY <1>2, <1>3, <1>4 DEF roomOf
<1>5. CASE t.lobbies[l] = roomOf(s, l)
  BY <1>1, <1>2, <1>3, <1>5
<1>6. QED
  BY <1>2, <1>4, <1>5

LEMMA LooksWhole ==
    ASSUME NEW s, Books(s), Wholes(s), NEW t, Looks(s, t)
    PROVE  Wholes(t)
<1> SUFFICES ASSUME NEW l \in DOMAIN t.lobbies, t.lobbies[l].creator # Protocol
             PROVE  Whole(t.lobbies[l], s.limits)
  BY DEF Wholes, Whole, Looks
<1>1. l \in DOMAIN s.lobbies /\ s.lobbies[l].creator # Protocol
  BY DEF Looks
<1>2. t.lobbies[l] \in {s.lobbies[l], roomOf(s, l)}
  BY <1>1 DEF Looks
<1>3. /\ s.lobbies[l] \in Lobby /\ Sound(s.lobbies[l])
      /\ s.limits \in ProtocolLimits /\ s.block \in Int
  BY <1>1, RoomFacts
<1>4. Whole(s.lobbies[l], s.limits)
  BY <1>1 DEF Wholes
<1>5. Whole(roomOf(s, l), s.limits)
  BY <1>3, <1>4, SettledWhole DEF roomOf
<1>6. QED
  BY <1>2, <1>4, <1>5

(* What is true of the tab and of what it saved, the one read on from the  *)
(* other: nothing but readings lies between them.                          *)
Kin ==
    /\ Books(chain) /\ Books(disk) /\ Looks(disk, chain)
    /\ Wholes(chain) /\ Wholes(disk)
    /\ start \in Starts /\ chain.limits = start.limits /\ chain.block <= start.lastBlock

LEMMA KinFacts ==
    ASSUME Kin
    PROVE  /\ chain.block \in Int /\ start.lastBlock \in Int
           /\ chain.limits \in ProtocolLimits /\ chain.limits.minPlayers >= Quorum
           /\ chain.limits.minPlayers \in Nat /\ Quorum \in Nat \ {0}
<1>1. start \in Starts /\ chain.limits = start.limits /\ Books(chain)
  BY DEF Kin
<1>2. start \in [limits : ProtocolLimits, pile : Nat, rooms : Nat, lastBlock : Nat]
  BY <1>1, StartsAssumption
<1>3. start.lastBlock \in Int /\ start.limits.minPlayers >= Quorum /\ Quorum \in Nat \ {0}
  BY <1>1, <1>2, QuorumAssumption
<1>4. chain.block \in Int /\ chain.limits \in ProtocolLimits
  BY <1>1, StateFields DEF Books
<1>5. chain.limits.minPlayers \in Nat
  BY <1>4 DEF ProtocolLimits
<1>6. QED
  BY <1>1, <1>3, <1>4, <1>5

LEMMA UnjoinedWhole ==
    ASSUME NEW y, NEW limits, NEW b, Unjoined(y, limits, b)
    PROVE  Whole(y, limits) /\ seated(y) = {}
<1>1. seated(y) = {} /\ y.participantCount = 0 /\ y.ending = "NONE"
  BY DEF Unjoined, seated, NoSeat
<1>2. Cardinality({}) = 0
  BY FS_EmptySet
<1>3. QED
  BY <1>1, <1>2 DEF Unjoined, Whole

LEMMA LookedKin ==
    ASSUME Kin, Looked, Books(chain'), Books(disk')
    PROVE  Kin'
<1>1. Looks(chain, chain') /\ disk' \in {disk, chain'} /\ start' = start
  BY DEF Looked
<1>2. Books(chain) /\ Books(disk) /\ Looks(disk, chain) /\ Wholes(chain) /\ Wholes(disk)
  BY DEF Kin
<1>3. Wholes(chain')
  BY <1>1, <1>2, LooksWhole
<1>4. Looks(disk, chain') /\ Looks(chain', chain')
  BY <1>1, <1>2, LooksOn, NothingLooks
<1>5. chain'.limits = chain.limits /\ chain'.block = chain.block
  BY <1>1 DEF Looks
<1>6. CASE disk' = disk
  BY <1>1, <1>2, <1>3, <1>4, <1>5, <1>6 DEF Kin
<1>7. CASE disk' = chain'
  BY <1>1, <1>2, <1>3, <1>4, <1>5, <1>7 DEF Kin
<1>8. QED
  BY <1>1, <1>6, <1>7

LEMMA TickedKin ==
    ASSUME Kin, Ticked, Books(chain'), Books(disk')
    PROVE  Kin'
<1>1. PICK s : /\ Books(s) /\ s.lobbies = chain.lobbies
               /\ s.limits = chain.limits /\ s.block = chain.block + 1
               /\ Looks(s, chain')
  BY DEF Ticked
<1>2. Wholes(s)
  BY <1>1 DEF Kin, Wholes
<1>3. Wholes(chain')
  BY <1>1, <1>2, LooksWhole
<1>4. chain'.limits = chain.limits /\ chain'.block = chain.block + 1
  BY <1>1 DEF Looks
<1>5. chain.block < start.lastBlock /\ disk' = chain' /\ start' = start
  BY DEF Ticked
<1>6. chain'.block <= start'.lastBlock
  BY <1>4, <1>5, KinFacts
<1>7. Looks(chain', chain')
  BY NothingLooks
<1>8. QED
  BY <1>3, <1>4, <1>5, <1>6, <1>7 DEF Kin

LEMMA CreatedKin ==
    ASSUME Kin, Created, Books(chain'), Books(disk')
    PROVE  Kin'
<1>1. PICK y \in Lobby :
        /\ Unjoined(y, chain.limits, chain.block)
        /\ chain'.lobbies = Append(chain.lobbies, y)
        /\ chain'.limits = chain.limits /\ chain'.block = chain.block
        /\ disk' = chain' /\ start' = start
  BY DEF Created
<1>2. chain.lobbies \in Seq(Lobby)
  BY StateFields DEF Kin, Books
<1>3. \A l \in DOMAIN chain'.lobbies :
          chain'.lobbies[l] = y \/ (l \in DOMAIN chain.lobbies /\ chain'.lobbies[l] = chain.lobbies[l])
  BY <1>1, <1>2
<1>4. Wholes(chain')
  BY <1>1, <1>3, UnjoinedWhole DEF Kin, Wholes
<1>5. Looks(chain', chain')
  BY NothingLooks
<1>6. QED
  BY <1>1, <1>4, <1>5 DEF Kin

LEMMA WentBackKin ==
    ASSUME Kin, WentBack, Books(chain'), Books(disk')
    PROVE  Kin'
<1>1. chain' = disk /\ disk' = disk /\ start' = start
  BY DEF WentBack
<1>2. disk.limits = chain.limits /\ disk.block = chain.block
  BY DEF Kin, Looks
<1>3. Looks(disk, disk)
  BY NothingLooks
<1>4. QED
  BY <1>1, <1>2, <1>3 DEF Kin

LEMMA WrittenRoom ==
    ASSUME Kin, NEW l \in LobbyIds, Written(l), Books(chain'), chain.lobbies[l].creator # Protocol
    PROVE  LET x == roomOf(chain, l)
               y == chain'.lobbies[l]
           IN  /\ Lives(x, y) /\ Whole(y, chain.limits) /\ roomOf(chain', l) = y
               /\ l \in DOMAIN chain'.lobbies /\ y.creator # Protocol
<1> DEFINE x == roomOf(chain, l)
           y == chain'.lobbies[l]
<1>1. /\ chain.lobbies[l] \in Lobby /\ Sound(chain.lobbies[l])
      /\ x \in Lobby /\ Sound(x) /\ x.creator # Protocol /\ Still(x, chain.block)
      /\ chain.limits \in ProtocolLimits /\ chain.block \in Int
  BY RoomFacts DEF Kin, LobbyIds
<1>2. Whole(chain.lobbies[l], chain.limits)
  BY DEF Kin, Wholes, LobbyIds
<1>3. Whole(x, chain.limits)
  BY <1>1, <1>2, SettledWhole DEF roomOf
<1>4. /\ Alike(chain, chain') /\ DOMAIN chain'.lobbies = DOMAIN chain.lobbies
      /\ y.creator = chain.lobbies[l].creator /\ Moves(x, y)
  BY DEF Written, Touches
<1>5. l \in DOMAIN chain'.lobbies /\ y \in Lobby
  BY <1>4, StateFields DEF Books, LobbyIds
<1> HIDE DEF x, y
<1>6. Lives(x, y) /\ Still(y, chain.block) /\ Whole(y, chain.limits)
  BY <1>1, <1>3, <1>4, <1>5, MoveLives
<1>7. roomOf(chain', l) = y
  BY <1>1, <1>4, <1>5, <1>6, StillRoom DEF roomOf, Alike, y
<1>8. QED
  BY <1>4, <1>5, <1>6, <1>7 DEF x, y

LEMMA WrittenKin ==
    ASSUME Kin, NEW l \in LobbyIds, Written(l), Books(chain'), Books(disk')
    PROVE  Kin'
<1>1. /\ disk' = chain' /\ start' = start
      /\ chain'.limits = chain.limits /\ chain'.block = chain.block
      /\ DOMAIN chain'.lobbies = DOMAIN chain.lobbies
      /\ \A k \in DOMAIN chain.lobbies : k # l => chain'.lobbies[k] = chain.lobbies[k]
      /\ chain'.lobbies[l].creator = chain.lobbies[l].creator
  BY DEF Written, Touches, Alike
<1>2. Wholes(chain')
  <2>1. ASSUME NEW k \in DOMAIN chain'.lobbies, chain'.lobbies[k].creator # Protocol
        PROVE  Whole(chain'.lobbies[k], chain'.limits)
    <3>1. CASE k = l
      BY <1>1, <2>1, <3>1, WrittenRoom
    <3>2. CASE k # l
      BY <1>1, <3>2 DEF Kin, Wholes
    <3>3. QED
      BY <3>1, <3>2
  <2>2. QED
    BY <2>1 DEF Wholes, Whole
<1>3. Looks(chain', chain')
  BY NothingLooks
<1>4. QED
  BY <1>1, <1>2, <1>3 DEF Kin

LEMMA StepKeepsKin ==
    ASSUME Kin, ~Rejoins, [Next]_emulatorVars
    PROVE  Kin'
<1>1. Books(chain') /\ Books(disk')
  BY StepKeepsTheBooks DEF Kin
<1>2. Looked \/ Ticked \/ Created \/ WentBack \/ \E l \in LobbyIds : Written(l)
  BY EveryStepIsOneOf DEF Kin
<1>3. QED
  BY <1>1, <1>2, LookedKin, TickedKin, CreatedKin, WentBackKin, WrittenKin

LEMMA StartedKin ==
    ASSUME Init
    PROVE  Kin /\ playersRooms = {}
<1>1. Books(chain) /\ Books(disk) /\ disk = chain
  BY StartedBooks DEF Init
<1>2. start \in Starts
  BY DEF Init
<1>3. start.lastBlock \in Int /\ start.lastBlock >= InitialBlock /\ InitialBlock \in Int
  BY <1>2, StartsAssumption, EmulatorAssumption
<1>4. chain.limits = start.limits /\ chain.block = InitialBlock /\ chain.lobbies = <<>>
  BY DEF Init, createEmulatorState
<1>5. Wholes(chain) /\ playersRooms = {}
  BY <1>4 DEF Wholes, playersRooms, LobbyIds
<1>6. Looks(disk, chain)
  BY <1>1, NothingLooks
<1>7. chain.block <= start.lastBlock
  BY <1>3, <1>4
<1>8. QED
  BY <1>1, <1>2, <1>4, <1>5, <1>6, <1>7 DEF Kin

LEMMA TheTabAndItsCopyAreKin ==
    ASSUME ~Rejoins
    PROVE  Spec => []Kin
<1>1. Init => Kin
  BY StartedKin
<1>2. Kin /\ [Next]_emulatorVars => Kin'
  BY StepKeepsKin
<1>3. QED
  BY <1>1, <1>2, PTL DEF Spec

(* A reload loses no move that was confirmed: what it goes back to is what *)
(* the tab had, some readings apart, whatever was clicked before.          *)
THEOREM AReloadLosesNoMove ==
    ASSUME ~Rejoins
    PROVE  Spec => []ReloadLosesNoMove
<1>1. ASSUME Kin
      PROVE  ReloadLosesNoMove
  <2>1. Books(chain) /\ Books(disk) /\ Looks(disk, chain)
    BY <1>1 DEF Kin
  <2>2. disk.block = chain.block
    BY <2>1 DEF Looks
  <2>3. ASSUME NEW l \in playersRooms
        PROVE  l \in DOMAIN disk.lobbies /\ viewOf(disk, l) = viewOf(chain, l)
    <3>1. l \in DOMAIN chain.lobbies /\ chain.lobbies[l].creator # Protocol
      BY DEF playersRooms, LobbyIds
    <3>2. l \in DOMAIN disk.lobbies /\ disk.lobbies[l].creator # Protocol
      BY <2>1, <3>1 DEF Looks
    <3>3. roomOf(chain, l) = roomOf(disk, l)
      BY <2>1, <3>2, LooksRoom
    <3>4. viewOf(disk, l) = seen(roomOf(disk, l)) /\ viewOf(chain, l) = seen(roomOf(chain, l))
      BY <2>1, <3>1, <3>2, RoomFacts
    <3>5. QED
      BY <3>2, <3>3, <3>4
  <2>4. QED
    BY <2>2, <2>3 DEF ReloadLosesNoMove
<1>2. Kin => ReloadLosesNoMove
  BY <1>1
<1>3. QED
  BY <1>2, TheTabAndItsCopyAreKin, PTL

LEMMA BlocksApart ==
    ASSUME NEW s, Books(s), NEW c \in Int, NEW t, t = [s EXCEPT !.block = c]
    PROVE  /\ Books(t) /\ t.lobbies = s.lobbies /\ t.limits = s.limits /\ t.block = c
<1>1. IsState(s)
  BY DEF Books
<1>2. /\ t.lobbies = s.lobbies /\ t.escrow = s.escrow /\ t.limits = s.limits
      /\ t.globalDefensePool = s.globalDefensePool /\ t.block = c
      /\ t.globalDefenseLobby = s.globalDefenseLobby
  BY <1>1 DEF IsState
<1>3. IsState(t)
  <2>1. t = [ limits |-> s.limits, block |-> c, wallet |-> s.wallet,
              escrow |-> s.escrow, globalDefensePool |-> s.globalDefensePool,
              globalDefenseLobby |-> s.globalDefenseLobby, lobbies |-> s.lobbies ]
    BY <1>1 DEF IsState
  <2>2. QED
    BY <1>1, <2>1 DEF IsState
<1>4. QED
  BY <1>2, <1>3 DEF Books, Booked, dues

(* Looking early changes nothing: an operation read at any block, or at    *)
(* none, is at the end of the game what it would have been.                *)
THEOREM ReadingEarlyChangesNothing ==
    ASSUME ~Rejoins
    PROVE  Spec => []ReadingChangesNothing
<1>1. ASSUME Kin
      PROVE  ReadingChangesNothing
  <2>1. Books(chain)
    BY <1>1 DEF Kin
  <2>2. ASSUME NEW l \in playersRooms
        PROVE  viewOf(later(settleLobby(chain, l)), l) = viewOf(later(chain), l)
    <3> DEFINE x == chain.lobbies[l]
               t == settleLobby(chain, l)
               c == start.lastBlock
               early == [t EXCEPT !.block = c]
               late == [chain EXCEPT !.block = c]
    <3>1. /\ l \in DOMAIN chain.lobbies /\ x.creator # Protocol
      BY DEF playersRooms, LobbyIds
    <3>2. /\ x \in Lobby /\ x.status # "READY" /\ roomOf(chain, l).creator # Protocol
          /\ chain.limits \in ProtocolLimits /\ chain.block \in Int
      BY <2>1, <3>1, RoomFacts
    <3>3. c \in Int /\ chain.block <= c
      BY <1>1, KinFacts DEF Kin
    <3>4. /\ Books(t) /\ t.limits = chain.limits /\ l \in DOMAIN t.lobbies
          /\ t.lobbies[l] = roomOf(chain, l)
      BY <2>1, <3>1, SettlingKeeps, SettlingRoom DEF Onward, roomOf, Touches, Alike
    <3> HIDE DEF t, c, x
    <3>5. /\ Books(early) /\ early.lobbies = t.lobbies /\ early.limits = chain.limits
          /\ early.block = c
      BY <3>3, <3>4, BlocksApart
    <3>6. /\ Books(late) /\ late.lobbies = chain.lobbies /\ late.limits = chain.limits
          /\ late.block = c
      BY <2>1, <3>3, BlocksApart
    <3>7. later(t) = early /\ later(chain) = late
      BY DEF later, c
    <3> HIDE DEF early, late
    <3>8. viewOf(early, l) = seen(roomAt(roomAt(x, chain.limits, chain.block), chain.limits, c))
      <4>1. viewOf(early, l) = seen(roomOf(early, l))
        BY <3>2, <3>4, <3>5, RoomFacts
      <4>2. QED
        BY <3>4, <3>5, <4>1 DEF roomOf, x
    <3>9. viewOf(late, l) = seen(roomAt(x, chain.limits, c))
      <4>1. viewOf(late, l) = seen(roomOf(late, l))
        BY <3>1, <3>6, RoomFacts DEF x
      <4>2. QED
        BY <3>6, <4>1 DEF roomOf, x
    <3>10. QED
      BY <3>2, <3>3, <3>7, <3>8, <3>9, RoomTwice DEF t
  <2>3. QED
    BY <2>2 DEF ReadingChangesNothing
<1>2. Kin => ReadingChangesNothing
  BY <1>1
<1>3. QED
  BY <1>2, TheTabAndItsCopyAreKin, PTL

-----------------------------------------------------------------------------
(* What a step makes of a player's operation, settled.                     *)

LEMMA SameLifeLives ==
    ASSUME NEW x, NEW y, y = x
    PROVE  Lives(x, y)
BY DEF Lives, SameLife

LEMMA AliveAtTheTick ==
    ASSUME Kin, Ticked, NEW l \in playersRooms
    PROVE  Lives(roomOf(chain, l), roomOf(chain', l)) /\ l \in playersRooms'
<1> DEFINE x == chain.lobbies[l]
           r == roomOf(chain, l)
           b == chain.block
           once == roomAt(x, chain.limits, b + 1)
           twice == roomAt(r, chain.limits, b + 1)
<1>1. l \in DOMAIN chain.lobbies /\ x.creator # Protocol
  BY DEF playersRooms, LobbyIds
<1>2. PICK s : /\ Books(s) /\ s.lobbies = chain.lobbies
               /\ s.limits = chain.limits /\ s.block = b + 1
               /\ Looks(s, chain')
  BY DEF Ticked
<1>3. /\ l \in DOMAIN chain'.lobbies /\ chain'.lobbies[l].creator # Protocol
      /\ roomOf(chain', l) = roomOf(s, l)
  BY <1>1, <1>2, LooksRoom
<1>4. roomOf(s, l) = once
  BY <1>2 DEF roomOf
<1>5. /\ x \in Lobby /\ x.status # "READY" /\ Sound(x)
      /\ r \in Lobby /\ Sound(r) /\ r.creator # Protocol /\ Still(r, b)
      /\ chain.limits \in ProtocolLimits /\ b \in Int /\ r = roomAt(x, chain.limits, b)
  BY <1>1, RoomFacts DEF Kin, roomOf
<1>6. Whole(r, chain.limits)
  <2>1. Whole(x, chain.limits)
    BY <1>1 DEF Kin, Wholes
  <2>2. QED
    BY <1>5, <2>1, SettledWhole
<1> HIDE DEF x, r, b
<1>7. Lives(r, twice)
  BY <1>5, <1>6, KinFacts, BlockLives
<1>8. seen(twice) = seen(once)
  <2>1. b + 1 \in Int /\ b <= b + 1
    BY <1>5
  <2>2. QED
    BY <1>5, <2>1, RoomTwice
<1>9. once \in Lobby /\ twice \in Lobby
  <2>1. once \in Lobby
    BY <1>1, <1>2, <1>4, RoomFacts DEF x
  <2> DEFINE t == settleLobby(chain, l)
             c == b + 1
             u == [t EXCEPT !.block = c]
  <2>2. /\ Books(t) /\ t.limits = chain.limits /\ l \in DOMAIN t.lobbies
        /\ t.lobbies[l] = r
    BY <1>1, SettlingKeeps, SettlingRoom DEF Kin, Onward, roomOf, Touches, Alike, r, x
  <2> HIDE DEF t
  <2>3. c \in Int /\ c = b + 1
    BY <1>5
  <2> HIDE DEF c
  <2>4. Books(u) /\ u.lobbies = t.lobbies /\ u.limits = chain.limits /\ u.block = c
    BY <2>2, <2>3, BlocksApart
  <2> HIDE DEF u
  <2>5. roomOf(u, l) \in Lobby
    BY <1>5, <2>2, <2>4, RoomFacts
  <2>6. roomOf(u, l) = twice
    BY <2>2, <2>3, <2>4 DEF roomOf
  <2>7. QED
    BY <2>1, <2>5, <2>6
<1> HIDE DEF once, twice
<1>10. /\ phaseOf(once) = phaseOf(twice) /\ seated(once) = seated(twice)
       /\ paidOf(once) = paidOf(twice)
  BY <1>8, <1>9, LifeOfSeen
<1>11. Lives(r, once)
  BY <1>7, <1>10 DEF Lives, SameLife, Starting, CallingOff, Finishing, Joining, Leaving, Paying
<1>12. QED
  BY <1>3, <1>4, <1>11 DEF r, playersRooms, LobbyIds

LEMMA AliveThroughTheRest ==
    ASSUME Kin, Books(chain'), Looked \/ Created \/ WentBack \/ \E k \in LobbyIds : Written(k),
           NEW l \in playersRooms
    PROVE  Lives(roomOf(chain, l), roomOf(chain', l)) /\ l \in playersRooms'
<1>1. l \in DOMAIN chain.lobbies /\ chain.lobbies[l].creator # Protocol
  BY DEF playersRooms, LobbyIds
<1>2. Books(chain) /\ Books(disk) /\ Looks(disk, chain) /\ chain.lobbies \in Seq(Lobby)
  BY StateFields DEF Kin, Books
<1> SUFFICES /\ l \in DOMAIN chain'.lobbies /\ chain'.lobbies[l].creator # Protocol
             /\ Lives(roomOf(chain, l), roomOf(chain', l))
  BY DEF playersRooms, LobbyIds
<1>3. CASE Looked
  BY <1>1, <1>2, <1>3, LooksRoom, SameLifeLives DEF Looked
<1>4. CASE Created
  <2>1. PICK y \in Lobby :
          /\ chain'.lobbies = Append(chain.lobbies, y)
          /\ chain'.limits = chain.limits /\ chain'.block = chain.block
    BY <1>4 DEF Created
  <2>2. l \in DOMAIN chain'.lobbies /\ chain'.lobbies[l] = chain.lobbies[l]
    BY <1>1, <1>2, <2>1
  <2>3. QED
    BY <1>1, <2>1, <2>2, SameLifeLives DEF roomOf
<1>5. CASE WentBack
  <2>1. l \in DOMAIN disk.lobbies /\ disk.lobbies[l].creator # Protocol
    BY <1>1, <1>2 DEF Looks
  <2>2. roomOf(disk, l) = roomOf(chain, l)
    BY <1>2, <2>1, LooksRoom
  <2>3. QED
    BY <1>5, <2>1, <2>2, SameLifeLives DEF WentBack
<1>6. ASSUME NEW k \in LobbyIds, Written(k)
      PROVE  /\ l \in DOMAIN chain'.lobbies /\ chain'.lobbies[l].creator # Protocol
             /\ Lives(roomOf(chain, l), roomOf(chain', l))
  <2>1. CASE k = l
    BY <1>1, <1>6, <2>1, WrittenRoom
  <2>2. CASE k # l
    <3>1. /\ DOMAIN chain'.lobbies = DOMAIN chain.lobbies /\ chain'.lobbies[l] = chain.lobbies[l]
          /\ chain'.limits = chain.limits /\ chain'.block = chain.block
      BY <1>1, <1>6, <2>2 DEF Written, Touches, Alike
    <3>2. QED
      BY <1>1, <3>1, SameLifeLives DEF roomOf
  <2>3. QED
    BY <2>1, <2>2
<1>7. QED
  BY <1>3, <1>4, <1>5, <1>6

(* An operation just opened is open, or called off if it is late already.  *)
LEMMA UnjoinedRoom ==
    ASSUME NEW y \in Lobby, Sound(y), NEW limits \in ProtocolLimits, limits.minPlayers >= Quorum,
           NEW b \in Int, Unjoined(y, limits, b), NEW z, z = roomAt(y, limits, b)
    PROVE  phaseOf(z) \in {"open", "refunding"} /\ seated(z) = {} /\ paidOf(z) = {}
<1> DEFINE c == closedAt(y, limits, b)
<1>1. y.status = "OPEN" /\ y.ending = "NONE" /\ y.participantCount = 0
  BY DEF Unjoined
<1>2. ~(y.participantCount >= y.config.minPlayers)
  <2>1. y.config.minPlayers >= limits.minPlayers
    BY DEF Unjoined
  <2>2. /\ y.config.minPlayers \in Int /\ limits.minPlayers \in Int
        /\ Quorum \in Nat \ {0} /\ limits.minPlayers >= Quorum
    BY LobbyFields, QuorumAssumption DEF Config, ProtocolLimits
  <2>3. QED
    BY <1>1, <2>1, <2>2
<1>3. /\ SameTeam(y, c)
      /\ c.status = "OPEN" => c = y
      /\ c.status = "ACTIVE" => y.participantCount >= y.config.minPlayers
      /\ c.status \notin {"OPEN", "ACTIVE"} =>
            /\ c.ending = "UNPLAYED"
            /\ \A w \in Players : /\ c.seats[w].payout # "PAID"
                                  /\ c.seats[w].refunded => w \in seated(y)
  BY <1>1, ClosedRoom, ClosedWhole
<1>4. z = IF c.status = "ACTIVE" THEN flown(c, b) ELSE c
  BY DEF roomAt
<1> HIDE DEF c
<1>5. seated(y) = {} /\ seated(z) = {} /\ z = c
  BY <1>2, <1>3, <1>4, TeamKept, UnjoinedWhole
<1>6. CASE c.status = "OPEN"
  <2>1. z = y
    BY <1>3, <1>5, <1>6
  <2>2. paidOf(z) = {}
    BY <1>1, <2>1, PlayedUnpaid, UnpayingPaid
  <2>3. phaseOf(z) = "open"
    BY <1>1, <2>1 DEF phaseOf
  <2>4. QED
    BY <1>5, <2>2, <2>3
<1>7. CASE c.status \notin {"OPEN", "ACTIVE"}
  <2>1. phaseOf(z) = "refunding"
    BY <1>3, <1>5, <1>7 DEF phaseOf
  <2>2. paidOf(z) = {}
    BY <1>3, <1>5, <1>7 DEF paidOf
  <2>3. QED
    BY <1>5, <2>1, <2>2
<1>8. QED
  BY <1>2, <1>3, <1>6, <1>7

LEMMA BornOfTheRest ==
    ASSUME Kin, Books(chain'), NEW l, l \notin playersRooms, l \in playersRooms',
           Looked \/ Ticked \/ Created \/ WentBack \/ \E k \in LobbyIds : Written(k)
    PROVE  /\ phaseOf(roomOf(chain', l)) \in {"open", "refunding"}
           /\ seated(roomOf(chain', l)) = {} /\ paidOf(roomOf(chain', l)) = {}
<1>1. /\ l \in DOMAIN chain'.lobbies /\ chain'.lobbies[l].creator # Protocol
      /\ ~(l \in DOMAIN chain.lobbies /\ chain.lobbies[l].creator # Protocol)
  BY DEF playersRooms, LobbyIds
<1>2. ~Looked
  BY <1>1 DEF Looked, Looks
<1>3. ~Ticked
  BY <1>1 DEF Ticked, Looks
<1>4. ~WentBack
  BY <1>1 DEF WentBack, Kin, Looks
<1>5. ASSUME NEW k \in LobbyIds, Written(k) PROVE FALSE
  BY <1>1, <1>5 DEF Written, Touches, LobbyIds
<1>6. CASE Created
  <2>1. PICK y \in Lobby :
          /\ Unjoined(y, chain.limits, chain.block)
          /\ chain'.lobbies = Append(chain.lobbies, y)
          /\ chain'.limits = chain.limits /\ chain'.block = chain.block
    BY <1>6 DEF Created
  <2>2. chain.lobbies \in Seq(Lobby)
    BY StateFields DEF Kin, Books
  <2>3. chain'.lobbies[l] = y
    BY <1>1, <2>1, <2>2
  <2>4. Sound(y)
    BY <1>1, <2>3 DEF Books
  <2>5. /\ chain.limits \in ProtocolLimits /\ chain.limits.minPlayers >= Quorum
        /\ chain.block \in Int
    BY KinFacts
  <2>6. roomOf(chain', l) = roomAt(y, chain.limits, chain.block)
    BY <2>1, <2>3 DEF roomOf
  <2>7. QED
    BY <2>1, <2>4, <2>5, <2>6, UnjoinedRoom
<1>7. QED
  BY <1>2, <1>3, <1>4, <1>5, <1>6

-----------------------------------------------------------------------------
(* The browser's chain implements OperationLife: settled to its block, an  *)
(* operation makes one of that life's moves at each step, or none.         *)

Life(l) ==
    INSTANCE OperationLife WITH Members <- Players,
        phase <- lifePhase(l), team <- lifeTeam(l), paid <- lifePaid(l)

LEMMA RoomsLife ==
    ASSUME NEW s, Books(s), NEW l \in DOMAIN s.lobbies, s.lobbies[l].creator # Protocol
    PROVE  /\ phaseOf(viewOf(s, l)) = phaseOf(roomOf(s, l))
           /\ seated(viewOf(s, l)) = seated(roomOf(s, l))
           /\ paidOf(viewOf(s, l)) = paidOf(roomOf(s, l))
<1>1. viewOf(s, l) = seen(roomOf(s, l)) /\ roomOf(s, l) \in Lobby
  BY RoomFacts
<1>2. QED
  BY <1>1, LifeOfSeen

LEMMA LifeRead ==
    ASSUME NEW l
    PROVE  /\ l \in playersRooms /\ Books(chain) =>
                /\ lifePhase(l) = phaseOf(roomOf(chain, l))
                /\ lifeTeam(l) = seated(roomOf(chain, l))
                /\ lifePaid(l) = paidOf(roomOf(chain, l))
           /\ l \notin playersRooms => lifePhase(l) = "none" /\ lifeTeam(l) = {} /\ lifePaid(l) = {}
<1>1. ASSUME l \in playersRooms, Books(chain)
      PROVE  /\ lifePhase(l) = phaseOf(roomOf(chain, l))
             /\ lifeTeam(l) = seated(roomOf(chain, l))
             /\ lifePaid(l) = paidOf(roomOf(chain, l))
  <2>1. l \in DOMAIN chain.lobbies /\ chain.lobbies[l].creator # Protocol
    BY <1>1 DEF playersRooms, LobbyIds
  <2>2. /\ lifePhase(l) = phaseOf(viewOf(chain, l)) /\ lifeTeam(l) = seated(viewOf(chain, l))
        /\ lifePaid(l) = paidOf(viewOf(chain, l))
    BY <1>1 DEF lifePhase, lifeTeam, lifePaid, phaseOf, paidOf
  <2>3. QED
    BY <1>1, <2>1, <2>2, RoomsLife
<1>2. QED
  BY <1>1 DEF lifePhase, lifeTeam, lifePaid

LEMMA LifeReadNext ==
    ASSUME NEW l
    PROVE  /\ l \in playersRooms' /\ Books(chain') =>
                /\ lifePhase(l)' = phaseOf(roomOf(chain', l))
                /\ lifeTeam(l)' = seated(roomOf(chain', l))
                /\ lifePaid(l)' = paidOf(roomOf(chain', l))
           /\ l \notin playersRooms' =>
                lifePhase(l)' = "none" /\ lifeTeam(l)' = {} /\ lifePaid(l)' = {}
<1>1. ASSUME l \in playersRooms', Books(chain')
      PROVE  /\ lifePhase(l)' = phaseOf(roomOf(chain', l))
             /\ lifeTeam(l)' = seated(roomOf(chain', l))
             /\ lifePaid(l)' = paidOf(roomOf(chain', l))
  <2>1. l \in DOMAIN chain'.lobbies /\ chain'.lobbies[l].creator # Protocol
    BY <1>1 DEF playersRooms, LobbyIds
  <2>2. /\ lifePhase(l)' = phaseOf(viewOf(chain', l)) /\ lifeTeam(l)' = seated(viewOf(chain', l))
        /\ lifePaid(l)' = paidOf(viewOf(chain', l))
    BY <1>1 DEF lifePhase, lifeTeam, lifePaid, phaseOf, paidOf
  <2>3. QED
    BY <1>1, <2>1, <2>2, RoomsLife
<1>2. QED
  BY <1>1 DEF lifePhase, lifeTeam, lifePaid

(* Each instance of OperationLife counts as this module does.              *)
LEMMA SameCardinality ==
    ASSUME NEW l, NEW S
    PROVE  /\ Life(l)!Cardinality(S) = Cardinality(S)
           /\ FirstLife!Cardinality(S) = Cardinality(S)
BY DEF Life!Cardinality, FirstLife!Cardinality, Cardinality

LEMMA LifeStarts == ASSUME NEW l, Init PROVE Life(l)!Init
BY StartedKin, LifeRead DEF Life!Init

LEMMA LifeGoesOn ==
    ASSUME NEW l, Kin, Kin', ~Rejoins, [Next]_emulatorVars
    PROVE  [Life(l)!Next]_(Life(l)!life)
<1> DEFINE x == roomOf(chain, l)
           y == roomOf(chain', l)
<1>1. Books(chain) /\ Books(chain')
  BY DEF Kin
<1>2. Looked \/ Ticked \/ Created \/ WentBack \/ \E k \in LobbyIds : Written(k)
  BY <1>1, EveryStepIsOneOf
<1>3. CASE l \in playersRooms
  <2>1. Lives(x, y) /\ l \in playersRooms'
    BY <1>1, <1>2, <1>3, AliveAtTheTick, AliveThroughTheRest
  <2>2. /\ lifePhase(l) = phaseOf(x) /\ lifeTeam(l) = seated(x) /\ lifePaid(l) = paidOf(x)
    BY <1>1, <1>3, LifeRead
  <2>3. /\ lifePhase(l)' = phaseOf(y) /\ lifeTeam(l)' = seated(y) /\ lifePaid(l)' = paidOf(y)
    BY <1>1, <2>1, LifeReadNext
  <2> HIDE DEF x, y
  <2>4. CASE SameLife(x, y)
    BY <2>2, <2>3, <2>4 DEF SameLife, Life!life
  <2>5. CASE Starting(x, y)
    <3>1. Life(l)!Start
      BY <2>2, <2>3, <2>5, SameCardinality DEF Starting, Life!Start
    <3>2. QED
      BY <3>1 DEF Life!Next
  <2>6. CASE CallingOff(x, y)
    BY <2>2, <2>3, <2>6 DEF CallingOff, Life!CallOff, Life!Next
  <2>7. CASE Finishing(x, y)
    BY <2>2, <2>3, <2>7 DEF Finishing, Life!Finish, Life!Next
  <2>8. ASSUME NEW w \in Players, Joining(x, y, w) \/ Leaving(x, y, w) \/ Paying(x, y, w)
        PROVE  Life(l)!Next
    <3>1. CASE Joining(x, y, w)
      BY <2>2, <2>3, <3>1 DEF Joining, Life!Join, Life!Next
    <3>2. CASE Leaving(x, y, w)
      BY <2>2, <2>3, <3>2 DEF Leaving, Life!Leave, Life!Next
    <3>3. CASE Paying(x, y, w)
      BY <2>2, <2>3, <3>3 DEF Paying, Life!Pay, Life!Next
    <3>4. QED
      BY <2>8, <3>1, <3>2, <3>3
  <2>9. QED
    BY <2>1, <2>4, <2>5, <2>6, <2>7, <2>8 DEF Lives
<1>4. CASE l \notin playersRooms /\ l \in playersRooms'
  <2>1. phaseOf(y) \in {"open", "refunding"} /\ seated(y) = {} /\ paidOf(y) = {}
    BY <1>1, <1>2, <1>4, BornOfTheRest
  <2>2. /\ lifePhase(l)' = phaseOf(y) /\ lifeTeam(l)' = seated(y) /\ lifePaid(l)' = paidOf(y)
    BY <1>1, <1>4, LifeReadNext
  <2>3. lifePhase(l) = "none" /\ lifeTeam(l) = {} /\ lifePaid(l) = {}
    BY <1>4, LifeRead
  <2> HIDE DEF y
  <2>4. QED
    BY <2>1, <2>2, <2>3 DEF Life!Open, Life!Next
<1>5. CASE l \notin playersRooms /\ l \notin playersRooms'
  BY <1>5, LifeRead, LifeReadNext DEF Life!life
<1>6. QED
  BY <1>3, <1>4, <1>5

(* Every operation of the browser's chain lives the life its members are   *)
(* promised, as the contract's do: whoever settles it and however late,    *)
(* through reloads, with a full team, one ending and one payment to each.  *)
THEOREM EveryBrowserOperationIsWhatWasPromised ==
    ASSUME ~Rejoins, NEW l
    PROVE  Spec => Life(l)!Spec
<1>1. Init => Life(l)!Init
  BY LifeStarts
<1>2. Kin /\ Kin' /\ [Next]_emulatorVars => [Life(l)!Next]_(Life(l)!life)
  BY LifeGoesOn
<1>3. QED
  BY <1>1, <1>2, TheTabAndItsCopyAreKin, PTL DEF Spec, Life!Spec

(* In particular the first one does, which is what the run checks.         *)
THEOREM TheFirstBrowserOperationIsWhatWasPromised ==
    ASSUME ~Rejoins
    PROVE  Spec => AnOperationIsWhatWasPromised
<1>1. Init => FirstLife!Init
  BY LifeStarts DEF Life!Init, FirstLife!Init
<1>2. Kin /\ Kin' /\ [Next]_emulatorVars => [FirstLife!Next]_(FirstLife!life)
  <2>1. SUFFICES ASSUME Kin, Kin', [Next]_emulatorVars
                 PROVE  FirstLife!Next \/ UNCHANGED FirstLife!life
    OBVIOUS
  <2>2. Life(1)!Next \/ UNCHANGED Life(1)!life
    BY <2>1, LifeGoesOn
  <2>3. QED
    BY <2>2, SameCardinality DEF Life!Next, Life!life, Life!Open, Life!Start, Life!CallOff,
       Life!Finish, Life!Join, Life!Leave, Life!Pay, FirstLife!Next, FirstLife!life,
       FirstLife!Open, FirstLife!Start, FirstLife!CallOff, FirstLife!Finish,
       FirstLife!Join, FirstLife!Leave, FirstLife!Pay
<1>3. QED
  BY <1>1, <1>2, TheTabAndItsCopyAreKin, PTL DEF Spec, AnOperationIsWhatWasPromised, FirstLife!Spec
=============================================================================
