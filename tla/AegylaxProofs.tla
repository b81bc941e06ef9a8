---------------------------- MODULE AegylaxProofs ---------------------------
(***************************************************************************)
(* Theorems about the game contract, for every set of players, every terms *)
(* and every bound.                                                        *)
(*                                                                         *)
(* The inductive invariant, Sound, is a property of the storage alone, so  *)
(* each library operator gets a lemma of its own: it takes sound storage   *)
(* to sound storage.  An action then follows from the operators it calls.  *)
(***************************************************************************)
EXTENDS AegylaxProps, SumProofs, SequenceTheorems

(* What the epoch arithmetic returns, for every grid and every width.      *)

LEMMA epochOfType ==
    ASSUME NEW b \in Nat, NEW epochBlocks \in Nat, NEW genesis \in Nat
    PROVE  epochOf(b, epochBlocks, genesis) \in EpochIds
BY DivFacts, U32Assumption DEF epochOf, EpochIds

LEMMA epochStartType ==
    ASSUME NEW e \in Nat, NEW epochBlocks \in Nat, NEW genesis \in Nat
    PROVE  epochStart(e, epochBlocks, genesis) \in Nat
BY ProductsOfNats DEF epochStart

(* A mint that fits gives its attack an epoch number of 32 bits.           *)
LEMMA launchEpochOfType ==
    ASSUME NEW b \in Nat, NEW epochBlocks \in Nat, NEW genesis \in Nat,
           launchEpochFits(b, epochBlocks, genesis)
    PROVE  launchEpochOf(b, epochBlocks, genesis) \in EpochIds
<1> DEFINE candidate == epochOf(b, epochBlocks, genesis) + 1
<1>1. candidate \in Nat /\ candidate < U32
  <2>1. epochOf(b, epochBlocks, genesis) \in EpochIds
    BY epochOfType
  <2>2. QED
    BY <2>1, U32Assumption DEF launchEpochFits, EpochIds
<1> HIDE DEF candidate
<1>2. candidate \in EpochIds /\ (candidate + 1) % U32 \in EpochIds
  BY <1>1, ModFacts, U32Assumption DEF EpochIds
<1>3. QED
  BY <1>2 DEF launchEpochOf, candidate

(* The draw epochs around a block.                                         *)
LEMMA DrawEpochTypes ==
    ASSUME NEW b \in Nat, NEW interval \in Nat \ {0},
           NEW epochBlocks \in Nat, NEW genesis \in Nat
    PROVE  /\ lastDrawEpoch(b, interval, epochBlocks, genesis) \in EpochIds
           /\ nextDrawEpoch(b, interval, epochBlocks, genesis) \in Nat \ {0}
           /\ nextDrawEpoch(b, interval, epochBlocks, genesis)
                 > epochOf(b, epochBlocks, genesis)
<1> DEFINE e == epochOf(b, epochBlocks, genesis)
<1>1. e \in EpochIds
  BY epochOfType
<1>2. e \in Nat /\ e < U32
  BY <1>1, U32Assumption DEF EpochIds
<1> HIDE DEF e
<1>3. /\ (e \div interval) * interval \in Nat
      /\ (e \div interval) * interval <= e
      /\ (e \div interval + 1) * interval = (e \div interval) * interval + interval
      /\ e < (e \div interval) * interval + interval
  BY <1>2, DivFacts, ProductsOfNats
<1>4. /\ (e \div interval) * interval \in EpochIds
      /\ (e \div interval + 1) * interval \in Nat \ {0}
      /\ (e \div interval + 1) * interval > e
  BY <1>2, <1>3, U32Assumption DEF EpochIds
<1>5. QED
  BY <1>4 DEF lastDrawEpoch, nextDrawEpoch, e

(* A seat whose defense waited for its last probe.                         *)
SoundSeat ==
    {x \in Seat : x.defendedAt # 0 /\ x.lastProbeBlock # 0 =>
                      x.defendedAt >= x.lastProbeBlock + DELAY_BLOCKS}

(* The status and the ending tell one story, and money has only moved in   *)
(* the direction the ending says.                                          *)
OneStory(x) ==
    /\ x.ending = "NONE" <=> x.status \in {"OPEN", "ACTIVE"}
    /\ x.ending = "COMPLETED" <=> x.status = "RESOLVED"
    /\ \A w \in Players : x.seats[w].claimed => x.ending = "COMPLETED"
    /\ \A w \in Players : x.seats[w].refunded => x.ending \in RefundEndings

SoundLobby == {x \in Lobby : x.seats \in [Players -> SoundSeat] /\ OneStory(x)}

(* Published or expired, an attack is over, and it is never both.          *)
SoundAttack ==
    {x \in Attack : /\ ~(x.revealed /\ x.expired)
                    /\ x.revealed \/ x.expired => x.status = "RESOLVED"}

SoundStorage(what) ==
    [ params : ParamSets, interval : Intervals, paused : BOOLEAN,
      protocolTreasury : Nat, globalDefensePool : Wei, balance : {what},
      activeLobbies : Nat, interceptedAttacks : Nat,
      lobbies : Seq(SoundLobby), attacks : [EpochIds -> SoundAttack],
      globalDefenseLobby : [EpochIds -> Nat] ]

Ids(s) == 1 .. Len(s.lobbies)

(* An operation was judged only on a published attack, and failed only on  *)
(* an expired one.                                                         *)
Linked(x, attack) ==
    /\ x.ending = "COMPLETED" => attack.revealed
    /\ x.ending = "CANCELLED" => attack.expired

Sound(s) ==
    /\ s \in SoundStorage(s.balance)
    /\ \A e \in EpochIds : s.globalDefenseLobby[e] \in {0} \cup Ids(s)
    /\ \A l \in Ids(s) : Linked(s.lobbies[l], s.attacks[s.lobbies[l].epochId])

IInv == block \in Nat /\ Sound(store)

-----------------------------------------------------------------------------
(* Reading sound storage.                                                  *)

LEMMA StorageFields ==
    ASSUME NEW s, Sound(s)
    PROVE  /\ s.params \in ParamSets /\ s.interval \in Intervals
           /\ s.paused \in BOOLEAN /\ s.protocolTreasury \in Nat
           /\ s.globalDefensePool \in Int /\ s.activeLobbies \in Nat
           /\ s.interceptedAttacks \in Nat /\ s.lobbies \in Seq(SoundLobby)
           /\ Len(s.lobbies) \in Nat
           /\ s.attacks \in [EpochIds -> SoundAttack]
           /\ s.globalDefenseLobby \in [EpochIds -> Nat]
BY DEF Sound, SoundStorage, Wei

LEMMA ParamFields ==
    ASSUME NEW p \in ParamSets
    PROVE  /\ p.epochBlocks \in Nat \ {0} /\ p.revealGraceBlocks \in Nat \ {0}
           /\ p.minPlayers \in Nat /\ p.maxPlayers \in Nat
           /\ p.maxProbesPerPlayer \in Nat /\ p.freeProbes \in Nat
           /\ p.probePrice \in Nat /\ p.protocolJoinFee \in Nat
BY ParamsAssumption DEF GameParams

LEMMA LobbyOf ==
    ASSUME NEW s, Sound(s), NEW l \in Ids(s)
    PROVE  /\ s.lobbies[l] \in SoundLobby
           /\ s.lobbies[l].epochId \in EpochIds
           /\ s.attacks[s.lobbies[l].epochId] \in SoundAttack
           /\ Linked(s.lobbies[l], s.attacks[s.lobbies[l].epochId])
<1>1. s.lobbies[l] \in SoundLobby
  BY StorageFields, ElementOfSeq DEF Ids
<1>2. s.lobbies[l].epochId \in EpochIds
  BY <1>1 DEF SoundLobby, Lobby
<1>3. QED
  BY <1>1, <1>2, StorageFields DEF Sound

LEMMA LobbyFields ==
    ASSUME NEW x \in SoundLobby
    PROVE  /\ x \in Lobby /\ OneStory(x)
           /\ x.creator \in Players \cup {Game} /\ x.status \in LobbyStatus
           /\ x.ending \in Endings /\ x.epochId \in EpochIds
           /\ x.deadlineBlock \in Nat /\ x.minPlayers \in Nat /\ x.maxPlayers \in Nat
           /\ x.entryPrice \in Nat /\ x.creatorFeeBps \in Nat
           /\ x.startPrizePool \in Int /\ x.graceBlocks \in Nat
           /\ x.entryFeesCollected \in Int /\ x.creatorFeeAccrued \in Int
           /\ x.rewardPool \in Int /\ x.rewardsClaimed \in Int
           /\ x.validActions \in Nat /\ x.rewardPerWinner \in Int
           /\ x.seats \in [Players -> SoundSeat]
           /\ x.seats \in [Players -> Seat]
<1>1. x \in Lobby /\ OneStory(x) /\ x.seats \in [Players -> SoundSeat]
  BY DEF SoundLobby
<1>2. /\ x.creator \in Players \cup {Game} /\ x.status \in LobbyStatus
      /\ x.ending \in Endings /\ x.epochId \in EpochIds
      /\ x.seats \in [Players -> Seat]
  BY <1>1 DEF Lobby
<1>3. /\ x.deadlineBlock \in Nat /\ x.minPlayers \in Nat /\ x.maxPlayers \in Nat
      /\ x.entryPrice \in Nat /\ x.graceBlocks \in Nat
      /\ x.validActions \in Nat
  BY <1>1 DEF Lobby
<1>4. x.creatorFeeBps \in Nat
  <2>1. x.creatorFeeBps \in 0 .. BPS
    BY <1>1 DEF Lobby
  <2>2. QED
    BY <2>1
<1>5. /\ x.startPrizePool \in Int /\ x.rewardPerWinner \in Int
      /\ x.entryFeesCollected \in Int /\ x.creatorFeeAccrued \in Int
      /\ x.rewardPool \in Int /\ x.rewardsClaimed \in Int
  BY <1>1 DEF Lobby, Wei
<1>6. QED
  BY <1>1, <1>2, <1>3, <1>4, <1>5

LEMMA SeatFields ==
    ASSUME NEW x \in SoundSeat
    PROVE  /\ x \in Seat
           /\ x.joined \in BOOLEAN /\ x.claimed \in BOOLEAN /\ x.refunded \in BOOLEAN
           /\ x.paidIn \in Nat /\ x.probesPaid \in Nat
           /\ x.probesPurchased \in Nat /\ x.probesUsed \in Nat
           /\ x.lastProbeBlock \in Nat /\ x.defendedAt \in Nat
BY DEF SoundSeat, Seat

-----------------------------------------------------------------------------
(* Writing it.                                                             *)

(* The shapes a write has.                                                 *)
withLobby(s, l, x, pool, balance, active) ==
    [s EXCEPT !.lobbies = [s.lobbies EXCEPT ![l] = x], !.globalDefensePool = pool,
              !.balance = balance, !.activeLobbies = active]

withNewLobby(s, x, active) ==
    [s EXCEPT !.lobbies = Append(s.lobbies, x), !.activeLobbies = active]

withAttack(s, e, a, tally) ==
    [s EXCEPT !.attacks = [s.attacks EXCEPT ![e] = a], !.interceptedAttacks = tally]

(* One operation replaced, and the sums beside it moved.                   *)
LEMMA LobbyReplaced ==
    ASSUME NEW s, Sound(s), NEW l \in Ids(s), NEW x \in SoundLobby,
           x.epochId = s.lobbies[l].epochId,
           Linked(x, s.attacks[x.epochId]),
           NEW pool \in Int, NEW balance, NEW active \in Nat
    PROVE  /\ Sound(withLobby(s, l, x, pool, balance, active))
           /\ Ids(withLobby(s, l, x, pool, balance, active)) = Ids(s)
<1> DEFINE rooms == [s.lobbies EXCEPT ![l] = x]
           t == [s EXCEPT !.lobbies = rooms, !.globalDefensePool = pool,
                          !.balance = balance, !.activeLobbies = active]
<1>1. /\ rooms \in Seq(SoundLobby)
      /\ Len(rooms) = Len(s.lobbies)
      /\ \A m \in Ids(s) : rooms[m] = IF m = l THEN x ELSE s.lobbies[m]
  BY StorageFields, ExceptSeq DEF Ids
<1> HIDE DEF rooms
<1>2. /\ t \in SoundStorage(t.balance)
      /\ t.lobbies = rooms /\ t.attacks = s.attacks
      /\ t.globalDefenseLobby = s.globalDefenseLobby
  BY <1>1 DEF Sound, SoundStorage, Wei
<1>3. Ids(t) = Ids(s)
  BY <1>1, <1>2 DEF Ids
<1> HIDE DEF t
<1>4. Sound(t)
  BY <1>1, <1>2, <1>3 DEF Sound
<1>5. QED
  BY <1>3, <1>4 DEF t, rooms, withLobby

(* One attack replaced, its fate only added to.                            *)
LEMMA AttackReplaced ==
    ASSUME NEW s, Sound(s), NEW e \in EpochIds, NEW a \in SoundAttack,
           s.attacks[e].revealed => a.revealed,
           s.attacks[e].expired => a.expired,
           NEW tally \in Nat
    PROVE  /\ Sound(withAttack(s, e, a, tally))
           /\ Ids(withAttack(s, e, a, tally)) = Ids(s)
<1> DEFINE attacks == [s.attacks EXCEPT ![e] = a]
           t == [s EXCEPT !.attacks = attacks, !.interceptedAttacks = tally]
<1>1. /\ attacks \in [EpochIds -> SoundAttack]
      /\ \A f \in EpochIds : attacks[f] = IF f = e THEN a ELSE s.attacks[f]
  BY StorageFields
<1> HIDE DEF attacks
<1>2. /\ t \in SoundStorage(t.balance)
      /\ t.lobbies = s.lobbies /\ t.attacks = attacks
      /\ t.globalDefenseLobby = s.globalDefenseLobby
  BY <1>1 DEF Sound, SoundStorage
<1>3. Ids(t) = Ids(s)
  BY <1>2 DEF Ids
<1> HIDE DEF t
<1>4. ASSUME NEW l \in Ids(s)
      PROVE  Linked(t.lobbies[l], t.attacks[t.lobbies[l].epochId])
  BY <1>1, <1>2, LobbyOf DEF Linked
<1>5. Sound(t)
  BY <1>2, <1>3, <1>4 DEF Sound
<1>6. QED
  BY <1>3, <1>5 DEF t, attacks, withAttack

(* A new operation at the end of the list.                                 *)
LEMMA LobbyAppended ==
    ASSUME NEW s, Sound(s), NEW x \in SoundLobby, x.ending = "NONE", NEW active \in Nat
    PROVE  /\ Sound(withNewLobby(s, x, active))
           /\ Len(withNewLobby(s, x, active).lobbies) = Len(s.lobbies) + 1
           /\ Ids(s) \subseteq Ids(withNewLobby(s, x, active))
<1> DEFINE rooms == Append(s.lobbies, x)
           t == [s EXCEPT !.lobbies = rooms, !.activeLobbies = active]
<1>1. /\ rooms \in Seq(SoundLobby)
      /\ Len(rooms) = Len(s.lobbies) + 1
      /\ \A m \in Ids(s) : rooms[m] = s.lobbies[m]
      /\ rooms[Len(s.lobbies) + 1] = x
  BY StorageFields, AppendProperties DEF Ids
<1> HIDE DEF rooms
<1>2. /\ t \in SoundStorage(t.balance)
      /\ t.lobbies = rooms /\ t.attacks = s.attacks
      /\ t.globalDefenseLobby = s.globalDefenseLobby
  BY <1>1 DEF Sound, SoundStorage
<1> HIDE DEF t
<1>3. /\ Len(t.lobbies) = Len(s.lobbies) + 1
      /\ Ids(t) = Ids(s) \cup {Len(s.lobbies) + 1}
  BY <1>1, <1>2, StorageFields DEF Ids
<1>4. ASSUME NEW l \in Ids(t)
      PROVE  Linked(t.lobbies[l], t.attacks[t.lobbies[l].epochId])
  <2>1. CASE l \in Ids(s)
    BY <1>1, <1>2, <2>1, LobbyOf
  <2>2. CASE l = Len(s.lobbies) + 1
    BY <1>1, <1>2, <2>2 DEF Linked
  <2>3. QED
    BY <1>3, <2>1, <2>2
<1>5. Sound(t)
  BY <1>2, <1>3, <1>4 DEF Sound
<1>6. QED
  BY <1>3, <1>5 DEF t, rooms, withNewLobby

-----------------------------------------------------------------------------
(* Settlement.                                                             *)

LEMMA SeatRefunded ==
    ASSUME NEW y \in SoundSeat
    PROVE  [y EXCEPT !.refunded = TRUE] \in SoundSeat
BY DEF SoundSeat, Seat

LEMMA payoutUnplayedSound ==
    ASSUME NEW s, Sound(s), NEW l \in Ids(s), s.lobbies[l].ending \in RefundEndings
    PROVE  Sound(payoutUnplayed(s, l)) /\ Ids(payoutUnplayed(s, l)) = Ids(s)
<1> DEFINE lobby == s.lobbies[l]
           seats == [w \in Players |->
                          IF w \in unpaid(lobby)
                          THEN [lobby.seats[w] EXCEPT !.refunded = TRUE]
                          ELSE lobby.seats[w]]
           x == [lobby EXCEPT !.creatorSettled = TRUE, !.seats = seats]
           bounty == IF lobby.creatorSettled THEN 0 ELSE lobby.startPrizePool
           home == lobby.creator = Game
           pool == IF home THEN s.globalDefensePool + bounty ELSE s.globalDefensePool
           left == s.balance - paidInBy(lobby, unpaid(lobby)) - IF home THEN 0 ELSE bounty
           t == [s EXCEPT !.lobbies = [s.lobbies EXCEPT ![l] = x],
                          !.globalDefensePool = pool, !.balance = left]
<1>1. /\ lobby \in SoundLobby /\ Linked(lobby, s.attacks[lobby.epochId])
      /\ lobby.ending \in RefundEndings
  BY LobbyOf
<1>2. payoutUnplayed(s, l) = t
  BY <1>1 DEF payoutUnplayed, Sound, SoundStorage
<1>3. bounty \in Int
  <2> HIDE DEF lobby
  <2> QED
    BY <1>1, LobbyFields
<1>4. pool \in Int
  <2> HIDE DEF bounty, home
  <2> QED
    BY <1>3, StorageFields
<1> HIDE DEF lobby
<1>5. /\ seats \in [Players -> SoundSeat]
      /\ \A w \in Players : seats[w].claimed = lobby.seats[w].claimed
  BY <1>1, LobbyFields, SeatRefunded, SeatFields DEF Seat
<1> HIDE DEF seats
<1>6. /\ x \in Lobby /\ x.seats = seats /\ x.epochId = lobby.epochId
      /\ x.status = lobby.status /\ x.ending = lobby.ending
  <2>1. seats \in [Players -> Seat]
    BY <1>5 DEF SoundSeat
  <2>2. QED
    BY <1>1, <2>1 DEF SoundLobby, Lobby
<1> HIDE DEF x
<1>7. OneStory(x)
  BY <1>1, <1>5, <1>6, LobbyFields DEF OneStory
<1>8. x \in SoundLobby /\ Linked(x, s.attacks[x.epochId])
  BY <1>1, <1>5, <1>6, <1>7 DEF SoundLobby, Linked
<1> HIDE DEF pool, left
<1> DEFINE u == withLobby(s, l, x, pool, left, s.activeLobbies)
<1>9. t = u
  BY DEF Sound, SoundStorage, withLobby
<1>10. Sound(u) /\ Ids(u) = Ids(s)
  <2>1. x.epochId = s.lobbies[l].epochId /\ s.activeLobbies \in Nat
    BY <1>6, StorageFields DEF lobby
  <2>2. QED
    BY <1>4, <1>8, <2>1, LobbyReplaced
<1>11. QED
  BY <1>2, <1>9, <1>10

-----------------------------------------------------------------------------
(* Closing a room that never filled, and the draw's upkeep.                *)

LEMMA oneFewerType ==
    ASSUME NEW n \in Nat
    PROVE  oneFewer(n) \in Nat
BY DEF oneFewer

(* Ending an operation that has not ended: nobody has been paid yet.       *)
LEMMA EndedStory ==
    ASSUME NEW x \in SoundLobby, x.ending = "NONE",
           NEW y \in Lobby, y.seats \in [Players -> SoundSeat],
           \A w \in Players : y.seats[w].claimed = x.seats[w].claimed,
           \A w \in Players : y.seats[w].refunded = x.seats[w].refunded,
           \/ y.ending = "COMPLETED" /\ y.status = "RESOLVED"
           \/ y.ending \in RefundEndings /\ y.status = "CANCELLED"
    PROVE  y \in SoundLobby
<1>1. \A w \in Players : ~y.seats[w].claimed /\ ~y.seats[w].refunded
  BY LobbyFields DEF OneStory, RefundEndings
<1>2. OneStory(y)
  BY <1>1 DEF OneStory, RefundEndings
<1>3. QED
  BY <1>2 DEF SoundLobby

LEMMA closeUnfilledSound ==
    ASSUME NEW s, Sound(s), NEW l \in Ids(s), s.lobbies[l].status = "OPEN"
    PROVE  Sound(closeUnfilled(s, l)) /\ Ids(closeUnfilled(s, l)) = Ids(s)
<1> DEFINE lobby == s.lobbies[l]
           x == [lobby EXCEPT !.status = "CANCELLED", !.ending = "UNPLAYED"]
           active == oneFewer(s.activeLobbies)
           ended == withLobby(s, l, x, s.globalDefensePool, s.balance, active)
<1>1. lobby \in SoundLobby /\ lobby.status = "OPEN"
  BY LobbyOf
<1>2. closeUnfilled(s, l) = payoutUnplayed(ended, l)
  <2>1. [s EXCEPT !.lobbies[l] = x,
                  !.activeLobbies = oneFewer(s.activeLobbies)] = ended
    BY StorageFields DEF withLobby, Ids, Sound, SoundStorage
  <2>2. QED
    BY <2>1 DEF closeUnfilled
<1> HIDE DEF lobby
<1>3. lobby.ending = "NONE"
  BY <1>1, LobbyFields DEF OneStory
<1>4. /\ x \in Lobby /\ x.seats = lobby.seats /\ x.epochId = lobby.epochId
      /\ x.status = "CANCELLED" /\ x.ending = "UNPLAYED"
  BY <1>1 DEF SoundLobby, Lobby, LobbyStatus, Endings
<1> HIDE DEF x
<1>5. x \in SoundLobby
  BY <1>1, <1>3, <1>4, LobbyFields, EndedStory DEF RefundEndings
<1>6. x.epochId = s.lobbies[l].epochId /\ Linked(x, s.attacks[x.epochId])
  BY <1>4 DEF lobby, Linked
<1>7. Sound(ended) /\ Ids(ended) = Ids(s)
  <2>1. s.globalDefensePool \in Int /\ active \in Nat
    BY StorageFields, oneFewerType
  <2> HIDE DEF active
  <2>2. QED
    BY <1>5, <1>6, <2>1, LobbyReplaced
<1>8. ended.lobbies[l] = x
  BY StorageFields DEF withLobby, Ids, Sound, SoundStorage
<1> HIDE DEF ended
<1>9. QED
  BY <1>2, <1>4, <1>7, <1>8, payoutUnplayedSound DEF RefundEndings

LEMMA epochNowFacts ==
    ASSUME NEW s, Sound(s), block \in Nat
    PROVE  /\ s.params.epochBlocks \in Nat \ {0} /\ Genesis \in Nat
           /\ s.interval \in Nat
           /\ s.interval # 0 =>
                 /\ lastDrawEpoch(block, s.interval, s.params.epochBlocks, Genesis) \in EpochIds
                 /\ drawEpoch(s) \in Nat
                 /\ drawDeadline(s) \in Nat
<1>1. /\ s.params.epochBlocks \in Nat \ {0} /\ Genesis \in Nat /\ s.interval \in Nat
  <2>1. s.params \in ParamSets /\ s.interval \in EpochIds
    BY StorageFields, ParamsAssumption
  <2>2. s.params.epochBlocks \in Nat \ {0}
    BY <2>1, ParamFields
  <2>3. QED
    BY <2>1, <2>2, NumbersAssumption, U32Assumption DEF EpochIds
<1>2. ASSUME s.interval # 0
      PROVE  /\ lastDrawEpoch(block, s.interval, s.params.epochBlocks, Genesis) \in EpochIds
             /\ drawEpoch(s) \in Nat \ {0}
  BY <1>1, <1>2, DrawEpochTypes DEF drawEpoch
<1>3. ASSUME NEW e \in Nat \ {0}, NEW n \in Nat \ {0}
      PROVE  epochStart(e, n, Genesis) - 1 \in Nat
  <2>1. e * n \in Nat /\ e * n > 0
    BY <1>3
  <2>2. QED
    BY <1>1, <2>1 DEF epochStart
<1>4. QED
  BY <1>1, <1>2, <1>3 DEF drawDeadline

LEMMA maybeCloseDrawSound ==
    ASSUME NEW s, Sound(s), block \in Nat
    PROVE  Sound(maybeCloseDraw(s)) /\ Ids(maybeCloseDraw(s)) = Ids(s)
<1>1. \/ unfilledPastDraw(s) = 0
      \/ /\ unfilledPastDraw(s) \in Ids(s)
         /\ s.lobbies[unfilledPastDraw(s)].status = "OPEN"
  BY epochNowFacts DEF unfilledPastDraw, Sound
<1>2. QED
  BY <1>1, closeUnfilledSound DEF maybeCloseDraw

(* A change to an operation's sums and nothing else.                       *)
LEMMA SameStory ==
    ASSUME NEW x \in SoundLobby, NEW y \in Lobby,
           y.seats = x.seats, y.status = x.status, y.ending = x.ending
    PROVE  y \in SoundLobby
BY LobbyFields DEF SoundLobby, OneStory

LEMMA topUpDrawSound ==
    ASSUME NEW s, Sound(s), block \in Nat,
           s.interval # 0 /\ s.globalDefensePool # 0 => drawEpoch(s) < U32
    PROVE  Sound(topUpDraw(s)) /\ Ids(topUpDraw(s)) = Ids(s)
<1> DEFINE l == unlaunchedDraw(s)
           extra == s.globalDefensePool
           lobby == s.lobbies[l]
           x == addToBounty(lobby, extra)
<1>1. CASE topUpDraw(s) = s
  BY <1>1
<1>2. CASE topUpDraw(s) # s
  <2>1. extra # 0 /\ l # 0
    BY <1>2 DEF topUpDraw
  <2>2. l \in Ids(s)
    <3>1. s.interval # 0
      BY <2>1 DEF unlaunchedDraw
    <3>2. drawEpoch(s) \in EpochIds
      BY <2>1, <3>1, epochNowFacts, U32Assumption DEF EpochIds
    <3>3. QED
      BY <2>1, <3>1, <3>2 DEF unlaunchedDraw, Sound
  <2>3. lobby \in SoundLobby /\ Linked(lobby, s.attacks[lobby.epochId]) /\ extra \in Int
    BY <2>2, LobbyOf, StorageFields
  <2>4. topUpDraw(s) = withLobby(s, l, x, 0, s.balance, s.activeLobbies)
    BY <1>2 DEF topUpDraw, withLobby, Sound, SoundStorage
  <2> HIDE DEF lobby, extra, l
  <2>5. lobby.rewardPool + extra \in Int /\ lobby.startPrizePool + extra \in Int
    BY <2>3, LobbyFields
  <2>6. /\ x \in Lobby /\ x.seats = lobby.seats /\ x.epochId = lobby.epochId
        /\ x.status = lobby.status /\ x.ending = lobby.ending
    BY <2>3, <2>5 DEF addToBounty, SoundLobby, Lobby, Wei
  <2> HIDE DEF x
  <2>7. /\ x \in SoundLobby /\ x.epochId = s.lobbies[l].epochId
        /\ Linked(x, s.attacks[x.epochId])
    BY <2>3, <2>6, SameStory DEF Linked, lobby
  <2>8. s.activeLobbies \in Nat /\ 0 \in Int
    BY StorageFields
  <2>9. QED
    BY <2>2, <2>4, <2>7, <2>8, LobbyReplaced
<1>3. QED
  BY <1>1, <1>2

LEMMA PendingAttack ==
    ASSUME NEW b \in Nat, NEW n \in Nat, NEW grace \in Nat
    PROVE  [NoAttack EXCEPT !.status = "PENDING", !.launchBlock = b,
                            !.impactBlock = b + n, !.graceBlocks = grace] \in SoundAttack
<1> DEFINE a == [NoAttack EXCEPT !.status = "PENDING", !.launchBlock = b,
                                 !.impactBlock = b + n, !.graceBlocks = grace]
<1>1. b + n \in Nat
  OBVIOUS
<1>2. a \in Attack /\ ~a.revealed /\ ~a.expired
  BY <1>1 DEF Attack, NoAttack, AttackStatus
<1>3. QED
  BY <1>2 DEF SoundAttack

LEMMA ensureEpochAttackSound ==
    ASSUME NEW s, Sound(s), NEW e \in EpochIds
    PROVE  /\ Sound(ensureEpochAttack(s, e))
           /\ ensureEpochAttack(s, e).lobbies = s.lobbies
           /\ ensureEpochAttack(s, e).activeLobbies = s.activeLobbies
           /\ ensureEpochAttack(s, e).params = s.params
<1> DEFINE start == epochStart(e, s.params.epochBlocks, Genesis)
           a == [NoAttack EXCEPT !.status = "PENDING",
                                 !.launchBlock = start,
                                 !.impactBlock = start + s.params.epochBlocks,
                                 !.graceBlocks = s.params.revealGraceBlocks]
<1>1. CASE s.attacks[e].status # "NONE"
  BY <1>1 DEF ensureEpochAttack
<1>2. CASE s.attacks[e].status = "NONE"
  <2>1. s.params.epochBlocks \in Nat /\ s.params.revealGraceBlocks \in Nat
    BY StorageFields, ParamFields
  <2>2. start \in Nat
    <3>1. e \in Nat /\ Genesis \in Nat
      BY NumbersAssumption, U32Assumption DEF EpochIds
    <3>2. QED
      BY <2>1, <3>1, epochStartType
  <2>3. ensureEpochAttack(s, e) = withAttack(s, e, a, s.interceptedAttacks)
    BY <1>2 DEF ensureEpochAttack, withAttack, Sound, SoundStorage
  <2> HIDE DEF start
  <2>4. a \in SoundAttack
    BY <2>1, <2>2, PendingAttack
  <2>5. ~s.attacks[e].revealed /\ ~s.attacks[e].expired
    BY <1>2, StorageFields DEF SoundAttack
  <2> HIDE DEF a
  <2>6. Sound(withAttack(s, e, a, s.interceptedAttacks))
    BY <2>4, <2>5, StorageFields, AttackReplaced
  <2>7. QED
    BY <2>3, <2>6 DEF withAttack, Sound, SoundStorage
<1>3. QED
  BY <1>1, <1>2

LEMMA EmptySeatSound == EmptySeat \in SoundSeat
BY DEF EmptySeat, SoundSeat, Seat

LEMMA newLobbySound ==
    ASSUME NEW s, Sound(s), NEW config \in LobbyConfig, NEW d \in Nat,
           NEW creator \in Players \cup {Game}, mintFits(s, d)
    PROVE  /\ newLobby(s, config, d, creator) \in SoundLobby
           /\ newLobby(s, config, d, creator).ending = "NONE"
           /\ launchEpoch(s, creator, d) \in EpochIds
<1> DEFINE x == newLobby(s, config, d, creator)
           e == launchEpoch(s, creator, d)
<1>1. s.params.epochBlocks \in Nat /\ s.params.revealGraceBlocks \in Nat \ {0}
  BY StorageFields, ParamFields
<1>2. e \in EpochIds
  <2>1. CASE creator # Game
    BY <1>1, <2>1, launchEpochOfType, NumbersAssumption DEF launchEpoch, mintFits
  <2>2. CASE creator = Game
    <3> DEFINE now == epochOf(d, s.params.epochBlocks, Genesis)
    <3>1. now \in EpochIds
      BY <1>1, epochOfType, NumbersAssumption
    <3>2. now + 1 < U32 /\ e = now + 1
      BY <2>2 DEF launchEpoch, mintFits, launchEpochFits
    <3> HIDE DEF now, e
    <3>3. QED
      BY <3>1, <3>2, U32Assumption DEF EpochIds
  <2>3. QED
    BY <2>1, <2>2
<1> DEFINE seats == [w \in Players |-> EmptySeat]
<1>3. /\ seats \in [Players -> SoundSeat] /\ seats \in [Players -> Seat]
      /\ \A w \in Players : ~seats[w].claimed /\ ~seats[w].refunded
  BY EmptySeatSound DEF EmptySeat, SoundSeat
<1>4. /\ x.seats = seats /\ x.status = "OPEN" /\ x.ending = "NONE"
  BY DEF newLobby
<1>5. x \in Lobby
  <2>1. /\ config.minPlayers \in Nat /\ config.maxPlayers \in Nat
        /\ config.entryPrice \in Nat /\ config.startPrizePool \in Int
        /\ config.creatorFeeBps \in 0 .. BPS
    BY DEF LobbyConfig
  <2>2. "OPEN" \in LobbyStatus /\ "NONE" \in Endings
    BY DEF LobbyStatus, Endings
  <2> HIDE DEF seats, e
  <2>3. x = [ creator |-> creator, status |-> "OPEN", ending |-> "NONE",
              epochId |-> e, deadlineBlock |-> d,
              minPlayers |-> config.minPlayers, maxPlayers |-> config.maxPlayers,
              entryPrice |-> config.entryPrice, creatorFeeBps |-> config.creatorFeeBps,
              startPrizePool |-> config.startPrizePool,
              graceBlocks |-> s.params.revealGraceBlocks,
              entryFeesCollected |-> 0, creatorFeeAccrued |-> 0,
              rewardPool |-> config.startPrizePool, rewardsClaimed |-> 0,
              creatorSettled |-> FALSE, validActions |-> 0, seats |-> seats,
              intercepted |-> FALSE, rewardPerWinner |-> 0, resolvedAtBlock |-> 0 ]
    BY DEF newLobby, seats, e
  <2> HIDE DEF x
  <2>4. QED
    BY <1>1, <1>2, <1>3, <2>1, <2>2, <2>3 DEF Lobby, Wei
<1> HIDE DEF x, seats
<1>6. OneStory(x)
  BY <1>3, <1>4 DEF OneStory
<1>7. QED
  BY <1>2, <1>3, <1>4, <1>5, <1>6 DEF SoundLobby, x, e

LEMMA mintLobbySound ==
    ASSUME NEW s, Sound(s), NEW config \in LobbyConfig, NEW d \in Nat,
           NEW creator \in Players \cup {Game}, mintFits(s, d)
    PROVE  /\ Sound(mintLobby(s, config, d, creator))
           /\ Len(s.lobbies) + 1 \in Ids(mintLobby(s, config, d, creator))
           /\ Ids(s) \subseteq Ids(mintLobby(s, config, d, creator))
<1> DEFINE x == newLobby(s, config, d, creator)
           drawn == ensureEpochAttack(s, launchEpoch(s, creator, d))
           t == withNewLobby(drawn, x, s.activeLobbies + 1)
<1>1. /\ Sound(drawn) /\ drawn.lobbies = s.lobbies
      /\ drawn.activeLobbies = s.activeLobbies
  BY newLobbySound, ensureEpochAttackSound
<1>2. mintLobby(s, config, d, creator) = t
  BY <1>1 DEF mintLobby, withNewLobby
<1>3. x \in SoundLobby /\ x.ending = "NONE" /\ s.activeLobbies + 1 \in Nat
  BY newLobbySound, StorageFields
<1> HIDE DEF x, drawn
<1>4. Sound(t) /\ Len(t.lobbies) = Len(drawn.lobbies) + 1 /\ Ids(drawn) \subseteq Ids(t)
  BY <1>1, <1>3, LobbyAppended
<1> HIDE DEF t
<1>5. Len(s.lobbies) + 1 \in Ids(t) /\ Ids(s) \subseteq Ids(t)
  BY <1>1, <1>4, StorageFields DEF Ids
<1>6. QED
  BY <1>2, <1>4, <1>5

LEMMA openDrawSound ==
    ASSUME NEW s, Sound(s), block \in Nat, openDrawOK(s)
    PROVE  Sound(openDraw(s)) /\ Ids(s) \subseteq Ids(openDraw(s))
<1> DEFINE config == [ minPlayers |-> s.params.minPlayers,
                       maxPlayers |-> s.params.maxPlayers, entryPrice |-> 0,
                       startPrizePool |-> 0, creatorFeeBps |-> 0 ]
           e == drawEpoch(s)
           t == mintLobby(s, config, drawDeadline(s), Game)
           u == [t EXCEPT !.globalDefenseLobby =
                    [t.globalDefenseLobby EXCEPT ![e] = Len(s.lobbies) + 1]]
<1>1. config \in LobbyConfig
  <2>1. s.params.minPlayers \in Nat /\ s.params.maxPlayers \in Nat
    BY StorageFields, ParamFields
  <2>2. 0 \in 0 .. BPS
    BY DEF BPS
  <2>3. QED
    BY <2>1, <2>2 DEF LobbyConfig
<1>2. e \in EpochIds /\ drawDeadline(s) \in Nat /\ mintFits(s, drawDeadline(s))
  BY epochNowFacts, U32Assumption DEF openDrawOK, EpochIds
<1>3. openDraw(s) = u
  BY DEF openDraw
<1> HIDE DEF config, e
<1>4. /\ Sound(t) /\ Len(s.lobbies) + 1 \in Ids(t) /\ Ids(s) \subseteq Ids(t)
  BY <1>1, <1>2, mintLobbySound
<1> HIDE DEF t
<1>5. /\ u \in SoundStorage(u.balance) /\ u.lobbies = t.lobbies /\ u.attacks = t.attacks
      /\ \A f \in EpochIds : u.globalDefenseLobby[f] =
             IF f = e THEN Len(s.lobbies) + 1 ELSE t.globalDefenseLobby[f]
  <2>1. Len(s.lobbies) + 1 \in Nat
    BY StorageFields
  <2> DEFINE booked == [t.globalDefenseLobby EXCEPT ![e] = Len(s.lobbies) + 1]
  <2>2. /\ booked \in [EpochIds -> Nat]
        /\ \A f \in EpochIds : booked[f] =
               IF f = e THEN Len(s.lobbies) + 1 ELSE t.globalDefenseLobby[f]
    BY <1>2, <1>4, <2>1, StorageFields
  <2>3. u = [t EXCEPT !.globalDefenseLobby = booked]
    OBVIOUS
  <2> HIDE DEF booked, u
  <2>4. QED
    BY <1>4, <2>2, <2>3 DEF Sound, SoundStorage
<1> HIDE DEF u
<1>6. Sound(u) /\ Ids(u) = Ids(t)
  BY <1>2, <1>4, <1>5 DEF Sound, Ids
<1>7. QED
  BY <1>3, <1>4, <1>6

LEMMA maybeOpenDrawSound ==
    ASSUME NEW s, Sound(s), block \in Nat, maybeOpenDrawOK(s)
    PROVE  Sound(maybeOpenDraw(s)) /\ Ids(s) \subseteq Ids(maybeOpenDraw(s))
<1> DEFINE closed == maybeCloseDraw(s)
           ready == topUpDraw(closed)
<1>1. Sound(closed) /\ Ids(closed) = Ids(s)
  BY maybeCloseDrawSound
<1>2. /\ closed.interval # 0 /\ closed.globalDefensePool # 0 => drawEpoch(closed) < U32
      /\ drawDue(ready) => openDrawOK(ready)
  BY DEF maybeOpenDrawOK
<1> HIDE DEF closed
<1>3. Sound(ready) /\ Ids(ready) = Ids(closed)
  BY <1>1, <1>2, topUpDrawSound
<1> HIDE DEF ready
<1>4. maybeOpenDraw(s) = IF drawDue(ready) THEN openDraw(ready) ELSE ready
  BY DEF maybeOpenDraw, ready, closed
<1>5. QED
  BY <1>1, <1>2, <1>3, <1>4, openDrawSound

-----------------------------------------------------------------------------
(* Starting an operation, and leaving one.                                 *)

LEMMA WithLobbyAt ==
    ASSUME NEW s, Sound(s), NEW l \in Ids(s), NEW x, NEW pool, NEW balance, NEW active
    PROVE  /\ withLobby(s, l, x, pool, balance, active).lobbies[l] = x
           /\ withLobby(s, l, x, pool, balance, active).attacks = s.attacks
           /\ withLobby(s, l, x, pool, balance, active).params = s.params
           /\ withLobby(s, l, x, pool, balance, active).activeLobbies = active
           /\ withLobby(s, l, x, pool, balance, active).globalDefensePool = pool
BY StorageFields DEF withLobby, Ids, Sound, SoundStorage

(* One seat changed, and the sums beside it.                               *)
LEMMA SeatReplaced ==
    ASSUME NEW x \in SoundLobby, NEW w \in Players, NEW y \in SoundSeat,
           y.claimed => x.ending = "COMPLETED",
           y.refunded => x.ending \in RefundEndings,
           NEW z \in Lobby,
           z.seats = [x.seats EXCEPT ![w] = y], z.status = x.status, z.ending = x.ending
    PROVE  z \in SoundLobby
<1>1. /\ x.seats \in [Players -> SoundSeat] /\ OneStory(x)
  BY LobbyFields
<1>2. /\ z.seats \in [Players -> SoundSeat]
      /\ \A v \in Players : z.seats[v] = IF v = w THEN y ELSE x.seats[v]
  BY <1>1
<1>3. OneStory(z)
  BY <1>1, <1>2 DEF OneStory
<1>4. QED
  BY <1>2, <1>3 DEF SoundLobby

LEMMA commitDrawBountySound ==
    ASSUME NEW s, Sound(s), NEW l \in Ids(s)
    PROVE  /\ Sound(commitDrawBounty(s, l)) /\ Ids(commitDrawBounty(s, l)) = Ids(s)
           /\ commitDrawBounty(s, l).attacks = s.attacks
           /\ commitDrawBounty(s, l).params = s.params
           /\ commitDrawBounty(s, l).lobbies[l].epochId = s.lobbies[l].epochId
           /\ commitDrawBounty(s, l).lobbies[l].seats = s.lobbies[l].seats
           /\ commitDrawBounty(s, l).lobbies[l].status = s.lobbies[l].status
           /\ commitDrawBounty(s, l).lobbies[l].ending = s.lobbies[l].ending
<1> DEFINE extra == s.globalDefensePool
           lobby == s.lobbies[l]
           x == addToBounty(lobby, extra)
<1>1. CASE s.lobbies[l].creator # Game
  BY <1>1 DEF commitDrawBounty
<1>2. CASE s.lobbies[l].creator = Game
  <2>1. lobby \in SoundLobby /\ Linked(lobby, s.attacks[lobby.epochId]) /\ extra \in Int
    BY LobbyOf, StorageFields
  <2>2. commitDrawBounty(s, l) = withLobby(s, l, x, 0, s.balance, s.activeLobbies)
    BY <1>2 DEF commitDrawBounty, withLobby, Sound, SoundStorage
  <2> HIDE DEF lobby, extra
  <2>3. lobby.rewardPool + extra \in Int /\ lobby.startPrizePool + extra \in Int
    BY <2>1, LobbyFields
  <2>4. /\ x \in Lobby /\ x.seats = lobby.seats /\ x.epochId = lobby.epochId
        /\ x.status = lobby.status /\ x.ending = lobby.ending
    BY <2>1, <2>3 DEF addToBounty, SoundLobby, Lobby, Wei
  <2> HIDE DEF x
  <2>5. /\ x \in SoundLobby /\ x.epochId = s.lobbies[l].epochId
        /\ Linked(x, s.attacks[x.epochId])
    BY <2>1, <2>4, SameStory DEF Linked, lobby
  <2>6. s.activeLobbies \in Nat /\ 0 \in Int
    BY StorageFields
  <2>7. QED
    BY <2>2, <2>4, <2>5, <2>6, LobbyReplaced, WithLobbyAt DEF lobby
<1>3. QED
  BY <1>1, <1>2

LEMMA activateSound ==
    ASSUME NEW s, Sound(s), NEW l \in Ids(s)
    PROVE  /\ Sound(activate(s, l)) /\ Ids(activate(s, l)) = Ids(s)
           /\ activate(s, l).attacks = s.attacks
           /\ activate(s, l).params = s.params
           /\ activate(s, l).lobbies[l].epochId = s.lobbies[l].epochId
           /\ activate(s, l).lobbies[l].seats = s.lobbies[l].seats
<1> DEFINE ready == commitDrawBounty(s, l)
           lobby == ready.lobbies[l]
           fees == s.lobbies[l].entryFeesCollected
           x == [lobby EXCEPT !.rewardPool = @ + fees, !.status = "ACTIVE"]
<1>1. CASE s.lobbies[l].status # "OPEN"
  BY <1>1 DEF activate
<1>2. CASE s.lobbies[l].status = "OPEN"
  <2>1. /\ Sound(ready) /\ Ids(ready) = Ids(s) /\ ready.attacks = s.attacks
        /\ ready.params = s.params
        /\ lobby.epochId = s.lobbies[l].epochId /\ lobby.seats = s.lobbies[l].seats
        /\ lobby.status = "OPEN"
    BY <1>2, commitDrawBountySound
  <2>2. fees \in Int
    BY LobbyOf, LobbyFields
  <2>3. activate(s, l) = [ready EXCEPT !.lobbies[l] = x]
    BY <1>2 DEF activate
  <2> HIDE DEF ready, fees
  <2>4. lobby \in SoundLobby
    BY <2>1, LobbyOf
  <2>5. activate(s, l)
          = withLobby(ready, l, x, ready.globalDefensePool, ready.balance, ready.activeLobbies)
    BY <2>1, <2>3 DEF withLobby, Sound, SoundStorage
  <2> HIDE DEF lobby
  <2>6. lobby.rewardPool + fees \in Int /\ "ACTIVE" \in LobbyStatus
    BY <2>2, <2>4, LobbyFields DEF LobbyStatus
  <2>7. /\ x \in Lobby /\ x.seats = lobby.seats /\ x.epochId = lobby.epochId
        /\ x.status = "ACTIVE" /\ x.ending = lobby.ending
    BY <2>4, <2>6 DEF SoundLobby, Lobby, Wei
  <2> HIDE DEF x
  <2>8. lobby.ending = "NONE" /\ OneStory(x)
    BY <2>1, <2>4, <2>7, LobbyFields DEF OneStory
  <2>9. /\ x \in SoundLobby /\ x.epochId = ready.lobbies[l].epochId
        /\ Linked(x, ready.attacks[x.epochId])
    BY <2>4, <2>7, <2>8, LobbyFields DEF SoundLobby, Linked, lobby
  <2>10. ready.globalDefensePool \in Int /\ ready.activeLobbies \in Nat
    BY <2>1, StorageFields
  <2>11. QED
    BY <2>1, <2>5, <2>7, <2>9, <2>10, LobbyReplaced, WithLobbyAt
<1>3. QED
  BY <1>1, <1>2

LEMMA leaveSound ==
    ASSUME NEW s, Sound(s), NEW l \in Ids(s), NEW w \in Players
    PROVE  Sound(leave(s, l, w))
<1> DEFINE lobby == s.lobbies[l]
           seat  == lobby.seats[w]
           empty == [seat EXCEPT !.joined = FALSE, !.paidIn = 0,
                                 !.probesPurchased = 0, !.probesPaid = 0]
           fees  == lobby.entryFeesCollected - lobby.entryPrice
           own   == lobby.creatorFeeAccrued - commissionPaid(seat, lobby.entryPrice)
           pool  == lobby.rewardPool - seat.probesPaid
           x == [lobby EXCEPT !.seats = [lobby.seats EXCEPT ![w] = empty],
                              !.entryFeesCollected = fees,
                              !.creatorFeeAccrued = own, !.rewardPool = pool]
           left == s.balance - seat.paidIn
<1>1. lobby \in SoundLobby /\ Linked(lobby, s.attacks[lobby.epochId])
  BY LobbyOf
<1>2. leave(s, l, w)
        = withLobby(s, l, x, s.globalDefensePool, left, s.activeLobbies)
  BY DEF leave, withLobby, Sound, SoundStorage
<1> HIDE DEF lobby
<1>3. seat \in SoundSeat
  BY <1>1, LobbyFields
<1> HIDE DEF seat
<1>4. fees \in Int /\ own \in Int /\ pool \in Int
  BY <1>1, <1>3, LobbyFields, SeatFields DEF commissionPaid
<1>5. empty \in SoundSeat /\ empty.claimed = seat.claimed /\ empty.refunded = seat.refunded
  BY <1>3 DEF SoundSeat, Seat
<1> HIDE DEF fees, own, pool, empty
<1>6. [lobby.seats EXCEPT ![w] = empty] \in [Players -> Seat]
  BY <1>1, <1>5, LobbyFields DEF SoundSeat
<1>7. /\ x \in Lobby /\ x.seats = [lobby.seats EXCEPT ![w] = empty]
      /\ x.epochId = lobby.epochId
      /\ x.status = lobby.status /\ x.ending = lobby.ending
  BY <1>1, <1>4, <1>6 DEF SoundLobby, Lobby, Wei
<1> HIDE DEF x
<1>8. /\ seat.claimed => lobby.ending = "COMPLETED"
      /\ seat.refunded => lobby.ending \in RefundEndings
  BY <1>1, LobbyFields DEF OneStory, seat
<1>9. x \in SoundLobby
  BY <1>1, <1>5, <1>7, <1>8, SeatReplaced
<1>10. x.epochId = s.lobbies[l].epochId /\ Linked(x, s.attacks[x.epochId])
  BY <1>1, <1>7 DEF Linked, lobby
<1>11. s.globalDefensePool \in Int /\ s.activeLobbies \in Nat
  BY StorageFields
<1> HIDE DEF left
<1>12. QED
  BY <1>2, <1>9, <1>10, <1>11, LobbyReplaced

-----------------------------------------------------------------------------
(* Scoring and the verdict.                                                *)

LEMMA SeatsReplaced ==
    ASSUME NEW x \in SoundLobby, NEW seats \in [Players -> SoundSeat],
           \A w \in Players : /\ seats[w].claimed = x.seats[w].claimed
                              /\ seats[w].refunded = x.seats[w].refunded,
           NEW z \in Lobby, z.seats = seats, z.status = x.status, z.ending = x.ending
    PROVE  z \in SoundLobby
<1>1. OneStory(x)
  BY LobbyFields
<1>2. OneStory(z)
  BY <1>1 DEF OneStory
<1>3. QED
  BY <1>2 DEF SoundLobby

LEMMA recrownSound ==
    ASSUME NEW x \in SoundLobby
    PROVE  /\ recrown(x) \in SoundLobby /\ recrown(x).epochId = x.epochId
           /\ recrown(x).status = x.status /\ recrown(x).ending = x.ending
<1> DEFINE crown == earliestHits(x)
           seats == [w \in Players |-> [x.seats[w] EXCEPT !.isWinner = w \in crown]]
           won == crown # {}
           z == [x EXCEPT !.seats = seats, !.intercepted = won]
<1>1. recrown(x) = z
  BY DEF recrown
<1> HIDE DEF crown
<1>2. /\ seats \in [Players -> SoundSeat] /\ seats \in [Players -> Seat]
      /\ \A w \in Players : /\ seats[w].claimed = x.seats[w].claimed
                            /\ seats[w].refunded = x.seats[w].refunded
  <2>1. ASSUME NEW y \in SoundSeat, NEW b \in BOOLEAN
        PROVE  /\ [y EXCEPT !.isWinner = b] \in SoundSeat
               /\ [y EXCEPT !.isWinner = b] \in Seat
               /\ [y EXCEPT !.isWinner = b].claimed = y.claimed
               /\ [y EXCEPT !.isWinner = b].refunded = y.refunded
    BY DEF SoundSeat, Seat
  <2>2. \A w \in Players : x.seats[w] \in SoundSeat /\ (w \in crown) \in BOOLEAN
    BY LobbyFields
  <2>3. QED
    BY <2>1, <2>2
<1>3. won \in BOOLEAN
  OBVIOUS
<1> HIDE DEF seats, won
<1>4. /\ z \in Lobby /\ z.seats = seats /\ z.epochId = x.epochId
      /\ z.status = x.status /\ z.ending = x.ending
  BY <1>2, <1>3 DEF SoundLobby, Lobby
<1> HIDE DEF z
<1>5. z \in SoundLobby
  BY <1>2, <1>4, SeatsReplaced
<1>6. QED
  BY <1>1, <1>4, <1>5

LEMMA scoreSubsetSound ==
    ASSUME NEW x \in SoundLobby, NEW subset, NEW hits
    PROVE  /\ scoreSubset(x, subset, hits) \in SoundLobby
           /\ scoreSubset(x, subset, hits).epochId = x.epochId
           /\ scoreSubset(x, subset, hits).status = x.status
           /\ scoreSubset(x, subset, hits).ending = x.ending
<1> DEFINE scored(w) == [x.seats[w] EXCEPT !.revealed = TRUE, !.intercepted = w \in hits]
           seats == [w \in Players |->
                        IF w \in subset /\ ~x.seats[w].revealed
                        THEN scored(w) ELSE x.seats[w]]
           z == [x EXCEPT !.seats = seats]
<1>1. scoreSubset(x, subset, hits) = recrown(z)
  BY DEF scoreSubset
<1>2. ASSUME NEW w \in Players
      PROVE  /\ scored(w) \in SoundSeat /\ x.seats[w] \in SoundSeat
             /\ scored(w).claimed = x.seats[w].claimed
             /\ scored(w).refunded = x.seats[w].refunded
  <2>1. ASSUME NEW y \in SoundSeat, NEW b \in BOOLEAN
        PROVE  /\ [y EXCEPT !.revealed = TRUE, !.intercepted = b] \in SoundSeat
               /\ [y EXCEPT !.revealed = TRUE, !.intercepted = b].claimed = y.claimed
               /\ [y EXCEPT !.revealed = TRUE, !.intercepted = b].refunded = y.refunded
    BY DEF SoundSeat, Seat
  <2>2. x.seats[w] \in SoundSeat /\ (w \in hits) \in BOOLEAN
    BY LobbyFields
  <2>3. QED
    BY <2>1, <2>2
<1> HIDE DEF scored
<1>3. /\ seats \in [Players -> SoundSeat]
      /\ \A w \in Players : /\ seats[w].claimed = x.seats[w].claimed
                            /\ seats[w].refunded = x.seats[w].refunded
  BY <1>2
<1>4. seats \in [Players -> Seat]
  BY <1>3 DEF SoundSeat
<1> HIDE DEF seats
<1>5. /\ z \in Lobby /\ z.seats = seats /\ z.epochId = x.epochId
      /\ z.status = x.status /\ z.ending = x.ending
  BY <1>4 DEF SoundLobby, Lobby
<1> HIDE DEF z
<1>6. z \in SoundLobby
  BY <1>3, <1>5, SeatsReplaced
<1>7. QED
  BY <1>1, <1>5, <1>6, recrownSound

LEMMA WinnersFacts ==
    ASSUME NEW x
    PROVE  /\ IsFiniteSet(Winners(x)) /\ Cardinality(Winners(x)) \in Nat
           /\ Winners(x) # {} => Cardinality(Winners(x)) > 0
<1>1. Winners(x) \subseteq Players /\ IsFiniteSet(Players)
  BY PlayersAssumption DEF Winners
<1>2. IsFiniteSet(Winners(x))
  BY <1>1, FS_Subset
<1>3. Cardinality(Winners(x)) \in Nat /\ (Cardinality(Winners(x)) = 0 <=> Winners(x) = {})
  BY <1>2, FS_CardinalityType, FS_EmptySet
<1>4. QED
  BY <1>2, <1>3

LEMMA judgedSound ==
    ASSUME NEW x \in SoundLobby, x.status = "ACTIVE", block \in Nat
    PROVE  /\ judged(x) \in SoundLobby /\ judged(x).epochId = x.epochId
           /\ judged(x).ending # "CANCELLED"
           /\ forfeited(x) \in Int
<1> DEFINE winners == Winners(x)
           n == Cardinality(winners)
           played == x.validActions > 0
           share == IF winners # {} THEN x.rewardPool \div n ELSE x.rewardPerWinner
           ending == IF played THEN "COMPLETED" ELSE "UNPLAYED"
           status == IF played THEN "RESOLVED" ELSE "CANCELLED"
           pool == x.rewardPool - forfeited(x)
           z == [x EXCEPT !.resolvedAtBlock = block, !.rewardPerWinner = share,
                          !.ending = ending, !.status = status, !.rewardPool = pool]
<1>1. judged(x) = z
  BY DEF judged
<1>2. forfeited(x) \in Int /\ pool \in Int
  BY LobbyFields DEF forfeited
<1>3. share \in Int
  <2>1. winners # {} => n \in Nat /\ n > 0
    BY WinnersFacts
  <2>2. x.rewardPool \in Int /\ x.rewardPerWinner \in Int
    BY LobbyFields
  <2> HIDE DEF winners, n
  <2>3. QED
    BY <2>1, <2>2
<1>4. \/ ending = "COMPLETED" /\ status = "RESOLVED"
      \/ ending = "UNPLAYED" /\ status = "CANCELLED"
  OBVIOUS
<1>5. ending \in Endings /\ status \in LobbyStatus
  BY <1>4 DEF Endings, LobbyStatus
<1> HIDE DEF share, ending, status, pool
<1>6. /\ z \in Lobby /\ z.seats = x.seats /\ z.epochId = x.epochId
      /\ z.status = status /\ z.ending = ending
  BY <1>2, <1>3, <1>5 DEF SoundLobby, Lobby, Wei
<1> HIDE DEF z
<1>7. x.ending = "NONE" /\ x.seats \in [Players -> SoundSeat]
  BY LobbyFields DEF OneStory
<1>8. z \in SoundLobby
  BY <1>4, <1>6, <1>7, EndedStory DEF RefundEndings
<1>9. QED
  BY <1>1, <1>2, <1>4, <1>6, <1>8

LEMMA verdictSound ==
    ASSUME NEW s, Sound(s), NEW l \in Ids(s), block \in Nat,
           s.lobbies[l].status = "ACTIVE", s.attacks[s.lobbies[l].epochId].revealed
    PROVE  Sound(verdict(s, l)) /\ Ids(verdict(s, l)) = Ids(s)
<1> DEFINE lobby == s.lobbies[l]
           e == lobby.epochId
           attack == s.attacks[e]
           won == Winners(lobby) # {}
           a == [attack EXCEPT !.intercepted = @ \/ won]
           x == judged(lobby)
           pool == s.globalDefensePool + forfeited(lobby)
           active == oneFewer(s.activeLobbies)
           tally == IF firstToIntercept(attack, won)
                    THEN s.interceptedAttacks + 1 ELSE s.interceptedAttacks
           t == withLobby(s, l, x, pool, s.balance, active)
<1>1. /\ lobby \in SoundLobby /\ e \in EpochIds /\ attack \in SoundAttack
      /\ attack.revealed /\ lobby.status = "ACTIVE"
  BY LobbyOf
<1>2. verdict(s, l) = withAttack(t, e, a, tally)
  BY DEF verdict, withAttack, withLobby, Sound, SoundStorage
<1>3. /\ pool \in Int /\ active \in Nat /\ tally \in Nat
  <2>1. /\ s.globalDefensePool \in Int /\ s.activeLobbies \in Nat
        /\ s.interceptedAttacks \in Nat
    BY StorageFields
  <2>2. forfeited(lobby) \in Int
    BY <1>1, judgedSound
  <2> HIDE DEF lobby
  <2>3. QED
    BY <2>1, <2>2, oneFewerType
<1>4. /\ x \in SoundLobby /\ x.epochId = e /\ Linked(x, attack)
  BY <1>1, judgedSound DEF Linked
<1> HIDE DEF x, pool, active, tally
<1>5. Sound(t) /\ Ids(t) = Ids(s) /\ t.attacks = s.attacks
  BY <1>3, <1>4, LobbyReplaced, WithLobbyAt
<1> HIDE DEF t, lobby
<1>6. a \in SoundAttack /\ a.revealed /\ (attack.expired => a.expired)
  <2>1. won \in BOOLEAN
    OBVIOUS
  <2> HIDE DEF won, attack
  <2>2. QED
    BY <1>1, <2>1 DEF SoundAttack, Attack
<1> HIDE DEF a
<1>7. QED
  BY <1>1, <1>2, <1>3, <1>5, <1>6, AttackReplaced

LEMMA finalizeSound ==
    ASSUME NEW s, Sound(s), NEW l \in Ids(s), block \in Nat,
           s.lobbies[l].status = "ACTIVE", s.attacks[s.lobbies[l].epochId].revealed,
           finalizeOK(s, l)
    PROVE  Sound(finalize(s, l)) /\ Ids(s) \subseteq Ids(finalize(s, l))
<1>1. Sound(verdict(s, l)) /\ Ids(verdict(s, l)) = Ids(s)
  BY verdictSound
<1>2. maybeOpenDrawOK(verdict(s, l)) /\ finalize(s, l) = maybeOpenDraw(verdict(s, l))
  BY DEF finalizeOK, finalize
<1>3. QED
  BY <1>1, <1>2, maybeOpenDrawSound

(* Starting a team and scoring some of its attempts.                       *)
startedAndScored(s, l, subset, hits) ==
    [activate(s, l) EXCEPT
        !.lobbies[l] = scoreSubset(activate(s, l).lobbies[l], subset, hits)]

LEMMA ScoredTeam ==
    ASSUME NEW s, Sound(s), NEW l \in Ids(s), scorable(s, l), NEW subset, NEW hits
    PROVE  LET t == startedAndScored(s, l, subset, hits) IN
           /\ Sound(t) /\ Ids(t) = Ids(s)
           /\ t.lobbies[l].status = "ACTIVE"
           /\ t.attacks[t.lobbies[l].epochId].revealed
<1> DEFINE t == startedAndScored(s, l, subset, hits)
           started == activate(s, l)
           lobby == started.lobbies[l]
           x == scoreSubset(lobby, subset, hits)
<1>1. /\ Sound(started) /\ Ids(started) = Ids(s) /\ started.attacks = s.attacks
      /\ lobby.epochId = s.lobbies[l].epochId
  BY activateSound
<1>2. lobby.status = "ACTIVE" /\ s.attacks[s.lobbies[l].epochId].revealed
  BY DEF scorable
<1>3. t = [started EXCEPT !.lobbies[l] = x]
  BY DEF startedAndScored
<1> HIDE DEF started, t
<1>4. lobby \in SoundLobby /\ Linked(lobby, started.attacks[lobby.epochId])
  BY <1>1, LobbyOf
<1>5. t = withLobby(started, l, x, started.globalDefensePool, started.balance,
                    started.activeLobbies)
  BY <1>1, <1>3 DEF withLobby, Sound, SoundStorage
<1> HIDE DEF lobby
<1>6. /\ x \in SoundLobby /\ x.epochId = lobby.epochId
      /\ x.status = lobby.status /\ x.ending = lobby.ending
  BY <1>4, scoreSubsetSound
<1> HIDE DEF x
<1>7. x.epochId = started.lobbies[l].epochId /\ Linked(x, started.attacks[x.epochId])
  BY <1>4, <1>6 DEF lobby, Linked
<1>8. started.globalDefensePool \in Int /\ started.activeLobbies \in Nat
  BY <1>1, StorageFields
<1>9. Sound(t) /\ Ids(t) = Ids(s)
  BY <1>1, <1>5, <1>6, <1>7, <1>8, LobbyReplaced
<1>10. t.lobbies[l] = x /\ t.attacks = started.attacks
  BY <1>1, <1>5, WithLobbyAt
<1>11. t.lobbies[l].status = "ACTIVE" /\ t.attacks[t.lobbies[l].epochId].revealed
  BY <1>1, <1>2, <1>6, <1>10
<1>12. QED
  BY <1>9, <1>11 DEF t

LEMMA resolveAllSound ==
    ASSUME NEW s, Sound(s), NEW l \in Ids(s), block \in Nat, NEW hits,
           resolveAllOK(s, l, hits)
    PROVE  Sound(resolveAll(s, l, hits)) /\ Ids(s) \subseteq Ids(resolveAll(s, l, hits))
<1> DEFINE lobby == activate(s, l).lobbies[l]
           t == scoreAll(s, l, hits)
<1>1. t = startedAndScored(s, l, Defenders(lobby), hits)
  BY DEF scoreAll, startedAndScored
<1>2. scorable(s, l) /\ finalizeOK(t, l) /\ resolveAll(s, l, hits) = finalize(t, l)
  BY DEF resolveAllOK, resolveAll
<1> HIDE DEF t
<1>3. /\ Sound(t) /\ Ids(t) = Ids(s)
      /\ t.lobbies[l].status = "ACTIVE" /\ t.attacks[t.lobbies[l].epochId].revealed
  BY <1>1, <1>2, ScoredTeam
<1>4. QED
  BY <1>2, <1>3, finalizeSound

LEMMA proveSound ==
    ASSUME NEW s, Sound(s), NEW l \in Ids(s), block \in Nat, NEW subset, NEW hits,
           proveOK(s, l, subset)
    PROVE  Sound(prove(s, l, subset, hits))
<1> DEFINE ready == maybeOpenDraw(s)
           t == prove(s, l, subset, hits)
<1>1. maybeOpenDrawOK(s) /\ scorable(ready, l)
  BY DEF proveOK
<1>2. Sound(ready) /\ l \in Ids(ready)
  BY <1>1, maybeOpenDrawSound
<1>3. t = startedAndScored(ready, l, subset, hits)
  BY DEF prove, startedAndScored
<1> HIDE DEF ready, t
<1>4. QED
  BY <1>1, <1>2, <1>3, ScoredTeam DEF t

LEMMA finalizeIfReadySound ==
    ASSUME NEW s, Sound(s), NEW l \in Ids(s), block \in Nat, finalizeIfReadyOK(s, l)
    PROVE  Sound(finalizeIfReady(s, l))
<1> DEFINE ready == maybeOpenDraw(s)
           started == activate(ready, l)
<1>1. /\ maybeOpenDrawOK(s) /\ scorable(ready, l) /\ finalizeOK(started, l)
      /\ finalizeIfReady(s, l) = finalize(started, l)
  BY DEF finalizeIfReadyOK, finalizeIfReady
<1>2. Sound(ready) /\ l \in Ids(ready)
  BY <1>1, maybeOpenDrawSound
<1> HIDE DEF ready
<1>3. /\ Sound(started) /\ Ids(started) = Ids(ready) /\ started.attacks = ready.attacks
      /\ started.lobbies[l].epochId = ready.lobbies[l].epochId
  BY <1>2, activateSound
<1>4. /\ started.lobbies[l].status = "ACTIVE"
      /\ ready.attacks[ready.lobbies[l].epochId].revealed
  BY <1>1 DEF scorable
<1> HIDE DEF started
<1>5. QED
  BY <1>1, <1>2, <1>3, <1>4, finalizeSound

-----------------------------------------------------------------------------
(* The attack's own steps.                                                 *)

LEMMA launchedSound ==
    ASSUME NEW a \in SoundAttack
    PROVE  /\ launched(a) \in SoundAttack
           /\ launched(a).revealed = a.revealed /\ launched(a).expired = a.expired
BY DEF launched, SoundAttack, Attack, AttackStatus

LEMMA completeAttackSound ==
    ASSUME IInv, NEW e \in EpochIds, completeAttack(e)
    PROVE  IInv'
<1> DEFINE attack == store.attacks[e]
           a == [attack EXCEPT !.status = "COMPLETED", !.decryptionUnlocked = TRUE]
<1>1. /\ attack \in SoundAttack /\ store.interceptedAttacks \in Nat
      /\ ~attack.revealed /\ ~attack.expired
  BY StorageFields DEF IInv, completeAttack, completeAttackOK, SoundAttack
<1>2. store' = withAttack(store, e, a, store.interceptedAttacks)
  BY DEF completeAttack, withAttack, IInv, Sound, SoundStorage
<1> HIDE DEF attack
<1>3. a \in SoundAttack /\ a.revealed = attack.revealed /\ a.expired = attack.expired
  BY <1>1 DEF SoundAttack, Attack, AttackStatus
<1> HIDE DEF a
<1>4. Sound(store')
  BY <1>1, <1>2, <1>3, AttackReplaced DEF IInv, attack
<1>5. QED
  BY <1>4 DEF IInv, completeAttack, Sound, Ids

LEMMA revealSound ==
    ASSUME NEW s, Sound(s), NEW e \in EpochIds, revealOK(s, e)
    PROVE  Sound(reveal(s, e)) /\ Ids(reveal(s, e)) = Ids(s)
<1> DEFINE attack == s.attacks[e]
           a == [attack EXCEPT !.revealed = TRUE, !.status = "RESOLVED"]
<1>1. attack \in SoundAttack /\ s.interceptedAttacks \in Nat /\ ~attack.expired
  BY StorageFields DEF revealOK, SoundAttack
<1>2. reveal(s, e) = withAttack(s, e, a, s.interceptedAttacks)
  BY DEF reveal, withAttack, Sound, SoundStorage
<1> HIDE DEF attack
<1>3. a \in SoundAttack /\ a.revealed /\ a.expired = attack.expired
  BY <1>1 DEF SoundAttack, Attack, AttackStatus
<1> HIDE DEF a
<1>4. QED
  BY <1>1, <1>2, <1>3, AttackReplaced DEF attack

-----------------------------------------------------------------------------
(* The actions.                                                            *)

LEMMA StepSound ==
    ASSUME IInv, Sound(store'), block' = block
    PROVE  IInv'
BY DEF IInv

LEMMA TreasuryMoved ==
    ASSUME NEW s, Sound(s), NEW treasury \in Nat, NEW balance
    PROVE  Sound([s EXCEPT !.protocolTreasury = treasury, !.balance = balance])
<1> DEFINE t == [s EXCEPT !.protocolTreasury = treasury, !.balance = balance]
<1>1. /\ t \in SoundStorage(t.balance) /\ t.lobbies = s.lobbies
      /\ t.attacks = s.attacks /\ t.globalDefenseLobby = s.globalDefenseLobby
  BY DEF Sound, SoundStorage
<1> HIDE DEF t
<1>2. Sound(t)
  BY <1>1 DEF Sound, Ids
<1>3. QED
  BY <1>2 DEF t

LEMMA InitSound == Init => IInv
<1> SUFFICES ASSUME Init PROVE IInv
  OBVIOUS
<1>1. PICK p \in ParamSets, i \in Intervals :
          store = [ params |-> p, interval |-> i, paused |-> FALSE,
                    protocolTreasury |-> 0, globalDefensePool |-> InitialPool,
                    balance |-> InitialPool, activeLobbies |-> 0,
                    interceptedAttacks |-> 0, lobbies |-> <<>>,
                    attacks |-> [e \in EpochIds |-> NoAttack],
                    globalDefenseLobby |-> [e \in EpochIds |-> 0] ]
  BY DEF Init
<1>2. NoAttack \in SoundAttack
  BY DEF NoAttack, SoundAttack, Attack, AttackStatus
<1>3. <<>> \in Seq(SoundLobby) /\ Len(<<>>) = 0
  BY EmptySeq
<1>4. InitialPool \in Int /\ block \in Nat
  BY NumbersAssumption DEF Init
<1>5. store \in SoundStorage(store.balance)
  BY <1>1, <1>2, <1>3, <1>4 DEF SoundStorage, Wei
<1>6. Ids(store) = {} /\ \A e \in EpochIds : store.globalDefenseLobby[e] = 0
  BY <1>1, <1>3 DEF Ids
<1>7. QED
  BY <1>4, <1>5, <1>6 DEF IInv, Sound

LEMMA GovernanceSound ==
    ASSUME IInv, Governance
    PROVE  IInv'
<1> DEFINE ruled(p, i, b) == [store EXCEPT !.params = p, !.interval = i, !.paused = b]
<1>1. ASSUME NEW p \in ParamSets, NEW i \in Intervals, NEW b \in BOOLEAN,
             store' = ruled(p, i, b), block' = block
      PROVE  IInv'
  <2>1. /\ store' \in SoundStorage(store'.balance) /\ store'.lobbies = store.lobbies
        /\ store'.attacks = store.attacks
        /\ store'.globalDefenseLobby = store.globalDefenseLobby
    BY <1>1 DEF IInv, Sound, SoundStorage
  <2>2. Sound(store')
    BY <2>1 DEF IInv, Sound, Ids
  <2>3. QED
    BY <1>1, <2>2, StepSound
<1>2. /\ store.params \in ParamSets /\ store.interval \in Intervals
      /\ store.paused \in BOOLEAN
  BY StorageFields DEF IInv
<1>3. ASSUME NEW p \in ParamSets, setParams(p) PROVE IInv'
  <2>1. store' = ruled(p, store.interval, store.paused)
    BY <1>3 DEF setParams, IInv, Sound, SoundStorage
  <2> HIDE DEF ruled
  <2>2. QED
    BY <1>1, <1>2, <1>3, <2>1 DEF setParams
<1>4. ASSUME NEW i \in Intervals, setGlobalDefenseInterval(i) PROVE IInv'
  <2>1. store' = ruled(store.params, i, store.paused)
    BY <1>4 DEF setGlobalDefenseInterval, IInv, Sound, SoundStorage
  <2> HIDE DEF ruled
  <2>2. QED
    BY <1>1, <1>2, <1>4, <2>1 DEF setGlobalDefenseInterval
<1>5. ASSUME NEW b \in PauseValues, setPaused(b) PROVE IInv'
  <2>1. store' = ruled(store.params, store.interval, b)
    BY <1>5 DEF setPaused, IInv, Sound, SoundStorage
  <2>2. b \in BOOLEAN
    BY BoundsAssumption
  <2> HIDE DEF ruled
  <2>3. QED
    BY <1>1, <1>2, <1>5, <2>1, <2>2 DEF setPaused
<1>6. ASSUME NEW amount \in Withdrawals, withdrawProtocolFees(amount) PROVE IInv'
  <2>1. store.protocolTreasury - amount \in Nat
    BY <1>6, StorageFields, BoundsAssumption DEF IInv, withdrawProtocolFees
  <2>2. Sound(store')
    BY <1>6, <2>1, TreasuryMoved DEF IInv, withdrawProtocolFees
  <2>3. QED
    BY <1>6, <2>2, StepSound DEF withdrawProtocolFees
<1>7. QED
  BY <1>3, <1>4, <1>5, <1>6 DEF Governance

(* What an ordinary write finds after the draw's upkeep.                   *)
LEMMA AfterUpkeep ==
    ASSUME IInv, maybeOpenDrawOK(store)
    PROVE  Sound(maybeOpenDraw(store)) /\ LobbyIds \subseteq Ids(maybeOpenDraw(store))
BY maybeOpenDrawSound DEF IInv, LobbyIds, Ids

LEMMA createLobbySound ==
    ASSUME IInv, NEW w \in Players, NEW config \in Configs, NEW d \in Nat,
           createLobby(w, config, d)
    PROVE  IInv'
<1> DEFINE s == maybeOpenDraw(store)
           t == mintLobby(s, config, d, w)
           fee == s.params.protocolJoinFee
<1>1. /\ maybeOpenDrawOK(store) /\ mintFits(s, d) /\ block' = block
      /\ store' = [t EXCEPT !.protocolTreasury = t.protocolTreasury + fee,
                            !.balance = t.balance + config.startPrizePool + fee]
  BY DEF createLobby
<1>2. Sound(s)
  BY <1>1, AfterUpkeep
<1> HIDE DEF s
<1>3. config \in LobbyConfig /\ w \in Players \cup {Game}
  BY ParamsAssumption
<1>4. Sound(t)
  BY <1>1, <1>2, <1>3, mintLobbySound
<1>5. fee \in Nat
  BY <1>2, StorageFields, ParamFields
<1> HIDE DEF t, fee
<1>6. t.protocolTreasury + fee \in Nat
  BY <1>4, <1>5, StorageFields
<1>7. Sound(store')
  BY <1>1, <1>4, <1>6, TreasuryMoved
<1>8. QED
  BY <1>1, <1>7, StepSound

(* A write to one seat of an operation, and to the sums beside it.         *)
LEMMA SeatWritten ==
    ASSUME NEW s, Sound(s), NEW l \in Ids(s), NEW w \in Players, NEW y \in SoundSeat,
           y.claimed => s.lobbies[l].ending = "COMPLETED",
           y.refunded => s.lobbies[l].ending \in RefundEndings,
           NEW x \in Lobby, x.seats = [s.lobbies[l].seats EXCEPT ![w] = y],
           x.status = s.lobbies[l].status, x.ending = s.lobbies[l].ending,
           x.epochId = s.lobbies[l].epochId, NEW balance
    PROVE  LET t == withLobby(s, l, x, s.globalDefensePool, balance, s.activeLobbies) IN
           Sound(t) /\ t.attacks = s.attacks /\ t.interceptedAttacks = s.interceptedAttacks
<1>1. /\ s.lobbies[l] \in SoundLobby
      /\ Linked(s.lobbies[l], s.attacks[s.lobbies[l].epochId])
  BY LobbyOf
<1>2. x \in SoundLobby
  BY <1>1, SeatReplaced
<1>3. Linked(x, s.attacks[x.epochId])
  BY <1>1 DEF Linked
<1>4. s.globalDefensePool \in Int /\ s.activeLobbies \in Nat
  BY StorageFields
<1>5. Sound(withLobby(s, l, x, s.globalDefensePool, balance, s.activeLobbies))
  BY <1>2, <1>3, <1>4, LobbyReplaced
<1>6. QED
  BY <1>5, WithLobbyAt DEF withLobby, Sound, SoundStorage

LEMMA SeatOf ==
    ASSUME NEW s, Sound(s), NEW l \in Ids(s), NEW w \in Players
    PROVE  /\ s.lobbies[l].seats[w] \in SoundSeat
           /\ s.lobbies[l].seats \in [Players -> SoundSeat]
           /\ s.lobbies[l].seats[w].claimed => s.lobbies[l].ending = "COMPLETED"
           /\ s.lobbies[l].seats[w].refunded => s.lobbies[l].ending \in RefundEndings
BY LobbyOf, LobbyFields DEF OneStory

LEMMA SeatsTyped ==
    ASSUME NEW seats \in [Players -> SoundSeat], NEW w \in Players, NEW y \in SoundSeat
    PROVE  [seats EXCEPT ![w] = y] \in [Players -> Seat]
BY DEF SoundSeat

LEMMA joinLobbySound ==
    ASSUME IInv, NEW w \in Players, NEW l \in LobbyIds, joinLobby(w, l)
    PROVE  IInv'
<1> DEFINE s     == maybeOpenDraw(store)
           lobby == s.lobbies[l]
           seat  == lobby.seats[w]
           cost  == joinPayment(lobby.entryPrice, lobby.creatorFeeBps)
           y     == [seat EXCEPT !.joined = TRUE, !.paidIn = cost]
           seats == [lobby.seats EXCEPT ![w] = y]
           fees  == lobby.entryFeesCollected + lobby.entryPrice
           own   == lobby.creatorFeeAccrued + cost - lobby.entryPrice
           x     == [lobby EXCEPT !.seats = seats, !.entryFeesCollected = fees,
                                  !.creatorFeeAccrued = own]
           held  == s.balance + cost
<1>1. /\ maybeOpenDrawOK(store) /\ block' = block
      /\ store' = [s EXCEPT !.lobbies[l] = x, !.balance = held]
  BY DEF joinLobby
<1>2. Sound(s) /\ l \in Ids(s)
  BY <1>1, AfterUpkeep
<1> HIDE DEF s
<1>3. store' = withLobby(s, l, x, s.globalDefensePool, held, s.activeLobbies)
  BY <1>1, <1>2 DEF withLobby, Sound, SoundStorage
<1>4. lobby \in SoundLobby /\ seat \in SoundSeat /\ lobby.seats \in [Players -> SoundSeat]
  BY <1>2, LobbyOf, SeatOf
<1> HIDE DEF lobby, seat
<1>5. cost \in Nat
  <2>1. lobby.entryPrice \in Nat /\ lobby.creatorFeeBps \in Nat
    BY <1>4, LobbyFields
  <2>2. lobby.entryPrice * lobby.creatorFeeBps \in Nat
    BY <2>1
  <2>3. (lobby.entryPrice * lobby.creatorFeeBps) \div BPS \in Nat
    BY <2>2, DivFacts DEF BPS
  <2>4. QED
    BY <2>1, <2>3 DEF joinPayment, authorCommission
<1> HIDE DEF cost
<1>6. fees \in Int /\ own \in Int
  BY <1>4, <1>5, LobbyFields
<1>7. y \in SoundSeat /\ y.claimed = seat.claimed /\ y.refunded = seat.refunded
  BY <1>4, <1>5 DEF SoundSeat, Seat
<1> HIDE DEF fees, own, y
<1>8. seats \in [Players -> Seat]
  BY <1>4, <1>7, SeatsTyped
<1> HIDE DEF seats
<1>9. /\ x \in Lobby /\ x.seats = seats /\ x.epochId = lobby.epochId
      /\ x.status = lobby.status /\ x.ending = lobby.ending
  BY <1>4, <1>6, <1>8 DEF SoundLobby, Lobby, Wei
<1> HIDE DEF x, held
<1>10. Sound(store')
  <2>1. /\ y.claimed => s.lobbies[l].ending = "COMPLETED"
        /\ y.refunded => s.lobbies[l].ending \in RefundEndings
    BY <1>2, <1>7, SeatOf DEF lobby, seat
  <2>2. /\ x.seats = [s.lobbies[l].seats EXCEPT ![w] = y]
        /\ x.status = s.lobbies[l].status /\ x.ending = s.lobbies[l].ending
        /\ x.epochId = s.lobbies[l].epochId
    BY <1>9 DEF lobby, seats
  <2>3. QED
    BY <1>2, <1>3, <1>7, <1>9, <2>1, <2>2, SeatWritten
<1>11. QED
  BY <1>1, <1>10, StepSound

LEMMA buyProbesSound ==
    ASSUME IInv, NEW w \in Players, NEW l \in LobbyIds, NEW count \in Nat,
           buyProbes(w, l, count)
    PROVE  IInv'
<1> DEFINE s     == maybeOpenDraw(store)
           lobby == s.lobbies[l]
           seat  == lobby.seats[w]
           cost  == s.params.probePrice * count
           y     == [seat EXCEPT !.probesPurchased = @ + count, !.probesPaid = @ + cost,
                                 !.paidIn = @ + cost]
           seats == [lobby.seats EXCEPT ![w] = y]
           pool  == lobby.rewardPool + cost
           x     == [lobby EXCEPT !.seats = seats, !.rewardPool = pool]
           held  == s.balance + cost
<1>1. /\ maybeOpenDrawOK(store) /\ block' = block
      /\ store' = [s EXCEPT !.lobbies[l] = x, !.balance = held]
  BY DEF buyProbes
<1>2. Sound(s) /\ l \in Ids(s)
  BY <1>1, AfterUpkeep
<1> HIDE DEF s
<1>3. store' = withLobby(s, l, x, s.globalDefensePool, held, s.activeLobbies)
  BY <1>1, <1>2 DEF withLobby, Sound, SoundStorage
<1>4. lobby \in SoundLobby /\ seat \in SoundSeat /\ lobby.seats \in [Players -> SoundSeat]
  BY <1>2, LobbyOf, SeatOf
<1> HIDE DEF lobby, seat
<1>5. cost \in Nat
  <2>1. s.params.probePrice \in Nat
    BY <1>2, StorageFields, ParamFields
  <2>2. QED
    BY <2>1
<1> HIDE DEF cost
<1>6. pool \in Int
  BY <1>4, <1>5, LobbyFields
<1>7. y \in SoundSeat /\ y.claimed = seat.claimed /\ y.refunded = seat.refunded
  <2>1. /\ seat.probesPurchased + count \in Nat /\ seat.probesPaid + cost \in Nat
        /\ seat.paidIn + cost \in Nat
    BY <1>4, <1>5, SeatFields
  <2>2. QED
    BY <1>4, <2>1 DEF SoundSeat, Seat
<1> HIDE DEF pool, y
<1>8. seats \in [Players -> Seat]
  BY <1>4, <1>7, SeatsTyped
<1> HIDE DEF seats
<1>9. /\ x \in Lobby /\ x.seats = seats /\ x.epochId = lobby.epochId
      /\ x.status = lobby.status /\ x.ending = lobby.ending
  BY <1>4, <1>6, <1>8 DEF SoundLobby, Lobby, Wei
<1> HIDE DEF x, held
<1>10. Sound(store')
  <2>1. /\ y.claimed => s.lobbies[l].ending = "COMPLETED"
        /\ y.refunded => s.lobbies[l].ending \in RefundEndings
    BY <1>2, <1>7, SeatOf DEF lobby, seat
  <2>2. /\ x.seats = [s.lobbies[l].seats EXCEPT ![w] = y]
        /\ x.status = s.lobbies[l].status /\ x.ending = s.lobbies[l].ending
        /\ x.epochId = s.lobbies[l].epochId
    BY <1>9 DEF lobby, seats
  <2>3. QED
    BY <1>2, <1>3, <1>7, <1>9, <2>1, <2>2, SeatWritten
<1>11. QED
  BY <1>1, <1>10, StepSound

LEMMA RoomActionsSound ==
    ASSUME IInv,
           \/ openGlobalDefense
           \/ \E l \in LobbyIds :
                 startOperation(l) \/ cancelLobby(l) \/ \E w \in Players : leaveLobby(w, l)
    PROVE  IInv'
<1>1. Sound(store) /\ block \in Nat /\ LobbyIds = Ids(store)
  BY DEF IInv, LobbyIds, Ids
<1>2. CASE openGlobalDefense
  <2>1. Sound(maybeCloseDraw(store))
    BY <1>1, maybeCloseDrawSound
  <2>2. Sound(store')
    BY <1>1, <1>2, <2>1, openDrawSound DEF openGlobalDefense
  <2>3. QED
    BY <1>2, <2>2, StepSound DEF openGlobalDefense
<1>3. ASSUME NEW l \in LobbyIds, startOperation(l) PROVE IInv'
  BY <1>1, <1>3, activateSound, StepSound DEF startOperation
<1>4. ASSUME NEW l \in LobbyIds, cancelLobby(l) PROVE IInv'
  BY <1>1, <1>4, closeUnfilledSound, StepSound DEF cancelLobby, lobbyOf
<1>5. ASSUME NEW l \in LobbyIds, NEW w \in Players, leaveLobby(w, l) PROVE IInv'
  BY <1>1, <1>5, leaveSound, StepSound DEF leaveLobby
<1>6. QED
  BY <1>2, <1>3, <1>4, <1>5

(* A move in the round: one seat, the tally of moves, and the attack is    *)
(* marked launched by the first of them.                                   *)
LEMMA MoveSound ==
    ASSUME NEW s, Sound(s), NEW l \in Ids(s), NEW w \in Players, NEW y \in SoundSeat,
           y.claimed = s.lobbies[l].seats[w].claimed,
           y.refunded = s.lobbies[l].seats[w].refunded
    PROVE  Sound([s EXCEPT
                    !.lobbies[l] = [s.lobbies[l] EXCEPT !.seats[w] = y, !.validActions = @ + 1],
                    !.attacks[s.lobbies[l].epochId] = launched(@)])
<1> DEFINE lobby == s.lobbies[l]
           e     == lobby.epochId
           seats == [lobby.seats EXCEPT ![w] = y]
           moves == lobby.validActions + 1
           x     == [lobby EXCEPT !.seats = seats, !.validActions = moves]
           t     == withLobby(s, l, x, s.globalDefensePool, s.balance, s.activeLobbies)
           a     == launched(s.attacks[e])
           u     == withAttack(t, e, a, t.interceptedAttacks)
<1>1. [s EXCEPT !.lobbies[l] = [s.lobbies[l] EXCEPT !.seats[w] = y, !.validActions = @ + 1],
                !.attacks[s.lobbies[l].epochId] = launched(@)] = u
  BY DEF withLobby, withAttack, Sound, SoundStorage
<1>2. /\ lobby \in SoundLobby /\ e \in EpochIds /\ s.attacks[e] \in SoundAttack
      /\ lobby.seats \in [Players -> SoundSeat]
  BY LobbyOf, SeatOf
<1>3. /\ y.claimed => s.lobbies[l].ending = "COMPLETED"
      /\ y.refunded => s.lobbies[l].ending \in RefundEndings
  BY SeatOf
<1> HIDE DEF lobby
<1>4. seats \in [Players -> Seat] /\ moves \in Nat
  BY <1>2, SeatsTyped, LobbyFields
<1> HIDE DEF seats, moves
<1>5. /\ x \in Lobby /\ x.seats = seats /\ x.epochId = lobby.epochId
      /\ x.status = lobby.status /\ x.ending = lobby.ending
  BY <1>2, <1>4 DEF SoundLobby, Lobby
<1> HIDE DEF x
<1>6. Sound(t) /\ t.attacks = s.attacks
  <2>1. /\ x.seats = [s.lobbies[l].seats EXCEPT ![w] = y]
        /\ x.status = s.lobbies[l].status /\ x.ending = s.lobbies[l].ending
        /\ x.epochId = s.lobbies[l].epochId
    BY <1>5 DEF lobby, seats
  <2>2. QED
    BY <1>3, <1>5, <2>1, SeatWritten
<1> HIDE DEF t, e
<1>7. /\ a \in SoundAttack
      /\ a.revealed = s.attacks[e].revealed /\ a.expired = s.attacks[e].expired
  BY <1>2, launchedSound
<1> HIDE DEF a
<1>8. t.interceptedAttacks \in Nat
  BY <1>6, StorageFields
<1>9. Sound(u)
  BY <1>2, <1>6, <1>7, <1>8, AttackReplaced
<1> HIDE DEF u
<1>10. QED
  BY <1>1, <1>9

LEMMA sendProbeSound ==
    ASSUME IInv, NEW w \in Players, NEW l \in LobbyIds, sendProbe(w, l)
    PROVE  IInv'
<1> DEFINE s     == maybeOpenDraw(store)
           ready == activate(s, l)
           seat  == ready.lobbies[l].seats[w]
           y     == [seat EXCEPT !.probesUsed = @ + 1, !.lastProbeBlock = block]
<1>1. /\ maybeOpenDrawOK(store) /\ block' = block /\ seat.defendedAt = 0
      /\ store' = [ready EXCEPT
                      !.lobbies[l] = [ready.lobbies[l] EXCEPT !.seats[w] = y,
                                                              !.validActions = @ + 1],
                      !.attacks[ready.lobbies[l].epochId] = launched(@)]
  BY DEF sendProbe, mayAct
<1>2. Sound(s) /\ l \in Ids(s)
  BY <1>1, AfterUpkeep
<1>3. Sound(ready) /\ l \in Ids(ready)
  BY <1>2, activateSound
<1> HIDE DEF s, ready
<1>4. seat \in SoundSeat
  BY <1>3, SeatOf
<1> HIDE DEF seat
<1>5. y \in SoundSeat /\ y.claimed = seat.claimed /\ y.refunded = seat.refunded
  <2>1. seat.probesUsed + 1 \in Nat /\ block \in Nat
    BY <1>4, SeatFields DEF IInv
  <2>2. QED
    BY <1>1, <1>4, <2>1 DEF SoundSeat, Seat
<1> HIDE DEF y
<1>6. Sound(store')
  BY <1>1, <1>3, <1>5, MoveSound DEF seat
<1>7. QED
  BY <1>1, <1>6, StepSound

LEMMA submitDefenseSound ==
    ASSUME IInv, NEW w \in Players, NEW l \in LobbyIds, submitDefense(w, l)
    PROVE  IInv'
<1> DEFINE s     == maybeOpenDraw(store)
           ready == activate(s, l)
           seat  == ready.lobbies[l].seats[w]
           y     == [seat EXCEPT !.defendedAt = block]
<1>1. /\ maybeOpenDrawOK(store) /\ block' = block /\ probeClimbed(seat)
      /\ store' = [ready EXCEPT
                      !.lobbies[l] = [ready.lobbies[l] EXCEPT !.seats[w] = y,
                                                              !.validActions = @ + 1],
                      !.attacks[ready.lobbies[l].epochId] = launched(@)]
  BY DEF submitDefense, mayAct
<1>2. Sound(s) /\ l \in Ids(s)
  BY <1>1, AfterUpkeep
<1>3. Sound(ready) /\ l \in Ids(ready)
  BY <1>2, activateSound
<1> HIDE DEF s, ready
<1>4. seat \in SoundSeat
  BY <1>3, SeatOf
<1> HIDE DEF seat
<1>5. y \in SoundSeat /\ y.claimed = seat.claimed /\ y.refunded = seat.refunded
  <2>1. block \in Nat
    BY DEF IInv
  <2>2. QED
    BY <1>1, <1>4, <2>1 DEF SoundSeat, Seat, probeClimbed
<1> HIDE DEF y
<1>6. Sound(store')
  BY <1>1, <1>3, <1>5, MoveSound DEF seat
<1>7. QED
  BY <1>1, <1>6, StepSound

LEMMA ScoredSound ==
    ASSUME IInv, NEW l \in LobbyIds, Scored(l)
    PROVE  IInv'
<1>1. Sound(store) /\ block \in Nat /\ l \in Ids(store)
  BY DEF IInv, LobbyIds, Ids
<1>2. ASSUME NEW hits, resolveLobby(l, hits) PROVE IInv'
  BY <1>1, <1>2, resolveAllSound, StepSound DEF resolveLobby
<1>3. ASSUME NEW subset, NEW hits, proveDefenses(l, subset, hits) PROVE IInv'
  BY <1>1, <1>3, proveSound, StepSound DEF proveDefenses
<1>4. CASE finalizeScoring(l)
  BY <1>1, <1>4, finalizeIfReadySound, StepSound DEF finalizeScoring
<1>5. ASSUME NEW withProofs, NEW hits, revealAndResolve(l, withProofs, hits) PROVE IInv'
  <2> DEFINE s == maybeOpenDraw(store)
             e == lobbyOf(l).epochId
             p == published(s, e)
  <2>1. /\ maybeOpenDrawOK(store) /\ block' = block
        /\ s.attacks[e].revealed \/ revealOK(s, e)
        /\ \/ store' = p
           \/ resolveAllOK(p, l, hits) /\ store' = resolveAll(p, l, hits)
    BY <1>5 DEF revealAndResolve
  <2>2. Sound(s) /\ l \in Ids(s) /\ e \in EpochIds
    BY <1>1, <2>1, AfterUpkeep, LobbyOf DEF lobbyOf
  <2> HIDE DEF s, e
  <2>3. Sound(p) /\ l \in Ids(p)
    BY <2>1, <2>2, revealSound DEF published
  <2> HIDE DEF p
  <2>4. Sound(store')
    BY <1>1, <2>1, <2>3, resolveAllSound
  <2>5. QED
    BY <2>1, <2>4, StepSound
<1>6. QED
  BY <1>2, <1>3, <1>4, <1>5 DEF Scored

LEMMA revealEpochAttackSound ==
    ASSUME IInv, NEW e \in EpochIds, revealEpochAttack(e)
    PROVE  IInv'
BY revealSound, StepSound DEF revealEpochAttack, IInv

LEMMA expireAttackSound ==
    ASSUME IInv, NEW l \in LobbyIds, expireAttack(l)
    PROVE  IInv'
<1> DEFINE lobby  == store.lobbies[l]
           e      == lobby.epochId
           attack == store.attacks[e]
           a == [attack EXCEPT !.expired = TRUE, !.status = "RESOLVED"]
           x == [lobby EXCEPT !.status = "CANCELLED", !.ending = "CANCELLED"]
           t == withAttack(store, e, a, store.interceptedAttacks)
           active == oneFewer(store.activeLobbies)
           u == withLobby(t, l, x, t.globalDefensePool, t.balance, active)
<1>1. Sound(store) /\ l \in Ids(store)
  BY DEF IInv, LobbyIds, Ids
<1>2. /\ lobby \in SoundLobby /\ e \in EpochIds /\ attack \in SoundAttack
      /\ Linked(lobby, attack)
  BY <1>1, LobbyOf
<1>3. /\ ~attack.revealed /\ ~attack.expired /\ block' = block
      /\ store' = [store EXCEPT !.attacks[e] = a, !.lobbies[l] = x, !.activeLobbies = active]
  BY DEF expireAttack, unpublished, lobbyOf
<1>4. store' = u
  BY <1>1, <1>3 DEF withLobby, withAttack, Sound, SoundStorage
<1> HIDE DEF lobby, attack
<1>5. a \in SoundAttack /\ a.expired /\ ~a.revealed
  BY <1>2, <1>3 DEF SoundAttack, Attack, AttackStatus
<1> HIDE DEF a
<1>6. /\ Sound(t) /\ Ids(t) = Ids(store) /\ t.attacks[e] = a
      /\ t.lobbies = store.lobbies
  <2>1. store.interceptedAttacks \in Nat
    BY <1>1, StorageFields
  <2>2. Sound(t) /\ Ids(t) = Ids(store)
    BY <1>1, <1>2, <1>3, <1>5, <2>1, AttackReplaced DEF attack
  <2>3. t.attacks[e] = a /\ t.lobbies = store.lobbies
    BY <1>1, <1>2, StorageFields DEF withAttack, Sound, SoundStorage
  <2>4. QED
    BY <2>2, <2>3
<1> HIDE DEF t
<1>7. /\ x \in Lobby /\ x.seats = lobby.seats /\ x.epochId = lobby.epochId
      /\ x.status = "CANCELLED" /\ x.ending = "CANCELLED"
  BY <1>2 DEF SoundLobby, Lobby, LobbyStatus, Endings
<1> HIDE DEF x
<1>8. OneStory(x)
  <2>1. lobby.ending # "COMPLETED"
    BY <1>2, <1>3 DEF Linked
  <2>2. QED
    BY <1>2, <1>7, <2>1, LobbyFields DEF OneStory, RefundEndings
<1>9. x \in SoundLobby /\ x.epochId = t.lobbies[l].epochId /\ Linked(x, t.attacks[x.epochId])
  BY <1>2, <1>5, <1>6, <1>7, <1>8, LobbyFields DEF SoundLobby, Linked, lobby
<1>10. t.globalDefensePool \in Int /\ active \in Nat
  BY <1>1, <1>6, StorageFields, oneFewerType
<1> HIDE DEF active
<1>11. Sound(u)
  BY <1>1, <1>6, <1>9, <1>10, LobbyReplaced
<1>12. QED
  BY <1>3, <1>4, <1>11, StepSound

LEMMA creatorDueType ==
    ASSUME NEW x \in SoundLobby
    PROVE  creatorDue(x) \in Int /\ creatorRefundDue(x) \in Int
<1>1. creatorRefundDue(x) \in Int
  BY LobbyFields DEF creatorRefundDue
<1>2. x.creatorFeeAccrued \in Int /\ x.rewardPool \in Int /\ x.rewardPerWinner \in Int
  BY LobbyFields
<1>3. x.rewardPerWinner * Cardinality(Winners(x)) \in Int
  BY <1>2, WinnersFacts
<1>4. QED
  BY <1>1, <1>2, <1>3 DEF creatorDue

LEMMA settleCreatorSound ==
    ASSUME IInv, NEW l \in LobbyIds, settleCreator(l)
    PROVE  IInv'
<1> DEFINE lobby == store.lobbies[l]
           amount == creatorDue(lobby)
           home == lobby.creator = Game
           pool == IF home THEN store.globalDefensePool + amount ELSE store.globalDefensePool
           left == IF home THEN store.balance ELSE store.balance - amount
           x == [lobby EXCEPT !.creatorSettled = TRUE]
<1>1. Sound(store) /\ l \in Ids(store)
  BY DEF IInv, LobbyIds, Ids
<1>2. lobby \in SoundLobby /\ Linked(lobby, store.attacks[lobby.epochId])
  BY <1>1, LobbyOf
<1>3. block' = block /\ store' = withLobby(store, l, x, pool, left, store.activeLobbies)
  BY <1>1 DEF settleCreator, lobbyOf, withLobby, Sound, SoundStorage
<1>4. pool \in Int
  <2>1. amount \in Int /\ store.globalDefensePool \in Int
    BY <1>1, <1>2, creatorDueType, StorageFields
  <2> HIDE DEF amount
  <2>2. QED
    BY <2>1
<1> HIDE DEF lobby, pool, left
<1>5. /\ x \in Lobby /\ x.seats = lobby.seats /\ x.epochId = lobby.epochId
      /\ x.status = lobby.status /\ x.ending = lobby.ending
  BY <1>2 DEF SoundLobby, Lobby
<1> HIDE DEF x
<1>6. x \in SoundLobby
  BY <1>2, <1>5, SameStory
<1>7. x.epochId = store.lobbies[l].epochId /\ Linked(x, store.attacks[x.epochId])
  BY <1>2, <1>5 DEF Linked, lobby
<1>8. store.activeLobbies \in Nat
  BY <1>1, StorageFields
<1>9. Sound(store')
  BY <1>1, <1>3, <1>4, <1>6, <1>7, <1>8, LobbyReplaced
<1>10. QED
  BY <1>3, <1>9, StepSound

LEMMA claimRewardSound ==
    ASSUME IInv, NEW w \in Players, NEW l \in LobbyIds, claimReward(w, l)
    PROVE  IInv'
<1> DEFINE lobby == store.lobbies[l]
           seat  == lobby.seats[w]
           prize == lobby.rewardPerWinner
           fee   == IF w = lobby.creator /\ ~lobby.creatorSettled THEN creatorDue(lobby) ELSE 0
           paid  == lobby.rewardsClaimed + prize
           settled == lobby.creatorSettled \/ fee > 0
           y     == [seat EXCEPT !.claimed = TRUE]
           seats == [lobby.seats EXCEPT ![w] = y]
           x     == [lobby EXCEPT !.seats = seats, !.rewardsClaimed = paid,
                                  !.creatorSettled = settled]
           left  == store.balance - prize - fee
<1>1. Sound(store) /\ l \in Ids(store)
  BY DEF IInv, LobbyIds, Ids
<1>2. /\ lobby.status = "RESOLVED" /\ block' = block
      /\ store' = withLobby(store, l, x, store.globalDefensePool, left, store.activeLobbies)
  BY <1>1 DEF claimReward, lobbyOf, withLobby, Sound, SoundStorage
<1>3. /\ lobby \in SoundLobby /\ seat \in SoundSeat
      /\ lobby.seats \in [Players -> SoundSeat]
      /\ seat.refunded => lobby.ending \in RefundEndings
  BY <1>1, LobbyOf, SeatOf
<1> HIDE DEF lobby, seat, left
<1>4. paid \in Int /\ settled \in BOOLEAN
  <2>1. lobby.rewardsClaimed \in Int /\ prize \in Int /\ lobby.creatorSettled \in BOOLEAN
    BY <1>3, LobbyFields DEF SoundLobby, Lobby
  <2> HIDE DEF prize, fee
  <2>2. QED
    BY <2>1
<1>5. y \in SoundSeat /\ y.refunded = seat.refunded
  BY <1>3 DEF SoundSeat, Seat
<1>6. lobby.ending = "COMPLETED"
  BY <1>2, <1>3, LobbyFields DEF OneStory
<1> HIDE DEF paid, settled, y
<1>7. seats \in [Players -> Seat]
  BY <1>3, <1>5, SeatsTyped
<1> HIDE DEF seats
<1>8. /\ x \in Lobby /\ x.seats = seats /\ x.epochId = lobby.epochId
      /\ x.status = lobby.status /\ x.ending = lobby.ending
  BY <1>3, <1>4, <1>7 DEF SoundLobby, Lobby, Wei
<1> HIDE DEF x
<1>9. Sound(store')
  <2>1. /\ y.claimed => store.lobbies[l].ending = "COMPLETED"
        /\ y.refunded => store.lobbies[l].ending \in RefundEndings
    BY <1>3, <1>5, <1>6 DEF lobby
  <2>2. /\ x.seats = [store.lobbies[l].seats EXCEPT ![w] = y]
        /\ x.status = store.lobbies[l].status /\ x.ending = store.lobbies[l].ending
        /\ x.epochId = store.lobbies[l].epochId
    BY <1>8 DEF lobby, seats
  <2>3. QED
    BY <1>1, <1>2, <1>5, <1>8, <2>1, <2>2, SeatWritten
<1>10. QED
  BY <1>2, <1>9, StepSound

LEMMA claimRefundSound ==
    ASSUME IInv, NEW w \in Players, NEW l \in LobbyIds, claimRefund(w, l)
    PROVE  IInv'
<1> DEFINE lobby == store.lobbies[l]
           seat  == lobby.seats[w]
           due   == IF seat.joined /\ ~seat.refunded THEN refundDue(lobby.ending, seat) ELSE 0
           bounty == IF w = lobby.creator /\ ~lobby.creatorSettled
                     THEN creatorRefundDue(lobby) ELSE 0
           settled == lobby.creatorSettled \/ bounty > 0
           given == seat.refunded \/ due > 0
           y     == [seat EXCEPT !.refunded = given]
           seats == [lobby.seats EXCEPT ![w] = y]
           x     == [lobby EXCEPT !.seats = seats, !.creatorSettled = settled]
           left  == store.balance - due - bounty
<1>1. Sound(store) /\ l \in Ids(store)
  BY DEF IInv, LobbyIds, Ids
<1>2. /\ block' = block
      /\ store' = withLobby(store, l, x, store.globalDefensePool, left, store.activeLobbies)
  BY <1>1, ZenonT(40) DEF claimRefund, lobbyOf, withLobby, Sound, SoundStorage
<1>3. /\ lobby \in SoundLobby /\ seat \in SoundSeat
      /\ lobby.seats \in [Players -> SoundSeat]
      /\ seat.claimed => lobby.ending = "COMPLETED"
      /\ seat.refunded => lobby.ending \in RefundEndings
  BY <1>1, LobbyOf, SeatOf
<1> HIDE DEF lobby, seat, left
<1>4. settled \in BOOLEAN /\ given \in BOOLEAN
  <2>1. lobby.creatorSettled \in BOOLEAN /\ seat.refunded \in BOOLEAN
    BY <1>3, SeatFields DEF SoundLobby, Lobby
  <2> HIDE DEF due, bounty
  <2>2. QED
    BY <2>1
<1>5. given => lobby.ending \in RefundEndings
  BY <1>3 DEF refundDue
<1> HIDE DEF settled, given
<1>6. y \in SoundSeat /\ y.claimed = seat.claimed /\ y.refunded = given
  BY <1>3, <1>4 DEF SoundSeat, Seat
<1> HIDE DEF y
<1>7. seats \in [Players -> Seat]
  BY <1>3, <1>6, SeatsTyped
<1> HIDE DEF seats
<1>8. /\ x \in Lobby /\ x.seats = seats /\ x.epochId = lobby.epochId
      /\ x.status = lobby.status /\ x.ending = lobby.ending
  BY <1>3, <1>4, <1>7 DEF SoundLobby, Lobby, Wei
<1> HIDE DEF x
<1>9. Sound(store')
  <2>1. /\ y.claimed => store.lobbies[l].ending = "COMPLETED"
        /\ y.refunded => store.lobbies[l].ending \in RefundEndings
    BY <1>3, <1>5, <1>6 DEF lobby
  <2>2. /\ x.seats = [store.lobbies[l].seats EXCEPT ![w] = y]
        /\ x.status = store.lobbies[l].status /\ x.ending = store.lobbies[l].ending
        /\ x.epochId = store.lobbies[l].epochId
    BY <1>8 DEF lobby, seats
  <2>3. QED
    BY <1>1, <1>2, <1>6, <1>8, <2>1, <2>2, SeatWritten
<1>10. QED
  BY <1>2, <1>9, StepSound

-----------------------------------------------------------------------------
(* The invariant, and what follows from it.                                *)

LEMMA LifecycleSound ==
    ASSUME IInv, NEW l \in LobbyIds, Lifecycle(l)
    PROVE  IInv'
<1>1. CASE startOperation(l) \/ cancelLobby(l)
  BY <1>1, RoomActionsSound
<1>2. CASE unlockRound(l)
  <2>1. CASE UNCHANGED vars
    BY <2>1 DEF vars, IInv
  <2>2. CASE completeAttack(lobbyOf(l).epochId)
    <3>1. lobbyOf(l).epochId \in EpochIds
      BY LobbyOf DEF IInv, LobbyIds, Ids, lobbyOf
    <3>2. QED
      BY <2>2, <3>1, completeAttackSound
  <2>3. QED
    BY <1>2, <2>1, <2>2 DEF unlockRound
<1>3. QED
  BY <1>1, <1>2, expireAttackSound, settleCreatorSound, ScoredSound DEF Lifecycle

LEMMA SeatedSound ==
    ASSUME IInv, NEW l \in LobbyIds, NEW w \in Players, Seated(w, l)
    PROVE  IInv'
<1>1. ASSUME NEW count \in 1 .. store.params.maxProbesPerPlayer, buyProbes(w, l, count)
      PROVE  IInv'
  <2>1. store.params.maxProbesPerPlayer \in Nat
    BY StorageFields, ParamFields DEF IInv
  <2>2. count \in Nat
    BY <2>1
  <2>3. QED
    BY <1>1, <2>2, buyProbesSound
<1>2. CASE leaveLobby(w, l)
  BY <1>2, RoomActionsSound
<1>3. QED
  BY <1>1, <1>2, joinLobbySound, sendProbeSound, submitDefenseSound,
     claimRewardSound, claimRefundSound DEF Seated

LEMMA NextSound ==
    ASSUME IInv, [Next]_vars
    PROVE  IInv'
<1>1. CASE UNCHANGED vars
  BY <1>1 DEF vars, IInv
<1>2. CASE Tick
  BY <1>2 DEF Tick, IInv
<1>3. CASE Governance
  BY <1>3, GovernanceSound
<1>4. CASE openGlobalDefense
  BY <1>4, RoomActionsSound
<1>5. ASSUME NEW w \in Players, NEW config \in Configs, NEW d \in 0 .. MaxDeadline,
             createLobby(w, config, d)
      PROVE  IInv'
  <2>1. d \in Nat
    BY BoundsAssumption
  <2>2. QED
    BY <1>5, <2>1, createLobbySound
<1>6. ASSUME NEW e \in EpochIds, completeAttack(e) \/ revealEpochAttack(e)
      PROVE  IInv'
  BY <1>6, completeAttackSound, revealEpochAttackSound
<1>7. ASSUME NEW l \in LobbyIds, Lifecycle(l) \/ \E w \in Players : Seated(w, l)
      PROVE  IInv'
  BY <1>7, LifecycleSound, SeatedSound
<1>8. QED
  BY <1>1, <1>2, <1>3, <1>4, <1>5, <1>6, <1>7 DEF Next

THEOREM StorageStaysSound == Spec => []IInv
<1>1. Init => IInv
  BY InitSound
<1>2. IInv /\ [Next]_vars => IInv'
  BY NextSound
<1>3. QED
  BY <1>1, <1>2, PTL DEF Spec

LEMMA SoundIsTyped ==
    ASSUME IInv
    PROVE  TypeOK
<1>1. SoundLobby \subseteq Lobby /\ SoundAttack \subseteq Attack
  BY DEF SoundLobby, SoundAttack
<1>2. Seq(SoundLobby) \subseteq Seq(Lobby)
  BY <1>1, SeqMonotonic
<1>3. [EpochIds -> SoundAttack] \subseteq [EpochIds -> Attack]
  BY <1>1
<1>4. store \in GameStorage(store.balance)
  BY <1>2, <1>3 DEF IInv, Sound, SoundStorage, GameStorage
<1>5. QED
  BY <1>4 DEF TypeOK, IInv, Sound, Ids, LobbyIds

(* Every field of the storage keeps its type, and every reference from the *)
(* calendar of draws points at an operation that exists.                   *)
THEOREM StorageIsTyped == Spec => []TypeOK
<1>1. IInv => TypeOK
  BY SoundIsTyped
<1>2. QED
  BY <1>1, StorageStaysSound, PTL

(* An attack is published or it expires, never both; a team is paid only   *)
(* on a published attack and called off only on an expired one; and no     *)
(* seat is both paid and refunded.  For any number of teams, any batching  *)
(* of the proofs and any order of the calls.                               *)
THEOREM OneFateForEveryAttack == Spec => []OneFate
<1>1. ASSUME IInv PROVE OneFate
  <2> SUFFICES ASSUME NEW l \in LobbyIds
               PROVE  /\ ~(attackOf(l).revealed /\ attackOf(l).expired)
                      /\ lobbyOf(l).ending = "COMPLETED" =>
                            /\ attackOf(l).revealed
                            /\ \A w \in Players : ~lobbyOf(l).seats[w].refunded
                      /\ lobbyOf(l).ending = "CANCELLED" =>
                            /\ attackOf(l).expired
                            /\ \A w \in Players : ~lobbyOf(l).seats[w].claimed
    BY DEF OneFate
  <2>1. /\ lobbyOf(l) \in SoundLobby /\ attackOf(l) \in SoundAttack
        /\ Linked(lobbyOf(l), attackOf(l))
    BY <1>1, LobbyOf DEF IInv, LobbyIds, Ids, lobbyOf, attackOf
  <2>2. QED
    BY <2>1, LobbyFields DEF SoundAttack, Linked, OneStory, RefundEndings
<1>2. QED
  BY <1>1, StorageStaysSound, PTL

(* No defense is sent before the last probe of its sender has climbed, for *)
(* any number of probes and any price of them.                             *)
THEOREM AReadingCostsTime == Spec => []ReadingCostsTime
<1>1. ASSUME IInv PROVE ReadingCostsTime
  <2>1. ASSUME NEW l \in LobbyIds, NEW w \in Players
        PROVE  lobbyOf(l).seats[w] \in SoundSeat
    BY <1>1, SeatOf DEF IInv, LobbyIds, Ids, lobbyOf
  <2>2. QED
    BY <2>1 DEF ReadingCostsTime, SoundSeat
<1>2. QED
  BY <1>1, StorageStaysSound, PTL
=============================================================================
