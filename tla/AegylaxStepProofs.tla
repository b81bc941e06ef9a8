-------------------------- MODULE AegylaxStepProofs -------------------------
(***************************************************************************)
(* What one step of the contract can do to an operation and to an attack,  *)
(* for every set of players, every terms and every bound, and what follows *)
(* of the verdict, the crown, the tally of intercepted attacks, the life   *)
(* an operation leads and its money.                                       *)
(*                                                                         *)
(* A call runs several library operators in a row, each of them writing    *)
(* one operation, so the steps are described operation by operation: the   *)
(* few things that can happen to one are relations between the operation   *)
(* before and the operation after, and each operator gets a lemma that     *)
(* says which of them it does to whom.                                     *)
(***************************************************************************)
EXTENDS AegylaxProofs, AegylaxLife

SameTerms(x, y) ==
    /\ y.creator = x.creator /\ y.epochId = x.epochId
    /\ y.deadlineBlock = x.deadlineBlock /\ y.minPlayers = x.minPlayers

SameVerdict(x, y) ==
    y.resolvedAtBlock = x.resolvedAtBlock /\ y.rewardPerWinner = x.rewardPerWinner

(* A wallet's defense and its score.                                       *)
SameShot(p, q) ==
    /\ q.defendedAt = p.defendedAt /\ q.revealed = p.revealed
    /\ q.intercepted = p.intercepted /\ q.isWinner = p.isWinner

(* A wallet's membership and what it was paid.                             *)
SameMarks(p, q) ==
    q.joined = p.joined /\ q.claimed = p.claimed /\ q.refunded = p.refunded

SameRound(x, y) ==
    /\ SameTerms(x, y) /\ SameVerdict(x, y) /\ y.validActions = x.validActions
    /\ \A w \in Players : SameShot(x.seats[w], y.seats[w])

(* Sums of money moved, or nothing.                                        *)
Resting(x, y) ==
    /\ SameRound(x, y) /\ y.status = x.status /\ y.ending = x.ending
    /\ \A w \in Players : SameMarks(x.seats[w], y.seats[w])

(* A room that never filled, closed and paid back.                         *)
ClosedUnfilled(x, y) ==
    /\ SameRound(x, y)
    /\ x.status = "OPEN" /\ block >= x.deadlineBlock
    /\ y.status = "CANCELLED" /\ y.ending = "UNPLAYED"
    /\ \A w \in Players : /\ y.seats[w].joined = x.seats[w].joined
                          /\ y.seats[w].claimed = x.seats[w].claimed
                          /\ y.seats[w].refunded =>
                                x.seats[w].refunded \/ x.seats[w].joined

Kept(x, y) == Resting(x, y) \/ ClosedUnfilled(x, y)

(* A room as it is opened.                                                 *)
Fresh(y) ==
    /\ y.status = "OPEN" /\ y.ending = "NONE" /\ block < y.deadlineBlock
    /\ y.resolvedAtBlock = 0 /\ y.validActions = 0
    /\ \E p \in ParamSets : y.minPlayers >= p.minPlayers
    /\ \A w \in Players :
          /\ ~y.seats[w].joined /\ ~y.seats[w].claimed /\ ~y.seats[w].refunded
          /\ y.seats[w].defendedAt = 0
          /\ ~y.seats[w].revealed /\ ~y.seats[w].isWinner

(* Left as it was, or drawn where there was none.                          *)
Drawn(a, b) ==
    \/ b = a
    \/ /\ a.status = "NONE" /\ b.status = "PENDING"
       /\ ~b.decryptionUnlocked /\ ~b.intercepted /\ ~b.revealed /\ ~b.expired

(* What the draw's upkeep and a mint do to the storage.                    *)
Upkeep(s, t) ==
    /\ Ids(s) \subseteq Ids(t)
    /\ \A l \in Ids(s) : Kept(s.lobbies[l], t.lobbies[l])
    /\ \A l \in Ids(t) : l \notin Ids(s) =>
          Fresh(t.lobbies[l]) /\ t.attacks[t.lobbies[l].epochId].status # "NONE"
    /\ \A e \in EpochIds : Drawn(s.attacks[e], t.attacks[e])
    /\ t.interceptedAttacks = s.interceptedAttacks

(* A write that touches operation l alone.                                 *)
Beside(s, t, l) ==
    /\ Ids(t) = Ids(s) /\ t.attacks = s.attacks
    /\ t.interceptedAttacks = s.interceptedAttacks
    /\ t.globalDefenseLobby = s.globalDefenseLobby
    /\ \A m \in Ids(s) : m # l => t.lobbies[m] = s.lobbies[m]

(* The start of epoch e, by rules that were once in force.                 *)
OnGrid(e, start) == \E p \in ParamSets : start = epochStart(e, p.epochBlocks, Genesis)

(* An attack of epoch e, by such rules: it is an epoch in flight.          *)
Flies(e, a) ==
    \E p \in ParamSets :
        /\ a.launchBlock = epochStart(e, p.epochBlocks, Genesis)
        /\ a.impactBlock = a.launchBlock + p.epochBlocks

(* A draw of epoch e: applications close one block before it flies.        *)
BookedFor(y, e) ==
    /\ y.creator = Game /\ y.epochId = e
    /\ OnGrid(e, y.deadlineBlock + 1)

(* An attack that is drawn flies at the start of its epoch, an epoch is    *)
(* booked once and for a new room, and every new draw is booked.           *)
Calendar(s, t) ==
    /\ \A e \in EpochIds :
          s.attacks[e].status = "NONE" /\ t.attacks[e].status # "NONE" =>
              Flies(e, t.attacks[e])
    /\ \A e \in EpochIds :
          \/ t.globalDefenseLobby[e] = s.globalDefenseLobby[e]
          \/ /\ s.globalDefenseLobby[e] = 0
             /\ t.globalDefenseLobby[e] \in Ids(t) /\ t.globalDefenseLobby[e] \notin Ids(s)
             /\ BookedFor(t.lobbies[t.globalDefenseLobby[e]], e)
    /\ \A l \in Ids(t) : l \notin Ids(s) /\ t.lobbies[l].creator = Game =>
          t.globalDefenseLobby[t.lobbies[l].epochId] = l

(* No attack was drawn, and no room booked.                                *)
Unbooked(s, t) ==
    /\ t.globalDefenseLobby = s.globalDefenseLobby
    /\ \A e \in EpochIds : t.attacks[e].status = "NONE" \/ s.attacks[e].status # "NONE"

-----------------------------------------------------------------------------
(* The relations compose.                                                  *)

LEMMA RestingReflexive == \A x : Resting(x, x)
BY DEF Resting, SameRound, SameTerms, SameVerdict, SameShot, SameMarks

LEMMA RestingThenResting ==
    ASSUME NEW x, NEW y, NEW z, Resting(x, y), Resting(y, z)
    PROVE  Resting(x, z)
BY DEF Resting, SameRound, SameTerms, SameVerdict, SameShot, SameMarks

LEMMA KeptThenKept ==
    ASSUME NEW x, NEW y, NEW z, Kept(x, y), Kept(y, z)
    PROVE  Kept(x, z)
<1>1. CASE Resting(x, y) /\ Resting(y, z)
  BY <1>1, RestingThenResting DEF Kept
<1>2. CASE ClosedUnfilled(x, y) /\ Resting(y, z)
  BY <1>2 DEF Kept, ClosedUnfilled, Resting, SameRound, SameTerms, SameVerdict,
              SameShot, SameMarks
<1>3. CASE Resting(x, y) /\ ClosedUnfilled(y, z)
  BY <1>3 DEF Kept, ClosedUnfilled, Resting, SameRound, SameTerms, SameVerdict,
              SameShot, SameMarks
<1>4. CASE ClosedUnfilled(x, y) /\ ClosedUnfilled(y, z)
  BY <1>4 DEF ClosedUnfilled
<1>5. QED
  BY <1>1, <1>2, <1>3, <1>4 DEF Kept

LEMMA FreshThenKept ==
    ASSUME NEW x \in SoundLobby, NEW y, Fresh(x), Kept(x, y), block \in Nat
    PROVE  Fresh(y)
<1>1. ~(block >= x.deadlineBlock)
  BY LobbyFields DEF Fresh
<1>2. Resting(x, y)
  BY <1>1 DEF Kept, ClosedUnfilled
<1>3. QED
  BY <1>2 DEF Fresh, Resting, SameRound, SameTerms, SameVerdict, SameShot, SameMarks

LEMMA UpkeepReflexive ==
    ASSUME NEW s
    PROVE  Upkeep(s, s)
BY RestingReflexive DEF Upkeep, Kept, Drawn

LEMMA UpkeepThenUpkeep ==
    ASSUME NEW s, NEW t, NEW u, Sound(s), Sound(t), Sound(u), block \in Nat,
           Upkeep(s, t), Upkeep(t, u)
    PROVE  Upkeep(s, u)
<1>1. ASSUME NEW l \in Ids(s)
      PROVE  Kept(s.lobbies[l], u.lobbies[l])
  <2>1. l \in Ids(t)
    BY DEF Upkeep
  <2>2. Kept(s.lobbies[l], t.lobbies[l]) /\ Kept(t.lobbies[l], u.lobbies[l])
    BY <2>1 DEF Upkeep
  <2>3. QED
    BY <2>2, KeptThenKept
<1>2. ASSUME NEW e \in EpochIds
      PROVE  Drawn(s.attacks[e], u.attacks[e])
  <2>1. Drawn(s.attacks[e], t.attacks[e]) /\ Drawn(t.attacks[e], u.attacks[e])
    BY DEF Upkeep
  <2>2. QED
    BY <2>1 DEF Drawn
<1>3. ASSUME NEW l \in Ids(u), l \notin Ids(s)
      PROVE  Fresh(u.lobbies[l]) /\ u.attacks[u.lobbies[l].epochId].status # "NONE"
  <2>1. CASE l \notin Ids(t)
    BY <2>1 DEF Upkeep
  <2>2. CASE l \in Ids(t)
    <3>1. /\ Fresh(t.lobbies[l]) /\ t.attacks[t.lobbies[l].epochId].status # "NONE"
          /\ Kept(t.lobbies[l], u.lobbies[l])
      BY <1>3, <2>2 DEF Upkeep
    <3>2. t.lobbies[l] \in SoundLobby /\ t.lobbies[l].epochId \in EpochIds
      BY <2>2, LobbyOf
    <3>3. Fresh(u.lobbies[l])
      BY <3>1, <3>2, FreshThenKept
    <3>4. u.lobbies[l].epochId = t.lobbies[l].epochId
      BY <3>1 DEF Kept, Resting, ClosedUnfilled, SameRound, SameTerms
    <3>5. Drawn(t.attacks[t.lobbies[l].epochId], u.attacks[t.lobbies[l].epochId])
      BY <3>2 DEF Upkeep
    <3>6. QED
      BY <3>1, <3>3, <3>4, <3>5 DEF Drawn
  <2>3. QED
    BY <2>1, <2>2
<1>4. QED
  BY <1>1, <1>2, <1>3 DEF Upkeep

(* A write to one operation that keeps it, and every other one.            *)
LEMMA BesideIsUpkeep ==
    ASSUME NEW s, NEW t, NEW l \in Ids(s), Beside(s, t, l),
           Kept(s.lobbies[l], t.lobbies[l])
    PROVE  Upkeep(s, t)
<1>1. ASSUME NEW m \in Ids(s) PROVE Kept(s.lobbies[m], t.lobbies[m])
  BY RestingReflexive DEF Beside, Kept
<1>2. QED
  BY <1>1 DEF Upkeep, Beside, Drawn

LEMMA CalendarStands ==
    ASSUME NEW s, NEW t, Ids(t) = Ids(s), Unbooked(s, t)
    PROVE  Calendar(s, t)
BY DEF Calendar, Unbooked

LEMMA BesideCalendar ==
    ASSUME NEW s, NEW t, NEW l, Beside(s, t, l)
    PROVE  Calendar(s, t)
BY DEF Calendar, Beside

LEMMA CalendarThenCalendar ==
    ASSUME NEW s, NEW t, NEW u, Sound(t), Ids(s) \subseteq Ids(t), Ids(t) \subseteq Ids(u),
           Calendar(s, t), Calendar(t, u),
           \A l \in Ids(t) : l \notin Ids(s) => SameTerms(t.lobbies[l], u.lobbies[l]),
           \A e \in EpochIds : t.attacks[e].status # "NONE" =>
               /\ u.attacks[e].launchBlock = t.attacks[e].launchBlock
               /\ u.attacks[e].impactBlock = t.attacks[e].impactBlock
    PROVE  Calendar(s, u)
<1>1. ASSUME NEW e \in EpochIds, s.attacks[e].status = "NONE", u.attacks[e].status # "NONE"
      PROVE  Flies(e, u.attacks[e])
  BY <1>1 DEF Calendar, Flies
<1>2. ASSUME NEW l \in Ids(t)
      PROVE  l # 0
  BY StorageFields DEF Ids
<1>3. ASSUME NEW e \in EpochIds
      PROVE  \/ u.globalDefenseLobby[e] = s.globalDefenseLobby[e]
             \/ /\ s.globalDefenseLobby[e] = 0
                /\ u.globalDefenseLobby[e] \in Ids(u)
                /\ u.globalDefenseLobby[e] \notin Ids(s)
                /\ BookedFor(u.lobbies[u.globalDefenseLobby[e]], e)
  <2> DEFINE l == t.globalDefenseLobby[e]
  <2>1. CASE l = s.globalDefenseLobby[e]
    BY <2>1 DEF Calendar
  <2>2. CASE l # s.globalDefenseLobby[e]
    <3>1. /\ s.globalDefenseLobby[e] = 0 /\ l \in Ids(t) /\ l \notin Ids(s)
          /\ BookedFor(t.lobbies[l], e)
      BY <2>2 DEF Calendar
    <3>2. u.globalDefenseLobby[e] = l
      BY <1>2, <3>1 DEF Calendar
    <3>3. BookedFor(u.lobbies[l], e)
      BY <3>1 DEF BookedFor, SameTerms
    <3>4. QED
      BY <3>1, <3>2, <3>3
  <2>3. QED
    BY <2>1, <2>2
<1>4. ASSUME NEW l \in Ids(u), l \notin Ids(s), u.lobbies[l].creator = Game
      PROVE  u.globalDefenseLobby[u.lobbies[l].epochId] = l
  <2>1. CASE l \notin Ids(t)
    BY <1>4, <2>1 DEF Calendar
  <2>2. CASE l \in Ids(t)
    <3>1. /\ t.lobbies[l].creator = Game /\ t.lobbies[l].epochId = u.lobbies[l].epochId
          /\ t.lobbies[l].epochId \in EpochIds
      BY <1>4, <2>2, LobbyOf DEF SameTerms
    <3>2. t.globalDefenseLobby[t.lobbies[l].epochId] = l
      BY <1>4, <2>2, <3>1 DEF Calendar
    <3>3. QED
      BY <1>2, <2>2, <3>1, <3>2 DEF Calendar
  <2>3. QED
    BY <2>1, <2>2
<1>5. QED
  BY <1>1, <1>3, <1>4 DEF Calendar

LEMMA KeptKeepsTerms ==
    ASSUME NEW x, NEW y, Kept(x, y)
    PROVE  SameTerms(x, y)
BY DEF Kept, Resting, ClosedUnfilled, SameRound

LEMMA UpkeepThenCalendar ==
    ASSUME NEW s, NEW t, NEW u, Sound(t), Upkeep(s, t), Upkeep(t, u),
           Calendar(s, t), Calendar(t, u)
    PROVE  Calendar(s, u)
<1>1. \A l \in Ids(t) : SameTerms(t.lobbies[l], u.lobbies[l])
  BY KeptKeepsTerms DEF Upkeep
<1>2. \A e \in EpochIds : t.attacks[e].status # "NONE" =>
          /\ u.attacks[e].launchBlock = t.attacks[e].launchBlock
          /\ u.attacks[e].impactBlock = t.attacks[e].impactBlock
  BY DEF Upkeep, Drawn
<1>3. Ids(s) \subseteq Ids(t) /\ Ids(t) \subseteq Ids(u)
  BY DEF Upkeep
<1>4. QED
  BY <1>1, <1>2, <1>3, CalendarThenCalendar

(* The shape of a write to one operation.                                  *)
LEMMA WithLobbyBeside ==
    ASSUME NEW s, Sound(s), NEW l \in Ids(s), NEW x, NEW pool, NEW balance, NEW active
    PROVE  /\ Beside(s, withLobby(s, l, x, pool, balance, active), l)
           /\ withLobby(s, l, x, pool, balance, active).lobbies[l] = x
<1> DEFINE rooms == [s.lobbies EXCEPT ![l] = x]
           t == withLobby(s, l, x, pool, balance, active)
<1>1. s.lobbies \in Seq(SoundLobby) /\ l \in 1 .. Len(s.lobbies)
  BY StorageFields DEF Ids
<1>2. /\ Len(rooms) = Len(s.lobbies) /\ rooms[l] = x
      /\ \A m \in 1 .. Len(s.lobbies) : m # l => rooms[m] = s.lobbies[m]
  BY <1>1
<1>3. /\ t.lobbies = rooms /\ t.attacks = s.attacks
      /\ t.interceptedAttacks = s.interceptedAttacks
      /\ t.globalDefenseLobby = s.globalDefenseLobby
  BY DEF withLobby, Sound, SoundStorage
<1> HIDE DEF rooms, t
<1>4. Beside(s, t, l) /\ t.lobbies[l] = x
  BY <1>2, <1>3 DEF Beside, Ids
<1>5. QED
  BY <1>4 DEF t

LEMMA BesideThenBeside ==
    ASSUME NEW s, NEW t, NEW u, NEW l, Beside(s, t, l), Beside(t, u, l)
    PROVE  Beside(s, u, l)
BY DEF Beside

-----------------------------------------------------------------------------
(* Closing a room, and topping up a draw.                                  *)

paidBack(lobby) ==
    [lobby EXCEPT
        !.creatorSettled = TRUE,
        !.seats = [w \in Players |->
                      IF w \in unpaid(lobby)
                      THEN [lobby.seats[w] EXCEPT !.refunded = TRUE]
                      ELSE lobby.seats[w]]]

LEMMA payoutUnplayedShape ==
    ASSUME NEW s, Sound(s), NEW l \in Ids(s)
    PROVE  \E pool, left :
              payoutUnplayed(s, l)
                  = withLobby(s, l, paidBack(s.lobbies[l]), pool, left, s.activeLobbies)
<1> DEFINE lobby == s.lobbies[l]
           bounty == IF lobby.creatorSettled THEN 0 ELSE lobby.startPrizePool
           home == lobby.creator = Game
           pool == IF home THEN s.globalDefensePool + bounty ELSE s.globalDefensePool
           left == s.balance - paidInBy(lobby, unpaid(lobby)) - IF home THEN 0 ELSE bounty
<1>1. payoutUnplayed(s, l)
        = withLobby(s, l, paidBack(lobby), pool, left, s.activeLobbies)
  BY DEF payoutUnplayed, paidBack, withLobby, Sound, SoundStorage
<1> HIDE DEF pool, left
<1>2. QED
  BY <1>1

(* One seat paid back: what it keeps.                                      *)
LEMMA SeatRefundKeeps ==
    ASSUME NEW y \in Seat
    PROVE  LET z == [y EXCEPT !.refunded = TRUE] IN
           /\ SameShot(y, z)
           /\ z.joined = y.joined /\ z.claimed = y.claimed
BY DEF Seat, SameShot

LEMMA closeUnfilledCloses ==
    ASSUME NEW s, Sound(s), NEW l \in Ids(s), s.lobbies[l].status = "OPEN"
    PROVE  LET t == closeUnfilled(s, l)
               x == s.lobbies[l]
               y == t.lobbies[l]
           IN  /\ Beside(s, t, l) /\ SameRound(x, y)
               /\ y.status = "CANCELLED" /\ y.ending = "UNPLAYED"
               /\ \A w \in Players :
                     /\ y.seats[w].joined = x.seats[w].joined
                     /\ y.seats[w].claimed = x.seats[w].claimed
                     /\ y.seats[w].refunded => x.seats[w].refunded \/ x.seats[w].joined
<1> DEFINE lobby == s.lobbies[l]
           x == [lobby EXCEPT !.status = "CANCELLED", !.ending = "UNPLAYED"]
           active == oneFewer(s.activeLobbies)
           ended == withLobby(s, l, x, s.globalDefensePool, s.balance, active)
           t == closeUnfilled(s, l)
           y == paidBack(x)
<1>1. lobby \in SoundLobby /\ lobby.ending = "NONE"
  BY LobbyOf, LobbyFields DEF OneStory
<1>2. t = payoutUnplayed(ended, l)
  <2>1. [s EXCEPT !.lobbies[l] = x,
                  !.activeLobbies = oneFewer(s.activeLobbies)] = ended
    BY StorageFields DEF withLobby, Ids, Sound, SoundStorage
  <2>2. QED
    BY <2>1 DEF closeUnfilled
<1>3. Beside(s, ended, l) /\ ended.lobbies[l] = x
  BY WithLobbyBeside
<1> HIDE DEF lobby
<1>4. /\ x \in Lobby /\ x.seats = lobby.seats
      /\ x.status = "CANCELLED" /\ x.ending = "UNPLAYED"
      /\ SameTerms(lobby, x) /\ SameVerdict(lobby, x)
      /\ x.validActions = lobby.validActions /\ x.epochId = lobby.epochId
  BY <1>1 DEF SoundLobby, Lobby, LobbyStatus, Endings, SameTerms, SameVerdict
<1> HIDE DEF x
<1>5. x \in SoundLobby
  BY <1>1, <1>4, LobbyFields, EndedStory DEF RefundEndings
<1>6. Sound(ended) /\ Ids(ended) = Ids(s)
  <2>1. s.globalDefensePool \in Int /\ active \in Nat
    BY StorageFields, oneFewerType
  <2>2. x.epochId = s.lobbies[l].epochId /\ Linked(x, s.attacks[x.epochId])
    BY <1>4 DEF lobby, Linked
  <2> HIDE DEF active
  <2>3. QED
    BY <1>5, <2>1, <2>2, LobbyReplaced
<1> HIDE DEF ended, t
<1>7. Beside(ended, t, l) /\ t.lobbies[l] = y
  <2>1. PICK pool, left : t = withLobby(ended, l, paidBack(x), pool, left, ended.activeLobbies)
    BY <1>2, <1>3, <1>6, payoutUnplayedShape
  <2>2. QED
    BY <1>6, <2>1, WithLobbyBeside
<1>8. \A w \in Players :
          /\ y.seats[w].joined = x.seats[w].joined
          /\ y.seats[w].claimed = x.seats[w].claimed
          /\ y.seats[w].refunded => x.seats[w].refunded \/ x.seats[w].joined
          /\ SameShot(x.seats[w], y.seats[w])
  <2> SUFFICES ASSUME NEW w \in Players
               PROVE  /\ y.seats[w].joined = x.seats[w].joined
                      /\ y.seats[w].claimed = x.seats[w].claimed
                      /\ y.seats[w].refunded => x.seats[w].refunded \/ x.seats[w].joined
                      /\ SameShot(x.seats[w], y.seats[w])
    OBVIOUS
  <2>1. x.seats[w] \in Seat
    BY <1>5, LobbyFields
  <2>2. y.seats[w] = IF w \in unpaid(x) THEN [x.seats[w] EXCEPT !.refunded = TRUE]
                     ELSE x.seats[w]
    BY <1>4 DEF paidBack, Lobby
  <2>3. CASE w \in unpaid(x)
    <3>1. x.seats[w].joined
      BY <2>3 DEF unpaid, Joined
    <3>2. QED
      BY <2>1, <2>2, <2>3, <3>1, SeatRefundKeeps
  <2>4. CASE w \notin unpaid(x)
    BY <2>2, <2>4 DEF SameShot
  <2>5. QED
    BY <2>3, <2>4
<1>9. /\ SameTerms(x, y) /\ SameVerdict(x, y) /\ y.validActions = x.validActions
      /\ y.status = x.status /\ y.ending = x.ending
  BY <1>4 DEF paidBack, Lobby, SameTerms, SameVerdict
<1>10. Beside(s, t, l)
  BY <1>3, <1>7, BesideThenBeside
<1> HIDE DEF y
<1>11. SameRound(lobby, y)
  BY <1>4, <1>8, <1>9 DEF SameRound, SameTerms, SameVerdict
<1>12. QED
  BY <1>4, <1>7, <1>8, <1>9, <1>10, <1>11 DEF t, lobby

LEMMA closeUnfilledUpkeep ==
    ASSUME NEW s, Sound(s), NEW l \in Ids(s), s.lobbies[l].status = "OPEN",
           block >= s.lobbies[l].deadlineBlock
    PROVE  Upkeep(s, closeUnfilled(s, l)) /\ Calendar(s, closeUnfilled(s, l))
<1> DEFINE t == closeUnfilled(s, l)
<1>1. Beside(s, t, l) /\ ClosedUnfilled(s.lobbies[l], t.lobbies[l])
  BY closeUnfilledCloses DEF ClosedUnfilled
<1>2. QED
  BY <1>1, BesideIsUpkeep, BesideCalendar DEF Kept

LEMMA maybeCloseDrawUpkeep ==
    ASSUME NEW s, Sound(s), block \in Nat
    PROVE  Upkeep(s, maybeCloseDraw(s)) /\ Calendar(s, maybeCloseDraw(s))
<1>1. \/ unfilledPastDraw(s) = 0
      \/ /\ unfilledPastDraw(s) \in Ids(s)
         /\ s.lobbies[unfilledPastDraw(s)].status = "OPEN"
         /\ block >= s.lobbies[unfilledPastDraw(s)].deadlineBlock
  BY epochNowFacts DEF unfilledPastDraw, Sound
<1>2. QED
  BY <1>1, closeUnfilledUpkeep, UpkeepReflexive, CalendarStands
      DEF maybeCloseDraw, Unbooked

(* Sums added to a bounty.                                                 *)
LEMMA addToBountyResting ==
    ASSUME NEW x \in SoundLobby, NEW amount
    PROVE  Resting(x, addToBounty(x, amount))
<1> DEFINE pool == x.rewardPool + amount
           bounty == x.startPrizePool + amount
           y == [x EXCEPT !.rewardPool = pool, !.startPrizePool = bounty]
<1>1. addToBounty(x, amount) = y
  BY DEF addToBounty
<1> HIDE DEF pool, bounty
<1>2. /\ y.seats = x.seats /\ y.status = x.status /\ y.ending = x.ending
      /\ y.validActions = x.validActions /\ SameTerms(x, y) /\ SameVerdict(x, y)
  BY DEF SoundLobby, Lobby, SameTerms, SameVerdict
<1> HIDE DEF y
<1>3. Resting(x, y)
  BY <1>2 DEF Resting, SameRound, SameShot, SameMarks
<1>4. QED
  BY <1>1, <1>3

LEMMA topUpDrawUpkeep ==
    ASSUME NEW s, Sound(s), block \in Nat,
           s.interval # 0 /\ s.globalDefensePool # 0 => drawEpoch(s) < U32
    PROVE  Upkeep(s, topUpDraw(s)) /\ Calendar(s, topUpDraw(s))
<1> DEFINE l == unlaunchedDraw(s)
           extra == s.globalDefensePool
           x == addToBounty(s.lobbies[l], extra)
<1>1. CASE topUpDraw(s) = s
  BY <1>1, UpkeepReflexive, CalendarStands DEF Unbooked
<1>2. CASE topUpDraw(s) # s
  <2>1. extra # 0 /\ l # 0
    BY <1>2 DEF topUpDraw
  <2>2. l \in Ids(s)
    <3>1. s.interval # 0
      BY <2>1 DEF unlaunchedDraw
    <3>2. drawEpoch(s) \in EpochIds
      BY <2>1, <3>1, epochNowFacts, U32Assumption DEF EpochIds
    <3>3. QED
      BY <2>1, <3>1, <3>2 DEF unlaunchedDraw, Sound
  <2>3. topUpDraw(s) = withLobby(s, l, x, 0, s.balance, s.activeLobbies)
    BY <1>2 DEF topUpDraw, withLobby, Sound, SoundStorage
  <2>4. s.lobbies[l] \in SoundLobby
    BY <2>2, LobbyOf
  <2>5. Resting(s.lobbies[l], x)
    BY <2>4, addToBountyResting
  <2> HIDE DEF l, x
  <2>6. Beside(s, topUpDraw(s), l) /\ topUpDraw(s).lobbies[l] = x
    BY <2>2, <2>3, WithLobbyBeside
  <2>7. QED
    BY <2>2, <2>5, <2>6, BesideIsUpkeep, BesideCalendar DEF Kept
<1>3. QED
  BY <1>1, <1>2

-----------------------------------------------------------------------------
(* Opening a room.                                                         *)

LEMMA ensureEpochAttackDraws ==
    ASSUME NEW s, Sound(s), NEW e \in EpochIds
    PROVE  LET t == ensureEpochAttack(s, e) IN
           /\ \A f \in EpochIds : Drawn(s.attacks[f], t.attacks[f])
           /\ t.attacks[e].status # "NONE"
           /\ t.lobbies = s.lobbies /\ t.interceptedAttacks = s.interceptedAttacks
           /\ t.globalDefenseLobby = s.globalDefenseLobby
           /\ \A f \in EpochIds :
                 s.attacks[f].status = "NONE" /\ t.attacks[f].status # "NONE" =>
                     Flies(f, t.attacks[f])
<1> DEFINE start == epochStart(e, s.params.epochBlocks, Genesis)
           a == [NoAttack EXCEPT !.status = "PENDING",
                                 !.launchBlock = start,
                                 !.impactBlock = start + s.params.epochBlocks,
                                 !.graceBlocks = s.params.revealGraceBlocks]
           t == ensureEpochAttack(s, e)
<1>1. CASE s.attacks[e].status # "NONE"
  BY <1>1 DEF ensureEpochAttack, Drawn
<1>2. CASE s.attacks[e].status = "NONE"
  <2>1. t = withAttack(s, e, a, s.interceptedAttacks)
    BY <1>2 DEF ensureEpochAttack, withAttack, Sound, SoundStorage
  <2>2. /\ a.status = "PENDING" /\ ~a.decryptionUnlocked /\ ~a.intercepted
        /\ ~a.revealed /\ ~a.expired /\ a.launchBlock = start
        /\ a.impactBlock = start + s.params.epochBlocks
    BY DEF NoAttack
  <2>3. Flies(e, a)
    <3>1. s.params \in ParamSets
      BY StorageFields
    <3> HIDE DEF a
    <3>2. QED
      BY <2>2, <3>1 DEF Flies
  <2> HIDE DEF a, t, start
  <2>4. /\ t.lobbies = s.lobbies /\ t.interceptedAttacks = s.interceptedAttacks
        /\ t.globalDefenseLobby = s.globalDefenseLobby
        /\ \A f \in EpochIds : t.attacks[f] = IF f = e THEN a ELSE s.attacks[f]
    BY <2>1, StorageFields DEF withAttack, Sound, SoundStorage
  <2>5. QED
    BY <1>2, <2>2, <2>3, <2>4 DEF Drawn, t
<1>3. QED
  BY <1>1, <1>2

LEMMA newLobbyFresh ==
    ASSUME NEW s, Sound(s), NEW config, NEW d, NEW creator, block < d,
           config.minPlayers >= s.params.minPlayers
    PROVE  Fresh(newLobby(s, config, d, creator))
<1> DEFINE y == newLobby(s, config, d, creator)
<1>1. /\ y.status = "OPEN" /\ y.ending = "NONE" /\ y.deadlineBlock = d
      /\ y.resolvedAtBlock = 0 /\ y.validActions = 0
      /\ y.minPlayers = config.minPlayers
      /\ y.seats = [w \in Players |-> EmptySeat]
  BY DEF newLobby
<1>2. s.params \in ParamSets
  BY StorageFields
<1> HIDE DEF y
<1>3. Fresh(y)
  BY <1>1, <1>2 DEF Fresh, EmptySeat
<1>4. QED
  BY <1>3 DEF y

LEMMA mintLobbyUpkeep ==
    ASSUME NEW s, Sound(s), NEW config \in LobbyConfig, NEW d \in Nat,
           NEW creator \in Players \cup {Game}, mintFits(s, d), block < d,
           config.minPlayers >= s.params.minPlayers
    PROVE  LET t == mintLobby(s, config, d, creator) IN
           /\ Upkeep(s, t)
           /\ t.globalDefenseLobby = s.globalDefenseLobby
           /\ \A e \in EpochIds :
                 s.attacks[e].status = "NONE" /\ t.attacks[e].status # "NONE" =>
                     Flies(e, t.attacks[e])
           /\ Ids(t) = Ids(s) \cup {Len(s.lobbies) + 1}
           /\ t.lobbies[Len(s.lobbies) + 1] = newLobby(s, config, d, creator)
<1> DEFINE x == newLobby(s, config, d, creator)
           e == launchEpoch(s, creator, d)
           drawn == ensureEpochAttack(s, e)
           t == mintLobby(s, config, d, creator)
           n == Len(s.lobbies)
<1>1. e \in EpochIds /\ x.epochId = e
  BY newLobbySound DEF newLobby
<1>2. /\ \A f \in EpochIds : Drawn(s.attacks[f], drawn.attacks[f])
      /\ drawn.attacks[e].status # "NONE"
      /\ drawn.lobbies = s.lobbies /\ drawn.interceptedAttacks = s.interceptedAttacks
      /\ drawn.globalDefenseLobby = s.globalDefenseLobby
      /\ \A f \in EpochIds :
            s.attacks[f].status = "NONE" /\ drawn.attacks[f].status # "NONE" =>
                Flies(f, drawn.attacks[f])
  BY <1>1, ensureEpochAttackDraws
<1>3. Fresh(x)
  BY newLobbyFresh
<1>4. Sound(drawn)
  BY <1>1, ensureEpochAttackSound
<1> HIDE DEF drawn, x, e
<1>5. /\ t.lobbies = Append(s.lobbies, x) /\ t.attacks = drawn.attacks
      /\ t.interceptedAttacks = s.interceptedAttacks
      /\ t.globalDefenseLobby = s.globalDefenseLobby
  BY <1>2, <1>4 DEF mintLobby, Sound, SoundStorage, drawn, x, e
<1> HIDE DEF t
<1>6. /\ n \in Nat /\ Len(t.lobbies) = n + 1
      /\ \A m \in Ids(s) : t.lobbies[m] = s.lobbies[m]
      /\ t.lobbies[n + 1] = x
  <2>1. s.lobbies \in Seq(SoundLobby)
    BY StorageFields
  <2>2. x \in SoundLobby
    BY newLobbySound DEF x
  <2>3. QED
    BY <1>5, <2>1, <2>2, AppendProperties DEF Ids
<1>7. Ids(t) = Ids(s) \cup {n + 1}
  BY <1>6 DEF Ids
<1>8. /\ Ids(s) \subseteq Ids(t)
      /\ \A l \in Ids(s) : Kept(s.lobbies[l], t.lobbies[l])
  BY <1>6, <1>7, RestingReflexive DEF Kept
<1>9. \A l \in Ids(t) : l \notin Ids(s) =>
          Fresh(t.lobbies[l]) /\ t.attacks[t.lobbies[l].epochId].status # "NONE"
  BY <1>1, <1>2, <1>3, <1>5, <1>6, <1>7 DEF x, e
<1>10. Upkeep(s, t)
  BY <1>2, <1>5, <1>8, <1>9 DEF Upkeep
<1>11. QED
  BY <1>2, <1>5, <1>6, <1>7, <1>10 DEF t, x

(* A player's operation books no draw.                                     *)
LEMMA mintLobbyCalendar ==
    ASSUME NEW s, Sound(s), NEW config \in LobbyConfig, NEW d \in Nat,
           NEW w \in Players, mintFits(s, d), block < d,
           config.minPlayers >= s.params.minPlayers
    PROVE  Calendar(s, mintLobby(s, config, d, w))
<1>1. newLobby(s, config, d, w).creator # Game
  BY PlayersAssumption DEF newLobby
<1>2. QED
  BY <1>1, mintLobbyUpkeep DEF Calendar

(* A draw closes one block before its epoch starts, so that is the epoch   *)
(* it flies in, and its number fits when the epoch's does.                 *)
LEMMA drawFlies ==
    ASSUME NEW s, Sound(s), block \in Nat, s.interval # 0, drawEpoch(s) < U32
    PROVE  /\ mintFits(s, drawDeadline(s))
           /\ launchEpoch(s, Game, drawDeadline(s)) = drawEpoch(s)
           /\ drawEpoch(s) \in EpochIds
           /\ OnGrid(drawEpoch(s), drawDeadline(s) + 1)
<1> DEFINE n == s.params.epochBlocks
           d == drawEpoch(s)
           b == drawDeadline(s)
<1>1. n \in Nat \ {0} /\ Genesis \in Nat /\ s.interval \in Nat \ {0} /\ b \in Nat
  BY epochNowFacts
<1>2. d \in Nat \ {0}
  BY <1>1, DrawEpochTypes DEF drawEpoch
<1>3. b = Genesis + d * n - 1 /\ d < U32 /\ OnGrid(d, b + 1)
  <2>1. b = epochStart(d, n, Genesis) - 1
    BY DEF drawDeadline
  <2>2. d < U32
    OBVIOUS
  <2>3. epochStart(d, n, Genesis) \in Nat
    BY <1>1, <1>2, epochStartType
  <2>4. s.params \in ParamSets
    BY StorageFields
  <2> HIDE DEF b, d
  <2>5. OnGrid(d, b + 1)
    <3>1. b + 1 = epochStart(d, n, Genesis)
      <4> HIDE DEF n
      <4>1. QED
        BY <2>1, <2>3
    <3>2. QED
      BY <2>4, <3>1 DEF OnGrid
  <2> HIDE DEF n
  <2>6. QED
    BY <1>1, <1>2, <2>1, <2>2, <2>5 DEF epochStart
<1>4. epochOf(b, n, Genesis) = IF b < Genesis THEN 0 ELSE ((b - Genesis) \div n) % U32
  BY <1>1 DEF epochOf
<1>5. /\ mintFits(s, b) <=> epochOf(b, n, Genesis) + 1 < U32
      /\ launchEpoch(s, Game, b) = epochOf(b, n, Genesis) + 1
  BY DEF mintFits, launchEpochFits, launchEpoch
<1> HIDE DEF n, d, b
<1>6. d * n \in Nat /\ (d - 1) * n = d * n - n /\ d - 1 \in Nat /\ d * n >= n
  <2>1. d * n \in Nat /\ (d - 1) * n = d * n - n /\ d - 1 \in Nat
    BY <1>1, <1>2
  <2>2. (d - 1) * n \in Nat
    BY <1>1, <2>1, ProductsOfNats
  <2>3. QED
    BY <1>1, <2>1, <2>2
<1> DEFINE a == b - Genesis
           q == a \div n
<1>7. a \in Nat /\ a = d * n - 1
  BY <1>1, <1>3, <1>6
<1> HIDE DEF a
<1>8. q \in Nat /\ q * n <= a /\ a < q * n + n
  BY <1>1, <1>7, DivFacts
<1>9. epochOf(b, n, Genesis) = q % U32
  BY <1>1, <1>4, <1>7 DEF a
<1> HIDE DEF q
<1>10. q + 1 = d
  <2>1. q * n < d * n /\ (d - 1) * n < (q + 1) * n
    <3>1. (q + 1) * n = q * n + n /\ q * n \in Nat
      BY <1>1, <1>8
    <3>2. QED
      BY <1>1, <1>6, <1>7, <1>8, <3>1
  <2>2. q < d /\ d - 1 < q + 1
    BY <1>1, <1>2, <1>6, <1>8, <2>1, ProductsOrder
  <2>3. QED
    BY <1>2, <1>8, <2>2
<1>11. q % U32 = q
  BY <1>2, <1>3, <1>8, <1>10, ModFacts, U32Assumption
<1>12. epochOf(b, n, Genesis) + 1 = d /\ d \in EpochIds
  BY <1>2, <1>3, <1>8, <1>9, <1>10, <1>11, U32Assumption DEF EpochIds
<1>13. QED
  BY <1>3, <1>5, <1>12 DEF b, d

LEMMA openDrawUpkeep ==
    ASSUME NEW s, Sound(s), block \in Nat, openDrawOK(s)
    PROVE  Upkeep(s, openDraw(s)) /\ Calendar(s, openDraw(s))
<1> DEFINE config == [ minPlayers |-> s.params.minPlayers,
                       maxPlayers |-> s.params.maxPlayers, entryPrice |-> 0,
                       startPrizePool |-> 0, creatorFeeBps |-> 0 ]
           t == mintLobby(s, config, drawDeadline(s), Game)
           u == openDraw(s)
<1>1. config \in LobbyConfig /\ config.minPlayers >= s.params.minPlayers
  <2>1. s.params.minPlayers \in Nat /\ s.params.maxPlayers \in Nat
    BY StorageFields, ParamFields
  <2>2. 0 \in 0 .. BPS
    BY DEF BPS
  <2>3. QED
    BY <2>1, <2>2 DEF LobbyConfig
<1>2. drawDeadline(s) \in Nat /\ mintFits(s, drawDeadline(s)) /\ block < drawDeadline(s)
  BY epochNowFacts DEF openDrawOK
<1>3. /\ u.lobbies = t.lobbies /\ u.attacks = t.attacks
      /\ u.interceptedAttacks = t.interceptedAttacks
      /\ u.globalDefenseLobby =
             [t.globalDefenseLobby EXCEPT ![drawEpoch(s)] = Len(s.lobbies) + 1]
  <2>1. Sound(t)
    BY <1>1, <1>2, mintLobbySound
  <2>2. u = [t EXCEPT !.globalDefenseLobby =
                 [t.globalDefenseLobby EXCEPT ![drawEpoch(s)] = Len(s.lobbies) + 1]]
    BY DEF openDraw
  <2> HIDE DEF t, u
  <2>3. QED
    BY <2>1, <2>2 DEF Sound, SoundStorage
<1> DEFINE x == newLobby(s, config, drawDeadline(s), Game)
           n == Len(s.lobbies) + 1
           e == drawEpoch(s)
<1>4. /\ Upkeep(s, t) /\ t.globalDefenseLobby = s.globalDefenseLobby
      /\ \A f \in EpochIds :
            s.attacks[f].status = "NONE" /\ t.attacks[f].status # "NONE" =>
                Flies(f, t.attacks[f])
      /\ Ids(t) = Ids(s) \cup {n} /\ t.lobbies[n] = x
  BY <1>1, <1>2, mintLobbyUpkeep
<1>5. /\ e \in EpochIds /\ s.globalDefenseLobby[e] = 0
      /\ OnGrid(e, drawDeadline(s) + 1)
      /\ launchEpoch(s, Game, drawDeadline(s)) = e
  BY drawFlies DEF openDrawOK
<1>6. BookedFor(x, e)
  BY <1>5 DEF BookedFor, newLobby
<1> HIDE DEF config, t, u, x, e
<1>7. Upkeep(s, u)
  BY <1>3, <1>4 DEF Upkeep, Ids
<1>8. \A f \in EpochIds : u.globalDefenseLobby[f] =
          IF f = e THEN n ELSE s.globalDefenseLobby[f]
  BY <1>3, <1>4, <1>5, StorageFields DEF e
<1>9. Ids(u) = Ids(s) \cup {n} /\ u.lobbies[n] = x /\ n \notin Ids(s)
  BY <1>3, <1>4, StorageFields DEF Ids
<1> HIDE DEF n
<1>10. Calendar(s, u)
  BY <1>3, <1>4, <1>5, <1>6, <1>8, <1>9 DEF Calendar, BookedFor
<1>11. QED
  BY <1>7, <1>10 DEF u

LEMMA maybeOpenDrawUpkeep ==
    ASSUME NEW s, Sound(s), block \in Nat, maybeOpenDrawOK(s)
    PROVE  Upkeep(s, maybeOpenDraw(s)) /\ Calendar(s, maybeOpenDraw(s))
<1> DEFINE closed == maybeCloseDraw(s)
           ready == topUpDraw(closed)
           t == maybeOpenDraw(s)
<1>1. Sound(closed) /\ Upkeep(s, closed) /\ Calendar(s, closed)
  BY maybeCloseDrawSound, maybeCloseDrawUpkeep
<1>2. /\ closed.interval # 0 /\ closed.globalDefensePool # 0 => drawEpoch(closed) < U32
      /\ drawDue(ready) => openDrawOK(ready)
      /\ t = IF drawDue(ready) THEN openDraw(ready) ELSE ready
  BY DEF maybeOpenDrawOK, maybeOpenDraw
<1>3. Sound(t)
  BY maybeOpenDrawSound
<1> HIDE DEF closed, t
<1>4. Sound(ready) /\ Upkeep(closed, ready) /\ Calendar(closed, ready)
  BY <1>1, <1>2, topUpDrawSound, topUpDrawUpkeep
<1> HIDE DEF ready
<1>5. Upkeep(ready, t) /\ Calendar(ready, t)
  BY <1>2, <1>4, openDrawUpkeep, UpkeepReflexive, CalendarStands DEF Unbooked
<1>6. Upkeep(s, ready) /\ Calendar(s, ready)
  BY <1>1, <1>4, UpkeepThenUpkeep, UpkeepThenCalendar
<1>7. QED
  BY <1>3, <1>4, <1>5, <1>6, UpkeepThenUpkeep, UpkeepThenCalendar DEF t

-----------------------------------------------------------------------------
(* Starting, scoring and judging one operation.                            *)

Started(x, y) ==
    \/ x.status # "OPEN" /\ Resting(x, y)
    \/ /\ SameRound(x, y) /\ \A w \in Players : SameMarks(x.seats[w], y.seats[w])
       /\ x.status = "OPEN" /\ y.status = "ACTIVE" /\ y.ending = x.ending
       /\ block >= x.deadlineBlock /\ ~underFilled(x)

(* The crown is what the scores say.                                       *)
CrownTrue(x) == \A w \in Players : x.seats[w].isWinner <=> w \in earliestHits(x)

ScoredAs(x, y) ==
    /\ SameTerms(x, y) /\ SameVerdict(x, y) /\ y.validActions = x.validActions
    /\ y.status = x.status /\ y.ending = x.ending
    /\ \A w \in Players :
          /\ SameMarks(x.seats[w], y.seats[w])
          /\ y.seats[w].defendedAt = x.seats[w].defendedAt
          /\ x.seats[w].revealed => y.seats[w].revealed
          /\ y.seats[w].revealed => x.seats[w].revealed \/ x.seats[w].defendedAt # 0
    /\ CrownTrue(y)

JudgedAs(x, y) ==
    /\ SameTerms(x, y) /\ y.validActions = x.validActions
    /\ \A w \in Players : /\ SameShot(x.seats[w], y.seats[w])
                          /\ SameMarks(x.seats[w], y.seats[w])
    /\ y.resolvedAtBlock = block
    /\ y.ending = IF x.validActions > 0 THEN "COMPLETED" ELSE "UNPLAYED"
    /\ y.status = IF x.validActions > 0 THEN "RESOLVED" ELSE "CANCELLED"

LEMMA StartedThenResting ==
    ASSUME NEW x, NEW y, NEW z, Started(x, y), Resting(y, z)
    PROVE  Started(x, z)
<1>1. CASE x.status # "OPEN" /\ Resting(x, y)
  BY <1>1, RestingThenResting DEF Started
<1>2. CASE ~(x.status # "OPEN" /\ Resting(x, y))
  BY <1>2, ZenonT(40) DEF Started, Resting, SameRound, SameTerms, SameVerdict, SameShot, SameMarks
<1>3. QED
  BY <1>1, <1>2

LEMMA RestingThenStarted ==
    ASSUME NEW x, NEW y, NEW z, Resting(x, y), Started(y, z)
    PROVE  Started(x, z)
<1>1. CASE y.status # "OPEN" /\ Resting(y, z)
  <2>1. x.status # "OPEN"
    BY <1>1 DEF Resting
  <2>2. QED
    BY <1>1, <2>1, RestingThenResting DEF Started
<1>2. CASE ~(y.status # "OPEN" /\ Resting(y, z))
  <2>1. underFilled(x) <=> underFilled(y)
    <3>1. Joined(x) = Joined(y) /\ y.minPlayers = x.minPlayers
      BY DEF Joined, Resting, SameMarks, SameRound, SameTerms
    <3>2. QED
      BY <3>1 DEF underFilled
  <2>2. QED
    BY <1>2, <2>1, ZenonT(40) DEF Started, Resting, SameRound, SameTerms, SameVerdict, SameShot, SameMarks
<1>3. QED
  BY <1>1, <1>2

LEMMA JudgedThenResting ==
    ASSUME NEW x, NEW y, NEW z, JudgedAs(x, y), Resting(y, z)
    PROVE  JudgedAs(x, z)
BY DEF JudgedAs, Resting, SameRound, SameTerms, SameVerdict, SameShot, SameMarks

LEMMA commitDrawBountyResting ==
    ASSUME NEW s, Sound(s), NEW l \in Ids(s)
    PROVE  /\ Beside(s, commitDrawBounty(s, l), l)
           /\ Resting(s.lobbies[l], commitDrawBounty(s, l).lobbies[l])
<1>1. CASE s.lobbies[l].creator # Game
  BY <1>1, RestingReflexive DEF commitDrawBounty, Beside
<1>2. CASE s.lobbies[l].creator = Game
  <2> DEFINE x == addToBounty(s.lobbies[l], s.globalDefensePool)
  <2>1. commitDrawBounty(s, l) = withLobby(s, l, x, 0, s.balance, s.activeLobbies)
    BY <1>2 DEF commitDrawBounty, withLobby, Sound, SoundStorage
  <2>2. Resting(s.lobbies[l], x)
    BY LobbyOf, addToBountyResting
  <2> HIDE DEF x
  <2>3. QED
    BY <2>1, <2>2, WithLobbyBeside
<1>3. QED
  BY <1>1, <1>2

LEMMA activateStarts ==
    ASSUME NEW s, Sound(s), NEW l \in Ids(s), activateOK(s, l)
    PROVE  /\ Beside(s, activate(s, l), l)
           /\ Started(s.lobbies[l], activate(s, l).lobbies[l])
<1> DEFINE ready == commitDrawBounty(s, l)
           lobby == ready.lobbies[l]
           fees == s.lobbies[l].entryFeesCollected
           t == activate(s, l)
<1>1. CASE s.lobbies[l].status # "OPEN"
  BY <1>1, RestingReflexive DEF activate, Beside, Started
<1>2. CASE s.lobbies[l].status = "OPEN"
  <2> DEFINE pool == lobby.rewardPool + fees
             x == [lobby EXCEPT !.rewardPool = pool, !.status = "ACTIVE"]
  <2>1. /\ Beside(s, ready, l) /\ Resting(s.lobbies[l], lobby)
        /\ Sound(ready) /\ Ids(ready) = Ids(s)
    BY commitDrawBountyResting, commitDrawBountySound
  <2>2. t = [ready EXCEPT !.lobbies[l] = x]
    BY <1>2 DEF activate
  <2> HIDE DEF ready, fees, pool, t
  <2>3. t = withLobby(ready, l, x, ready.globalDefensePool, ready.balance, ready.activeLobbies)
    BY <2>1, <2>2 DEF withLobby, Sound, SoundStorage
  <2>4. lobby \in SoundLobby
    BY <2>1, LobbyOf
  <2> HIDE DEF lobby
  <2>5. /\ x.seats = lobby.seats /\ x.status = "ACTIVE" /\ x.ending = lobby.ending
        /\ x.validActions = lobby.validActions
        /\ SameTerms(lobby, x) /\ SameVerdict(lobby, x)
    BY <2>4 DEF SoundLobby, Lobby, SameTerms, SameVerdict
  <2> HIDE DEF x
  <2>6. Beside(ready, t, l) /\ t.lobbies[l] = x
    BY <2>1, <2>3, WithLobbyBeside
  <2>7. Beside(s, t, l)
    BY <2>1, <2>6, BesideThenBeside
  <2>8. block >= s.lobbies[l].deadlineBlock /\ ~underFilled(s.lobbies[l])
    BY <1>2 DEF activateOK
  <2>9. Started(s.lobbies[l], x)
    BY <1>2, <2>1, <2>5, <2>8
       DEF Started, Resting, SameRound, SameTerms, SameVerdict, SameShot, SameMarks
  <2>10. QED
    BY <2>6, <2>7, <2>9 DEF t
<1>3. QED
  BY <1>1, <1>2

(* The earliest hits are read off three fields of each seat.               *)
LEMMA HitsSame ==
    ASSUME NEW x, NEW y,
           \A w \in Players : /\ y.seats[w].defendedAt = x.seats[w].defendedAt
                              /\ y.seats[w].revealed = x.seats[w].revealed
                              /\ y.seats[w].intercepted = x.seats[w].intercepted
    PROVE  earliestHits(y) = earliestHits(x)
<1>1. Defenders(y) = Defenders(x)
  BY DEF Defenders
<1>2. Defenders(x) \subseteq Players
  BY DEF Defenders
<1>3. revealedHits(y) = revealedHits(x)
  BY <1>1, <1>2 DEF revealedHits
<1>4. revealedHits(x) \subseteq Players
  BY <1>2 DEF revealedHits
<1>5. QED
  BY <1>3, <1>4 DEF earliestHits

(* Scoring one seat, and crowning one.                                     *)
LEMMA SeatScored ==
    ASSUME NEW p \in Seat, NEW b
    PROVE  LET q == [p EXCEPT !.revealed = TRUE, !.intercepted = b] IN
           SameMarks(p, q) /\ q.defendedAt = p.defendedAt /\ q.revealed
BY DEF Seat, SameMarks

LEMMA SeatCrowned ==
    ASSUME NEW p \in Seat, NEW b \in BOOLEAN
    PROVE  LET q == [p EXCEPT !.isWinner = b] IN
           /\ SameMarks(p, q) /\ q.defendedAt = p.defendedAt
           /\ q.revealed = p.revealed /\ q.intercepted = p.intercepted
           /\ q.isWinner = b
BY DEF Seat, SameMarks

LEMMA recrownCrowns ==
    ASSUME NEW z \in SoundLobby
    PROVE  LET y == recrown(z) IN
           /\ SameTerms(z, y) /\ SameVerdict(z, y) /\ y.validActions = z.validActions
           /\ y.status = z.status /\ y.ending = z.ending
           /\ \A w \in Players :
                 /\ SameMarks(z.seats[w], y.seats[w])
                 /\ y.seats[w].defendedAt = z.seats[w].defendedAt
                 /\ y.seats[w].revealed = z.seats[w].revealed
           /\ CrownTrue(y)
<1> DEFINE crown == earliestHits(z)
           seats == [w \in Players |-> [z.seats[w] EXCEPT !.isWinner = w \in crown]]
           won == crown # {}
           y == [z EXCEPT !.seats = seats, !.intercepted = won]
<1>1. recrown(z) = y
  BY DEF recrown
<1> HIDE DEF crown
<1>2. ASSUME NEW w \in Players
      PROVE  /\ SameMarks(z.seats[w], seats[w])
             /\ seats[w].defendedAt = z.seats[w].defendedAt
             /\ seats[w].revealed = z.seats[w].revealed
             /\ seats[w].intercepted = z.seats[w].intercepted
             /\ seats[w].isWinner = (w \in crown)
  <2>1. z.seats[w] \in Seat /\ (w \in crown) \in BOOLEAN
    BY LobbyFields
  <2>2. seats[w] = [z.seats[w] EXCEPT !.isWinner = w \in crown]
    OBVIOUS
  <2> DEFINE p == z.seats[w]
             b == w \in crown
             q == [p EXCEPT !.isWinner = b]
  <2>3. seats[w] = q
    BY <2>2
  <2> HIDE DEF seats, b
  <2>4. /\ SameMarks(p, q) /\ q.defendedAt = p.defendedAt
        /\ q.revealed = p.revealed /\ q.intercepted = p.intercepted
        /\ q.isWinner = b
    <3>1. p \in Seat /\ b \in BOOLEAN
      BY <2>1 DEF b
    <3> HIDE DEF p
    <3>2. QED
      BY <3>1, SeatCrowned
  <2> HIDE DEF p, q
  <2>5. QED
    BY <2>3, <2>4 DEF p, b
<1> HIDE DEF seats, won
<1>3. /\ y.seats = seats /\ SameTerms(z, y) /\ SameVerdict(z, y)
      /\ y.validActions = z.validActions
      /\ y.status = z.status /\ y.ending = z.ending
  BY DEF SoundLobby, Lobby, SameTerms, SameVerdict
<1> HIDE DEF y
<1>4. earliestHits(y) = crown
  BY <1>2, <1>3, HitsSame DEF crown
<1>5. CrownTrue(y)
  BY <1>2, <1>3, <1>4 DEF CrownTrue
<1>6. QED
  BY <1>1, <1>2, <1>3, <1>5

LEMMA scoreSubsetScores ==
    ASSUME NEW x \in SoundLobby, NEW subset, subset \subseteq Defenders(x), NEW hits
    PROVE  /\ ScoredAs(x, scoreSubset(x, subset, hits))
           /\ \A w \in subset : scoreSubset(x, subset, hits).seats[w].revealed
<1> DEFINE scored(w) == [x.seats[w] EXCEPT !.revealed = TRUE, !.intercepted = w \in hits]
           seats == [w \in Players |->
                        IF w \in subset /\ ~x.seats[w].revealed
                        THEN scored(w) ELSE x.seats[w]]
           z == [x EXCEPT !.seats = seats]
           y == recrown(z)
<1>1. scoreSubset(x, subset, hits) = y
  BY DEF scoreSubset
<1>2. ASSUME NEW w \in Players
      PROVE  /\ seats[w] \in SoundSeat
             /\ SameMarks(x.seats[w], seats[w])
             /\ seats[w].defendedAt = x.seats[w].defendedAt
             /\ x.seats[w].revealed => seats[w].revealed
             /\ seats[w].revealed => x.seats[w].revealed \/ w \in subset
             /\ w \in subset => seats[w].revealed
  <2>1. x.seats[w] \in SoundSeat /\ x.seats[w] \in Seat /\ (w \in hits) \in BOOLEAN
    BY LobbyFields
  <2>2. /\ SameMarks(x.seats[w], scored(w))
        /\ scored(w).defendedAt = x.seats[w].defendedAt /\ scored(w).revealed
    BY <2>1, SeatScored
  <2>3. scored(w) \in SoundSeat
    <3>1. ASSUME NEW p \in SoundSeat, NEW b \in BOOLEAN
          PROVE  [p EXCEPT !.revealed = TRUE, !.intercepted = b] \in SoundSeat
      BY DEF SoundSeat, Seat
    <3>2. QED
      BY <2>1, <3>1
  <2>4. seats[w] = IF w \in subset /\ ~x.seats[w].revealed
                   THEN scored(w) ELSE x.seats[w]
    OBVIOUS
  <2> HIDE DEF scored, seats
  <2>5. QED
    BY <2>1, <2>2, <2>3, <2>4 DEF SameMarks
<1>3. seats \in [Players -> SoundSeat]
  <2>1. seats = [w \in Players |-> seats[w]]
    OBVIOUS
  <2> HIDE DEF seats
  <2>2. QED
    BY <1>2, <2>1
<1> HIDE DEF seats
<1>4. /\ z \in Lobby /\ z.seats = seats /\ SameTerms(x, z) /\ SameVerdict(x, z)
      /\ z.validActions = x.validActions
      /\ z.status = x.status /\ z.ending = x.ending
  <2>1. seats \in [Players -> Seat]
    BY <1>3 DEF SoundSeat
  <2>2. QED
    BY <2>1 DEF SoundLobby, Lobby, SameTerms, SameVerdict
<1> HIDE DEF z
<1>5. z \in SoundLobby
  BY <1>2, <1>3, <1>4, SeatsReplaced DEF SameMarks
<1>6. /\ SameTerms(z, y) /\ SameVerdict(z, y) /\ y.validActions = z.validActions
      /\ y.status = z.status /\ y.ending = z.ending
      /\ \A w \in Players :
            /\ SameMarks(z.seats[w], y.seats[w])
            /\ y.seats[w].defendedAt = z.seats[w].defendedAt
            /\ y.seats[w].revealed = z.seats[w].revealed
      /\ CrownTrue(y)
  BY <1>5, recrownCrowns
<1> HIDE DEF y
<1>7. \A w \in subset : w \in Players /\ x.seats[w].defendedAt # 0
  BY DEF Defenders
<1>8. \A w \in Players :
          /\ SameMarks(x.seats[w], y.seats[w])
          /\ y.seats[w].defendedAt = x.seats[w].defendedAt
          /\ x.seats[w].revealed => y.seats[w].revealed
          /\ y.seats[w].revealed => x.seats[w].revealed \/ x.seats[w].defendedAt # 0
  BY <1>2, <1>4, <1>6, <1>7 DEF SameMarks
<1>9. ScoredAs(x, y)
  BY <1>4, <1>6, <1>8 DEF ScoredAs, SameTerms, SameVerdict
<1>10. \A w \in subset : y.seats[w].revealed
  BY <1>2, <1>4, <1>6, <1>7
<1>11. QED
  BY <1>1, <1>9, <1>10

-----------------------------------------------------------------------------
(* What a step does to an attack.                                          *)

(* Once drawn it keeps its place on the grid; it is unlocked only once it  *)
(* has landed, and neither that nor its publication is taken back.         *)
AttackMoves(a, b) ==
    /\ a.status # "NONE" =>
          /\ b.status # "NONE" /\ b.launchBlock = a.launchBlock
          /\ b.impactBlock = a.impactBlock /\ b.graceBlocks = a.graceBlocks
    /\ b.status = "NONE" => b = a
    /\ a.decryptionUnlocked => b.decryptionUnlocked
    /\ b.decryptionUnlocked => a.decryptionUnlocked \/ block >= b.impactBlock
    /\ b.status = "RESOLVED" =>
          a.status = "RESOLVED" \/ b.decryptionUnlocked \/ block >= b.impactBlock
    /\ a.revealed => b.revealed

(* The tally of intercepted attacks has no part in the step.               *)
Quiet(a, b) ==
    \/ b.intercepted = a.intercepted
    \/ a.status = "NONE" /\ ~b.intercepted

FairAttack(n, a) ==
    /\ a.status = "NONE" => ~a.decryptionUnlocked /\ ~a.intercepted /\ ~a.revealed
    /\ a.decryptionUnlocked => n >= a.impactBlock
    /\ a.status = "RESOLVED" => n >= a.impactBlock

LEMMA AttackMovesOn ==
    ASSUME NEW a, NEW b, NEW c, AttackMoves(a, b), AttackMoves(b, c)
    PROVE  AttackMoves(a, c)
BY DEF AttackMoves

LEMMA QuietThenQuiet ==
    ASSUME NEW a, NEW b, NEW c, Quiet(a, b), Quiet(b, c), AttackMoves(a, b)
    PROVE  Quiet(a, c)
BY DEF Quiet, AttackMoves

LEMMA DrawnMoves ==
    ASSUME NEW n, NEW a, NEW b, FairAttack(n, a), Drawn(a, b)
    PROVE  AttackMoves(a, b) /\ Quiet(a, b)
BY DEF FairAttack, Drawn, AttackMoves, Quiet

LEMMA FairAttackMoves ==
    ASSUME NEW a \in Attack, NEW b \in Attack, block \in Nat,
           FairAttack(block, a), AttackMoves(a, b)
    PROVE  FairAttack(block, b)
<1>1. CASE b = a
  BY <1>1
<1>2. CASE b.status # "NONE"
  <2>1. a.decryptionUnlocked => a.status # "NONE" /\ block >= a.impactBlock
    BY DEF FairAttack
  <2>2. b.decryptionUnlocked => block >= b.impactBlock
    BY <2>1 DEF AttackMoves
  <2>3. b.status = "RESOLVED" => block >= b.impactBlock
    BY <2>1, <2>2 DEF FairAttack, AttackMoves
  <2>4. QED
    BY <1>2, <2>2, <2>3 DEF FairAttack
<1>3. QED
  BY <1>1, <1>2 DEF AttackMoves

-----------------------------------------------------------------------------
(* The verdict.                                                            *)

LEMMA judgedJudges ==
    ASSUME NEW x \in SoundLobby
    PROVE  JudgedAs(x, judged(x)) /\ Winners(judged(x)) = Winners(x)
<1> DEFINE share == IF Winners(x) # {} THEN x.rewardPool \div Cardinality(Winners(x))
                    ELSE x.rewardPerWinner
           ending == IF x.validActions > 0 THEN "COMPLETED" ELSE "UNPLAYED"
           status == IF x.validActions > 0 THEN "RESOLVED" ELSE "CANCELLED"
           pool == x.rewardPool - forfeited(x)
           z == [x EXCEPT !.resolvedAtBlock = block, !.rewardPerWinner = share,
                          !.ending = ending, !.status = status, !.rewardPool = pool]
<1>1. judged(x) = z
  BY DEF judged
<1> HIDE DEF share, ending, status, pool
<1>2. /\ SameTerms(x, z) /\ z.validActions = x.validActions /\ z.seats = x.seats
      /\ z.resolvedAtBlock = block /\ z.ending = ending /\ z.status = status
  BY DEF SoundLobby, Lobby, SameTerms
<1> HIDE DEF z
<1>3. JudgedAs(x, z)
  BY <1>2 DEF JudgedAs, ending, status, SameShot, SameMarks
<1>4. Winners(z) = Winners(x)
  BY <1>2 DEF Winners
<1>5. QED
  BY <1>1, <1>3, <1>4

(* One verdict on the epoch's attack, and on the planet's tally.           *)
Tallied(s, t, e, won) ==
    /\ \A f \in EpochIds : f # e => Quiet(s.attacks[f], t.attacks[f])
    /\ t.attacks[e].intercepted <=> s.attacks[e].intercepted \/ won
    /\ t.interceptedAttacks =
          IF won /\ ~s.attacks[e].intercepted
          THEN s.interceptedAttacks + 1 ELSE s.interceptedAttacks

LEMMA verdictJudges ==
    ASSUME NEW s, Sound(s), NEW l \in Ids(s),
           s.attacks[s.lobbies[l].epochId].revealed
    PROVE  LET t == verdict(s, l)
               x == s.lobbies[l]
           IN  /\ Ids(t) = Ids(s)
               /\ \A m \in Ids(s) : m # l => t.lobbies[m] = s.lobbies[m]
               /\ JudgedAs(x, t.lobbies[l])
               /\ Tallied(s, t, x.epochId, Winners(t.lobbies[l]) # {})
               /\ \A f \in EpochIds : /\ AttackMoves(s.attacks[f], t.attacks[f])
                                       /\ t.attacks[f].status = s.attacks[f].status
               /\ \A f \in EpochIds : f # x.epochId => t.attacks[f] = s.attacks[f]
               /\ Unbooked(s, t)
<1> DEFINE lobby == s.lobbies[l]
           e == lobby.epochId
           attack == s.attacks[e]
           won == Winners(lobby) # {}
           a == [attack EXCEPT !.intercepted = @ \/ won]
           x == judged(lobby)
           pool == s.globalDefensePool + forfeited(lobby)
           active == oneFewer(s.activeLobbies)
           tally == IF firstToIntercept(attack, won)
                    THEN s.interceptedAttacks + 1 ELSE s.interceptedAttacks
           t == withLobby(s, l, x, pool, s.balance, active)
           u == verdict(s, l)
<1>1. /\ lobby \in SoundLobby /\ e \in EpochIds /\ attack \in SoundAttack
      /\ attack.status # "NONE"
  BY LobbyOf DEF SoundAttack
<1>2. u = withAttack(t, e, a, tally)
  BY DEF verdict, withAttack, withLobby, Sound, SoundStorage
<1>3. JudgedAs(lobby, x) /\ Winners(x) = Winners(lobby)
  BY <1>1, judgedJudges
<1> HIDE DEF x, pool, active, u
<1>4. Beside(s, t, l) /\ t.lobbies[l] = x
  BY WithLobbyBeside
<1>5. DOMAIN t = DOMAIN s
  BY DEF withLobby
<1>6. /\ u.lobbies = t.lobbies /\ u.interceptedAttacks = tally
      /\ u.globalDefenseLobby = s.globalDefenseLobby
      /\ \A f \in EpochIds : u.attacks[f] = IF f = e THEN a ELSE s.attacks[f]
  <2>1. /\ t.attacks = s.attacks /\ s.attacks \in [EpochIds -> SoundAttack]
        /\ t.globalDefenseLobby = s.globalDefenseLobby
    BY <1>4, StorageFields DEF Beside
  <2>2. /\ u.lobbies = t.lobbies /\ u.interceptedAttacks = tally
        /\ u.globalDefenseLobby = t.globalDefenseLobby
        /\ u.attacks = [t.attacks EXCEPT ![e] = a]
    <3> HIDE DEF a, tally, e
    <3>1. QED
      BY <1>2, <1>5 DEF withAttack, Sound, SoundStorage
  <2> HIDE DEF t, a, tally, e
  <2>3. QED
    BY <2>1, <2>2
<1> HIDE DEF t, lobby
<1>7. /\ a.status = attack.status /\ a.launchBlock = attack.launchBlock
      /\ a.impactBlock = attack.impactBlock /\ a.graceBlocks = attack.graceBlocks
      /\ a.decryptionUnlocked = attack.decryptionUnlocked
      /\ a.revealed = attack.revealed /\ a \in Attack /\ attack \in Attack
  <2>1. won \in BOOLEAN
    OBVIOUS
  <2> HIDE DEF won, attack
  <2>2. QED
    BY <1>1, <2>1 DEF SoundAttack, Attack
<1>8. a.intercepted <=> attack.intercepted \/ won
  <2> HIDE DEF won, attack
  <2>1. QED
    BY <1>1 DEF SoundAttack, Attack
<1>9. tally = IF won /\ ~attack.intercepted
              THEN s.interceptedAttacks + 1 ELSE s.interceptedAttacks
  BY DEF firstToIntercept
<1> HIDE DEF a, tally
<1>10. /\ Ids(u) = Ids(s) /\ u.lobbies[l] = x
       /\ \A m \in Ids(s) : m # l => u.lobbies[m] = s.lobbies[m]
  BY <1>4, <1>6 DEF Beside, Ids
<1>11. \A f \in EpochIds : /\ AttackMoves(s.attacks[f], u.attacks[f])
                           /\ u.attacks[f].status = s.attacks[f].status
  <2> SUFFICES ASSUME NEW f \in EpochIds
               PROVE  /\ AttackMoves(s.attacks[f], u.attacks[f])
                      /\ u.attacks[f].status = s.attacks[f].status
    OBVIOUS
  <2>1. CASE f # e
    BY <1>6, <2>1 DEF AttackMoves
  <2>2. CASE f = e
    <3>1. u.attacks[f] = a /\ s.attacks[f] = attack
      BY <1>6, <2>2
    <3> HIDE DEF attack
    <3>3. attack.status # "NONE"
      BY <1>1
    <3>2. QED
      BY <1>7, <3>1, <3>3 DEF AttackMoves
  <2>3. QED
    BY <2>1, <2>2
<1>12. Tallied(s, u, e, Winners(u.lobbies[l]) # {})
  BY <1>1, <1>3, <1>6, <1>8, <1>9, <1>10 DEF Tallied, Quiet
<1>13. Unbooked(s, u)
  BY <1>6, <1>11 DEF Unbooked
<1>14. QED
  BY <1>3, <1>6, <1>10, <1>11, <1>12, <1>13 DEF u, lobby

-----------------------------------------------------------------------------
(* The moves of one operation.                                             *)

(* It runs, or its team is full and applications have closed.              *)
Begun(x) ==
    \/ x.status = "ACTIVE"
    \/ x.status = "OPEN" /\ block >= x.deadlineBlock /\ ~underFilled(x)

SameSeatsPaid(x, y) == \A w \in Players : SameMarks(x.seats[w], y.seats[w])

(* A seat is taken or given up while applications are open.                *)
Reseated(x, y) ==
    /\ SameRound(x, y)
    /\ x.status = "OPEN" /\ y.status = "OPEN" /\ y.ending = x.ending
    /\ \A w \in Players : /\ y.seats[w].claimed = x.seats[w].claimed
                          /\ y.seats[w].refunded = x.seats[w].refunded
    /\ \E w \in Players : \A v \in Players :
          v # w => y.seats[v].joined = x.seats[v].joined

(* A probe or a defense, at most one defense and only of one who has none. *)
Acted(x, y) ==
    /\ Begun(x) /\ y.status = "ACTIVE" /\ y.ending = x.ending
    /\ SameTerms(x, y) /\ SameVerdict(x, y) /\ SameSeatsPaid(x, y)
    /\ \A w \in Players :
          \/ SameShot(x.seats[w], y.seats[w])
          \/ /\ x.seats[w].defendedAt = 0
             /\ y.seats[w].revealed = x.seats[w].revealed
             /\ y.seats[w].isWinner = x.seats[w].isWinner

(* Scores only added, and the crown put where they say.                    *)
ShotsScored(x, y) ==
    /\ \A w \in Players :
          /\ y.seats[w].defendedAt = x.seats[w].defendedAt
          /\ x.seats[w].revealed => y.seats[w].revealed
          /\ y.seats[w].revealed => x.seats[w].revealed \/ x.seats[w].defendedAt # 0
    /\ CrownTrue(x) => CrownTrue(y)

(* Started, if it had not been, and perhaps scored.                        *)
Scored1(x, y) ==
    /\ Begun(x) /\ y.status = "ACTIVE" /\ y.ending = x.ending
    /\ SameTerms(x, y) /\ SameVerdict(x, y) /\ y.validActions = x.validActions
    /\ SameSeatsPaid(x, y) /\ ShotsScored(x, y)

(* The same, and judged.                                                   *)
Judged1(x, y) ==
    /\ Begun(x)
    /\ SameTerms(x, y) /\ y.validActions = x.validActions
    /\ SameSeatsPaid(x, y) /\ ShotsScored(x, y)
    /\ y.resolvedAtBlock = block
    /\ y.ending = IF x.validActions > 0 THEN "COMPLETED" ELSE "UNPLAYED"
    /\ y.status = IF x.validActions > 0 THEN "RESOLVED" ELSE "CANCELLED"

Expired(x, y) ==
    /\ SameRound(x, y) /\ SameSeatsPaid(x, y)
    /\ y.status = "CANCELLED" /\ y.ending = "CANCELLED"

(* One member is paid, on the side of the ending.                          *)
Paid1(x, y) ==
    /\ SameRound(x, y) /\ x.ending # "NONE"
    /\ y.status = x.status /\ y.ending = x.ending
    /\ \A w \in Players : /\ y.seats[w].joined = x.seats[w].joined
                          /\ x.seats[w].claimed => y.seats[w].claimed
                          /\ x.seats[w].refunded => y.seats[w].refunded
    /\ \E w \in Players :
          /\ \A v \in Players : v # w => SameMarks(x.seats[v], y.seats[v])
          /\ SameMarks(x.seats[w], y.seats[w]) \/ x.seats[w].joined

(* Every defense is scored, or the grace window is over.                   *)
Heard(y, b) ==
    \/ \A w \in Defenders(y) : y.seats[w].revealed
    \/ block >= b.impactBlock + b.graceBlocks

RoomMove(x, y, a, b) ==
    \/ Kept(x, y)
    \/ Reseated(x, y)
    \/ Acted(x, y) /\ ~a.decryptionUnlocked
    \/ Scored1(x, y)
    \/ Judged1(x, y) /\ b.revealed /\ Heard(y, b)
    \/ Expired(x, y) /\ ~a.revealed
    \/ Paid1(x, y)

-----------------------------------------------------------------------------
(* What every operation and its attack satisfy.                            *)

FairLobby(n, x, a) ==
    /\ a.status # "NONE"
    /\ x.deadlineBlock > 0
    /\ x.status = "ACTIVE" => n > 0
    /\ x.status = "OPEN" => x.validActions = 0
    /\ \E p \in ParamSets : x.minPlayers >= p.minPlayers
    /\ x.resolvedAtBlock # 0 => a.revealed /\ x.status \in {"RESOLVED", "CANCELLED"}
    /\ \A w \in Players : x.seats[w].revealed => x.seats[w].defendedAt # 0
    /\ CrownTrue(x)
    /\ x.resolvedAtBlock # 0 /\ x.resolvedAtBlock < a.impactBlock + a.graceBlocks =>
          \A w \in Defenders(x) : x.seats[w].revealed

LEMMA ShotsKeepCrown ==
    ASSUME NEW x, NEW y, \A w \in Players : SameShot(x.seats[w], y.seats[w])
    PROVE  /\ CrownTrue(x) => CrownTrue(y)
           /\ Defenders(y) = Defenders(x) /\ Winners(y) = Winners(x)
<1>1. earliestHits(y) = earliestHits(x)
  BY HitsSame DEF SameShot
<1>2. QED
  BY <1>1 DEF CrownTrue, SameShot, Defenders, Winners

(* A round that is not touched stays fair.                                 *)
LEMMA FairSameRound ==
    ASSUME NEW x \in SoundLobby, NEW y \in SoundLobby,
           NEW a \in SoundAttack, NEW b \in SoundAttack, block \in Nat,
           FairLobby(block, x, a), AttackMoves(a, b), SameRound(x, y),
           y.status = "OPEN" => x.status = "OPEN",
           y.status = "ACTIVE" => x.status = "ACTIVE",
           x.resolvedAtBlock # 0 => y.status \in {"RESOLVED", "CANCELLED"}
    PROVE  FairLobby(block, y, b)
<1>1. /\ CrownTrue(y) /\ Defenders(y) = Defenders(x)
      /\ \A w \in Players : /\ y.seats[w].revealed = x.seats[w].revealed
                            /\ y.seats[w].defendedAt = x.seats[w].defendedAt
  BY ShotsKeepCrown DEF FairLobby, SameRound, SameShot
<1>2. /\ y.deadlineBlock = x.deadlineBlock /\ y.minPlayers = x.minPlayers
      /\ y.validActions = x.validActions /\ y.resolvedAtBlock = x.resolvedAtBlock
  BY DEF SameRound, SameTerms, SameVerdict
<1>3. /\ b.status # "NONE" /\ b.impactBlock = a.impactBlock
      /\ b.graceBlocks = a.graceBlocks
      /\ a.revealed => b.revealed
  BY DEF FairLobby, AttackMoves
<1>4. x.resolvedAtBlock # 0 /\ x.resolvedAtBlock < a.impactBlock + a.graceBlocks =>
          \A w \in Defenders(x) : y.seats[w].revealed
  <2>1. \A w \in Defenders(x) : w \in Players
    BY DEF Defenders
  <2>2. QED
    BY <1>1, <2>1 DEF FairLobby
<1>5. y.resolvedAtBlock # 0 => b.revealed /\ y.status \in {"RESOLVED", "CANCELLED"}
  BY <1>2, <1>3 DEF FairLobby
<1>6. /\ \A w \in Players : y.seats[w].revealed => y.seats[w].defendedAt # 0
      /\ \E p \in ParamSets : y.minPlayers >= p.minPlayers
      /\ y.deadlineBlock > 0
      /\ y.status = "ACTIVE" => block > 0
      /\ y.status = "OPEN" => y.validActions = 0
  BY <1>1, <1>2 DEF FairLobby
<1>7. y.resolvedAtBlock # 0 /\ y.resolvedAtBlock < b.impactBlock + b.graceBlocks =>
          \A w \in Defenders(y) : y.seats[w].revealed
  BY <1>1, <1>2, <1>3, <1>4
<1>8. QED
  BY <1>1, <1>3, <1>5, <1>6, <1>7 DEF FairLobby

LEMMA FairKept ==
    ASSUME NEW x \in SoundLobby, NEW y \in SoundLobby,
           NEW a \in SoundAttack, NEW b \in SoundAttack, block \in Nat,
           FairLobby(block, x, a), AttackMoves(a, b), Kept(x, y)
    PROVE  FairLobby(block, y, b)
<1>1. /\ SameRound(x, y)
      /\ y.status = "OPEN" => x.status = "OPEN"
      /\ y.status = "ACTIVE" => x.status = "ACTIVE"
      /\ x.resolvedAtBlock # 0 => y.status \in {"RESOLVED", "CANCELLED"}
  BY DEF Kept, Resting, ClosedUnfilled, FairLobby
<1>2. QED
  BY <1>1, FairSameRound

LEMMA FairActed ==
    ASSUME NEW x \in SoundLobby, NEW y \in SoundLobby,
           NEW a \in SoundAttack, NEW b \in SoundAttack, block \in Nat,
           FairLobby(block, x, a), AttackMoves(a, b), Acted(x, y)
    PROVE  FairLobby(block, y, b)
<1>1. block > 0 /\ x.resolvedAtBlock = 0
  BY LobbyFields DEF FairLobby, Acted, Begun
<1>2. ASSUME NEW w \in Players
      PROVE  /\ y.seats[w].revealed = x.seats[w].revealed
             /\ y.seats[w].revealed =>
                   /\ y.seats[w].defendedAt = x.seats[w].defendedAt
                   /\ x.seats[w].defendedAt # 0
                   /\ y.seats[w].intercepted = x.seats[w].intercepted
             /\ y.seats[w].isWinner = x.seats[w].isWinner
  BY DEF FairLobby, Acted, SameShot
<1>3. earliestHits(y) = earliestHits(x)
  <2>1. revealedHits(y) = revealedHits(x)
    BY <1>2 DEF revealedHits, Defenders
  <2>2. \A w \in revealedHits(x) : y.seats[w].defendedAt = x.seats[w].defendedAt
    BY <1>2 DEF revealedHits, Defenders
  <2>3. QED
    BY <2>1, <2>2 DEF earliestHits
<1>4. CrownTrue(y)
  BY <1>2, <1>3 DEF CrownTrue, FairLobby
<1>5. /\ y.deadlineBlock = x.deadlineBlock /\ y.minPlayers = x.minPlayers
      /\ y.resolvedAtBlock = 0 /\ y.status = "ACTIVE"
  BY <1>1 DEF Acted, SameTerms, SameVerdict
<1>6. b.status # "NONE"
  BY DEF FairLobby, AttackMoves
<1>7. \A w \in Players : y.seats[w].revealed => y.seats[w].defendedAt # 0
  BY <1>2
<1>8. QED
  BY <1>1, <1>4, <1>5, <1>6, <1>7 DEF FairLobby

LEMMA FairScored ==
    ASSUME NEW x \in SoundLobby, NEW y \in SoundLobby,
           NEW a \in SoundAttack, NEW b \in SoundAttack, block \in Nat,
           FairLobby(block, x, a), AttackMoves(a, b),
           Scored1(x, y) \/ (Judged1(x, y) /\ b.revealed /\ Heard(y, b))
    PROVE  FairLobby(block, y, b)
<1>1. block > 0 /\ x.resolvedAtBlock = 0
  BY LobbyFields DEF FairLobby, Scored1, Judged1, Begun
<1>2. ShotsScored(x, y) /\ SameTerms(x, y)
  BY DEF Scored1, Judged1
<1>3. /\ CrownTrue(y)
      /\ \A w \in Players : y.seats[w].revealed => y.seats[w].defendedAt # 0
      /\ y.deadlineBlock = x.deadlineBlock /\ y.minPlayers = x.minPlayers
      /\ b.status # "NONE"
  BY <1>2 DEF FairLobby, AttackMoves, ShotsScored, SameTerms
<1>4. CASE Scored1(x, y)
  <2>1. y.resolvedAtBlock = 0 /\ y.status = "ACTIVE"
    BY <1>1, <1>4 DEF Scored1, SameVerdict
  <2>2. QED
    BY <1>1, <1>3, <2>1 DEF FairLobby
<1>5. CASE Judged1(x, y) /\ b.revealed /\ Heard(y, b)
  <2>1. y.status \in {"RESOLVED", "CANCELLED"} /\ y.resolvedAtBlock = block
    BY <1>5 DEF Judged1
  <2>2. block < b.impactBlock + b.graceBlocks =>
           \A w \in Defenders(y) : y.seats[w].revealed
    <3>1. b.impactBlock \in Nat /\ b.graceBlocks \in Nat
      BY DEF SoundAttack, Attack
    <3>2. QED
      BY <1>5, <3>1 DEF Heard
  <2>3. QED
    BY <1>3, <1>5, <2>1, <2>2 DEF FairLobby
<1>6. QED
  BY <1>4, <1>5

LEMMA FairRoom ==
    ASSUME NEW x \in SoundLobby, NEW y \in SoundLobby,
           NEW a \in SoundAttack, NEW b \in SoundAttack, block \in Nat,
           FairLobby(block, x, a), AttackMoves(a, b), RoomMove(x, y, a, b)
    PROVE  FairLobby(block, y, b)
<1>1. CASE Reseated(x, y)
  <2>1. x.resolvedAtBlock = 0
    BY <1>1 DEF Reseated, FairLobby
  <2>2. QED
    BY <1>1, <2>1, FairSameRound DEF Reseated
<1>2. CASE Expired(x, y) /\ ~a.revealed
  BY <1>2, FairSameRound DEF Expired
<1>3. CASE Paid1(x, y)
  <2>1. x.resolvedAtBlock # 0 => y.status \in {"RESOLVED", "CANCELLED"}
    BY <1>3 DEF Paid1, FairLobby
  <2>2. QED
    BY <1>3, <2>1, FairSameRound DEF Paid1
<1>4. CASE Kept(x, y)
  BY <1>4, FairKept
<1>5. CASE Acted(x, y)
  BY <1>5, FairActed
<1>6. CASE Scored1(x, y) \/ (Judged1(x, y) /\ b.revealed /\ Heard(y, b))
  BY <1>6, FairScored
<1>7. QED
  BY <1>1, <1>2, <1>3, <1>4, <1>5, <1>6, Zenon DEF RoomMove

LEMMA FairFresh ==
    ASSUME NEW y \in SoundLobby, NEW b, block \in Nat, Fresh(y), b.status # "NONE"
    PROVE  FairLobby(block, y, b)
<1>1. y.deadlineBlock > 0
  BY LobbyFields DEF Fresh
<1>2. CrownTrue(y)
  <2>1. earliestHits(y) \subseteq revealedHits(y) /\ revealedHits(y) = {}
    BY DEF earliestHits, revealedHits, Defenders, Fresh
  <2>2. QED
    BY <2>1 DEF CrownTrue, Fresh
<1>3. QED
  BY <1>1, <1>2 DEF FairLobby, Fresh

-----------------------------------------------------------------------------
(* A call moves an operation through several relations; they compose.      *)

(* It has begun, and runs as it stood.                                     *)
Runs(x, z) ==
    /\ Begun(x) /\ SameRound(x, z) /\ SameSeatsPaid(x, z)
    /\ z.status = "ACTIVE" /\ z.ending = x.ending

LEMMA KeptGoingIsResting ==
    ASSUME NEW x, NEW z, Kept(x, z), z.status # "CANCELLED"
    PROVE  Resting(x, z)
BY DEF Kept, ClosedUnfilled

LEMMA SameTeam ==
    ASSUME NEW x, NEW z, Resting(x, z)
    PROVE  Joined(z) = Joined(x) /\ underFilled(z) = underFilled(x)
<1>1. Joined(z) = Joined(x) /\ z.minPlayers = x.minPlayers
  BY DEF Joined, Resting, SameMarks, SameRound, SameTerms
<1>2. QED
  BY <1>1 DEF underFilled

LEMMA StartedRuns ==
    ASSUME NEW x, NEW z, Started(x, z), z.status = "ACTIVE"
    PROVE  Runs(x, z)
<1>1. CASE x.status # "OPEN" /\ Resting(x, z)
  <2>1. x.status = "ACTIVE"
    BY <1>1 DEF Resting
  <2>2. QED
    BY <1>1, <2>1 DEF Resting, Runs, Begun, SameSeatsPaid
<1>2. CASE ~(x.status # "OPEN" /\ Resting(x, z))
  BY <1>2 DEF Started, Runs, Begun, SameSeatsPaid
<1>3. QED
  BY <1>1, <1>2

LEMMA KeptThenRuns ==
    ASSUME NEW x, NEW z, NEW y, Kept(x, z), Runs(z, y)
    PROVE  Runs(x, y)
<1>1. z.status # "CANCELLED"
  BY DEF Runs, Begun
<1>2. Resting(x, z) /\ underFilled(z) = underFilled(x)
  BY <1>1, KeptGoingIsResting, SameTeam
<1>3. Begun(x)
  <2>1. z.status = x.status /\ z.deadlineBlock = x.deadlineBlock
    BY <1>2 DEF Resting, SameRound, SameTerms
  <2>2. QED
    BY <1>2, <2>1 DEF Runs, Begun
<1>4. /\ SameRound(x, y) /\ SameSeatsPaid(x, y) /\ y.status = "ACTIVE"
      /\ y.ending = x.ending
  BY <1>2 DEF Resting, Runs, SameSeatsPaid, SameMarks, SameRound, SameTerms,
              SameVerdict, SameShot
<1>5. QED
  BY <1>3, <1>4 DEF Runs

LEMMA RunsIsScored ==
    ASSUME NEW x, NEW z, Runs(x, z)
    PROVE  Scored1(x, z)
<1>1. CrownTrue(x) => CrownTrue(z)
  BY ShotsKeepCrown DEF Runs, SameRound
<1>2. QED
  BY <1>1 DEF Runs, Scored1, ShotsScored, SameRound, SameShot

LEMMA RunsThenScored ==
    ASSUME NEW x, NEW z, NEW y, Runs(x, z), ScoredAs(z, y)
    PROVE  Scored1(x, y)
<1>1. /\ SameTerms(x, y) /\ SameVerdict(x, y) /\ y.validActions = x.validActions
      /\ y.status = "ACTIVE" /\ y.ending = x.ending /\ Begun(x)
  BY DEF Runs, ScoredAs, SameRound, SameTerms, SameVerdict
<1>2. ASSUME NEW w \in Players
      PROVE  /\ SameMarks(x.seats[w], y.seats[w])
             /\ y.seats[w].defendedAt = x.seats[w].defendedAt
             /\ x.seats[w].revealed => y.seats[w].revealed
             /\ y.seats[w].revealed => x.seats[w].revealed \/ x.seats[w].defendedAt # 0
  <2>1. SameShot(x.seats[w], z.seats[w]) /\ SameMarks(x.seats[w], z.seats[w])
    BY DEF Runs, SameRound, SameSeatsPaid
  <2>2. QED
    BY <2>1 DEF ScoredAs, SameShot, SameMarks
<1>3. CrownTrue(y)
  BY DEF ScoredAs
<1>4. QED
  BY <1>1, <1>2, <1>3 DEF Scored1, SameSeatsPaid, ShotsScored

LEMMA ScoredThenJudged ==
    ASSUME NEW x, NEW z, NEW y, Scored1(x, z), JudgedAs(z, y)
    PROVE  Judged1(x, y)
<1>1. /\ SameTerms(x, y) /\ y.validActions = x.validActions /\ Begun(x)
      /\ y.resolvedAtBlock = block
      /\ y.ending = IF x.validActions > 0 THEN "COMPLETED" ELSE "UNPLAYED"
      /\ y.status = IF x.validActions > 0 THEN "RESOLVED" ELSE "CANCELLED"
  BY DEF Scored1, JudgedAs, SameTerms
<1>2. ASSUME NEW w \in Players
      PROVE  /\ SameMarks(x.seats[w], y.seats[w])
             /\ y.seats[w].defendedAt = x.seats[w].defendedAt
             /\ x.seats[w].revealed => y.seats[w].revealed
             /\ y.seats[w].revealed => x.seats[w].revealed \/ x.seats[w].defendedAt # 0
  <2>1. SameShot(z.seats[w], y.seats[w]) /\ SameMarks(z.seats[w], y.seats[w])
    BY DEF JudgedAs
  <2>2. /\ SameMarks(x.seats[w], z.seats[w])
        /\ z.seats[w].defendedAt = x.seats[w].defendedAt
        /\ x.seats[w].revealed => z.seats[w].revealed
        /\ z.seats[w].revealed => x.seats[w].revealed \/ x.seats[w].defendedAt # 0
    BY DEF Scored1, SameSeatsPaid, ShotsScored
  <2>3. QED
    BY <2>1, <2>2 DEF SameShot, SameMarks
<1>3. CrownTrue(x) => CrownTrue(y)
  BY ShotsKeepCrown DEF Scored1, ShotsScored, JudgedAs
<1>4. QED
  BY <1>1, <1>2, <1>3 DEF Judged1, SameSeatsPaid, ShotsScored

(* What is written after the verdict moves only sums.                      *)
LEMMA JudgedThenKept ==
    ASSUME NEW x, NEW z, NEW y, Judged1(x, z), Kept(z, y)
    PROVE  Judged1(x, y) /\ Resting(z, y)
<1>1. z.status # "OPEN"
  BY DEF Judged1
<1>2. Resting(z, y)
  BY <1>1 DEF Kept, ClosedUnfilled
<1>3. /\ SameTerms(x, y) /\ y.validActions = x.validActions /\ Begun(x)
      /\ y.resolvedAtBlock = block
      /\ y.ending = IF x.validActions > 0 THEN "COMPLETED" ELSE "UNPLAYED"
      /\ y.status = IF x.validActions > 0 THEN "RESOLVED" ELSE "CANCELLED"
  BY <1>2 DEF Judged1, Resting, SameRound, SameTerms, SameVerdict
<1>4. ASSUME NEW w \in Players
      PROVE  /\ SameMarks(x.seats[w], y.seats[w])
             /\ y.seats[w].defendedAt = x.seats[w].defendedAt
             /\ x.seats[w].revealed => y.seats[w].revealed
             /\ y.seats[w].revealed => x.seats[w].revealed \/ x.seats[w].defendedAt # 0
  <2>1. SameShot(z.seats[w], y.seats[w]) /\ SameMarks(z.seats[w], y.seats[w])
    BY <1>2 DEF Resting, SameRound
  <2>2. /\ SameMarks(x.seats[w], z.seats[w])
        /\ z.seats[w].defendedAt = x.seats[w].defendedAt
        /\ x.seats[w].revealed => z.seats[w].revealed
        /\ z.seats[w].revealed => x.seats[w].revealed \/ x.seats[w].defendedAt # 0
    BY DEF Judged1, SameSeatsPaid, ShotsScored
  <2>3. QED
    BY <2>1, <2>2 DEF SameShot, SameMarks
<1>5. CrownTrue(x) => CrownTrue(y)
  BY <1>2, ShotsKeepCrown DEF Judged1, ShotsScored, Resting, SameRound
<1>6. Judged1(x, y)
  BY <1>3, <1>4, <1>5 DEF Judged1, SameSeatsPaid, ShotsScored
<1>7. QED
  BY <1>2, <1>6

(* A probe or a defense, on a running operation.                           *)
ActedAs(z, y) ==
    /\ SameTerms(z, y) /\ SameVerdict(z, y) /\ SameSeatsPaid(z, y)
    /\ y.status = z.status /\ y.ending = z.ending
    /\ \A w \in Players :
          \/ SameShot(z.seats[w], y.seats[w])
          \/ /\ z.seats[w].defendedAt = 0
             /\ y.seats[w].revealed = z.seats[w].revealed
             /\ y.seats[w].isWinner = z.seats[w].isWinner

LEMMA RunsThenActed ==
    ASSUME NEW x, NEW z, NEW y, Runs(x, z), ActedAs(z, y)
    PROVE  Acted(x, y)
<1>1. /\ SameTerms(x, y) /\ SameVerdict(x, y) /\ Begun(x)
      /\ y.status = "ACTIVE" /\ y.ending = x.ending
  BY DEF Runs, ActedAs, SameRound, SameTerms, SameVerdict
<1>2. ASSUME NEW w \in Players
      PROVE  /\ SameMarks(x.seats[w], y.seats[w])
             /\ \/ SameShot(x.seats[w], y.seats[w])
                \/ /\ x.seats[w].defendedAt = 0
                   /\ y.seats[w].revealed = x.seats[w].revealed
                   /\ y.seats[w].isWinner = x.seats[w].isWinner
  <2>1. SameShot(x.seats[w], z.seats[w]) /\ SameMarks(x.seats[w], z.seats[w])
    BY DEF Runs, SameRound, SameSeatsPaid
  <2>2. QED
    BY <2>1 DEF ActedAs, SameSeatsPaid, SameShot, SameMarks
<1>3. QED
  BY <1>1, <1>2 DEF Acted, SameSeatsPaid

LEMMA KeptThenReseated ==
    ASSUME NEW x, NEW z, NEW y, Kept(x, z), Reseated(z, y)
    PROVE  Reseated(x, y)
<1>1. Resting(x, z)
  BY KeptGoingIsResting DEF Reseated
<1>2. /\ SameRound(x, y) /\ x.status = "OPEN" /\ y.status = "OPEN"
      /\ y.ending = x.ending
  BY <1>1 DEF Resting, Reseated, SameRound, SameTerms, SameVerdict, SameShot
<1>3. \A w \in Players : /\ z.seats[w].joined = x.seats[w].joined
                        /\ z.seats[w].claimed = x.seats[w].claimed
                        /\ z.seats[w].refunded = x.seats[w].refunded
  BY <1>1 DEF Resting, SameMarks
<1>4. QED
  BY <1>2, <1>3 DEF Reseated

-----------------------------------------------------------------------------
(* The whole storage.                                                      *)

FairAttacks(n, s) == \A e \in EpochIds : FairAttack(n, s.attacks[e])

(* Everything but operation l, and no verdict.                             *)
Near(s, t, l) ==
    /\ Ids(s) \subseteq Ids(t)
    /\ \A m \in Ids(s) : m # l => Kept(s.lobbies[m], t.lobbies[m])
    /\ \A m \in Ids(t) : m \notin Ids(s) =>
          Fresh(t.lobbies[m]) /\ t.attacks[t.lobbies[m].epochId].status # "NONE"
    /\ \A e \in EpochIds : /\ AttackMoves(s.attacks[e], t.attacks[e])
                           /\ Quiet(s.attacks[e], t.attacks[e])
    /\ t.interceptedAttacks = s.interceptedAttacks
    /\ Calendar(s, t)

LEMMA AttackMovesReflexive ==
    \A a : AttackMoves(a, a) /\ Quiet(a, a)
BY DEF AttackMoves, Quiet

LEMMA UpkeepIsNear ==
    ASSUME NEW s, NEW t, NEW l, FairAttacks(block, s), Upkeep(s, t), Calendar(s, t)
    PROVE  Near(s, t, l)
<1>1. \A e \in EpochIds : /\ AttackMoves(s.attacks[e], t.attacks[e])
                         /\ Quiet(s.attacks[e], t.attacks[e])
  BY DrawnMoves DEF Upkeep, FairAttacks
<1>2. QED
  BY <1>1 DEF Upkeep, Near

LEMMA BesideIsNear ==
    ASSUME NEW s, NEW t, NEW l, Beside(s, t, l)
    PROVE  Near(s, t, l)
BY AttackMovesReflexive, RestingReflexive, BesideCalendar DEF Beside, Near, Kept

(* Only attacks moved.                                                     *)
LEMMA AttacksAreNear ==
    ASSUME NEW s, NEW t, NEW l, t.lobbies = s.lobbies, Unbooked(s, t),
           t.interceptedAttacks = s.interceptedAttacks,
           \A e \in EpochIds : /\ AttackMoves(s.attacks[e], t.attacks[e])
                              /\ Quiet(s.attacks[e], t.attacks[e])
    PROVE  Near(s, t, l)
<1>1. Ids(t) = Ids(s)
  BY DEF Ids
<1>2. Calendar(s, t)
  BY <1>1, CalendarStands
<1>3. QED
  BY <1>1, <1>2, RestingReflexive DEF Near, Kept

LEMMA NearThenNear ==
    ASSUME NEW s, NEW t, NEW u, NEW l \in Ids(s), Sound(s), Sound(t), Sound(u),
           block \in Nat, Near(s, t, l), Near(t, u, l)
    PROVE  Near(s, u, l)
<1>1. ASSUME NEW m \in Ids(s), m # l
      PROVE  Kept(s.lobbies[m], u.lobbies[m])
  <2>1. m \in Ids(t)
    BY DEF Near
  <2>2. Kept(s.lobbies[m], t.lobbies[m]) /\ Kept(t.lobbies[m], u.lobbies[m])
    BY <1>1, <2>1 DEF Near
  <2>3. QED
    BY <2>2, KeptThenKept
<1>2. ASSUME NEW e \in EpochIds
      PROVE  AttackMoves(s.attacks[e], u.attacks[e]) /\ Quiet(s.attacks[e], u.attacks[e])
  <2>1. /\ AttackMoves(s.attacks[e], t.attacks[e]) /\ Quiet(s.attacks[e], t.attacks[e])
        /\ AttackMoves(t.attacks[e], u.attacks[e]) /\ Quiet(t.attacks[e], u.attacks[e])
    BY DEF Near
  <2>2. QED
    BY <2>1, AttackMovesOn, QuietThenQuiet
<1>3. ASSUME NEW m \in Ids(u), m \notin Ids(s)
      PROVE  Fresh(u.lobbies[m]) /\ u.attacks[u.lobbies[m].epochId].status # "NONE"
  <2>1. CASE m \notin Ids(t)
    BY <2>1 DEF Near
  <2>2. CASE m \in Ids(t)
    <3>1. /\ Fresh(t.lobbies[m]) /\ t.attacks[t.lobbies[m].epochId].status # "NONE"
          /\ Kept(t.lobbies[m], u.lobbies[m])
      BY <1>3, <2>2 DEF Near
    <3>2. t.lobbies[m] \in SoundLobby /\ t.lobbies[m].epochId \in EpochIds
      BY <2>2, LobbyOf
    <3>3. Fresh(u.lobbies[m])
      BY <3>1, <3>2, FreshThenKept
    <3>4. u.lobbies[m].epochId = t.lobbies[m].epochId
      BY <3>1 DEF Kept, Resting, ClosedUnfilled, SameRound, SameTerms
    <3>5. AttackMoves(t.attacks[t.lobbies[m].epochId], u.attacks[t.lobbies[m].epochId])
      BY <3>2 DEF Near
    <3>6. QED
      BY <3>1, <3>3, <3>4, <3>5 DEF AttackMoves
  <2>3. QED
    BY <2>1, <2>2
<1>4. Calendar(s, u)
  <2>1. \A m \in Ids(t) : m \notin Ids(s) => SameTerms(t.lobbies[m], u.lobbies[m])
    BY KeptKeepsTerms DEF Near
  <2>2. \A e \in EpochIds : t.attacks[e].status # "NONE" =>
            /\ u.attacks[e].launchBlock = t.attacks[e].launchBlock
            /\ u.attacks[e].impactBlock = t.attacks[e].impactBlock
    BY DEF Near, AttackMoves
  <2>3. QED
    BY <2>1, <2>2, CalendarThenCalendar DEF Near
<1>5. QED
  BY <1>1, <1>2, <1>3, <1>4 DEF Near

LEMMA NearKeepsAttacksFair ==
    ASSUME NEW s, NEW t, NEW l, Sound(s), Sound(t), block \in Nat,
           FairAttacks(block, s), Near(s, t, l)
    PROVE  FairAttacks(block, t)
<1> SUFFICES ASSUME NEW e \in EpochIds
             PROVE  FairAttack(block, t.attacks[e])
  BY DEF FairAttacks
<1>1. /\ AttackMoves(s.attacks[e], t.attacks[e]) /\ FairAttack(block, s.attacks[e])
      /\ s.attacks[e] \in Attack /\ t.attacks[e] \in Attack
  BY StorageFields DEF Near, FairAttacks, SoundAttack
<1>2. QED
  BY <1>1, FairAttackMoves

(* A step of the contract, seen by its operations, its attacks and the     *)
(* planet's tally.                                                         *)
MoveOf(s, t, l) ==
    RoomMove(s.lobbies[l], t.lobbies[l],
             s.attacks[s.lobbies[l].epochId], t.attacks[s.lobbies[l].epochId])

(* No operation was judged and no attack intercepted.                      *)
NoVerdict(s, t) ==
    /\ t.interceptedAttacks = s.interceptedAttacks
    /\ \A e \in EpochIds : Quiet(s.attacks[e], t.attacks[e])
    /\ \A l \in Ids(s) : t.lobbies[l].resolvedAtBlock = s.lobbies[l].resolvedAtBlock

(* One operation was judged.                                               *)
OneVerdict(s, t) ==
    \E l \in Ids(s) :
        /\ Judged1(s.lobbies[l], t.lobbies[l])
        /\ \A m \in Ids(s) : m # l => Kept(s.lobbies[m], t.lobbies[m])
        /\ Tallied(s, t, s.lobbies[l].epochId, Winners(t.lobbies[l]) # {})

StepOf(s, t) ==
    /\ Ids(s) \subseteq Ids(t)
    /\ \A l \in Ids(s) : MoveOf(s, t, l)
    /\ \A l \in Ids(t) : l \notin Ids(s) =>
          Fresh(t.lobbies[l]) /\ t.attacks[t.lobbies[l].epochId].status # "NONE"
    /\ \A e \in EpochIds : AttackMoves(s.attacks[e], t.attacks[e])
    /\ NoVerdict(s, t) \/ OneVerdict(s, t)
    /\ Calendar(s, t)

LEMMA KeptKeepsVerdict ==
    ASSUME NEW x, NEW y, Kept(x, y)
    PROVE  /\ y.resolvedAtBlock = x.resolvedAtBlock /\ y.epochId = x.epochId
           /\ Winners(y) = Winners(x)
<1>1. SameRound(x, y)
  BY DEF Kept, Resting, ClosedUnfilled
<1>2. QED
  BY <1>1, ShotsKeepCrown DEF SameRound, SameTerms, SameVerdict

LEMMA NearStep ==
    ASSUME NEW s, NEW t, NEW l \in Ids(s), Near(s, t, l), MoveOf(s, t, l),
           t.lobbies[l].resolvedAtBlock = s.lobbies[l].resolvedAtBlock
    PROVE  StepOf(s, t)
<1>1. ASSUME NEW m \in Ids(s)
      PROVE  /\ MoveOf(s, t, m)
             /\ t.lobbies[m].resolvedAtBlock = s.lobbies[m].resolvedAtBlock
  BY KeptKeepsVerdict DEF Near, MoveOf, RoomMove
<1>2. NoVerdict(s, t)
  BY <1>1 DEF Near, NoVerdict
<1>3. QED
  BY <1>1, <1>2 DEF Near, StepOf

(* Upkeep and nothing else.                                                *)
LEMMA UpkeepStep ==
    ASSUME NEW s, NEW t, FairAttacks(block, s), Upkeep(s, t), Calendar(s, t)
    PROVE  StepOf(s, t)
<1>1. Near(s, t, 0)
  BY UpkeepIsNear
<1>2. ASSUME NEW m \in Ids(s)
      PROVE  /\ MoveOf(s, t, m)
             /\ t.lobbies[m].resolvedAtBlock = s.lobbies[m].resolvedAtBlock
  BY KeptKeepsVerdict DEF Upkeep, MoveOf, RoomMove
<1>3. NoVerdict(s, t)
  BY <1>1, <1>2 DEF Near, NoVerdict
<1>4. QED
  BY <1>1, <1>2, <1>3 DEF Near, StepOf

(* Only attacks moved.                                                     *)
LEMMA AttacksStep ==
    ASSUME NEW s, NEW t, t.lobbies = s.lobbies, Unbooked(s, t),
           t.interceptedAttacks = s.interceptedAttacks,
           \A e \in EpochIds : /\ AttackMoves(s.attacks[e], t.attacks[e])
                              /\ Quiet(s.attacks[e], t.attacks[e])
    PROVE  StepOf(s, t)
<1>1. \A l \in Ids(s) : MoveOf(s, t, l)
  BY RestingReflexive DEF MoveOf, RoomMove, Kept
<1>2. NoVerdict(s, t)
  BY DEF NoVerdict
<1>3. Ids(t) = Ids(s)
  BY DEF Ids
<1>4. Calendar(s, t)
  BY <1>3, CalendarStands
<1>5. QED
  BY <1>1, <1>2, <1>3, <1>4 DEF StepOf

-----------------------------------------------------------------------------
(* A call that ends in a verdict: what came before it, the verdict, and    *)
(* the draw's upkeep after it.                                             *)

LEMMA finalizeStep ==
    ASSUME NEW s, NEW p, NEW l \in Ids(s), Sound(s), Sound(p), block \in Nat,
           FairAttacks(block, s), Near(s, p, l),
           Scored1(s.lobbies[l], p.lobbies[l]),
           p.attacks[p.lobbies[l].epochId].revealed,
           Heard(p.lobbies[l], p.attacks[p.lobbies[l].epochId]),
           finalizeOK(p, l)
    PROVE  StepOf(s, finalize(p, l))
<1> DEFINE t == verdict(p, l)
           u == finalize(p, l)
           e == s.lobbies[l].epochId
<1>1. l \in Ids(p) /\ p.lobbies[l].status = "ACTIVE" /\ p.lobbies[l].epochId = e
  BY DEF Near, Scored1, SameTerms
<1>2. /\ Sound(t) /\ Ids(t) = Ids(p)
      /\ \A m \in Ids(p) : m # l => t.lobbies[m] = p.lobbies[m]
      /\ JudgedAs(p.lobbies[l], t.lobbies[l])
      /\ Tallied(p, t, e, Winners(t.lobbies[l]) # {})
      /\ \A f \in EpochIds : /\ AttackMoves(p.attacks[f], t.attacks[f])
                              /\ t.attacks[f].status = p.attacks[f].status
      /\ \A f \in EpochIds : f # e => t.attacks[f] = p.attacks[f]
      /\ Calendar(p, t)
  BY <1>1, verdictSound, verdictJudges, CalendarStands
<1>3. u = maybeOpenDraw(t) /\ maybeOpenDrawOK(t)
  BY DEF finalize, finalizeOK
<1>4. Sound(u) /\ Upkeep(t, u) /\ Calendar(t, u)
  BY <1>2, <1>3, maybeOpenDrawSound, maybeOpenDrawUpkeep
<1>5. e \in EpochIds /\ p.attacks[e] \in SoundAttack /\ p.attacks[e].status # "NONE"
  BY <1>1, LobbyOf DEF SoundAttack
<1> HIDE DEF t, u, e
<1>6. FairAttacks(block, p)
  BY NearKeepsAttacksFair
<1>7. FairAttacks(block, t)
  <2>1. \A f \in EpochIds : p.attacks[f] \in Attack /\ t.attacks[f] \in Attack
    BY <1>2, StorageFields DEF SoundAttack
  <2>2. QED
    BY <1>2, <1>6, <2>1, FairAttackMoves DEF FairAttacks
<1>8. Near(t, u, l)
  BY <1>4, <1>7, UpkeepIsNear
<1>9. Ids(s) \subseteq Ids(u)
  BY <1>2, <1>4 DEF Near, Upkeep
<1>10. ASSUME NEW m \in Ids(s), m # l
       PROVE  Kept(s.lobbies[m], u.lobbies[m])
  <2>1. m \in Ids(p) /\ Kept(s.lobbies[m], p.lobbies[m])
    BY <1>10 DEF Near
  <2>2. t.lobbies[m] = p.lobbies[m] /\ Kept(t.lobbies[m], u.lobbies[m])
    BY <1>2, <1>4, <1>10, <2>1 DEF Upkeep
  <2>3. QED
    BY <2>1, <2>2, KeptThenKept
<1>11. /\ Judged1(s.lobbies[l], u.lobbies[l])
       /\ Resting(t.lobbies[l], u.lobbies[l])
  <2>1. Judged1(s.lobbies[l], t.lobbies[l])
    BY <1>2, ScoredThenJudged
  <2>2. Kept(t.lobbies[l], u.lobbies[l])
    BY <1>1, <1>2, <1>4 DEF Upkeep
  <2>3. QED
    BY <2>1, <2>2, JudgedThenKept
<1>12. ASSUME NEW f \in EpochIds
       PROVE  AttackMoves(s.attacks[f], u.attacks[f])
  <2>1. /\ AttackMoves(s.attacks[f], p.attacks[f]) /\ AttackMoves(p.attacks[f], t.attacks[f])
        /\ AttackMoves(t.attacks[f], u.attacks[f])
    BY <1>2, <1>8 DEF Near
  <2>2. QED
    BY <2>1, AttackMovesOn
<1>13. /\ u.attacks[e].revealed /\ u.attacks[e].impactBlock = p.attacks[e].impactBlock
       /\ u.attacks[e].graceBlocks = p.attacks[e].graceBlocks
  <2>1. AttackMoves(p.attacks[e], t.attacks[e]) /\ AttackMoves(t.attacks[e], u.attacks[e])
    BY <1>2, <1>5, <1>8 DEF Near
  <2>2. AttackMoves(p.attacks[e], u.attacks[e])
    BY <2>1, AttackMovesOn
  <2>3. QED
    BY <1>1, <1>5, <2>2 DEF AttackMoves
<1>14. Heard(u.lobbies[l], u.attacks[e])
  <2>1. \A w \in Players : SameShot(p.lobbies[l].seats[w], u.lobbies[l].seats[w])
    BY <1>2, <1>11 DEF JudgedAs, Resting, SameRound, SameShot
  <2>2. Defenders(u.lobbies[l]) = Defenders(p.lobbies[l])
    BY <2>1, ShotsKeepCrown
  <2>3. \A w \in Defenders(p.lobbies[l]) : w \in Players
    BY DEF Defenders
  <2>4. QED
    BY <1>1, <1>13, <2>1, <2>2, <2>3 DEF Heard, SameShot
<1>15. \A m \in Ids(s) : MoveOf(s, u, m)
  <2>1. MoveOf(s, u, l)
    BY <1>11, <1>13, <1>14 DEF MoveOf, RoomMove, e
  <2>2. QED
    BY <1>10, <2>1 DEF MoveOf, RoomMove
<1>16. ASSUME NEW m \in Ids(u), m \notin Ids(s)
       PROVE  Fresh(u.lobbies[m]) /\ u.attacks[u.lobbies[m].epochId].status # "NONE"
  <2>1. CASE m \notin Ids(t)
    BY <1>4, <2>1 DEF Upkeep
  <2>2. CASE m \in Ids(t)
    <3>1. m # l /\ m \in Ids(p)
      BY <1>2, <1>16, <2>2
    <3>2. /\ Fresh(t.lobbies[m]) /\ t.attacks[t.lobbies[m].epochId].status # "NONE"
          /\ Kept(t.lobbies[m], u.lobbies[m])
      <4>1. /\ Fresh(p.lobbies[m]) /\ p.attacks[p.lobbies[m].epochId].status # "NONE"
            /\ p.lobbies[m].epochId \in EpochIds
        BY <1>16, <3>1, LobbyOf DEF Near
      <4>2. QED
        BY <1>2, <1>4, <3>1, <2>2, <4>1 DEF Upkeep
    <3>3. t.lobbies[m] \in SoundLobby /\ t.lobbies[m].epochId \in EpochIds
      BY <1>2, <2>2, LobbyOf
    <3>4. Fresh(u.lobbies[m])
      BY <3>2, <3>3, FreshThenKept
    <3>5. u.lobbies[m].epochId = t.lobbies[m].epochId
      BY <3>2, KeptKeepsVerdict
    <3>6. AttackMoves(t.attacks[t.lobbies[m].epochId], u.attacks[t.lobbies[m].epochId])
      BY <1>8, <3>3 DEF Near
    <3>7. QED
      BY <3>2, <3>4, <3>5, <3>6 DEF AttackMoves
  <2>3. QED
    BY <2>1, <2>2
<1>17. Tallied(s, u, e, Winners(u.lobbies[l]) # {})
  <2>1. Winners(u.lobbies[l]) = Winners(t.lobbies[l])
    BY <1>11, KeptKeepsVerdict DEF Kept
  <2>2. u.interceptedAttacks = t.interceptedAttacks /\ p.interceptedAttacks = s.interceptedAttacks
    BY <1>8 DEF Near
  <2>3. p.attacks[e].intercepted <=> s.attacks[e].intercepted
    <3>1. Quiet(s.attacks[e], p.attacks[e]) /\ FairAttack(block, s.attacks[e])
      BY <1>5 DEF Near, FairAttacks
    <3>2. QED
      BY <3>1 DEF Quiet, FairAttack
  <2>4. u.attacks[e].intercepted <=> t.attacks[e].intercepted
    <3>1. Quiet(t.attacks[e], u.attacks[e]) /\ t.attacks[e].status # "NONE"
      BY <1>2, <1>5, <1>8 DEF Near
    <3>2. QED
      BY <3>1 DEF Quiet
  <2>5. ASSUME NEW f \in EpochIds, f # e
        PROVE  Quiet(s.attacks[f], u.attacks[f])
    <3>1. /\ Quiet(s.attacks[f], p.attacks[f]) /\ AttackMoves(s.attacks[f], p.attacks[f])
          /\ Quiet(p.attacks[f], u.attacks[f])
      BY <1>2, <1>8, <2>5 DEF Near
    <3>2. QED
      BY <3>1, QuietThenQuiet
  <2> DEFINE won == Winners(t.lobbies[l]) # {}
  <2>6. /\ t.attacks[e].intercepted <=> p.attacks[e].intercepted \/ won
        /\ t.interceptedAttacks =
              IF won /\ ~p.attacks[e].intercepted
              THEN p.interceptedAttacks + 1 ELSE p.interceptedAttacks
    BY <1>2 DEF Tallied
  <2> HIDE DEF won
  <2>7. /\ u.attacks[e].intercepted <=> s.attacks[e].intercepted \/ won
        /\ u.interceptedAttacks =
              IF won /\ ~s.attacks[e].intercepted
              THEN s.interceptedAttacks + 1 ELSE s.interceptedAttacks
    BY <2>2, <2>3, <2>4, <2>6
  <2>8. QED
    BY <2>1, <2>5, <2>7 DEF Tallied, won
<1>18. OneVerdict(s, u)
  BY <1>10, <1>11, <1>17 DEF OneVerdict, e
<1>19. Calendar(s, u)
  <2>1. Calendar(s, t)
    <3>1. \A m \in Ids(p) : m \notin Ids(s) => SameTerms(p.lobbies[m], t.lobbies[m])
      BY <1>2 DEF SameTerms
    <3>2. \A f \in EpochIds : p.attacks[f].status # "NONE" =>
              /\ t.attacks[f].launchBlock = p.attacks[f].launchBlock
              /\ t.attacks[f].impactBlock = p.attacks[f].impactBlock
      BY <1>2 DEF AttackMoves
    <3>3. QED
      BY <1>2, <3>1, <3>2, CalendarThenCalendar DEF Near
  <2>2. \A m \in Ids(t) : SameTerms(t.lobbies[m], u.lobbies[m])
    BY <1>4, KeptKeepsTerms DEF Upkeep
  <2>3. \A f \in EpochIds : t.attacks[f].status # "NONE" =>
            /\ u.attacks[f].launchBlock = t.attacks[f].launchBlock
            /\ u.attacks[f].impactBlock = t.attacks[f].impactBlock
    BY <1>8 DEF Near, AttackMoves
  <2>4. Ids(s) \subseteq Ids(t) /\ Ids(t) \subseteq Ids(u)
    BY <1>2, <1>4 DEF Near, Upkeep
  <2>5. QED
    BY <1>2, <1>4, <2>1, <2>2, <2>3, <2>4, CalendarThenCalendar
<1>20. StepOf(s, u)
  BY <1>9, <1>12, <1>15, <1>16, <1>18, <1>19 DEF StepOf
<1>21. QED
  BY <1>20 DEF u

-----------------------------------------------------------------------------
(* Every action of the contract is such a step.                            *)

Fair(n, s) ==
    /\ FairAttacks(n, s)
    /\ \A l \in Ids(s) : FairLobby(n, s.lobbies[l], s.attacks[s.lobbies[l].epochId])

LEMMA AfterTheUpkeep ==
    ASSUME IInv, Fair(block, store), maybeOpenDrawOK(store), NEW l \in LobbyIds
    PROVE  LET s == maybeOpenDraw(store) IN
           /\ Sound(store) /\ Sound(s) /\ l \in Ids(store) /\ l \in Ids(s)
           /\ block \in Nat
           /\ Near(store, s, l) /\ Kept(store.lobbies[l], s.lobbies[l])
           /\ Upkeep(store, s)
<1>1. Sound(store) /\ block \in Nat /\ l \in Ids(store)
  BY DEF IInv, LobbyIds, Ids
<1>2. /\ Upkeep(store, maybeOpenDraw(store)) /\ Sound(maybeOpenDraw(store))
      /\ Calendar(store, maybeOpenDraw(store))
  BY <1>1, maybeOpenDrawUpkeep, maybeOpenDrawSound
<1>3. Near(store, maybeOpenDraw(store), l)
  BY <1>2, UpkeepIsNear DEF Fair
<1>4. QED
  BY <1>1, <1>2, <1>3 DEF Upkeep

(* Only the rules or the treasury moved.                                   *)
LEMMA GovernanceSteps ==
    ASSUME IInv, Governance
    PROVE  StepOf(store, store') /\ block' = block
<1>1. /\ store'.lobbies = store.lobbies /\ store'.attacks = store.attacks
      /\ store'.interceptedAttacks = store.interceptedAttacks /\ block' = block
      /\ store'.globalDefenseLobby = store.globalDefenseLobby
  BY DEF Governance, setParams, setGlobalDefenseInterval, setPaused,
         withdrawProtocolFees, IInv, Sound, SoundStorage
<1>2. QED
  BY <1>1, AttacksStep, AttackMovesReflexive DEF Unbooked

LEMMA createLobbySteps ==
    ASSUME IInv, Fair(block, store), NEW w \in Players, NEW config \in Configs,
           NEW d \in Nat, createLobby(w, config, d)
    PROVE  StepOf(store, store') /\ block' = block
<1> DEFINE s == maybeOpenDraw(store)
           t == mintLobby(s, config, d, w)
           fee == s.params.protocolJoinFee
<1>1. /\ maybeOpenDrawOK(store) /\ mintFits(s, d) /\ block' = block
      /\ d > block /\ config.minPlayers >= s.params.minPlayers
      /\ store' = [t EXCEPT !.protocolTreasury = t.protocolTreasury + fee,
                            !.balance = t.balance + config.startPrizePool + fee]
  BY DEF createLobby, validConfig
<1>2. /\ Sound(store) /\ Sound(s) /\ Upkeep(store, s) /\ Calendar(store, s)
      /\ block \in Nat
  BY <1>1, maybeOpenDrawUpkeep, maybeOpenDrawSound DEF IInv
<1> HIDE DEF s
<1>3. config \in LobbyConfig /\ w \in Players \cup {Game} /\ block < d
  BY <1>1, <1>2, ParamsAssumption
<1>4. Sound(t) /\ Upkeep(s, t) /\ Calendar(s, t)
  BY <1>1, <1>2, <1>3, mintLobbySound, mintLobbyUpkeep, mintLobbyCalendar
<1> HIDE DEF t, fee
<1>5. Upkeep(store, t) /\ Calendar(store, t)
  BY <1>2, <1>4, UpkeepThenUpkeep, UpkeepThenCalendar
<1>6. /\ store'.lobbies = t.lobbies /\ store'.attacks = t.attacks
      /\ store'.globalDefenseLobby = t.globalDefenseLobby
      /\ store'.interceptedAttacks = t.interceptedAttacks
  BY <1>1, <1>4 DEF Sound, SoundStorage
<1>7. Upkeep(store, store') /\ Calendar(store, store')
  BY <1>5, <1>6 DEF Upkeep, Calendar, Ids
<1>8. QED
  BY <1>1, <1>7, UpkeepStep DEF Fair

LEMMA openGlobalDefenseSteps ==
    ASSUME IInv, Fair(block, store), openGlobalDefense
    PROVE  StepOf(store, store') /\ block' = block
<1> DEFINE closed == maybeCloseDraw(store)
<1>1. /\ openDrawOK(closed) /\ store' = openDraw(closed) /\ block' = block
      /\ Sound(store) /\ block \in Nat
  BY DEF openGlobalDefense, IInv
<1>2. Sound(closed) /\ Upkeep(store, closed) /\ Calendar(store, closed)
  BY <1>1, maybeCloseDrawSound, maybeCloseDrawUpkeep
<1> HIDE DEF closed
<1>3. Sound(store') /\ Upkeep(closed, store') /\ Calendar(closed, store')
  BY <1>1, <1>2, openDrawSound, openDrawUpkeep
<1>4. Upkeep(store, store') /\ Calendar(store, store')
  BY <1>1, <1>2, <1>3, UpkeepThenUpkeep, UpkeepThenCalendar
<1>5. QED
  BY <1>1, <1>4, UpkeepStep DEF Fair

(* A call that only starts an operation.                                   *)
LEMMA startOperationSteps ==
    ASSUME IInv, Fair(block, store), NEW l \in LobbyIds, startOperation(l)
    PROVE  StepOf(store, store') /\ block' = block
<1>1. /\ Sound(store) /\ l \in Ids(store) /\ activateOK(store, l)
      /\ store' = activate(store, l) /\ block' = block
  BY DEF startOperation, IInv, LobbyIds, Ids
<1>2. Near(store, store', l) /\ Started(store.lobbies[l], store'.lobbies[l])
  BY <1>1, activateStarts, BesideIsNear
<1>3. /\ Scored1(store.lobbies[l], store'.lobbies[l])
         \/ Kept(store.lobbies[l], store'.lobbies[l])
      /\ store'.lobbies[l].resolvedAtBlock = store.lobbies[l].resolvedAtBlock
  <2>1. CASE store'.lobbies[l].status = "ACTIVE"
    <3>1. Runs(store.lobbies[l], store'.lobbies[l])
      BY <1>2, <2>1, StartedRuns
    <3>2. QED
      BY <3>1, RunsIsScored DEF Runs, SameRound, SameVerdict
  <2>2. CASE store'.lobbies[l].status # "ACTIVE"
    BY <1>2, <2>2 DEF Started, Kept, Resting, SameRound, SameVerdict
  <2>3. QED
    BY <2>1, <2>2
<1>4. MoveOf(store, store', l)
  BY <1>3 DEF MoveOf, RoomMove
<1>5. QED
  BY <1>1, <1>2, <1>3, <1>4, NearStep

LEMMA cancelLobbySteps ==
    ASSUME IInv, Fair(block, store), NEW l \in LobbyIds, cancelLobby(l)
    PROVE  StepOf(store, store') /\ block' = block
<1>1. /\ Sound(store) /\ l \in Ids(store) /\ store.lobbies[l].status = "OPEN"
      /\ block >= store.lobbies[l].deadlineBlock
      /\ store' = closeUnfilled(store, l) /\ block' = block
  BY DEF cancelLobby, lobbyOf, IInv, LobbyIds, Ids
<1>2. Upkeep(store, store') /\ Calendar(store, store')
  BY <1>1, closeUnfilledUpkeep
<1>3. QED
  BY <1>1, <1>2, UpkeepStep DEF Fair

(* What is written to one seat, beside sums, leaves the rest of the round. *)
LEMMA OneSeatWritten ==
    ASSUME NEW z, NEW x, NEW w \in Players, NEW y,
           z.seats \in [Players -> SoundSeat], x.seats = [z.seats EXCEPT ![w] = y]
    PROVE  /\ x.seats[w] = y
           /\ \A v \in Players : v # w => x.seats[v] = z.seats[v]
OBVIOUS

LEMMA joinLobbySteps ==
    ASSUME IInv, Fair(block, store), NEW w \in Players, NEW l \in LobbyIds, joinLobby(w, l)
    PROVE  StepOf(store, store') /\ block' = block
<1> DEFINE s     == maybeOpenDraw(store)
           lobby == s.lobbies[l]
           seat  == lobby.seats[w]
           cost  == joinPayment(lobby.entryPrice, lobby.creatorFeeBps)
           y     == [seat EXCEPT !.joined = TRUE, !.paidIn = cost]
           seats == [lobby.seats EXCEPT ![w] = y]
           fees  == lobby.entryFeesCollected + lobby.entryPrice
           own   == lobby.creatorFeeAccrued + cost - lobby.entryPrice
           x     == [lobby EXCEPT !.seats = seats, !.entryFeesCollected = fees,
                                  !.creatorFeeAccrued = own]
           held  == s.balance + cost
<1>1. /\ maybeOpenDrawOK(store) /\ block' = block /\ lobby.status = "OPEN"
      /\ store' = [s EXCEPT !.lobbies[l] = x, !.balance = held]
  BY DEF joinLobby, registrationOpen
<1>2. /\ Sound(store) /\ Sound(s) /\ l \in Ids(store) /\ l \in Ids(s) /\ block \in Nat
      /\ Near(store, s, l) /\ Kept(store.lobbies[l], s.lobbies[l])
  BY <1>1, AfterTheUpkeep
<1> HIDE DEF s
<1>3. store' = withLobby(s, l, x, s.globalDefensePool, held, s.activeLobbies)
  BY <1>1, <1>2 DEF withLobby, Sound, SoundStorage
<1>4. lobby \in SoundLobby /\ seat \in SoundSeat /\ lobby.seats \in [Players -> SoundSeat]
  BY <1>2, LobbyOf, SeatOf
<1> HIDE DEF cost, fees, own, held
<1>5. Beside(s, store', l) /\ store'.lobbies[l] = x
  <2> HIDE DEF x
  <2>1. QED
    BY <1>2, <1>3, WithLobbyBeside
<1> HIDE DEF lobby, seat
<1>6. SameShot(seat, y) /\ y.claimed = seat.claimed /\ y.refunded = seat.refunded
  BY <1>4 DEF SoundSeat, Seat, SameShot
<1>7. /\ x.seats = seats /\ SameTerms(lobby, x) /\ SameVerdict(lobby, x)
      /\ x.validActions = lobby.validActions
      /\ x.status = lobby.status /\ x.ending = lobby.ending
  BY <1>4 DEF SoundLobby, Lobby, SameTerms, SameVerdict
<1> HIDE DEF y, x
<1>8. x.seats[w] = y /\ \A v \in Players : v # w => x.seats[v] = lobby.seats[v]
  BY <1>4, <1>7, OneSeatWritten
<1>9. SameRound(lobby, x)
  BY <1>6, <1>7, <1>8 DEF SameRound, SameShot, seat
<1>10. Reseated(lobby, x)
  BY <1>1, <1>6, <1>7, <1>8, <1>9 DEF Reseated, seat
<1>11. /\ Reseated(store.lobbies[l], x)
       /\ x.resolvedAtBlock = store.lobbies[l].resolvedAtBlock
  BY <1>2, <1>10, KeptThenReseated DEF lobby, Reseated, SameRound, SameVerdict
<1>12. Sound(store')
  BY joinLobbySound DEF IInv
<1>13. Near(store, store', l)
  BY <1>2, <1>5, <1>12, BesideIsNear, NearThenNear
<1>14. MoveOf(store, store', l)
  BY <1>5, <1>11 DEF MoveOf, RoomMove
<1>15. QED
  BY <1>1, <1>2, <1>5, <1>11, <1>13, <1>14, NearStep

LEMMA leaveLobbySteps ==
    ASSUME IInv, NEW w \in Players, NEW l \in LobbyIds, leaveLobby(w, l)
    PROVE  StepOf(store, store') /\ block' = block
<1> DEFINE lobby == store.lobbies[l]
           seat  == lobby.seats[w]
           empty == [seat EXCEPT !.joined = FALSE, !.paidIn = 0,
                                 !.probesPurchased = 0, !.probesPaid = 0]
           fees  == lobby.entryFeesCollected - lobby.entryPrice
           own   == lobby.creatorFeeAccrued - commissionPaid(seat, lobby.entryPrice)
           pool  == lobby.rewardPool - seat.probesPaid
           x == [lobby EXCEPT !.seats = [lobby.seats EXCEPT ![w] = empty],
                              !.entryFeesCollected = fees,
                              !.creatorFeeAccrued = own, !.rewardPool = pool]
           left == store.balance - seat.paidIn
<1>1. /\ Sound(store) /\ l \in Ids(store) /\ block' = block /\ lobby.status = "OPEN"
      /\ store' = leave(store, l, w)
  BY DEF leaveLobby, leaveOK, IInv, LobbyIds, Ids
<1>2. store' = withLobby(store, l, x, store.globalDefensePool, left, store.activeLobbies)
  BY <1>1 DEF leave, withLobby, Sound, SoundStorage
<1>3. lobby \in SoundLobby /\ seat \in SoundSeat /\ lobby.seats \in [Players -> SoundSeat]
  BY <1>1, LobbyOf, SeatOf
<1> HIDE DEF fees, own, pool, left
<1>4. Beside(store, store', l) /\ store'.lobbies[l] = x
  <2> HIDE DEF x
  <2>1. QED
    BY <1>1, <1>2, WithLobbyBeside
<1> HIDE DEF lobby, seat
<1>5. /\ SameShot(seat, empty) /\ empty.claimed = seat.claimed
      /\ empty.refunded = seat.refunded
  BY <1>3 DEF SoundSeat, Seat, SameShot
<1> HIDE DEF empty
<1>6. /\ x.seats = [lobby.seats EXCEPT ![w] = empty]
      /\ SameTerms(lobby, x) /\ SameVerdict(lobby, x)
      /\ x.validActions = lobby.validActions
      /\ x.status = lobby.status /\ x.ending = lobby.ending
  BY <1>3 DEF SoundLobby, Lobby, SameTerms, SameVerdict
<1> HIDE DEF x
<1>7. x.seats[w] = empty /\ \A v \in Players : v # w => x.seats[v] = lobby.seats[v]
  BY <1>3, <1>6, OneSeatWritten
<1>8. SameRound(lobby, x)
  BY <1>5, <1>6, <1>7 DEF SameRound, SameShot, seat
<1>9. Reseated(lobby, x)
  BY <1>1, <1>5, <1>6, <1>7, <1>8 DEF Reseated, seat
<1>10. x.resolvedAtBlock = lobby.resolvedAtBlock
  BY <1>6 DEF SameVerdict
<1>11. MoveOf(store, store', l)
  BY <1>4, <1>9 DEF MoveOf, RoomMove, lobby
<1>12. QED
  BY <1>1, <1>4, <1>10, <1>11, BesideIsNear, NearStep DEF lobby

LEMMA buyProbesSteps ==
    ASSUME IInv, Fair(block, store), NEW w \in Players, NEW l \in LobbyIds,
           NEW count \in Nat, buyProbes(w, l, count)
    PROVE  StepOf(store, store') /\ block' = block
<1> DEFINE s     == maybeOpenDraw(store)
           lobby == s.lobbies[l]
           seat  == lobby.seats[w]
           cost  == s.params.probePrice * count
           bought == seat.probesPurchased + count
           spent == seat.probesPaid + cost
           paid  == seat.paidIn + cost
           y     == [seat EXCEPT !.probesPurchased = bought, !.probesPaid = spent,
                                 !.paidIn = paid]
           seats == [lobby.seats EXCEPT ![w] = y]
           pool  == lobby.rewardPool + cost
           x     == [lobby EXCEPT !.seats = seats, !.rewardPool = pool]
           held  == s.balance + cost
<1>1. /\ maybeOpenDrawOK(store) /\ block' = block
      /\ store' = [s EXCEPT !.lobbies[l] = x, !.balance = held]
  BY DEF buyProbes
<1>2. /\ Sound(store) /\ Sound(s) /\ l \in Ids(store) /\ l \in Ids(s) /\ block \in Nat
      /\ Near(store, s, l) /\ Kept(store.lobbies[l], s.lobbies[l])
  BY <1>1, AfterTheUpkeep
<1> HIDE DEF s
<1>3. store' = withLobby(s, l, x, s.globalDefensePool, held, s.activeLobbies)
  BY <1>1, <1>2 DEF withLobby, Sound, SoundStorage
<1>4. lobby \in SoundLobby /\ seat \in SoundSeat /\ lobby.seats \in [Players -> SoundSeat]
  BY <1>2, LobbyOf, SeatOf
<1> HIDE DEF cost, bought, spent, paid, pool, held
<1>5. Beside(s, store', l) /\ store'.lobbies[l] = x
  <2> HIDE DEF x
  <2>1. QED
    BY <1>2, <1>3, WithLobbyBeside
<1> HIDE DEF lobby, seat
<1>6. SameShot(seat, y) /\ SameMarks(seat, y)
  BY <1>4 DEF SoundSeat, Seat, SameShot, SameMarks
<1>7. /\ x.seats = seats /\ SameTerms(lobby, x) /\ SameVerdict(lobby, x)
      /\ x.validActions = lobby.validActions
      /\ x.status = lobby.status /\ x.ending = lobby.ending
  BY <1>4 DEF SoundLobby, Lobby, SameTerms, SameVerdict
<1> HIDE DEF y, x
<1>8. x.seats[w] = y /\ \A v \in Players : v # w => x.seats[v] = lobby.seats[v]
  BY <1>4, <1>7, OneSeatWritten
<1>9. Resting(lobby, x)
  BY <1>6, <1>7, <1>8 DEF Resting, SameRound, SameShot, SameMarks, seat
<1>10. Kept(store.lobbies[l], x)
  BY <1>2, <1>9, KeptThenKept DEF lobby, Kept
<1>11. Sound(store')
  BY buyProbesSound DEF IInv
<1>12. Near(store, store', l)
  BY <1>2, <1>5, <1>11, BesideIsNear, NearThenNear
<1>13. MoveOf(store, store', l)
  BY <1>5, <1>10 DEF MoveOf, RoomMove
<1>14. QED
  BY <1>1, <1>2, <1>5, <1>10, <1>12, <1>13, KeptKeepsVerdict, NearStep

-----------------------------------------------------------------------------
(* A probe or a defense.                                                   *)

moved(s, l, w, y) ==
    [s EXCEPT !.lobbies[l] = [s.lobbies[l] EXCEPT !.seats[w] = y, !.validActions = @ + 1],
              !.attacks[s.lobbies[l].epochId] = launched(@)]

LEMMA launchedMoves ==
    ASSUME NEW a \in Attack
    PROVE  /\ AttackMoves(a, launched(a)) /\ Quiet(a, launched(a))
           /\ a.status = "NONE" => launched(a).status = "NONE"
BY DEF launched, AttackMoves, Quiet, Attack

LEMMA movedActs ==
    ASSUME NEW s, Sound(s), NEW l \in Ids(s), NEW w \in Players, NEW y,
           s.lobbies[l].seats[w].defendedAt = 0,
           SameMarks(s.lobbies[l].seats[w], y),
           y.revealed = s.lobbies[l].seats[w].revealed,
           y.isWinner = s.lobbies[l].seats[w].isWinner
    PROVE  Near(s, moved(s, l, w, y), l) /\ ActedAs(s.lobbies[l], moved(s, l, w, y).lobbies[l])
<1> DEFINE lobby == s.lobbies[l]
           e     == lobby.epochId
           seats == [lobby.seats EXCEPT ![w] = y]
           moves == lobby.validActions + 1
           x     == [lobby EXCEPT !.seats = seats, !.validActions = moves]
           t     == withLobby(s, l, x, s.globalDefensePool, s.balance, s.activeLobbies)
           a     == launched(s.attacks[e])
           u     == moved(s, l, w, y)
<1>1. u = [s EXCEPT !.lobbies = [s.lobbies EXCEPT ![l] = x],
                    !.attacks = [s.attacks EXCEPT ![e] = a]]
  BY DEF moved, Sound, SoundStorage
<1>2. /\ lobby \in SoundLobby /\ e \in EpochIds /\ s.attacks[e] \in SoundAttack
      /\ lobby.seats \in [Players -> SoundSeat]
      /\ s.attacks \in [EpochIds -> SoundAttack]
  BY LobbyOf, SeatOf, StorageFields
<1> HIDE DEF u
<1>3. Beside(s, t, l) /\ t.lobbies[l] = x
  <2> HIDE DEF x
  <2>1. QED
    BY WithLobbyBeside
<1>4. /\ u.lobbies = t.lobbies /\ u.interceptedAttacks = t.interceptedAttacks
      /\ u.globalDefenseLobby = t.globalDefenseLobby
      /\ \A f \in EpochIds : u.attacks[f] = IF f = e THEN a ELSE s.attacks[f]
  <2> HIDE DEF lobby, x, a, e
  <2>1. QED
    BY <1>1, <1>2 DEF withLobby, Sound, SoundStorage
<1>5. /\ AttackMoves(s.attacks[e], a) /\ Quiet(s.attacks[e], a)
      /\ s.attacks[e].status = "NONE" => a.status = "NONE"
  BY <1>2, launchedMoves DEF SoundAttack
<1> HIDE DEF t, a
<1>6. Near(s, u, l)
  <2>1. \A f \in EpochIds : /\ AttackMoves(s.attacks[f], u.attacks[f])
                           /\ Quiet(s.attacks[f], u.attacks[f])
    BY <1>4, <1>5, AttackMovesReflexive
  <2>2. \A m \in Ids(s) : m # l => Kept(s.lobbies[m], u.lobbies[m])
    BY <1>3, <1>4, RestingReflexive DEF Beside, Kept
  <2>3. Ids(u) = Ids(s) /\ u.interceptedAttacks = s.interceptedAttacks
    BY <1>3, <1>4 DEF Beside, Ids
  <2>4. Unbooked(s, u)
    BY <1>3, <1>4, <1>5 DEF Beside, Unbooked
  <2>5. QED
    BY <2>1, <2>2, <2>3, <2>4, CalendarStands DEF Near
<1> HIDE DEF lobby
<1>7. /\ x.seats = seats /\ SameTerms(lobby, x) /\ SameVerdict(lobby, x)
      /\ x.status = lobby.status /\ x.ending = lobby.ending
  BY <1>2 DEF SoundLobby, Lobby, SameTerms, SameVerdict
<1> HIDE DEF x
<1>8. x.seats[w] = y /\ \A v \in Players : v # w => x.seats[v] = lobby.seats[v]
  BY <1>2, <1>7, OneSeatWritten
<1>9. ActedAs(lobby, x)
  BY <1>7, <1>8 DEF ActedAs, SameSeatsPaid, SameShot, SameMarks, lobby
<1>10. QED
  BY <1>3, <1>4, <1>6, <1>9 DEF lobby, u

LEMMA MovedSteps ==
    ASSUME NEW s, Sound(s), NEW l \in Ids(s), l \in Ids(store), NEW w \in Players, NEW y,
           Sound(store), Fair(block, store), block \in Nat,
           Near(store, s, l), Runs(store.lobbies[l], s.lobbies[l]),
           inFlight(s.attacks[s.lobbies[l].epochId]),
           s.lobbies[l].seats[w].defendedAt = 0,
           SameMarks(s.lobbies[l].seats[w], y),
           y.revealed = s.lobbies[l].seats[w].revealed,
           y.isWinner = s.lobbies[l].seats[w].isWinner,
           store' = moved(s, l, w, y), Sound(store')
    PROVE  StepOf(store, store')
<1> DEFINE e == store.lobbies[l].epochId
<1>1. Near(s, store', l) /\ ActedAs(s.lobbies[l], store'.lobbies[l])
  BY movedActs
<1>2. Near(store, store', l)
  BY <1>1, NearThenNear
<1>3. Acted(store.lobbies[l], store'.lobbies[l])
  BY <1>1, RunsThenActed
<1>4. ~store.attacks[e].decryptionUnlocked
  <2>1. e \in EpochIds /\ s.lobbies[l].epochId = e
    BY LobbyOf DEF Runs, SameRound, SameTerms
  <2>2. /\ AttackMoves(store.attacks[e], s.attacks[e])
        /\ FairAttack(block, store.attacks[e]) /\ store.attacks[e].status # "NONE"
    BY <2>1 DEF Near, Fair, FairAttacks, FairLobby
  <2>3. block < store.attacks[e].impactBlock
    BY <2>1, <2>2 DEF AttackMoves, inFlight
  <2>4. store.attacks[e].impactBlock \in Nat
    BY <2>1, StorageFields DEF SoundAttack, Attack
  <2>5. ~(block >= store.attacks[e].impactBlock)
    BY <2>3, <2>4
  <2>6. QED
    BY <2>2, <2>5, Zenon DEF FairAttack
<1>5. MoveOf(store, store', l)
  BY <1>3, <1>4 DEF MoveOf, RoomMove
<1>6. store'.lobbies[l].resolvedAtBlock = store.lobbies[l].resolvedAtBlock
  BY <1>3 DEF Acted, SameVerdict
<1>7. QED
  BY <1>2, <1>5, <1>6, NearStep

LEMMA sendProbeSteps ==
    ASSUME IInv, Fair(block, store), NEW w \in Players, NEW l \in LobbyIds, sendProbe(w, l)
    PROVE  StepOf(store, store') /\ block' = block
<1> DEFINE s     == maybeOpenDraw(store)
           ready == activate(s, l)
           seat  == ready.lobbies[l].seats[w]
           y     == [seat EXCEPT !.probesUsed = @ + 1, !.lastProbeBlock = block]
<1>1. /\ maybeOpenDrawOK(store) /\ block' = block /\ activateOK(s, l)
      /\ seat.defendedAt = 0 /\ ready.lobbies[l].status = "ACTIVE"
      /\ inFlight(ready.attacks[ready.lobbies[l].epochId])
      /\ store' = moved(ready, l, w, y)
  BY DEF sendProbe, mayAct, moved
<1>2. /\ Sound(store) /\ Sound(s) /\ l \in Ids(store) /\ l \in Ids(s) /\ block \in Nat
      /\ Near(store, s, l) /\ Kept(store.lobbies[l], s.lobbies[l])
  BY <1>1, AfterTheUpkeep
<1>3. /\ Sound(ready) /\ Ids(ready) = Ids(s) /\ Beside(s, ready, l)
      /\ Started(s.lobbies[l], ready.lobbies[l])
  BY <1>1, <1>2, activateSound, activateStarts
<1> HIDE DEF s, ready
<1>4. seat \in SoundSeat
  BY <1>2, <1>3, SeatOf
<1> HIDE DEF seat
<1>5. /\ SameMarks(seat, y)
      /\ y.revealed = seat.revealed /\ y.isWinner = seat.isWinner
  BY <1>4 DEF SoundSeat, Seat, SameMarks
<1> HIDE DEF y
<1>6. Sound(store')
  BY sendProbeSound DEF IInv
<1>7. Runs(store.lobbies[l], ready.lobbies[l])
  BY <1>1, <1>2, <1>3, StartedRuns, KeptThenRuns
<1>8. Near(store, ready, l)
  BY <1>2, <1>3, BesideIsNear, NearThenNear
<1>9. QED
  BY <1>1, <1>2, <1>3, <1>5, <1>6, <1>7, <1>8, MovedSteps DEF seat

LEMMA submitDefenseSteps ==
    ASSUME IInv, Fair(block, store), NEW w \in Players, NEW l \in LobbyIds, submitDefense(w, l)
    PROVE  StepOf(store, store') /\ block' = block
<1> DEFINE s     == maybeOpenDraw(store)
           ready == activate(s, l)
           seat  == ready.lobbies[l].seats[w]
           y     == [seat EXCEPT !.defendedAt = block]
<1>1. /\ maybeOpenDrawOK(store) /\ block' = block /\ activateOK(s, l)
      /\ seat.defendedAt = 0 /\ ready.lobbies[l].status = "ACTIVE"
      /\ inFlight(ready.attacks[ready.lobbies[l].epochId])
      /\ store' = moved(ready, l, w, y)
  BY DEF submitDefense, mayAct, moved
<1>2. /\ Sound(store) /\ Sound(s) /\ l \in Ids(store) /\ l \in Ids(s) /\ block \in Nat
      /\ Near(store, s, l) /\ Kept(store.lobbies[l], s.lobbies[l])
  BY <1>1, AfterTheUpkeep
<1>3. /\ Sound(ready) /\ Ids(ready) = Ids(s) /\ Beside(s, ready, l)
      /\ Started(s.lobbies[l], ready.lobbies[l])
  BY <1>1, <1>2, activateSound, activateStarts
<1> HIDE DEF s, ready
<1>4. seat \in SoundSeat
  BY <1>2, <1>3, SeatOf
<1> HIDE DEF seat
<1>5. /\ SameMarks(seat, y)
      /\ y.revealed = seat.revealed /\ y.isWinner = seat.isWinner
  BY <1>4 DEF SoundSeat, Seat, SameMarks
<1> HIDE DEF y
<1>6. Sound(store')
  BY submitDefenseSound DEF IInv
<1>7. Runs(store.lobbies[l], ready.lobbies[l])
  BY <1>1, <1>2, <1>3, StartedRuns, KeptThenRuns
<1>8. Near(store, ready, l)
  BY <1>2, <1>3, BesideIsNear, NearThenNear
<1>9. QED
  BY <1>1, <1>2, <1>3, <1>5, <1>6, <1>7, <1>8, MovedSteps DEF seat

-----------------------------------------------------------------------------
(* Landing, publishing and expiring an attack.                             *)

(* One attack written.                                                     *)
LEMMA AttackWritten ==
    ASSUME NEW s, Sound(s), NEW e \in EpochIds, NEW a, s.attacks[e].status # "NONE",
           AttackMoves(s.attacks[e], a), Quiet(s.attacks[e], a)
    PROVE  LET t == [s EXCEPT !.attacks = [s.attacks EXCEPT ![e] = a]] IN
           /\ t.lobbies = s.lobbies /\ t.interceptedAttacks = s.interceptedAttacks
           /\ Unbooked(s, t)
           /\ t.attacks[e] = a
           /\ \A f \in EpochIds : /\ AttackMoves(s.attacks[f], t.attacks[f])
                                  /\ Quiet(s.attacks[f], t.attacks[f])
<1> DEFINE t == [s EXCEPT !.attacks = [s.attacks EXCEPT ![e] = a]]
<1>1. /\ t.lobbies = s.lobbies /\ t.interceptedAttacks = s.interceptedAttacks
      /\ t.attacks = [s.attacks EXCEPT ![e] = a]
      /\ t.globalDefenseLobby = s.globalDefenseLobby
  BY DEF Sound, SoundStorage
<1> HIDE DEF t
<1>2. \A f \in EpochIds : t.attacks[f] = IF f = e THEN a ELSE s.attacks[f]
  BY <1>1, StorageFields
<1>3. \A f \in EpochIds : /\ AttackMoves(s.attacks[f], t.attacks[f])
                         /\ Quiet(s.attacks[f], t.attacks[f])
  BY <1>2, AttackMovesReflexive
<1>4. Unbooked(s, t)
  BY <1>1, <1>2 DEF Unbooked
<1>5. QED
  BY <1>1, <1>2, <1>3, <1>4 DEF t

LEMMA completeAttackSteps ==
    ASSUME IInv, NEW e \in EpochIds, completeAttack(e)
    PROVE  StepOf(store, store') /\ block' = block
<1> DEFINE attack == store.attacks[e]
           a == [attack EXCEPT !.status = "COMPLETED", !.decryptionUnlocked = TRUE]
<1>1. /\ Sound(store) /\ attack \in SoundAttack /\ block' = block
      /\ attack.status # "NONE" /\ block >= attack.impactBlock
      /\ store' = [store EXCEPT !.attacks = [store.attacks EXCEPT ![e] = a]]
  BY StorageFields DEF IInv, completeAttack, completeAttackOK
<1> HIDE DEF attack
<1>2. AttackMoves(attack, a) /\ Quiet(attack, a)
  BY <1>1 DEF SoundAttack, Attack, AttackMoves, Quiet
<1> HIDE DEF a
<1>3. /\ store'.lobbies = store.lobbies
      /\ store'.interceptedAttacks = store.interceptedAttacks /\ Unbooked(store, store')
      /\ \A f \in EpochIds : /\ AttackMoves(store.attacks[f], store'.attacks[f])
                             /\ Quiet(store.attacks[f], store'.attacks[f])
  BY <1>1, <1>2, AttackWritten DEF attack
<1>4. QED
  BY <1>1, <1>3, AttacksStep

LEMMA revealMoves ==
    ASSUME NEW s, Sound(s), NEW e \in EpochIds, revealOK(s, e)
    PROVE  LET t == reveal(s, e) IN
           /\ t.lobbies = s.lobbies /\ t.interceptedAttacks = s.interceptedAttacks
           /\ Unbooked(s, t)
           /\ \A f \in EpochIds : /\ AttackMoves(s.attacks[f], t.attacks[f])
                                  /\ Quiet(s.attacks[f], t.attacks[f])
<1> DEFINE attack == s.attacks[e]
           a == [attack EXCEPT !.revealed = TRUE, !.status = "RESOLVED"]
<1>1. /\ attack \in SoundAttack /\ attack.status # "NONE" /\ attack.decryptionUnlocked
      /\ reveal(s, e) = [s EXCEPT !.attacks = [s.attacks EXCEPT ![e] = a]]
  BY StorageFields DEF revealOK, reveal, Sound, SoundStorage
<1> HIDE DEF attack
<1>2. AttackMoves(attack, a) /\ Quiet(attack, a)
  BY <1>1 DEF SoundAttack, Attack, AttackMoves, Quiet
<1> HIDE DEF a
<1>3. QED
  BY <1>1, <1>2, AttackWritten DEF attack

LEMMA revealEpochAttackSteps ==
    ASSUME IInv, NEW e \in EpochIds, revealEpochAttack(e)
    PROVE  StepOf(store, store') /\ block' = block
<1>1. /\ Sound(store) /\ revealOK(store, e) /\ store' = reveal(store, e)
      /\ block' = block
  BY DEF IInv, revealEpochAttack
<1>2. QED
  BY <1>1, revealMoves, AttacksStep

LEMMA expireAttackSteps ==
    ASSUME IInv, Fair(block, store), NEW l \in LobbyIds, expireAttack(l)
    PROVE  StepOf(store, store') /\ block' = block
<1> DEFINE lobby  == store.lobbies[l]
           e      == lobby.epochId
           attack == store.attacks[e]
           a == [attack EXCEPT !.expired = TRUE, !.status = "RESOLVED"]
           x == [lobby EXCEPT !.status = "CANCELLED", !.ending = "CANCELLED"]
           active == oneFewer(store.activeLobbies)
           t == [store EXCEPT !.attacks = [store.attacks EXCEPT ![e] = a]]
           u == withLobby(store, l, x, store.globalDefensePool, store.balance, active)
<1>1. Sound(store) /\ l \in Ids(store) /\ e \in EpochIds
  BY LobbyOf DEF IInv, LobbyIds, Ids
<1>2. /\ lobby \in SoundLobby /\ attack \in SoundAttack /\ attack.status # "NONE"
      /\ lobby.resolvedAtBlock # 0 => attack.revealed
  BY <1>1, LobbyOf DEF Fair, FairLobby
<1>3. /\ ~attack.revealed /\ block' = block /\ block >= attack.impactBlock + lobby.graceBlocks
      /\ store' = [store EXCEPT !.attacks[e] = a, !.lobbies[l] = x, !.activeLobbies = active]
  BY DEF expireAttack, unpublished, lobbyOf
<1>4. /\ store'.lobbies = u.lobbies /\ store'.attacks = t.attacks
      /\ store'.interceptedAttacks = store.interceptedAttacks
      /\ store'.globalDefenseLobby = store.globalDefenseLobby
  <2> HIDE DEF a, x, e, active
  <2>1. QED
    BY <1>1, <1>3 DEF withLobby, Sound, SoundStorage
<1>5. Beside(store, u, l) /\ u.lobbies[l] = x
  <2> HIDE DEF x, active
  <2>1. QED
    BY <1>1, WithLobbyBeside
<1> HIDE DEF lobby, attack, u
<1>6. AttackMoves(attack, a) /\ Quiet(attack, a)
  <2>1. block >= attack.impactBlock
    <3>1. block \in Nat /\ attack.impactBlock \in Nat /\ lobby.graceBlocks \in Nat
      BY <1>2, LobbyFields DEF IInv, SoundAttack, Attack
    <3>2. QED
      BY <1>3, <3>1
  <2>2. QED
    BY <1>2, <2>1 DEF SoundAttack, Attack, AttackMoves, Quiet
<1> HIDE DEF a, e
<1>7. /\ \A f \in EpochIds : /\ AttackMoves(store.attacks[f], store'.attacks[f])
                             /\ Quiet(store.attacks[f], store'.attacks[f])
      /\ Unbooked(store, store')
  BY <1>1, <1>2, <1>4, <1>6, AttackWritten DEF attack, Unbooked
<1> HIDE DEF t
<1>8. Expired(lobby, x) /\ x.resolvedAtBlock = lobby.resolvedAtBlock
  <2>1. /\ x.seats = lobby.seats /\ SameTerms(lobby, x) /\ SameVerdict(lobby, x)
        /\ x.validActions = lobby.validActions
        /\ x.status = "CANCELLED" /\ x.ending = "CANCELLED"
    BY <1>2 DEF SoundLobby, Lobby, SameTerms, SameVerdict
  <2> HIDE DEF x
  <2>2. QED
    BY <2>1 DEF Expired, SameRound, SameSeatsPaid, SameShot, SameMarks, SameVerdict
<1> HIDE DEF x
<1>9. Near(store, store', l)
  <2>1. /\ Ids(store') = Ids(store)
        /\ \A m \in Ids(store) : m # l => store'.lobbies[m] = store.lobbies[m]
    BY <1>4, <1>5 DEF Beside, Ids
  <2>2. \A m \in Ids(store) : m # l => Kept(store.lobbies[m], store'.lobbies[m])
    BY <2>1, RestingReflexive DEF Kept
  <2>3. QED
    BY <1>4, <1>7, <2>1, <2>2, CalendarStands DEF Near
<1>10. MoveOf(store, store', l)
  BY <1>3, <1>4, <1>5, <1>8 DEF MoveOf, RoomMove, lobby, attack, e
<1>11. QED
  BY <1>1, <1>3, <1>4, <1>5, <1>8, <1>9, <1>10, NearStep DEF lobby

-----------------------------------------------------------------------------
(* Payouts.                                                                *)

LEMMA settleCreatorSteps ==
    ASSUME IInv, NEW l \in LobbyIds, settleCreator(l)
    PROVE  StepOf(store, store') /\ block' = block
<1> DEFINE lobby == store.lobbies[l]
           amount == creatorDue(lobby)
           home == lobby.creator = Game
           pool == IF home THEN store.globalDefensePool + amount ELSE store.globalDefensePool
           left == IF home THEN store.balance ELSE store.balance - amount
           x == [lobby EXCEPT !.creatorSettled = TRUE]
<1>1. /\ Sound(store) /\ l \in Ids(store) /\ lobby \in SoundLobby
  BY LobbyOf DEF IInv, LobbyIds, Ids
<1>2. block' = block /\ store' = withLobby(store, l, x, pool, left, store.activeLobbies)
  BY <1>1 DEF settleCreator, lobbyOf, withLobby, Sound, SoundStorage
<1> HIDE DEF pool, left
<1>3. Beside(store, store', l) /\ store'.lobbies[l] = x
  <2> HIDE DEF x
  <2>1. QED
    BY <1>1, <1>2, WithLobbyBeside
<1> HIDE DEF lobby
<1>4. /\ x.seats = lobby.seats /\ SameTerms(lobby, x) /\ SameVerdict(lobby, x)
      /\ x.validActions = lobby.validActions
      /\ x.status = lobby.status /\ x.ending = lobby.ending
  BY <1>1 DEF SoundLobby, Lobby, SameTerms, SameVerdict
<1> HIDE DEF x
<1>5. Resting(lobby, x)
  BY <1>4 DEF Resting, SameRound, SameShot, SameMarks
<1>6. MoveOf(store, store', l) /\ x.resolvedAtBlock = lobby.resolvedAtBlock
  BY <1>3, <1>4, <1>5 DEF MoveOf, RoomMove, Kept, SameVerdict, lobby
<1>7. QED
  BY <1>1, <1>2, <1>3, <1>6, BesideIsNear, NearStep DEF lobby

(* A seat is paid or paid back.                                            *)
LEMMA PaidSteps ==
    ASSUME IInv, NEW w \in Players, NEW l \in Ids(store), NEW x, NEW y, NEW balance,
           store' = withLobby(store, l, x, store.globalDefensePool, balance,
                              store.activeLobbies),
           x.seats = [store.lobbies[l].seats EXCEPT ![w] = y],
           SameTerms(store.lobbies[l], x), SameVerdict(store.lobbies[l], x),
           x.validActions = store.lobbies[l].validActions,
           x.status = store.lobbies[l].status, x.ending = store.lobbies[l].ending,
           x.ending # "NONE",
           SameShot(store.lobbies[l].seats[w], y),
           y.joined = store.lobbies[l].seats[w].joined,
           store.lobbies[l].seats[w].claimed => y.claimed,
           store.lobbies[l].seats[w].refunded => y.refunded,
           SameMarks(store.lobbies[l].seats[w], y) \/ store.lobbies[l].seats[w].joined
    PROVE  StepOf(store, store')
<1> DEFINE lobby == store.lobbies[l]
<1>1. Sound(store) /\ lobby.seats \in [Players -> SoundSeat]
  BY SeatOf DEF IInv
<1>2. Beside(store, store', l) /\ store'.lobbies[l] = x
  BY <1>1, WithLobbyBeside
<1>3. x.seats[w] = y /\ \A v \in Players : v # w => x.seats[v] = lobby.seats[v]
  BY <1>1, OneSeatWritten
<1>4. SameRound(lobby, x)
  BY <1>3 DEF SameRound, SameShot
<1>5. /\ \A v \in Players : /\ x.seats[v].joined = lobby.seats[v].joined
                            /\ lobby.seats[v].claimed => x.seats[v].claimed
                            /\ lobby.seats[v].refunded => x.seats[v].refunded
      /\ \A v \in Players : v # w => SameMarks(lobby.seats[v], x.seats[v])
      /\ SameMarks(lobby.seats[w], x.seats[w]) \/ lobby.seats[w].joined
  BY <1>3 DEF SameMarks
<1>6. Paid1(lobby, x)
  BY <1>4, <1>5 DEF Paid1
<1>7. MoveOf(store, store', l) /\ x.resolvedAtBlock = lobby.resolvedAtBlock
  BY <1>2, <1>6 DEF MoveOf, RoomMove, SameVerdict
<1>8. QED
  BY <1>2, <1>7, BesideIsNear, NearStep

LEMMA claimRewardSteps ==
    ASSUME IInv, NEW w \in Players, NEW l \in LobbyIds, claimReward(w, l)
    PROVE  StepOf(store, store') /\ block' = block
<1> DEFINE lobby == store.lobbies[l]
           seat  == lobby.seats[w]
           prize == lobby.rewardPerWinner
           fee   == IF w = lobby.creator /\ ~lobby.creatorSettled THEN creatorDue(lobby) ELSE 0
           paid  == lobby.rewardsClaimed + prize
           settled == lobby.creatorSettled \/ fee > 0
           y     == [seat EXCEPT !.claimed = TRUE]
           seats == [lobby.seats EXCEPT ![w] = y]
           x     == [lobby EXCEPT !.seats = seats, !.rewardsClaimed = paid,
                                  !.creatorSettled = settled]
           left  == store.balance - prize - fee
<1>1. Sound(store) /\ l \in Ids(store)
  BY DEF IInv, LobbyIds, Ids
<1>2. /\ lobby.status = "RESOLVED" /\ seat.joined /\ block' = block
      /\ store' = withLobby(store, l, x, store.globalDefensePool, left, store.activeLobbies)
  BY <1>1 DEF claimReward, lobbyOf, withLobby, Sound, SoundStorage
<1>3. lobby \in SoundLobby /\ seat \in SoundSeat /\ lobby.ending = "COMPLETED"
  BY <1>1, <1>2, LobbyOf, SeatOf, LobbyFields DEF OneStory
<1> HIDE DEF lobby, seat, left, paid, settled
<1>4. /\ SameShot(seat, y) /\ y.joined = seat.joined
      /\ seat.claimed => y.claimed
      /\ seat.refunded => y.refunded
  BY <1>3 DEF SoundSeat, Seat, SameShot
<1> HIDE DEF y, seats
<1>5. /\ x.seats = seats /\ SameTerms(lobby, x) /\ SameVerdict(lobby, x)
      /\ x.validActions = lobby.validActions
      /\ x.status = lobby.status /\ x.ending = lobby.ending
  BY <1>3 DEF SoundLobby, Lobby, SameTerms, SameVerdict
<1> HIDE DEF x
<1>6. StepOf(store, store')
  BY <1>1, <1>2, <1>3, <1>4, <1>5, PaidSteps DEF lobby, seat, seats
<1>7. QED
  BY <1>2, <1>6

LEMMA claimRefundSteps ==
    ASSUME IInv, NEW w \in Players, NEW l \in LobbyIds, claimRefund(w, l)
    PROVE  StepOf(store, store') /\ block' = block
<1> DEFINE lobby == store.lobbies[l]
           seat  == lobby.seats[w]
           due   == IF seat.joined /\ ~seat.refunded THEN refundDue(lobby.ending, seat) ELSE 0
           bounty == IF w = lobby.creator /\ ~lobby.creatorSettled
                     THEN creatorRefundDue(lobby) ELSE 0
           settled == lobby.creatorSettled \/ bounty > 0
           given == seat.refunded \/ due > 0
           y     == [seat EXCEPT !.refunded = given]
           seats == [lobby.seats EXCEPT ![w] = y]
           x     == [lobby EXCEPT !.seats = seats, !.creatorSettled = settled]
           left  == store.balance - due - bounty
<1>1. Sound(store) /\ l \in Ids(store)
  BY DEF IInv, LobbyIds, Ids
<1>2. /\ block' = block /\ due + bounty > 0
      /\ store' = withLobby(store, l, x, store.globalDefensePool, left, store.activeLobbies)
  BY <1>1, ZenonT(40) DEF claimRefund, lobbyOf, withLobby, Sound, SoundStorage
<1>3. lobby \in SoundLobby /\ seat \in SoundSeat
  BY <1>1, LobbyOf, SeatOf
<1>4. lobby.ending # "NONE"
  <2>1. lobby.ending = "NONE" => due = 0 /\ bounty = 0
    BY DEF refundDue, creatorRefundDue, RefundEndings
  <2>2. ~(due = 0 /\ bounty = 0)
    <3>1. ASSUME NEW a, NEW b, a + b > 0
          PROVE  ~(a = 0 /\ b = 0)
      BY <3>1
    <3>2. due + bounty > 0
      BY <1>2
    <3> HIDE DEF due, bounty
    <3>3. QED
      BY <3>1, <3>2
  <2>3. QED
    BY <2>1, <2>2, Zenon
<1>5. given => seat.refunded \/ seat.joined
  OBVIOUS
<1>6. given \in BOOLEAN /\ (seat.refunded => given)
  <2>1. seat.refunded \in BOOLEAN
    BY <1>3, SeatFields
  <2> HIDE DEF due, seat
  <2>2. QED
    BY <2>1
<1> HIDE DEF lobby, seat, left, settled, given
<1>7. /\ SameShot(seat, y) /\ y.joined = seat.joined /\ y.claimed = seat.claimed
      /\ y.refunded = given
  BY <1>3 DEF SoundSeat, Seat, SameShot
<1>8. SameMarks(seat, y) \/ seat.joined
  <2>1. seat.refunded \in BOOLEAN /\ seat.joined \in BOOLEAN
    BY <1>3, SeatFields
  <2> HIDE DEF y
  <2>2. QED
    BY <1>5, <1>6, <1>7, <2>1 DEF SameMarks
<1> HIDE DEF y, seats
<1>9. /\ x.seats = seats /\ SameTerms(lobby, x) /\ SameVerdict(lobby, x)
      /\ x.validActions = lobby.validActions
      /\ x.status = lobby.status /\ x.ending = lobby.ending
  BY <1>3 DEF SoundLobby, Lobby, SameTerms, SameVerdict
<1> HIDE DEF x
<1>10. StepOf(store, store')
  BY <1>1, <1>2, <1>4, <1>6, <1>7, <1>8, <1>9, PaidSteps DEF lobby, seat, seats
<1>11. QED
  BY <1>2, <1>10

-----------------------------------------------------------------------------
(* Scoring a team.                                                         *)

LEMMA KeptThenScored ==
    ASSUME NEW x, NEW z, NEW y, Kept(x, z), Scored1(z, y)
    PROVE  Scored1(x, y)
<1>1. z.status # "CANCELLED"
  BY DEF Scored1, Begun
<1>2. Resting(x, z) /\ underFilled(z) = underFilled(x)
  BY <1>1, KeptGoingIsResting, SameTeam
<1>3. Begun(x)
  <2>1. z.status = x.status /\ z.deadlineBlock = x.deadlineBlock
    BY <1>2 DEF Resting, SameRound, SameTerms
  <2>2. QED
    BY <1>2, <2>1 DEF Scored1, Begun
<1>4. /\ y.status = "ACTIVE" /\ y.ending = x.ending
      /\ SameTerms(x, y) /\ SameVerdict(x, y) /\ y.validActions = x.validActions
  BY <1>2 DEF Resting, SameRound, SameTerms, SameVerdict, Scored1
<1>5. ASSUME NEW w \in Players
      PROVE  /\ SameMarks(x.seats[w], y.seats[w])
             /\ y.seats[w].defendedAt = x.seats[w].defendedAt
             /\ x.seats[w].revealed => y.seats[w].revealed
             /\ y.seats[w].revealed => x.seats[w].revealed \/ x.seats[w].defendedAt # 0
  <2>1. SameShot(x.seats[w], z.seats[w]) /\ SameMarks(x.seats[w], z.seats[w])
    BY <1>2 DEF Resting, SameRound
  <2>2. QED
    BY <2>1 DEF Scored1, SameSeatsPaid, ShotsScored, SameShot, SameMarks
<1>6. CrownTrue(x) => CrownTrue(y)
  BY <1>2, ShotsKeepCrown DEF Resting, SameRound, Scored1, ShotsScored
<1>7. QED
  BY <1>3, <1>4, <1>5, <1>6 DEF Scored1, SameSeatsPaid, ShotsScored

LEMMA scorableTeam ==
    ASSUME NEW s, Sound(s), NEW l \in Ids(s), scorable(s, l)
    PROVE  LET t == activate(s, l) IN
           /\ Sound(t) /\ Ids(t) = Ids(s) /\ t.attacks = s.attacks
           /\ Beside(s, t, l) /\ Runs(s.lobbies[l], t.lobbies[l])
           /\ t.lobbies[l].status = "ACTIVE"
           /\ t.lobbies[l].epochId = s.lobbies[l].epochId
           /\ t.lobbies[l].seats = s.lobbies[l].seats
           /\ s.attacks[s.lobbies[l].epochId].revealed
BY activateSound, activateStarts, StartedRuns DEF scorable

LEMMA TeamIsScored ==
    ASSUME NEW s, Sound(s), NEW l \in Ids(s), scorable(s, l), NEW hits,
           NEW subset, subset \subseteq Defenders(s.lobbies[l])
    PROVE  LET t == startedAndScored(s, l, subset, hits) IN
           /\ Sound(t) /\ l \in Ids(t) /\ Beside(s, t, l)
           /\ Scored1(s.lobbies[l], t.lobbies[l])
           /\ t.attacks[t.lobbies[l].epochId].revealed
           /\ Defenders(t.lobbies[l]) = Defenders(s.lobbies[l])
           /\ \A w \in subset : t.lobbies[l].seats[w].revealed
<1> DEFINE t == startedAndScored(s, l, subset, hits)
           started == activate(s, l)
           lobby == started.lobbies[l]
           x == scoreSubset(lobby, subset, hits)
<1>1. /\ Sound(started) /\ Ids(started) = Ids(s)
      /\ Beside(s, started, l) /\ Runs(s.lobbies[l], lobby)
      /\ lobby.seats = s.lobbies[l].seats
  BY scorableTeam
<1>2. t = [started EXCEPT !.lobbies[l] = x]
  BY DEF startedAndScored
<1>3. Sound(t) /\ Ids(t) = Ids(s) /\ t.attacks[t.lobbies[l].epochId].revealed
  BY ScoredTeam
<1> HIDE DEF started, t
<1>4. lobby \in SoundLobby /\ Defenders(lobby) = Defenders(s.lobbies[l])
  BY <1>1, LobbyOf DEF Defenders
<1>5. t = withLobby(started, l, x, started.globalDefensePool, started.balance,
                    started.activeLobbies)
  BY <1>1, <1>2 DEF withLobby, Sound, SoundStorage
<1> HIDE DEF lobby
<1>6. ScoredAs(lobby, x) /\ \A w \in subset : x.seats[w].revealed
  BY <1>4, scoreSubsetScores
<1> HIDE DEF x
<1>7. Beside(started, t, l) /\ t.lobbies[l] = x
  BY <1>1, <1>5, WithLobbyBeside
<1>8. Beside(s, t, l)
  BY <1>1, <1>7, BesideThenBeside
<1>9. Scored1(s.lobbies[l], x)
  BY <1>1, <1>6, RunsThenScored DEF lobby
<1>10. Defenders(x) = Defenders(s.lobbies[l])
  BY <1>4, <1>6 DEF Defenders, ScoredAs
<1>11. QED
  BY <1>3, <1>6, <1>7, <1>8, <1>9, <1>10 DEF t

(* The whole team scored, and judged.                                      *)
LEMMA resolveAllStep ==
    ASSUME NEW r, NEW s, NEW l \in Ids(r), l \in Ids(s), Sound(r), Sound(s),
           block \in Nat, FairAttacks(block, r),
           Near(r, s, l), Kept(r.lobbies[l], s.lobbies[l]), NEW hits,
           resolveAllOK(s, l, hits)
    PROVE  StepOf(r, resolveAll(s, l, hits))
<1> DEFINE t == scoreAll(s, l, hits)
           team == Defenders(s.lobbies[l])
<1>1. scorable(s, l) /\ finalizeOK(t, l) /\ resolveAll(s, l, hits) = finalize(t, l)
  BY DEF resolveAllOK, resolveAll
<1>2. t = startedAndScored(s, l, team, hits)
  <2>1. activate(s, l).lobbies[l].seats = s.lobbies[l].seats
    BY <1>1, scorableTeam
  <2>2. Defenders(activate(s, l).lobbies[l]) = team
    BY <2>1 DEF Defenders
  <2>3. QED
    BY <2>2 DEF scoreAll, startedAndScored
<1> HIDE DEF t, team
<1>3. /\ Sound(t) /\ l \in Ids(t) /\ Beside(s, t, l)
      /\ Scored1(s.lobbies[l], t.lobbies[l])
      /\ t.attacks[t.lobbies[l].epochId].revealed
      /\ \A w \in Defenders(t.lobbies[l]) : t.lobbies[l].seats[w].revealed
  BY <1>1, <1>2, TeamIsScored DEF team
<1>4. Near(r, t, l) /\ Scored1(r.lobbies[l], t.lobbies[l])
  BY <1>3, BesideIsNear, NearThenNear, KeptThenScored
<1>5. Heard(t.lobbies[l], t.attacks[t.lobbies[l].epochId])
  BY <1>3 DEF Heard
<1>6. QED
  BY <1>1, <1>3, <1>4, <1>5, finalizeStep

LEMMA resolveLobbySteps ==
    ASSUME IInv, Fair(block, store), NEW l \in LobbyIds, NEW hits, resolveLobby(l, hits)
    PROVE  StepOf(store, store') /\ block' = block
<1>1. /\ Sound(store) /\ l \in Ids(store) /\ block \in Nat
      /\ resolveAllOK(store, l, hits)
      /\ store' = resolveAll(store, l, hits) /\ block' = block
  BY DEF resolveLobby, IInv, LobbyIds, Ids
<1>2. Near(store, store, l) /\ Kept(store.lobbies[l], store.lobbies[l])
  BY AttackMovesReflexive, AttacksAreNear, RestingReflexive DEF Kept, Unbooked
<1>3. QED
  BY <1>1, <1>2, resolveAllStep DEF Fair

LEMMA proveDefensesSteps ==
    ASSUME IInv, Fair(block, store), NEW l \in LobbyIds, NEW subset, NEW hits,
           proveDefenses(l, subset, hits)
    PROVE  StepOf(store, store') /\ block' = block
<1> DEFINE s == maybeOpenDraw(store)
<1>1. /\ maybeOpenDrawOK(store) /\ scorable(s, l) /\ block' = block
      /\ subset \subseteq Defenders(store.lobbies[l])
      /\ store' = startedAndScored(s, l, subset, hits)
  BY DEF proveDefenses, proveOK, prove, startedAndScored
<1>2. /\ Sound(store) /\ Sound(s) /\ l \in Ids(store) /\ l \in Ids(s) /\ block \in Nat
      /\ Near(store, s, l) /\ Kept(store.lobbies[l], s.lobbies[l])
  BY <1>1, AfterTheUpkeep
<1> HIDE DEF s
<1>3. Defenders(s.lobbies[l]) = Defenders(store.lobbies[l])
  <2>1. SameRound(store.lobbies[l], s.lobbies[l])
    BY <1>2 DEF Kept, Resting, ClosedUnfilled
  <2>2. QED
    BY <2>1, ShotsKeepCrown DEF SameRound
<1>4. /\ Sound(store') /\ Beside(s, store', l)
      /\ Scored1(s.lobbies[l], store'.lobbies[l])
  BY <1>1, <1>2, <1>3, TeamIsScored
<1>5. Near(store, store', l) /\ Scored1(store.lobbies[l], store'.lobbies[l])
  BY <1>2, <1>4, BesideIsNear, NearThenNear, KeptThenScored
<1>6. /\ MoveOf(store, store', l)
      /\ store'.lobbies[l].resolvedAtBlock = store.lobbies[l].resolvedAtBlock
  BY <1>5 DEF MoveOf, RoomMove, Scored1, SameVerdict
<1>7. QED
  BY <1>1, <1>2, <1>5, <1>6, NearStep

LEMMA finalizeScoringSteps ==
    ASSUME IInv, Fair(block, store), NEW l \in LobbyIds, finalizeScoring(l)
    PROVE  StepOf(store, store') /\ block' = block
<1> DEFINE s == maybeOpenDraw(store)
           t == activate(s, l)
<1>1. /\ maybeOpenDrawOK(store) /\ scorable(s, l) /\ scoringComplete(s, l)
      /\ finalizeOK(t, l) /\ store' = finalize(t, l) /\ block' = block
  BY DEF finalizeScoring, finalizeIfReadyOK, finalizeIfReady
<1>2. /\ Sound(store) /\ Sound(s) /\ l \in Ids(store) /\ l \in Ids(s) /\ block \in Nat
      /\ Near(store, s, l) /\ Kept(store.lobbies[l], s.lobbies[l])
  BY <1>1, AfterTheUpkeep
<1>3. /\ Sound(t) /\ Beside(s, t, l) /\ Runs(s.lobbies[l], t.lobbies[l])
      /\ t.attacks = s.attacks
      /\ t.lobbies[l].epochId = s.lobbies[l].epochId
      /\ t.lobbies[l].seats = s.lobbies[l].seats
      /\ s.attacks[s.lobbies[l].epochId].revealed
  BY <1>1, <1>2, scorableTeam
<1> HIDE DEF s, t
<1>4. Near(store, t, l) /\ Scored1(store.lobbies[l], t.lobbies[l])
  BY <1>2, <1>3, BesideIsNear, NearThenNear, KeptThenRuns, RunsIsScored
<1>5. Heard(t.lobbies[l], t.attacks[t.lobbies[l].epochId])
  <2>1. Defenders(t.lobbies[l]) = Defenders(s.lobbies[l])
    BY <1>3 DEF Defenders
  <2>2. QED
    BY <1>1, <1>3, <2>1 DEF Heard, scoringComplete
<1>6. QED
  BY <1>1, <1>2, <1>3, <1>4, <1>5, finalizeStep DEF Fair

LEMMA revealAndResolveSteps ==
    ASSUME IInv, Fair(block, store), NEW l \in LobbyIds, NEW withProofs, NEW hits,
           revealAndResolve(l, withProofs, hits)
    PROVE  StepOf(store, store') /\ block' = block
<1> DEFINE s == maybeOpenDraw(store)
           e == lobbyOf(l).epochId
           p == published(s, e)
<1>1. /\ maybeOpenDrawOK(store) /\ block' = block
      /\ s.attacks[e].revealed \/ revealOK(s, e)
      /\ \/ store' = p
         \/ resolveAllOK(p, l, hits) /\ store' = resolveAll(p, l, hits)
  BY DEF revealAndResolve
<1>2. /\ Sound(store) /\ Sound(s) /\ l \in Ids(store) /\ l \in Ids(s) /\ block \in Nat
      /\ Near(store, s, l) /\ Kept(store.lobbies[l], s.lobbies[l])
  BY <1>1, AfterTheUpkeep
<1>3. e \in EpochIds
  BY <1>2, LobbyOf DEF lobbyOf
<1> HIDE DEF s, e
<1>4. /\ Sound(p) /\ p.lobbies = s.lobbies /\ Near(s, p, l)
  <2>1. CASE s.attacks[e].revealed
    <3>1. p = s
      BY <2>1 DEF published
    <3>2. QED
      BY <1>2, <3>1, AttackMovesReflexive, AttacksAreNear DEF Unbooked
  <2>2. CASE ~s.attacks[e].revealed
    <3>1. p = reveal(s, e) /\ revealOK(s, e)
      BY <1>1, <2>2 DEF published
    <3>2. QED
      BY <1>2, <1>3, <3>1, revealSound, revealMoves, AttacksAreNear
  <2>3. QED
    BY <2>1, <2>2
<1> HIDE DEF p
<1>5. /\ Near(store, p, l) /\ Kept(store.lobbies[l], p.lobbies[l]) /\ l \in Ids(p)
  BY <1>2, <1>4, NearThenNear DEF Ids
<1>6. CASE store' = p
  <2>1. MoveOf(store, store', l)
    BY <1>5, <1>6 DEF MoveOf, RoomMove
  <2>2. QED
    BY <1>1, <1>2, <1>5, <1>6, <2>1, KeptKeepsVerdict, NearStep
<1>7. CASE resolveAllOK(p, l, hits) /\ store' = resolveAll(p, l, hits)
  BY <1>1, <1>2, <1>4, <1>5, <1>7, resolveAllStep DEF Fair
<1>8. QED
  BY <1>1, <1>6, <1>7

LEMMA unlockRoundSteps ==
    ASSUME IInv, NEW l \in LobbyIds, unlockRound(l)
    PROVE  StepOf(store, store') /\ block' = block
<1>1. CASE UNCHANGED vars
  BY <1>1, AttacksStep, AttackMovesReflexive DEF vars, Unbooked
<1>2. CASE completeAttack(lobbyOf(l).epochId)
  <2>1. lobbyOf(l).epochId \in EpochIds
    BY LobbyOf DEF IInv, LobbyIds, Ids, lobbyOf
  <2>2. QED
    BY <1>2, <2>1, completeAttackSteps
<1>3. QED
  BY <1>1, <1>2 DEF unlockRound

-----------------------------------------------------------------------------
(* Every step of the contract, and the invariant that goes with it.        *)

LEMMA LifecycleSteps ==
    ASSUME IInv, Fair(block, store), NEW l \in LobbyIds, Lifecycle(l)
    PROVE  StepOf(store, store') /\ block' = block
<1>1. CASE Scored(l)
  BY <1>1, resolveLobbySteps, proveDefensesSteps, finalizeScoringSteps,
     revealAndResolveSteps DEF Scored
<1>2. QED
  BY <1>1, startOperationSteps, cancelLobbySteps, unlockRoundSteps, expireAttackSteps,
     settleCreatorSteps DEF Lifecycle

LEMMA SeatedSteps ==
    ASSUME IInv, Fair(block, store), NEW l \in LobbyIds, NEW w \in Players, Seated(w, l)
    PROVE  StepOf(store, store') /\ block' = block
<1>1. ASSUME NEW count \in 1 .. store.params.maxProbesPerPlayer, buyProbes(w, l, count)
      PROVE  StepOf(store, store') /\ block' = block
  <2>1. store.params.maxProbesPerPlayer \in Nat
    BY StorageFields, ParamFields DEF IInv
  <2>2. count \in Nat
    BY <2>1
  <2>3. QED
    BY <1>1, <2>2, buyProbesSteps
<1>2. QED
  BY <1>1, joinLobbySteps, leaveLobbySteps, sendProbeSteps, submitDefenseSteps,
     claimRewardSteps, claimRefundSteps DEF Seated

LEMMA NextSteps ==
    ASSUME IInv, Fair(block, store), [Next]_vars
    PROVE  \/ block' = block + 1 /\ store' = store
           \/ block' = block /\ StepOf(store, store')
<1>1. CASE UNCHANGED vars
  BY <1>1, AttacksStep, AttackMovesReflexive DEF vars, Unbooked
<1>2. CASE Tick
  BY <1>2 DEF Tick
<1>3. CASE Governance
  BY <1>3, GovernanceSteps
<1>4. CASE openGlobalDefense
  BY <1>4, openGlobalDefenseSteps
<1>5. ASSUME NEW w \in Players, NEW config \in Configs, NEW d \in 0 .. MaxDeadline,
             createLobby(w, config, d)
      PROVE  block' = block /\ StepOf(store, store')
  <2>1. d \in Nat
    BY BoundsAssumption
  <2>2. QED
    BY <1>5, <2>1, createLobbySteps
<1>6. ASSUME NEW e \in EpochIds, completeAttack(e) \/ revealEpochAttack(e)
      PROVE  block' = block /\ StepOf(store, store')
  BY <1>6, completeAttackSteps, revealEpochAttackSteps
<1>7. ASSUME NEW l \in LobbyIds, Lifecycle(l) \/ \E w \in Players : Seated(w, l)
      PROVE  block' = block /\ StepOf(store, store')
  BY <1>7, LifecycleSteps, SeatedSteps
<1>8. QED
  BY <1>1, <1>2, <1>3, <1>4, <1>5, <1>6, <1>7 DEF Next

(* Every move keeps the terms of the operation.                            *)
LEMMA MoveKeepsTerms ==
    ASSUME NEW x, NEW y, NEW a, NEW b, RoomMove(x, y, a, b)
    PROVE  SameTerms(x, y)
BY DEF RoomMove, Kept, Resting, ClosedUnfilled, Reseated, Acted, Scored1, Judged1,
       Expired, Paid1, SameRound

LEMMA StepKeepsFair ==
    ASSUME NEW s, NEW t, Sound(s), Sound(t), block \in Nat, Fair(block, s), StepOf(s, t)
    PROVE  Fair(block, t)
<1>1. FairAttacks(block, t)
  <2> SUFFICES ASSUME NEW e \in EpochIds
               PROVE  FairAttack(block, t.attacks[e])
    BY DEF FairAttacks
  <2>1. /\ AttackMoves(s.attacks[e], t.attacks[e]) /\ FairAttack(block, s.attacks[e])
        /\ s.attacks[e] \in Attack /\ t.attacks[e] \in Attack
    BY StorageFields DEF StepOf, Fair, FairAttacks, SoundAttack
  <2>2. QED
    BY <2>1, FairAttackMoves
<1>2. ASSUME NEW l \in Ids(t)
      PROVE  FairLobby(block, t.lobbies[l], t.attacks[t.lobbies[l].epochId])
  <2>1. /\ t.lobbies[l] \in SoundLobby /\ t.lobbies[l].epochId \in EpochIds
        /\ t.attacks[t.lobbies[l].epochId] \in SoundAttack
    BY LobbyOf
  <2>2. CASE l \notin Ids(s)
    BY <2>1, <2>2, FairFresh DEF StepOf
  <2>3. CASE l \in Ids(s)
    <3> DEFINE e == s.lobbies[l].epochId
    <3>1. /\ s.lobbies[l] \in SoundLobby /\ e \in EpochIds /\ s.attacks[e] \in SoundAttack
          /\ FairLobby(block, s.lobbies[l], s.attacks[e])
      BY <2>3, LobbyOf DEF Fair
    <3>2. RoomMove(s.lobbies[l], t.lobbies[l], s.attacks[e], t.attacks[e])
      BY <2>3 DEF StepOf, MoveOf
    <3>3. t.lobbies[l].epochId = e
      BY <3>2, MoveKeepsTerms DEF SameTerms
    <3>4. AttackMoves(s.attacks[e], t.attacks[e])
      BY <3>1 DEF StepOf
    <3> HIDE DEF e
    <3>5. QED
      BY <2>1, <3>1, <3>2, <3>3, <3>4, FairRoom
  <2>4. QED
    BY <2>2, <2>3
<1>3. QED
  BY <1>1, <1>2 DEF Fair

LEMMA TimeKeepsFair ==
    ASSUME NEW s, Sound(s), block \in Nat, Fair(block, s)
    PROVE  Fair(block + 1, s)
<1>1. FairAttacks(block + 1, s)
  <2>1. \A e \in EpochIds : s.attacks[e].impactBlock \in Nat
    BY StorageFields DEF SoundAttack, Attack
  <2>2. QED
    BY <2>1 DEF Fair, FairAttacks, FairAttack
<1>2. QED
  BY <1>1 DEF Fair, FairLobby

(* The rules that every operation and its attack keep.                     *)
FairPlay == IInv /\ Fair(block, store)

LEMMA InitFair == Init => FairPlay
<1> SUFFICES ASSUME Init PROVE FairPlay
  OBVIOUS
<1>1. IInv
  BY InitSound
<1>2. store.lobbies = <<>> /\ store.attacks = [e \in EpochIds |-> NoAttack]
  BY DEF Init
<1>3. Ids(store) = {}
  BY <1>2 DEF Ids
<1>4. FairAttacks(block, store)
  BY <1>2 DEF FairAttacks, FairAttack, NoAttack
<1>5. QED
  BY <1>1, <1>3, <1>4 DEF FairPlay, Fair

LEMMA NextFair ==
    ASSUME FairPlay, [Next]_vars
    PROVE  FairPlay'
<1>1. IInv' /\ IInv /\ Fair(block, store)
  BY NextSound DEF FairPlay
<1>2. Sound(store) /\ block \in Nat
  BY <1>1 DEF IInv
<1>3. CASE block' = block + 1 /\ store' = store
  <2>1. Fair(block + 1, store)
    BY <1>1, <1>2, TimeKeepsFair
  <2>2. QED
    BY <1>1, <1>3, <2>1 DEF FairPlay
<1>4. CASE block' = block /\ StepOf(store, store')
  <2>1. Sound(store')
    BY <1>1 DEF IInv
  <2>2. Fair(block, store')
    BY <1>1, <1>2, <1>4, <2>1, StepKeepsFair
  <2>3. QED
    BY <1>1, <1>4, <2>2 DEF FairPlay
<1>5. QED
  BY <1>1, <1>3, <1>4, NextSteps

(* The inductive invariant behind the theorems of this module.             *)
THEOREM PlayStaysFair == Spec => []FairPlay
<1>1. Init => FairPlay
  BY InitFair
<1>2. FairPlay /\ [Next]_vars => FairPlay'
  BY NextFair
<1>3. QED
  BY <1>1, <1>2, PTL DEF Spec

-----------------------------------------------------------------------------
(* What follows: the verdict, the crown and the moves.                     *)

LEMMA VerdictStands ==
    ASSUME NEW n, NEW x, NEW y, NEW a, NEW b, FairLobby(n, x, a),
           RoomMove(x, y, a, b), x.resolvedAtBlock # 0
    PROVE  /\ Winners(y) = Winners(x) /\ y.rewardPerWinner = x.rewardPerWinner
           /\ y.ending = x.ending /\ y.resolvedAtBlock = x.resolvedAtBlock
<1>1. a.revealed /\ x.status \in {"RESOLVED", "CANCELLED"}
  BY DEF FairLobby
<1>2. Resting(x, y) \/ Paid1(x, y)
  BY <1>1 DEF RoomMove, Kept, ClosedUnfilled, Reseated, Acted, Scored1, Judged1,
              Begun, Expired
<1>3. SameRound(x, y) /\ y.ending = x.ending
  BY <1>2 DEF Resting, Paid1
<1>4. QED
  BY <1>3, ShotsKeepCrown DEF SameRound, SameVerdict

(* Once an operation has been judged, who won, what a share is and how the *)
(* operation ended never change: no later proof, reveal, expiry, claim or  *)
(* refund, in any order and for any number of teams, moves the verdict.    *)
THEOREM TheVerdictIsFinal == Spec => VerdictIsFinal
<1>1. ASSUME FairPlay, [Next]_vars, NEW l \in LobbyIds, lobbyOf(l).resolvedAtBlock # 0
      PROVE  /\ Winners(lobbyOf(l))' = Winners(lobbyOf(l))
             /\ lobbyOf(l)'.rewardPerWinner = lobbyOf(l).rewardPerWinner
             /\ lobbyOf(l)'.ending = lobbyOf(l).ending
  <2>1. IInv /\ Fair(block, store) /\ l \in Ids(store)
    BY <1>1 DEF FairPlay, LobbyIds, Ids
  <2>2. CASE store' = store
    BY <2>2 DEF lobbyOf, Winners
  <2>3. CASE StepOf(store, store')
    <3> DEFINE x == store.lobbies[l]
               y == store'.lobbies[l]
    <3>1. FairLobby(block, x, store.attacks[x.epochId]) /\ MoveOf(store, store', l)
      BY <2>1, <2>3 DEF Fair, StepOf
    <3>2. x.resolvedAtBlock # 0
      BY <1>1 DEF lobbyOf
    <3>3. /\ Winners(y) = Winners(x) /\ y.rewardPerWinner = x.rewardPerWinner
          /\ y.ending = x.ending
      BY <3>1, <3>2, VerdictStands DEF MoveOf
    <3>4. QED
      BY <3>3 DEF lobbyOf, Winners
  <2>4. QED
    BY <1>1, <2>1, <2>2, <2>3, NextSteps
<1>2. FairPlay /\ [Next]_vars =>
        [\A l \in LobbyIds :
            lobbyOf(l).resolvedAtBlock # 0 =>
                /\ Winners(lobbyOf(l))' = Winners(lobbyOf(l))
                /\ lobbyOf(l)'.rewardPerWinner = lobbyOf(l).rewardPerWinner
                /\ lobbyOf(l)'.ending = lobbyOf(l).ending]_vars
  BY <1>1
<1>3. QED
  BY <1>2, PlayStaysFair, PTL DEF Spec, VerdictIsFinal

(* Once the engine has been told to unlock an attack, no team that flies   *)
(* against it sends another probe or defense.                              *)
THEOREM ReadableIsFrozen == Spec => NoMoveAfterUnlock
<1>1. ASSUME FairPlay, [Next]_vars, NEW l \in LobbyIds, attackOf(l).decryptionUnlocked
      PROVE  lobbyOf(l)'.validActions = lobbyOf(l).validActions
  <2>1. IInv /\ Fair(block, store) /\ l \in Ids(store)
    BY <1>1 DEF FairPlay, LobbyIds, Ids
  <2>2. CASE store' = store
    BY <2>2 DEF lobbyOf
  <2>3. CASE StepOf(store, store')
    <3>1. MoveOf(store, store', l)
      BY <2>1, <2>3 DEF StepOf
    <3>2. store.attacks[store.lobbies[l].epochId].decryptionUnlocked
      BY <1>1 DEF attackOf, lobbyOf
    <3>3. store'.lobbies[l].validActions = store.lobbies[l].validActions
      BY <3>1, <3>2 DEF MoveOf, RoomMove, Kept, Resting, ClosedUnfilled, Reseated,
                        Scored1, Judged1, Expired, Paid1, SameRound
    <3>4. QED
      BY <3>3 DEF lobbyOf
  <2>4. QED
    BY <1>1, <2>1, <2>2, <2>3, NextSteps
<1>2. FairPlay /\ [Next]_vars =>
        [\A l \in LobbyIds :
            attackOf(l).decryptionUnlocked =>
                lobbyOf(l)'.validActions = lobbyOf(l).validActions]_vars
  BY <1>1
<1>3. QED
  BY <1>2, PlayStaysFair, PTL DEF Spec, NoMoveAfterUnlock

(* The crown is the earliest hit and ties share it, after any batching of  *)
(* the proofs; and a verdict given inside the grace window has judged      *)
(* every defense of the team.                                              *)
THEOREM TheCrownIsTheEarliestHit == Spec => []CrownIsEarliest
<1>1. ASSUME FairPlay, NEW l \in LobbyIds
      PROVE  LET lobby == lobbyOf(l)
                 hits  == {w \in Players : lobby.seats[w].revealed /\ lobby.seats[w].intercepted}
             IN  /\ \A w \in Players :
                       lobby.seats[w].isWinner <=>
                           w \in hits /\ \A v \in hits :
                               ~(lobby.seats[v].defendedAt < lobby.seats[w].defendedAt)
                 /\ lobby.resolvedAtBlock # 0 /\ inGrace(l) =>
                       \A w \in Defenders(lobby) : lobby.seats[w].revealed
  <2> DEFINE lobby == lobbyOf(l)
             hits  == {w \in Players : lobby.seats[w].revealed /\ lobby.seats[w].intercepted}
  <2>1. /\ lobby \in SoundLobby /\ FairLobby(block, lobby, attackOf(l))
    BY <1>1, LobbyOf DEF FairPlay, IInv, Fair, LobbyIds, Ids, lobbyOf, attackOf
  <2> HIDE DEF lobby
  <2>2. hits = revealedHits(lobby)
    BY <2>1 DEF FairLobby, revealedHits, Defenders
  <2>3. \A w \in Players : lobby.seats[w].defendedAt \in Nat
    BY <2>1, LobbyFields, SeatFields
  <2>4. ASSUME NEW w \in Players
        PROVE  w \in earliestHits(lobby) <=>
                  w \in hits /\ \A v \in hits :
                      ~(lobby.seats[v].defendedAt < lobby.seats[w].defendedAt)
    <3>1. \A v \in hits : (lobby.seats[w].defendedAt <= lobby.seats[v].defendedAt
                              <=> ~(lobby.seats[v].defendedAt < lobby.seats[w].defendedAt))
      BY <2>3
    <3> HIDE DEF hits
    <3>2. QED
      BY <2>2, <3>1 DEF earliestHits
  <2>5. \A w \in Players :
           lobby.seats[w].isWinner <=>
               w \in hits /\ \A v \in hits :
                   ~(lobby.seats[v].defendedAt < lobby.seats[w].defendedAt)
    BY <2>1, <2>4 DEF FairLobby, CrownTrue
  <2>6. lobby.resolvedAtBlock # 0 /\ inGrace(l) =>
           \A w \in Defenders(lobby) : lobby.seats[w].revealed
    BY <2>1 DEF FairLobby, inGrace, lobby
  <2>7. QED
    BY <2>5, <2>6 DEF lobby
<1>2. FairPlay => CrownIsEarliest
  BY <1>1 DEF CrownIsEarliest
<1>3. QED
  BY <1>2, PlayStaysFair, PTL

-----------------------------------------------------------------------------
(* The planet's tally.                                                     *)

(* This operation stopped its attack.                                      *)
Stopped(s, l) == s.lobbies[l].resolvedAtBlock # 0 /\ Winners(s.lobbies[l]) # {}

InterceptedIn(s) == {e \in EpochIds : s.attacks[e].intercepted}

TallyTrue(s) ==
    /\ s.interceptedAttacks = Cardinality(InterceptedIn(s))
    /\ \A e \in EpochIds :
          s.attacks[e].intercepted <=>
              \E l \in Ids(s) : s.lobbies[l].epochId = e /\ Stopped(s, l)

LEMMA InterceptedFinite ==
    ASSUME NEW s
    PROVE  IsFiniteSet(InterceptedIn(s)) /\ Cardinality(InterceptedIn(s)) \in Nat
<1>1. IsFiniteSet(EpochIds)
  BY U32Assumption, FS_Interval DEF EpochIds
<1>2. QED
  BY <1>1, FS_Subset, FS_CardinalityType DEF InterceptedIn

(* A step that judges nothing stops nothing.                               *)
LEMMA NoVerdictStopsNothing ==
    ASSUME NEW s, NEW t, Sound(s), Sound(t), block \in Nat, Fair(block, s),
           StepOf(s, t), NoVerdict(s, t), TallyTrue(s)
    PROVE  TallyTrue(t)
<1>1. \A e \in EpochIds : t.attacks[e].intercepted <=> s.attacks[e].intercepted
  BY DEF NoVerdict, Quiet, Fair, FairAttacks, FairAttack
<1>2. InterceptedIn(t) = InterceptedIn(s) /\ t.interceptedAttacks = s.interceptedAttacks
  BY <1>1 DEF InterceptedIn, NoVerdict
<1>3. ASSUME NEW l \in Ids(s)
      PROVE  /\ t.lobbies[l].epochId = s.lobbies[l].epochId
             /\ Stopped(t, l) <=> Stopped(s, l)
  <2> DEFINE a == s.attacks[s.lobbies[l].epochId]
             b == t.attacks[s.lobbies[l].epochId]
  <2>1. /\ RoomMove(s.lobbies[l], t.lobbies[l], a, b)
        /\ FairLobby(block, s.lobbies[l], a)
        /\ t.lobbies[l].resolvedAtBlock = s.lobbies[l].resolvedAtBlock
    BY <1>3 DEF StepOf, MoveOf, Fair, NoVerdict
  <2> HIDE DEF a, b
  <2>2. t.lobbies[l].epochId = s.lobbies[l].epochId
    BY <2>1, MoveKeepsTerms DEF SameTerms
  <2>3. s.lobbies[l].resolvedAtBlock # 0 => Winners(t.lobbies[l]) = Winners(s.lobbies[l])
    BY <2>1, VerdictStands
  <2>4. QED
    BY <2>1, <2>2, <2>3 DEF Stopped
<1>4. \A l \in Ids(t) : l \notin Ids(s) => ~Stopped(t, l)
  BY DEF StepOf, Fresh, Stopped
<1>5. Ids(s) \subseteq Ids(t)
  BY DEF StepOf
<1>6. \A e \in EpochIds :
         t.attacks[e].intercepted <=>
             \E l \in Ids(t) : t.lobbies[l].epochId = e /\ Stopped(t, l)
  BY <1>1, <1>3, <1>4, <1>5 DEF TallyTrue
<1>7. QED
  BY <1>2, <1>6 DEF TallyTrue

LEMMA OneVerdictCountsOnce ==
    ASSUME NEW s, NEW t, Sound(s), Sound(t), block \in Nat, Fair(block, s),
           StepOf(s, t), OneVerdict(s, t), TallyTrue(s)
    PROVE  TallyTrue(t)
<1>1. PICK l \in Ids(s) :
         /\ Judged1(s.lobbies[l], t.lobbies[l])
         /\ \A m \in Ids(s) : m # l => Kept(s.lobbies[m], t.lobbies[m])
         /\ Tallied(s, t, s.lobbies[l].epochId, Winners(t.lobbies[l]) # {})
  BY DEF OneVerdict
<1> DEFINE e == s.lobbies[l].epochId
           won == Winners(t.lobbies[l]) # {}
<1>2. /\ s.lobbies[l] \in SoundLobby /\ e \in EpochIds
      /\ FairLobby(block, s.lobbies[l], s.attacks[e])
  BY LobbyOf DEF Fair
<1>3. t.lobbies[l].epochId = e
  BY <1>1 DEF Judged1, SameTerms
<1>4. ~Stopped(s, l) /\ (Stopped(t, l) <=> won)
  <2>1. s.lobbies[l].resolvedAtBlock = 0
    BY <1>1, <1>2 DEF FairLobby, Judged1, Begun
  <2>2. block > 0
    BY <1>1, <1>2, LobbyFields DEF FairLobby, Judged1, Begun
  <2>3. t.lobbies[l].resolvedAtBlock # 0
    BY <1>1, <2>2 DEF Judged1
  <2>4. QED
    BY <2>1, <2>3 DEF Stopped
<1> HIDE DEF won, e
<1>5. ASSUME NEW m \in Ids(s), m # l
      PROVE  /\ t.lobbies[m].epochId = s.lobbies[m].epochId
             /\ Stopped(t, m) <=> Stopped(s, m)
  BY <1>1, <1>5, KeptKeepsVerdict DEF Stopped
<1>6. \A m \in Ids(t) : m \notin Ids(s) => ~Stopped(t, m)
  BY DEF StepOf, Fresh, Stopped
<1>7. Ids(s) \subseteq Ids(t)
  BY DEF StepOf
<1>8. /\ \A f \in EpochIds : f # e =>
            (t.attacks[f].intercepted <=> s.attacks[f].intercepted)
      /\ t.attacks[e].intercepted <=> s.attacks[e].intercepted \/ won
      /\ t.interceptedAttacks =
            IF won /\ ~s.attacks[e].intercepted
            THEN s.interceptedAttacks + 1 ELSE s.interceptedAttacks
  <2>1. Tallied(s, t, e, won) /\ FairAttacks(block, s)
    BY <1>1 DEF Fair, e, won
  <2>2. QED
    BY <2>1 DEF Tallied, Quiet, FairAttacks, FairAttack
<1>9. ASSUME NEW f \in EpochIds
      PROVE  t.attacks[f].intercepted <=>
                \E m \in Ids(t) : t.lobbies[m].epochId = f /\ Stopped(t, m)
  <2>1. s.attacks[f].intercepted <=>
           \E m \in Ids(s) : s.lobbies[m].epochId = f /\ Stopped(s, m)
    BY DEF TallyTrue
  <2>2. (\E m \in Ids(t) : t.lobbies[m].epochId = f /\ Stopped(t, m))
           <=> \/ \E m \in Ids(s) : s.lobbies[m].epochId = f /\ Stopped(s, m)
               \/ f = e /\ won
    BY <1>3, <1>4, <1>5, <1>6, <1>7
  <2>3. QED
    BY <1>8, <2>1, <2>2
<1>10. t.interceptedAttacks = Cardinality(InterceptedIn(t))
  <2>1. /\ IsFiniteSet(InterceptedIn(s)) /\ Cardinality(InterceptedIn(s)) \in Nat
        /\ s.interceptedAttacks = Cardinality(InterceptedIn(s))
    BY InterceptedFinite DEF TallyTrue
  <2>2. CASE won /\ ~s.attacks[e].intercepted
    <3>1. InterceptedIn(t) = InterceptedIn(s) \cup {e} /\ e \notin InterceptedIn(s)
      BY <1>2, <1>8, <2>2 DEF InterceptedIn
    <3>2. Cardinality(InterceptedIn(t)) = Cardinality(InterceptedIn(s)) + 1
      BY <2>1, <3>1, FS_AddElement
    <3>3. QED
      BY <1>8, <2>1, <2>2, <3>2
  <2>3. CASE ~(won /\ ~s.attacks[e].intercepted)
    <3>1. InterceptedIn(t) = InterceptedIn(s)
      BY <1>8, <2>3 DEF InterceptedIn
    <3>2. QED
      BY <1>8, <2>1, <2>3, <3>1
  <2>4. QED
    BY <2>2, <2>3
<1>11. QED
  BY <1>9, <1>10 DEF TallyTrue

(* The planet's tally counts an attack once however many teams stopped it, *)
(* and only attacks that some judged team did stop, for any number of      *)
(* teams on an epoch and any number of epochs.                             *)
THEOREM EveryInterceptionCountsOnce == Spec => []InterceptionsCountedOnce
<1> DEFINE Inv == FairPlay /\ TallyTrue(store)
<1>1. Init => Inv
  <2> SUFFICES ASSUME Init PROVE Inv
    OBVIOUS
  <2>1. FairPlay
    BY InitFair
  <2>2. /\ store.lobbies = <<>> /\ store.interceptedAttacks = 0
        /\ store.attacks = [e \in EpochIds |-> NoAttack]
    BY DEF Init
  <2>3. Ids(store) = {} /\ InterceptedIn(store) = {}
    BY <2>2 DEF Ids, InterceptedIn, NoAttack
  <2>4. TallyTrue(store)
    BY <2>2, <2>3, FS_EmptySet DEF TallyTrue, NoAttack
  <2>5. QED
    BY <2>1, <2>4
<1>2. ASSUME Inv, [Next]_vars PROVE Inv'
  <2>1. /\ FairPlay' /\ Sound(store) /\ Sound(store') /\ block \in Nat
        /\ Fair(block, store) /\ IInv
    <3>1. FairPlay'
      BY <1>2, NextFair
    <3>2. QED
      BY <1>2, <3>1 DEF FairPlay, IInv
  <2>2. TallyTrue(store')
    <3>1. CASE store' = store
      BY <1>2, <3>1
    <3>2. CASE StepOf(store, store')
      BY <1>2, <2>1, <3>2, NoVerdictStopsNothing, OneVerdictCountsOnce DEF StepOf
    <3>3. QED
      BY <1>2, <2>1, <3>1, <3>2, NextSteps
  <2>3. QED
    BY <2>1, <2>2
<1>3. Inv => InterceptionsCountedOnce
  <2> SUFFICES ASSUME TallyTrue(store) PROVE InterceptionsCountedOnce
    OBVIOUS
  <2>1. Ids(store) = LobbyIds
    BY DEF Ids, LobbyIds
  <2>2. QED
    BY <2>1 DEF TallyTrue, InterceptedIn, InterceptionsCountedOnce, Stopped, lobbyOf
<1>4. QED
  BY <1>1, <1>2, <1>3, PTL DEF Spec

-----------------------------------------------------------------------------
(* The calendar of the draws.                                              *)

(* A booked epoch names the draw that flies in it, every draw is booked    *)
(* under its epoch, and a drawn attack flies when an epoch starts.         *)
Booked(s) ==
    /\ \A e \in EpochIds : s.globalDefenseLobby[e] # 0 =>
          /\ s.globalDefenseLobby[e] \in Ids(s)
          /\ BookedFor(s.lobbies[s.globalDefenseLobby[e]], e)
    /\ \A l \in Ids(s) : s.lobbies[l].creator = Game =>
          s.globalDefenseLobby[s.lobbies[l].epochId] = l
    /\ \A e \in EpochIds : s.attacks[e].status # "NONE" =>
          Flies(e, s.attacks[e])

(* The rules may change, but not the length of an epoch.                   *)
OneGrid == \A p, q \in ParamSets : p.epochBlocks = q.epochBlocks

LEMMA StepKeepsBooked ==
    ASSUME NEW s, NEW t, Sound(s), Sound(t), StepOf(s, t), Booked(s)
    PROVE  Booked(t)
<1>1. Ids(s) \subseteq Ids(t) /\ Calendar(s, t)
  BY DEF StepOf
<1>2. \A l \in Ids(s) : l # 0 /\ SameTerms(s.lobbies[l], t.lobbies[l])
  <2>1. \A l \in Ids(s) : l # 0
    BY StorageFields DEF Ids
  <2>2. QED
    BY <2>1, MoveKeepsTerms DEF StepOf, MoveOf
<1>3. ASSUME NEW e \in EpochIds, t.globalDefenseLobby[e] # 0
      PROVE  /\ t.globalDefenseLobby[e] \in Ids(t)
             /\ BookedFor(t.lobbies[t.globalDefenseLobby[e]], e)
  <2>1. CASE t.globalDefenseLobby[e] = s.globalDefenseLobby[e]
    <3>1. /\ s.globalDefenseLobby[e] \in Ids(s)
          /\ BookedFor(s.lobbies[s.globalDefenseLobby[e]], e)
      BY <1>3, <2>1 DEF Booked
    <3>2. SameTerms(s.lobbies[s.globalDefenseLobby[e]], t.lobbies[s.globalDefenseLobby[e]])
      BY <1>2, <3>1
    <3>3. QED
      BY <1>1, <2>1, <3>1, <3>2 DEF BookedFor, SameTerms
  <2>2. CASE t.globalDefenseLobby[e] # s.globalDefenseLobby[e]
    BY <1>1, <2>2 DEF Calendar
  <2>3. QED
    BY <2>1, <2>2
<1>4. ASSUME NEW l \in Ids(t), t.lobbies[l].creator = Game
      PROVE  t.globalDefenseLobby[t.lobbies[l].epochId] = l
  <2>1. CASE l \notin Ids(s)
    BY <1>1, <1>4, <2>1 DEF Calendar
  <2>2. CASE l \in Ids(s)
    <3>1. /\ s.lobbies[l].creator = Game /\ t.lobbies[l].epochId = s.lobbies[l].epochId
          /\ s.lobbies[l].epochId \in EpochIds
      BY <1>2, <1>4, <2>2, LobbyOf DEF SameTerms
    <3>2. s.globalDefenseLobby[s.lobbies[l].epochId] = l /\ l # 0
      BY <1>2, <2>2, <3>1 DEF Booked
    <3>3. QED
      BY <1>1, <3>1, <3>2 DEF Calendar
  <2>3. QED
    BY <2>1, <2>2
<1>5. ASSUME NEW e \in EpochIds, t.attacks[e].status # "NONE"
      PROVE  Flies(e, t.attacks[e])
  <2>1. CASE s.attacks[e].status = "NONE"
    BY <1>1, <1>5, <2>1 DEF Calendar
  <2>2. CASE s.attacks[e].status # "NONE"
    BY <2>2 DEF Booked, StepOf, AttackMoves, Flies
  <2>3. QED
    BY <2>1, <2>2
<1>6. QED
  BY <1>3, <1>4, <1>5 DEF Booked

(* Whatever the rules in force: a booked epoch names a draw that flies in  *)
(* it and whose applications close one block before an epoch of that       *)
(* number starts, every draw is booked, and so no two share an attack.     *)
THEOREM EveryDrawIsBookedOnce == Spec => [](FairPlay /\ Booked(store))
<1> DEFINE Inv == FairPlay /\ Booked(store)
<1>1. Init => Inv
  <2> SUFFICES ASSUME Init PROVE Inv
    OBVIOUS
  <2>1. /\ store.lobbies = <<>> /\ store.attacks = [e \in EpochIds |-> NoAttack]
        /\ store.globalDefenseLobby = [e \in EpochIds |-> 0]
    BY DEF Init
  <2>2. Ids(store) = {}
    BY <2>1 DEF Ids
  <2>3. Booked(store)
    BY <2>1, <2>2 DEF Booked, NoAttack
  <2>4. QED
    BY <2>3, InitFair
<1>2. ASSUME Inv, [Next]_vars PROVE Inv'
  <2>1. /\ FairPlay' /\ Sound(store) /\ Sound(store')
        /\ Fair(block, store) /\ IInv
    <3>1. FairPlay'
      BY <1>2, NextFair
    <3>2. QED
      BY <1>2, <3>1 DEF FairPlay, IInv
  <2>2. CASE store' = store
    BY <1>2, <2>1, <2>2
  <2>3. CASE StepOf(store, store')
    BY <1>2, <2>1, <2>3, StepKeepsBooked
  <2>4. QED
    BY <1>2, <2>1, <2>2, <2>3, NextSteps
<1>3. QED
  BY <1>1, <1>2, PTL DEF Spec

(* As long as governance never changes the length of an epoch, a draw      *)
(* flies in the epoch it is booked under and closes before it flies, and   *)
(* no two draws share an attack, for any lengths, intervals and rules.     *)
THEOREM TheDrawsKeepTheCalendar ==
    ASSUME OneGrid
    PROVE  Spec => []DrawsKeepTheCalendar
<1>1. ASSUME FairPlay, Booked(store), NEW e \in EpochIds, store.globalDefenseLobby[e] # 0
      PROVE  /\ store.globalDefenseLobby[e] \in draws
             /\ lobbyOf(store.globalDefenseLobby[e]).epochId = e
             /\ lobbyOf(store.globalDefenseLobby[e]).deadlineBlock
                   < store.attacks[e].launchBlock
  <2> DEFINE l == store.globalDefenseLobby[e]
             d == store.lobbies[l].deadlineBlock
             start == store.attacks[e].launchBlock
  <2>1. l \in Ids(store) /\ BookedFor(store.lobbies[l], e)
    BY <1>1 DEF Booked
  <2>2. /\ store.attacks[e].status # "NONE" /\ d \in Nat
    BY <1>1, <2>1, LobbyOf, LobbyFields DEF FairPlay, IInv, Fair, FairLobby, BookedFor
  <2>3. Flies(e, store.attacks[e]) /\ OnGrid(e, d + 1)
    BY <1>1, <2>1, <2>2 DEF Booked, BookedFor
  <2>4. start = d + 1
    <3>1. \E p \in ParamSets : start = epochStart(e, p.epochBlocks, Genesis)
      BY <2>3 DEF Flies
    <3> HIDE DEF start, d
    <3>2. QED
      BY <2>2, <2>3, <3>1, OneGrid DEF OnGrid, OneGrid
  <2>5. QED
    BY <2>1, <2>2, <2>4 DEF draws, lobbyOf, LobbyIds, Ids, BookedFor
<1>2. ASSUME FairPlay, Booked(store), NEW l \in draws, NEW m \in draws,
             lobbyOf(l).epochId = lobbyOf(m).epochId
      PROVE  l = m
  BY <1>2 DEF Booked, draws, lobbyOf, LobbyIds, Ids
<1>3. FairPlay /\ Booked(store) => DrawsKeepTheCalendar
  BY <1>1, <1>2 DEF DrawsKeepTheCalendar
<1>4. QED
  BY <1>3, EveryDrawIsBookedOnce, PTL

-----------------------------------------------------------------------------
(* The contract implements OperationLife: each of the things that can      *)
(* happen to an operation is one of that life's moves, or a stutter of it. *)

Life(l) ==
    INSTANCE OperationLife WITH Members <- Players,
        phase <- phaseOf(l), team <- teamOf(l), paid <- paidOf(l)

(* The abstract state, read off one operation.                             *)
phaseIn(x) ==
    CASE x.ending = "COMPLETED"     -> "completed"
      [] x.ending \in RefundEndings -> "refunding"
      [] x.status = "OPEN"          -> "open"
      [] OTHER                      -> "running"

Settled(x) == {w \in Players : x.seats[w].claimed \/ x.seats[w].refunded}

(* The abstract steps, between two states of one operation.                *)
Stutters(x, y) ==
    phaseIn(y) = phaseIn(x) /\ Joined(y) = Joined(x) /\ Settled(y) = Settled(x)

Joins(x, y, w) ==
    /\ phaseIn(x) = "open" /\ phaseIn(y) = "open" /\ w \notin Joined(x)
    /\ Joined(y) = Joined(x) \cup {w} /\ Settled(y) = Settled(x)

Leaves(x, y, w) ==
    /\ phaseIn(x) = "open" /\ phaseIn(y) = "open" /\ w \in Joined(x)
    /\ Joined(y) = Joined(x) \ {w} /\ Settled(y) = Settled(x)

StartsUp(x, y) ==
    /\ phaseIn(x) = "open" /\ phaseIn(y) = "running"
    /\ Cardinality(Joined(x)) >= Quorum
    /\ Joined(y) = Joined(x) /\ Settled(y) = Settled(x)

IsCalledOff(x, y) ==
    /\ phaseIn(x) \in {"open", "running"} /\ phaseIn(y) = "refunding"
    /\ Joined(y) = Joined(x) /\ Settled(y) \subseteq Joined(x)

Finishes(x, y) ==
    /\ phaseIn(x) = "running" /\ phaseIn(y) = "completed"
    /\ Joined(y) = Joined(x) /\ Settled(y) = Settled(x)

Pays(x, y, w) ==
    /\ phaseIn(x) \in {"completed", "refunding"} /\ phaseIn(y) = phaseIn(x)
    /\ w \in Joined(x) /\ w \notin Settled(x)
    /\ Joined(y) = Joined(x) /\ Settled(y) = Settled(x) \cup {w}

Lives(x, y) ==
    \/ Stutters(x, y) \/ StartsUp(x, y) \/ IsCalledOff(x, y) \/ Finishes(x, y)
    \/ \E w \in Players : Joins(x, y, w) \/ Leaves(x, y, w) \/ Pays(x, y, w)

-----------------------------------------------------------------------------
LEMMA SameMarksSameTeam ==
    ASSUME NEW x, NEW y, SameSeatsPaid(x, y)
    PROVE  Joined(y) = Joined(x) /\ Settled(y) = Settled(x)
BY DEF SameSeatsPaid, SameMarks, Joined, Settled

(* Nobody is paid while the operation goes on.                             *)
LEMMA NothingPaidYet ==
    ASSUME NEW x \in SoundLobby, x.ending = "NONE"
    PROVE  Settled(x) = {}
BY LobbyFields DEF OneStory, RefundEndings, Settled

LEMMA PhaseFacts ==
    ASSUME NEW x \in SoundLobby
    PROVE  /\ x.status = "OPEN" => phaseIn(x) = "open"
           /\ x.status = "ACTIVE" => phaseIn(x) = "running"
           /\ x.ending = "COMPLETED" <=> phaseIn(x) = "completed"
           /\ x.ending \in RefundEndings <=> phaseIn(x) = "refunding"
           /\ x.ending = "NONE" <=> x.status \in {"OPEN", "ACTIVE"}
<1>1. x.ending \in Endings /\ x.status \in LobbyStatus /\ OneStory(x)
  BY LobbyFields
<1>2. QED
  BY <1>1 DEF Endings, LobbyStatus, OneStory, RefundEndings, phaseIn

LEMMA FullTeam ==
    ASSUME NEW n, NEW x \in SoundLobby, NEW a, FairLobby(n, x, a), ~underFilled(x)
    PROVE  Cardinality(Joined(x)) >= Quorum
<1>1. Joined(x) \subseteq Players /\ IsFiniteSet(Players)
  BY PlayersAssumption DEF Joined
<1>2. Cardinality(Joined(x)) \in Nat
  BY <1>1, FS_Subset, FS_CardinalityType
<1>3. PICK p \in ParamSets : x.minPlayers >= p.minPlayers
  BY DEF FairLobby
<1>4. p.minPlayers \in Nat /\ p.minPlayers >= Quorum /\ Quorum \in Nat /\ x.minPlayers \in Nat
  BY <1>3, ParamFields, QuorumAssumption, LobbyFields
<1>5. QED
  BY <1>2, <1>3, <1>4 DEF underFilled

(* Whatever has begun and goes on running has only started, if that.       *)
LEMMA BegunRuns ==
    ASSUME NEW n, NEW x \in SoundLobby, NEW y \in SoundLobby, NEW a,
           FairLobby(n, x, a), Begun(x), y.status = "ACTIVE", SameSeatsPaid(x, y)
    PROVE  Stutters(x, y) \/ StartsUp(x, y)
<1>1. Joined(y) = Joined(x) /\ Settled(y) = Settled(x)
  BY SameMarksSameTeam
<1>2. CASE x.status = "ACTIVE"
  BY <1>1, <1>2, PhaseFacts DEF Stutters
<1>3. CASE x.status = "OPEN" /\ ~underFilled(x)
  BY <1>1, <1>3, PhaseFacts, FullTeam DEF StartsUp
<1>4. QED
  BY <1>2, <1>3 DEF Begun

LEMMA KeptLives ==
    ASSUME NEW x \in SoundLobby, NEW y \in SoundLobby, Kept(x, y)
    PROVE  Lives(x, y)
<1>1. CASE Resting(x, y)
  <2>1. Joined(y) = Joined(x) /\ Settled(y) = Settled(x)
    BY <1>1, SameMarksSameTeam DEF Resting, SameSeatsPaid
  <2>2. phaseIn(y) = phaseIn(x)
    BY <1>1 DEF Resting, phaseIn
  <2>3. QED
    BY <2>1, <2>2 DEF Stutters, Lives
<1>2. CASE ClosedUnfilled(x, y)
  <2>1. phaseIn(x) = "open" /\ phaseIn(y) = "refunding" /\ x.ending = "NONE"
    BY <1>2, PhaseFacts DEF ClosedUnfilled, RefundEndings
  <2>2. Joined(y) = Joined(x)
    BY <1>2 DEF ClosedUnfilled, Joined
  <2>3. Settled(y) \subseteq Joined(x)
    BY <1>2, <2>1, NothingPaidYet DEF ClosedUnfilled, Settled, Joined
  <2>4. QED
    BY <2>1, <2>2, <2>3 DEF IsCalledOff, Lives
<1>3. QED
  BY <1>1, <1>2 DEF Kept

LEMMA ReseatedLives ==
    ASSUME NEW x \in SoundLobby, NEW y \in SoundLobby, Reseated(x, y)
    PROVE  Lives(x, y)
<1>1. phaseIn(x) = "open" /\ phaseIn(y) = "open"
  BY PhaseFacts DEF Reseated
<1>2. Settled(y) = Settled(x)
  BY DEF Reseated, Settled
<1>3. PICK w \in Players : \A v \in Players :
         v # w => y.seats[v].joined = x.seats[v].joined
  BY DEF Reseated
<1>4. \/ Joined(y) = Joined(x)
      \/ w \notin Joined(x) /\ Joined(y) = Joined(x) \cup {w}
      \/ w \in Joined(x) /\ Joined(y) = Joined(x) \ {w}
  BY <1>3 DEF Joined
<1>5. QED
  BY <1>1, <1>2, <1>4 DEF Stutters, Joins, Leaves, Lives

LEMMA JudgedLives ==
    ASSUME NEW n, NEW x \in SoundLobby, NEW y \in SoundLobby, NEW a,
           FairLobby(n, x, a), Judged1(x, y)
    PROVE  Lives(x, y)
<1>1. /\ Joined(y) = Joined(x) /\ Settled(y) = Settled(x) /\ x.ending = "NONE"
      /\ Settled(x) = {}
  BY SameMarksSameTeam, PhaseFacts, NothingPaidYet DEF Judged1, Begun
<1>2. CASE x.validActions > 0
  <2>1. x.status = "ACTIVE"
    BY <1>2 DEF Judged1, Begun, FairLobby
  <2>2. phaseIn(x) = "running" /\ phaseIn(y) = "completed"
    BY <1>2, <2>1, PhaseFacts DEF Judged1
  <2>3. QED
    BY <1>1, <2>2 DEF Finishes, Lives
<1>3. CASE ~(x.validActions > 0)
  <2>1. phaseIn(x) \in {"open", "running"} /\ phaseIn(y) = "refunding"
    BY <1>3, PhaseFacts DEF Judged1, Begun, RefundEndings
  <2>2. QED
    BY <1>1, <2>1 DEF IsCalledOff, Lives
<1>4. QED
  BY <1>2, <1>3

LEMMA ExpiredLives ==
    ASSUME NEW x \in SoundLobby, NEW y \in SoundLobby, NEW a,
           Expired(x, y), ~a.revealed, Linked(x, a)
    PROVE  Lives(x, y)
<1>1. Joined(y) = Joined(x) /\ Settled(y) = Settled(x) /\ phaseIn(y) = "refunding"
  BY SameMarksSameTeam, PhaseFacts DEF Expired, RefundEndings
<1>2. CASE x.ending = "NONE"
  <2>1. phaseIn(x) \in {"open", "running"} /\ Settled(x) = {}
    BY <1>2, PhaseFacts, NothingPaidYet
  <2>2. QED
    BY <1>1, <2>1 DEF IsCalledOff, Lives
<1>3. CASE x.ending # "NONE"
  <2>1. x.ending \in RefundEndings
    <3>1. x.ending \in Endings /\ x.ending # "COMPLETED"
      BY LobbyFields DEF Linked
    <3>2. QED
      BY <1>3, <3>1 DEF Endings, RefundEndings
  <2>2. phaseIn(x) = "refunding"
    BY <2>1, PhaseFacts
  <2>3. QED
    BY <1>1, <2>2 DEF Stutters, Lives
<1>4. QED
  BY <1>2, <1>3

LEMMA PaidLives ==
    ASSUME NEW x \in SoundLobby, NEW y \in SoundLobby, Paid1(x, y)
    PROVE  Lives(x, y)
<1>1. phaseIn(y) = phaseIn(x) /\ phaseIn(x) \in {"completed", "refunding"}
  <2>1. x.ending \in Endings /\ x.ending # "NONE"
    BY LobbyFields DEF Paid1
  <2>2. y.ending = x.ending /\ y.status = x.status
    BY DEF Paid1
  <2>3. phaseIn(y) = phaseIn(x)
    BY <2>2 DEF phaseIn
  <2>4. phaseIn(x) \in {"completed", "refunding"}
    <3>1. x.ending = "COMPLETED" \/ x.ending \in RefundEndings
      BY <2>1 DEF Endings, RefundEndings
    <3>2. QED
      BY <3>1, PhaseFacts
  <2>5. QED
    BY <2>3, <2>4
<1>2. Joined(y) = Joined(x)
  BY DEF Paid1, Joined
<1>3. PICK w \in Players :
         /\ \A v \in Players : v # w => SameMarks(x.seats[v], y.seats[v])
         /\ SameMarks(x.seats[w], y.seats[w]) \/ x.seats[w].joined
  BY DEF Paid1
<1>4. \A v \in Players : v # w => (v \in Settled(y) <=> v \in Settled(x))
  BY <1>3 DEF SameMarks, Settled
<1>5. w \in Settled(x) => w \in Settled(y)
  BY DEF Paid1, Settled
<1>6. CASE w \in Settled(y) /\ w \notin Settled(x)
  <2>1. w \in Joined(x)
    BY <1>3, <1>6 DEF SameMarks, Settled, Joined
  <2>2. Settled(y) = Settled(x) \cup {w}
    BY <1>4, <1>6 DEF Settled
  <2>3. QED
    BY <1>1, <1>2, <1>6, <2>1, <2>2 DEF Pays, Lives
<1>7. CASE ~(w \in Settled(y) /\ w \notin Settled(x))
  <2>1. Settled(y) = Settled(x)
    BY <1>4, <1>5, <1>7 DEF Settled
  <2>2. QED
    BY <1>1, <1>2, <2>1 DEF Stutters, Lives
<1>8. QED
  BY <1>6, <1>7

LEMMA RoomLives ==
    ASSUME NEW n, NEW x \in SoundLobby, NEW y \in SoundLobby, NEW a, NEW b,
           FairLobby(n, x, a), Linked(x, a), RoomMove(x, y, a, b)
    PROVE  Lives(x, y)
<1>1. CASE Acted(x, y) \/ Scored1(x, y)
  BY <1>1, BegunRuns DEF Acted, Scored1, Lives
<1>2. QED
  BY <1>1, KeptLives, ReseatedLives, JudgedLives, ExpiredLives, PaidLives DEF RoomMove

-----------------------------------------------------------------------------
(* The abstract state of an operation, before and after a step.            *)

LEMMA AbstractState ==
    ASSUME NEW l \in LobbyIds
    PROVE  /\ phaseOf(l) = phaseIn(store.lobbies[l])
           /\ teamOf(l) = Joined(store.lobbies[l])
           /\ paidOf(l) = Settled(store.lobbies[l])
BY DEF phaseOf, teamOf, paidOf, phaseIn, Settled, lobbyOf

(* Each instance of OperationLife counts as this module does.              *)
LEMMA SameCardinality ==
    ASSUME NEW l, NEW S
    PROVE  /\ Life(l)!Cardinality(S) = Cardinality(S)
           /\ FirstLife!Cardinality(S) = Cardinality(S)
BY DEF Life!Cardinality, FirstLife!Cardinality, Cardinality

LEMMA LifeStarts == ASSUME NEW l, Init PROVE Life(l)!Init
<1>1. store.lobbies = <<>>
  BY DEF Init
<1>2. l \notin LobbyIds
  BY <1>1 DEF LobbyIds
<1>3. QED
  BY <1>2 DEF Life!Init, phaseOf, teamOf, paidOf

LEMMA LifeGoesOn ==
    ASSUME NEW l, FairPlay, FairPlay', [Next]_vars
    PROVE  [Life(l)!Next]_(Life(l)!life)
<1>1. IInv /\ Fair(block, store) /\ Sound(store) /\ Sound(store')
  BY DEF FairPlay, IInv
<1>2. LobbyIds = Ids(store) /\ LobbyIds' = Ids(store')
  BY DEF LobbyIds, Ids
<1>3. CASE store' = store
  <2>1. phaseOf(l)' = phaseOf(l) /\ teamOf(l)' = teamOf(l) /\ paidOf(l)' = paidOf(l)
    BY <1>3 DEF phaseOf, teamOf, paidOf, LobbyIds, lobbyOf, Joined
  <2>2. QED
    BY <2>1 DEF Life!life
<1>4. CASE StepOf(store, store')
  <2>1. CASE l \in Ids(store)
    <3> DEFINE x == store.lobbies[l]
               y == store'.lobbies[l]
    <3>1. l \in Ids(store')
      BY <1>4, <2>1 DEF StepOf
    <3>2. /\ phaseOf(l) = phaseIn(x) /\ teamOf(l) = Joined(x) /\ paidOf(l) = Settled(x)
      BY <1>2, <2>1, AbstractState
    <3>3. /\ phaseOf(l)' = phaseIn(y) /\ teamOf(l)' = Joined(y) /\ paidOf(l)' = Settled(y)
      BY <1>2, <3>1 DEF phaseOf, teamOf, paidOf, phaseIn, Settled, lobbyOf, Joined
    <3>4. Lives(x, y)
      <4>1. /\ x \in SoundLobby /\ y \in SoundLobby
            /\ Linked(x, store.attacks[x.epochId])
        BY <1>1, <2>1, <3>1, LobbyOf
      <4>2. FairLobby(block, x, store.attacks[x.epochId])
        BY <1>1, <2>1 DEF Fair
      <4>3. RoomMove(x, y, store.attacks[x.epochId], store'.attacks[x.epochId])
        BY <1>4, <2>1 DEF StepOf, MoveOf
      <4> HIDE DEF x, y
      <4>4. QED
        BY <4>1, <4>2, <4>3, RoomLives
    <3> HIDE DEF x, y
    <3>5. CASE Stutters(x, y)
      BY <3>2, <3>3, <3>5 DEF Stutters, Life!life
    <3>6. CASE StartsUp(x, y)
      <4>1. Life(l)!Start
        BY <3>2, <3>3, <3>6, SameCardinality DEF StartsUp, Life!Start
      <4>2. QED
        BY <4>1 DEF Life!Next
    <3>7. CASE IsCalledOff(x, y)
      BY <3>2, <3>3, <3>7 DEF IsCalledOff, Life!CallOff, Life!Next
    <3>8. CASE Finishes(x, y)
      BY <3>2, <3>3, <3>8 DEF Finishes, Life!Finish, Life!Next
    <3>9. ASSUME NEW w \in Players, Joins(x, y, w) \/ Leaves(x, y, w) \/ Pays(x, y, w)
          PROVE  Life(l)!Next
      <4>1. CASE Joins(x, y, w)
        BY <3>2, <3>3, <4>1 DEF Joins, Life!Join, Life!Next
      <4>2. CASE Leaves(x, y, w)
        BY <3>2, <3>3, <4>2 DEF Leaves, Life!Leave, Life!Next
      <4>3. CASE Pays(x, y, w)
        BY <3>2, <3>3, <4>3 DEF Pays, Life!Pay, Life!Next
      <4>4. QED
        BY <3>9, <4>1, <4>2, <4>3
    <3>10. QED
      BY <3>4, <3>5, <3>6, <3>7, <3>8, <3>9 DEF Lives
  <2>2. CASE l \notin Ids(store) /\ l \in Ids(store')
    <3> DEFINE y == store'.lobbies[l]
    <3>1. phaseOf(l) = "none" /\ teamOf(l) = {} /\ paidOf(l) = {}
      BY <1>2, <2>2 DEF phaseOf, teamOf, paidOf
    <3>2. /\ phaseOf(l)' = phaseIn(y) /\ teamOf(l)' = Joined(y) /\ paidOf(l)' = Settled(y)
      BY <1>2, <2>2 DEF phaseOf, teamOf, paidOf, phaseIn, Settled, lobbyOf, Joined
    <3>3. Fresh(y) /\ y \in SoundLobby
      BY <1>1, <1>4, <2>2, LobbyOf DEF StepOf
    <3> HIDE DEF y
    <3>4. phaseIn(y) = "open" /\ Joined(y) = {} /\ Settled(y) = {}
      BY <3>3, PhaseFacts DEF Fresh, Joined, Settled
    <3>5. QED
      BY <3>1, <3>2, <3>4 DEF Life!Open, Life!Next
  <2>3. CASE l \notin Ids(store) /\ l \notin Ids(store')
    <3>1. phaseOf(l)' = phaseOf(l) /\ teamOf(l)' = teamOf(l) /\ paidOf(l)' = paidOf(l)
      BY <1>2, <2>3 DEF phaseOf, teamOf, paidOf
    <3>2. QED
      BY <3>1 DEF Life!life
  <2>4. QED
    BY <2>1, <2>2, <2>3
<1>5. QED
  BY <1>1, <1>3, <1>4, NextSteps

(* Every operation lives the life its members are promised: a team that    *)
(* gathers while applications are open and is full and fixed once it runs, *)
(* one ending, and one payment to each member on the side of that ending,  *)
(* whichever entry points its transitions come through.                    *)
THEOREM EveryOperationIsWhatWasPromised == ASSUME NEW l PROVE Spec => Life(l)!Spec
<1>1. Init => Life(l)!Init
  BY LifeStarts
<1>2. FairPlay /\ FairPlay' /\ [Next]_vars => [Life(l)!Next]_(Life(l)!life)
  BY LifeGoesOn
<1>3. QED
  BY <1>1, <1>2, PlayStaysFair, PTL DEF Spec, Life!Spec

(* In particular the first one does, which is what the runs check.         *)
THEOREM TheFirstOperationIsWhatWasPromised == Spec => AnOperationIsWhatWasPromised
<1>1. Init => FirstLife!Init
  BY LifeStarts DEF Life!Init, FirstLife!Init
<1>2. FairPlay /\ FairPlay' /\ [Next]_vars => [FirstLife!Next]_(FirstLife!life)
  <2>1. SUFFICES ASSUME FairPlay, FairPlay', [Next]_vars
                 PROVE  FirstLife!Next \/ UNCHANGED FirstLife!life
    OBVIOUS
  <2>2. Life(1)!Next \/ UNCHANGED Life(1)!life
    BY <2>1, LifeGoesOn
  <2>3. QED
    BY <2>2, SameCardinality DEF Life!Next, Life!life, Life!Open, Life!Start, Life!CallOff,
       Life!Finish, Life!Join, Life!Leave, Life!Pay, FirstLife!Next, FirstLife!life,
       FirstLife!Open, FirstLife!Start, FirstLife!CallOff, FirstLife!Finish,
       FirstLife!Join, FirstLife!Leave, FirstLife!Pay
<1>3. QED
  BY <1>1, <1>2, PlayStaysFair, PTL DEF Spec, AnOperationIsWhatWasPromised, FirstLife!Spec

-----------------------------------------------------------------------------
(* The money adds up.  Books, the inductive invariant, says what each      *)
(* operation holds while it is in play in terms of what each member paid,  *)
(* and that the balance is what all operations are owed.  A write to one   *)
(* operation keeps it when it moves the balance, the treasury and the pool *)
(* by what it moves the debt, so each library operator gets one lemma,     *)
(* about its operation.                                                    *)

(* What each wallet put into an operation, and where it went.              *)
paidBy(x)   == [w \in Players |-> x.seats[w].paidIn]
probesBy(x) == [w \in Players |-> x.seats[w].probesPaid]
entryBy(x)  == [w \in Players |-> x.entryPrice]
feesBy(x)   == [w \in Players |-> x.seats[w].paidIn - x.seats[w].probesPaid - x.entryPrice]

(* While applications are open every sum of the operation is the sum of    *)
(* what its members paid towards it, so that each can be given back.       *)
Gathered(x) ==
    /\ x.rewardPool = x.startPrizePool + Total(probesBy(x), Joined(x))
    /\ x.entryFeesCollected = Total(entryBy(x), Joined(x))
    /\ x.creatorFeeAccrued = Total(feesBy(x), Joined(x))
    /\ \A w \in Players :
          /\ x.seats[w].joined =>
                x.seats[w].paidIn >= x.seats[w].probesPaid + x.entryPrice
          /\ ~x.seats[w].joined => x.seats[w].probesPaid = 0
    /\ x.creator = Game => x.startPrizePool = 0

(* What an operation in play is owed is what its members and its creator   *)
(* put in, so that either ending can pay it out.                           *)
InPlay(x) ==
    /\ ~x.creatorSettled
    /\ owedInPlay(x) = Total(paidBy(x), Joined(x)) + x.startPrizePool

Positive(x) ==
    /\ x.startPrizePool >= 0 /\ x.rewardPool >= 0 /\ x.rewardPerWinner >= 0
    /\ x.entryFeesCollected >= 0 /\ x.creatorFeeAccrued >= 0

Shared(x) ==
    x.intercepted => x.rewardPerWinner * Cardinality(Winners(x)) <= x.rewardPool

Banked(x) ==
    /\ Positive(x)
    /\ x.intercepted <=> Winners(x) # {}
    /\ x.ending = "NONE" => InPlay(x)
    /\ x.status = "OPEN" => Gathered(x)
    /\ x.ending = "COMPLETED" => Shared(x)

dues(s) == [l \in Ids(s) |-> owed(s.lobbies[l])]

Books(s) ==
    /\ s.globalDefensePool >= 0
    /\ s.balance = s.protocolTreasury + s.globalDefensePool + Total(dues(s), Ids(s))
    /\ \A l \in Ids(s) : Banked(s.lobbies[l])
    /\ \A e \in EpochIds :
          s.globalDefenseLobby[e] # 0 => s.lobbies[s.globalDefenseLobby[e]].creator = Game

-----------------------------------------------------------------------------
(* The sums of the model are totals.                                       *)

LEMMA PaidInTotal ==
    ASSUME NEW x, NEW D \in SUBSET Players
    PROVE  paidInBy(x, D) = Total(paidBy(x), D)
<1> DEFINE Folds(h) ==
              h = [s \in SUBSET D |->
                      IF s = {} THEN 0
                      ELSE x.seats[someOf(s)].paidIn + h[s \ {someOf(s)}]]
           g == CHOOSE h : Folds(h)
<1>1. paidInBy(x, D) = g[D]
  BY DEF paidInBy, MapThenSumSet, MapThenFoldSet, someOf
<1>2. ASSUME NEW h
      PROVE  Folds(h) <=> IsTally(h, paidBy(x), D)
  <2>1. ASSUME NEW s \in SUBSET D, s # {}
        PROVE  paidBy(x)[someOf(s)] = x.seats[someOf(s)].paidIn
    BY <2>1, SomeOf DEF paidBy
  <2>2. [s \in SUBSET D |->
            IF s = {} THEN 0 ELSE x.seats[someOf(s)].paidIn + h[s \ {someOf(s)}]]
        = [s \in SUBSET D |->
            IF s = {} THEN 0 ELSE paidBy(x)[someOf(s)] + h[s \ {someOf(s)}]]
    BY <2>1
  <2>3. QED
    BY <2>2 DEF IsTally
<1>3. IsFiniteSet(D)
  BY PlayersAssumption, FS_Subset
<1> HIDE DEF Folds
<1>4. Folds(g)
  <2>1. \E h : Folds(h)
    BY <1>2, <1>3, TallyExists
  <2>2. QED
    BY <2>1
<1> HIDE DEF g
<1>5. QED
  BY <1>1, <1>2, <1>3, <1>4, TallyIsTotal

LEMMA IdsFinite ==
    ASSUME NEW s, Sound(s)
    PROVE  IsFiniteSet(Ids(s))
BY StorageFields, FS_Interval DEF Ids

LEMMA DuesTotal ==
    ASSUME Sound(store)
    PROVE  MapThenSumSet(LAMBDA l : owed(lobbyOf(l)), LobbyIds)
               = Total(dues(store), Ids(store))
<1> DEFINE D == Ids(store)
           f == dues(store)
           Folds(h) ==
              h = [s \in SUBSET D |->
                      IF s = {} THEN 0
                      ELSE owed(store.lobbies[someOf(s)]) + h[s \ {someOf(s)}]]
           g == CHOOSE h : Folds(h)
<1>1. MapThenSumSet(LAMBDA l : owed(lobbyOf(l)), LobbyIds) = g[D]
  BY DEF MapThenSumSet, MapThenFoldSet, someOf, lobbyOf, LobbyIds, Ids
<1>2. ASSUME NEW h
      PROVE  Folds(h) <=> IsTally(h, f, D)
  <2>1. ASSUME NEW s \in SUBSET D, s # {}
        PROVE  f[someOf(s)] = owed(store.lobbies[someOf(s)])
    BY <2>1, SomeOf DEF dues
  <2> HIDE DEF f, D
  <2>2. [s \in SUBSET D |->
            IF s = {} THEN 0 ELSE owed(store.lobbies[someOf(s)]) + h[s \ {someOf(s)}]]
        = [s \in SUBSET D |->
            IF s = {} THEN 0 ELSE f[someOf(s)] + h[s \ {someOf(s)}]]
    BY <2>1
  <2>3. QED
    BY <2>2 DEF IsTally
<1>3. IsFiniteSet(D)
  BY IdsFinite
<1> HIDE DEF Folds
<1>4. Folds(g)
  <2>1. \E h : Folds(h)
    BY <1>2, <1>3, TallyExists
  <2>2. QED
    BY <2>1
<1> HIDE DEF g, f, D
<1>5. QED
  BY <1>1, <1>2, <1>3, <1>4, TallyIsTotal DEF f, D

LEMMA JoinedFinite ==
    ASSUME NEW x
    PROVE  Joined(x) \in SUBSET Players /\ IsFiniteSet(Joined(x))
<1>1. Joined(x) \in SUBSET Players
  BY DEF Joined
<1>2. QED
  BY <1>1, PlayersAssumption, FS_Subset

LEMMA SeatMoney ==
    ASSUME NEW x \in SoundLobby, NEW w \in Players
    PROVE  /\ x.seats[w].paidIn \in Nat /\ x.seats[w].probesPaid \in Nat
           /\ x.seats[w].joined \in BOOLEAN /\ x.seats[w].refunded \in BOOLEAN
           /\ x.seats[w].claimed \in BOOLEAN /\ x.seats[w].isWinner \in BOOLEAN
           /\ paidBy(x)[w] = x.seats[w].paidIn
           /\ probesBy(x)[w] = x.seats[w].probesPaid
           /\ entryBy(x)[w] = x.entryPrice
           /\ feesBy(x)[w] = x.seats[w].paidIn - x.seats[w].probesPaid - x.entryPrice
           /\ feesBy(x)[w] \in Int
<1>1. x.seats[w] \in Seat /\ x.entryPrice \in Nat
  BY LobbyFields
<1>2. /\ x.seats[w].paidIn \in Nat /\ x.seats[w].probesPaid \in Nat
      /\ x.seats[w].joined \in BOOLEAN /\ x.seats[w].refunded \in BOOLEAN
      /\ x.seats[w].claimed \in BOOLEAN /\ x.seats[w].isWinner \in BOOLEAN
  BY <1>1 DEF Seat
<1>3. /\ paidBy(x)[w] = x.seats[w].paidIn
      /\ probesBy(x)[w] = x.seats[w].probesPaid
      /\ entryBy(x)[w] = x.entryPrice
      /\ feesBy(x)[w] = x.seats[w].paidIn - x.seats[w].probesPaid - x.entryPrice
  BY DEF paidBy, probesBy, entryBy, feesBy
<1>4. QED
  BY <1>1, <1>2, <1>3

LEMMA TotalsTyped ==
    ASSUME NEW x \in SoundLobby, NEW D \in SUBSET Players
    PROVE  /\ IsFiniteSet(D)
           /\ Total(paidBy(x), D) \in Nat /\ Total(probesBy(x), D) \in Nat
           /\ Total(entryBy(x), D) \in Nat /\ Total(feesBy(x), D) \in Int
<1>1. IsFiniteSet(D) /\ x.entryPrice \in Nat
  BY PlayersAssumption, FS_Subset, LobbyFields
<1>2. \A w \in D : /\ paidBy(x)[w] \in Nat /\ probesBy(x)[w] \in Nat
                   /\ entryBy(x)[w] \in Nat /\ feesBy(x)[w] \in Int
  BY <1>1, SeatMoney
<1>3. QED
  BY <1>1, <1>2, TotalNonNegative, TotalIsInt

LEMMA FeesPositive ==
    ASSUME NEW x \in SoundLobby,
           \A w \in Players :
              x.seats[w].joined => x.seats[w].paidIn >= x.seats[w].probesPaid + x.entryPrice
    PROVE  Total(feesBy(x), Joined(x)) \in Nat
<1>1. ASSUME NEW w \in Joined(x)
      PROVE  feesBy(x)[w] \in Nat
  <2>1. w \in Players /\ x.seats[w].joined
    BY DEF Joined
  <2>2. x.entryPrice \in Nat
    BY LobbyFields
  <2>3. QED
    BY <2>1, <2>2, SeatMoney
<1>2. QED
  BY <1>1, JoinedFinite, TotalNonNegative

(* Who still has to be paid, on either side of the ending.                 *)
Unclaimed(x)  == {w \in Winners(x) : ~x.seats[w].claimed}
Unrefunded(x) == {w \in Joined(x) : ~x.seats[w].refunded}

LEMMA UnclaimedFinite ==
    ASSUME NEW x
    PROVE  /\ Unclaimed(x) \in SUBSET Players /\ IsFiniteSet(Unclaimed(x))
           /\ Cardinality(Unclaimed(x)) \in Nat
<1>1. Unclaimed(x) \in SUBSET Players
  BY DEF Winners, Unclaimed
<1>2. QED
  BY <1>1, PlayersAssumption, FS_Subset, FS_CardinalityType

LEMMA ProductsOfInts ==
    ASSUME NEW a \in Int, NEW b \in Int
    PROVE  a * b \in Int
OBVIOUS

LEMMA OwedForms ==
    ASSUME NEW x \in SoundLobby
    PROVE  /\ owedBack(x) = Total(paidBy(x), Unrefunded(x))
                              + IF x.creatorSettled THEN 0 ELSE x.startPrizePool
           /\ owedForTheRound(x) = x.rewardPerWinner * Cardinality(Unclaimed(x))
                              + IF x.creatorSettled THEN 0 ELSE creatorDue(x)
           /\ x.ending = "NONE" => owed(x) = owedInPlay(x)
           /\ x.ending \in RefundEndings => owed(x) = owedBack(x)
           /\ x.ending = "COMPLETED" => owed(x) = owedForTheRound(x)
           /\ Total(paidBy(x), Unrefunded(x)) \in Nat
           /\ owedBack(x) \in Int /\ owedForTheRound(x) \in Int /\ owedInPlay(x) \in Int
<1>1. /\ x.rewardPool \in Int /\ x.creatorFeeAccrued \in Int
      /\ x.entryFeesCollected \in Int /\ x.startPrizePool \in Int
      /\ x.rewardPerWinner \in Int
  BY LobbyFields
<1>2. owedInPlay(x) \in Int
  BY <1>1 DEF owedInPlay
<1>3. /\ owedBack(x) = Total(paidBy(x), Unrefunded(x))
                          + IF x.creatorSettled THEN 0 ELSE x.startPrizePool
      /\ Total(paidBy(x), Unrefunded(x)) \in Nat
  <2>1. Unrefunded(x) \in SUBSET Players
    BY DEF Joined, Unrefunded
  <2>2. QED
    BY <2>1, PaidInTotal, TotalsTyped DEF owedBack, Unrefunded
<1>4. owedForTheRound(x) = x.rewardPerWinner * Cardinality(Unclaimed(x))
                              + IF x.creatorSettled THEN 0 ELSE creatorDue(x)
  BY DEF owedForTheRound, Unclaimed
<1>5. owedForTheRound(x) \in Int
  <2> DEFINE prizes == x.rewardPerWinner * Cardinality(Unclaimed(x))
  <2>1. prizes \in Int
    BY <1>1, UnclaimedFinite, ProductsOfInts
  <2>2. owedForTheRound(x) = prizes + IF x.creatorSettled THEN 0 ELSE creatorDue(x)
    BY <1>4
  <2> HIDE DEF prizes
  <2>3. QED
    BY <2>1, <2>2, creatorDueType
<1>6. owedBack(x) \in Int
  BY <1>1, <1>3
<1>7. /\ x.ending = "NONE" => owed(x) = owedInPlay(x)
      /\ x.ending \in RefundEndings => owed(x) = owedBack(x)
      /\ x.ending = "COMPLETED" => owed(x) = owedForTheRound(x)
  BY DEF owed, RefundEndings
<1>8. QED
  BY <1>2, <1>3, <1>4, <1>5, <1>6, <1>7

LEMMA OwedType ==
    ASSUME NEW x \in SoundLobby
    PROVE  owed(x) \in Int
<1>1. x.ending = "NONE" \/ x.ending \in RefundEndings \/ x.ending = "COMPLETED"
  BY LobbyFields DEF Endings, RefundEndings
<1>2. QED
  BY <1>1, OwedForms

-----------------------------------------------------------------------------
(* What each thing that can happen to one operation does to its debt.      *)

SamePayments(x, y) ==
    /\ y.entryPrice = x.entryPrice /\ y.creator = x.creator
    /\ \A w \in Players : /\ y.seats[w].joined = x.seats[w].joined
                          /\ y.seats[w].paidIn = x.seats[w].paidIn
                          /\ y.seats[w].probesPaid = x.seats[w].probesPaid

SameSums(x, y) ==
    /\ y.startPrizePool = x.startPrizePool /\ y.rewardPool = x.rewardPool
    /\ y.entryFeesCollected = x.entryFeesCollected
    /\ y.creatorFeeAccrued = x.creatorFeeAccrued
    /\ y.rewardPerWinner = x.rewardPerWinner

LEMMA SameTotals ==
    ASSUME NEW x, NEW y, SamePayments(x, y)
    PROVE  /\ Joined(y) = Joined(x) /\ paidBy(y) = paidBy(x)
           /\ probesBy(y) = probesBy(x) /\ entryBy(y) = entryBy(x)
           /\ feesBy(y) = feesBy(x)
BY DEF SamePayments, Joined, paidBy, probesBy, entryBy, feesBy

LEMMA GatheredKept ==
    ASSUME NEW x, NEW y, Gathered(x), SamePayments(x, y), SameSums(x, y)
    PROVE  Gathered(y)
BY SameTotals DEF Gathered, SamePayments, SameSums

(* A move or a score: no money.                                            *)
LEMMA InPlayKept ==
    ASSUME NEW x \in SoundLobby, NEW y \in SoundLobby, Banked(x),
           SamePayments(x, y), SameSums(x, y), y.creatorSettled = x.creatorSettled,
           y.status = x.status, x.ending = "NONE", y.ending = "NONE",
           y.intercepted <=> Winners(y) # {}
    PROVE  Banked(y) /\ owed(y) = owed(x)
<1>1. owedInPlay(y) = owedInPlay(x)
  BY DEF owedInPlay, SameSums
<1>2. owed(y) = owed(x)
  BY <1>1, OwedForms
<1>3. InPlay(y)
  BY <1>1, SameTotals DEF InPlay, Banked, SameSums
<1>4. Positive(y)
  BY DEF Banked, Positive, SameSums
<1>5. y.status = "OPEN" => Gathered(y)
  BY GatheredKept DEF Banked
<1>6. QED
  BY <1>2, <1>3, <1>4, <1>5 DEF Banked

(* Called off: what the operation held is what everybody gets back.        *)
LEMMA CalledOffOwes ==
    ASSUME NEW x \in SoundLobby, NEW y \in SoundLobby, Banked(x),
           x.ending # "COMPLETED", y.ending \in RefundEndings, y.seats = x.seats,
           SamePayments(x, y), y.startPrizePool = x.startPrizePool,
           y.creatorSettled = x.creatorSettled,
           Positive(y), y.intercepted = x.intercepted
    PROVE  Banked(y) /\ owed(y) = owed(x)
<1>1. Unrefunded(y) = Unrefunded(x) /\ paidBy(y) = paidBy(x) /\ Joined(y) = Joined(x)
  BY SameTotals DEF Unrefunded, SamePayments
<1>2. owed(y) = Total(paidBy(x), Unrefunded(x))
                    + IF x.creatorSettled THEN 0 ELSE x.startPrizePool
  BY <1>1, OwedForms
<1>3. owed(x) = owed(y)
  <2>1. CASE x.ending = "NONE"
    <3>1. \A w \in Players : ~x.seats[w].refunded
      BY <2>1, LobbyFields DEF OneStory, RefundEndings
    <3>2. Unrefunded(x) = Joined(x)
      BY <3>1 DEF Unrefunded, Joined
    <3>3. ~x.creatorSettled /\ owedInPlay(x) = Total(paidBy(x), Joined(x)) + x.startPrizePool
      BY <2>1 DEF Banked, InPlay
    <3>4. QED
      BY <1>2, <2>1, <3>2, <3>3, OwedForms
  <2>2. CASE x.ending \in RefundEndings
    BY <1>2, <2>2, OwedForms
  <2>3. QED
    BY <2>1, <2>2, LobbyFields DEF Endings, RefundEndings
<1>4. y.ending # "NONE" /\ y.status # "OPEN" /\ y.ending # "COMPLETED"
  BY LobbyFields DEF OneStory, RefundEndings
<1>5. y.intercepted <=> Winners(y) # {}
  BY DEF Banked, Winners
<1>6. QED
  BY <1>3, <1>4, <1>5 DEF Banked

(* Paying a called-off room out.                                           *)
LEMMA PaidBackOwes ==
    ASSUME NEW x \in SoundLobby, NEW y \in SoundLobby, Banked(x), y = paidBack(x),
           x.ending \in RefundEndings
    PROVE  /\ Banked(y)
           /\ owed(y) = owed(x) - paidInBy(x, unpaid(x))
                          - IF x.creatorSettled THEN 0 ELSE x.startPrizePool
           /\ paidInBy(x, unpaid(x)) \in Nat
<1> DEFINE U == unpaid(x)
           R == Unrefunded(x)
           bounty == IF x.creatorSettled THEN 0 ELSE x.startPrizePool
<1>1. /\ y.creatorSettled /\ SameSums(x, y) /\ y.ending = x.ending /\ y.status = x.status
      /\ y.entryPrice = x.entryPrice /\ y.creator = x.creator
      /\ y.intercepted = x.intercepted
      /\ \A w \in Players :
            y.seats[w] = IF w \in U THEN [x.seats[w] EXCEPT !.refunded = TRUE] ELSE x.seats[w]
  BY LobbyFields DEF paidBack, Lobby, SameSums
<1>2. ASSUME NEW w \in Players
      PROVE  /\ y.seats[w].joined = x.seats[w].joined
             /\ y.seats[w].paidIn = x.seats[w].paidIn
             /\ y.seats[w].probesPaid = x.seats[w].probesPaid
             /\ y.seats[w].isWinner = x.seats[w].isWinner
             /\ y.seats[w].refunded = (w \in U \/ x.seats[w].refunded)
  <2>1. x.seats[w] \in Seat
    BY LobbyFields
  <2>2. /\ y.seats[w] = IF w \in U THEN [x.seats[w] EXCEPT !.refunded = TRUE] ELSE x.seats[w]
    BY <1>1
  <2> HIDE DEF U
  <2>3. CASE w \in U
    BY <2>1, <2>2, <2>3 DEF Seat
  <2>4. CASE w \notin U
    BY <2>1, <2>2, <2>4 DEF Seat
  <2>5. QED
    BY <2>3, <2>4
<1>3. SamePayments(x, y) /\ Winners(y) = Winners(x)
  BY <1>1, <1>2 DEF SamePayments, Winners
<1>4. Joined(y) = Joined(x) /\ paidBy(y) = paidBy(x)
  BY <1>3, SameTotals
<1>5. Unrefunded(y) = R \ U
  BY <1>2, <1>4 DEF Unrefunded, Joined
<1>6. U \in SUBSET R /\ R \in SUBSET Players
  BY DEF unpaid, Unrefunded, Joined
<1>7. ASSUME NEW w \in R \ U
      PROVE  paidBy(x)[w] = 0
  <2>1. w \in Players /\ w \in Joined(x) /\ ~x.seats[w].refunded /\ ~(x.seats[w].paidIn > 0)
    BY <1>7 DEF Unrefunded, Joined, unpaid
  <2>2. QED
    BY <2>1, SeatMoney
<1>8. Total(paidBy(x), R \ U) = 0
  <2>1. IsFiniteSet(R \ U)
    BY <1>6, TotalsTyped
  <2>2. {} \in SUBSET (R \ U) /\ \A w \in (R \ U) \ {} : paidBy(x)[w] = 0
    BY <1>7
  <2>3. \A w \in R \ U : paidBy(x)[w] \in Int
    BY <1>7
  <2>4. Total(paidBy(x), R \ U) = Total(paidBy(x), {})
    BY <2>1, <2>2, <2>3, TotalIgnoresZeros
  <2>5. QED
    BY <2>1, <2>4, TotalUnfolds
<1>9. Total(paidBy(x), R) = Total(paidBy(x), U)
  <2>1. IsFiniteSet(R) /\ \A w \in R : paidBy(x)[w] \in Int
    BY <1>6, TotalsTyped, SeatMoney
  <2> HIDE DEF R, U
  <2>2. QED
    BY <1>6, <1>7, <2>1, TotalIgnoresZeros
<1>10. paidInBy(x, U) = Total(paidBy(x), U) /\ paidInBy(x, U) \in Nat
  BY <1>6, PaidInTotal, TotalsTyped
<1>11. owed(x) = Total(paidBy(x), U) + bounty /\ owed(y) = 0
  <2>1. owed(x) = Total(paidBy(x), R) + bounty
    BY OwedForms
  <2>2. owed(y) = Total(paidBy(x), R \ U)
    <3>1. y.ending \in RefundEndings /\ Unrefunded(y) = R \ U /\ paidBy(y) = paidBy(x)
      BY <1>1, <1>4, <1>5
    <3> HIDE DEF R, U
    <3>2. owed(y) = Total(paidBy(x), R \ U) + 0
      BY <1>1, <3>1, OwedForms
    <3>3. QED
      BY <1>8, <3>2
  <2> HIDE DEF R, U, bounty
  <2>3. QED
    BY <1>8, <1>9, <2>1, <2>2
<1>12. bounty \in Int
  BY LobbyFields
<1>13. Banked(y)
  <2>1. y.ending # "NONE" /\ y.status # "OPEN" /\ y.ending # "COMPLETED"
    BY <1>1, LobbyFields DEF OneStory, RefundEndings
  <2>2. Positive(y)
    BY <1>1 DEF Positive, SameSums, Banked
  <2>3. QED
    BY <1>1, <1>3, <2>1, <2>2 DEF Banked
<1> HIDE DEF U, bounty
<1>14. QED
  BY <1>10, <1>11, <1>12, <1>13 DEF U, bounty

(* One wallet's seat changes: every sum over the members moves by what     *)
(* that wallet's part in it moves.                                         *)
part(x, w, amount) == IF x.seats[w].joined THEN amount ELSE 0

SameBeside(x, y, w) ==
    /\ y.entryPrice = x.entryPrice
    /\ \A v \in Players : v # w =>
          /\ y.seats[v].joined = x.seats[v].joined
          /\ y.seats[v].paidIn = x.seats[v].paidIn
          /\ y.seats[v].probesPaid = x.seats[v].probesPaid

LEMMA WithoutOne ==
    ASSUME NEW x \in SoundLobby, NEW w \in Players,
           NEW f, \A v \in Joined(x) : f[v] \in Int
    PROVE  /\ Total(f, Joined(x) \ {w}) \in Int
           /\ Total(f, Joined(x)) = part(x, w, f[w]) + Total(f, Joined(x) \ {w})
<1> DEFINE J == Joined(x)
<1>1. IsFiniteSet(J) /\ IsFiniteSet(J \ {w}) /\ (w \in J <=> x.seats[w].joined)
  BY JoinedFinite, FS_Subset DEF Joined
<1> HIDE DEF J
<1>2. Total(f, J \ {w}) \in Int
  BY <1>1, TotalIsInt DEF J
<1>3. CASE w \in J
  <2>1. Total(f, J) = f[w] + Total(f, J \ {w})
    BY <1>1, <1>3, TotalTakes DEF J
  <2>2. QED
    BY <1>1, <1>2, <1>3, <2>1 DEF part, J
<1>4. CASE w \notin J
  <2>1. J \ {w} = J
    BY <1>4
  <2>2. part(x, w, f[w]) = 0
    BY <1>1, <1>4 DEF part
  <2>3. QED
    BY <1>2, <2>1, <2>2 DEF J
<1>5. QED
  BY <1>3, <1>4

LEMMA OneSeatChanges ==
    ASSUME NEW x \in SoundLobby, NEW y \in SoundLobby, NEW w \in Players, SameBeside(x, y, w)
    PROVE  LET R == Joined(x) \ {w} IN
           /\ Total(paidBy(x), R) \in Int /\ Total(probesBy(x), R) \in Int
           /\ Total(entryBy(x), R) \in Int /\ Total(feesBy(x), R) \in Int
           /\ Total(paidBy(x), Joined(x))
                  = part(x, w, x.seats[w].paidIn) + Total(paidBy(x), R)
           /\ Total(paidBy(y), Joined(y))
                  = part(y, w, y.seats[w].paidIn) + Total(paidBy(x), R)
           /\ Total(probesBy(x), Joined(x))
                  = part(x, w, x.seats[w].probesPaid) + Total(probesBy(x), R)
           /\ Total(probesBy(y), Joined(y))
                  = part(y, w, y.seats[w].probesPaid) + Total(probesBy(x), R)
           /\ Total(entryBy(x), Joined(x)) = part(x, w, x.entryPrice) + Total(entryBy(x), R)
           /\ Total(entryBy(y), Joined(y)) = part(y, w, x.entryPrice) + Total(entryBy(x), R)
           /\ Total(feesBy(x), Joined(x))
                  = part(x, w, x.seats[w].paidIn - x.seats[w].probesPaid - x.entryPrice)
                    + Total(feesBy(x), R)
           /\ Total(feesBy(y), Joined(y))
                  = part(y, w, y.seats[w].paidIn - y.seats[w].probesPaid - x.entryPrice)
                    + Total(feesBy(x), R)
<1> DEFINE R == Joined(x) \ {w}
<1>1. Joined(y) \ {w} = R /\ R \in SUBSET Players /\ IsFiniteSet(R)
  BY JoinedFinite, FS_Subset DEF Joined, SameBeside
<1>2. x.entryPrice \in Nat /\ y.entryPrice = x.entryPrice
  BY LobbyFields DEF SameBeside
<1>3. ASSUME NEW z \in SoundLobby
      PROVE  \A v \in Joined(z) : /\ paidBy(z)[v] \in Int /\ probesBy(z)[v] \in Int
                                  /\ entryBy(z)[v] \in Int /\ feesBy(z)[v] \in Int
  <2>1. z.entryPrice \in Nat /\ Joined(z) \in SUBSET Players
    BY LobbyFields, JoinedFinite
  <2>2. QED
    BY <2>1, SeatMoney
<1>4. ASSUME NEW v \in R
      PROVE  /\ paidBy(y)[v] = paidBy(x)[v] /\ probesBy(y)[v] = probesBy(x)[v]
             /\ entryBy(y)[v] = entryBy(x)[v] /\ feesBy(y)[v] = feesBy(x)[v]
  <2>1. v \in Players /\ v # w
    BY <1>1
  <2>2. /\ y.seats[v].paidIn = x.seats[v].paidIn
        /\ y.seats[v].probesPaid = x.seats[v].probesPaid
    BY <2>1 DEF SameBeside
  <2>3. QED
    BY <1>2, <2>1, <2>2 DEF paidBy, probesBy, entryBy, feesBy
<1>5. /\ Total(paidBy(y), R) = Total(paidBy(x), R)
      /\ Total(probesBy(y), R) = Total(probesBy(x), R)
      /\ Total(entryBy(y), R) = Total(entryBy(x), R)
      /\ Total(feesBy(y), R) = Total(feesBy(x), R)
  <2> HIDE DEF R
  <2>1. QED
    BY <1>1, <1>4, TotalOfEqual
<1>6. /\ paidBy(x)[w] = x.seats[w].paidIn /\ paidBy(y)[w] = y.seats[w].paidIn
      /\ probesBy(x)[w] = x.seats[w].probesPaid /\ probesBy(y)[w] = y.seats[w].probesPaid
      /\ entryBy(x)[w] = x.entryPrice /\ entryBy(y)[w] = x.entryPrice
      /\ feesBy(x)[w] = x.seats[w].paidIn - x.seats[w].probesPaid - x.entryPrice
      /\ feesBy(y)[w] = y.seats[w].paidIn - y.seats[w].probesPaid - x.entryPrice
  BY <1>2 DEF paidBy, probesBy, entryBy, feesBy
<1>7. ASSUME NEW z \in SoundLobby
      PROVE  LET Q == Joined(z) \ {w} IN
             /\ /\ Total(paidBy(z), Q) \in Int
                /\ Total(paidBy(z), Joined(z)) = part(z, w, paidBy(z)[w]) + Total(paidBy(z), Q)
             /\ /\ Total(probesBy(z), Q) \in Int
                /\ Total(probesBy(z), Joined(z))
                      = part(z, w, probesBy(z)[w]) + Total(probesBy(z), Q)
             /\ /\ Total(entryBy(z), Q) \in Int
                /\ Total(entryBy(z), Joined(z)) = part(z, w, entryBy(z)[w]) + Total(entryBy(z), Q)
             /\ /\ Total(feesBy(z), Q) \in Int
                /\ Total(feesBy(z), Joined(z)) = part(z, w, feesBy(z)[w]) + Total(feesBy(z), Q)
  <2>1. \A v \in Joined(z) : paidBy(z)[v] \in Int
    BY <1>3
  <2>2. \A v \in Joined(z) : probesBy(z)[v] \in Int
    BY <1>3
  <2>3. \A v \in Joined(z) : entryBy(z)[v] \in Int
    BY <1>3
  <2>4. \A v \in Joined(z) : feesBy(z)[v] \in Int
    BY <1>3
  <2>5. /\ Total(paidBy(z), Joined(z) \ {w}) \in Int
        /\ Total(paidBy(z), Joined(z))
              = part(z, w, paidBy(z)[w]) + Total(paidBy(z), Joined(z) \ {w})
    BY <2>1, WithoutOne
  <2>6. /\ Total(probesBy(z), Joined(z) \ {w}) \in Int
        /\ Total(probesBy(z), Joined(z))
              = part(z, w, probesBy(z)[w]) + Total(probesBy(z), Joined(z) \ {w})
    BY <2>2, WithoutOne
  <2>7. /\ Total(entryBy(z), Joined(z) \ {w}) \in Int
        /\ Total(entryBy(z), Joined(z))
              = part(z, w, entryBy(z)[w]) + Total(entryBy(z), Joined(z) \ {w})
    BY <2>3, WithoutOne
  <2>8. /\ Total(feesBy(z), Joined(z) \ {w}) \in Int
        /\ Total(feesBy(z), Joined(z))
              = part(z, w, feesBy(z)[w]) + Total(feesBy(z), Joined(z) \ {w})
    BY <2>4, WithoutOne
  <2>9. QED
    BY <2>5, <2>6, <2>7, <2>8
<1>8. /\ Total(paidBy(x), R) \in Int
      /\ Total(paidBy(x), Joined(x)) = part(x, w, paidBy(x)[w]) + Total(paidBy(x), R)
      /\ Total(probesBy(x), R) \in Int
      /\ Total(probesBy(x), Joined(x)) = part(x, w, probesBy(x)[w]) + Total(probesBy(x), R)
      /\ Total(entryBy(x), R) \in Int
      /\ Total(entryBy(x), Joined(x)) = part(x, w, entryBy(x)[w]) + Total(entryBy(x), R)
      /\ Total(feesBy(x), R) \in Int
      /\ Total(feesBy(x), Joined(x)) = part(x, w, feesBy(x)[w]) + Total(feesBy(x), R)
  BY <1>7
<1>9. /\ Total(paidBy(y), Joined(y)) = part(y, w, paidBy(y)[w]) + Total(paidBy(y), R)
      /\ Total(probesBy(y), Joined(y)) = part(y, w, probesBy(y)[w]) + Total(probesBy(y), R)
      /\ Total(entryBy(y), Joined(y)) = part(y, w, entryBy(y)[w]) + Total(entryBy(y), R)
      /\ Total(feesBy(y), Joined(y)) = part(y, w, feesBy(y)[w]) + Total(feesBy(y), R)
  BY <1>1, <1>7
<1> HIDE DEF R
<1>10. QED
  BY <1>5, <1>6, <1>8, <1>9 DEF R

(* Whose operation it is, how it stands and what it is worth.              *)
Steady(x, y) ==
    /\ y.creator = x.creator /\ y.status = x.status /\ y.ending = x.ending
    /\ y.entryPrice = x.entryPrice /\ y.startPrizePool = x.startPrizePool
    /\ y.creatorSettled = x.creatorSettled /\ y.rewardPerWinner = x.rewardPerWinner
    /\ y.intercepted = x.intercepted /\ Winners(y) = Winners(x)

(* An operation in play that still holds what was put in is in order, once *)
(* its own sums are.                                                       *)
LEMMA StillInPlay ==
    ASSUME NEW x \in SoundLobby, NEW y \in SoundLobby, Banked(x), Steady(x, y),
           x.ending = "NONE", NEW paid \in Int,
           Total(paidBy(y), Joined(y)) = Total(paidBy(x), Joined(x)) + paid,
           owedInPlay(y) = owedInPlay(x) + paid,
           y.rewardPool >= 0, y.entryFeesCollected >= 0, y.creatorFeeAccrued >= 0,
           y.status = "OPEN" => Gathered(y)
    PROVE  Banked(y) /\ owed(y) = owed(x) + paid
<1>1. owed(x) = owedInPlay(x) /\ owed(y) = owedInPlay(y)
  BY OwedForms DEF Steady
<1>2. ~x.creatorSettled /\ owedInPlay(x) = Total(paidBy(x), Joined(x)) + x.startPrizePool
  BY DEF Banked, InPlay
<1>3. /\ Total(paidBy(x), Joined(x)) \in Int /\ x.startPrizePool \in Int
      /\ owedInPlay(x) \in Int
  BY TotalsTyped, JoinedFinite, LobbyFields, OwedForms
<1>4. y.startPrizePool = x.startPrizePool /\ ~y.creatorSettled
  BY <1>2 DEF Steady
<1>5. InPlay(y)
  BY <1>2, <1>3, <1>4 DEF InPlay
<1>6. Positive(y)
  BY DEF Banked, Positive, Steady
<1>7. Banked(y)
  BY <1>5, <1>6 DEF Banked, Steady
<1>8. QED
  BY <1>1, <1>7

(* A seat is taken.                                                        *)
LEMMA JoinedOwes ==
    ASSUME NEW x \in SoundLobby, NEW y \in SoundLobby, Banked(x), Steady(x, y),
           x.status = "OPEN", NEW w \in Players, SameBeside(x, y, w),
           ~x.seats[w].joined, y.seats[w].joined,
           y.seats[w].probesPaid = x.seats[w].probesPaid,
           NEW cost \in Int, y.seats[w].paidIn = cost, cost >= x.entryPrice,
           y.rewardPool = x.rewardPool,
           y.entryFeesCollected = x.entryFeesCollected + x.entryPrice,
           y.creatorFeeAccrued = x.creatorFeeAccrued + cost - x.entryPrice
    PROVE  Banked(y) /\ owed(y) = owed(x) + cost
<1>1. x.ending = "NONE" /\ y.status = "OPEN"
  BY LobbyFields DEF OneStory, Steady
<1>2. Gathered(x) /\ Positive(x)
  BY DEF Banked
<1>3. /\ x.entryPrice \in Nat /\ x.rewardPool \in Int /\ x.entryFeesCollected \in Int
      /\ x.creatorFeeAccrued \in Int /\ x.startPrizePool \in Int
  BY LobbyFields
<1>4. y.seats[w].probesPaid = 0
  BY <1>2 DEF Gathered
<1> DEFINE R == Joined(x) \ {w}
<1>5. /\ Total(paidBy(x), R) \in Int /\ Total(probesBy(x), R) \in Int
      /\ Total(entryBy(x), R) \in Int /\ Total(feesBy(x), R) \in Int
      /\ Total(paidBy(x), Joined(x)) = Total(paidBy(x), R)
      /\ Total(paidBy(y), Joined(y)) = cost + Total(paidBy(x), R)
      /\ Total(probesBy(x), Joined(x)) = Total(probesBy(x), R)
      /\ Total(probesBy(y), Joined(y)) = Total(probesBy(x), R)
      /\ Total(entryBy(x), Joined(x)) = Total(entryBy(x), R)
      /\ Total(entryBy(y), Joined(y)) = x.entryPrice + Total(entryBy(x), R)
      /\ Total(feesBy(x), Joined(x)) = Total(feesBy(x), R)
      /\ Total(feesBy(y), Joined(y)) = cost - x.entryPrice + Total(feesBy(x), R)
  <2>1. /\ part(x, w, x.seats[w].paidIn) = 0 /\ part(y, w, y.seats[w].paidIn) = cost
        /\ part(x, w, x.seats[w].probesPaid) = 0 /\ part(y, w, y.seats[w].probesPaid) = 0
        /\ part(x, w, x.entryPrice) = 0 /\ part(y, w, x.entryPrice) = x.entryPrice
        /\ part(x, w, x.seats[w].paidIn - x.seats[w].probesPaid - x.entryPrice) = 0
        /\ part(y, w, y.seats[w].paidIn - y.seats[w].probesPaid - x.entryPrice) = cost - x.entryPrice
    BY <1>3, <1>4 DEF part
  <2>2. /\ Total(paidBy(x), R) \in Int /\ Total(probesBy(x), R) \in Int
        /\ Total(entryBy(x), R) \in Int /\ Total(feesBy(x), R) \in Int
        /\ Total(paidBy(x), Joined(x))
               = part(x, w, x.seats[w].paidIn) + Total(paidBy(x), R)
        /\ Total(paidBy(y), Joined(y))
               = part(y, w, y.seats[w].paidIn) + Total(paidBy(x), R)
        /\ Total(probesBy(x), Joined(x))
               = part(x, w, x.seats[w].probesPaid) + Total(probesBy(x), R)
        /\ Total(probesBy(y), Joined(y))
               = part(y, w, y.seats[w].probesPaid) + Total(probesBy(x), R)
        /\ Total(entryBy(x), Joined(x)) = part(x, w, x.entryPrice) + Total(entryBy(x), R)
        /\ Total(entryBy(y), Joined(y)) = part(y, w, x.entryPrice) + Total(entryBy(x), R)
        /\ Total(feesBy(x), Joined(x))
               = part(x, w, x.seats[w].paidIn - x.seats[w].probesPaid - x.entryPrice)
                 + Total(feesBy(x), R)
        /\ Total(feesBy(y), Joined(y))
               = part(y, w, y.seats[w].paidIn - y.seats[w].probesPaid - x.entryPrice)
                 + Total(feesBy(x), R)
    BY OneSeatChanges
  <2> HIDE DEF R
  <2>3. QED
    BY <1>3, <2>1, <2>2
<1> HIDE DEF R
<1>6. /\ Total(paidBy(y), Joined(y)) = Total(paidBy(x), Joined(x)) + cost
      /\ Total(probesBy(y), Joined(y)) = Total(probesBy(x), Joined(x))
      /\ Total(entryBy(y), Joined(y)) = Total(entryBy(x), Joined(x)) + x.entryPrice
      /\ Total(feesBy(y), Joined(y)) = Total(feesBy(x), Joined(x)) + cost - x.entryPrice
  BY <1>3, <1>5
<1>7. ASSUME NEW v \in Players
      PROVE  /\ y.seats[v].joined =>
                    y.seats[v].paidIn >= y.seats[v].probesPaid + y.entryPrice
             /\ ~y.seats[v].joined => y.seats[v].probesPaid = 0
  <2>1. CASE v = w
    BY <1>3, <1>4, <2>1 DEF Steady
  <2>2. CASE v # w
    BY <1>2, <2>2 DEF Gathered, SameBeside
  <2>3. QED
    BY <2>1, <2>2
<1>8. y.entryFeesCollected = Total(entryBy(y), Joined(y))
  BY <1>2, <1>6 DEF Gathered
<1>9. y.creatorFeeAccrued = Total(feesBy(y), Joined(y))
  BY <1>2, <1>6 DEF Gathered
<1>10. y.rewardPool = y.startPrizePool + Total(probesBy(y), Joined(y))
  BY <1>2, <1>6 DEF Gathered, Steady
<1>11. Gathered(y)
  BY <1>2, <1>7, <1>8, <1>9, <1>10 DEF Gathered, Steady
<1>12. owedInPlay(y) = owedInPlay(x) + cost
  BY <1>1, <1>3 DEF owedInPlay
<1>13. y.rewardPool >= 0 /\ y.entryFeesCollected >= 0 /\ y.creatorFeeAccrued >= 0
  BY <1>2, <1>3 DEF Positive
<1>14. QED
  BY <1>1, <1>6, <1>11, <1>12, <1>13, StillInPlay

(* A seat is given up, and its wallet takes everything back.               *)
LEMMA LeftOwes ==
    ASSUME NEW x \in SoundLobby, NEW y \in SoundLobby, Banked(x), Steady(x, y),
           x.status = "OPEN", NEW w \in Players, SameBeside(x, y, w),
           x.seats[w].joined, ~y.seats[w].joined, y.seats[w].probesPaid = 0,
           y.rewardPool = x.rewardPool - x.seats[w].probesPaid,
           y.entryFeesCollected = x.entryFeesCollected - x.entryPrice,
           y.creatorFeeAccrued
               = x.creatorFeeAccrued - commissionPaid(x.seats[w], x.entryPrice)
    PROVE  Banked(y) /\ owed(y) = owed(x) - x.seats[w].paidIn
<1>1. x.ending = "NONE" /\ y.status = "OPEN"
  BY LobbyFields DEF OneStory, Steady
<1>2. Gathered(x) /\ Positive(x)
  BY DEF Banked
<1>3. /\ x.entryPrice \in Nat /\ x.rewardPool \in Int /\ x.entryFeesCollected \in Int
      /\ x.creatorFeeAccrued \in Int /\ x.startPrizePool \in Int
      /\ x.seats[w].paidIn \in Nat /\ x.seats[w].probesPaid \in Nat
  BY LobbyFields, SeatMoney
<1> DEFINE paid   == x.seats[w].paidIn
           probes == x.seats[w].probesPaid
           fee    == paid - probes - x.entryPrice
           R      == Joined(x) \ {w}
<1>4. paid >= probes + x.entryPrice
  BY <1>2 DEF Gathered
<1>5. commissionPaid(x.seats[w], x.entryPrice) = fee /\ fee \in Nat
  BY <1>3, <1>4 DEF commissionPaid
<1>6. /\ Total(paidBy(x), R) \in Int /\ Total(probesBy(x), R) \in Int
      /\ Total(entryBy(x), R) \in Int /\ Total(feesBy(x), R) \in Int
      /\ Total(paidBy(x), Joined(x)) = paid + Total(paidBy(x), R)
      /\ Total(paidBy(y), Joined(y)) = Total(paidBy(x), R)
      /\ Total(probesBy(x), Joined(x)) = probes + Total(probesBy(x), R)
      /\ Total(probesBy(y), Joined(y)) = Total(probesBy(x), R)
      /\ Total(entryBy(x), Joined(x)) = x.entryPrice + Total(entryBy(x), R)
      /\ Total(entryBy(y), Joined(y)) = Total(entryBy(x), R)
      /\ Total(feesBy(x), Joined(x)) = fee + Total(feesBy(x), R)
      /\ Total(feesBy(y), Joined(y)) = Total(feesBy(x), R)
  <2>1. /\ part(x, w, x.seats[w].paidIn) = paid /\ part(y, w, y.seats[w].paidIn) = 0
        /\ part(x, w, x.seats[w].probesPaid) = probes /\ part(y, w, y.seats[w].probesPaid) = 0
        /\ part(x, w, x.entryPrice) = x.entryPrice /\ part(y, w, x.entryPrice) = 0
        /\ part(x, w, x.seats[w].paidIn - x.seats[w].probesPaid - x.entryPrice) = fee
        /\ part(y, w, y.seats[w].paidIn - y.seats[w].probesPaid - x.entryPrice) = 0
    BY <1>3 DEF part
  <2>2. /\ Total(paidBy(x), R) \in Int /\ Total(probesBy(x), R) \in Int
        /\ Total(entryBy(x), R) \in Int /\ Total(feesBy(x), R) \in Int
        /\ Total(paidBy(x), Joined(x))
               = part(x, w, x.seats[w].paidIn) + Total(paidBy(x), R)
        /\ Total(paidBy(y), Joined(y))
               = part(y, w, y.seats[w].paidIn) + Total(paidBy(x), R)
        /\ Total(probesBy(x), Joined(x))
               = part(x, w, x.seats[w].probesPaid) + Total(probesBy(x), R)
        /\ Total(probesBy(y), Joined(y))
               = part(y, w, y.seats[w].probesPaid) + Total(probesBy(x), R)
        /\ Total(entryBy(x), Joined(x)) = part(x, w, x.entryPrice) + Total(entryBy(x), R)
        /\ Total(entryBy(y), Joined(y)) = part(y, w, x.entryPrice) + Total(entryBy(x), R)
        /\ Total(feesBy(x), Joined(x))
               = part(x, w, x.seats[w].paidIn - x.seats[w].probesPaid - x.entryPrice)
                 + Total(feesBy(x), R)
        /\ Total(feesBy(y), Joined(y))
               = part(y, w, y.seats[w].paidIn - y.seats[w].probesPaid - x.entryPrice)
                 + Total(feesBy(x), R)
    BY OneSeatChanges
  <2> HIDE DEF R, paid, probes, fee
  <2>3. QED
    BY <2>1, <2>2
<1> HIDE DEF R
<1>7. /\ paid \in Nat /\ probes \in Nat
      /\ y.rewardPool = x.rewardPool - probes
      /\ y.creatorFeeAccrued = x.creatorFeeAccrued - fee
  BY <1>3, <1>5
<1>8. fee = paid - probes - x.entryPrice
  OBVIOUS
<1> HIDE DEF paid, probes, fee
<1>9. Total(paidBy(y), Joined(y)) = Total(paidBy(x), Joined(x)) + (0 - paid)
  BY <1>6, <1>7
<1>10. ASSUME NEW v \in Players
       PROVE  /\ y.seats[v].joined =>
                     y.seats[v].paidIn >= y.seats[v].probesPaid + y.entryPrice
              /\ ~y.seats[v].joined => y.seats[v].probesPaid = 0
  <2>1. CASE v = w
    BY <2>1
  <2>2. CASE v # w
    BY <1>2, <2>2 DEF Gathered, SameBeside
  <2>3. QED
    BY <2>1, <2>2
<1>11. y.entryFeesCollected = Total(entryBy(y), Joined(y))
  BY <1>2, <1>3, <1>6 DEF Gathered
<1>12. y.creatorFeeAccrued = Total(feesBy(y), Joined(y))
  BY <1>2, <1>5, <1>6, <1>7 DEF Gathered
<1>13. y.rewardPool = y.startPrizePool + Total(probesBy(y), Joined(y))
  BY <1>2, <1>3, <1>6, <1>7 DEF Gathered, Steady
<1>14. Gathered(y)
  BY <1>2, <1>10, <1>11, <1>12, <1>13 DEF Gathered, Steady
<1>15. owedInPlay(y) = owedInPlay(x) + (0 - paid)
  <2>1. /\ owedInPlay(x) = x.rewardPool + x.creatorFeeAccrued + x.entryFeesCollected
        /\ owedInPlay(y) = y.rewardPool + y.creatorFeeAccrued + y.entryFeesCollected
    BY <1>1 DEF owedInPlay
  <2>2. owedInPlay(y) = (x.rewardPool - probes) + (x.creatorFeeAccrued - fee)
                            + (x.entryFeesCollected - x.entryPrice)
    BY <1>7, <2>1
  <2>3. fee \in Int
    BY <1>5
  <2>4. QED
    BY <1>3, <1>7, <1>8, <2>1, <2>2, <2>3
<1>16. y.rewardPool >= 0 /\ y.entryFeesCollected >= 0 /\ y.creatorFeeAccrued >= 0
  <2>1. Total(feesBy(y), Joined(y)) \in Nat
    BY <1>10, FeesPositive
  <2>2. Total(entryBy(y), Joined(y)) \in Nat /\ Total(probesBy(y), Joined(y)) \in Nat
    BY TotalsTyped, JoinedFinite
  <2>3. x.startPrizePool >= 0 /\ y.startPrizePool = x.startPrizePool
    BY <1>2 DEF Positive, Steady
  <2>4. QED
    BY <1>3, <1>11, <1>12, <1>13, <2>1, <2>2, <2>3
<1>17. Banked(y) /\ owed(y) = owed(x) + (0 - paid)
  BY <1>1, <1>7, <1>9, <1>14, <1>15, <1>16, StillInPlay
<1>18. QED
  BY <1>7, <1>17, OwedType DEF paid

(* Probes are bought, before the launch or while the round runs.           *)
LEMMA ProbesOwe ==
    ASSUME NEW x \in SoundLobby, NEW y \in SoundLobby, Banked(x), Steady(x, y),
           x.status \in {"OPEN", "ACTIVE"}, NEW w \in Players, SameBeside(x, y, w),
           x.seats[w].joined, y.seats[w].joined, NEW cost \in Nat,
           y.seats[w].paidIn = x.seats[w].paidIn + cost,
           y.seats[w].probesPaid = x.seats[w].probesPaid + cost,
           y.rewardPool = x.rewardPool + cost,
           y.entryFeesCollected = x.entryFeesCollected,
           y.creatorFeeAccrued = x.creatorFeeAccrued
    PROVE  Banked(y) /\ owed(y) = owed(x) + cost
<1>1. x.ending = "NONE" /\ y.status = x.status
  BY LobbyFields DEF OneStory, Steady
<1>2. Positive(x)
  BY DEF Banked
<1>3. /\ x.entryPrice \in Nat /\ x.rewardPool \in Int /\ x.entryFeesCollected \in Int
      /\ x.creatorFeeAccrued \in Int /\ x.startPrizePool \in Int
      /\ x.seats[w].paidIn \in Nat /\ x.seats[w].probesPaid \in Nat
  BY LobbyFields, SeatMoney
<1> DEFINE paid   == x.seats[w].paidIn
           probes == x.seats[w].probesPaid
           R      == Joined(x) \ {w}
<1>4. /\ Total(paidBy(x), R) \in Int /\ Total(probesBy(x), R) \in Int
      /\ Total(entryBy(x), R) \in Int /\ Total(feesBy(x), R) \in Int
      /\ Total(paidBy(x), Joined(x)) = paid + Total(paidBy(x), R)
      /\ Total(paidBy(y), Joined(y)) = paid + cost + Total(paidBy(x), R)
      /\ Total(probesBy(x), Joined(x)) = probes + Total(probesBy(x), R)
      /\ Total(probesBy(y), Joined(y)) = probes + cost + Total(probesBy(x), R)
      /\ Total(entryBy(x), Joined(x)) = x.entryPrice + Total(entryBy(x), R)
      /\ Total(entryBy(y), Joined(y)) = x.entryPrice + Total(entryBy(x), R)
      /\ Total(feesBy(x), Joined(x)) = paid - probes - x.entryPrice + Total(feesBy(x), R)
      /\ Total(feesBy(y), Joined(y))
            = (paid + cost) - (probes + cost) - x.entryPrice + Total(feesBy(x), R)
  BY <1>3, OneSeatChanges DEF part
<1> HIDE DEF R
<1>5. paid \in Nat /\ probes \in Nat
  BY <1>3
<1> HIDE DEF paid, probes
<1>6. /\ Total(paidBy(y), Joined(y)) = Total(paidBy(x), Joined(x)) + cost
      /\ Total(probesBy(y), Joined(y)) = Total(probesBy(x), Joined(x)) + cost
      /\ Total(entryBy(y), Joined(y)) = Total(entryBy(x), Joined(x))
      /\ Total(feesBy(y), Joined(y)) = Total(feesBy(x), Joined(x))
  BY <1>3, <1>4, <1>5
<1>7. ASSUME Gathered(x)
      PROVE  Gathered(y)
  <2>1. ASSUME NEW v \in Players
        PROVE  /\ y.seats[v].joined =>
                     y.seats[v].paidIn >= y.seats[v].probesPaid + y.entryPrice
               /\ ~y.seats[v].joined => y.seats[v].probesPaid = 0
    <3>1. CASE v = w
      BY <1>3, <1>7, <3>1 DEF Gathered, Steady
    <3>2. CASE v # w
      BY <1>7, <3>2 DEF Gathered, SameBeside
    <3>3. QED
      BY <3>1, <3>2
  <2>2. Total(probesBy(x), Joined(x)) \in Int
    BY TotalsTyped, JoinedFinite
  <2>3. y.rewardPool = y.startPrizePool + Total(probesBy(y), Joined(y))
    BY <1>3, <1>6, <1>7, <2>2 DEF Gathered, Steady
  <2>4. QED
    BY <1>6, <1>7, <2>1, <2>3 DEF Gathered, Steady
<1>8. y.status = "OPEN" => Gathered(y)
  BY <1>1, <1>7 DEF Banked
<1>9. owedInPlay(y) = owedInPlay(x) + cost
  BY <1>1, <1>3 DEF owedInPlay
<1>10. y.rewardPool >= 0 /\ y.entryFeesCollected >= 0 /\ y.creatorFeeAccrued >= 0
  BY <1>2, <1>3 DEF Positive
<1>11. QED
  BY <1>1, <1>6, <1>8, <1>9, <1>10, StillInPlay

(* Started: the entry fees become prize, and a draw takes the pool.        *)
LEMMA StartedOwes ==
    ASSUME NEW x \in SoundLobby, NEW y \in SoundLobby, Banked(x),
           x.status = "OPEN", y.status = "ACTIVE", y.seats = x.seats,
           SamePayments(x, y), y.creatorSettled = x.creatorSettled,
           y.rewardPerWinner = x.rewardPerWinner, y.intercepted = x.intercepted,
           NEW extra \in Int, extra >= 0,
           y.startPrizePool = x.startPrizePool + extra,
           y.rewardPool = x.rewardPool + extra + x.entryFeesCollected,
           y.entryFeesCollected = x.entryFeesCollected,
           y.creatorFeeAccrued = x.creatorFeeAccrued
    PROVE  Banked(y) /\ owed(y) = owed(x) + extra
<1>1. x.ending = "NONE" /\ y.ending = "NONE"
  BY LobbyFields DEF OneStory
<1>2. /\ x.rewardPool \in Int /\ x.entryFeesCollected \in Int
      /\ x.creatorFeeAccrued \in Int /\ x.startPrizePool \in Int
      /\ Total(paidBy(x), Joined(x)) \in Int
  BY LobbyFields, TotalsTyped, JoinedFinite
<1>3. Joined(y) = Joined(x) /\ paidBy(y) = paidBy(x) /\ Winners(y) = Winners(x)
  BY SameTotals DEF Winners
<1>4. Positive(x) /\ ~x.creatorSettled /\ (x.intercepted <=> Winners(x) # {})
      /\ owedInPlay(x) = Total(paidBy(x), Joined(x)) + x.startPrizePool
  BY <1>1 DEF Banked, InPlay
<1>5. /\ owedInPlay(x) = x.rewardPool + x.creatorFeeAccrued + x.entryFeesCollected
      /\ owedInPlay(y) = y.rewardPool + y.creatorFeeAccrued + 0
  BY DEF owedInPlay
<1>6. owedInPlay(y) = owedInPlay(x) + extra
  BY <1>2, <1>5
<1>7. owedInPlay(y) = Total(paidBy(y), Joined(y)) + y.startPrizePool
  BY <1>2, <1>3, <1>4, <1>6
<1>8. InPlay(y)
  BY <1>4, <1>7 DEF InPlay
<1>9. Positive(y)
  BY <1>2, <1>4 DEF Positive
<1>10. Banked(y)
  BY <1>1, <1>3, <1>4, <1>8, <1>9 DEF Banked
<1>11. QED
  BY <1>1, <1>6, <1>10, OwedForms

(* The quotient, and what it leaves over.                                  *)
LEMMA ShareFits ==
    ASSUME NEW a \in Nat, NEW n \in Nat, n > 0
    PROVE  a \div n \in Nat /\ (a \div n) * n \in Nat /\ (a \div n) * n <= a
<1>1. a \div n \in Nat /\ n * (a \div n) <= a /\ n * (a \div n) \in Nat
  BY DivFacts
<1>2. QED
  BY <1>1

(* Judged: the debt falls by what the round forfeits to the pool.          *)
LEMMA JudgedOwes ==
    ASSUME NEW x \in SoundLobby, NEW y \in SoundLobby, Banked(x), y = judged(x),
           x.status = "ACTIVE"
    PROVE  /\ Banked(y) /\ owed(y) = owed(x) - forfeited(x)
           /\ forfeited(x) \in Int /\ forfeited(x) >= 0
<1> DEFINE n == Cardinality(Winners(x))
           played == x.validActions > 0
           share == x.rewardPool \div n
<1>1. /\ y.seats = x.seats /\ y.creatorSettled = x.creatorSettled
      /\ y.startPrizePool = x.startPrizePool /\ y.intercepted = x.intercepted
      /\ y.entryFeesCollected = x.entryFeesCollected
      /\ y.creatorFeeAccrued = x.creatorFeeAccrued
      /\ y.rewardPool = x.rewardPool - forfeited(x)
      /\ y.rewardPerWinner = IF Winners(x) # {} THEN share ELSE x.rewardPerWinner
      /\ y.ending = IF played THEN "COMPLETED" ELSE "UNPLAYED"
      /\ y.creator = x.creator /\ y.entryPrice = x.entryPrice
  BY LobbyFields DEF judged, Lobby
<1>2. x.ending = "NONE" /\ y.status # "OPEN"
  BY <1>1, LobbyFields DEF OneStory
<1>3. Positive(x) /\ ~x.creatorSettled /\ (x.intercepted <=> Winners(x) # {})
  BY <1>2 DEF Banked, InPlay
<1>4. /\ x.rewardPool \in Nat /\ x.entryFeesCollected \in Nat
      /\ x.creatorFeeAccrued \in Nat /\ x.startPrizePool \in Nat
      /\ x.rewardPerWinner \in Nat
  BY <1>3, LobbyFields DEF Positive
<1>5. owed(x) = x.rewardPool + x.creatorFeeAccrued
  <2>1. owedInPlay(x) = x.rewardPool + x.creatorFeeAccrued + 0
    BY DEF owedInPlay
  <2>2. QED
    BY <1>2, <1>4, <2>1, OwedForms
<1>6. /\ SamePayments(x, y) /\ Winners(y) = Winners(x)
  BY <1>1 DEF SamePayments, Winners
<1>7. forfeited(x) = IF played /\ Winners(x) = {} THEN x.rewardPool ELSE 0
  BY DEF forfeited
<1>8. Winners(x) # {} => /\ n \in Nat /\ n > 0
                         /\ share \in Nat /\ share * n \in Nat /\ share * n <= x.rewardPool
  <2>1. Winners(x) # {} => n \in Nat /\ n > 0
    BY WinnersFacts
  <2> HIDE DEF n
  <2>2. QED
    BY <1>4, <2>1, ShareFits
<1>9. Positive(y)
  <2>1. y.rewardPerWinner \in Nat
    BY <1>1, <1>4, <1>8
  <2>2. y.rewardPool \in Nat
    BY <1>1, <1>4, <1>7
  <2>3. QED
    BY <1>1, <1>4, <2>1, <2>2 DEF Positive
<1> HIDE DEF played
<1>10. CASE ~played
  <2>1. y.ending \in RefundEndings /\ forfeited(x) = 0
    BY <1>1, <1>7, <1>10 DEF RefundEndings
  <2>2. Banked(y) /\ owed(y) = owed(x)
    BY <1>1, <1>2, <1>6, <1>9, <2>1, CalledOffOwes
  <2>3. QED
    BY <2>1, <2>2, OwedType
<1>11. CASE played
  <2>1. y.ending = "COMPLETED"
    BY <1>1, <1>11
  <2>2. Unclaimed(y) = Winners(x)
    <3>1. \A w \in Players : ~x.seats[w].claimed
      BY <1>2, LobbyFields DEF OneStory
    <3>2. QED
      BY <1>1, <3>1 DEF Unclaimed, Winners
  <2>3. owed(y) = y.rewardPerWinner * n + creatorDue(y)
    BY <1>1, <1>3, <2>1, <2>2, OwedForms
  <2>4. creatorDue(y) = y.creatorFeeAccrued
            + IF y.intercepted THEN y.rewardPool - y.rewardPerWinner * n ELSE 0
    BY <1>6, <2>1 DEF creatorDue, RefundEndings
  <2>5. CASE Winners(x) = {}
    <3>1. n = 0
      BY <2>5, FS_EmptySet
    <3>2. forfeited(x) = x.rewardPool /\ y.rewardPerWinner = x.rewardPerWinner
          /\ ~y.intercepted
      BY <1>1, <1>3, <1>7, <1>11, <2>5
    <3> HIDE DEF n
    <3>3. owed(y) = x.creatorFeeAccrued
      BY <1>1, <1>4, <2>3, <2>4, <3>1, <3>2
    <3>4. Banked(y)
      BY <1>1, <1>2, <1>3, <1>6, <1>9, <2>1, <2>5 DEF Banked, Shared
    <3>5. QED
      BY <1>4, <1>5, <3>2, <3>3, <3>4
  <2>6. CASE Winners(x) # {}
    <3>1. /\ forfeited(x) = 0 /\ y.rewardPerWinner = share /\ y.intercepted
          /\ y.rewardPool = x.rewardPool - forfeited(x)
      BY <1>1, <1>3, <1>7, <1>11, <2>6
    <3>2. /\ share \in Nat /\ n \in Nat /\ share * n \in Nat /\ share * n <= x.rewardPool
      BY <1>8, <2>6
    <3>3. Cardinality(Winners(y)) = n
      BY <1>6
    <3> HIDE DEF n, share
    <3> DEFINE prizes == share * n
    <3>4. y.rewardPerWinner * n = prizes /\ prizes \in Nat /\ prizes <= x.rewardPool
      BY <3>1, <3>2
    <3>5. y.rewardPool = x.rewardPool
      BY <1>4, <3>1
    <3> HIDE DEF prizes
    <3>6. owed(y) = prizes + (y.creatorFeeAccrued + (y.rewardPool - prizes))
      BY <2>3, <2>4, <3>1, <3>4
    <3>7. owed(y) = owed(x) - forfeited(x)
      BY <1>1, <1>4, <1>5, <3>1, <3>4, <3>5, <3>6
    <3>8. Shared(y)
      BY <3>3, <3>4, <3>5 DEF Shared
    <3>9. Banked(y)
      BY <1>1, <1>2, <1>3, <1>6, <1>9, <2>1, <3>8 DEF Banked
    <3>10. QED
      BY <3>1, <3>7, <3>9
  <2>7. QED
    BY <2>5, <2>6
<1>12. QED
  BY <1>10, <1>11

(* What the creator of a judged round is due is never negative.            *)
LEMMA CreatorDuePositive ==
    ASSUME NEW x \in SoundLobby, Banked(x)
    PROVE  creatorDue(x) \in Nat /\ creatorRefundDue(x) \in Nat
<1>1. /\ x.rewardPool \in Nat /\ x.creatorFeeAccrued \in Nat /\ x.startPrizePool \in Nat
      /\ x.rewardPerWinner \in Nat
  BY LobbyFields DEF Banked, Positive
<1>2. creatorRefundDue(x) \in Nat
  BY <1>1 DEF creatorRefundDue
<1>3. CASE x.ending = "COMPLETED"
  <2> DEFINE prizes == x.rewardPerWinner * Cardinality(Winners(x))
  <2>1. prizes \in Int
    BY <1>1, WinnersFacts, ProductsOfInts
  <2>2. x.intercepted => prizes <= x.rewardPool
    BY <1>3 DEF Banked, Shared
  <2>3. creatorDue(x) = x.creatorFeeAccrued + IF x.intercepted THEN x.rewardPool - prizes ELSE 0
    BY <1>3 DEF creatorDue, RefundEndings
  <2> HIDE DEF prizes
  <2>4. QED
    BY <1>1, <1>2, <2>1, <2>2, <2>3
<1>4. CASE x.ending \in RefundEndings
  <2>1. creatorDue(x) = creatorRefundDue(x)
    BY <1>4 DEF creatorDue, RefundEndings
  <2>2. QED
    BY <1>2, <2>1
<1>5. CASE x.ending = "NONE"
  BY <1>2, <1>5 DEF creatorDue, RefundEndings
<1>6. QED
  BY <1>3, <1>4, <1>5, LobbyFields DEF Endings, RefundEndings

(* An ending, once reached, stays: what is left to pay only shrinks.       *)
SameEnding(x, y) ==
    /\ y.creator = x.creator /\ y.status = x.status /\ y.ending = x.ending
    /\ SameSums(x, y) /\ y.intercepted = x.intercepted /\ Winners(y) = Winners(x)

LEMMA StillBanked ==
    ASSUME NEW x \in SoundLobby, NEW y \in SoundLobby, Banked(x), SameEnding(x, y),
           x.ending # "NONE"
    PROVE  Banked(y) /\ creatorDue(y) = creatorDue(x)
<1>1. x.status # "OPEN"
  BY LobbyFields DEF OneStory
<1>2. Banked(y)
  BY <1>1 DEF Banked, SameEnding, Positive, SameSums, Shared
<1>3. creatorDue(y) = creatorDue(x)
  BY DEF creatorDue, creatorRefundDue, SameEnding, SameSums
<1>4. QED
  BY <1>2, <1>3

(* A winner is paid, and the creator too when it is the same wallet.       *)
LEMMA RewardOwes ==
    ASSUME NEW x \in SoundLobby, NEW y \in SoundLobby, Banked(x), SameEnding(x, y),
           x.ending = "COMPLETED", NEW w \in Players,
           x.seats[w].isWinner, ~x.seats[w].claimed, y.seats[w].claimed,
           \A v \in Players : v # w => y.seats[v].claimed = x.seats[v].claimed,
           NEW fee, fee = 0 \/ (fee = creatorDue(x) /\ ~x.creatorSettled),
           y.creatorSettled <=> x.creatorSettled \/ fee > 0
    PROVE  /\ Banked(y) /\ owed(y) = owed(x) - x.rewardPerWinner - fee
           /\ x.rewardPerWinner \in Nat /\ fee \in Nat
<1> DEFINE prize == x.rewardPerWinner
           n == Cardinality(Unclaimed(x))
           m == Cardinality(Unclaimed(y))
<1>1. Banked(y) /\ creatorDue(y) = creatorDue(x) /\ creatorDue(x) \in Nat
  BY StillBanked, CreatorDuePositive
<1>2. prize \in Nat /\ fee \in Nat
  BY <1>1, LobbyFields DEF Banked, Positive
<1>3. n \in Nat /\ m \in Nat /\ n = m + 1
  <2>1. Unclaimed(y) = Unclaimed(x) \ {w} /\ w \in Unclaimed(x)
    BY DEF Unclaimed, Winners, SameEnding
  <2>2. IsFiniteSet(Unclaimed(x)) /\ n \in Nat /\ m \in Nat
    BY UnclaimedFinite
  <2>3. m = n - 1
    BY <2>1, <2>2, FS_RemoveElement
  <2> HIDE DEF n, m
  <2>4. QED
    BY <2>2, <2>3
<1>4. /\ owed(x) = prize * n + IF x.creatorSettled THEN 0 ELSE creatorDue(x)
      /\ owed(y) = prize * m + IF y.creatorSettled THEN 0 ELSE creatorDue(x)
  BY <1>1, OwedForms DEF SameEnding, SameSums
<1>5. x.creatorSettled \in BOOLEAN /\ y.creatorSettled \in BOOLEAN
  BY LobbyFields DEF Lobby
<1> HIDE DEF prize, n, m
<1>6. prize * n = prize * m + prize /\ prize * m \in Nat
  BY <1>2, <1>3
<1>7. (IF y.creatorSettled THEN 0 ELSE creatorDue(x))
         = (IF x.creatorSettled THEN 0 ELSE creatorDue(x)) - fee
  BY <1>1, <1>2, <1>5
<1> DEFINE left == prize * m
           dueX == IF x.creatorSettled THEN 0 ELSE creatorDue(x)
           dueY == IF y.creatorSettled THEN 0 ELSE creatorDue(x)
<1>8. dueX \in Int /\ dueY = dueX - fee /\ owed(x) = left + prize + dueX /\ owed(y) = left + dueY
  BY <1>1, <1>4, <1>6, <1>7
<1>9. left \in Int
  BY <1>6
<1> HIDE DEF left, dueX, dueY
<1>10. owed(y) = owed(x) - prize - fee
  BY <1>2, <1>8, <1>9
<1>11. QED
  BY <1>1, <1>2, <1>10 DEF prize

(* A member of a called-off operation takes back what it paid, and its     *)
(* creator the bounty.                                                     *)
LEMMA RefundOwes ==
    ASSUME NEW x \in SoundLobby, NEW y \in SoundLobby, Banked(x), SameEnding(x, y),
           x.ending \in RefundEndings, SamePayments(x, y), NEW w \in Players,
           \A v \in Players : v # w => y.seats[v].refunded = x.seats[v].refunded,
           NEW due, due = IF x.seats[w].joined /\ ~x.seats[w].refunded
                          THEN x.seats[w].paidIn ELSE 0,
           y.seats[w].refunded <=> x.seats[w].refunded \/ due > 0,
           NEW bounty, bounty = 0 \/ (bounty = x.startPrizePool /\ ~x.creatorSettled),
           y.creatorSettled <=> x.creatorSettled \/ bounty > 0
    PROVE  /\ Banked(y) /\ owed(y) = owed(x) - due - bounty
           /\ due \in Nat /\ bounty \in Nat
<1> DEFINE f == paidBy(x)
           U == Unrefunded(x)
<1>1. Banked(y) /\ x.startPrizePool \in Nat /\ y.startPrizePool = x.startPrizePool
  <2>1. x.startPrizePool \in Nat
    BY LobbyFields DEF Banked, Positive
  <2>2. QED
    BY <2>1, StillBanked DEF RefundEndings, SameEnding, SameSums
<1>2. due \in Nat /\ bounty \in Nat
  BY <1>1, SeatMoney
<1>3. /\ owed(x) = Total(f, U) + IF x.creatorSettled THEN 0 ELSE x.startPrizePool
      /\ owed(y) = Total(f, Unrefunded(y)) + IF y.creatorSettled THEN 0 ELSE x.startPrizePool
  BY <1>1, OwedForms, SameTotals DEF SameEnding
<1>4. /\ U \in SUBSET Players /\ IsFiniteSet(U) /\ \A v \in U : f[v] \in Int
      /\ Total(f, U) \in Int
  <2>1. U \in SUBSET Players
    BY DEF Unrefunded, Joined
  <2>2. QED
    BY <2>1, TotalsTyped, SeatMoney
<1>5. Total(f, Unrefunded(y)) = Total(f, U) - due
  <2>1. CASE due > 0
    <3>1. w \in U /\ f[w] = due
      BY <1>2, <2>1, SeatMoney DEF Unrefunded, Joined
    <3>2. Unrefunded(y) = U \ {w}
      BY <2>1 DEF Unrefunded, Joined, SamePayments
    <3>3. Total(f, U) = f[w] + Total(f, U \ {w})
      <4> HIDE DEF U, f
      <4>1. QED
        BY <1>4, <3>1, TotalTakes
    <3>4. Total(f, U \ {w}) \in Int
      <4>1. IsFiniteSet(U \ {w}) /\ \A v \in U \ {w} : f[v] \in Int
        BY <1>4, FS_Subset
      <4> HIDE DEF U, f
      <4>2. QED
        BY <4>1, TotalIsInt
    <3> HIDE DEF U, f
    <3>5. QED
      BY <1>2, <3>1, <3>2, <3>3, <3>4
  <2>2. CASE due = 0
    <3>1. Unrefunded(y) = U
      <4>1. \A v \in Players : y.seats[v].refunded <=> x.seats[v].refunded
        BY <1>2, <2>2
      <4>2. QED
        BY <4>1 DEF Unrefunded, Joined, SamePayments
    <3> HIDE DEF U, f
    <3>2. QED
      BY <1>4, <2>2, <3>1
  <2>3. QED
    BY <1>2, <2>1, <2>2
<1>6. x.creatorSettled \in BOOLEAN /\ y.creatorSettled \in BOOLEAN
  BY LobbyFields DEF Lobby
<1> DEFINE dueX == IF x.creatorSettled THEN 0 ELSE x.startPrizePool
           dueY == IF y.creatorSettled THEN 0 ELSE x.startPrizePool
<1>7. dueX \in Int /\ dueY = dueX - bounty
  BY <1>1, <1>2, <1>6
<1> HIDE DEF dueX, dueY, U, f
<1>8. owed(x) = Total(f, U) + dueX /\ owed(y) = Total(f, U) - due + dueY
  BY <1>3, <1>5 DEF dueX, dueY
<1>9. owed(y) = owed(x) - due - bounty
  BY <1>2, <1>4, <1>7, <1>8
<1>10. QED
  BY <1>1, <1>2, <1>9

(* The creator is settled with.                                            *)
LEMMA SettledOwes ==
    ASSUME NEW x \in SoundLobby, NEW y \in SoundLobby, Banked(x), SameEnding(x, y),
           x.ending # "NONE", SamePayments(x, y), y.seats = x.seats,
           ~x.creatorSettled, y.creatorSettled
    PROVE  Banked(y) /\ owed(y) = owed(x) - creatorDue(x) /\ creatorDue(x) \in Nat
<1>1. Banked(y) /\ creatorDue(x) \in Nat
  BY StillBanked, CreatorDuePositive
<1>2. CASE x.ending \in RefundEndings
  <2>1. Unrefunded(y) = Unrefunded(x) /\ paidBy(y) = paidBy(x)
    BY SameTotals DEF Unrefunded, Joined
  <2>2. /\ owed(x) = Total(paidBy(x), Unrefunded(x)) + x.startPrizePool
        /\ owed(y) = Total(paidBy(x), Unrefunded(x)) + 0
        /\ Total(paidBy(x), Unrefunded(x)) \in Int /\ x.startPrizePool \in Int
    BY <1>2, <2>1, OwedForms, LobbyFields DEF SameEnding
  <2>3. creatorDue(x) = x.startPrizePool
    BY <1>2 DEF creatorDue, creatorRefundDue, RefundEndings
  <2>4. QED
    BY <1>1, <2>2, <2>3
<1>3. CASE x.ending = "COMPLETED"
  <2> DEFINE prizes == x.rewardPerWinner * Cardinality(Unclaimed(x))
  <2>1. Unclaimed(y) = Unclaimed(x) /\ y.rewardPerWinner = x.rewardPerWinner
    BY DEF Unclaimed, SameEnding, SameSums
  <2>2. owed(x) = prizes + creatorDue(x) /\ owed(y) = prizes + 0
    BY <1>3, <2>1, OwedForms DEF SameEnding
  <2>3. prizes \in Int
    BY LobbyFields, UnclaimedFinite, ProductsOfInts
  <2> HIDE DEF prizes
  <2>4. QED
    BY <1>1, <2>2, <2>3
<1>4. QED
  BY <1>2, <1>3, LobbyFields DEF Endings, RefundEndings

(* A room as it is opened owes its bounty.                                 *)
LEMMA NewLobbyOwes ==
    ASSUME NEW s, NEW config \in LobbyConfig, NEW d, NEW creator,
           newLobby(s, config, d, creator) \in SoundLobby,
           creator = Game => config.startPrizePool = 0
    PROVE  LET y == newLobby(s, config, d, creator) IN
           Banked(y) /\ owed(y) = config.startPrizePool /\ y.startPrizePool \in Nat
<1> DEFINE y == newLobby(s, config, d, creator)
<1>1. config.startPrizePool \in Nat
  BY DEF LobbyConfig
<1>2. /\ y.ending = "NONE" /\ y.status = "OPEN" /\ ~y.creatorSettled /\ ~y.intercepted
      /\ y.startPrizePool = config.startPrizePool /\ y.rewardPool = config.startPrizePool
      /\ y.entryFeesCollected = 0 /\ y.creatorFeeAccrued = 0 /\ y.rewardPerWinner = 0
      /\ y.creator = creator
      /\ \A w \in Players : y.seats[w] = EmptySeat
  BY DEF newLobby
<1>3. y \in SoundLobby
  OBVIOUS
<1> HIDE DEF y
<1>4. /\ \A w \in Players : ~y.seats[w].joined /\ ~y.seats[w].isWinner
                            /\ y.seats[w].probesPaid = 0
      /\ Joined(y) = {} /\ Winners(y) = {}
  <2>1. \A w \in Players : ~y.seats[w].joined /\ ~y.seats[w].isWinner
                            /\ y.seats[w].probesPaid = 0
    BY <1>2 DEF EmptySeat
  <2>2. QED
    BY <2>1 DEF Joined, Winners
<1>5. /\ Total(paidBy(y), {}) = 0 /\ Total(probesBy(y), {}) = 0
      /\ Total(entryBy(y), {}) = 0 /\ Total(feesBy(y), {}) = 0
  BY FS_EmptySet, TotalUnfolds
<1>6. Gathered(y)
  BY <1>1, <1>2, <1>4, <1>5 DEF Gathered
<1>7. owedInPlay(y) = config.startPrizePool
  BY <1>1, <1>2 DEF owedInPlay
<1>8. InPlay(y)
  BY <1>1, <1>2, <1>4, <1>5, <1>7 DEF InPlay
<1>9. Banked(y)
  BY <1>1, <1>2, <1>4, <1>6, <1>8 DEF Banked, Positive
<1>10. QED
  BY <1>1, <1>2, <1>3, <1>7, <1>9, OwedForms DEF y

-----------------------------------------------------------------------------
(* The books of the whole storage.                                         *)

LEMMA BooksTyped ==
    ASSUME NEW s, Sound(s)
    PROVE  /\ IsFiniteSet(Ids(s))
           /\ \A l \in Ids(s) : dues(s)[l] = owed(s.lobbies[l]) /\ dues(s)[l] \in Int
           /\ Total(dues(s), Ids(s)) \in Int
           /\ Books(s) => s.balance \in Int
<1>1. IsFiniteSet(Ids(s))
  BY IdsFinite
<1>2. \A l \in Ids(s) : dues(s)[l] = owed(s.lobbies[l]) /\ dues(s)[l] \in Int
  BY LobbyOf, OwedType DEF dues
<1>3. Total(dues(s), Ids(s)) \in Int
  BY <1>1, <1>2, TotalIsInt
<1>4. QED
  BY <1>1, <1>2, <1>3, StorageFields DEF Books

(* Nothing the books are about is written.                                 *)
SameBooks(s, t) ==
    /\ t.lobbies = s.lobbies /\ t.globalDefenseLobby = s.globalDefenseLobby
    /\ t.globalDefensePool = s.globalDefensePool
    /\ t.protocolTreasury = s.protocolTreasury /\ t.balance = s.balance

LEMMA SameBooked ==
    ASSUME NEW s, NEW t, Books(s), SameBooks(s, t)
    PROVE  Books(t) /\ Ids(t) = Ids(s)
<1>1. Ids(t) = Ids(s)
  BY DEF Ids, SameBooks
<1>2. dues(t) = dues(s)
  BY <1>1 DEF dues, SameBooks
<1>3. QED
  BY <1>1, <1>2 DEF Books, SameBooks

(* One operation written: the balance and the pool move with its debt.     *)
LEMMA OneLobbyBooked ==
    ASSUME NEW s, NEW t, Sound(s), Sound(t), Books(s), NEW l \in Ids(s), Ids(t) = Ids(s),
           \A m \in Ids(s) : m # l => t.lobbies[m] = s.lobbies[m],
           t.globalDefenseLobby = s.globalDefenseLobby,
           t.lobbies[l].creator = s.lobbies[l].creator,
           Banked(t.lobbies[l]), t.globalDefensePool >= 0,
           t.protocolTreasury = s.protocolTreasury,
           t.balance = s.balance + (t.globalDefensePool - s.globalDefensePool)
                         + (owed(t.lobbies[l]) - owed(s.lobbies[l]))
    PROVE  Books(t)
<1> DEFINE f == dues(s)
           g == dues(t)
<1>1. /\ IsFiniteSet(Ids(s)) /\ Total(f, Ids(s)) \in Int
      /\ \A m \in Ids(s) : f[m] = owed(s.lobbies[m]) /\ f[m] \in Int
      /\ \A m \in Ids(s) : g[m] = owed(t.lobbies[m]) /\ g[m] \in Int
  BY BooksTyped
<1>2. \A m \in Ids(s) : m # l => f[m] = g[m]
  BY <1>1
<1> HIDE DEF f, g
<1>3. Total(g, Ids(s)) = Total(f, Ids(s)) - f[l] + g[l]
  <2>1. \A m \in Ids(s) : f[m] \in Int /\ g[m] \in Int
    BY <1>1
  <2> DEFINE S == Ids(s)
  <2>2. IsFiniteSet(S) /\ l \in S /\ \A m \in S : m # l => f[m] = g[m]
    BY <1>1, <1>2
  <2>3. \A m \in S : f[m] \in Int /\ g[m] \in Int
    BY <2>1
  <2> HIDE DEF S
  <2>4. OneMoved(S, f, g, l)
    BY <2>2, <2>3 DEF OneMoved
  <2>5. Total(g, S) = Total(f, S) - f[l] + g[l]
    BY <2>4, TotalMoves
  <2>6. QED
    BY <2>5 DEF S
<1>4. /\ s.globalDefensePool \in Int /\ t.globalDefensePool \in Int
      /\ s.protocolTreasury \in Int
      /\ f[l] \in Int /\ g[l] \in Int /\ f[l] = owed(s.lobbies[l]) /\ g[l] = owed(t.lobbies[l])
  BY <1>1, StorageFields
<1>5. s.balance = s.protocolTreasury + s.globalDefensePool + Total(f, Ids(s))
  BY DEF Books, f
<1>6. t.balance = t.protocolTreasury + t.globalDefensePool + Total(g, Ids(s))
  <2>1. t.balance = s.balance + (t.globalDefensePool - s.globalDefensePool) + (g[l] - f[l])
    BY <1>4
  <2>2. QED
    BY <1>1, <1>3, <1>4, <1>5, <2>1
<1>7. \A m \in Ids(t) : Banked(t.lobbies[m])
  BY DEF Books
<1>8. ASSUME NEW e \in EpochIds, t.globalDefenseLobby[e] # 0
      PROVE  t.lobbies[t.globalDefenseLobby[e]].creator = Game
  <2>1. /\ s.globalDefenseLobby[e] # 0
        /\ s.lobbies[s.globalDefenseLobby[e]].creator = Game
    BY <1>8 DEF Books
  <2>2. s.globalDefenseLobby[e] \in Ids(s)
    BY <2>1 DEF Sound
  <2>3. QED
    BY <2>1, <2>2
<1>9. QED
  BY <1>6, <1>7, <1>8 DEF Books, g

(* In the shape the library operators write it.                            *)
LEMMA WithLobbyBooked ==
    ASSUME NEW s, Sound(s), Books(s), NEW l \in Ids(s), NEW x, NEW pool, NEW balance,
           NEW active, Sound(withLobby(s, l, x, pool, balance, active)),
           x.creator = s.lobbies[l].creator, Banked(x), pool >= 0,
           balance = s.balance + (pool - s.globalDefensePool)
                         + (owed(x) - owed(s.lobbies[l]))
    PROVE  Books(withLobby(s, l, x, pool, balance, active))
<1> DEFINE t == withLobby(s, l, x, pool, balance, active)
<1>1. /\ t.globalDefensePool = pool /\ t.balance = balance
      /\ t.globalDefenseLobby = s.globalDefenseLobby
      /\ t.protocolTreasury = s.protocolTreasury
  BY DEF withLobby, Sound, SoundStorage
<1>2. t.lobbies[l] = x /\ Ids(t) = Ids(s) /\ \A m \in Ids(s) : m # l => t.lobbies[m] = s.lobbies[m]
  BY WithLobbyBeside DEF Beside
<1>3. Sound(t)
  OBVIOUS
<1> HIDE DEF t
<1>4. Books(t)
  BY <1>1, <1>2, <1>3, OneLobbyBooked
<1>5. QED
  BY <1>4 DEF t

(* A room opened: its bounty comes with it, and the calendar of draws only *)
(* gains the protocol's own.                                               *)
LEMMA NewLobbyBooked ==
    ASSUME NEW s, NEW t, Sound(s), Sound(t), Books(s), NEW y \in SoundLobby,
           t.lobbies = Append(s.lobbies, y), Banked(y),
           \A e \in EpochIds :
              \/ t.globalDefenseLobby[e] = s.globalDefenseLobby[e]
              \/ t.globalDefenseLobby[e] = Len(s.lobbies) + 1 /\ y.creator = Game,
           t.globalDefensePool = s.globalDefensePool,
           t.balance = s.balance + (t.protocolTreasury - s.protocolTreasury) + owed(y)
    PROVE  Books(t)
<1> DEFINE f == dues(s)
           g == dues(t)
           n == Len(s.lobbies) + 1
<1>1. s.lobbies \in Seq(SoundLobby) /\ n \in Nat /\ Len(s.lobbies) \in Nat
  BY StorageFields
<1>2. /\ Len(t.lobbies) = n /\ t.lobbies[n] = y
      /\ \A m \in Ids(s) : t.lobbies[m] = s.lobbies[m]
  BY <1>1, AppendProperties DEF Ids
<1>3. Ids(t) = Ids(s) \cup {n} /\ n \notin Ids(s)
  BY <1>1, <1>2 DEF Ids
<1>4. /\ IsFiniteSet(Ids(s)) /\ Total(f, Ids(s)) \in Int
      /\ \A m \in Ids(s) : f[m] = owed(s.lobbies[m]) /\ f[m] \in Int
      /\ \A m \in Ids(t) : g[m] = owed(t.lobbies[m]) /\ g[m] \in Int
  BY BooksTyped
<1>5. /\ \A m \in Ids(s) : f[m] = g[m]
      /\ g[n] = owed(y) /\ g[n] \in Int
      /\ \A m \in Ids(s) \cup {n} : g[m] \in Int
  BY <1>2, <1>3, <1>4
<1> HIDE DEF f, g
<1>6. Total(g, Ids(t)) = g[n] + Total(f, Ids(s))
  <2>1. Total(g, Ids(s)) = Total(f, Ids(s))
    BY <1>4, <1>5, TotalOfEqual
  <2> HIDE DEF n
  <2>2. Total(g, Ids(s) \cup {n}) = g[n] + Total(g, Ids(s))
    BY <1>3, <1>4, <1>5, TotalAdds
  <2>3. QED
    BY <1>3, <2>1, <2>2
<1>7. /\ s.globalDefensePool \in Int /\ s.protocolTreasury \in Int /\ t.protocolTreasury \in Int
  BY StorageFields
<1>8. s.balance = s.protocolTreasury + s.globalDefensePool + Total(f, Ids(s))
  BY DEF Books, f
<1>9. t.balance = t.protocolTreasury + t.globalDefensePool + Total(g, Ids(t))
  BY <1>4, <1>5, <1>6, <1>7, <1>8
<1>10. \A m \in Ids(t) : Banked(t.lobbies[m])
  BY <1>2, <1>3 DEF Books
<1>11. ASSUME NEW e \in EpochIds, t.globalDefenseLobby[e] # 0
       PROVE  t.lobbies[t.globalDefenseLobby[e]].creator = Game
  <2>1. CASE t.globalDefenseLobby[e] = n /\ y.creator = Game
    BY <1>2, <2>1
  <2>2. CASE t.globalDefenseLobby[e] = s.globalDefenseLobby[e]
    <3>1. s.globalDefenseLobby[e] \in Ids(s)
      BY <1>11, <2>2 DEF Sound
    <3>2. s.lobbies[s.globalDefenseLobby[e]].creator = Game
      BY <1>11, <2>2 DEF Books
    <3>3. QED
      BY <1>2, <2>2, <3>1, <3>2
  <2>3. QED
    BY <2>1, <2>2
<1>12. t.globalDefensePool >= 0
  BY DEF Books
<1>13. QED
  BY <1>9, <1>10, <1>11, <1>12 DEF Books, g

-----------------------------------------------------------------------------
(* The draw's upkeep, and opening a room.                                  *)

LEMMA payoutUnplayedBooked ==
    ASSUME NEW s, Sound(s), Books(s), NEW l \in Ids(s), s.lobbies[l].ending \in RefundEndings
    PROVE  LET t == payoutUnplayed(s, l)
               x == s.lobbies[l]
           IN  /\ Books(t)
               /\ t.lobbies[l].startPrizePool = x.startPrizePool
               /\ t.lobbies[l].creator = x.creator
               /\ x.creator # Game \/ x.startPrizePool = 0 =>
                     t.globalDefensePool = s.globalDefensePool
<1> DEFINE x == s.lobbies[l]
           y == paidBack(x)
           bounty == IF x.creatorSettled THEN 0 ELSE x.startPrizePool
           home == x.creator = Game
           pool == IF home THEN s.globalDefensePool + bounty ELSE s.globalDefensePool
           due  == paidInBy(x, unpaid(x))
           left == s.balance - due - IF home THEN 0 ELSE bounty
           t == withLobby(s, l, y, pool, left, s.activeLobbies)
<1>1. payoutUnplayed(s, l) = t
  BY DEF payoutUnplayed, paidBack, withLobby, Sound, SoundStorage
<1>2. Sound(t) /\ Ids(t) = Ids(s)
  BY <1>1, payoutUnplayedSound
<1>3. x \in SoundLobby /\ Banked(x) /\ x.ending \in RefundEndings
  BY LobbyOf DEF Books
<1>4. t.lobbies[l] = y /\ t.globalDefensePool = pool
  BY WithLobbyAt
<1>5. y \in SoundLobby
  <2> HIDE DEF t, y
  <2>1. QED
    BY <1>2, <1>4, LobbyOf
<1> HIDE DEF x
<1>6. /\ Banked(y) /\ owed(y) = owed(x) - due - bounty /\ due \in Nat
  <2> HIDE DEF y
  <2>1. QED
    BY <1>3, <1>5, PaidBackOwes DEF y
<1>7. y.creator = x.creator /\ y.startPrizePool = x.startPrizePool
  BY <1>3, LobbyFields DEF paidBack, Lobby
<1>8. bounty \in Nat
  BY <1>3, LobbyFields DEF Banked, Positive
<1>9. /\ s.globalDefensePool \in Int /\ s.globalDefensePool >= 0 /\ s.balance \in Int
      /\ owed(x) \in Int
  BY <1>3, StorageFields, BooksTyped, OwedType DEF Books
<1> HIDE DEF due, y
<1>10. /\ pool >= 0 /\ (x.startPrizePool = 0 => pool = s.globalDefensePool)
       /\ (x.creator # Game => pool = s.globalDefensePool)
       /\ left = s.balance + (pool - s.globalDefensePool) + (owed(y) - owed(x))
  <2>1. bounty = 0 \/ bounty = x.startPrizePool
    OBVIOUS
  <2> HIDE DEF bounty
  <2>2. QED
    BY <1>6, <1>8, <1>9, <2>1
<1> HIDE DEF pool, left
<1>11. Books(t)
  BY <1>2, <1>6, <1>7, <1>10, WithLobbyBooked DEF x
<1> HIDE DEF t
<1>12. QED
  BY <1>1, <1>4, <1>7, <1>10, <1>11 DEF x

(* The books are kept, the pool and every bounty stand as they stood.      *)
Upkept(s, t) ==
    /\ Books(t) /\ t.globalDefensePool = s.globalDefensePool
    /\ \A l \in Ids(s) : t.lobbies[l].startPrizePool = s.lobbies[l].startPrizePool

LEMMA closeUnfilledBooked ==
    ASSUME NEW s, Sound(s), Books(s), NEW l \in Ids(s), s.lobbies[l].status = "OPEN"
    PROVE  Upkept(s, closeUnfilled(s, l))
<1> DEFINE lobby == s.lobbies[l]
           x == [lobby EXCEPT !.status = "CANCELLED", !.ending = "UNPLAYED"]
           active == oneFewer(s.activeLobbies)
           ended == withLobby(s, l, x, s.globalDefensePool, s.balance, active)
<1>1. lobby \in SoundLobby /\ lobby.status = "OPEN" /\ Banked(lobby)
  BY LobbyOf DEF Books
<1>2. closeUnfilled(s, l) = payoutUnplayed(ended, l)
  <2>1. [s EXCEPT !.lobbies[l] = x,
                  !.activeLobbies = oneFewer(s.activeLobbies)] = ended
    BY StorageFields DEF withLobby, Ids, Sound, SoundStorage
  <2>2. QED
    BY <2>1 DEF closeUnfilled
<1> HIDE DEF lobby
<1>3. lobby.ending = "NONE"
  BY <1>1, LobbyFields DEF OneStory
<1>4. /\ x \in Lobby /\ x.seats = lobby.seats /\ x.epochId = lobby.epochId
      /\ x.status = "CANCELLED" /\ x.ending = "UNPLAYED"
      /\ x.creator = lobby.creator /\ x.entryPrice = lobby.entryPrice
      /\ x.creatorSettled = lobby.creatorSettled /\ x.intercepted = lobby.intercepted
      /\ SameSums(lobby, x)
  BY <1>1 DEF SoundLobby, Lobby, LobbyStatus, Endings, SameSums
<1> HIDE DEF x
<1>5. x \in SoundLobby
  BY <1>1, <1>3, <1>4, LobbyFields, EndedStory DEF RefundEndings
<1>6. x.epochId = s.lobbies[l].epochId /\ Linked(x, s.attacks[x.epochId])
  BY <1>4 DEF lobby, Linked
<1>7. Sound(ended) /\ Ids(ended) = Ids(s)
  <2>1. s.globalDefensePool \in Int /\ active \in Nat
    BY StorageFields, oneFewerType
  <2> HIDE DEF active
  <2>2. QED
    BY <1>5, <1>6, <2>1, LobbyReplaced
<1>8. Banked(x) /\ owed(x) = owed(lobby)
  <2>1. SamePayments(lobby, x) /\ Positive(x)
    BY <1>1, <1>4 DEF SamePayments, SameSums, Banked, Positive
  <2>2. QED
    BY <1>1, <1>3, <1>4, <1>5, <2>1, CalledOffOwes DEF RefundEndings, SameSums
<1>9. Books(ended)
  <2>1. /\ s.globalDefensePool \in Int /\ s.globalDefensePool >= 0 /\ s.balance \in Int
        /\ owed(lobby) \in Int
    BY <1>1, StorageFields, BooksTyped, OwedType DEF Books
  <2>2. s.balance = s.balance + (s.globalDefensePool - s.globalDefensePool)
                       + (owed(x) - owed(lobby))
    BY <1>8, <2>1
  <2>3. QED
    BY <1>4, <1>7, <1>8, <2>1, <2>2, WithLobbyBooked DEF lobby
<1>10. /\ ended.lobbies[l] = x /\ ended.globalDefensePool = s.globalDefensePool
       /\ \A m \in Ids(s) : m # l => ended.lobbies[m] = s.lobbies[m]
  BY WithLobbyAt, WithLobbyBeside DEF Beside
<1> HIDE DEF ended
<1>11. x.creator # Game \/ x.startPrizePool = 0
  BY <1>1, <1>4 DEF Banked, Gathered, SameSums
<1> DEFINE t == payoutUnplayed(ended, l)
<1>12. /\ Books(t) /\ t.lobbies[l].startPrizePool = x.startPrizePool
       /\ t.globalDefensePool = s.globalDefensePool
  BY <1>4, <1>7, <1>9, <1>10, <1>11, payoutUnplayedBooked DEF RefundEndings
<1>13. \A m \in Ids(s) : m # l => t.lobbies[m] = s.lobbies[m]
  <2>1. PICK pool, left :
           t = withLobby(ended, l, paidBack(ended.lobbies[l]), pool, left, ended.activeLobbies)
    BY <1>7, payoutUnplayedShape
  <2>2. \A m \in Ids(ended) : m # l => t.lobbies[m] = ended.lobbies[m]
    BY <1>7, <2>1, WithLobbyBeside DEF Beside
  <2> HIDE DEF t
  <2>3. QED
    BY <1>7, <1>10, <2>2
<1>14. x.startPrizePool = lobby.startPrizePool
  BY <1>4 DEF SameSums
<1> HIDE DEF t
<1>15. Upkept(s, t)
  BY <1>12, <1>13, <1>14 DEF Upkept, lobby
<1>16. QED
  BY <1>2, <1>15 DEF t

LEMMA maybeCloseDrawBooked ==
    ASSUME NEW s, Sound(s), Books(s), block \in Nat
    PROVE  Upkept(s, maybeCloseDraw(s))
<1>1. \/ unfilledPastDraw(s) = 0
      \/ /\ unfilledPastDraw(s) \in Ids(s)
         /\ s.lobbies[unfilledPastDraw(s)].status = "OPEN"
  BY epochNowFacts DEF unfilledPastDraw, Sound
<1>2. CASE unfilledPastDraw(s) = 0
  BY <1>2 DEF maybeCloseDraw, Upkept
<1>3. CASE unfilledPastDraw(s) # 0
  BY <1>1, <1>3, closeUnfilledBooked DEF maybeCloseDraw
<1>4. QED
  BY <1>2, <1>3

(* While a draw takes applications it has not taken the pile, and nothing  *)
(* is added to it.                                                         *)
LEMMA topUpDrawResting ==
    ASSUME NEW s, Sound(s), Books(s), block \in Nat,
           s.interval # 0 /\ s.globalDefensePool # 0 => drawEpoch(s) < U32
    PROVE  topUpDraw(s) = s
<1> DEFINE l == unlaunchedDraw(s)
<1>1. CASE s.globalDefensePool = 0 \/ l = 0
  BY <1>1 DEF topUpDraw
<1>2. CASE s.globalDefensePool # 0 /\ l # 0
  <2>1. s.interval # 0
    BY <1>2 DEF unlaunchedDraw
  <2>2. drawEpoch(s) \in EpochIds
    BY <1>2, <2>1, epochNowFacts, U32Assumption DEF EpochIds
  <2>3. l = s.globalDefenseLobby[drawEpoch(s)] /\ s.lobbies[l].status = "OPEN"
    BY <1>2, <2>1 DEF unlaunchedDraw
  <2>4. s.lobbies[l].creator = Game
    BY <1>2, <2>2, <2>3 DEF Books
  <2>5. QED
    BY <2>3, <2>4 DEF topUpDraw
<1>3. QED
  BY <1>1, <1>2

LEMMA ensureEpochAttackBooked ==
    ASSUME NEW s, Sound(s), Books(s), NEW e \in EpochIds
    PROVE  SameBooks(s, ensureEpochAttack(s, e)) /\ Books(ensureEpochAttack(s, e))
<1>1. SameBooks(s, ensureEpochAttack(s, e))
  BY DEF ensureEpochAttack, SameBooks, Sound, SoundStorage
<1>2. QED
  BY <1>1, SameBooked

LEMMA mintLobbyShape ==
    ASSUME NEW s, Sound(s), NEW config \in LobbyConfig, NEW d \in Nat,
           NEW creator \in Players \cup {Game}, mintFits(s, d)
    PROVE  LET t == mintLobby(s, config, d, creator) IN
           /\ t.lobbies = Append(s.lobbies, newLobby(s, config, d, creator))
           /\ t.globalDefenseLobby = s.globalDefenseLobby
           /\ t.globalDefensePool = s.globalDefensePool
           /\ t.protocolTreasury = s.protocolTreasury /\ t.balance = s.balance
<1> DEFINE drawn == ensureEpochAttack(s, launchEpoch(s, creator, d))
<1>1. Sound(drawn) /\ SameBooks(s, drawn)
  BY newLobbySound, ensureEpochAttackSound DEF ensureEpochAttack, SameBooks, Sound, SoundStorage
<1>2. mintLobby(s, config, d, creator)
        = [drawn EXCEPT !.lobbies = Append(drawn.lobbies, newLobby(s, config, d, creator)),
                        !.activeLobbies = drawn.activeLobbies + 1]
  BY DEF mintLobby
<1> HIDE DEF drawn
<1>3. QED
  BY <1>1, <1>2 DEF SameBooks, Sound, SoundStorage

LEMMA openDrawBooked ==
    ASSUME NEW s, Sound(s), Books(s), block \in Nat, openDrawOK(s)
    PROVE  Upkept(s, openDraw(s))
<1> DEFINE config == [ minPlayers |-> s.params.minPlayers,
                       maxPlayers |-> s.params.maxPlayers, entryPrice |-> 0,
                       startPrizePool |-> 0, creatorFeeBps |-> 0 ]
           e == drawEpoch(s)
           d == drawDeadline(s)
           y == newLobby(s, config, d, Game)
           t == mintLobby(s, config, d, Game)
           u == openDraw(s)
<1>1. config \in LobbyConfig
  <2>1. s.params.minPlayers \in Nat /\ s.params.maxPlayers \in Nat
    BY StorageFields, ParamFields
  <2>2. 0 \in 0 .. BPS
    BY DEF BPS
  <2>3. QED
    BY <2>1, <2>2 DEF LobbyConfig
<1>2. e \in EpochIds /\ d \in Nat /\ mintFits(s, d)
  BY epochNowFacts, U32Assumption DEF openDrawOK, EpochIds
<1>3. Sound(u)
  BY openDrawSound
<1>4. u = [t EXCEPT !.globalDefenseLobby =
              [t.globalDefenseLobby EXCEPT ![e] = Len(s.lobbies) + 1]]
  BY DEF openDraw
<1>5. config.startPrizePool = 0
  OBVIOUS
<1> HIDE DEF config, e, d, u
<1>6. Sound(t) /\ y \in SoundLobby
  BY <1>1, <1>2, mintLobbySound, newLobbySound
<1>7. Banked(y) /\ owed(y) = 0
  BY <1>1, <1>5, <1>6, NewLobbyOwes
<1>8. /\ t.lobbies = Append(s.lobbies, y)
      /\ t.globalDefenseLobby = s.globalDefenseLobby
      /\ t.globalDefensePool = s.globalDefensePool
      /\ t.protocolTreasury = s.protocolTreasury /\ t.balance = s.balance
  BY <1>1, <1>2, mintLobbyShape
<1>9. y.creator = Game
  BY DEF newLobby
<1> HIDE DEF y, t
<1>10. /\ u.lobbies = Append(s.lobbies, y)
       /\ u.globalDefensePool = s.globalDefensePool
       /\ u.protocolTreasury = s.protocolTreasury /\ u.balance = s.balance
       /\ u.globalDefenseLobby
             = [s.globalDefenseLobby EXCEPT ![e] = Len(s.lobbies) + 1]
  BY <1>4, <1>6, <1>8 DEF Sound, SoundStorage
<1>11. \A f \in EpochIds :
          \/ u.globalDefenseLobby[f] = s.globalDefenseLobby[f]
          \/ u.globalDefenseLobby[f] = Len(s.lobbies) + 1 /\ y.creator = Game
  BY <1>9, <1>10, StorageFields
<1>12. s.balance \in Int /\ s.protocolTreasury \in Int
  BY BooksTyped, StorageFields
<1>13. Books(u)
  <2>1. u.balance = s.balance + (u.protocolTreasury - s.protocolTreasury) + owed(y)
    BY <1>7, <1>10, <1>12
  <2>2. u.lobbies = Append(s.lobbies, y) /\ u.globalDefensePool = s.globalDefensePool
    BY <1>10
  <2>3. QED
    BY <1>3, <1>6, <1>7, <1>11, <2>1, <2>2, NewLobbyBooked
<1>14. \A l \in Ids(s) : u.lobbies[l] = s.lobbies[l]
  BY <1>10, StorageFields, AppendProperties DEF Ids
<1>15. QED
  BY <1>10, <1>13, <1>14 DEF Upkept, u

LEMMA maybeOpenDrawBooked ==
    ASSUME NEW s, Sound(s), Books(s), block \in Nat, maybeOpenDrawOK(s)
    PROVE  Upkept(s, maybeOpenDraw(s))
<1> DEFINE closed == maybeCloseDraw(s)
<1>1. Sound(closed) /\ Ids(closed) = Ids(s) /\ Upkept(s, closed)
  BY maybeCloseDrawSound, maybeCloseDrawBooked
<1>2. /\ closed.interval # 0 /\ closed.globalDefensePool # 0 => drawEpoch(closed) < U32
      /\ drawDue(topUpDraw(closed)) => openDrawOK(topUpDraw(closed))
      /\ maybeOpenDraw(s) = IF drawDue(topUpDraw(closed))
                            THEN openDraw(topUpDraw(closed)) ELSE topUpDraw(closed)
  BY DEF maybeOpenDrawOK, maybeOpenDraw
<1> HIDE DEF closed
<1>3. topUpDraw(closed) = closed
  BY <1>1, <1>2, topUpDrawResting DEF Upkept
<1>4. CASE drawDue(closed)
  <2>1. Upkept(closed, openDraw(closed))
    BY <1>1, <1>2, <1>3, <1>4, openDrawBooked DEF Upkept
  <2>2. QED
    BY <1>1, <1>2, <1>3, <1>4, <2>1 DEF Upkept
<1>5. CASE ~drawDue(closed)
  BY <1>1, <1>2, <1>3, <1>5
<1>6. QED
  BY <1>4, <1>5

-----------------------------------------------------------------------------
(* Starting an operation.                                                  *)

(* A draw that starts takes the whole pile.                                *)
PoolTaken(s, t, l) ==
    /\ s.lobbies[l].creator = Game /\ s.lobbies[l].status = "OPEN"
    /\ t.lobbies[l].status # "OPEN"
    /\ t.lobbies[l].startPrizePool = s.globalDefensePool

PoolStep(s, t, l) == t.globalDefensePool >= s.globalDefensePool \/ PoolTaken(s, t, l)

LEMMA activateShape ==
    ASSUME NEW s, Sound(s), NEW l \in Ids(s), s.lobbies[l].status = "OPEN",
           NEW extra, extra = IF s.lobbies[l].creator = Game THEN s.globalDefensePool ELSE 0
    PROVE  LET t == activate(s, l)
               x == s.lobbies[l]
               y == t.lobbies[l]
           IN  /\ y.status = "ACTIVE" /\ y.seats = x.seats /\ y.creator = x.creator
               /\ y.entryPrice = x.entryPrice /\ y.creatorSettled = x.creatorSettled
               /\ y.rewardPerWinner = x.rewardPerWinner /\ y.intercepted = x.intercepted
               /\ y.entryFeesCollected = x.entryFeesCollected
               /\ y.creatorFeeAccrued = x.creatorFeeAccrued
               /\ y.startPrizePool = x.startPrizePool + extra
               /\ y.rewardPool = x.rewardPool + extra + x.entryFeesCollected
               /\ t.globalDefensePool = s.globalDefensePool - extra
               /\ t.balance = s.balance /\ t.protocolTreasury = s.protocolTreasury
               /\ t.globalDefenseLobby = s.globalDefenseLobby
               /\ t.params = s.params /\ t.interval = s.interval
               /\ \A m \in Ids(s) : m # l => t.lobbies[m] = s.lobbies[m]
<1> DEFINE x == s.lobbies[l]
           ready == commitDrawBounty(s, l)
           z == ready.lobbies[l]
           y == [z EXCEPT !.rewardPool = z.rewardPool + x.entryFeesCollected,
                          !.status = "ACTIVE"]
           t == activate(s, l)
<1>1. x \in Lobby /\ x.rewardPool \in Int /\ x.startPrizePool \in Int
      /\ x.entryFeesCollected \in Int /\ s.globalDefensePool \in Int
  BY LobbyOf, LobbyFields, StorageFields
<1>2. /\ z.status = x.status /\ z.seats = x.seats /\ z.creator = x.creator
      /\ z.entryPrice = x.entryPrice /\ z.creatorSettled = x.creatorSettled
      /\ z.rewardPerWinner = x.rewardPerWinner /\ z.intercepted = x.intercepted
      /\ z.entryFeesCollected = x.entryFeesCollected
      /\ z.creatorFeeAccrued = x.creatorFeeAccrued
      /\ z.startPrizePool = x.startPrizePool + extra
      /\ z.rewardPool = x.rewardPool + extra
      /\ ready.globalDefensePool = s.globalDefensePool - extra
      /\ ready.balance = s.balance /\ ready.protocolTreasury = s.protocolTreasury
      /\ ready.globalDefenseLobby = s.globalDefenseLobby
      /\ ready.params = s.params /\ ready.interval = s.interval
      /\ \A m \in Ids(s) : m # l => ready.lobbies[m] = s.lobbies[m]
  <2>1. CASE x.creator # Game
    <3>1. ready = s /\ extra = 0
      BY <2>1 DEF commitDrawBounty
    <3> HIDE DEF ready
    <3>2. QED
      BY <1>1, <3>1
  <2>2. CASE x.creator = Game
    <3> DEFINE b == addToBounty(x, s.globalDefensePool)
    <3>1. ready = withLobby(s, l, b, 0, s.balance, s.activeLobbies) /\ extra = s.globalDefensePool
      BY <2>2 DEF commitDrawBounty, withLobby, Sound, SoundStorage
    <3>2. /\ b.status = x.status /\ b.seats = x.seats /\ b.creator = x.creator
          /\ b.entryPrice = x.entryPrice /\ b.creatorSettled = x.creatorSettled
          /\ b.rewardPerWinner = x.rewardPerWinner /\ b.intercepted = x.intercepted
          /\ b.entryFeesCollected = x.entryFeesCollected
          /\ b.creatorFeeAccrued = x.creatorFeeAccrued
          /\ b.startPrizePool = x.startPrizePool + s.globalDefensePool
          /\ b.rewardPool = x.rewardPool + s.globalDefensePool
      <4> HIDE DEF x
      <4>1. QED
        BY <1>1 DEF addToBounty, Lobby
    <3> HIDE DEF b
    <3>3. /\ z = b /\ ready.globalDefensePool = 0
          /\ ready.balance = s.balance /\ ready.protocolTreasury = s.protocolTreasury
          /\ ready.globalDefenseLobby = s.globalDefenseLobby
          /\ ready.params = s.params /\ ready.interval = s.interval
      BY <3>1, StorageFields DEF withLobby, Sound, SoundStorage, Ids
    <3>4. \A m \in Ids(s) : m # l => ready.lobbies[m] = s.lobbies[m]
      BY <3>1, WithLobbyBeside DEF Beside
    <3> HIDE DEF ready, x
    <3>5. QED
      BY <1>1, <3>1, <3>2, <3>3, <3>4
  <2>3. QED
    BY <2>1, <2>2
<1>3. Sound(ready) /\ Ids(ready) = Ids(s)
  BY commitDrawBountySound
<1>4. t = withLobby(ready, l, y, ready.globalDefensePool, ready.balance, ready.activeLobbies)
  <2>1. t = [ready EXCEPT !.lobbies[l] = y]
    BY DEF activate
  <2> HIDE DEF ready, y, t
  <2>2. QED
    BY <1>3, <2>1 DEF withLobby, Sound, SoundStorage
<1> HIDE DEF t, ready
<1>5. z \in Lobby
  BY <1>3, LobbyOf, LobbyFields
<1>6. /\ y.status = "ACTIVE" /\ y.seats = z.seats /\ y.creator = z.creator
      /\ y.entryPrice = z.entryPrice /\ y.creatorSettled = z.creatorSettled
      /\ y.rewardPerWinner = z.rewardPerWinner /\ y.intercepted = z.intercepted
      /\ y.entryFeesCollected = z.entryFeesCollected
      /\ y.creatorFeeAccrued = z.creatorFeeAccrued
      /\ y.startPrizePool = z.startPrizePool
      /\ y.rewardPool = z.rewardPool + x.entryFeesCollected
  <2> HIDE DEF z, x
  <2>1. QED
    BY <1>5 DEF Lobby
<1> HIDE DEF y
<1>7. /\ t.lobbies[l] = y /\ t.globalDefensePool = ready.globalDefensePool
      /\ t.balance = ready.balance /\ t.protocolTreasury = ready.protocolTreasury
      /\ t.globalDefenseLobby = ready.globalDefenseLobby
      /\ t.params = ready.params /\ t.interval = ready.interval
  BY <1>3, <1>4, StorageFields DEF withLobby, Sound, SoundStorage, Ids
<1>8. \A m \in Ids(s) : m # l => t.lobbies[m] = ready.lobbies[m]
  BY <1>3, <1>4, WithLobbyBeside DEF Beside
<1> HIDE DEF x, z
<1>9. QED
  BY <1>2, <1>6, <1>7, <1>8 DEF t, x

LEMMA activateBooked ==
    ASSUME NEW s, Sound(s), Books(s), NEW l \in Ids(s)
    PROVE  LET t == activate(s, l) IN
           /\ Books(t)
           /\ t.globalDefensePool = s.globalDefensePool \/ PoolTaken(s, t, l)
<1> DEFINE t == activate(s, l)
<1>1. CASE s.lobbies[l].status # "OPEN"
  BY <1>1 DEF activate
<1>2. CASE s.lobbies[l].status = "OPEN"
  <2> DEFINE x == s.lobbies[l]
             y == t.lobbies[l]
             extra == IF x.creator = Game THEN s.globalDefensePool ELSE 0
  <2>1. x \in SoundLobby /\ Banked(x) /\ x.status = "OPEN"
    BY <1>2, LobbyOf DEF Books
  <2>2. Sound(t) /\ Ids(t) = Ids(s)
    BY activateSound
  <2>3. /\ y.status = "ACTIVE" /\ y.seats = x.seats /\ y.creator = x.creator
        /\ y.entryPrice = x.entryPrice /\ y.creatorSettled = x.creatorSettled
        /\ y.rewardPerWinner = x.rewardPerWinner /\ y.intercepted = x.intercepted
        /\ y.entryFeesCollected = x.entryFeesCollected
        /\ y.creatorFeeAccrued = x.creatorFeeAccrued
        /\ y.startPrizePool = x.startPrizePool + extra
        /\ y.rewardPool = x.rewardPool + extra + x.entryFeesCollected
        /\ t.globalDefensePool = s.globalDefensePool - extra
        /\ t.balance = s.balance /\ t.protocolTreasury = s.protocolTreasury
        /\ t.globalDefenseLobby = s.globalDefenseLobby
        /\ \A m \in Ids(s) : m # l => t.lobbies[m] = s.lobbies[m]
    BY <1>2, activateShape
  <2>4. y \in SoundLobby
    <3> HIDE DEF t
    <3>1. QED
      BY <2>2, LobbyOf
  <2>5. /\ s.globalDefensePool \in Int /\ s.globalDefensePool >= 0 /\ s.balance \in Int
    BY BooksTyped, StorageFields DEF Books
  <2>6. extra \in Int /\ extra >= 0 /\ s.globalDefensePool - extra >= 0
    BY <2>5
  <2>7. x.creator = Game => x.startPrizePool = 0 /\ extra = s.globalDefensePool
    BY <2>1 DEF Banked, Gathered
  <2>8. x.creator # Game => extra = 0
    OBVIOUS
  <2> HIDE DEF t, x, y, extra
  <2>9. SamePayments(x, y)
    BY <2>3 DEF SamePayments
  <2>10. Banked(y) /\ owed(y) = owed(x) + extra
    BY <2>1, <2>3, <2>4, <2>6, <2>9, StartedOwes
  <2>11. owed(x) \in Int
    BY <2>1, OwedType
  <2>12. t.balance = s.balance + (t.globalDefensePool - s.globalDefensePool)
                       + (owed(y) - owed(x))
    BY <2>3, <2>5, <2>6, <2>10, <2>11
  <2>13. Books(t)
    BY <2>2, <2>3, <2>6, <2>10, <2>12, OneLobbyBooked DEF x, y
  <2>14. t.globalDefensePool = s.globalDefensePool \/ PoolTaken(s, t, l)
    <3>1. CASE x.creator = Game
      <4>1. y.startPrizePool = s.globalDefensePool
        BY <2>3, <2>5, <2>7, <3>1
      <4>2. QED
        BY <2>1, <2>3, <3>1, <4>1 DEF PoolTaken, x, y
    <3>2. CASE x.creator # Game
      BY <2>3, <2>5, <2>8, <3>2
    <3>3. QED
      BY <3>1, <3>2
  <2>15. QED
    BY <2>13, <2>14 DEF t
<1>3. QED
  BY <1>1, <1>2

-----------------------------------------------------------------------------
(* Scoring and the verdict.                                                *)

(* No sum moves, and the operation knows whether it has winners.           *)
NoMoney(x, y) ==
    /\ SamePayments(x, y) /\ SameSums(x, y) /\ y.creatorSettled = x.creatorSettled
    /\ y.status = x.status /\ y.ending = x.ending

LEMMA recrownMoney ==
    ASSUME NEW x \in SoundLobby
    PROVE  LET y == recrown(x) IN
           NoMoney(x, y) /\ (y.intercepted <=> Winners(y) # {})
<1> DEFINE crown == earliestHits(x)
           seats == [w \in Players |-> [x.seats[w] EXCEPT !.isWinner = w \in crown]]
           won == crown # {}
           y == [x EXCEPT !.seats = seats, !.intercepted = won]
<1>1. recrown(x) = y
  BY DEF recrown
<1>2. crown \in SUBSET Players
  BY DEF earliestHits, revealedHits, Defenders
<1> HIDE DEF crown
<1>3. \A w \in Players : x.seats[w] \in Seat
  BY LobbyFields
<1>4. \A w \in Players : /\ seats[w].joined = x.seats[w].joined
                         /\ seats[w].paidIn = x.seats[w].paidIn
                         /\ seats[w].probesPaid = x.seats[w].probesPaid
                         /\ seats[w].isWinner <=> w \in crown
  <2>1. ASSUME NEW p \in Seat, NEW b \in BOOLEAN
        PROVE  LET r == [p EXCEPT !.isWinner = b] IN
               /\ r.joined = p.joined /\ r.paidIn = p.paidIn
               /\ r.probesPaid = p.probesPaid /\ r.isWinner = b
    BY DEF Seat
  <2>2. TAKE w \in Players
  <2>3. x.seats[w] \in Seat /\ (w \in crown) \in BOOLEAN
    BY <1>3
  <2>4. seats[w] = [x.seats[w] EXCEPT !.isWinner = w \in crown]
    OBVIOUS
  <2> DEFINE p == x.seats[w]
             b == w \in crown
  <2> HIDE DEF seats
  <2>5. /\ seats[w].joined = p.joined /\ seats[w].paidIn = p.paidIn
        /\ seats[w].probesPaid = p.probesPaid /\ seats[w].isWinner = b
    <3>1. p \in Seat /\ b \in BOOLEAN /\ seats[w] = [p EXCEPT !.isWinner = b]
      BY <2>3, <2>4
    <3> HIDE DEF p, b
    <3>2. QED
      BY <2>1, <3>1
  <2>6. QED
    BY <2>5
<1> HIDE DEF seats, won
<1>5. /\ y.seats = seats /\ y.intercepted = won
      /\ y.creator = x.creator /\ y.entryPrice = x.entryPrice
      /\ y.creatorSettled = x.creatorSettled
      /\ y.status = x.status /\ y.ending = x.ending /\ SameSums(x, y)
  BY LobbyFields DEF Lobby, SameSums
<1> HIDE DEF y
<1>6. Winners(y) = crown
  BY <1>2, <1>4, <1>5 DEF Winners
<1>7. NoMoney(x, y)
  BY <1>4, <1>5 DEF NoMoney, SamePayments
<1>8. QED
  BY <1>1, <1>5, <1>6, <1>7 DEF won

LEMMA scoreSubsetMoney ==
    ASSUME NEW x \in SoundLobby, NEW subset, NEW hits
    PROVE  LET y == scoreSubset(x, subset, hits) IN
           NoMoney(x, y) /\ (y.intercepted <=> Winners(y) # {})
<1> DEFINE scored(w) == [x.seats[w] EXCEPT !.revealed = TRUE, !.intercepted = w \in hits]
           seats == [w \in Players |->
                        IF w \in subset /\ ~x.seats[w].revealed
                        THEN scored(w) ELSE x.seats[w]]
           z == [x EXCEPT !.seats = seats]
<1>1. scoreSubset(x, subset, hits) = recrown(z)
  BY DEF scoreSubset
<1>2. ASSUME NEW w \in Players
      PROVE  /\ scored(w) \in SoundSeat
             /\ scored(w).claimed = x.seats[w].claimed
             /\ scored(w).refunded = x.seats[w].refunded
             /\ scored(w).joined = x.seats[w].joined
             /\ scored(w).paidIn = x.seats[w].paidIn
             /\ scored(w).probesPaid = x.seats[w].probesPaid
  <2>1. ASSUME NEW y \in SoundSeat, NEW b \in BOOLEAN
        PROVE  LET q == [y EXCEPT !.revealed = TRUE, !.intercepted = b] IN
               /\ q \in SoundSeat
               /\ q.claimed = y.claimed /\ q.refunded = y.refunded
               /\ q.joined = y.joined /\ q.paidIn = y.paidIn /\ q.probesPaid = y.probesPaid
    BY DEF SoundSeat, Seat
  <2>2. x.seats[w] \in SoundSeat /\ (w \in hits) \in BOOLEAN
    BY LobbyFields
  <2>3. QED
    BY <2>1, <2>2
<1>3. \A w \in Players : x.seats[w] \in SoundSeat
  BY LobbyFields
<1> HIDE DEF scored
<1>4. /\ seats \in [Players -> SoundSeat]
      /\ \A w \in Players : /\ seats[w].claimed = x.seats[w].claimed
                            /\ seats[w].refunded = x.seats[w].refunded
                            /\ seats[w].joined = x.seats[w].joined
                            /\ seats[w].paidIn = x.seats[w].paidIn
                            /\ seats[w].probesPaid = x.seats[w].probesPaid
  BY <1>2, <1>3
<1>5. seats \in [Players -> Seat]
  BY <1>4 DEF SoundSeat
<1> HIDE DEF seats
<1>6. /\ z \in Lobby /\ z.seats = seats /\ z.status = x.status /\ z.ending = x.ending
      /\ z.creator = x.creator /\ z.entryPrice = x.entryPrice
      /\ z.creatorSettled = x.creatorSettled /\ SameSums(x, z)
  BY <1>5 DEF SoundLobby, Lobby, SameSums
<1> HIDE DEF z
<1>7. z \in SoundLobby /\ NoMoney(x, z)
  BY <1>4, <1>6, SeatsReplaced DEF NoMoney, SamePayments
<1>8. NoMoney(z, recrown(z)) /\ (recrown(z).intercepted <=> Winners(recrown(z)) # {})
  BY <1>7, recrownMoney
<1> DEFINE y == recrown(z)
<1>9. NoMoney(x, y)
  <2> HIDE DEF y
  <2>1. QED
    BY <1>7, <1>8 DEF NoMoney, SamePayments, SameSums, y
<1>10. QED
  BY <1>1, <1>8, <1>9

(* Starting a team and scoring some of it.                                 *)
LEMMA TeamBooked ==
    ASSUME NEW s, Sound(s), Books(s), NEW l \in Ids(s), scorable(s, l), NEW subset, NEW hits
    PROVE  LET t == startedAndScored(s, l, subset, hits) IN
           Books(t) /\ PoolStep(s, t, l)
<1> DEFINE u == activate(s, l)
           x == u.lobbies[l]
           y == scoreSubset(x, subset, hits)
           t == startedAndScored(s, l, subset, hits)
<1>1. Sound(u) /\ Ids(u) = Ids(s) /\ x.status = "ACTIVE"
  BY activateSound DEF scorable
<1>2. Books(u) /\ (u.globalDefensePool = s.globalDefensePool \/ PoolTaken(s, u, l))
  BY activateBooked
<1>3. t = [u EXCEPT !.lobbies[l] = y]
  BY DEF startedAndScored
<1>4. Sound(t) /\ Ids(t) = Ids(s)
  BY ScoredTeam
<1> HIDE DEF u, t
<1>5. x \in SoundLobby /\ Banked(x) /\ x.ending = "NONE"
  <2>1. x \in SoundLobby /\ Banked(x)
    BY <1>1, <1>2, LobbyOf DEF Books
  <2>2. QED
    BY <1>1, <2>1, LobbyFields DEF OneStory
<1>6. t = withLobby(u, l, y, u.globalDefensePool, u.balance, u.activeLobbies)
  <2> HIDE DEF y
  <2>1. QED
    BY <1>1, <1>3 DEF withLobby, Sound, SoundStorage
<1> HIDE DEF x
<1>7. /\ y \in SoundLobby /\ NoMoney(x, y) /\ (y.intercepted <=> Winners(y) # {})
  BY <1>5, scoreSubsetSound, scoreSubsetMoney
<1> HIDE DEF y
<1>8. Banked(y) /\ owed(y) = owed(x)
  BY <1>5, <1>7, InPlayKept DEF NoMoney
<1>9. /\ u.globalDefensePool \in Int /\ u.globalDefensePool >= 0 /\ u.balance \in Int
      /\ owed(x) \in Int
  BY <1>1, <1>2, <1>5, StorageFields, BooksTyped, OwedType DEF Books
<1>10. Books(t)
  <2>1. u.balance = u.balance + (u.globalDefensePool - u.globalDefensePool)
                       + (owed(y) - owed(x))
    BY <1>8, <1>9
  <2>2. y.creator = x.creator
    BY <1>7 DEF NoMoney, SamePayments
  <2>3. QED
    BY <1>1, <1>2, <1>4, <1>6, <1>8, <1>9, <2>1, <2>2, WithLobbyBooked DEF x
<1>11. t.lobbies[l] = y /\ t.globalDefensePool = u.globalDefensePool
  BY <1>1, <1>6, WithLobbyAt
<1>12. PoolStep(s, t, l)
  <2>1. CASE PoolTaken(s, u, l)
    BY <1>7, <1>11, <2>1 DEF PoolTaken, PoolStep, NoMoney, SameSums, x
  <2>2. CASE u.globalDefensePool = s.globalDefensePool
    BY <1>9, <1>11, <2>2 DEF PoolStep
  <2>3. QED
    BY <1>2, <2>1, <2>2
<1>13. QED
  BY <1>10, <1>12 DEF t

LEMMA verdictBooked ==
    ASSUME NEW s, Sound(s), Books(s), NEW l \in Ids(s), block \in Nat,
           s.lobbies[l].status = "ACTIVE", s.attacks[s.lobbies[l].epochId].revealed
    PROVE  LET t == verdict(s, l) IN
           /\ Books(t) /\ t.globalDefensePool >= s.globalDefensePool
           /\ t.lobbies[l].status # "OPEN"
           /\ t.lobbies[l].startPrizePool = s.lobbies[l].startPrizePool
<1> DEFINE x == s.lobbies[l]
           y == judged(x)
           t == verdict(s, l)
<1>1. Sound(t) /\ Ids(t) = Ids(s)
  BY verdictSound
<1>2. \A m \in Ids(s) : m # l => t.lobbies[m] = s.lobbies[m]
  BY verdictJudges
<1>3. /\ t.lobbies[l] = y /\ t.globalDefensePool = s.globalDefensePool + forfeited(x)
      /\ t.balance = s.balance /\ t.protocolTreasury = s.protocolTreasury
      /\ t.globalDefenseLobby = s.globalDefenseLobby
  <2> HIDE DEF y
  <2>1. t.lobbies = [s.lobbies EXCEPT ![l] = y]
    BY DEF verdict, Sound, SoundStorage, y
  <2>2. /\ t.globalDefensePool = s.globalDefensePool + forfeited(x)
        /\ t.balance = s.balance /\ t.protocolTreasury = s.protocolTreasury
        /\ t.globalDefenseLobby = s.globalDefenseLobby
    BY DEF verdict, Sound, SoundStorage
  <2> HIDE DEF t
  <2>3. QED
    BY <2>1, <2>2, StorageFields DEF Ids
<1>4. x \in SoundLobby /\ Banked(x) /\ x.status = "ACTIVE"
  BY LobbyOf DEF Books
<1> HIDE DEF x, t
<1>5. y \in SoundLobby
  BY <1>4, judgedSound
<1>6. /\ y.creator = x.creator /\ y.startPrizePool = x.startPrizePool
      /\ y.status = IF x.validActions > 0 THEN "RESOLVED" ELSE "CANCELLED"
  BY <1>4, LobbyFields DEF judged, Lobby
<1>7. Banked(y) /\ owed(y) = owed(x) - forfeited(x) /\ forfeited(x) \in Int /\ forfeited(x) >= 0
  <2> HIDE DEF y
  <2>1. QED
    BY <1>4, <1>5, JudgedOwes DEF y
<1> HIDE DEF y
<1>8. /\ s.globalDefensePool \in Int /\ s.globalDefensePool >= 0 /\ s.balance \in Int
      /\ owed(x) \in Int
  BY <1>4, StorageFields, BooksTyped, OwedType DEF Books
<1>9. /\ t.globalDefensePool >= 0 /\ t.globalDefensePool >= s.globalDefensePool
      /\ t.balance = s.balance + (t.globalDefensePool - s.globalDefensePool)
                       + (owed(y) - owed(x))
  BY <1>3, <1>7, <1>8
<1>10. Books(t)
  BY <1>1, <1>2, <1>3, <1>6, <1>7, <1>9, OneLobbyBooked DEF x
<1>11. QED
  BY <1>3, <1>6, <1>9, <1>10 DEF t, x

LEMMA finalizeBooked ==
    ASSUME NEW s, Sound(s), Books(s), NEW l \in Ids(s), block \in Nat,
           s.lobbies[l].status = "ACTIVE", s.attacks[s.lobbies[l].epochId].revealed,
           finalizeOK(s, l)
    PROVE  LET t == finalize(s, l) IN
           /\ Books(t) /\ t.globalDefensePool >= s.globalDefensePool
           /\ t.lobbies[l].status # "OPEN"
           /\ t.lobbies[l].startPrizePool = s.lobbies[l].startPrizePool
<1> DEFINE u == verdict(s, l)
           t == maybeOpenDraw(u)
<1>1. /\ Sound(u) /\ Ids(u) = Ids(s) /\ Books(u)
      /\ u.globalDefensePool >= s.globalDefensePool /\ u.lobbies[l].status # "OPEN"
      /\ u.lobbies[l].startPrizePool = s.lobbies[l].startPrizePool
  BY verdictSound, verdictBooked
<1>2. maybeOpenDrawOK(u) /\ finalize(s, l) = t
  BY DEF finalizeOK, finalize
<1> HIDE DEF u
<1>3. Upkept(u, t) /\ Upkeep(u, t)
  BY <1>1, <1>2, maybeOpenDrawBooked, maybeOpenDrawUpkeep
<1> HIDE DEF t
<1>4. t.lobbies[l].status # "OPEN"
  BY <1>1, <1>3 DEF Upkeep, Kept, Resting, ClosedUnfilled
<1>5. QED
  BY <1>1, <1>2, <1>3, <1>4 DEF Upkept, t

(* A draw that took the pool and was then judged still took it.            *)
LEMMA StepThenFinal ==
    ASSUME NEW s, NEW t, NEW u, NEW l, PoolStep(s, t, l),
           s.globalDefensePool \in Int, t.globalDefensePool \in Int,
           u.globalDefensePool \in Int,
           u.globalDefensePool >= t.globalDefensePool, u.lobbies[l].status # "OPEN",
           u.lobbies[l].startPrizePool = t.lobbies[l].startPrizePool
    PROVE  PoolStep(s, u, l)
BY DEF PoolStep, PoolTaken

(* The upkeep of the draw, and then a start.                               *)
LEMMA UpkeepThenStep ==
    ASSUME NEW s, NEW t, NEW u, NEW l \in Ids(s), Upkept(s, t), Upkeep(s, t), PoolStep(t, u, l)
    PROVE  PoolStep(s, u, l)
BY DEF Upkept, Upkeep, Kept, Resting, ClosedUnfilled, SameRound, SameTerms, PoolStep, PoolTaken

LEMMA resolveAllBooked ==
    ASSUME NEW s, Sound(s), Books(s), NEW l \in Ids(s), block \in Nat, NEW hits,
           resolveAllOK(s, l, hits)
    PROVE  Books(resolveAll(s, l, hits)) /\ PoolStep(s, resolveAll(s, l, hits), l)
<1> DEFINE t == scoreAll(s, l, hits)
           u == finalize(t, l)
<1>1. t = startedAndScored(s, l, Defenders(activate(s, l).lobbies[l]), hits)
  BY DEF scoreAll, startedAndScored
<1>2. scorable(s, l) /\ finalizeOK(t, l) /\ resolveAll(s, l, hits) = u
  BY DEF resolveAllOK, resolveAll
<1> HIDE DEF t
<1>3. /\ Sound(t) /\ Ids(t) = Ids(s)
      /\ t.lobbies[l].status = "ACTIVE" /\ t.attacks[t.lobbies[l].epochId].revealed
  BY <1>1, <1>2, ScoredTeam
<1>4. Books(t) /\ PoolStep(s, t, l)
  BY <1>1, <1>2, TeamBooked
<1>5. Sound(u) /\ Books(u) /\ u.globalDefensePool >= t.globalDefensePool
      /\ u.lobbies[l].status # "OPEN"
      /\ u.lobbies[l].startPrizePool = t.lobbies[l].startPrizePool
  BY <1>2, <1>3, <1>4, finalizeSound, finalizeBooked
<1> HIDE DEF u
<1>6. /\ s.globalDefensePool \in Int /\ t.globalDefensePool \in Int
      /\ u.globalDefensePool \in Int
  BY <1>3, <1>5, StorageFields
<1>7. QED
  BY <1>2, <1>4, <1>5, <1>6, StepThenFinal

LEMMA proveBooked ==
    ASSUME NEW s, Sound(s), Books(s), NEW l \in Ids(s), block \in Nat, NEW subset, NEW hits,
           proveOK(s, l, subset)
    PROVE  Books(prove(s, l, subset, hits)) /\ PoolStep(s, prove(s, l, subset, hits), l)
<1> DEFINE ready == maybeOpenDraw(s)
           t == prove(s, l, subset, hits)
<1>1. maybeOpenDrawOK(s) /\ scorable(ready, l)
  BY DEF proveOK
<1>2. Sound(ready) /\ l \in Ids(ready) /\ Upkept(s, ready) /\ Upkeep(s, ready)
  BY <1>1, maybeOpenDrawSound, maybeOpenDrawBooked, maybeOpenDrawUpkeep
<1>3. t = startedAndScored(ready, l, subset, hits)
  BY DEF prove, startedAndScored
<1> HIDE DEF ready, t
<1>4. Books(t) /\ PoolStep(ready, t, l)
  BY <1>1, <1>2, <1>3, TeamBooked DEF Upkept
<1>5. QED
  BY <1>2, <1>4, UpkeepThenStep DEF t

LEMMA finalizeIfReadyBooked ==
    ASSUME NEW s, Sound(s), Books(s), NEW l \in Ids(s), block \in Nat, finalizeIfReadyOK(s, l)
    PROVE  Books(finalizeIfReady(s, l)) /\ PoolStep(s, finalizeIfReady(s, l), l)
<1> DEFINE ready == maybeOpenDraw(s)
           started == activate(ready, l)
           t == finalize(started, l)
<1>1. /\ maybeOpenDrawOK(s) /\ scorable(ready, l) /\ finalizeOK(started, l)
      /\ finalizeIfReady(s, l) = t
  BY DEF finalizeIfReadyOK, finalizeIfReady
<1>2. Sound(ready) /\ l \in Ids(ready) /\ Upkept(s, ready) /\ Upkeep(s, ready)
  BY <1>1, maybeOpenDrawSound, maybeOpenDrawBooked, maybeOpenDrawUpkeep
<1> HIDE DEF ready
<1>3. /\ Sound(started) /\ Ids(started) = Ids(ready)
      /\ started.lobbies[l].status = "ACTIVE"
      /\ started.attacks[started.lobbies[l].epochId].revealed
  BY <1>1, <1>2, scorableTeam
<1>4. /\ Books(started)
      /\ \/ started.globalDefensePool = ready.globalDefensePool
         \/ PoolTaken(ready, started, l)
  BY <1>2, activateBooked DEF Upkept
<1> HIDE DEF started
<1>5. PoolStep(ready, started, l)
  BY <1>2, <1>4, StorageFields DEF PoolStep
<1>6. Sound(t) /\ Books(t) /\ t.globalDefensePool >= started.globalDefensePool
      /\ t.lobbies[l].status # "OPEN"
      /\ t.lobbies[l].startPrizePool = started.lobbies[l].startPrizePool
  BY <1>1, <1>2, <1>3, <1>4, finalizeSound, finalizeBooked
<1> HIDE DEF t
<1>7. /\ ready.globalDefensePool \in Int /\ started.globalDefensePool \in Int
      /\ t.globalDefensePool \in Int
  BY <1>2, <1>3, <1>6, StorageFields
<1>8. PoolStep(ready, t, l)
  BY <1>5, <1>6, <1>7, StepThenFinal
<1>9. QED
  BY <1>1, <1>2, <1>6, <1>8, UpkeepThenStep

-----------------------------------------------------------------------------
(* The entry points.                                                       *)

(* What a transaction leaves: the books in order, and the pool no lower    *)
(* unless a draw took it.                                                  *)
StepBooked ==
    /\ Books(store')
    /\ \/ store'.globalDefensePool >= store.globalDefensePool
       \/ \E l \in LobbyIds : PoolTaken(store, store', l)

LEMMA AtHand ==
    ASSUME IInv
    PROVE  /\ Sound(store) /\ block \in Nat /\ LobbyIds = Ids(store)
           /\ IInv' => Sound(store')
BY DEF IInv, LobbyIds, Ids

LEMMA AfterUpkeepBooked ==
    ASSUME IInv, Books(store), maybeOpenDrawOK(store)
    PROVE  LET s == maybeOpenDraw(store) IN
           /\ Sound(s) /\ Books(s) /\ LobbyIds \subseteq Ids(s)
           /\ Upkept(store, s) /\ Upkeep(store, s)
           /\ s.globalDefensePool = store.globalDefensePool
           /\ s.globalDefensePool \in Int /\ s.balance \in Int
<1>1. Sound(store) /\ block \in Nat
  BY DEF IInv
<1> DEFINE s == maybeOpenDraw(store)
<1>2. Sound(s) /\ LobbyIds \subseteq Ids(s)
  BY AfterUpkeep
<1>3. Upkept(store, s) /\ Upkeep(store, s)
  BY <1>1, maybeOpenDrawBooked, maybeOpenDrawUpkeep
<1> HIDE DEF s
<1>4. s.globalDefensePool \in Int /\ s.balance \in Int
  BY <1>2, <1>3, StorageFields, BooksTyped DEF Upkept
<1>5. QED
  BY <1>2, <1>3, <1>4 DEF Upkept, s

(* The books and the pool as they were.                                    *)
LEMMA SameStep ==
    ASSUME IInv, Books(store), NEW s, Books(s), SameBooks(s, store'),
           s.globalDefensePool = store.globalDefensePool
    PROVE  StepBooked
<1>1. store.globalDefensePool \in Int
  BY StorageFields DEF IInv
<1>2. Books(store')
  BY SameBooked
<1>3. QED
  BY <1>1, <1>2 DEF StepBooked, SameBooks

(* One operation rewritten, the money moved being its debt's change.       *)
LEMMA WrittenStep ==
    ASSUME IInv, Books(store), NEW s, Sound(s), Books(s),
           s.globalDefensePool = store.globalDefensePool,
           NEW l \in Ids(s), NEW x, NEW pool \in Int, NEW balance, NEW active,
           store' = withLobby(s, l, x, pool, balance, active), IInv',
           pool >= s.globalDefensePool,
           x.creator = s.lobbies[l].creator, Banked(x),
           balance = s.balance + (pool - s.globalDefensePool)
                         + (owed(x) - owed(s.lobbies[l]))
    PROVE  StepBooked
<1>1. Sound(store') /\ s.globalDefensePool \in Int /\ s.globalDefensePool >= 0
  BY AtHand, StorageFields DEF Books
<1>2. pool >= 0
  BY <1>1
<1>3. Books(store')
  BY <1>1, <1>2, WithLobbyBooked
<1>4. store'.globalDefensePool = pool
  BY WithLobbyAt
<1>5. QED
  BY <1>3, <1>4 DEF StepBooked

LEMMA WrittenSound ==
    ASSUME NEW s, Sound(s), NEW l \in Ids(s), NEW x, NEW pool, NEW balance, NEW active,
           Sound(withLobby(s, l, x, pool, balance, active))
    PROVE  x \in SoundLobby
<1> DEFINE t == withLobby(s, l, x, pool, balance, active)
<1>1. t.lobbies[l] = x
  BY WithLobbyAt
<1>2. t.lobbies = [s.lobbies EXCEPT ![l] = x]
  BY DEF withLobby, Sound, SoundStorage
<1>3. l \in Ids(t)
  BY <1>2, StorageFields DEF Ids
<1>4. Sound(t)
  OBVIOUS
<1> HIDE DEF t
<1>5. QED
  BY <1>1, <1>3, <1>4, LobbyOf

(* The same when the pool stands.                                          *)
LEMMA WrittenBeside ==
    ASSUME IInv, Books(store), NEW s, Sound(s), Books(s),
           s.globalDefensePool = store.globalDefensePool,
           NEW l \in Ids(s), NEW x, NEW balance, NEW active,
           store' = withLobby(s, l, x, s.globalDefensePool, balance, active), IInv',
           x.creator = s.lobbies[l].creator, Banked(x),
           balance = s.balance + (owed(x) - owed(s.lobbies[l]))
    PROVE  StepBooked
<1>1. s.globalDefensePool \in Int /\ s.balance \in Int
  BY StorageFields, BooksTyped
<1>2. owed(x) \in Int /\ owed(s.lobbies[l]) \in Int
  BY AtHand, WrittenSound, LobbyOf, OwedType
<1>3. /\ s.globalDefensePool >= s.globalDefensePool
      /\ balance = s.balance + (s.globalDefensePool - s.globalDefensePool)
                         + (owed(x) - owed(s.lobbies[l]))
  BY <1>1, <1>2
<1>4. QED
  BY <1>1, <1>3, WrittenStep

LEMMA GovernanceBooked ==
    ASSUME IInv, Books(store), Governance
    PROVE  StepBooked
<1>1. Sound(store) /\ store.globalDefensePool \in Int
  BY AtHand, StorageFields
<1>2. ASSUME NEW p, setParams(p) PROVE StepBooked
  <2>1. SameBooks(store, store')
    BY <1>1, <1>2 DEF setParams, SameBooks, Sound, SoundStorage
  <2>2. QED
    BY <2>1, SameStep
<1>3. ASSUME NEW i, setGlobalDefenseInterval(i) PROVE StepBooked
  <2>1. SameBooks(store, store')
    BY <1>1, <1>3 DEF setGlobalDefenseInterval, SameBooks, Sound, SoundStorage
  <2>2. QED
    BY <2>1, SameStep
<1>4. ASSUME NEW b, setPaused(b) PROVE StepBooked
  <2>1. SameBooks(store, store')
    BY <1>1, <1>4 DEF setPaused, SameBooks, Sound, SoundStorage
  <2>2. QED
    BY <2>1, SameStep
<1>5. ASSUME NEW amount \in Withdrawals, withdrawProtocolFees(amount) PROVE StepBooked
  <2>1. /\ store'.lobbies = store.lobbies
        /\ store'.globalDefenseLobby = store.globalDefenseLobby
        /\ store'.globalDefensePool = store.globalDefensePool
        /\ store'.protocolTreasury = store.protocolTreasury - amount
        /\ store'.balance = store.balance - amount
    BY <1>1, <1>5 DEF withdrawProtocolFees, Sound, SoundStorage
  <2>2. dues(store') = dues(store) /\ Ids(store') = Ids(store)
    BY <2>1 DEF dues, Ids
  <2>3. /\ amount \in Int /\ store.protocolTreasury \in Int /\ store.balance \in Int
        /\ Total(dues(store), Ids(store)) \in Int
    BY <1>1, BoundsAssumption, StorageFields, BooksTyped
  <2>4. store'.balance = store'.protocolTreasury + store'.globalDefensePool
                            + Total(dues(store'), Ids(store'))
    <3>1. store.balance = store.protocolTreasury + store.globalDefensePool
                            + Total(dues(store), Ids(store))
      BY DEF Books
    <3>2. QED
      BY <1>1, <2>1, <2>2, <2>3, <3>1
  <2>5. Books(store')
    BY <2>1, <2>2, <2>4 DEF Books
  <2>6. QED
    BY <1>1, <2>1, <2>5 DEF StepBooked
<1>6. QED
  BY <1>2, <1>3, <1>4, <1>5 DEF Governance

(* A room is opened: its bounty is escrowed, the listing fee is the        *)
(* treasury's.                                                             *)
LEMMA createLobbyBooked ==
    ASSUME IInv, Books(store), IInv', NEW w \in Players, NEW config \in Configs, NEW d \in Nat,
           createLobby(w, config, d)
    PROVE  StepBooked
<1> DEFINE s == maybeOpenDraw(store)
           t == mintLobby(s, config, d, w)
           fee == s.params.protocolJoinFee
           y == newLobby(s, config, d, w)
           bounty == config.startPrizePool
<1>1. /\ maybeOpenDrawOK(store) /\ mintFits(s, d)
      /\ store' = [t EXCEPT !.protocolTreasury = t.protocolTreasury + fee,
                            !.balance = t.balance + bounty + fee]
  BY DEF createLobby
<1>2. /\ Sound(s) /\ Books(s) /\ s.globalDefensePool = store.globalDefensePool
      /\ s.globalDefensePool \in Int /\ s.balance \in Int
  BY <1>1, AfterUpkeepBooked
<1> HIDE DEF s
<1>3. /\ config \in LobbyConfig /\ w \in Players \cup {Game} /\ w # Game /\ bounty \in Nat
  BY ParamsAssumption, PlayersAssumption DEF LobbyConfig
<1>4. Sound(t) /\ y \in SoundLobby
  BY <1>1, <1>2, <1>3, mintLobbySound, newLobbySound
<1>5. /\ t.lobbies = Append(s.lobbies, y)
      /\ t.globalDefenseLobby = s.globalDefenseLobby
      /\ t.globalDefensePool = s.globalDefensePool
      /\ t.protocolTreasury = s.protocolTreasury /\ t.balance = s.balance
  BY <1>1, <1>2, <1>3, mintLobbyShape
<1>6. Banked(y) /\ owed(y) = bounty
  BY <1>3, <1>4, NewLobbyOwes
<1>7. fee \in Nat /\ s.protocolTreasury \in Nat
  BY <1>2, StorageFields, ParamFields
<1> HIDE DEF t, y, fee, bounty
<1>8. /\ store'.lobbies = Append(s.lobbies, y)
      /\ store'.globalDefenseLobby = s.globalDefenseLobby
      /\ store'.globalDefensePool = s.globalDefensePool
      /\ store'.protocolTreasury = s.protocolTreasury + fee
      /\ store'.balance = s.balance + bounty + fee
  BY <1>1, <1>4, <1>5 DEF Sound, SoundStorage
<1>9. store'.balance = s.balance + (store'.protocolTreasury - s.protocolTreasury) + owed(y)
  BY <1>2, <1>3, <1>6, <1>7, <1>8 DEF bounty
<1>10. Books(store')
  BY <1>2, <1>4, <1>6, <1>8, <1>9, AtHand, NewLobbyBooked
<1>11. QED
  BY <1>2, <1>8, <1>10 DEF StepBooked

(* A seat is taken: its price is escrowed.                                 *)
LEMMA joinLobbyBooked ==
    ASSUME IInv, Books(store), IInv', NEW w \in Players, NEW l \in LobbyIds, joinLobby(w, l)
    PROVE  StepBooked
<1> DEFINE s     == maybeOpenDraw(store)
           lobby == s.lobbies[l]
           seat  == lobby.seats[w]
           cost  == joinPayment(lobby.entryPrice, lobby.creatorFeeBps)
           y     == [seat EXCEPT !.joined = TRUE, !.paidIn = cost]
           seats == [lobby.seats EXCEPT ![w] = y]
           fees  == lobby.entryFeesCollected + lobby.entryPrice
           own   == lobby.creatorFeeAccrued + cost - lobby.entryPrice
           x     == [lobby EXCEPT !.seats = seats, !.entryFeesCollected = fees,
                                  !.creatorFeeAccrued = own]
           held  == s.balance + cost
<1>1. /\ maybeOpenDrawOK(store) /\ lobby.status = "OPEN" /\ ~seat.joined
      /\ store' = [s EXCEPT !.lobbies[l] = x, !.balance = held]
  BY DEF joinLobby, registrationOpen
<1>2. /\ Sound(s) /\ Books(s) /\ l \in Ids(s) /\ s.globalDefensePool = store.globalDefensePool
      /\ s.globalDefensePool \in Int /\ s.balance \in Int
  BY <1>1, AfterUpkeepBooked
<1> HIDE DEF s
<1>3. store' = withLobby(s, l, x, s.globalDefensePool, held, s.activeLobbies)
  BY <1>1, <1>2 DEF withLobby, Sound, SoundStorage
<1>4. /\ lobby \in SoundLobby /\ seat \in SoundSeat /\ lobby.seats \in [Players -> SoundSeat]
      /\ Banked(lobby)
  BY <1>2, LobbyOf, SeatOf DEF Books
<1> HIDE DEF lobby, seat
<1>5. cost \in Int /\ cost >= lobby.entryPrice
  <2>1. lobby.entryPrice \in Nat /\ lobby.creatorFeeBps \in Nat
    BY <1>4, LobbyFields
  <2>2. lobby.entryPrice * lobby.creatorFeeBps \in Nat
    BY <2>1
  <2>3. (lobby.entryPrice * lobby.creatorFeeBps) \div BPS \in Nat
    BY <2>2, DivFacts DEF BPS
  <2>4. QED
    BY <2>1, <2>3 DEF joinPayment, authorCommission
<1> HIDE DEF cost
<1>6. /\ seats[w] = y
      /\ \A v \in Players : v # w => seats[v] = lobby.seats[v]
  BY <1>4
<1>7. /\ y.joined /\ y.paidIn = cost /\ y.probesPaid = seat.probesPaid
      /\ y.isWinner = seat.isWinner
  BY <1>4 DEF SoundSeat, Seat
<1> HIDE DEF y, seats, fees, own
<1>8. /\ x.seats = seats /\ x.creator = lobby.creator /\ x.status = lobby.status
      /\ x.ending = lobby.ending /\ x.entryPrice = lobby.entryPrice
      /\ x.startPrizePool = lobby.startPrizePool /\ x.creatorSettled = lobby.creatorSettled
      /\ x.rewardPerWinner = lobby.rewardPerWinner /\ x.intercepted = lobby.intercepted
      /\ x.rewardPool = lobby.rewardPool /\ x.entryFeesCollected = fees
      /\ x.creatorFeeAccrued = own
  BY <1>4 DEF SoundLobby, Lobby
<1> HIDE DEF x, held
<1>9. x \in SoundLobby
  BY <1>2, <1>3, AtHand, WrittenSound
<1>10. SameBeside(lobby, x, w) /\ Steady(lobby, x)
  <2>1. Winners(x) = Winners(lobby)
    BY <1>6, <1>7, <1>8 DEF Winners, seat
  <2>2. QED
    BY <1>6, <1>8, <2>1 DEF SameBeside, Steady
<1>11. Banked(x) /\ owed(x) = owed(lobby) + cost
  <2>1. /\ ~lobby.seats[w].joined /\ x.seats[w].joined
        /\ x.seats[w].probesPaid = lobby.seats[w].probesPaid
        /\ x.seats[w].paidIn = cost
    BY <1>1, <1>6, <1>7, <1>8 DEF seat
  <2>2. /\ x.entryFeesCollected = lobby.entryFeesCollected + lobby.entryPrice
        /\ x.creatorFeeAccrued = lobby.creatorFeeAccrued + cost - lobby.entryPrice
    BY <1>8 DEF fees, own
  <2>3. QED
    BY <1>1, <1>4, <1>5, <1>8, <1>9, <1>10, <2>1, <2>2, JoinedOwes
<1>12. held = s.balance + (owed(x) - owed(s.lobbies[l]))
  <2>1. owed(lobby) \in Int
    BY <1>4, OwedType
  <2>2. held = s.balance + (owed(x) - owed(lobby))
    BY <1>2, <1>5, <1>11, <2>1 DEF held
  <2>3. QED
    BY <2>2 DEF lobby
<1>13. QED
  BY <1>2, <1>3, <1>8, <1>11, <1>12, WrittenBeside DEF lobby

(* A seat is given up: its wallet takes back what it paid.                 *)
LEMMA leaveLobbyBooked ==
    ASSUME IInv, Books(store), IInv', NEW w \in Players, NEW l \in LobbyIds, leaveLobby(w, l)
    PROVE  StepBooked
<1> DEFINE s     == store
           lobby == s.lobbies[l]
           seat  == lobby.seats[w]
           y     == [seat EXCEPT !.joined = FALSE, !.paidIn = 0,
                                 !.probesPurchased = 0, !.probesPaid = 0]
           seats == [lobby.seats EXCEPT ![w] = y]
           fees  == lobby.entryFeesCollected - lobby.entryPrice
           own   == lobby.creatorFeeAccrued - commissionPaid(seat, lobby.entryPrice)
           pool  == lobby.rewardPool - seat.probesPaid
           x     == [lobby EXCEPT !.seats = seats, !.entryFeesCollected = fees,
                                  !.creatorFeeAccrued = own, !.rewardPool = pool]
           held  == s.balance - seat.paidIn
<1>1. /\ lobby.status = "OPEN" /\ seat.joined
      /\ store' = [s EXCEPT !.lobbies[l] = x, !.balance = held]
  BY DEF leaveLobby, leaveOK, leave
<1>2. /\ Sound(s) /\ Books(s) /\ l \in Ids(s) /\ s.globalDefensePool = store.globalDefensePool
      /\ s.globalDefensePool \in Int /\ s.balance \in Int
  BY AtHand, StorageFields, BooksTyped
<1> HIDE DEF s
<1>3. store' = withLobby(s, l, x, s.globalDefensePool, held, s.activeLobbies)
  BY <1>1, <1>2 DEF withLobby, Sound, SoundStorage
<1>4. /\ lobby \in SoundLobby /\ seat \in SoundSeat /\ lobby.seats \in [Players -> SoundSeat]
      /\ Banked(lobby)
  BY <1>2, LobbyOf, SeatOf DEF Books
<1> HIDE DEF lobby, seat
<1>5. seat.paidIn \in Int
  BY <1>4, SeatFields
<1>6. /\ seats[w] = y
      /\ \A v \in Players : v # w => seats[v] = lobby.seats[v]
  BY <1>4
<1>7. ~y.joined /\ y.probesPaid = 0 /\ y.isWinner = seat.isWinner
  BY <1>4 DEF SoundSeat, Seat
<1> HIDE DEF y, seats, fees, own, pool
<1>8. /\ x.seats = seats /\ x.creator = lobby.creator /\ x.status = lobby.status
      /\ x.ending = lobby.ending /\ x.entryPrice = lobby.entryPrice
      /\ x.startPrizePool = lobby.startPrizePool /\ x.creatorSettled = lobby.creatorSettled
      /\ x.rewardPerWinner = lobby.rewardPerWinner /\ x.intercepted = lobby.intercepted
      /\ x.rewardPool = pool /\ x.entryFeesCollected = fees
      /\ x.creatorFeeAccrued = own
  BY <1>4 DEF SoundLobby, Lobby
<1> HIDE DEF x, held
<1>9. x \in SoundLobby
  BY <1>2, <1>3, AtHand, WrittenSound
<1>10. SameBeside(lobby, x, w) /\ Steady(lobby, x)
  <2>1. Winners(x) = Winners(lobby)
    BY <1>6, <1>7, <1>8 DEF Winners, seat
  <2>2. QED
    BY <1>6, <1>8, <2>1 DEF SameBeside, Steady
<1>11. Banked(x) /\ owed(x) = owed(lobby) - seat.paidIn
  <2>1. /\ lobby.seats[w].joined /\ ~x.seats[w].joined
        /\ x.seats[w].probesPaid = 0
    BY <1>1, <1>6, <1>7, <1>8 DEF seat
  <2>2. /\ x.entryFeesCollected = lobby.entryFeesCollected - lobby.entryPrice
        /\ x.creatorFeeAccrued
              = lobby.creatorFeeAccrued - commissionPaid(lobby.seats[w], lobby.entryPrice)
        /\ x.rewardPool = lobby.rewardPool - lobby.seats[w].probesPaid
    BY <1>8 DEF fees, own, pool, seat
  <2>3. QED
    BY <1>1, <1>4, <1>8, <1>9, <1>10, <2>1, <2>2, LeftOwes DEF seat
<1>12. held = s.balance + (owed(x) - owed(s.lobbies[l]))
  <2>1. owed(lobby) \in Int
    BY <1>4, OwedType
  <2>2. held = s.balance + (owed(x) - owed(lobby))
    BY <1>2, <1>5, <1>11, <2>1 DEF held
  <2>3. QED
    BY <2>2 DEF lobby
<1>13. QED
  BY <1>2, <1>3, <1>8, <1>11, <1>12, WrittenBeside DEF lobby

(* Recon is bought: its price joins the reward pool.                       *)
LEMMA buyProbesBooked ==
    ASSUME IInv, Books(store), IInv', NEW w \in Players, NEW l \in LobbyIds, NEW count \in Nat,
           buyProbes(w, l, count)
    PROVE  StepBooked
<1> DEFINE s     == maybeOpenDraw(store)
           lobby == s.lobbies[l]
           seat  == lobby.seats[w]
           cost  == s.params.probePrice * count
           y     == [seat EXCEPT !.probesPurchased = @ + count, !.probesPaid = @ + cost,
                                 !.paidIn = @ + cost]
           seats == [lobby.seats EXCEPT ![w] = y]
           pool  == lobby.rewardPool + cost
           x     == [lobby EXCEPT !.seats = seats, !.rewardPool = pool]
           held  == s.balance + cost
<1>1. /\ maybeOpenDrawOK(store) /\ lobby.status \in {"OPEN", "ACTIVE"} /\ seat.joined
      /\ store' = [s EXCEPT !.lobbies[l] = x, !.balance = held]
  BY DEF buyProbes
<1>2. /\ Sound(s) /\ Books(s) /\ l \in Ids(s) /\ s.globalDefensePool = store.globalDefensePool
      /\ s.globalDefensePool \in Int /\ s.balance \in Int
  BY <1>1, AfterUpkeepBooked
<1> HIDE DEF s
<1>3. store' = withLobby(s, l, x, s.globalDefensePool, held, s.activeLobbies)
  BY <1>1, <1>2 DEF withLobby, Sound, SoundStorage
<1>4. /\ lobby \in SoundLobby /\ seat \in SoundSeat /\ lobby.seats \in [Players -> SoundSeat]
      /\ Banked(lobby)
  BY <1>2, LobbyOf, SeatOf DEF Books
<1> HIDE DEF lobby, seat
<1>5. cost \in Nat
  <2>1. s.params.probePrice \in Nat
    BY <1>2, StorageFields, ParamFields
  <2>2. QED
    BY <2>1
<1> HIDE DEF cost
<1>6. /\ seats[w] = y
      /\ \A v \in Players : v # w => seats[v] = lobby.seats[v]
  BY <1>4
<1>7. /\ y.joined = seat.joined /\ y.paidIn = seat.paidIn + cost
      /\ y.probesPaid = seat.probesPaid + cost /\ y.isWinner = seat.isWinner
  BY <1>4 DEF SoundSeat, Seat
<1> HIDE DEF y, seats, pool
<1>8. /\ x.seats = seats /\ x.creator = lobby.creator /\ x.status = lobby.status
      /\ x.ending = lobby.ending /\ x.entryPrice = lobby.entryPrice
      /\ x.startPrizePool = lobby.startPrizePool /\ x.creatorSettled = lobby.creatorSettled
      /\ x.rewardPerWinner = lobby.rewardPerWinner /\ x.intercepted = lobby.intercepted
      /\ x.rewardPool = pool /\ x.entryFeesCollected = lobby.entryFeesCollected
      /\ x.creatorFeeAccrued = lobby.creatorFeeAccrued
  BY <1>4 DEF SoundLobby, Lobby
<1> HIDE DEF x, held
<1>9. x \in SoundLobby
  BY <1>2, <1>3, AtHand, WrittenSound
<1>10. SameBeside(lobby, x, w) /\ Steady(lobby, x)
  <2>1. Winners(x) = Winners(lobby)
    BY <1>6, <1>7, <1>8 DEF Winners, seat
  <2>2. QED
    BY <1>6, <1>8, <2>1 DEF SameBeside, Steady
<1>11. Banked(x) /\ owed(x) = owed(lobby) + cost
  <2>1. /\ lobby.seats[w].joined /\ x.seats[w].joined
        /\ x.seats[w].paidIn = lobby.seats[w].paidIn + cost
        /\ x.seats[w].probesPaid = lobby.seats[w].probesPaid + cost
    BY <1>1, <1>6, <1>7, <1>8 DEF seat
  <2>2. x.rewardPool = lobby.rewardPool + cost
    BY <1>8 DEF pool
  <2>3. QED
    BY <1>1, <1>4, <1>5, <1>8, <1>9, <1>10, <2>1, <2>2, ProbesOwe
<1>12. held = s.balance + (owed(x) - owed(s.lobbies[l]))
  <2>1. owed(lobby) \in Int
    BY <1>4, OwedType
  <2>2. held = s.balance + (owed(x) - owed(lobby))
    BY <1>2, <1>5, <1>11, <2>1 DEF held
  <2>3. QED
    BY <2>2 DEF lobby
<1>13. QED
  BY <1>2, <1>3, <1>8, <1>11, <1>12, WrittenBeside DEF lobby

-----------------------------------------------------------------------------
(* Starting, closing and acting.                                           *)

LEMMA LobbyStep ==
    ASSUME NEW l \in LobbyIds, Books(store'), PoolStep(store, store', l)
    PROVE  StepBooked
BY DEF StepBooked, PoolStep

LEMMA RoomActionsBooked ==
    ASSUME IInv, Books(store), IInv',
           \/ openGlobalDefense
           \/ \E l \in LobbyIds : startOperation(l) \/ cancelLobby(l)
    PROVE  StepBooked
<1>1. /\ Sound(store) /\ block \in Nat /\ LobbyIds = Ids(store)
      /\ store.globalDefensePool \in Int
  BY AtHand, StorageFields
<1>2. CASE openGlobalDefense
  <2> DEFINE s == maybeCloseDraw(store)
  <2>1. Sound(s) /\ Upkept(store, s)
    BY <1>1, maybeCloseDrawSound, maybeCloseDrawBooked
  <2>2. openDrawOK(s) /\ store' = openDraw(s)
    BY <1>2 DEF openGlobalDefense
  <2> HIDE DEF s
  <2>3. Upkept(s, store')
    BY <1>1, <2>1, <2>2, openDrawBooked DEF Upkept
  <2>4. QED
    BY <1>1, <2>1, <2>3 DEF Upkept, StepBooked
<1>3. ASSUME NEW l \in LobbyIds, startOperation(l) PROVE StepBooked
  <2>1. /\ Books(store')
        /\ store'.globalDefensePool = store.globalDefensePool \/ PoolTaken(store, store', l)
    BY <1>1, <1>3, activateBooked DEF startOperation
  <2>2. QED
    BY <1>1, <2>1 DEF StepBooked
<1>4. ASSUME NEW l \in LobbyIds, cancelLobby(l) PROVE StepBooked
  <2>1. store' = closeUnfilled(store, l) /\ store.lobbies[l].status = "OPEN"
    BY <1>4 DEF cancelLobby, lobbyOf
  <2>2. Upkept(store, store')
    BY <1>1, <2>1, closeUnfilledBooked
  <2>3. QED
    BY <1>1, <2>2 DEF Upkept, StepBooked
<1>5. QED
  BY <1>2, <1>3, <1>4

(* A move in the round costs nothing.                                      *)
LEMMA MoveBooked ==
    ASSUME NEW s, Sound(s), Books(s), NEW l \in Ids(s), NEW w \in Players, NEW y \in SoundSeat,
           s.lobbies[l].status = "ACTIVE",
           y.claimed = s.lobbies[l].seats[w].claimed,
           y.refunded = s.lobbies[l].seats[w].refunded,
           y.joined = s.lobbies[l].seats[w].joined,
           y.paidIn = s.lobbies[l].seats[w].paidIn,
           y.probesPaid = s.lobbies[l].seats[w].probesPaid,
           y.isWinner = s.lobbies[l].seats[w].isWinner
    PROVE  LET t == moved(s, l, w, y) IN
               /\ Books(t) /\ t.globalDefensePool = s.globalDefensePool
               /\ t.lobbies[l].status = "ACTIVE"
               /\ t.lobbies[l].startPrizePool = s.lobbies[l].startPrizePool
<1> DEFINE lobby == s.lobbies[l]
           seats == [lobby.seats EXCEPT ![w] = y]
           moves == lobby.validActions + 1
           x == [lobby EXCEPT !.seats = seats, !.validActions = moves]
           attacks == [s.attacks EXCEPT ![lobby.epochId] = launched(@)]
           lobbies == [s.lobbies EXCEPT ![l] = x]
           t == [s EXCEPT !.lobbies = lobbies, !.attacks = attacks]
<1>1. moved(s, l, w, y) = t /\ Sound(t)
  <2>1. moved(s, l, w, y) = t
    BY DEF moved, Sound, SoundStorage
  <2>2. Sound(moved(s, l, w, y))
    BY MoveSound DEF moved
  <2> HIDE DEF t
  <2>3. QED
    BY <2>1, <2>2
<1>2. /\ lobby \in SoundLobby /\ Banked(lobby) /\ lobby.status = "ACTIVE"
      /\ lobby.seats \in [Players -> SoundSeat]
  BY LobbyOf, SeatOf DEF Books
<1>3. lobbies[l] = x /\ Len(lobbies) = Len(s.lobbies)
      /\ \A m \in Ids(s) : m # l => lobbies[m] = s.lobbies[m]
  BY StorageFields DEF Ids
<1> HIDE DEF lobbies
<1>4. /\ t.lobbies = lobbies /\ t.globalDefenseLobby = s.globalDefenseLobby
      /\ t.globalDefensePool = s.globalDefensePool
      /\ t.protocolTreasury = s.protocolTreasury /\ t.balance = s.balance
  BY DEF Sound, SoundStorage
<1> HIDE DEF lobby, t
<1>5. /\ seats[w] = y
      /\ \A v \in Players : v # w => seats[v] = lobby.seats[v]
  BY <1>2
<1> HIDE DEF seats, moves
<1>6. /\ x.seats = seats /\ x.creator = lobby.creator /\ x.status = lobby.status
      /\ x.ending = lobby.ending /\ x.entryPrice = lobby.entryPrice
      /\ x.creatorSettled = lobby.creatorSettled /\ x.intercepted = lobby.intercepted
      /\ SameSums(lobby, x)
  BY <1>2 DEF SoundLobby, Lobby, SameSums
<1> HIDE DEF x
<1>7. Ids(t) = Ids(s) /\ t.lobbies[l] = x
  BY <1>3, <1>4 DEF Ids
<1>8. x \in SoundLobby
  BY <1>1, <1>7, LobbyOf
<1>9. Winners(x) = Winners(lobby) /\ SamePayments(lobby, x)
  BY <1>5, <1>6 DEF Winners, SamePayments, lobby
<1>10. lobby.ending = "NONE"
  BY <1>2, LobbyFields DEF OneStory
<1>11. lobby.intercepted <=> Winners(lobby) # {}
  BY <1>2 DEF Banked
<1>12. Banked(x) /\ owed(x) = owed(lobby)
  BY <1>2, <1>6, <1>8, <1>9, <1>10, <1>11, InPlayKept
<1>13. /\ s.globalDefensePool \in Int /\ s.globalDefensePool >= 0 /\ s.balance \in Int
       /\ owed(lobby) \in Int
  BY <1>2, StorageFields, BooksTyped, OwedType DEF Books
<1>14. t.balance = s.balance + (t.globalDefensePool - s.globalDefensePool)
                      + (owed(t.lobbies[l]) - owed(s.lobbies[l]))
  <2>1. t.balance = s.balance + (t.globalDefensePool - s.globalDefensePool)
                      + (owed(x) - owed(lobby))
    BY <1>4, <1>12, <1>13
  <2>2. QED
    BY <1>7, <2>1 DEF lobby
<1>15. /\ t.lobbies[l].creator = s.lobbies[l].creator /\ Banked(t.lobbies[l])
       /\ \A m \in Ids(s) : m # l => t.lobbies[m] = s.lobbies[m]
       /\ t.globalDefensePool >= 0
       /\ t.globalDefenseLobby = s.globalDefenseLobby
       /\ t.protocolTreasury = s.protocolTreasury
  BY <1>3, <1>4, <1>6, <1>7, <1>12, <1>13 DEF lobby
<1>16. Books(t)
  <2>1. Sound(t) /\ Ids(t) = Ids(s)
    BY <1>1, <1>7
  <2>2. QED
    BY <2>1, <1>14, <1>15, OneLobbyBooked
<1>17. /\ t.lobbies[l].status = "ACTIVE"
       /\ t.lobbies[l].startPrizePool = s.lobbies[l].startPrizePool
  BY <1>2, <1>6, <1>7 DEF SameSums, lobby
<1>18. QED
  BY <1>1, <1>4, <1>16, <1>17

(* A move after the upkeep and the start that ride on it.                  *)
LEMMA UpkeepStartMove ==
    ASSUME IInv, Books(store), IInv', NEW l \in LobbyIds, maybeOpenDrawOK(store), NEW ready,
           ready = activate(maybeOpenDraw(store), l),
           Books(store'), store'.globalDefensePool = ready.globalDefensePool,
           store'.lobbies[l].status # "OPEN",
           store'.lobbies[l].startPrizePool = ready.lobbies[l].startPrizePool
    PROVE  StepBooked
<1> DEFINE s == maybeOpenDraw(store)
<1>1. /\ Sound(s) /\ Books(s) /\ l \in Ids(s) /\ s.globalDefensePool \in Int
      /\ Upkept(store, s) /\ Upkeep(store, s) /\ l \in Ids(store)
  BY AfterUpkeepBooked, AtHand
<1> HIDE DEF s
<1>2. Sound(ready) /\ ready.globalDefensePool \in Int
  BY <1>1, activateSound, StorageFields DEF s
<1>3. PoolStep(s, ready, l)
  <2>1. ready.globalDefensePool = s.globalDefensePool \/ PoolTaken(s, ready, l)
    BY <1>1, activateBooked DEF s
  <2>2. QED
    BY <1>1, <2>1 DEF PoolStep
<1>4. PoolStep(s, store', l)
  BY <1>1, <1>2, <1>3, StepThenFinal
<1>5. PoolStep(store, store', l)
  BY <1>1, <1>4, UpkeepThenStep
<1>6. QED
  BY <1>5, LobbyStep

LEMMA sendProbeBooked ==
    ASSUME IInv, Books(store), IInv', NEW w \in Players, NEW l \in LobbyIds, sendProbe(w, l)
    PROVE  StepBooked
<1> DEFINE s     == maybeOpenDraw(store)
           ready == activate(s, l)
           seat  == ready.lobbies[l].seats[w]
           y     == [seat EXCEPT !.probesUsed = @ + 1, !.lastProbeBlock = block]
<1>1. /\ maybeOpenDrawOK(store) /\ seat.defendedAt = 0
      /\ ready.lobbies[l].status = "ACTIVE"
      /\ store' = [ready EXCEPT
                      !.lobbies[l] = [ready.lobbies[l] EXCEPT !.seats[w] = y,
                                                              !.validActions = @ + 1],
                      !.attacks[ready.lobbies[l].epochId] = launched(@)]
  BY DEF sendProbe, mayAct
<1>2. Sound(s) /\ Books(s) /\ l \in Ids(s)
  BY <1>1, AfterUpkeepBooked
<1>3. Sound(ready) /\ l \in Ids(ready) /\ Books(ready)
  BY <1>2, activateSound, activateBooked
<1>4. ready = activate(maybeOpenDraw(store), l)
  OBVIOUS
<1> HIDE DEF s, ready
<1>5. seat \in SoundSeat
  BY <1>3, SeatOf
<1> HIDE DEF seat
<1>6. /\ y \in SoundSeat /\ y.claimed = seat.claimed /\ y.refunded = seat.refunded
      /\ y.joined = seat.joined /\ y.paidIn = seat.paidIn
      /\ y.probesPaid = seat.probesPaid /\ y.isWinner = seat.isWinner
  <2>1. seat.probesUsed + 1 \in Nat /\ block \in Nat
    BY <1>5, SeatFields DEF IInv
  <2>2. QED
    BY <1>1, <1>5, <2>1 DEF SoundSeat, Seat
<1> HIDE DEF y
<1>7. /\ Books(store') /\ store'.globalDefensePool = ready.globalDefensePool
      /\ store'.lobbies[l].status = "ACTIVE"
      /\ store'.lobbies[l].startPrizePool = ready.lobbies[l].startPrizePool
  <2> DEFINE t == moved(ready, l, w, y)
  <2>1. /\ Books(t) /\ t.globalDefensePool = ready.globalDefensePool
        /\ t.lobbies[l].status = "ACTIVE"
        /\ t.lobbies[l].startPrizePool = ready.lobbies[l].startPrizePool
    BY <1>1, <1>3, <1>6, MoveBooked DEF seat
  <2>2. store' = t
    BY <1>1 DEF moved
  <2> HIDE DEF t
  <2>3. QED
    BY <2>1, <2>2
<1>8. QED
  BY <1>1, <1>4, <1>7, UpkeepStartMove

LEMMA submitDefenseBooked ==
    ASSUME IInv, Books(store), IInv', NEW w \in Players, NEW l \in LobbyIds, submitDefense(w, l)
    PROVE  StepBooked
<1> DEFINE s     == maybeOpenDraw(store)
           ready == activate(s, l)
           seat  == ready.lobbies[l].seats[w]
           y     == [seat EXCEPT !.defendedAt = block]
<1>1. /\ maybeOpenDrawOK(store) /\ probeClimbed(seat)
      /\ ready.lobbies[l].status = "ACTIVE"
      /\ store' = [ready EXCEPT
                      !.lobbies[l] = [ready.lobbies[l] EXCEPT !.seats[w] = y,
                                                              !.validActions = @ + 1],
                      !.attacks[ready.lobbies[l].epochId] = launched(@)]
  BY DEF submitDefense, mayAct
<1>2. Sound(s) /\ Books(s) /\ l \in Ids(s)
  BY <1>1, AfterUpkeepBooked
<1>3. Sound(ready) /\ l \in Ids(ready) /\ Books(ready)
  BY <1>2, activateSound, activateBooked
<1>4. ready = activate(maybeOpenDraw(store), l)
  OBVIOUS
<1> HIDE DEF s, ready
<1>5. seat \in SoundSeat
  BY <1>3, SeatOf
<1> HIDE DEF seat
<1>6. /\ y \in SoundSeat /\ y.claimed = seat.claimed /\ y.refunded = seat.refunded
      /\ y.joined = seat.joined /\ y.paidIn = seat.paidIn
      /\ y.probesPaid = seat.probesPaid /\ y.isWinner = seat.isWinner
  <2>1. block \in Nat
    BY DEF IInv
  <2>2. QED
    BY <1>1, <1>5, <2>1 DEF SoundSeat, Seat, probeClimbed
<1> HIDE DEF y
<1>7. /\ Books(store') /\ store'.globalDefensePool = ready.globalDefensePool
      /\ store'.lobbies[l].status = "ACTIVE"
      /\ store'.lobbies[l].startPrizePool = ready.lobbies[l].startPrizePool
  <2> DEFINE t == moved(ready, l, w, y)
  <2>1. /\ Books(t) /\ t.globalDefensePool = ready.globalDefensePool
        /\ t.lobbies[l].status = "ACTIVE"
        /\ t.lobbies[l].startPrizePool = ready.lobbies[l].startPrizePool
    BY <1>1, <1>3, <1>6, MoveBooked DEF seat
  <2>2. store' = t
    BY <1>1 DEF moved
  <2> HIDE DEF t
  <2>3. QED
    BY <2>1, <2>2
<1>8. QED
  BY <1>1, <1>4, <1>7, UpkeepStartMove

-----------------------------------------------------------------------------
(* Landing, publishing, the verdict and the expiry.                        *)

LEMMA AttackStepsBooked ==
    ASSUME IInv, Books(store), NEW e,
           completeAttack(e) \/ revealEpochAttack(e)
    PROVE  StepBooked
<1>1. SameBooks(store, store')
  BY AtHand DEF completeAttack, revealEpochAttack, reveal, SameBooks, Sound, SoundStorage
<1>2. QED
  BY <1>1, SameStep

LEMMA ScoredBooked ==
    ASSUME IInv, Books(store), IInv', NEW l \in LobbyIds, Scored(l)
    PROVE  StepBooked
<1>1. Sound(store) /\ block \in Nat /\ l \in Ids(store)
  BY AtHand
<1>2. ASSUME NEW hits, resolveLobby(l, hits) PROVE StepBooked
  BY <1>1, <1>2, resolveAllBooked, LobbyStep DEF resolveLobby
<1>3. ASSUME NEW subset, NEW hits, proveDefenses(l, subset, hits) PROVE StepBooked
  BY <1>1, <1>3, proveBooked, LobbyStep DEF proveDefenses
<1>4. CASE finalizeScoring(l)
  BY <1>1, <1>4, finalizeIfReadyBooked, LobbyStep DEF finalizeScoring
<1>5. ASSUME NEW withProofs, NEW hits, revealAndResolve(l, withProofs, hits) PROVE StepBooked
  <2> DEFINE s == maybeOpenDraw(store)
             e == lobbyOf(l).epochId
             p == published(s, e)
  <2>1. /\ maybeOpenDrawOK(store)
        /\ s.attacks[e].revealed \/ revealOK(s, e)
        /\ \/ store' = p
           \/ resolveAllOK(p, l, hits) /\ store' = resolveAll(p, l, hits)
    BY <1>5 DEF revealAndResolve
  <2>2. /\ Sound(s) /\ Books(s) /\ l \in Ids(s) /\ e \in EpochIds
        /\ s.globalDefensePool = store.globalDefensePool
        /\ s.globalDefensePool \in Int /\ Upkept(store, s) /\ Upkeep(store, s)
    BY <1>1, <2>1, AfterUpkeepBooked, LobbyOf DEF lobbyOf
  <2> HIDE DEF s, e
  <2>3. Sound(p) /\ l \in Ids(p)
    BY <2>1, <2>2, revealSound DEF published
  <2>4. SameBooks(s, p)
    BY <2>2 DEF published, reveal, SameBooks, Sound, SoundStorage
  <2> HIDE DEF p
  <2>5. Books(p)
    BY <2>2, <2>4, SameBooked
  <2>6. CASE store' = p
    BY <2>2, <2>4, <2>5, <2>6, SameStep DEF SameBooks
  <2>7. CASE resolveAllOK(p, l, hits) /\ store' = resolveAll(p, l, hits)
    <3>1. Books(store') /\ PoolStep(p, store', l)
      BY <1>1, <2>3, <2>5, <2>7, resolveAllBooked
    <3>2. PoolStep(s, store', l)
      BY <2>4, <3>1 DEF PoolStep, PoolTaken, SameBooks
    <3>3. PoolStep(store, store', l)
      BY <1>1, <2>2, <3>2, UpkeepThenStep
    <3>4. QED
      BY <3>1, <3>3, LobbyStep
  <2>8. QED
    BY <2>1, <2>6, <2>7
<1>6. QED
  BY <1>2, <1>3, <1>4, <1>5 DEF Scored

(* The round expires: what the operation held is what everybody gets back. *)
LEMMA expireAttackBooked ==
    ASSUME IInv, Books(store), IInv', NEW l \in LobbyIds, expireAttack(l)
    PROVE  StepBooked
<1> DEFINE lobby  == store.lobbies[l]
           e      == lobby.epochId
           attack == store.attacks[e]
           a == [attack EXCEPT !.expired = TRUE, !.status = "RESOLVED"]
           x == [lobby EXCEPT !.status = "CANCELLED", !.ending = "CANCELLED"]
           t == withAttack(store, e, a, store.interceptedAttacks)
           active == oneFewer(store.activeLobbies)
           u == withLobby(t, l, x, t.globalDefensePool, t.balance, active)
<1>1. Sound(store) /\ l \in Ids(store)
  BY AtHand
<1>2. /\ lobby \in SoundLobby /\ e \in EpochIds /\ attack \in SoundAttack
      /\ Linked(lobby, attack) /\ Banked(lobby)
  BY <1>1, LobbyOf DEF Books
<1>3. /\ ~attack.revealed /\ ~attack.expired
      /\ store' = [store EXCEPT !.attacks[e] = a, !.lobbies[l] = x, !.activeLobbies = active]
  BY DEF expireAttack, unpublished, lobbyOf
<1>4. store' = u
  BY <1>1, <1>3 DEF withLobby, withAttack, Sound, SoundStorage
<1> HIDE DEF lobby, attack
<1>5. a \in SoundAttack /\ a.expired
  BY <1>2, <1>3 DEF SoundAttack, Attack, AttackStatus
<1> HIDE DEF a
<1>6. Sound(t) /\ Ids(t) = Ids(store) /\ SameBooks(store, t)
  <2>1. store.interceptedAttacks \in Nat
    BY <1>1, StorageFields
  <2>2. Sound(t) /\ Ids(t) = Ids(store)
    BY <1>1, <1>2, <1>3, <1>5, <2>1, AttackReplaced DEF attack
  <2>3. SameBooks(store, t)
    BY <1>1 DEF withAttack, SameBooks, Sound, SoundStorage
  <2>4. QED
    BY <2>2, <2>3
<1> HIDE DEF t
<1>7. Books(t) /\ t.globalDefensePool = store.globalDefensePool /\ t.lobbies[l] = lobby
      /\ l \in Ids(t)
  BY <1>1, <1>6, SameBooked DEF SameBooks, lobby
<1>8. /\ x.ending = "CANCELLED" /\ x.seats = lobby.seats /\ x.creator = lobby.creator
      /\ x.entryPrice = lobby.entryPrice /\ x.creatorSettled = lobby.creatorSettled
      /\ x.intercepted = lobby.intercepted /\ SameSums(lobby, x)
  BY <1>2 DEF SoundLobby, Lobby, SameSums
<1> HIDE DEF x, active
<1>9. x \in SoundLobby
  BY <1>4, <1>6, <1>7, AtHand, WrittenSound
<1>10. lobby.ending # "COMPLETED"
  BY <1>2, <1>3 DEF Linked
<1>11. SamePayments(lobby, x) /\ x.ending \in RefundEndings
  BY <1>8 DEF SamePayments, RefundEndings
<1>12. Positive(x) /\ x.startPrizePool = lobby.startPrizePool
  BY <1>2, <1>8 DEF Banked, Positive, SameSums
<1>13. Banked(x) /\ owed(x) = owed(lobby)
  BY <1>2, <1>8, <1>9, <1>10, <1>11, <1>12, CalledOffOwes
<1>14. t.balance = t.balance + (owed(x) - owed(t.lobbies[l]))
  <2>1. t.balance \in Int /\ owed(lobby) \in Int
    BY <1>2, <1>6, <1>7, BooksTyped, OwedType
  <2>2. t.balance = t.balance + (owed(x) - owed(lobby))
    BY <1>13, <2>1
  <2>3. QED
    BY <1>7, <2>2
<1>15. QED
  BY <1>4, <1>6, <1>7, <1>8, <1>13, <1>14, WrittenBeside

-----------------------------------------------------------------------------
(* The payouts.                                                            *)

(* The creator is settled with, or the draw's own due goes home.           *)
LEMMA settleCreatorBooked ==
    ASSUME IInv, Books(store), IInv', NEW l \in LobbyIds, settleCreator(l)
    PROVE  StepBooked
<1> DEFINE lobby == store.lobbies[l]
           amount == creatorDue(lobby)
           home == lobby.creator = Game
           pool == IF home THEN store.globalDefensePool + amount ELSE store.globalDefensePool
           left == IF home THEN store.balance ELSE store.balance - amount
           x == [lobby EXCEPT !.creatorSettled = TRUE]
<1>1. Sound(store) /\ l \in Ids(store)
  BY AtHand
<1>2. lobby \in SoundLobby /\ Banked(lobby)
  BY <1>1, LobbyOf DEF Books
<1>3. /\ lobby.ending # "NONE" /\ ~lobby.creatorSettled
      /\ store' = withLobby(store, l, x, pool, left, store.activeLobbies)
  BY <1>1 DEF settleCreator, lobbyOf, withLobby, Sound, SoundStorage
<1>4. /\ amount \in Nat /\ owed(lobby) \in Int
      /\ store.globalDefensePool \in Int /\ store.balance \in Int
  BY <1>1, <1>2, CreatorDuePositive, OwedType, StorageFields, BooksTyped
<1> HIDE DEF lobby, amount
<1>5. pool \in Int /\ pool >= store.globalDefensePool
      /\ left = store.balance + (pool - store.globalDefensePool) - amount
  BY <1>4
<1> HIDE DEF pool, left, home
<1>6. /\ x.seats = lobby.seats /\ x.creator = lobby.creator /\ x.status = lobby.status
      /\ x.ending = lobby.ending /\ x.entryPrice = lobby.entryPrice /\ x.creatorSettled
      /\ x.intercepted = lobby.intercepted /\ SameSums(lobby, x)
  BY <1>2 DEF SoundLobby, Lobby, SameSums
<1> HIDE DEF x
<1>7. x \in SoundLobby
  BY <1>1, <1>3, AtHand, WrittenSound
<1>8. SamePayments(lobby, x) /\ SameEnding(lobby, x)
  BY <1>6 DEF SamePayments, SameEnding, Winners
<1>9. Banked(x) /\ owed(x) = owed(lobby) - amount
  BY <1>2, <1>3, <1>6, <1>7, <1>8, SettledOwes DEF amount
<1>10. left = store.balance + (pool - store.globalDefensePool)
                  + (owed(x) - owed(store.lobbies[l]))
  <2>1. left = store.balance + (pool - store.globalDefensePool) + (owed(x) - owed(lobby))
    BY <1>4, <1>5, <1>9
  <2>2. QED
    BY <2>1 DEF lobby
<1>11. QED
  BY <1>1, <1>3, <1>5, <1>6, <1>9, <1>10, WrittenStep DEF lobby

(* A winner takes its share, and its fees too when it is the creator.      *)
LEMMA claimRewardBooked ==
    ASSUME IInv, Books(store), IInv', NEW w \in Players, NEW l \in LobbyIds, claimReward(w, l)
    PROVE  StepBooked
<1> DEFINE lobby == store.lobbies[l]
           seat  == lobby.seats[w]
           prize == lobby.rewardPerWinner
           fee   == IF w = lobby.creator /\ ~lobby.creatorSettled THEN creatorDue(lobby) ELSE 0
           paid  == lobby.rewardsClaimed + prize
           settled == lobby.creatorSettled \/ fee > 0
           y     == [seat EXCEPT !.claimed = TRUE]
           seats == [lobby.seats EXCEPT ![w] = y]
           x     == [lobby EXCEPT !.seats = seats, !.rewardsClaimed = paid,
                                  !.creatorSettled = settled]
           left  == store.balance - prize - fee
<1>1. Sound(store) /\ l \in Ids(store)
  BY AtHand
<1>2. /\ lobby.status = "RESOLVED" /\ seat.isWinner /\ ~seat.claimed
      /\ store' = withLobby(store, l, x, store.globalDefensePool, left, store.activeLobbies)
  BY <1>1 DEF claimReward, lobbyOf, withLobby, Sound, SoundStorage
<1>3. /\ lobby \in SoundLobby /\ seat \in SoundSeat /\ Banked(lobby)
      /\ lobby.seats \in [Players -> SoundSeat]
  BY <1>1, LobbyOf, SeatOf DEF Books
<1>4. /\ fee = 0 \/ (fee = creatorDue(lobby) /\ ~lobby.creatorSettled)
      /\ settled <=> lobby.creatorSettled \/ fee > 0
  OBVIOUS
<1> HIDE DEF lobby, seat, fee
<1>5. lobby.ending = "COMPLETED"
  BY <1>2, <1>3, LobbyFields DEF OneStory
<1>6. /\ seats[w] = y
      /\ \A v \in Players : v # w => seats[v] = lobby.seats[v]
  BY <1>3
<1>7. y.claimed /\ y.isWinner = seat.isWinner
  BY <1>3 DEF SoundSeat, Seat
<1> HIDE DEF paid, settled, y, seats
<1>8. /\ x.seats = seats /\ x.creator = lobby.creator /\ x.status = lobby.status
      /\ x.ending = lobby.ending /\ x.creatorSettled = settled
      /\ x.intercepted = lobby.intercepted /\ SameSums(lobby, x)
  BY <1>3 DEF SoundLobby, Lobby, SameSums
<1> HIDE DEF x, left
<1>9. x \in SoundLobby
  BY <1>1, <1>2, AtHand, WrittenSound
<1>10. SameEnding(lobby, x)
  <2>1. Winners(x) = Winners(lobby)
    BY <1>6, <1>7, <1>8 DEF Winners, seat
  <2>2. QED
    BY <1>8, <2>1 DEF SameEnding
<1>11. /\ Banked(x) /\ owed(x) = owed(lobby) - lobby.rewardPerWinner - fee
       /\ lobby.rewardPerWinner \in Nat /\ fee \in Nat
  <2>1. /\ lobby.seats[w].isWinner /\ ~lobby.seats[w].claimed /\ x.seats[w].claimed
        /\ \A v \in Players : v # w => x.seats[v].claimed = lobby.seats[v].claimed
    BY <1>2, <1>6, <1>7, <1>8 DEF seat
  <2>2. x.creatorSettled <=> lobby.creatorSettled \/ fee > 0
    BY <1>4, <1>8
  <2>3. QED
    BY <1>3, <1>4, <1>5, <1>9, <1>10, <2>1, <2>2, RewardOwes
<1>12. left = store.balance + (owed(x) - owed(store.lobbies[l]))
  <2>1. owed(lobby) \in Int /\ store.balance \in Int
    BY <1>1, <1>3, OwedType, BooksTyped
  <2>2. left = store.balance + (owed(x) - owed(lobby))
    BY <1>11, <2>1 DEF left
  <2>3. QED
    BY <2>2 DEF lobby
<1>13. QED
  BY <1>1, <1>2, <1>8, <1>11, <1>12, WrittenBeside DEF lobby

(* What was paid into a called-off operation is taken back.                *)
LEMMA claimRefundBooked ==
    ASSUME IInv, Books(store), IInv', NEW w \in Players, NEW l \in LobbyIds, claimRefund(w, l)
    PROVE  StepBooked
<1> DEFINE lobby == store.lobbies[l]
           seat  == lobby.seats[w]
           due   == IF seat.joined /\ ~seat.refunded THEN refundDue(lobby.ending, seat) ELSE 0
           bounty == IF w = lobby.creator /\ ~lobby.creatorSettled
                     THEN creatorRefundDue(lobby) ELSE 0
           settled == lobby.creatorSettled \/ bounty > 0
           given == seat.refunded \/ due > 0
           y     == [seat EXCEPT !.refunded = given]
           seats == [lobby.seats EXCEPT ![w] = y]
           x     == [lobby EXCEPT !.seats = seats, !.creatorSettled = settled]
           left  == store.balance - due - bounty
<1>1. Sound(store) /\ l \in Ids(store)
  BY AtHand
<1>2. /\ due + bounty > 0
      /\ store' = withLobby(store, l, x, store.globalDefensePool, left, store.activeLobbies)
  BY <1>1, ZenonT(40) DEF claimRefund, lobbyOf, withLobby, Sound, SoundStorage
<1>3. /\ lobby \in SoundLobby /\ seat \in SoundSeat /\ Banked(lobby)
      /\ lobby.seats \in [Players -> SoundSeat]
  BY <1>1, LobbyOf, SeatOf DEF Books
<1>4. lobby.ending \in RefundEndings
  <2>1. ~(due = 0 /\ bounty = 0)
    <3>1. ASSUME NEW a, NEW b, a + b > 0
          PROVE  ~(a = 0 /\ b = 0)
      BY <3>1
    <3>2. due + bounty > 0
      BY <1>2
    <3> HIDE DEF due, bounty
    <3>3. QED
      BY <3>1, <3>2
  <2>2. lobby.ending \notin RefundEndings => due = 0 /\ bounty = 0
    BY DEF refundDue, creatorRefundDue
  <2>3. QED
    BY <2>1, <2>2, Zenon
<1>5. /\ due = IF seat.joined /\ ~seat.refunded THEN seat.paidIn ELSE 0
      /\ bounty = 0 \/ (bounty = lobby.startPrizePool /\ ~lobby.creatorSettled)
      /\ settled <=> lobby.creatorSettled \/ bounty > 0
      /\ given <=> seat.refunded \/ due > 0
  BY <1>4 DEF refundDue, creatorRefundDue
<1> HIDE DEF lobby, seat, due, bounty
<1>6. /\ seats[w] = y
      /\ \A v \in Players : v # w => seats[v] = lobby.seats[v]
  BY <1>3
<1>7. /\ y.refunded <=> given
      /\ y.isWinner = seat.isWinner
      /\ y.joined = seat.joined /\ y.paidIn = seat.paidIn /\ y.probesPaid = seat.probesPaid
  <2> HIDE DEF given
  <2>1. QED
    BY <1>3 DEF SoundSeat, Seat
<1> HIDE DEF settled, given, y, seats
<1>8. /\ x.seats = seats /\ x.creator = lobby.creator /\ x.status = lobby.status
      /\ x.entryPrice = lobby.entryPrice
      /\ x.ending = lobby.ending /\ x.creatorSettled = settled
      /\ x.intercepted = lobby.intercepted /\ SameSums(lobby, x)
  BY <1>3 DEF SoundLobby, Lobby, SameSums
<1> HIDE DEF x, left
<1>9. x \in SoundLobby
  BY <1>1, <1>2, AtHand, WrittenSound
<1>10. SameEnding(lobby, x) /\ SamePayments(lobby, x)
  <2>1. Winners(x) = Winners(lobby)
    BY <1>6, <1>7, <1>8 DEF Winners, seat
  <2>2. QED
    BY <1>6, <1>7, <1>8, <2>1 DEF SameEnding, SamePayments, seat
<1>11. /\ Banked(x) /\ owed(x) = owed(lobby) - due - bounty
       /\ due \in Nat /\ bounty \in Nat
  <2>1. /\ due = IF lobby.seats[w].joined /\ ~lobby.seats[w].refunded
                 THEN lobby.seats[w].paidIn ELSE 0
        /\ x.seats[w].refunded <=> lobby.seats[w].refunded \/ due > 0
        /\ \A v \in Players : v # w => x.seats[v].refunded = lobby.seats[v].refunded
    BY <1>5, <1>6, <1>7, <1>8 DEF seat
  <2>2. x.creatorSettled <=> lobby.creatorSettled \/ bounty > 0
    BY <1>5, <1>8
  <2>3. QED
    BY <1>3, <1>4, <1>5, <1>9, <1>10, <2>1, <2>2, RefundOwes
<1>12. left = store.balance + (owed(x) - owed(store.lobbies[l]))
  <2>1. owed(lobby) \in Int /\ store.balance \in Int
    BY <1>1, <1>3, OwedType, BooksTyped
  <2>2. left = store.balance + (owed(x) - owed(lobby))
    BY <1>11, <2>1 DEF left
  <2>3. QED
    BY <2>2 DEF lobby
<1>13. QED
  BY <1>1, <1>2, <1>8, <1>11, <1>12, WrittenBeside DEF lobby

-----------------------------------------------------------------------------
(* The theorems.                                                           *)

LEMMA InitBooked == Init => IInv /\ Books(store)
<1> SUFFICES ASSUME Init PROVE IInv /\ Books(store)
  OBVIOUS
<1>1. IInv
  BY InitSound
<1>2. /\ store.globalDefensePool = InitialPool /\ store.balance = InitialPool
      /\ store.protocolTreasury = 0 /\ store.lobbies = <<>>
      /\ \A e \in EpochIds : store.globalDefenseLobby[e] = 0
  BY DEF Init
<1>3. Ids(store) = {}
  <2>1. Len(<<>>) = 0
    BY EmptySeq
  <2>2. QED
    BY <1>2, <2>1 DEF Ids
<1>4. Total(dues(store), Ids(store)) = 0
  <2>1. IsFiniteSet({})
    BY FS_EmptySet
  <2>2. QED
    BY <1>3, <2>1, TotalUnfolds
<1>5. InitialPool \in Nat
  BY NumbersAssumption
<1>6. store.balance = store.protocolTreasury + store.globalDefensePool
                          + Total(dues(store), Ids(store))
  BY <1>2, <1>4, <1>5
<1>7. QED
  BY <1>1, <1>2, <1>3, <1>5, <1>6 DEF Books

LEMMA LifecycleBooked ==
    ASSUME IInv, Books(store), IInv', NEW l \in LobbyIds, Lifecycle(l)
    PROVE  StepBooked \/ UNCHANGED vars
BY RoomActionsBooked, AttackStepsBooked, expireAttackBooked, settleCreatorBooked,
   ScoredBooked DEF Lifecycle, unlockRound

LEMMA SeatedBooked ==
    ASSUME IInv, Books(store), IInv', NEW l \in LobbyIds, NEW w \in Players, Seated(w, l)
    PROVE  StepBooked
<1>1. ASSUME NEW count \in 1 .. store.params.maxProbesPerPlayer, buyProbes(w, l, count)
      PROVE  StepBooked
  <2>1. store.params.maxProbesPerPlayer \in Nat
    BY AtHand, StorageFields, ParamFields
  <2>2. count \in Nat
    BY <2>1
  <2>3. QED
    BY <1>1, <2>2, buyProbesBooked
<1>2. QED
  BY <1>1, joinLobbyBooked, leaveLobbyBooked, sendProbeBooked, submitDefenseBooked,
     claimRewardBooked, claimRefundBooked DEF Seated

LEMMA NextBooked ==
    ASSUME IInv, Books(store), [Next]_vars
    PROVE  StepBooked \/ UNCHANGED store
<1>1. IInv'
  BY NextSound
<1>2. CASE UNCHANGED vars \/ Tick
  BY <1>2 DEF vars, Tick
<1>3. CASE Governance
  BY <1>3, GovernanceBooked
<1>4. CASE openGlobalDefense
  BY <1>1, <1>4, RoomActionsBooked
<1>5. ASSUME NEW w \in Players, NEW config \in Configs, NEW d \in 0 .. MaxDeadline,
             createLobby(w, config, d)
      PROVE  StepBooked
  <2>1. d \in Nat
    BY BoundsAssumption
  <2>2. QED
    BY <1>1, <1>5, <2>1, createLobbyBooked
<1>6. ASSUME NEW e \in EpochIds, completeAttack(e) \/ revealEpochAttack(e)
      PROVE  StepBooked
  BY <1>6, AttackStepsBooked
<1>7. ASSUME NEW l \in LobbyIds, Lifecycle(l) \/ \E w \in Players : Seated(w, l)
      PROVE  StepBooked \/ UNCHANGED store
  BY <1>1, <1>7, LifecycleBooked, SeatedBooked DEF vars
<1>8. QED
  BY <1>2, <1>3, <1>4, <1>5, <1>6, <1>7 DEF Next

(* The inductive invariant: while an operation is in play it holds what    *)
(* its members and its creator put in, once it ended what is still to be   *)
(* paid, and the balance is the sum of it all.  For any number of players, *)
(* operations, prices and shares, and any order of the calls.              *)
THEOREM TheBooksAreKept == Spec => [](IInv /\ Books(store))
<1>1. Init => IInv /\ Books(store)
  BY InitBooked
<1>2. IInv /\ Books(store) /\ [Next]_vars => (IInv /\ Books(store))'
  <2> SUFFICES ASSUME IInv, Books(store), [Next]_vars
               PROVE  (IInv /\ Books(store))'
    OBVIOUS
  <2>1. IInv'
    BY NextSound
  <2>2. Books(store')
    BY NextBooked DEF StepBooked
  <2>3. QED
    BY <2>1, <2>2
<1>3. QED
  BY <1>1, <1>2, PTL DEF Spec

(* Nothing is owed below zero.                                             *)
LEMMA OwedPositive ==
    ASSUME NEW x \in SoundLobby, Banked(x)
    PROVE  owed(x) \in Nat
<1>1. /\ Total(paidBy(x), Joined(x)) \in Nat /\ Total(paidBy(x), Unrefunded(x)) \in Nat
      /\ x.startPrizePool \in Nat /\ x.rewardPerWinner \in Nat
      /\ Cardinality(Unclaimed(x)) \in Nat /\ creatorDue(x) \in Nat
  BY JoinedFinite, TotalsTyped, OwedForms, LobbyFields, UnclaimedFinite,
     CreatorDuePositive DEF Banked, Positive
<1>2. CASE x.ending = "NONE"
  BY <1>1, <1>2, OwedForms DEF Banked, InPlay
<1>3. CASE x.ending \in RefundEndings
  BY <1>1, <1>3, OwedForms
<1>4. CASE x.ending = "COMPLETED"
  <2>1. x.rewardPerWinner * Cardinality(Unclaimed(x)) \in Nat
    BY <1>1
  <2>2. owed(x) = x.rewardPerWinner * Cardinality(Unclaimed(x))
                     + IF x.creatorSettled THEN 0 ELSE creatorDue(x)
    BY <1>4, OwedForms
  <2>3. QED
    BY <1>1, <2>1, <2>2
<1>5. QED
  BY <1>2, <1>3, <1>4, LobbyFields DEF Endings, RefundEndings

(* The contract holds, to the wei, the treasury, the pool and what every   *)
(* operation still owes, and no sum of ether is ever asked for more than   *)
(* it holds.                                                               *)
THEOREM TheContractIsSolvent == Spec => []Solvent
<1>1. ASSUME IInv, Books(store) PROVE Solvent
  <2>1. /\ Sound(store) /\ LobbyIds = Ids(store) /\ IsFiniteSet(Ids(store))
        /\ store.protocolTreasury \in Nat /\ store.globalDefensePool \in Int
        /\ store.globalDefensePool >= 0
    BY <1>1, AtHand, BooksTyped, StorageFields DEF Books
  <2>2. ASSUME NEW l \in Ids(store)
        PROVE  /\ store.lobbies[l] \in SoundLobby /\ Banked(store.lobbies[l])
               /\ owed(store.lobbies[l]) \in Nat
               /\ creatorDue(store.lobbies[l]) \in Nat
    BY <1>1, <2>1, LobbyOf, OwedPositive, CreatorDuePositive DEF Books
  <2>3. Total(dues(store), Ids(store)) \in Nat
    <3>1. \A l \in Ids(store) : dues(store)[l] \in Nat
      BY <2>2 DEF dues
    <3>2. QED
      BY <2>1, <3>1, TotalNonNegative
  <2>4. store.balance = store.protocolTreasury + store.globalDefensePool
                           + Total(dues(store), Ids(store))
    BY <1>1 DEF Books
  <2>5. nothingOverdrawn
    <3>1. store.balance >= 0
      BY <2>1, <2>3, <2>4
    <3>2. ASSUME NEW l \in LobbyIds
          PROVE  /\ lobbyOf(l).entryFeesCollected >= 0 /\ lobbyOf(l).creatorFeeAccrued >= 0
                 /\ lobbyOf(l).rewardPool >= 0 /\ creatorDue(lobbyOf(l)) >= 0
      BY <2>1, <2>2 DEF lobbyOf, Banked, Positive
    <3>3. QED
      BY <2>1, <3>1, <3>2 DEF nothingOverdrawn
  <2>6. QED
    BY <2>1, <2>4, <2>5, DuesTotal DEF Solvent
<1>2. QED
  BY <1>1, TheBooksAreKept, PTL

(* The pool falls only when a draw starts, and then all of it becomes that *)
(* room's bounty, whatever upkeep rode on the same transaction.            *)
THEOREM ThePoolIsTakenWhole == Spec => PoolFallsOnlyAtAStart
<1>1. ASSUME IInv, Books(store), [Next]_vars
      PROVE  [store'.globalDefensePool < store.globalDefensePool =>
                \E l \in draws : /\ lobbyOf(l).status = "OPEN"
                                 /\ lobbyOf(l)'.status # "OPEN"
                                 /\ lobbyOf(l)'.startPrizePool = store.globalDefensePool]_vars
  <2> SUFFICES ASSUME store'.globalDefensePool < store.globalDefensePool
               PROVE  \E l \in draws : /\ lobbyOf(l).status = "OPEN"
                                       /\ lobbyOf(l)'.status # "OPEN"
                                       /\ lobbyOf(l)'.startPrizePool = store.globalDefensePool
    OBVIOUS
  <2>1. store.globalDefensePool \in Int /\ store'.globalDefensePool \in Int
    BY <1>1, NextSound, AtHand, StorageFields
  <2>2. PICK l \in LobbyIds : PoolTaken(store, store', l)
    BY <1>1, <2>1, NextBooked DEF StepBooked
  <2>3. QED
    BY <2>2 DEF PoolTaken, draws, lobbyOf
<1>2. QED
  BY <1>1, TheBooksAreKept, PTL DEF Spec, PoolFallsOnlyAtAStart

-----------------------------------------------------------------------------
(* The upkeep of the draw.                                                 *)

(* Neither the rules in force nor the bookings of the draws are written.   *)
SameCalendar(s, t) ==
    /\ t.params = s.params /\ t.interval = s.interval
    /\ t.globalDefenseLobby = s.globalDefenseLobby

StorageNames ==
    { "params", "interval", "paused", "protocolTreasury", "globalDefensePool",
      "balance", "activeLobbies", "interceptedAttacks", "lobbies", "attacks",
      "globalDefenseLobby" }

LEMMA StorageNamed ==
    ASSUME NEW s, Sound(s)
    PROVE  DOMAIN s = StorageNames
BY DEF Sound, SoundStorage, StorageNames

LEMMA payoutUnplayedCalendar ==
    ASSUME NEW s, DOMAIN s = StorageNames, NEW l
    PROVE  SameCalendar(s, payoutUnplayed(s, l))
<1>1. ASSUME NEW r, NEW pool, NEW left
      PROVE  SameCalendar(s, [s EXCEPT !.lobbies = r, !.globalDefensePool = pool,
                                       !.balance = left])
  BY DEF SameCalendar, StorageNames
<1>2. QED
  BY <1>1 DEF payoutUnplayed

LEMMA closeUnfilledCalendar ==
    ASSUME NEW s, Sound(s), NEW l
    PROVE  SameCalendar(s, closeUnfilled(s, l))
<1>1. ASSUME NEW r, NEW active
      PROVE  LET t == [s EXCEPT !.lobbies = r, !.activeLobbies = active] IN
             DOMAIN t = StorageNames /\ SameCalendar(s, t)
  BY StorageNamed DEF SameCalendar, StorageNames
<1> DEFINE r == [s.lobbies EXCEPT ![l] = [s.lobbies[l] EXCEPT !.status = "CANCELLED",
                                                              !.ending = "UNPLAYED"]]
           active == oneFewer(s.activeLobbies)
           ended == [s EXCEPT !.lobbies = r, !.activeLobbies = active]
<1>2. closeUnfilled(s, l) = payoutUnplayed(ended, l)
  BY DEF closeUnfilled
<1> HIDE DEF r, active
<1>3. DOMAIN ended = StorageNames /\ SameCalendar(s, ended)
  BY <1>1
<1> HIDE DEF ended
<1>4. SameCalendar(ended, payoutUnplayed(ended, l))
  BY <1>3, payoutUnplayedCalendar
<1>5. QED
  BY <1>2, <1>3, <1>4 DEF SameCalendar

LEMMA maybeCloseDrawCalendar ==
    ASSUME NEW s, Sound(s)
    PROVE  SameCalendar(s, maybeCloseDraw(s))
BY closeUnfilledCalendar DEF maybeCloseDraw, SameCalendar

-----------------------------------------------------------------------------
LEMMA leftoverIsPaidOut ==
    ASSUME IInv, Books(store), Unhindered
    PROVE  maybeCloseDrawOK(store)
<1> DEFINE l == unfilledPastDraw(store)
           lobby == store.lobbies[l]
<1> SUFFICES ASSUME l # 0
             PROVE  closeUnfilledOK(store, l)
  BY DEF maybeCloseDrawOK
<1>1. lobby.creator = Game
  <2> DEFINE e == lastDrawEpoch(block, store.interval, store.params.epochBlocks, Genesis)
  <2>1. e \in EpochIds
    BY AtHand, epochNowFacts DEF unfilledPastDraw
  <2>2. l = store.globalDefenseLobby[e]
    BY DEF unfilledPastDraw
  <2>3. QED
    BY <2>1, <2>2 DEF Books
<1>2. \A w \in unpaid(lobby) : w \notin Refusers
  BY DEF Unhindered, lobbyOf
<1>3. Game \notin Refusers
  BY PlayersAssumption
<1>4. QED
  BY <1>1, <1>2, <1>3 DEF closeUnfilledOK, payoutUnplayedOK, payable

LEMMA UpkeepRuns ==
    ASSUME IInv, Books(store)
    PROVE  OrdinaryWritesGoThrough
<1> SUFFICES ASSUME Unhindered
             PROVE  maybeOpenDrawOK(store)
  BY DEF OrdinaryWritesGoThrough
<1> DEFINE closed == maybeCloseDraw(store)
<1>1. Sound(store) /\ block \in Nat /\ maybeCloseDrawOK(store)
  BY AtHand, leftoverIsPaidOut
<1>2. Sound(closed) /\ Books(closed) /\ SameCalendar(store, closed)
  BY <1>1, maybeCloseDrawSound, maybeCloseDrawBooked, maybeCloseDrawCalendar DEF Upkept
<1> HIDE DEF closed
<1>3. closed.interval # 0 => drawEpoch(closed) < U32
  BY <1>2 DEF SameCalendar, drawEpoch, Unhindered
<1>4. topUpDraw(closed) = closed
  BY <1>1, <1>2, <1>3, topUpDrawResting
<1>5. drawDue(closed) => openDrawOK(closed)
  BY <1>1, <1>2, <1>3, drawFlies DEF drawDue, openDrawOK
<1>6. QED
  BY <1>1, <1>3, <1>4, <1>5 DEF maybeOpenDrawOK, closed

(* The upkeep of the draw never refuses an ordinary write: a draw that is  *)
(* due can be opened, and a leftover room is the protocol's own, so only a *)
(* member who refuses his money back, or the last epoch number, can stop   *)
(* it.                                                                     *)
THEOREM TheUpkeepNeverRefuses == Spec => []OrdinaryWritesGoThrough
<1>1. IInv /\ Books(store) => OrdinaryWritesGoThrough
  BY UpkeepRuns
<1>2. QED
  BY <1>1, TheBooksAreKept, PTL
=============================================================================
