------------------------------ MODULE Settlement ----------------------------
(***************************************************************************)
(* Who is owed what once an operation has stopped moving                   *)
(* (contracts/src/libraries/Settlement.sol).  Every amount branches on the *)
(* ending, never on the status.                                            *)
(***************************************************************************)
EXTENDS AegylaxStorage, FiniteSetsExt

RefundEndings == {"UNPLAYED", "CANCELLED"}

authorCommission(entryPrice, creatorFeeBps) == (entryPrice * creatorFeeBps) \div BPS

joinPayment(entryPrice, creatorFeeBps) ==
    entryPrice + authorCommission(entryPrice, creatorFeeBps)

refundDue(ending, seat) == IF ending \in RefundEndings THEN seat.paidIn ELSE 0

(* A mutant: only the protocol's own failure sends the bounty home.        *)
FaultyCreatorRefundDue(lobby) ==
    IF lobby.ending = "CANCELLED" THEN lobby.startPrizePool ELSE 0

creatorRefundDue(lobby) ==
    IF lobby.ending \in RefundEndings THEN lobby.startPrizePool ELSE 0

creatorDue(lobby) ==
    CASE lobby.ending \in RefundEndings -> creatorRefundDue(lobby)
      [] lobby.ending = "COMPLETED" ->
             lobby.creatorFeeAccrued
             + IF lobby.intercepted
               THEN lobby.rewardPool - lobby.rewardPerWinner * Cardinality(Winners(lobby))
               ELSE 0
      [] OTHER -> 0

(* _pay: a transfer of nothing is skipped, a refused one reverts the call. *)
payable(who, amount) == amount = 0 \/ who \notin Refusers

(* The defenders payoutUnplayed still has to pay.                          *)
unpaid(lobby) ==
    {w \in Joined(lobby) : ~lobby.seats[w].refunded /\ lobby.seats[w].paidIn > 0}

(* What a set of defenders paid in, together.                              *)
paidInBy(lobby, defenders) ==
    MapThenSumSet(LAMBDA w : lobby.seats[w].paidIn, defenders)

payoutUnplayedOK(s, l) ==
    LET lobby == s.lobbies[l] IN
    /\ \A w \in unpaid(lobby) : payable(w, lobby.seats[w].paidIn)
    /\ ~lobby.creatorSettled => payable(lobby.creator, lobby.startPrizePool)

(* Every defender takes back paidIn; the bounty goes to the creator, or to *)
(* the pool when the game itself is the creator.                           *)
payoutUnplayed(s, l) ==
    LET lobby  == s.lobbies[l]
        due    == paidInBy(lobby, unpaid(lobby))
        bounty == IF lobby.creatorSettled THEN 0 ELSE lobby.startPrizePool
        home   == lobby.creator = Game
        seats  == [w \in Players |->
                      IF w \in unpaid(lobby)
                      THEN [lobby.seats[w] EXCEPT !.refunded = TRUE]
                      ELSE lobby.seats[w]]
    IN  [s EXCEPT !.lobbies[l] =
                      [lobby EXCEPT !.creatorSettled = TRUE, !.seats = seats],
                  !.globalDefensePool = IF home THEN @ + bounty ELSE @,
                  !.balance = @ - due - IF home THEN 0 ELSE bounty]
=============================================================================
