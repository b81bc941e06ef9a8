------------------------ MODULE ClockAndFaucetProofs ------------------------
(***************************************************************************)
(* Theorems about the two parts that stand apart from the game.  The       *)
(* launch rule is the first boundary with room, for every grid, every      *)
(* deadline and every width of the epoch number.  The faucet pays once a   *)
(* cooldown and breaks no date, for any number of wallets and devices, any *)
(* cooldown, any lag shorter than it, and any number of faults.            *)
(***************************************************************************)
EXTENDS EpochSchedule, FaucetProps, SumProofs

-----------------------------------------------------------------------------
(* The launch rule.                                                        *)

LEMMA epochOfType ==
    ASSUME NEW b \in Nat, NEW epochBlocks \in Nat, NEW genesis \in Nat
    PROVE  epochOf(b, epochBlocks, genesis) \in EpochIds
BY DivFacts, U32Assumption DEF epochOf, EpochIds

LEMMA ScheduleTyped == ScheduleSpec => []ScheduleTypeOK
<1>1. ScheduleInit => ScheduleTypeOK
  BY GridsAssumption DEF ScheduleInit, ScheduleTypeOK
<1>2. ScheduleTypeOK /\ [NextDeadline]_scheduleVars => ScheduleTypeOK'
  BY DEF ScheduleTypeOK, NextDeadline, scheduleVars
<1>3. QED
  BY <1>1, <1>2, PTL DEF ScheduleSpec

(* minGap asks for at least one block and at most a whole epoch.           *)
LEMMA minGapBounds ==
    ASSUME NEW n \in Nat \ {0}
    PROVE  minGap(n) \in 1 .. n
BY DEF minGap, MinLaunchRemainingNum, MinLaunchRemainingDen

(* The operation flies in the first epoch that leaves it 90% of an epoch   *)
(* after applications close.                                               *)
LEMMA FirstRoomyEpochHolds ==
    ASSUME ScheduleTypeOK
    PROVE  FirstRoomyEpoch
<1> SUFFICES ASSUME representable
             PROVE  /\ launch \in EpochIds \ {0}
                    /\ roomy(launch)
                    /\ \A e \in EpochIds \ {0} : roomy(e) => launch <= e
  BY DEF FirstRoomyEpoch
<1> DEFINE n == grid.epochBlocks
           g == grid.genesis
           gap == minGap(n)
           q == epochOf(deadline, n, g)
<1>1. n \in Nat \ {0} /\ g \in Nat /\ deadline \in Nat
  BY DEF ScheduleTypeOK
<1>2. gap \in Nat /\ 1 <= gap /\ gap <= n
  BY <1>1, minGapBounds
<1>3. \A e : boundary(e) = g + e * n
  BY DEF boundary, epochStart
<1>4. \A e \in Nat : roomy(e) <=> g + e * n - deadline >= gap
  BY <1>1, <1>2, <1>3 DEF roomy
<1>5. launch = IF \/ g + (q + 1) * n <= deadline
                  \/ g + (q + 1) * n - deadline < gap
               THEN (q + 1 + 1) % U32 ELSE q + 1
  <2>1. launch = launchEpochOf(deadline, n, g)
    BY DEF launch
  <2>2. q = epochOf(deadline, n, g) /\ gap = minGap(n)
    OBVIOUS
  <2>3. q \in EpochIds
    BY <1>1, epochOfType
  <2> HIDE DEF n, g, q, gap
  <2>4. QED
    BY <1>1, <1>2, <2>1, <2>2, <2>3, U32Assumption DEF launchEpochOf, epochStart, EpochIds
<1>6. CASE deadline < g
  <2>1. q = 0
    BY <1>6 DEF epochOf
  <2> HIDE DEF n, g, gap, q
  <2>2. launch = 1
    BY <1>1, <1>2, <1>5, <1>6, <2>1
  <2>3. roomy(1) /\ 1 \in EpochIds \ {0}
    BY <1>1, <1>2, <1>4, <1>6, U32Assumption DEF EpochIds
  <2>4. QED
    BY <2>2, <2>3, U32Assumption DEF EpochIds
<1>7. CASE deadline >= g
  <2> DEFINE d == deadline - g
             k == d \div n
  <2>1. d \in Nat
    BY <1>1, <1>7
  <2>2. k \in Nat /\ k * n <= d /\ d < k * n + n
    BY <1>1, <2>1, DivFacts
  <2>3. d < (U32 - 2) * n
    BY <1>1, U32Assumption DEF representable
  <2> HIDE DEF n, g, gap, d, k
  <2>4. k < U32 - 2
    <3>1. k * n \in Nat /\ (U32 - 2) * n \in Int
      BY <1>1, <2>2, U32Assumption
    <3>2. k * n < (U32 - 2) * n
      BY <2>1, <2>2, <2>3, <3>1
    <3>3. QED
      BY <1>1, <2>2, <3>2, ProductsOrder, U32Assumption
  <2>5. q = k
    <3>1. q = k % U32
      BY <1>1, <1>7 DEF epochOf, q, k, d, n, g
    <3>2. QED
      BY <2>2, <2>4, <3>1, U32Assumption
  <2> HIDE DEF q
  <2>6. (q + 1) * n = k * n + n /\ (q + 2) * n = k * n + n + n /\ k * n \in Nat
    BY <1>1, <2>2, <2>5
  <2>7. g = deadline - d
    BY <1>1 DEF d
  <2>8. ASSUME NEW e \in EpochIds \ {0}, roomy(e)
        PROVE  q + 1 <= e
    <3>1. e \in Nat /\ e * n \in Nat
      BY <1>1, ProductsOfNats, U32Assumption DEF EpochIds
    <3>2. k * n < e * n
      BY <1>1, <1>2, <1>4, <2>1, <2>2, <2>6, <2>7, <2>8, <3>1
    <3>3. QED
      BY <1>1, <2>2, <2>5, <3>1, <3>2, ProductsOrder
  <2>9. CASE k * n + n - d >= gap
    <3>1. launch = q + 1
      BY <1>1, <1>2, <1>5, <2>1, <2>2, <2>6, <2>7, <2>9
    <3>2. roomy(q + 1) /\ q + 1 \in EpochIds \ {0}
      BY <1>1, <1>2, <1>4, <2>1, <2>2, <2>4, <2>5, <2>6, <2>7, <2>9, U32Assumption
         DEF EpochIds
    <3>3. QED
      BY <2>8, <3>1, <3>2
  <2>10. CASE k * n + n - d < gap
    <3>1. launch = (q + 1 + 1) % U32
      BY <1>1, <1>2, <1>5, <2>1, <2>2, <2>6, <2>7, <2>10
    <3>2. launch = q + 2
      BY <2>2, <2>4, <2>5, <3>1, U32Assumption
    <3>3. roomy(q + 2) /\ q + 2 \in EpochIds \ {0}
      BY <1>1, <1>2, <1>4, <2>1, <2>2, <2>4, <2>5, <2>6, <2>7, <2>10, U32Assumption
         DEF EpochIds
    <3>4. ~roomy(q + 1)
      BY <1>1, <1>2, <1>4, <2>1, <2>2, <2>5, <2>6, <2>7, <2>10
    <3>5. ASSUME NEW e \in EpochIds \ {0}, roomy(e)
          PROVE  q + 2 <= e
      BY <2>2, <2>5, <2>8, <3>4, <3>5, U32Assumption DEF EpochIds
    <3>6. QED
      BY <3>2, <3>3, <3>5
  <2>11. QED
    BY <1>1, <1>2, <2>1, <2>6, <2>9, <2>10
<1>8. QED
  BY <1>1, <1>6, <1>7

(* An operation always flies in the first epoch that leaves it its share   *)
(* of an epoch after applications close.                                   *)
THEOREM LaunchIsFirstRoomyEpoch == ScheduleSpec => []FirstRoomyEpoch
<1>1. ScheduleTypeOK => FirstRoomyEpoch
  BY FirstRoomyEpochHolds
<1>2. QED
  BY <1>1, ScheduleTyped, PTL

(* The contract's 32-bit unsigned grid and the browser's unbounded one are *)
(* one grid from the genesis block on: the share of an epoch they demand,  *)
(* the deadline's epoch and so the launch come out the same.               *)
LEMMA BothCopiesAgreeHolds ==
    ASSUME ScheduleTypeOK
    PROVE  BothCopiesAgree
<1> SUFFICES ASSUME representable, deadline >= grid.genesis
             PROVE  launch = Browser!launchEpochOf(deadline, grid.epochBlocks, grid.genesis)
  BY DEF BothCopiesAgree
<1> DEFINE n == grid.epochBlocks
           g == grid.genesis
           gap == minGap(n)
           k == (deadline - g) \div n
           next == g + (k + 1) * n
<1>1. n \in Nat \ {0} /\ g \in Nat /\ deadline \in Nat /\ deadline - g \in Nat
  BY DEF ScheduleTypeOK
<1>2. /\ Browser!getEpochFromBlock(deadline, n, g) = k
      /\ Browser!getEpochStartBlock(k + 1, n, g) = next
  BY DEF Browser!getEpochFromBlock, Browser!getEpochStartBlock
<1>3. Browser!minLaunchGap(n) = gap
  <2>1. n * 90 \in Nat /\ (n * 90) \div 100 \in Nat
    BY <1>1
  <2>2. QED
    BY <2>1 DEF Browser!minLaunchGap, Browser!atLeastOne, minGap,
                MinLaunchRemainingNum, MinLaunchRemainingDen
<1>4. Browser!launchEpochOf(deadline, n, g) = IF next - deadline < gap THEN k + 2 ELSE k + 1
  <2>1. Browser!launchEpochOf(deadline, n, g)
          = IF next - deadline < gap THEN k + 1 + 1 ELSE k + 1
    BY <1>2, <1>3 DEF Browser!launchEpochOf
  <2>2. k \in Nat
    BY <1>1, DivFacts
  <2> HIDE DEF n, g, gap, k, next
  <2>3. QED
    BY <2>1, <2>2
<1>5. k \in Nat /\ k * n <= deadline - g /\ deadline - g < k * n + n
  BY <1>1, DivFacts
<1>6. deadline - g < (U32 - 2) * n
  BY <1>1, U32Assumption DEF representable
<1>7. gap \in Nat /\ 1 <= gap /\ gap <= n
  BY <1>1, minGapBounds
<1>8. epochOf(deadline, n, g) = k % U32
  BY <1>1 DEF epochOf
<1>9. epochOf(deadline, n, g) \in EpochIds /\ gap = minGap(n)
  BY <1>1, epochOfType
<1>10. launch = launchEpochOf(deadline, n, g)
  BY DEF launch
<1> HIDE DEF n, g, gap, k
<1>11. k < U32 - 2
  <2>1. k * n \in Nat /\ (U32 - 2) * n \in Int
    BY <1>1, <1>5, U32Assumption
  <2>2. k * n < (U32 - 2) * n
    BY <1>1, <1>5, <1>6, <2>1
  <2>3. QED
    BY <1>1, <1>5, <2>2, ProductsOrder, U32Assumption
<1>12. epochOf(deadline, n, g) = k
  BY <1>5, <1>8, <1>11, U32Assumption
<1>13. (k + 1) * n = k * n + n /\ k * n \in Nat
  BY <1>1, <1>5
<1>14. launchEpochOf(deadline, n, g) = IF next - deadline < gap THEN (k + 1 + 1) % U32 ELSE k + 1
  <2>1. next = g + (k + 1) * n /\ ~(next <= deadline)
    BY <1>1, <1>5, <1>13
  <2> HIDE DEF next
  <2>2. QED
    BY <1>1, <1>5, <1>7, <1>9, <1>12, <2>1, U32Assumption DEF launchEpochOf, epochStart
<1>15. (k + 1 + 1) % U32 = k + 2
  BY <1>5, <1>11, U32Assumption
<1> HIDE DEF next
<1>16. QED
  BY <1>4, <1>10, <1>14, <1>15 DEF n, g

(* The browser names the launch epoch the contract will fly, for every     *)
(* grid, every deadline from the genesis block on and every width of the   *)
(* epoch number that is not yet spent.                                     *)
THEOREM TheBrowserNamesTheLaunch == ScheduleSpec => []BothCopiesAgree
<1>1. ScheduleTypeOK => BothCopiesAgree
  BY BothCopiesAgreeHolds
<1>2. QED
  BY <1>1, ScheduleTyped, PTL

-----------------------------------------------------------------------------
(* The faucet.                                                             *)

Ages == 0 .. Never
Waits == 0 .. Cooldown

Transfers ==
    [hash : Hashes, to : Wallets, age : Nat, indexed : BOOLEAN, forgotten : BOOLEAN]

Requests ==
    [ from : Devices \cup {Nobody}, to : Wallets, wait : 0 .. NoDate,
      pc : {"asked", "answered"} \cup Awaits ]

(* The part the payments depend on.                                        *)
ServiceTypeOK ==
    /\ sent \subseteq Transfers
    /\ recent \in [Wallets -> Ages]
    /\ requests \subseteq Requests

(* One request of a wallet is served at a time, marked, and only while     *)
(* nothing is remembered of the wallet.                                    *)
ServesOne ==
    \A r \in requests : r.pc \in Awaits =>
        /\ r.to \in inFlight /\ recent[r.to] = Never
        /\ \A s \in requests : s.pc \in Awaits /\ s.to = r.to => s = r

beingSent(w) == \E r \in requests : r.to = w /\ r.pc = "sending"

spends(x) == x.to \notin Deaf /\ x.age <= Cooldown /\ ~x.forgotten

(* What spends a wallet's day is known to the explorer, to this process,   *)
(* or is going out now.                                                    *)
SomebodyKnows ==
    \A x \in sent : spends(x) => \/ x.indexed
                                 \/ recent[x.to] <= x.age
                                 \/ beingSent(x.to)

(* Past the explorer's answer there is nothing left that spends the day.   *)
ChecksWereMade ==
    \A r \in requests : r.pc = "balance" => \A x \in sent : x.to = r.to => ~spends(x)

PayInv == ServiceTypeOK /\ ServesOne /\ SomebodyKnows /\ ChecksWereMade /\ OnceADay

-----------------------------------------------------------------------------
Hooks == [wallet : Wallets, sending : BOOLEAN, wait : Waits, strayed : BOOLEAN]
Situations == [owns : [Devices -> SUBSET Wallets], faults : Nat]

PageTypeOK ==
    /\ device \in [Devices -> Hooks]
    /\ stored \in [Devices -> [Wallets -> Waits]]
    /\ visit \in Situations

(* A transfer that is still going out is not older than the lag.           *)
FreshWhileSending ==
    \A r \in requests : r.pc = "sending" => \E x \in sent : x.to = r.to /\ x.age <= Lag

StoredIsEarned == \A d \in Devices, w \in Wallets : earned(w, stored[d][w])

WornIsStored ==
    \A d \in Devices : ~device[d].strayed => device[d].wait = stored[d][device[d].wallet]

WaitInv ==
    /\ ServiceTypeOK /\ PageTypeOK
    /\ FreshWhileSending /\ refusesTheDue /\ toldToWait /\ StoredIsEarned /\ WornIsStored

-----------------------------------------------------------------------------
(* The payments.  One lemma for each action that touches them.             *)

LEMMA Constants == Cooldown \in Nat /\ Lag \in Nat /\ Lag < Cooldown
BY FaucetAssumption

LEMMA TickKeepsPayInv ==
    ASSUME PayInv, Tick
    PROVE  PayInv'
<1> USE Constants DEF Never, NoDate
<1>1. \A x \in sent' : \E y \in sent : x = [y EXCEPT !.age = @ + 1]
  BY DEF Tick
<1>2. \A r \in requests' : \E s \in requests : r = [s EXCEPT !.wait = shorter(@)]
  BY DEF Tick
<1>3. \A s \in requests : [s EXCEPT !.wait = shorter(@)] \in requests'
  BY DEF Tick
<1>4. ServiceTypeOK'
  <2>1. sent' \subseteq Transfers
    BY <1>1 DEF PayInv, ServiceTypeOK, Transfers
  <2>2. recent' \in [Wallets -> Ages]
    <3>1. \A w \in Wallets : recent[w] \in Ages
      BY DEF PayInv, ServiceTypeOK
    <3>2. \A w \in Wallets : older(recent[w]) \in Ages
      <4> SUFFICES ASSUME NEW w \in Wallets
                   PROVE  older(recent[w]) \in Ages
        OBVIOUS
      <4>1. recent[w] \in 0 .. Cooldown + 1
        BY <3>1 DEF Ages
      <4>2. CASE recent[w] = Cooldown + 1
        BY <4>2 DEF older, Ages
      <4>3. CASE recent[w] # Cooldown + 1
        BY <4>1, <4>3 DEF older, Ages
      <4> QED BY <4>2, <4>3
    <3>3. recent' = [w \in Wallets |-> older(recent[w])]
      BY DEF Tick
    <3> QED BY <3>2, <3>3, Zenon
  <2>3. requests' \subseteq Requests
    BY <1>2 DEF PayInv, ServiceTypeOK, Requests, shorter
  <2> QED BY <2>1, <2>2, <2>3 DEF ServiceTypeOK
<1>5. \A w \in Wallets : recent'[w] = older(recent[w])
  BY DEF Tick
<1>6. \A s \in requests : LET r == [s EXCEPT !.wait = shorter(@)] IN r.pc = s.pc /\ r.to = s.to
  BY DEF PayInv, ServiceTypeOK, Requests
<1>7. ServesOne'
  <2> SUFFICES ASSUME NEW r \in requests', r.pc \in Awaits
               PROVE  /\ r.to \in inFlight' /\ recent'[r.to] = Never
                      /\ \A s \in requests' : s.pc \in Awaits /\ s.to = r.to => s = r
    BY DEF ServesOne
  <2>1. PICK q \in requests : r = [q EXCEPT !.wait = shorter(@)]
    BY <1>2
  <2>2. q.to \in inFlight /\ recent[q.to] = Never /\ q.to \in Wallets
    BY <2>1, <1>6 DEF PayInv, ServesOne, ServiceTypeOK, Requests
  <2>3. ASSUME NEW s \in requests', s.pc \in Awaits, s.to = r.to
        PROVE  s = r
    <3>1. PICK t \in requests : s = [t EXCEPT !.wait = shorter(@)]
      BY <1>2
    <3> QED BY <2>1, <2>3, <3>1, <1>6 DEF PayInv, ServesOne
  <2> QED BY <2>1, <2>2, <2>3, <1>5, <1>6 DEF Tick, older
<1>8. \A w : beingSent(w) => beingSent(w)'
  BY <1>3, <1>6 DEF beingSent
<1>9. SomebodyKnows'
  <2> SUFFICES ASSUME NEW x \in sent', spends(x)
               PROVE  x.indexed \/ recent'[x.to] <= x.age \/ beingSent(x.to)'
    BY DEF SomebodyKnows, spends
  <2>1. PICK y \in sent : x = [y EXCEPT !.age = @ + 1]
    BY <1>1
  <2>2. y \in Transfers
    BY DEF PayInv, ServiceTypeOK
  <2>3. /\ x.to = y.to /\ x.indexed = y.indexed /\ x.forgotten = y.forgotten
        /\ x.age = y.age + 1 /\ y.age \in Nat /\ y.to \in Wallets
    BY <2>1, <2>2 DEF Transfers
  <2>4. y.indexed \/ recent[y.to] <= y.age \/ beingSent(y.to)
    BY <2>3 DEF spends, PayInv, SomebodyKnows
  <2>5. recent[y.to] \in Ages
    BY <2>3 DEF PayInv, ServiceTypeOK
  <2> QED BY <2>3, <2>4, <2>5, <1>5, <1>8 DEF older, Ages, spends
<1>10. ChecksWereMade'
  <2> SUFFICES ASSUME NEW r \in requests', r.pc = "balance", NEW x \in sent', x.to = r.to
               PROVE  ~spends(x)
    BY DEF ChecksWereMade, spends
  <2>1. PICK q \in requests : r = [q EXCEPT !.wait = shorter(@)]
    BY <1>2
  <2>2. PICK y \in sent : x = [y EXCEPT !.age = @ + 1]
    BY <1>1
  <2>3. y \in Transfers
    BY DEF PayInv, ServiceTypeOK
  <2>4. x.to = y.to /\ x.forgotten = y.forgotten /\ x.age = y.age + 1 /\ y.age \in Nat
    BY <2>2, <2>3 DEF Transfers
  <2> QED BY <2>1, <2>4, <1>6 DEF PayInv, ChecksWereMade, spends
<1>11. OnceADay'
  <2> SUFFICES ASSUME NEW x \in sent', NEW y \in sent', x # y, x.to = y.to, x.to \notin Deaf,
                      x.age <= Cooldown, y.age <= x.age
               PROVE  x.forgotten \/ (x.age = y.age /\ y.forgotten)
    BY DEF OnceADay
  <2>1. PICK u \in sent : x = [u EXCEPT !.age = @ + 1]
    BY <1>1
  <2>2. PICK v \in sent : y = [v EXCEPT !.age = @ + 1]
    BY <1>1
  <2>3. u \in Transfers /\ v \in Transfers
    BY DEF PayInv, ServiceTypeOK
  <2>4. /\ x.to = u.to /\ x.forgotten = u.forgotten /\ x.age = u.age + 1 /\ u.age \in Nat
        /\ y.to = v.to /\ y.forgotten = v.forgotten /\ y.age = v.age + 1 /\ v.age \in Nat
    BY <2>1, <2>2, <2>3 DEF Transfers
  <2> QED BY <2>1, <2>2, <2>4 DEF PayInv, OnceADay
<1> QED BY <1>4, <1>7, <1>9, <1>10, <1>11 DEF PayInv

(* What is served stays as it is.                                          *)
LEMMA OthersKeepPayInv ==
    ASSUME PayInv, UNCHANGED <<sent, recent, inFlight>>, requests' \subseteq Requests,
           \A r \in requests' : r.pc \in Awaits => r \in requests,
           \A r \in requests : r.pc \in Awaits => r \in requests'
    PROVE  PayInv'
<1>1. ServiceTypeOK'
  BY DEF PayInv, ServiceTypeOK
<1>2. ServesOne'
  BY DEF PayInv, ServesOne
<1>3. \A w : beingSent(w) => beingSent(w)'
  BY DEF beingSent, Awaits
<1>4. SomebodyKnows'
  BY <1>3 DEF PayInv, SomebodyKnows, spends
<1>5. ChecksWereMade'
  BY DEF PayInv, ChecksWereMade, spends, Awaits
<1>6. OnceADay'
  BY DEF PayInv, OnceADay
<1> QED BY <1>1, <1>2, <1>4, <1>5, <1>6 DEF PayInv

LEMMA PageKeepsPayInv ==
    ASSUME PayInv, PageTypeOK, NEW d \in Devices,
           Press(d) \/ Answered(d) \/ SwitchWallet(d)
    PROVE  PayInv'
<1>1. CASE Press(d)
  <2>1. [from |-> d, to |-> device[d].wallet, pc |-> "asked", wait |-> NoDate] \in Requests
    BY Constants DEF PageTypeOK, Hooks, Requests, NoDate
  <2> QED BY <1>1, <2>1, OthersKeepPayInv DEF Press, PayInv, ServiceTypeOK, Awaits
<1>2. CASE Answered(d)
  BY <1>2, OthersKeepPayInv DEF Answered, PayInv, ServiceTypeOK, Awaits
<1>3. CASE SwitchWallet(d)
  BY <1>3, OthersKeepPayInv DEF SwitchWallet, PayInv, ServiceTypeOK
<1> QED BY <1>1, <1>2, <1>3

LEMMA ReloadKeepsPayInv ==
    ASSUME PayInv, NEW d \in Devices, Reload(d)
    PROVE  PayInv'
<1> DEFINE moved(r) == IF r.from = d THEN [r EXCEPT !.from = Nobody] ELSE r
<1>1. /\ requests' = {moved(r) : r \in {s \in requests : ~(s.from = d /\ s.pc = "answered")}}
      /\ UNCHANGED <<sent, recent, inFlight>>
  BY DEF Reload
<1>2. \A r \in requests : /\ moved(r) \in Requests
                          /\ moved(r).pc = r.pc /\ moved(r).to = r.to
  BY DEF PayInv, ServiceTypeOK, Requests
<1> HIDE DEF moved
<1>3. \A r \in requests : r.pc \in Awaits => moved(r) \in requests'
  BY <1>1 DEF Awaits
<1>4. ServiceTypeOK'
  BY <1>1, <1>2 DEF PayInv, ServiceTypeOK
<1>5. ServesOne'
  BY <1>1, <1>2 DEF PayInv, ServesOne
<1>6. \A w : beingSent(w) => beingSent(w)'
  BY <1>2, <1>3 DEF beingSent, Awaits
<1>7. SomebodyKnows'
  BY <1>1, <1>6 DEF PayInv, SomebodyKnows, spends
<1>8. ChecksWereMade'
  BY <1>1, <1>2 DEF PayInv, ChecksWereMade, spends
<1>9. OnceADay'
  BY <1>1 DEF PayInv, OnceADay
<1> QED BY <1>4, <1>5, <1>7, <1>8, <1>9 DEF PayInv

-----------------------------------------------------------------------------
(* What answers leaves of the requests.                                    *)
LEMMA AnswersDropsOne ==
    ASSUME ServiceTypeOK, NEW r \in requests, NEW wait \in 0 .. NoDate, answers(r, wait)
    PROVE  /\ requests' \subseteq Requests
           /\ \A s \in requests' : s.pc \in Awaits => s \in requests /\ s # r
           /\ \A s \in requests : s # r => s \in requests'
           /\ \A s \in requests' : s.pc = "answered" =>
                  s \in requests \/ (s.to = r.to /\ s.wait = wait)
  BY DEF answers, ServiceTypeOK, Requests, Awaits

LEMMA GoesOnMovesOne ==
    ASSUME ServiceTypeOK, NEW r \in requests, NEW pc \in Awaits, goesOn(r, pc)
    PROVE  /\ requests' \subseteq Requests
           /\ \A s \in requests' : (s \in requests /\ s # r) \/ s = [r EXCEPT !.pc = pc]
           /\ \A s \in requests : s # r => s \in requests'
           /\ [r EXCEPT !.pc = pc] \in requests'
           /\ [r EXCEPT !.pc = pc].to = r.to /\ [r EXCEPT !.pc = pc].pc = pc
  BY DEF goesOn, ServiceTypeOK, Requests, Awaits

-----------------------------------------------------------------------------
LEMMA DripKeepsPayInv ==
    ASSUME PayInv, NEW r \in requests, Drip(r)
    PROVE  PayInv'
<1>1. r \in Requests /\ r.pc = "asked" /\ UNCHANGED <<sent, recent>>
  BY DEF Drip, PayInv, ServiceTypeOK
<1>2. CASE \E wait \in 0 .. NoDate : answers(r, wait) /\ UNCHANGED inFlight
  BY <1>1, <1>2, AnswersDropsOne, OthersKeepPayInv DEF PayInv, Awaits
<1>3. CASE r.to \notin inFlight /\ recent[r.to] = Never /\ inFlight' = inFlight \cup {r.to}
           /\ goesOn(r, "explorer")
  <2>1. /\ requests' \subseteq Requests
        /\ \A s \in requests' : (s \in requests /\ s # r) \/ (s.to = r.to /\ s.pc = "explorer")
        /\ \A s, t \in requests' : (s \notin requests \/ s = r) /\ (t \notin requests \/ t = r)
              => s = t
        /\ \A s \in requests : s # r => s \in requests'
    BY <1>1, <1>3, GoesOnMovesOne DEF PayInv, Awaits
  <2>2. \A s \in requests : s.pc \in Awaits => s.to # r.to
    BY <1>3 DEF PayInv, ServesOne
  <2>3. ServiceTypeOK'
    BY <1>1, <2>1 DEF PayInv, ServiceTypeOK
  <2>4. ServesOne'
    BY <1>1, <1>3, <2>1, <2>2 DEF PayInv, ServesOne
  <2>5. \A w : beingSent(w) => beingSent(w)'
    BY <1>1, <2>1 DEF beingSent
  <2>6. SomebodyKnows'
    BY <1>1, <2>5 DEF PayInv, SomebodyKnows, spends
  <2>7. ChecksWereMade'
    BY <1>1, <2>1 DEF PayInv, ChecksWereMade, spends
  <2>8. OnceADay'
    BY <1>1 DEF PayInv, OnceADay
  <2> QED BY <2>3, <2>4, <2>6, <2>7, <2>8 DEF PayInv
<1>4. recent[r.to] # Never => tooSoon(recent[r.to]) \in 0 .. NoDate
  <2>1. recent[r.to] \in 0 .. Never
    BY <1>1 DEF PayInv, ServiceTypeOK, Ages, Requests
  <2> QED BY <2>1, Constants DEF tooSoon, Never, NoDate
<1>5. NoDate \in 0 .. NoDate
  BY Constants DEF NoDate
<1> QED BY <1>2, <1>3, <1>4, <1>5 DEF Drip, beingServed

LEMMA ExplorerKeepsPayInv ==
    ASSUME PayInv, NEW r \in requests, ExplorerAnswers(r)
    PROVE  PayInv'
<1>1. /\ r \in Requests /\ r.pc = "explorer" /\ UNCHANGED sent /\ r.to \in Wallets
      /\ recent[r.to] = Never /\ sent \subseteq Transfers
  BY DEF ExplorerAnswers, PayInv, ServiceTypeOK, ServesOne, Awaits, Requests
<1>2. CASE paid(r.to) = {} /\ goesOn(r, "balance") /\ UNCHANGED <<recent, inFlight>>
  <2>1. /\ requests' \subseteq Requests
        /\ \A s \in requests' : (s \in requests /\ s # r) \/ (s.to = r.to /\ s.pc = "balance")
        /\ \A s, t \in requests' : (s \notin requests \/ s = r) /\ (t \notin requests \/ t = r)
              => s = t
        /\ \A s \in requests : s # r => s \in requests'
    BY <1>1, <1>2, GoesOnMovesOne DEF PayInv, Awaits
  <2>2. \A s \in requests : s.pc \in Awaits /\ s.to = r.to => s = r
    BY <1>1 DEF PayInv, ServesOne, Awaits
  <2>3. ServiceTypeOK'
    BY <1>1, <1>2, <2>1 DEF PayInv, ServiceTypeOK
  <2>4. ServesOne'
    BY <1>1, <1>2, <2>1, <2>2 DEF PayInv, ServesOne, Awaits
  <2>5. \A w : beingSent(w) => beingSent(w)'
    BY <1>1, <2>1 DEF beingSent
  <2>6. SomebodyKnows'
    BY <1>1, <1>2, <2>5 DEF PayInv, SomebodyKnows, spends
  <2>7. \A x \in sent : x.to = r.to => ~spends(x)
    <3> SUFFICES ASSUME NEW x \in sent, x.to = r.to, spends(x)
                 PROVE  FALSE
      OBVIOUS
    <3>1. ~x.indexed
      BY <1>2 DEF spends, paid
    <3>2. ~beingSent(x.to)
      BY <1>1, <2>2 DEF beingSent, Awaits
    <3>3. x.age \in Nat /\ x.age <= Cooldown
      BY <1>1 DEF Transfers, spends
    <3> QED BY <1>1, <3>1, <3>2, <3>3, Constants DEF PayInv, SomebodyKnows, Never
  <2>8. ChecksWereMade'
    BY <1>1, <2>1, <2>7 DEF PayInv, ChecksWereMade, spends
  <2>9. OnceADay'
    BY <1>1 DEF PayInv, OnceADay
  <2> QED BY <2>3, <2>4, <2>6, <2>8, <2>9 DEF PayInv
<1>3. ASSUME NEW age \in 0 .. Cooldown, isLastDrip(r.to, age),
             recent' = [recent EXCEPT ![r.to] = age], answers(r, tooSoon(age)),
             releases(r.to, FALSE)
      PROVE  PayInv'
  <2>1. tooSoon(age) \in 0 .. NoDate
    BY Constants DEF tooSoon, NoDate
  <2>2. /\ requests' \subseteq Requests
        /\ \A s \in requests' : s.pc \in Awaits => s \in requests /\ s # r
        /\ \A s \in requests : s # r => s \in requests'
    BY <1>3, <2>1, AnswersDropsOne DEF PayInv
  <2>3. \A s \in requests' : s.pc \in Awaits => s.to # r.to
    BY <1>1, <2>2 DEF PayInv, ServesOne, Awaits
  <2>4. \A w \in Wallets : recent'[w] = IF w = r.to THEN age ELSE recent[w]
    BY <1>3 DEF PayInv, ServiceTypeOK
  <2>5. recent' \in [Wallets -> Ages]
    <3>1. age \in Ages
      BY Constants DEF Ages, Never
    <3> QED BY <1>3, <3>1 DEF PayInv, ServiceTypeOK
  <2>6. ServiceTypeOK'
    BY <1>1, <2>2, <2>5 DEF PayInv, ServiceTypeOK
  <2>7. ServesOne'
    BY <1>3, <2>2, <2>3, <2>4 DEF PayInv, ServesOne, releases, ServiceTypeOK, Requests
  <2>8. \A w : beingSent(w) => beingSent(w)'
    BY <1>1, <2>2 DEF beingSent
  <2>9. SomebodyKnows'
    <3> SUFFICES ASSUME NEW x \in sent, spends(x)
                 PROVE  x.indexed \/ recent'[x.to] <= x.age \/ beingSent(x.to)'
      BY <1>1 DEF SomebodyKnows, spends
    <3>1. CASE x.to = r.to /\ ~x.indexed
      (* Nothing is remembered of this wallet and nothing is going out.    *)
      <4>1. ~beingSent(x.to)
        BY <1>1, <3>1 DEF beingSent, PayInv, ServesOne, Awaits
      <4>2. x.age \in Nat /\ x.age <= Cooldown
        BY <1>1 DEF Transfers, spends
      <4> QED BY <1>1, <3>1, <4>1, <4>2, Constants DEF PayInv, SomebodyKnows, Never
    <3>2. CASE x.to # r.to
      BY <1>1, <2>4, <2>8, <3>2 DEF PayInv, SomebodyKnows, Transfers
    <3> QED BY <3>1, <3>2
  <2>10. ChecksWereMade'
    BY <1>1, <2>2 DEF PayInv, ChecksWereMade, spends, Awaits
  <2>11. OnceADay'
    BY <1>1 DEF PayInv, OnceADay
  <2> QED BY <2>6, <2>7, <2>9, <2>10, <2>11 DEF PayInv
<1> QED BY <1>2, <1>3 DEF ExplorerAnswers

LEMMA SendsKeepsPayInv ==
    ASSUME PayInv, NEW r \in requests, Sends(r)
    PROVE  PayInv'
<1> DEFINE new == Transfer(CHOOSE hash \in unused(r.to) : TRUE, r.to)
<1>1. /\ r \in Requests /\ r.pc = "balance" /\ r.to \in Wallets
      /\ UNCHANGED <<recent, inFlight>> /\ sent' = sent \cup {new} /\ goesOn(r, "sending")
      /\ sent \subseteq Transfers
  BY DEF Sends, PayInv, ServiceTypeOK, Requests
<1>2. new \in Transfers /\ new.to = r.to /\ new.age = 0 /\ ~new.forgotten
  BY <1>1 DEF Sends, unused, Transfer, Transfers
<1> HIDE DEF new
<1>3. /\ requests' \subseteq Requests
      /\ \A s \in requests' : (s \in requests /\ s # r) \/ (s.to = r.to /\ s.pc = "sending")
      /\ \A s, t \in requests' : (s \notin requests \/ s = r) /\ (t \notin requests \/ t = r)
            => s = t
      /\ \A s \in requests : s # r => s \in requests'
      /\ \E s \in requests' : s.to = r.to /\ s.pc = "sending"
  BY <1>1, GoesOnMovesOne DEF PayInv, Awaits
<1>4. \A s \in requests : s.pc \in Awaits /\ s.to = r.to => s = r
  BY <1>1 DEF PayInv, ServesOne, Awaits
<1>5. ServiceTypeOK'
  BY <1>1, <1>2, <1>3 DEF PayInv, ServiceTypeOK
<1>6. ServesOne'
  BY <1>1, <1>3, <1>4 DEF PayInv, ServesOne, Awaits
<1>7. beingSent(r.to)' /\ \A w : beingSent(w) => beingSent(w)'
  BY <1>1, <1>3 DEF beingSent
<1>8. SomebodyKnows'
  BY <1>1, <1>2, <1>7 DEF PayInv, SomebodyKnows, spends
<1>9. \A x \in sent : x.to = r.to => ~spends(x)
  BY <1>1 DEF PayInv, ChecksWereMade
<1>10. ChecksWereMade'
  BY <1>1, <1>2, <1>3, <1>4 DEF PayInv, ChecksWereMade, spends, Awaits
<1>11. OnceADay'
  <2> SUFFICES ASSUME NEW x \in sent', NEW y \in sent', x # y, x.to = y.to, x.to \notin Deaf,
                      x.age <= Cooldown, y.age <= x.age
               PROVE  x.forgotten \/ (x.age = y.age /\ y.forgotten)
    BY DEF OnceADay
  <2>1. CASE x \in sent /\ y \in sent
    BY <2>1 DEF PayInv, OnceADay
  <2>2. CASE x \in sent /\ y = new
    BY <1>2, <1>9, <2>2 DEF spends
  <2>3. CASE x = new /\ y \in sent
    <3>1. y.age = 0 /\ y.age <= Cooldown
      BY <1>1, <1>2, <2>3, Constants DEF Transfers
    <3> QED BY <1>2, <1>9, <2>3, <3>1 DEF spends
  <2> QED BY <1>1, <2>1, <2>2, <2>3
<1> QED BY <1>5, <1>6, <1>8, <1>10, <1>11 DEF PayInv

LEMMA SendAnswersKeepsPayInv ==
    ASSUME PayInv, NEW r \in requests, SendAnswers(r)
    PROVE  PayInv'
<1>1. /\ r \in Requests /\ r.pc = "sending" /\ r.to \in Wallets
      /\ UNCHANGED sent /\ recent' = [recent EXCEPT ![r.to] = 0]
      /\ inFlight' = inFlight \ {r.to} /\ sent \subseteq Transfers
  BY DEF SendAnswers, remember, releases, PayInv, ServiceTypeOK, Requests
<1>2. /\ requests' \subseteq Requests
      /\ \A s \in requests' : s.pc \in Awaits => s \in requests /\ s # r
      /\ \A s \in requests : s # r => s \in requests'
  BY AnswersDropsOne, Constants DEF SendAnswers, PayInv, NoDate
<1>3. \A s \in requests' : s.pc \in Awaits => s.to # r.to
  BY <1>1, <1>2 DEF PayInv, ServesOne, Awaits
<1>4. \A w \in Wallets : recent'[w] = IF w = r.to THEN 0 ELSE recent[w]
  BY <1>1 DEF PayInv, ServiceTypeOK
<1>5. ServiceTypeOK'
  <2>1. 0 \in Ages
    BY Constants DEF Ages, Never
  <2>2. recent' \in [Wallets -> Ages]
    BY <1>1, <2>1 DEF PayInv, ServiceTypeOK
  <2> QED BY <1>1, <1>2, <2>2 DEF PayInv, ServiceTypeOK
<1>6. ServesOne'
  BY <1>1, <1>2, <1>3, <1>4 DEF PayInv, ServesOne, ServiceTypeOK, Requests
<1>7. \A w : beingSent(w) /\ w # r.to => beingSent(w)'
  BY <1>2 DEF beingSent
<1>8. SomebodyKnows'
  <2> SUFFICES ASSUME NEW x \in sent, spends(x)
               PROVE  x.indexed \/ recent'[x.to] <= x.age \/ beingSent(x.to)'
    BY <1>1 DEF SomebodyKnows, spends
  <2>1. x.to \in Wallets /\ x.age \in Nat
    BY <1>1 DEF Transfers
  <2>2. x.indexed \/ recent[x.to] <= x.age \/ beingSent(x.to)
    BY DEF PayInv, SomebodyKnows
  <2> QED BY <1>4, <1>7, <2>1, <2>2
<1>9. ChecksWereMade'
  BY <1>1, <1>2 DEF PayInv, ChecksWereMade, spends, Awaits
<1>10. OnceADay'
  BY <1>1 DEF PayInv, OnceADay
<1> QED BY <1>5, <1>6, <1>8, <1>9, <1>10 DEF PayInv

(* Transfers that are only indexed or forgotten do no harm to OnceADay.    *)
LEMMA MarkingKeepsOnceADay ==
    ASSUME OnceADay,
           \A x, y \in sent' : x # y => \E u, v \in sent :
              /\ u # v
              /\ x.to = u.to /\ x.age = u.age /\ (u.forgotten => x.forgotten)
              /\ y.to = v.to /\ y.age = v.age /\ (v.forgotten => y.forgotten)
    PROVE  OnceADay'
<1> SUFFICES ASSUME NEW x \in sent', NEW y \in sent', x # y, x.to = y.to, x.to \notin Deaf,
                    x.age <= Cooldown, y.age <= x.age
             PROVE  x.forgotten \/ (x.age = y.age /\ y.forgotten)
  BY DEF OnceADay
<1>1. PICK u, v \in sent : /\ u # v
                          /\ x.to = u.to /\ x.age = u.age /\ (u.forgotten => x.forgotten)
                          /\ y.to = v.to /\ y.age = v.age /\ (v.forgotten => y.forgotten)
  OBVIOUS
<1>2. u.to = v.to /\ u.to \notin Deaf /\ u.age <= Cooldown /\ v.age <= u.age
  BY <1>1
<1>3. u.forgotten \/ (u.age = v.age /\ v.forgotten)
  BY <1>1, <1>2, Zenon DEF OnceADay
<1> QED BY <1>1, <1>3, Zenon

LEMMA CallFailsKeepsPayInv ==
    ASSUME PayInv, NEW r \in requests, CallFails(r)
    PROVE  PayInv'
<1> DEFINE marked(x) == [x EXCEPT !.forgotten = @ \/ (x.to = r.to /\ ~x.indexed)]
<1>1. /\ r \in Requests /\ r.pc \in Awaits /\ r.to \in Wallets /\ UNCHANGED recent
      /\ inFlight' = inFlight \ {r.to} /\ sent \subseteq Transfers
      /\ sent' = IF r.pc = "sending" THEN {marked(x) : x \in sent} ELSE sent
  BY DEF CallFails, forgets, releases, PayInv, ServiceTypeOK, Requests
<1>2. /\ requests' \subseteq Requests
      /\ \A s \in requests' : s.pc \in Awaits => s \in requests /\ s # r
      /\ \A s \in requests : s # r => s \in requests'
  BY AnswersDropsOne, Constants DEF CallFails, PayInv, NoDate
<1>3. \A s \in requests' : s.pc \in Awaits => s.to # r.to
  BY <1>1, <1>2 DEF PayInv, ServesOne, Awaits
<1>4. \A x \in sent :
         /\ marked(x) \in Transfers /\ marked(x).to = x.to /\ marked(x).age = x.age
         /\ marked(x).indexed = x.indexed /\ (x.forgotten => marked(x).forgotten)
         /\ x.to = r.to => marked(x).forgotten \/ x.indexed
  BY <1>1 DEF Transfers
<1> HIDE DEF marked
<1>5. ServiceTypeOK'
  BY <1>1, <1>2, <1>4 DEF PayInv, ServiceTypeOK
<1>6. ServesOne'
  BY <1>1, <1>2, <1>3 DEF PayInv, ServesOne
<1>7. \A w : beingSent(w) => beingSent(w)' \/ (w = r.to /\ r.pc = "sending")
  BY <1>2 DEF beingSent
<1>8. SomebodyKnows'
  <2>1. CASE r.pc = "sending"
    BY <1>1, <1>4, <1>7, <2>1 DEF PayInv, SomebodyKnows, spends
  <2>2. CASE r.pc # "sending"
    BY <1>1, <1>7, <2>2 DEF PayInv, SomebodyKnows, spends
  <2> QED BY <2>1, <2>2
<1>9. ChecksWereMade'
  BY <1>1, <1>2, <1>4 DEF PayInv, ChecksWereMade, spends, Awaits
<1>10. OnceADay'
  <2>1. CASE r.pc = "sending"
    BY <1>1, <1>4, <2>1, MarkingKeepsOnceADay DEF PayInv
  <2>2. CASE r.pc # "sending"
    BY <1>1, <2>2 DEF PayInv, OnceADay
  <2> QED BY <2>1, <2>2
<1> QED BY <1>5, <1>6, <1>8, <1>9, <1>10 DEF PayInv

LEMMA RestartKeepsPayInv ==
    ASSUME PayInv, Restart
    PROVE  PayInv'
<1> DEFINE marked(x) == [x EXCEPT !.forgotten = @ \/ ~x.indexed]
           dropped(r) == IF r.pc \in Awaits THEN [r EXCEPT !.pc = "answered", !.wait = NoDate] ELSE r
<1>1. /\ recent' = [w \in Wallets |-> Never] /\ sent \subseteq Transfers
      /\ sent' = {marked(x) : x \in sent}
      /\ \A s \in requests' : \E r \in requests : s = dropped(r)
  BY DEF Restart, PayInv, ServiceTypeOK
<1>2. \A r \in requests : dropped(r) \in Requests /\ dropped(r).pc \notin Awaits
  <2> SUFFICES ASSUME NEW r \in requests
               PROVE  dropped(r) \in Requests /\ dropped(r).pc \notin Awaits
    OBVIOUS
  <2>1. r \in Requests
    BY DEF PayInv, ServiceTypeOK
  <2>2. CASE r.pc \in Awaits
    <3>1. dropped(r) = [r EXCEPT !.pc = "answered", !.wait = NoDate]
      BY <2>2
    <3>2. NoDate \in 0 .. NoDate
      BY Constants DEF NoDate
    <3>3. [r EXCEPT !.pc = "answered", !.wait = NoDate] \in Requests
      BY <2>1, <3>2 DEF Requests
    <3>4. [r EXCEPT !.pc = "answered", !.wait = NoDate].pc = "answered"
      BY <2>1 DEF Requests
    <3> HIDE DEF dropped
    <3> QED BY <3>1, <3>3, <3>4 DEF Awaits
  <2>3. CASE r.pc \notin Awaits
    BY <2>1, <2>3
  <2> QED BY <2>2, <2>3
<1>3. \A x \in sent :
         /\ marked(x) \in Transfers /\ marked(x).to = x.to /\ marked(x).age = x.age
         /\ marked(x).indexed = x.indexed /\ (x.forgotten => marked(x).forgotten)
         /\ marked(x).forgotten \/ x.indexed
  BY <1>1 DEF Transfers
<1> HIDE DEF marked, dropped
<1>4. ServiceTypeOK'
  <2>1. Never \in Ages
    BY Constants DEF Never, Ages
  <2> QED BY <1>1, <1>2, <1>3, <2>1 DEF ServiceTypeOK
<1>5. ServesOne'
  BY <1>1, <1>2 DEF ServesOne
<1>6. SomebodyKnows'
  BY <1>1, <1>3 DEF SomebodyKnows, spends
<1>7. ChecksWereMade'
  BY <1>1, <1>2 DEF ChecksWereMade, Awaits
<1>8. OnceADay'
  BY <1>1, <1>3, MarkingKeepsOnceADay DEF PayInv
<1> QED BY <1>4, <1>5, <1>6, <1>7, <1>8 DEF PayInv

LEMMA IndexesKeepsPayInv ==
    ASSUME PayInv, NEW w \in Wallets, Indexes(w)
    PROVE  PayInv'
<1> DEFINE marked(x) == [x EXCEPT !.indexed = @ \/ x.to = w]
<1>1. /\ UNCHANGED <<recent, inFlight, requests>> /\ sent \subseteq Transfers
      /\ sent' = {marked(x) : x \in sent}
  BY DEF Indexes, PayInv, ServiceTypeOK
<1>2. \A x \in sent :
         /\ marked(x) \in Transfers /\ marked(x).to = x.to /\ marked(x).age = x.age
         /\ x.indexed => marked(x).indexed
         /\ marked(x).forgotten = x.forgotten
  BY <1>1 DEF Transfers
<1> HIDE DEF marked
<1>3. ServiceTypeOK'
  BY <1>1, <1>2 DEF PayInv, ServiceTypeOK
<1>4. ServesOne'
  BY <1>1 DEF PayInv, ServesOne
<1>5. \A v : beingSent(v) => beingSent(v)'
  BY <1>1 DEF beingSent
<1>6. SomebodyKnows'
  BY <1>1, <1>2, <1>5 DEF PayInv, SomebodyKnows, spends
<1>7. ChecksWereMade'
  BY <1>1, <1>2 DEF PayInv, ChecksWereMade, spends
<1>8. OnceADay'
  BY <1>1, <1>2, MarkingKeepsOnceADay DEF PayInv
<1> QED BY <1>3, <1>4, <1>6, <1>7, <1>8 DEF PayInv

LEMMA NetworkKeepsPayInv ==
    ASSUME PayInv, NEW r \in requests, NetworkFails(r)
    PROVE  PayInv'
<1>1. /\ requests' = requests \ {r} /\ r.pc \notin Awaits
      /\ UNCHANGED <<sent, recent, inFlight>>
  BY DEF NetworkFails, Awaits
<1> QED BY <1>1, OthersKeepPayInv DEF PayInv, ServiceTypeOK

-----------------------------------------------------------------------------
(* The hook's own state.                                                   *)

LEMMA HookStays ==
    ASSUME PageTypeOK, NEW d \in Devices, NEW hook \in Hooks,
           device' = [device EXCEPT ![d] = hook]
    PROVE  device' \in [Devices -> Hooks]
BY DEF PageTypeOK

LEMMA HookWaits ==
    ASSUME NEW hook \in Hooks, NEW w \in Wallets, NEW wait \in Waits, NEW b \in BOOLEAN
    PROVE  /\ [hook EXCEPT !.sending = b] \in Hooks
           /\ [hook EXCEPT !.sending = FALSE, !.wait = wait, !.strayed = b] \in Hooks
           /\ [hook EXCEPT !.sending = FALSE, !.strayed = FALSE, !.wait = wait] \in Hooks
           /\ [hook EXCEPT !.wallet = w, !.strayed = FALSE, !.wait = wait] \in Hooks
BY DEF Hooks

LEMMA FailsKeepsSituation ==
    ASSUME PageTypeOK, fails
    PROVE  visit' \in Situations
BY DEF PageTypeOK, fails, Situations

LEMMA StopsSending ==
    ASSUME PageTypeOK, NEW d \in Devices, device' = [device EXCEPT ![d].sending = FALSE]
    PROVE  device' \in [Devices -> Hooks]
BY DEF PageTypeOK, Hooks

(* What a request is answered with is a wait the hook can hold.            *)
LEMMA AnsweredKeepsPageType ==
    ASSUME ServiceTypeOK, PageTypeOK, NEW d \in Devices, Answered(d)
    PROVE  PageTypeOK'
<1>1. PICK r \in requests :
         /\ r.pc = "answered" /\ UNCHANGED visit
         /\ IF r.wait = NoDate
            THEN /\ device' = [device EXCEPT ![d].sending = FALSE]
                 /\ UNCHANGED stored
            ELSE recordCooldown(d, r.to, r.wait)
  BY DEF Answered
<1>2. r.to \in Wallets /\ r.wait \in 0 .. NoDate
  BY DEF ServiceTypeOK, Requests
<1>3. CASE r.wait = NoDate
  BY <1>1, <1>3, StopsSending DEF PageTypeOK
<1>4. CASE r.wait # NoDate
  <2>1. r.wait \in Waits
    BY <1>2, <1>4, Constants DEF Waits, NoDate
  <2>2. device' \in [Devices -> Hooks]
    <3> DEFINE strayed == r.to # device[d].wallet
               hook == [device[d] EXCEPT !.sending = FALSE, !.wait = r.wait, !.strayed = strayed]
    <3>1. strayed \in BOOLEAN
      OBVIOUS
    <3> HIDE DEF strayed
    <3>2. device[d] \in Hooks
      BY DEF PageTypeOK
    <3>3. hook \in Hooks
      BY <1>2, <2>1, <3>1, <3>2, HookWaits
    <3>4. device' = [device EXCEPT ![d] = hook]
      BY <1>1, <1>4, <3>2 DEF PageTypeOK, recordCooldown, strayed
    <3> QED BY <3>3, <3>4, HookStays
  <2>3. stored[d] \in [Wallets -> Waits]
    BY DEF PageTypeOK
  <2>4. [stored[d] EXCEPT ![r.to] = r.wait] \in [Wallets -> Waits]
    BY <1>2, <2>1, <2>3
  <2>5. stored' \in [Devices -> [Wallets -> Waits]]
    BY <1>1, <1>4, <2>4 DEF PageTypeOK, recordCooldown
  <2> QED BY <1>1, <2>2, <2>5 DEF PageTypeOK
<1> QED BY <1>3, <1>4

LEMMA ShorterWaits ==
    ASSUME NEW wait \in Waits
    PROVE  /\ shorter(wait) \in Waits
           /\ shorter(wait) \in 1 .. Cooldown => shorter(wait) = wait - 1
BY Constants DEF shorter, Waits, NoDate

LEMMA TickKeepsPageType ==
    ASSUME PageTypeOK, Tick
    PROVE  /\ PageTypeOK'
           /\ \A d \in Devices : /\ device'[d].wallet = device[d].wallet
                                 /\ device'[d].strayed = device[d].strayed
                                 /\ device'[d].wait = shorter(device[d].wait)
           /\ \A d \in Devices, w \in Wallets : stored'[d][w] = shorter(stored[d][w])
<1>1. \A d \in Devices :
         /\ device[d] \in Hooks
         /\ stored[d] \in [Wallets -> Waits]
  BY DEF PageTypeOK
<1>2. \A d \in Devices : device'[d] = [device[d] EXCEPT !.wait = shorter(device[d].wait)]
  BY DEF Tick
<1>3. \A d \in Devices :
         /\ device'[d].wallet = device[d].wallet /\ device'[d].strayed = device[d].strayed
         /\ device'[d].wait = shorter(device[d].wait)
         /\ device'[d] \in Hooks
  <2> SUFFICES ASSUME NEW d \in Devices
               PROVE  /\ device'[d].wallet = device[d].wallet
                      /\ device'[d].strayed = device[d].strayed
                      /\ device'[d].wait = shorter(device[d].wait)
                      /\ device'[d] \in Hooks
    OBVIOUS
  <2> DEFINE wait == shorter(device[d].wait)
  <2>1. device[d].wait \in Waits
    BY <1>1 DEF Hooks
  <2>2. wait \in Waits
    BY <2>1, ShorterWaits
  <2> HIDE DEF wait
  <2>3. device'[d] = [device[d] EXCEPT !.wait = wait]
    BY <1>2 DEF wait
  <2> QED BY <1>1, <2>2, <2>3 DEF Hooks, wait
<1>4. device' \in [Devices -> Hooks]
  <2>1. device' = [d \in Devices |-> device'[d]]
    BY DEF Tick
  <2> QED BY <1>3, <2>1
<1>5. \A d \in Devices, w \in Wallets :
         stored'[d][w] = shorter(stored[d][w]) /\ shorter(stored[d][w]) \in Waits
  BY <1>1, ShorterWaits DEF Tick
<1>6. stored' \in [Devices -> [Wallets -> Waits]]
  BY <1>5 DEF Tick
<1> QED BY <1>3, <1>4, <1>5, <1>6 DEF PageTypeOK, Tick

LEMMA StepKeepsPageType ==
    ASSUME ServiceTypeOK, PageTypeOK, [FaucetNext]_faucetVars
    PROVE  PageTypeOK'
<1>1. CASE Tick
  BY <1>1, TickKeepsPageType
<1>2. ASSUME NEW d \in Devices, Press(d)
      PROVE  PageTypeOK'
  <2>1. device[d] \in Hooks
    BY DEF PageTypeOK
  <2>2. [device[d] EXCEPT !.sending = TRUE] \in Hooks
    BY <2>1 DEF Hooks
  <2> QED BY <1>2, <2>2, HookStays DEF Press, PageTypeOK
<1>3. ASSUME NEW d \in Devices, Answered(d)
      PROVE  PageTypeOK'
  BY <1>3, AnsweredKeepsPageType
<1>4. ASSUME NEW d \in Devices, SwitchWallet(d)
      PROVE  PageTypeOK'
  <2>1. PICK w \in visit.owns[d] : ShowsWallet(d, w) /\ UNCHANGED <<stored, visit>>
    BY <1>4 DEF SwitchWallet
  <2>2. w \in Wallets /\ stored[d][w] \in Waits
    BY DEF PageTypeOK, Situations
  <2> DEFINE hook == [device[d] EXCEPT !.wallet = w, !.strayed = FALSE, !.wait = stored[d][w]]
  <2>3. hook \in Hooks
    BY <2>2, HookWaits DEF PageTypeOK
  <2>4. device' = [device EXCEPT ![d] = hook]
    BY <2>1 DEF ShowsWallet, rememberedCooldown, PageTypeOK
  <2> QED BY <2>1, <2>3, <2>4, HookStays DEF PageTypeOK
<1>5. ASSUME NEW d \in Devices, Reload(d)
      PROVE  PageTypeOK'
  <2>1. device[d] \in Hooks /\ device[d].wallet \in Wallets
    BY DEF PageTypeOK, Hooks
  <2>2. stored[d][device[d].wallet] \in Waits
    BY <2>1 DEF PageTypeOK
  <2> DEFINE hook == [device[d] EXCEPT !.sending = FALSE, !.strayed = FALSE,
                                       !.wait = stored[d][device[d].wallet]]
  <2>3. hook \in Hooks
    BY <2>1, <2>2, HookWaits
  <2>4. device' = [device EXCEPT ![d] = hook]
    BY <1>5, <2>1 DEF Reload, rememberedCooldown, PageTypeOK
  <2> QED BY <1>5, <2>3, <2>4, HookStays, FailsKeepsSituation DEF Reload, PageTypeOK
<1>6. ASSUME NEW r \in requests, Drip(r) \/ Serves(r)
      PROVE  PageTypeOK'
  BY <1>6 DEF Drip, Serves, ExplorerAnswers, Sends, SendAnswers, PageTypeOK
<1>7. ASSUME NEW r \in requests, CallFails(r)
      PROVE  PageTypeOK'
  BY <1>7, FailsKeepsSituation DEF CallFails, PageTypeOK
<1>8. ASSUME NEW r \in requests, NetworkFails(r)
      PROVE  PageTypeOK'
  <2>1. r.from \in Devices \cup {Nobody}
    BY DEF ServiceTypeOK, Requests
  <2> QED BY <1>8, <2>1, StopsSending, FailsKeepsSituation DEF NetworkFails, PageTypeOK
<1>9. CASE Restart
  BY <1>9, FailsKeepsSituation DEF Restart, PageTypeOK
<1>10. ASSUME NEW w \in Wallets, Indexes(w)
       PROVE  PageTypeOK'
  BY <1>10 DEF Indexes, PageTypeOK
<1>11. CASE UNCHANGED faucetVars
  BY <1>11 DEF faucetVars, PageTypeOK
<1> QED BY <1>1, <1>2, <1>3, <1>4, <1>5, <1>6, <1>7, <1>8, <1>9, <1>10, <1>11 DEF FaucetNext

-----------------------------------------------------------------------------
LEMMA StepKeepsPayInv ==
    ASSUME PayInv, PageTypeOK, [FaucetNext]_faucetVars
    PROVE  PayInv'
<1>1. CASE Tick
  BY <1>1, TickKeepsPayInv
<1>2. ASSUME NEW d \in Devices, Press(d) \/ Answered(d) \/ SwitchWallet(d)
      PROVE  PayInv'
  BY <1>2, PageKeepsPayInv
<1>3. ASSUME NEW d \in Devices, Reload(d)
      PROVE  PayInv'
  BY <1>3, ReloadKeepsPayInv
<1>4. ASSUME NEW r \in requests, Drip(r) \/ Serves(r)
      PROVE  PayInv'
  BY <1>4, DripKeepsPayInv, ExplorerKeepsPayInv, SendsKeepsPayInv, SendAnswersKeepsPayInv DEF Serves
<1>5. ASSUME NEW r \in requests, CallFails(r) \/ NetworkFails(r)
      PROVE  PayInv'
  BY <1>5, CallFailsKeepsPayInv, NetworkKeepsPayInv
<1>6. CASE Restart
  BY <1>6, RestartKeepsPayInv
<1>7. ASSUME NEW w \in Wallets, Indexes(w)
      PROVE  PayInv'
  BY <1>7, IndexesKeepsPayInv
<1>8. CASE UNCHANGED faucetVars
  BY <1>8, OthersKeepPayInv DEF faucetVars, PayInv, ServiceTypeOK
<1> QED BY <1>1, <1>2, <1>3, <1>4, <1>5, <1>6, <1>7, <1>8 DEF FaucetNext

LEMMA InitHolds ==
    ASSUME FaucetInit
    PROVE  PayInv /\ PageTypeOK
<1>1. Never \in Ages /\ 0 \in Waits
  BY Constants DEF Never, Ages, Waits
<1>2. PayInv
  BY <1>1 DEF FaucetInit, PayInv, ServiceTypeOK, ServesOne, SomebodyKnows, ChecksWereMade, OnceADay
<1>3. visit \in Situations
  BY FaucetAssumption DEF FaucetInit, Situations
<1>4. ASSUME NEW d \in Devices
      PROVE  (CHOOSE w \in Wallets : visit.owns[d] # {} => w \in visit.owns[d]) \in Wallets
  <2>1. \E w \in Wallets : visit.owns[d] # {} => w \in visit.owns[d]
    <3>1. visit.owns[d] \subseteq Wallets
      BY <1>3 DEF Situations
    <3> QED BY <3>1, FaucetAssumption
  <2> QED BY <2>1
<1>5. PageTypeOK
  <2>1. device \in [Devices -> Hooks]
    BY <1>1, <1>4 DEF FaucetInit, Hooks
  <2> QED BY <1>1, <1>3, <2>1 DEF FaucetInit, PageTypeOK
<1> QED BY <1>2, <1>5

(* One drip per wallet per cooldown, whatever is asked, lost or restarted, *)
(* unless the first drip was lost from memory before it was indexed.       *)
THEOREM PaidOnceADay == FaucetSpec => []OnceADay
<1>1. FaucetInit => PayInv /\ PageTypeOK
  BY InitHolds
<1>2. PayInv /\ PageTypeOK /\ [FaucetNext]_faucetVars => (PayInv /\ PageTypeOK)'
  BY StepKeepsPayInv, StepKeepsPageType DEF PayInv
<1>3. PayInv => OnceADay
  BY DEF PayInv
<1> QED BY <1>1, <1>2, <1>3, PTL DEF FaucetSpec

-----------------------------------------------------------------------------
(* The waits.  Between two ticks a wait that was earned stays so, as no    *)
(* transfer is taken back.                                                 *)
KeepsTransfers == \A x \in sent : \E y \in sent' : y.to = x.to /\ y.age = x.age

LEMMA EarnedStays ==
    ASSUME KeepsTransfers, NEW w, NEW wait, earned(w, wait), wait \in 1 .. Cooldown
    PROVE  \E x \in sent' : x.to = w /\ x.age + wait <= Cooldown + Lag
<1>1. PICK x \in sent : x.to = w /\ x.age + wait <= Cooldown + Lag
  BY DEF earned
<1>2. PICK y \in sent' : y.to = x.to /\ y.age = x.age
  BY DEF KeepsTransfers
<1> QED BY <1>1, <1>2

(* What a step between two ticks owes: every wait it writes is earned.     *)
LEMMA WritesEarnedWaits ==
    ASSUME WaitInv, ServiceTypeOK', PageTypeOK', KeepsTransfers,
           \A w \in Wallets : \/ recent'[w] = recent[w] \/ recent'[w] > Cooldown
                              \/ earned(w, tooSoon(recent'[w])),
           \A r \in requests' : r.pc = "answered" =>
              \/ earned(r.to, r.wait)
              \/ \E s \in requests : s.pc = "answered" /\ s.to = r.to /\ s.wait = r.wait,
           \A r \in requests' : r.pc = "sending" =>
              \/ \E s \in requests : s.pc = "sending" /\ s.to = r.to
              \/ \E x \in sent' : x.to = r.to /\ x.age <= Lag,
           \A d \in Devices, w \in Wallets :
              stored'[d][w] = stored[d][w] \/ earned(w, stored'[d][w]),
           WornIsStored'
    PROVE  WaitInv'
<1>1. refusesTheDue'
  <2> SUFFICES ASSUME NEW w \in Wallets, recent'[w] <= Cooldown, tooSoon(recent'[w]) \in 1 .. Cooldown
               PROVE  \E x \in sent' : x.to = w /\ x.age + tooSoon(recent'[w]) <= Cooldown + Lag
    BY DEF refusesTheDue, earned, tooSoon
  <2>1. recent'[w] \in Ages
    BY DEF ServiceTypeOK
  <2>2. earned(w, tooSoon(recent'[w]))
    BY <2>1, Constants DEF WaitInv, refusesTheDue, Ages, Never
  <2> QED BY <2>2, EarnedStays
<1>2. toldToWait'
  <2> SUFFICES ASSUME NEW r \in requests', r.pc = "answered", r.wait \in 1 .. Cooldown
               PROVE  \E x \in sent' : x.to = r.to /\ x.age + r.wait <= Cooldown + Lag
    BY DEF toldToWait, earned
  <2>1. earned(r.to, r.wait)
    BY DEF WaitInv, toldToWait
  <2> QED BY <2>1, EarnedStays
<1>3. StoredIsEarned'
  <2> SUFFICES ASSUME NEW d \in Devices, NEW w \in Wallets, stored'[d][w] \in 1 .. Cooldown
               PROVE  \E x \in sent' : x.to = w /\ x.age + stored'[d][w] <= Cooldown + Lag
    BY DEF StoredIsEarned, earned
  <2>1. earned(w, stored'[d][w])
    BY DEF WaitInv, StoredIsEarned
  <2> QED BY <2>1, EarnedStays
<1>4. FreshWhileSending'
  <2> SUFFICES ASSUME NEW r \in requests', r.pc = "sending"
               PROVE  \E x \in sent' : x.to = r.to /\ x.age <= Lag
    BY DEF FreshWhileSending
  <2>1. CASE \E s \in requests : s.pc = "sending" /\ s.to = r.to
    <3>1. PICK x \in sent : x.to = r.to /\ x.age <= Lag
      BY <2>1 DEF WaitInv, FreshWhileSending
    <3>2. PICK y \in sent' : y.to = x.to /\ y.age = x.age
      BY DEF KeepsTransfers
    <3> QED BY <3>1, <3>2
  <2> QED BY <2>1
<1> QED BY <1>1, <1>2, <1>3, <1>4 DEF WaitInv

LEMMA TickKeepsEarned ==
    ASSUME ServiceTypeOK, Tick, NEW w, NEW wait \in 2 .. Cooldown, earned(w, wait)
    PROVE  \E x \in sent' : x.to = w /\ x.age + (wait - 1) <= Cooldown + Lag
<1>1. wait \in 1 .. Cooldown
  BY Constants
<1>2. PICK x \in sent : x.to = w /\ x.age + wait <= Cooldown + Lag
  BY <1>1 DEF earned
<1>3. x \in Transfers /\ x.age \in Nat
  BY DEF ServiceTypeOK, Transfers
<1>4. counts(x)
  BY <1>2, <1>3, Constants DEF counts
<1> DEFINE y == [x EXCEPT !.age = @ + 1]
<1>5. y \in sent'
  BY <1>4 DEF Tick
<1>6. y.to = x.to /\ y.age = x.age + 1
  BY <1>3 DEF Transfers
<1> HIDE DEF y
<1>7. y.age + (wait - 1) <= Cooldown + Lag
  BY <1>2, <1>3, <1>6, Constants
<1> QED BY <1>2, <1>5, <1>6, <1>7

LEMMA TickKeepsWaitInv ==
    ASSUME WaitInv, ServiceTypeOK', Tick
    PROVE  WaitInv'
<1>1. /\ PageTypeOK'
      /\ \A d \in Devices : /\ device'[d].wallet = device[d].wallet
                            /\ device'[d].strayed = device[d].strayed
                            /\ device'[d].wait = shorter(device[d].wait)
      /\ \A d \in Devices, w \in Wallets : stored'[d][w] = shorter(stored[d][w])
  BY TickKeepsPageType DEF WaitInv
<1>2. \A wait \in 0 .. NoDate : shorter(wait) \in 1 .. Cooldown =>
         wait \in 2 .. Cooldown /\ shorter(wait) = wait - 1
  BY Constants DEF shorter, NoDate
<1>3. \A r \in requests' : \E s \in requests :
         s \in Requests /\ r.pc = s.pc /\ r.to = s.to /\ r.wait = shorter(s.wait)
  <2> SUFFICES ASSUME NEW s \in requests
               PROVE  LET r == [s EXCEPT !.wait = shorter(@)] IN
                      s \in Requests /\ r.pc = s.pc /\ r.to = s.to /\ r.wait = shorter(s.wait)
    BY ZenonT(40) DEF Tick
  <2> QED BY DEF WaitInv, ServiceTypeOK, Requests
<1>4. refusesTheDue'
  <2> SUFFICES ASSUME NEW w \in Wallets, recent'[w] <= Cooldown, tooSoon(recent'[w]) \in 1 .. Cooldown
               PROVE  \E x \in sent' : x.to = w /\ x.age + tooSoon(recent'[w]) <= Cooldown + Lag
    BY DEF refusesTheDue, earned, tooSoon
  <2>1. recent[w] \in 0 .. Cooldown + 1 /\ recent'[w] = older(recent[w])
    BY DEF WaitInv, ServiceTypeOK, Ages, Never, Tick
  <2>2. recent[w] <= Cooldown /\ recent'[w] = recent[w] + 1
    BY <2>1, Constants DEF older, Never
  <2>3. tooSoon(recent[w]) \in 2 .. Cooldown /\ tooSoon(recent'[w]) = tooSoon(recent[w]) - 1
    BY <2>1, <2>2, Constants DEF tooSoon
  <2>4. earned(w, tooSoon(recent[w]))
    BY <2>2 DEF WaitInv, refusesTheDue
  <2> QED BY <2>3, <2>4, TickKeepsEarned DEF WaitInv
<1>5. toldToWait'
  <2> SUFFICES ASSUME NEW r \in requests', r.pc = "answered", r.wait \in 1 .. Cooldown
               PROVE  \E x \in sent' : x.to = r.to /\ x.age + r.wait <= Cooldown + Lag
    BY DEF toldToWait, earned
  <2>1. PICK s \in requests : s \in Requests /\ r.pc = s.pc /\ r.to = s.to /\ r.wait = shorter(s.wait)
    BY <1>3
  <2>2. s.wait \in 2 .. Cooldown /\ r.wait = s.wait - 1
    BY <1>2, <2>1 DEF Requests
  <2>3. earned(s.to, s.wait)
    BY <2>1 DEF WaitInv, toldToWait
  <2> QED BY <2>1, <2>2, <2>3, TickKeepsEarned DEF WaitInv
<1>6. StoredIsEarned'
  <2> SUFFICES ASSUME NEW d \in Devices, NEW w \in Wallets, stored'[d][w] \in 1 .. Cooldown
               PROVE  \E x \in sent' : x.to = w /\ x.age + stored'[d][w] <= Cooldown + Lag
    BY DEF StoredIsEarned, earned
  <2>1. stored[d][w] \in 0 .. NoDate
    BY Constants DEF WaitInv, PageTypeOK, Waits, NoDate
  <2>2. stored[d][w] \in 2 .. Cooldown /\ stored'[d][w] = stored[d][w] - 1
    BY <1>1, <1>2, <2>1
  <2>3. earned(w, stored[d][w])
    BY DEF WaitInv, StoredIsEarned
  <2> QED BY <2>2, <2>3, TickKeepsEarned DEF WaitInv
<1>7. FreshWhileSending'
  <2> SUFFICES ASSUME NEW r \in requests', r.pc = "sending"
               PROVE  \E x \in sent' : x.to = r.to /\ x.age <= Lag
    BY DEF FreshWhileSending
  <2>1. PICK s \in requests : r.pc = s.pc /\ r.to = s.to
    BY <1>3
  <2>2. PICK x \in sent : x.to = s.to /\ inTime(x)
    BY <2>1 DEF Tick
  <2>3. x \in Transfers /\ x.age \in Nat
    BY DEF WaitInv, ServiceTypeOK, Transfers
  <2>4. counts(x) /\ x.age + 1 <= Lag
    BY <2>2, <2>3, Constants DEF counts, inTime
  <2>5. [x EXCEPT !.age = @ + 1] \in sent'
    BY <2>4 DEF Tick
  <2>6. [x EXCEPT !.age = @ + 1].to = x.to /\ [x EXCEPT !.age = @ + 1].age = x.age + 1
    BY <2>3 DEF Transfers
  <2> QED BY <2>1, <2>2, <2>4, <2>5, <2>6
<1>8. WornIsStored'
  <2> SUFFICES ASSUME NEW d \in Devices, ~device'[d].strayed
               PROVE  device'[d].wait = stored'[d][device'[d].wallet]
    BY DEF WornIsStored
  <2>1. device[d].wallet \in Wallets
    BY DEF WaitInv, PageTypeOK, Hooks
  <2>2. device[d].wait = stored[d][device[d].wallet]
    BY <1>1 DEF WaitInv, WornIsStored
  <2> QED BY <1>1, <2>1, <2>2
<1> QED BY <1>1, <1>4, <1>5, <1>6, <1>7, <1>8 DEF WaitInv

-----------------------------------------------------------------------------
(* The steps between two ticks.                                            *)
LEMMA UnchangedKeepsTransfers ==
    ASSUME UNCHANGED sent
    PROVE  KeepsTransfers
BY DEF KeepsTransfers

(* A mark on a transfer changes neither its wallet nor its age.            *)
LEMMA MarkingKeepsTransfers ==
    ASSUME ServiceTypeOK,
           \/ \E w : sent' = forgets(w)
           \/ Restart
           \/ \E w : Indexes(w)
    PROVE  KeepsTransfers
<1>1. sent \subseteq Transfers
  BY DEF ServiceTypeOK
<1>2. ASSUME NEW w, sent' = forgets(w)
      PROVE  KeepsTransfers
  <2> DEFINE marked(x) == [x EXCEPT !.forgotten = @ \/ (x.to = w /\ ~x.indexed)]
  <2>1. \A x \in sent : marked(x).to = x.to /\ marked(x).age = x.age
    BY <1>1 DEF Transfers
  <2>2. \A x \in sent : marked(x) \in sent'
    BY <1>2 DEF forgets
  <2> HIDE DEF marked
  <2> QED BY <2>1, <2>2 DEF KeepsTransfers
<1>3. CASE Restart
  <2> DEFINE marked(x) == [x EXCEPT !.forgotten = @ \/ ~x.indexed]
  <2>1. \A x \in sent : marked(x).to = x.to /\ marked(x).age = x.age
    BY <1>1 DEF Transfers
  <2>2. \A x \in sent : marked(x) \in sent'
    BY <1>3 DEF Restart
  <2> HIDE DEF marked
  <2> QED BY <2>1, <2>2 DEF KeepsTransfers
<1>4. ASSUME NEW w, Indexes(w)
      PROVE  KeepsTransfers
  <2> DEFINE marked(x) == [x EXCEPT !.indexed = @ \/ x.to = w]
  <2>1. \A x \in sent : marked(x).to = x.to /\ marked(x).age = x.age
    BY <1>1 DEF Transfers
  <2>2. \A x \in sent : marked(x) \in sent'
    BY <1>4 DEF Indexes
  <2> HIDE DEF marked
  <2> QED BY <2>1, <2>2 DEF KeepsTransfers
<1> QED BY <1>2, <1>3, <1>4

LEMMA NoDateIsEarned == \A w : earned(w, NoDate)
BY Constants DEF earned, NoDate

(* The requests that are taken out or marked otherwise carry no new wait.  *)
LEMMA PageKeepsWaitInv ==
    ASSUME WaitInv, ServiceTypeOK', PageTypeOK', NEW d \in Devices,
           Press(d) \/ Answered(d) \/ SwitchWallet(d) \/ Reload(d)
    PROVE  WaitInv'
<1>1. CASE Press(d)
  <2>1. WornIsStored'
    BY <1>1 DEF Press, WaitInv, PageTypeOK, Hooks, WornIsStored
  <2> QED BY <1>1, <2>1, UnchangedKeepsTransfers, WritesEarnedWaits DEF Press
<1>2. CASE Answered(d)
  <2>1. PICK r \in requests :
           /\ r.pc = "answered" /\ requests' = requests \ {r} /\ UNCHANGED <<sent, recent>>
           /\ IF r.wait = NoDate
              THEN /\ device' = [device EXCEPT ![d].sending = FALSE]
                   /\ UNCHANGED stored
              ELSE recordCooldown(d, r.to, r.wait)
    BY <1>2 DEF Answered
  <2>2. r.to \in Wallets /\ earned(r.to, r.wait)
    BY <2>1 DEF WaitInv, ServiceTypeOK, Requests, toldToWait
  <2>3. \A f \in Devices, w \in Wallets :
           stored'[f][w] = stored[f][w] \/ (f = d /\ w = r.to /\ stored'[f][w] = r.wait)
    BY <2>1 DEF recordCooldown, WaitInv, PageTypeOK
  <2>4. WornIsStored'
    <3>1. CASE r.wait = NoDate
      BY <2>1, <3>1 DEF WaitInv, PageTypeOK, Hooks, WornIsStored
    <3>2. CASE r.wait # NoDate
      <4>1. /\ device'[d].wallet = device[d].wallet /\ device'[d].wait = r.wait
            /\ device'[d].strayed = (r.to # device[d].wallet)
        BY <2>1, <3>2 DEF recordCooldown, WaitInv, PageTypeOK, Hooks
      <4>2. stored'[d][r.to] = r.wait
        BY <2>1, <2>2, <3>2 DEF recordCooldown, WaitInv, PageTypeOK
      <4>3. \A f \in Devices : f # d => device'[f] = device[f] /\ stored'[f] = stored[f]
        BY <2>1, <3>2 DEF recordCooldown, WaitInv, PageTypeOK
      <4> QED BY <4>1, <4>2, <4>3 DEF WaitInv, WornIsStored
    <3> QED BY <3>1, <3>2
  <2> QED BY <2>1, <2>2, <2>3, <2>4, UnchangedKeepsTransfers, WritesEarnedWaits
<1>3. CASE SwitchWallet(d)
  <2>1. WornIsStored'
    <3>1. PICK w \in visit.owns[d] : ShowsWallet(d, w) /\ UNCHANGED stored
      BY <1>3 DEF SwitchWallet
    <3>2. device'[d].wallet = w /\ device'[d].wait = stored[d][w]
      BY <3>1 DEF ShowsWallet, rememberedCooldown, WaitInv, PageTypeOK, Hooks
    <3>3. \A f \in Devices : f # d => device'[f] = device[f]
      BY <3>1 DEF ShowsWallet, WaitInv, PageTypeOK
    <3> QED BY <3>1, <3>2, <3>3 DEF WaitInv, WornIsStored
  <2> QED BY <1>3, <2>1, UnchangedKeepsTransfers, WritesEarnedWaits DEF SwitchWallet
<1>4. CASE Reload(d)
  <2>1. WornIsStored'
    <3>1. /\ device'[d].wallet = device[d].wallet
          /\ device'[d].wait = stored[d][device[d].wallet]
      BY <1>4 DEF Reload, rememberedCooldown, WaitInv, PageTypeOK, Hooks
    <3>2. \A f \in Devices : f # d => device'[f] = device[f]
      BY <1>4 DEF Reload, WaitInv, PageTypeOK
    <3> QED BY <1>4, <3>1, <3>2 DEF Reload, WaitInv, WornIsStored
  <2>2. \A r \in requests' : \E s \in requests : s.pc = r.pc /\ s.to = r.to /\ s.wait = r.wait
    <3> DEFINE moved(r) == IF r.from = d THEN [r EXCEPT !.from = Nobody] ELSE r
    <3>1. \A s \in requests :
             moved(s).pc = s.pc /\ moved(s).to = s.to /\ moved(s).wait = s.wait
      BY DEF WaitInv, ServiceTypeOK, Requests
    <3>2. \A r \in requests' : \E s \in requests : r = moved(s)
      BY <1>4 DEF Reload
    <3> HIDE DEF moved
    <3> QED BY <3>1, <3>2
  <2> QED BY <1>4, <2>1, <2>2, UnchangedKeepsTransfers, WritesEarnedWaits DEF Reload
<1> QED BY <1>1, <1>2, <1>3, <1>4

(* What a step of the service answers must be earned.                      *)
LEMMA ServiceKeepsWaitInv ==
    ASSUME WaitInv, ServiceTypeOK', PageTypeOK', KeepsTransfers, UNCHANGED stored,
           \A f \in Devices : /\ device'[f].wallet = device[f].wallet
                              /\ device'[f].wait = device[f].wait
                              /\ device'[f].strayed = device[f].strayed,
           \A w \in Wallets : \/ recent'[w] = recent[w] \/ recent'[w] > Cooldown
                              \/ earned(w, tooSoon(recent'[w])),
           \A r \in requests' : r.pc = "answered" =>
              \/ r \in requests
              \/ earned(r.to, r.wait),
           \A r \in requests' : r.pc = "sending" =>
              \/ r \in requests
              \/ \E x \in sent' : x.to = r.to /\ x.age <= Lag
    PROVE  WaitInv'
<1>1. WornIsStored'
  BY DEF WaitInv, WornIsStored
<1> QED BY <1>1, WritesEarnedWaits

LEMMA StepKeepsWaitInv ==
    ASSUME WaitInv, ServiceTypeOK', PageTypeOK', [FaucetNext]_faucetVars
    PROVE  WaitInv'
<1> USE DEF WaitInv
<1>1. CASE Tick
  BY <1>1, TickKeepsWaitInv
<1>2. ASSUME NEW d \in Devices, Press(d) \/ Answered(d) \/ SwitchWallet(d) \/ Reload(d)
      PROVE  WaitInv'
  BY <1>2, PageKeepsWaitInv
<1>3. ASSUME NEW r \in requests, Drip(r)
      PROVE  WaitInv'
  <2>1. /\ UNCHANGED <<sent, recent, device, stored>>
        /\ r.to \in Wallets /\ recent[r.to] \in 0 .. Never
    BY <1>3 DEF Drip, ServiceTypeOK, Requests, Ages
  <2>2. ASSUME NEW wait \in 0 .. NoDate, answers(r, wait), earned(r.to, wait)
        PROVE  WaitInv'
    <3>1. \A s \in requests' : s \in requests \/ (s.pc = "answered" /\ s.to = r.to /\ s.wait = wait)
      BY <2>2 DEF answers, ServiceTypeOK, Requests
    <3> QED BY <2>1, <2>2, <3>1, UnchangedKeepsTransfers, ServiceKeepsWaitInv
  <2>3. CASE goesOn(r, "explorer")
    <3>1. \A s \in requests' : s \in requests \/ s.pc = "explorer"
      BY <2>3 DEF goesOn, ServiceTypeOK, Requests
    <3> QED BY <2>1, <3>1, UnchangedKeepsTransfers, ServiceKeepsWaitInv
  <2>4. NoDate \in 0 .. NoDate
    BY Constants DEF NoDate
  <2>5. recent[r.to] # Never =>
           tooSoon(recent[r.to]) \in 0 .. NoDate /\ earned(r.to, tooSoon(recent[r.to]))
    BY <2>1, Constants DEF tooSoon, NoDate, Never, refusesTheDue
  <2> QED BY <1>3, <2>2, <2>3, <2>4, <2>5, NoDateIsEarned DEF Drip
<1>4. ASSUME NEW r \in requests, ExplorerAnswers(r)
      PROVE  WaitInv'
  <2>1. UNCHANGED <<sent, device, stored>> /\ r.to \in Wallets
    BY <1>4 DEF ExplorerAnswers, ServiceTypeOK, Requests
  <2>2. CASE goesOn(r, "balance") /\ UNCHANGED recent
    <3>1. \A s \in requests' : s \in requests \/ s.pc = "balance"
      BY <2>2 DEF goesOn, ServiceTypeOK, Requests
    <3> QED BY <2>1, <2>2, <3>1, UnchangedKeepsTransfers, ServiceKeepsWaitInv
  <2>3. ASSUME NEW age \in 0 .. Cooldown, isLastDrip(r.to, age),
               recent' = [recent EXCEPT ![r.to] = age], answers(r, tooSoon(age))
        PROVE  WaitInv'
    <3>1. earned(r.to, tooSoon(age))
      BY <2>3, Constants DEF isLastDrip, paid, earned, tooSoon
    <3>2. \A s \in requests' : s \in requests \/ (s.pc = "answered" /\ s.to = r.to /\ s.wait = tooSoon(age))
      BY <2>3 DEF answers, ServiceTypeOK, Requests
    <3>3. \A w \in Wallets : recent'[w] = IF w = r.to THEN age ELSE recent[w]
      BY <2>3 DEF ServiceTypeOK
    <3> QED BY <2>1, <3>1, <3>2, <3>3, UnchangedKeepsTransfers, ServiceKeepsWaitInv
  <2> QED BY <1>4, <2>2, <2>3 DEF ExplorerAnswers
<1>5. ASSUME NEW r \in requests, Sends(r)
      PROVE  WaitInv'
  <2> DEFINE new == Transfer(CHOOSE hash \in unused(r.to) : TRUE, r.to)
  <2>1. UNCHANGED <<recent, device, stored>> /\ new \in sent' /\ sent \subseteq sent'
    BY <1>5 DEF Sends
  <2>2. new.to = r.to /\ new.age = 0
    BY DEF Transfer
  <2> HIDE DEF new
  <2>3. \A s \in requests' : s \in requests \/ (s.pc = "sending" /\ s.to = r.to)
    BY <1>5 DEF Sends, goesOn, ServiceTypeOK, Requests
  <2>4. KeepsTransfers
    BY <2>1 DEF KeepsTransfers
  <2>5. 0 <= Lag
    BY Constants
  <2> QED BY <2>1, <2>2, <2>3, <2>4, <2>5, ServiceKeepsWaitInv
<1>6. ASSUME NEW r \in requests, SendAnswers(r)
      PROVE  WaitInv'
  <2>1. UNCHANGED <<sent, device, stored>> /\ r.to \in Wallets
    BY <1>6 DEF SendAnswers, ServiceTypeOK, Requests
  <2>2. earned(r.to, Cooldown) /\ tooSoon(0) = Cooldown
    <3>1. PICK x \in sent : x.to = r.to /\ x.age <= Lag
      BY <1>6 DEF SendAnswers, FreshWhileSending
    <3>2. x.age \in Nat
      BY DEF ServiceTypeOK, Transfers
    <3> QED BY <3>1, <3>2, Constants DEF earned, tooSoon
  <2>3. \A s \in requests' : s \in requests \/ (s.pc = "answered" /\ s.to = r.to /\ s.wait = Cooldown)
    BY <1>6 DEF SendAnswers, answers, ServiceTypeOK, Requests
  <2>4. \A w \in Wallets : recent'[w] = IF w = r.to THEN 0 ELSE recent[w]
    BY <1>6 DEF SendAnswers, remember, ServiceTypeOK
  <2> QED BY <2>1, <2>2, <2>3, <2>4, UnchangedKeepsTransfers, ServiceKeepsWaitInv
<1>7. ASSUME NEW r \in requests, CallFails(r)
      PROVE  WaitInv'
  <2>1. UNCHANGED <<recent, device, stored>>
    BY <1>7 DEF CallFails
  <2>2. KeepsTransfers
    BY <1>7, UnchangedKeepsTransfers, MarkingKeepsTransfers DEF CallFails
  <2>3. \A s \in requests' : s \in requests \/ (s.pc = "answered" /\ s.wait = NoDate)
    BY <1>7 DEF CallFails, answers, ServiceTypeOK, Requests
  <2> QED BY <2>1, <2>2, <2>3, NoDateIsEarned, ServiceKeepsWaitInv
<1>8. ASSUME NEW r \in requests, NetworkFails(r)
      PROVE  WaitInv'
  <2>1. \A f \in Devices : /\ device'[f].wallet = device[f].wallet
                           /\ device'[f].wait = device[f].wait
                           /\ device'[f].strayed = device[f].strayed
    BY <1>8 DEF NetworkFails, ServiceTypeOK, Requests, PageTypeOK, Hooks
  <2> QED BY <1>8, <2>1, UnchangedKeepsTransfers, ServiceKeepsWaitInv DEF NetworkFails
<1>9. CASE Restart
  <2>1. UNCHANGED <<device, stored>> /\ \A w \in Wallets : recent'[w] = Never
    BY <1>9 DEF Restart
  <2>2. \A s \in requests' : s \in requests \/ (s.pc = "answered" /\ s.wait = NoDate)
    BY <1>9 DEF Restart, ServiceTypeOK, Requests
  <2>3. Never > Cooldown
    BY Constants DEF Never
  <2>4. KeepsTransfers
    BY <1>9, MarkingKeepsTransfers
  <2> QED BY <2>1, <2>2, <2>3, <2>4, NoDateIsEarned, ServiceKeepsWaitInv
<1>10. ASSUME NEW w \in Wallets, Indexes(w)
       PROVE  WaitInv'
  BY <1>10, MarkingKeepsTransfers, ServiceKeepsWaitInv DEF Indexes
<1>11. CASE UNCHANGED faucetVars
  BY <1>11, UnchangedKeepsTransfers, ServiceKeepsWaitInv DEF faucetVars
<1> QED BY <1>1, <1>2, <1>3, <1>4, <1>5, <1>6, <1>7, <1>8, <1>9, <1>10, <1>11 DEF FaucetNext, Serves

LEMMA InitKeepsWaitInv ==
    ASSUME FaucetInit, PayInv, PageTypeOK
    PROVE  WaitInv
<1>1. ServiceTypeOK
  BY DEF PayInv
<1>2. refusesTheDue
  BY Constants DEF FaucetInit, refusesTheDue, Never
<1>3. StoredIsEarned
  BY DEF FaucetInit, StoredIsEarned, earned
<1>4. \A d \in Devices : device[d].wallet \in Wallets /\ device[d].wait = 0
  BY DEF FaucetInit, PageTypeOK, Hooks
<1>5. WornIsStored
  BY <1>4 DEF FaucetInit, WornIsStored
<1> QED BY <1>1, <1>2, <1>3, <1>5 DEF FaucetInit, WaitInv, FreshWhileSending, toldToWait

(* A wait is for a transfer that went out to that wallet and ends with its *)
(* cooldown, in the memory of the service, in its answers, in the storage  *)
(* of each device and on the button.                                       *)
THEOREM NobodyWaitsForNothing == FaucetSpec => []WaitsAreEarned
<1>1. FaucetInit => PayInv /\ WaitInv
  BY InitHolds, InitKeepsWaitInv
<1>2. PayInv /\ WaitInv /\ [FaucetNext]_faucetVars => (PayInv /\ WaitInv)'
  <2> SUFFICES ASSUME PayInv, WaitInv, [FaucetNext]_faucetVars
               PROVE  PayInv' /\ WaitInv'
    OBVIOUS
  <2>1. PageTypeOK /\ PayInv' /\ PageTypeOK'
    BY StepKeepsPayInv, StepKeepsPageType DEF WaitInv
  <2> QED BY <2>1, StepKeepsWaitInv DEF PayInv
<1>3. WaitInv => WaitsAreEarned
  <2> SUFFICES ASSUME WaitInv, NEW d \in Devices, ~device[d].strayed
               PROVE  /\ device[d].wait = stored[d][device[d].wallet]
                      /\ earned(device[d].wallet, device[d].wait)
    BY DEF WaitInv, WaitsAreEarned, wearsItsOwnClock
  <2>1. device[d].wallet \in Wallets
    BY DEF WaitInv, PageTypeOK, Hooks
  <2>2. device[d].wait = stored[d][device[d].wallet]
    BY DEF WaitInv, WornIsStored
  <2>3. earned(device[d].wallet, stored[d][device[d].wallet])
    BY <2>1 DEF WaitInv, StoredIsEarned
  <2> QED BY <2>2, <2>3
<1> QED BY <1>1, <1>2, <1>3, PTL DEF FaucetSpec
=============================================================================
